------------------------------- MODULE HitRun -------------------------------
(***************************************************************************)
(* Hit and run (hitrun/sweep.go, policy.go, store.go): an hourly job reads    *)
(* who took a torrent and left, tells them, and warns those who did not come *)
(* back.  It decides on what it read at its start.                           *)
(***************************************************************************)
EXTENDS Announce

CONSTANTS
    ActiveWindow, \* ticks after an announce that count as still seeding
    Prewarn,      \* ticks away before the notice
    Grace,        \* ticks away, and ticks since the notice, before the warning
    WarnLife      \* ticks a warning lasts

ASSUME HitRunAssumption ==
    /\ {ActiveWindow, Prewarn, Grace} \subseteq Nat
    /\ WarnLife \in Nat \ {0}

VARIABLES
    notice,      \* member, torrent -> when the prewarning was recorded, or Never
    warning,     \* member, torrent -> row: issued, until, cleared
    told,        \* ghost: member, torrent -> notices and warnings they received
    broken       \* ghost: a sweep ended before its end

hitrunVars == <<notice, warning, told, broken>>

Never == -1
Pairs == Member \X Torrent

NoWarning == [issued |-> Never, until |-> 0, cleared |-> FALSE]

HitRunInit ==
    /\ notice  = [q \in Pairs |-> Never]
    /\ warning = [q \in Pairs |-> NoWarning]
    /\ told    = [q \in Pairs |-> [notices |-> 0, warnings |-> 0]]
    /\ broken  = FALSE

Row(q) == stats[q[1]][q[2]]

SweepStart(r) ==
    /\ At(r, "sweep", "start") /\ call[r].todo > 0
    /\ call' = [call EXCEPT ![r].pc = "expire", ![r].todo = @ - 1,
                  ![r].seen = [now |-> clock, left |-> {}, at |-> {}, touched |-> {}]]
    /\ UNCHANGED <<faults, timeVars, hitrunVars>>

(* A call fails and the sweep with it.                                       *)
SweepFails(r) == Fault /\ Goto(r, "start") /\ broken' = TRUE

(* ExpireWarnings: cleared, never deleted.                                   *)
SweepExpire(r) ==
    /\ At(r, "sweep", "expire")
    /\ \/ /\ NoFault /\ Goto(r, "read") /\ UNCHANGED broken
          /\ warning' = [q \in Pairs |->
                [warning[q] EXCEPT !.cleared = @ \/ (warning[q].issued # Never
                                                     /\ warning[q].until <= Seen(r).now)]]
       \/ SweepFails(r) /\ UNCHANGED warning
    /\ UNCHANGED <<timeVars, notice, told>>

Active(q) == warning[q].issued # Never /\ ~warning[q].cleared

(* Candidates: rows with a download and no warning that stands, as they are  *)
(* now, each with whether it still seeds and when it was told.               *)
Candidate(q) == [who |-> q[1], torrent |-> q[2], row |-> Row(q), told |-> notice[q],
                 seeding |-> clock - Row(q).seen < ActiveWindow]

SweepRead(r) ==
    /\ At(r, "sweep", "read")
    /\ \/ /\ NoFault /\ UNCHANGED broken
          /\ Note(r, "judge", [Seen(r) EXCEPT !.left =
                {Candidate(q) : q \in {p \in Pairs : Row(p).down > 0 /\ ~Active(p)}}])
       \/ SweepFails(r)
    /\ UNCHANGED <<timeVars, notice, warning, told>>

\* Mutant: who was told is warned when away long enough, told just now or not.
VerdictByAbsence(c, now) ==
    IF c.seeding \/ c.row.up >= c.row.down \/ Free(Web, c.who, c.torrent) THEN "satisfied"
    ELSE IF c.told = Never THEN IF now - c.row.seen < Prewarn THEN "satisfied" ELSE "prewarn"
    ELSE IF now - c.row.seen < Grace THEN "satisfied" ELSE "warn"
(* Evaluate: each way out is a reason not to punish.  The seedtime of a row  *)
(* is written by nothing, so it is never met; the ratio may be.  Downloads   *)
(* are above the buffer.                                                     *)
Verdict(c, now) ==
    IF c.seeding \/ c.row.up >= c.row.down \/ Free(Web, c.who, c.torrent) THEN "satisfied"
    ELSE IF c.told = Never THEN IF now - c.row.seen < Prewarn THEN "satisfied" ELSE "prewarn"
    ELSE IF now - c.told < Grace \/ now - c.row.seen < Grace THEN "satisfied" ELSE "warn"

Pair(c) == <<c.who, c.torrent>>

(* One candidate, the latest announce first.  RecordPrewarning and           *)
(* IssueWarning leave a row that is there as it is.                          *)
Judge(r) ==
    /\ At(r, "sweep", "judge")
    /\ \E c \in Seen(r).left :
        LET q    == Pair(c)
            rest == [Seen(r) EXCEPT !.left = @ \ {c}, !.at = {q}]
        IN
        /\ \A d \in Seen(r).left : d.row.seen <= c.row.seen
        /\ \/ /\ Verdict(c, Seen(r).now) = "satisfied"
              /\ Note(r, "judge", rest) /\ NoFault /\ UNCHANGED <<notice, warning, broken>>
           \/ /\ Verdict(c, Seen(r).now) = "prewarn"
              /\ notice' = [notice EXCEPT ![q] = IF @ = Never THEN clock ELSE @]
              /\ Note(r, "notify", rest) /\ NoFault /\ UNCHANGED <<warning, broken>>
           \/ /\ Verdict(c, Seen(r).now) = "warn"
              /\ warning' = [warning EXCEPT ![q] = IF @ # NoWarning THEN @ ELSE
                    [issued |-> Seen(r).now, until |-> Seen(r).now + WarnLife, cleared |-> FALSE]]
              /\ Note(r, "warn", [rest EXCEPT !.touched = @ \cup {c.who}])
              /\ NoFault /\ UNCHANGED <<notice, broken>>
           \/ /\ Verdict(c, Seen(r).now) # "satisfied"
              /\ SweepFails(r) /\ UNCHANGED <<notice, warning>>
    /\ UNCHANGED <<timeVars, told>>

(* The host is told, and tells the member.                                   *)
Tell(r) ==
    /\ call[r].op = "sweep" /\ call[r].pc \in {"notify", "warn"}
    /\ told' = [q \in Pairs |-> IF q \notin Seen(r).at THEN told[q] ELSE
                  IF call[r].pc = "warn" THEN [told[q] EXCEPT !.warnings = @ + 1]
                  ELSE [told[q] EXCEPT !.notices = @ + 1]]
    /\ Goto(r, "judge")
    /\ UNCHANGED <<faults, timeVars, notice, warning, broken>>

(* The limit, asked once for each member who gained a warning; the host       *)
(* hears of it, and nothing is written.                                      *)
SweepLimit(r) ==
    /\ At(r, "sweep", "judge") /\ Seen(r).left = {}
    /\ \/ /\ Seen(r).touched = {}
          /\ Note(r, "start", [now |-> 0]) /\ NoFault /\ UNCHANGED broken
       \/ \E m \in Seen(r).touched :
          \/ NoFault /\ Note(r, "judge", [Seen(r) EXCEPT !.touched = @ \ {m}]) /\ UNCHANGED broken
          \/ SweepFails(r)
    /\ UNCHANGED <<timeVars, notice, warning, told>>

(* ClearWarning: a moderator lifts a warning that stands.                    *)
Pardon(r) ==
    LET q == <<Who(r), Arg(r).torrent>> IN
    /\ At(r, "pardon", "start") /\ Active(q)
    /\ warning' = [warning EXCEPT ![q].cleared = TRUE]
    /\ Goto(r, "done")
    /\ UNCHANGED <<faults, timeVars, notice, told, broken>>

(* The process ends.                                                         *)
SweepDies(r) ==
    /\ call[r].op = "sweep" /\ call[r].pc # "start"
    /\ SweepFails(r)
    /\ UNCHANGED <<timeVars, notice, warning, told>>

HitRunNext == \E r \in Req :
    \/ SweepStart(r) \/ SweepExpire(r) \/ SweepRead(r) \/ Judge(r) \/ Tell(r)
    \/ SweepLimit(r) \/ Pardon(r) \/ SweepDies(r)
=============================================================================
