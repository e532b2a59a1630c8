---------------------------- MODULE Achievements ----------------------------
(***************************************************************************)
(* Achievements (achievements/subscribe.go, jobs.go, store_pg.go): one      *)
(* achievement on one counter.  An event adds to a member's progress, the   *)
(* scoring job sets it from the counter; whoever sees the threshold met     *)
(* completes it, then pays its reward through the reward engine, then       *)
(* stamps it paid.  What was completed and not stamped the job pays again.  *)
(***************************************************************************)
EXTENDS RewardGrants

CONSTANTS
    Threshold,   \* of the achievement
    Badge        \* slug of the one-off reward it pays

ASSUME AchievementAssumption == Threshold \in Nat \ {0} /\ Badge \in DOMAIN Reward

VARIABLES
    ach,         \* member -> the row of user_achievements, and (ghost) announcements
    backfilled   \* the first scoring pass is over

achVars == <<ach, backfilled>>

AchInit ==
    /\ ach = [m \in Member |-> [progress |-> 0, completed |-> FALSE,
                                paid |-> FALSE, told |-> 0]]
    /\ backfilled = FALSE

Job == "score"
BadgeRef == <<"achievement">>

(* Scoring threads a completion through with the members still to score,    *)
(* the counters as they were read, and whether the pass is the backfill.    *)
Arg(phase, todo, values, silent) ==
    [phase |-> phase, todo |-> todo, values |-> values, silent |-> silent]

(* A member does what is counted, and the event is emitted.                 *)
Post(r) ==
    /\ At(r, "post", "start")
    /\ counted[Who(r)] < MaxCount
    /\ counted' = [counted EXCEPT ![Who(r)] = @ + 1]
    /\ Goto(r, "event")
    /\ UNCHANGED <<balance, faults, grants, settling, paidOut, achVars>>

Met(m, progress) == progress >= Threshold /\ ~ach[m].completed

(* scoreEvent: one more, by an upsert that says whether that reached it.  A *)
(* failure is logged and the increment is lost.                             *)
Increment(r) ==
    /\ At(r, "post", "event")
    /\ \/ /\ ach' = [ach EXCEPT ![Who(r)].progress = @ + 1]
          /\ call' = [call EXCEPT
                ![r].pc = IF Met(Who(r), ach[Who(r)].progress + 1) THEN "complete" ELSE "done",
                ![r].arg = Arg("event", {}, <<>>, ~backfilled)]
          /\ NoFault
       \/ Fault /\ Goto(r, "done") /\ UNCHANGED ach
    /\ UNCHANGED <<balance, grantVars, backfilled>>

(* runScoring reads the definitions, then the counters.                     *)
ScoreRead(r) ==
    /\ At(r, Job, "start")
    /\ call' = [call EXCEPT ![r].pc = "scoring", ![r].arg =
                  Arg("score", {m \in Member : counted[m] > 0}, counted, ~backfilled)]
    /\ UNCHANGED <<balance, faults, grantVars, achVars>>

(* scoreMetric: the counter replaces the progress; a failing write ends the *)
(* pass, unstamped.                                                         *)
ScoreOne(r) ==
    /\ At(r, Job, "scoring")
    /\ \E m \in call[r].arg.todo :
       \/ /\ ach' = [ach EXCEPT ![m].progress = call[r].arg.values[m]]
          /\ call' = [call EXCEPT
                ![r].who = m, ![r].arg.todo = @ \ {m},
                ![r].pc = IF Met(m, call[r].arg.values[m]) THEN "complete" ELSE "scoring"]
          /\ NoFault
       \/ Fault /\ Goto(r, "unpaid") /\ UNCHANGED ach
    /\ UNCHANGED <<balance, grantVars, backfilled>>

MarkBackfilled(r) ==
    /\ At(r, Job, "scoring")
    /\ call[r].arg.todo = {}
    /\ \/ backfilled' = TRUE /\ NoFault
       \/ Fault /\ UNCHANGED backfilled
    /\ Goto(r, "unpaid")
    /\ UNCHANGED <<balance, grantVars, ach>>

(* Where a completion goes on when it is over, paid or not.                 *)
Back(r) == IF call[r].op = "post" THEN "done"
           ELSE IF call[r].arg.phase = "score" THEN "scoring" ELSE "repairing"

(* CompleteAchievement: WHERE completed_at IS NULL arbitrates.              *)
Latch(m) == ~ach[m].completed

Complete(r) ==
    /\ call[r].op \in {"post", Job} /\ call[r].pc = "complete"
    /\ \/ /\ Latch(Who(r)) /\ NoFault
          /\ ach' = [ach EXCEPT ![Who(r)].completed = TRUE]
          /\ Goto(r, "pay")
       \/ /\ \/ ~Latch(Who(r)) /\ NoFault
             \/ Fault
          /\ Goto(r, Back(r))
          /\ UNCHANGED ach
    /\ UNCHANGED <<balance, grantVars, backfilled>>

(* payReward: GrantOneOff under the achievement's own reference.            *)
PayBadge(r) ==
    /\ call[r].op \in {"post", Job} /\ call[r].pc = "pay"
    /\ Insert(r, Badge, BadgeRef, 0, 1)
    /\ UNCHANGED <<balance, counted, paidOut, achVars>>

\* Mutant: a refused payment is stamped with the paid ones.
StampsAll(r) == TRUE
(* GrantOneOff logs a settlement that failed; a grant that was not written  *)
(* is an error, and the row stays unpaid.                                   *)
Stamps(r) == call[r].pc # "ungranted"

(* MarkPaid, unless it was refused, and the announcement of a completion.   *)
Stamp(r) ==
    /\ call[r].op \in {"post", Job} /\ call[r].pc \in {"granted", "failed", "ungranted"}
    /\ LET tells == IF call[r].arg.phase = "repair" \/ call[r].arg.silent THEN 0 ELSE 1
       IN
       \/ /\ ach' = [ach EXCEPT ![Who(r)].paid = @ \/ Stamps(r),
                                ![Who(r)].told = @ + tells]
          /\ NoFault
       \/ Fault /\ ach' = [ach EXCEPT ![Who(r)].told = @ + tells]
    /\ Goto(r, Back(r))
    /\ UNCHANGED <<balance, grantVars, backfilled>>

(* repayUnpaid: completed rows without a stamp, each paid again.            *)
Unpaid(r) ==
    /\ At(r, Job, "unpaid")
    /\ call' = [call EXCEPT ![r].pc = "repairing", ![r].arg =
                  Arg("repair", {m \in Member : ach[m].completed /\ ~ach[m].paid}, <<>>, TRUE)]
    /\ UNCHANGED <<balance, faults, grantVars, achVars>>

Repair(r) ==
    /\ At(r, Job, "repairing")
    /\ \/ \E m \in call[r].arg.todo :
             call' = [call EXCEPT ![r].who = m, ![r].arg.todo = @ \ {m}, ![r].pc = "pay"]
       \/ /\ call[r].arg.todo = {}
          /\ call' = [call EXCEPT ![r].pc = "start", ![r].arg = Arg("repair", {}, <<>>, TRUE)]
    /\ UNCHANGED <<balance, faults, grantVars, achVars>>

(* The process ends; the job is started again by the next one.              *)
AchDie(r) ==
    /\ \/ call[r].op = "post" /\ Die(r)
       \/ /\ call[r].op = Job /\ call[r].pc # "start"
          /\ Fault /\ Goto(r, "start") /\ UNCHANGED balance
    /\ UNCHANGED <<grantVars, achVars>>

ScoreStep(r) ==
    \/ ScoreRead(r) \/ ScoreOne(r) \/ MarkBackfilled(r) \/ Unpaid(r) \/ Repair(r)
    \/ call[r].op = Job /\ (Complete(r) \/ PayBadge(r) \/ Stamp(r))

AchievementsNext == \E r \in Req :
    \/ Post(r) \/ Increment(r) \/ ScoreRead(r) \/ ScoreOne(r) \/ MarkBackfilled(r)
    \/ Complete(r) \/ PayBadge(r) \/ Stamp(r) \/ Unpaid(r) \/ Repair(r) \/ AchDie(r)
=============================================================================
