---------------------------- MODULE RewardGrants ----------------------------
(***************************************************************************)
(* The reward engine (rewards/engine.go, units.go, store_pg.go).  A grant   *)
(* records that a member is owed a reward under a reference, with the       *)
(* payout lines frozen onto it; settling hands the lines over one by one,   *)
(* each marked as it lands, and then credits the grant.  Grants come from   *)
(* triggers, from other plugins (GrantOneOff) and from the job that pays    *)
(* counters by the unit; the same job expires what nobody collected.        *)
(***************************************************************************)
EXTENDS Points, Sequences

CONSTANTS
    Reward,      \* slug -> kind, delivery, whether grants expire, payout lines (points, or
                 \* a lootbox with the prizes that may be drawn)
    Baseline,    \* member -> where per-unit rewards start counting
    MaxCount     \* bound on the counters

ASSUME RewardAssumption ==
    /\ \A s \in DOMAIN Reward :
          /\ Reward[s].delivery \in {"auto", "claim"}
          /\ Reward[s].expires \in BOOLEAN
          /\ Reward[s].lines \in Seq([points : Nat, box : SUBSET DOMAIN Reward])
    /\ \A p \in Plans : \A r \in Req :
          /\ p[r].op = "grant" => p[r].arg \in DOMAIN Reward
          /\ p[r].op = "units" => p[r].arg.slug \in DOMAIN Reward
    /\ Baseline \in [Member -> Nat] /\ MaxCount \in Nat

VARIABLES
    grants,      \* reward_grants in order of id, with their frozen lines
    settling,    \* request -> the grant it settles and the lines it read
    counted,     \* member -> the host's counter
    paidOut      \* ghost: points handed over by settled lines

grantVars == <<grants, settling, counted, paidOut>>

GrantsInit ==
    /\ grants = <<>>
    /\ settling = [r \in Req |-> [grant |-> 0, lines |-> {}]]
    /\ counted = Baseline
    /\ paidOut = 0

\* Mutant: the baseline a counter starts from is not looked at.
PreviousMarkNoBase(m) ==
    Max({0} \cup {grants[g].mark : g \in {h \in DOMAIN grants : grants[h].who = m}})
(* PreviousMark: the furthest that was granted, or told to start from.      *)
PreviousMark(m) ==
    Max({Baseline[m]} \cup {grants[g].mark : g \in {h \in DOMAIN grants : grants[h].who = m}})

(* The UNIQUE on (reward, user, reference).                                 *)
Held(slug, m, ref) == \E g \in DOMAIN grants :
    grants[g].reward = slug /\ grants[g].who = m /\ grants[g].ref = ref

(* The row, and how often each line was handed over (a ghost).              *)
NewGrant(slug, m, ref, mark, units) ==
    [reward |-> slug, who |-> m, ref |-> ref, mark |-> mark, units |-> units,
     state |-> "pending", settled |-> {},
     handed |-> [l \in DOMAIN Reward[slug].lines |-> 0]]

(* CreateGrant, and whether it goes on to Settle: a reference already held  *)
(* is the ordinary answer to a retry.                                       *)
Insert(r, slug, ref, mark, units) ==
    \/ /\ ~Held(slug, Who(r), ref)
       /\ grants' = Append(grants, NewGrant(slug, Who(r), ref, mark, units))
       /\ settling' = [settling EXCEPT ![r] = [grant |-> Len(grants) + 1, lines |-> {}]]
       /\ Goto(r, IF Reward[slug].delivery = "auto" THEN "read" ELSE "granted")
       /\ NoFault
    \/ /\ \/ Held(slug, Who(r), ref) /\ NoFault /\ Goto(r, "granted")
          \/ Fault /\ Goto(r, "ungranted")
       /\ UNCHANGED <<grants, settling>>

Mine(r) == settling[r].grant

(* Settle reads the grant and the lines that were not settled.              *)
SettleRead(r) ==
    /\ call[r].pc = "read"
    /\ LET g == grants[Mine(r)] IN
       \/ /\ NoFault
          /\ Goto(r, CASE g.state = "pending"  -> "lines"
                       [] g.state = "credited" -> "granted"
                       [] OTHER                -> "failed")
          /\ settling' = [settling EXCEPT ![r].lines = DOMAIN g.handed \ g.settled]
       \/ Fault /\ Goto(r, "failed") /\ UNCHANGED settling
    /\ UNCHANGED <<balance, grants, counted, paidOut>>

\* Mutant: a payout that failed is marked with the others.
AfterFailureMarked == "mark"
(* A payout that failed ends the settlement.                                *)
AfterFailure == "failed"

(* A line is executed: points are awarded, scaled by the units; a lootbox   *)
(* draws a prize and grants it by slug under the line's own reference.      *)
PayLine(r) ==
    /\ call[r].pc = "lines" /\ settling[r].lines # {}
    /\ LET i == Mine(r)
           g == grants[i]
           l == Min(settling[r].lines)
           line == Reward[g.reward].lines[l]
           handed == [grants EXCEPT ![i].handed[l] = @ + 1]
       IN
       \/ /\ line.box = {}
          /\ balance' = [balance EXCEPT ![g.who] = @ + line.points * g.units]
          /\ paidOut' = paidOut + line.points * g.units
          /\ grants' = handed
          /\ NoFault /\ Goto(r, "mark")
       \/ /\ line.box # {}
          /\ \E prize \in line.box :
                grants' = IF Held(prize, g.who, <<"box", i, l>>) THEN handed
                          ELSE Append(handed, NewGrant(prize, g.who, <<"box", i, l>>, 0, 1))
          /\ NoFault /\ Goto(r, "mark")
          /\ UNCHANGED <<balance, paidOut>>
       \/ /\ Fault
          /\ call' = [call EXCEPT ![r].pc = AfterFailure, ![r].owed = TRUE]
          /\ UNCHANGED <<balance, paidOut, grants>>
    /\ UNCHANGED <<settling, counted>>

MarkLine(r) ==
    /\ call[r].pc = "mark"
    /\ LET l == Min(settling[r].lines) IN
       \/ /\ grants' = [grants EXCEPT ![Mine(r)].settled = @ \cup {l}]
          /\ settling' = [settling EXCEPT ![r].lines = @ \ {l}]
          /\ NoFault /\ Goto(r, "lines")
       \/ /\ Fault
          /\ call' = [call EXCEPT ![r].pc = "failed", ![r].owed = TRUE]
          /\ UNCHANGED <<grants, settling>>
    /\ UNCHANGED <<balance, counted, paidOut>>

\* Mutant: a grant the sweep expired meanwhile is left expired.
CreditablePending(state) == state = "pending"
(* SettleGrant: state <> 'credited', expired by the sweep meanwhile or not. *)
Creditable(state) == state # "credited"

SettleGrant(r) ==
    /\ call[r].pc = "lines" /\ settling[r].lines = {}
    /\ \/ /\ grants' = [grants EXCEPT ![Mine(r)].state =
                           IF Creditable(@) THEN "credited" ELSE @]
          /\ NoFault /\ Goto(r, "granted")
       \/ /\ Fault
          /\ call' = [call EXCEPT ![r].pc = "failed", ![r].owed = TRUE]
          /\ UNCHANGED grants
    /\ UNCHANGED <<balance, settling, counted, paidOut>>

(* memberClaim: one of the member's own pending grants.                     *)
ClaimGrant(r) ==
    /\ At(r, "collect", "start")
    /\ \E g \in DOMAIN grants :
          /\ grants[g].who = Who(r) /\ grants[g].state = "pending"
          /\ settling' = [settling EXCEPT ![r].grant = g]
    /\ Goto(r, "read")
    /\ UNCHANGED <<balance, faults, grants, counted, paidOut>>

(* Fire and GrantOneOff: the one-off reward in arg.                         *)
GrantOneOff(r) ==
    /\ At(r, "grant", "start")
    /\ Insert(r, call[r].arg, <<"once">>, 0, 1)
    /\ UNCHANGED <<balance, counted, paidOut>>

(* GrantUnits for one member: the counter is read, then GrantPerUnit reads  *)
(* how far was paid and grants the difference under the new mark.           *)
UnitsRead(r) ==
    /\ At(r, "units", "start")
    /\ counted[Who(r)] > PreviousMark(Who(r))
    /\ call' = [call EXCEPT ![r].pc = "counted", ![r].amt = counted[Who(r)]]
    /\ UNCHANGED <<balance, faults, grantVars>>

UnitsOwed(r) ==
    /\ At(r, "units", "counted")
    /\ LET owed == Amt(r) - PreviousMark(Who(r)) IN
       IF owed > 0
       THEN call' = [call EXCEPT ![r].pc = "owed", ![r].hand = 0,
                                 ![r].arg = [slug |-> call[r].arg.slug, units |-> owed]]
       ELSE Goto(r, "granted")
    /\ UNCHANGED <<balance, faults, grantVars>>

GrantPerUnit(r) ==
    /\ At(r, "units", "owed")
    /\ Insert(r, call[r].arg.slug, <<"mark", Amt(r)>>, Amt(r), call[r].arg.units)
    /\ UNCHANGED <<balance, counted, paidOut>>

(* The request ends; the job is back for its next tick.                     *)
GrantReturn(r) ==
    /\ call[r].op \in {"collect", "grant", "units"}
    /\ \/ call[r].pc = "granted" /\ Goto(r, IF call[r].op = "units" THEN "start" ELSE "done")
       \/ call[r].pc \in {"failed", "ungranted"}
          /\ Goto(r, IF call[r].op = "units" THEN "start" ELSE "refused")
    /\ UNCHANGED <<balance, faults, grantVars>>

(* What ExpireGrants takes: pending, past its time, and no line settled.    *)
Lapsed(g) == g.state = "pending" /\ Reward[g.reward].expires /\ g.settled = {}

ExpireGrants(r) ==
    /\ At(r, "expire", "start")
    /\ \E late \in SUBSET {g \in DOMAIN grants : Lapsed(grants[g])} :
          grants' = [g \in DOMAIN grants |->
                       IF g \in late THEN [grants[g] EXCEPT !.state = "expired"]
                       ELSE grants[g]]
    /\ Goto(r, "done")
    /\ UNCHANGED <<balance, faults, settling, counted, paidOut>>

(* The host's counter moves, and falls when something counted is removed.   *)
Count ==
    /\ \E r \in Req : /\ call[r].op = "units"
                      /\ counted' \in {[counted EXCEPT ![Who(r)] = n] :
                                          n \in {counted[Who(r)] + 1, counted[Who(r)] - 1} \cap 0..MaxCount}
    /\ UNCHANGED <<pointsVars, grants, settling, paidOut>>

(* The process ends; the job starts again with the next one.               *)
GrantDie(r) ==
    /\ \/ call[r].op \in {"collect", "grant"} /\ Die(r)
       \/ /\ call[r].op = "units" /\ call[r].pc # "start"
          /\ Fault /\ Goto(r, "start") /\ UNCHANGED balance
    /\ UNCHANGED grantVars

(* Settling is the same for every request that granted something.           *)
SettleStep(r) == SettleRead(r) \/ PayLine(r) \/ MarkLine(r) \/ SettleGrant(r)

GrantsNext ==
    \/ Count
    \/ \E r \in Req :
          \/ ClaimGrant(r) \/ GrantOneOff(r) \/ UnitsRead(r) \/ UnitsOwed(r)
          \/ GrantPerUnit(r) \/ GrantReturn(r) \/ ExpireGrants(r) \/ GrantDie(r)
=============================================================================
