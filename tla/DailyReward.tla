---------------------------- MODULE DailyReward ----------------------------
(***************************************************************************)
(* The daily reward (dailyreward/store.go, views.go): one claim a day, and  *)
(* a streak of consecutive days that raises it.  The claim is a             *)
(* transaction that locks the member's row, if there is one.                *)
(***************************************************************************)
EXTENDS Points

CONSTANTS
    FirstDay,    \* the day on which a model run starts
    LastDay,     \* bound: the last day
    Claimed,     \* members who claimed on the day before FirstDay
    RewardFor    \* streak -> points

ASSUME DailyAssumption ==
    /\ FirstDay \in Nat \ {0} /\ LastDay \in Nat /\ FirstDay <= LastDay
    /\ Claimed \subseteq Member
    /\ \A k \in 1..(LastDay - FirstDay + 2) : RewardFor[k] \in Nat

VARIABLES
    today,       \* the calendar
    daily,       \* member -> the row of daily_rewards; streak 0 is no row
    awards,      \* ghost: <<member, day, request>> of the claims that were taken
    minted       \* ghost: points paid for claims

dailyVars == <<today, daily, awards, minted>>

DailyInit ==
    /\ today = FirstDay
    /\ daily = [m \in Member |-> IF m \in Claimed
                                 THEN [last |-> FirstDay - 1, streak |-> 1]
                                 ELSE [last |-> 0, streak |-> 0]]
    /\ awards = {<<m, FirstDay - 1, "before">> : m \in Claimed}
    /\ minted = 0

Row(m) == daily[m].streak > 0

\* Mutant: any earlier claim continues the streak.
NextStreakAny(row, day) == row.streak + 1
(* A claim on the day after the last one continues the streak.              *)
NextStreak(row, day) == IF row.last = day - 1 THEN row.streak + 1 ELSE 1

Taken(r, row, day) ==
    LET k == NextStreak(row, day) IN
    /\ daily' = [daily EXCEPT ![Who(r)] = [last |-> day, streak |-> k]]
    /\ awards' = awards \cup {<<Who(r), day, r>>}
    /\ call' = [call EXCEPT ![r].pc = "taken", ![r].amt = RewardFor[k]]

(* The handler takes the date.                                              *)
DailyStart(r) ==
    /\ At(r, "daily", "start")
    /\ call' = [call EXCEPT ![r].pc = "dated", ![r].arg = today]
    /\ UNCHANGED <<balance, faults, dailyVars>>

(* Claim with a row: SELECT ... FOR UPDATE locks it until the commit.       *)
ClaimLocked(r) ==
    /\ At(r, "daily", "dated")
    /\ Row(Who(r))
    /\ IF daily[Who(r)].last = call[r].arg
       THEN Goto(r, "refused") /\ UNCHANGED <<daily, awards>>
       ELSE Taken(r, daily[Who(r)], call[r].arg)
    /\ UNCHANGED <<balance, faults, today, minted>>

(* Claim without a row: there is nothing to lock, and another claim may     *)
(* come between the read and the upsert, which then overwrites.             *)
ClaimUnlocked(r) ==
    /\ At(r, "daily", "dated")
    /\ ~Row(Who(r))
    /\ Goto(r, "unlocked")
    /\ UNCHANGED <<balance, faults, dailyVars>>

Upsert(r) ==
    /\ At(r, "daily", "unlocked")
    /\ Taken(r, [last |-> 0, streak |-> 0], call[r].arg)
    /\ UNCHANGED <<balance, faults, today, minted>>

(* The award follows the commit; when it fails the day stays claimed.       *)
DailyAward(r) ==
    /\ At(r, "daily", "taken")
    /\ \/ /\ balance' = [balance EXCEPT ![Who(r)] = @ + Amt(r)]
          /\ minted' = minted + Amt(r)
          /\ Goto(r, "done")
          /\ NoFault
       \/ /\ Fault
          /\ call' = [call EXCEPT ![r].pc = "done", ![r].owed = TRUE]
          /\ UNCHANGED <<balance, minted>>
    /\ UNCHANGED <<today, daily, awards>>

(* A day passes; a bound: only in runs in which somebody claims.            *)
Midnight ==
    /\ today < LastDay
    /\ \E r \in Req : call[r].op = "daily"
    /\ today' = today + 1
    /\ UNCHANGED <<pointsVars, daily, awards, minted>>

DailyDie(r) ==
    /\ call[r].op = "daily"
    /\ Die(r)
    /\ UNCHANGED dailyVars

DailyNext ==
    \/ Midnight
    \/ \E r \in Req :
          \/ DailyStart(r) \/ ClaimLocked(r) \/ ClaimUnlocked(r)
          \/ Upsert(r) \/ DailyAward(r) \/ DailyDie(r)
=============================================================================
