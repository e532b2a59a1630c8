------------------------------ MODULE PotGame ------------------------------
(***************************************************************************)
(* The pot (games/games.go, games/pg.go): members drop points in, whoever   *)
(* fills it closes it, a draw weighted by what was given pays a share of it *)
(* to one of them, and whoever gave enough gets a consolation reward.       *)
(* Charity, the other game, hands an amount out at once.                    *)
(***************************************************************************)
EXTENDS Points, SequencesExt

CONSTANTS
    MaxCycles,   \* bound: pots that are opened
    PotTarget,   \* points that fill a pot
    PotWinPct,   \* the winner's share, in percent
    PotDailyMax, \* points a member may give to a pot in a day
    PotRewardMin,\* points that earn the consolation
    Needy        \* donor -> members a gift reaches, poorest first

ASSUME PotAssumption ==
    /\ {MaxCycles, PotTarget, PotDailyMax, PotRewardMin} \subseteq Nat
    /\ PotWinPct \in 0..100
    /\ Needy \in [Member -> Seq(Member)]
    /\ \A p \in Plans : \A r \in Req : p[r].op = "give" => p[r].arg = 1

VARIABLES
    pot,         \* number -> the row of pot_cycles, and its donations
    consoled     \* granted consolations: <<pot, member>>

potVars == <<pot, consoled>>

Cycle == 1..MaxCycles

NoCycle == [status |-> "none", total |-> 0, gave |-> [m \in Member |-> 0],
            winner |-> "nobody", paid |-> 0]

PotInit == pot = [c \in Cycle |-> NoCycle] /\ consoled = {}

Open == {c \in Cycle : pot[c].status = "open"}

(* OpenCycle: the oldest open pot, or a new one; the insert and the read    *)
(* that follows it are statements of their own, so two may be opened.       *)
PotRead(r) ==
    /\ \/ At(r, "donate", "start") \/ At(r, "donate", "reread")
    /\ IF Open # {}
       THEN call' = [call EXCEPT ![r].pc = "found", ![r].arg = Min(Open)]
       ELSE Goto(r, IF call[r].pc = "start" THEN "insert" ELSE "refused")
    /\ UNCHANGED <<balance, faults, potVars>>

PotInsert(r) ==
    /\ At(r, "donate", "insert")
    /\ \E c \in Cycle :
          /\ pot[c].status = "none"
          /\ \A d \in Cycle : d < c => pot[d].status # "none"
          /\ pot' = [pot EXCEPT ![c].status = "open"]
    /\ Goto(r, "reread")
    /\ UNCHANGED <<balance, faults, consoled>>

(* DonatedToday against the daily limit, of this pot.                       *)
WithinLimit(r) ==
    /\ At(r, "donate", "found")
    /\ Goto(r, IF pot[call[r].arg].gave[Who(r)] + Amt(r) <= PotDailyMax
               THEN "allowed" ELSE "refused")
    /\ UNCHANGED <<balance, faults, potVars>>

PotDeduct(r) ==
    /\ At(r, "donate", "allowed")
    /\ Deduct(r, Amt(r), "charged", "refused")
    /\ UNCHANGED potVars

(* AddDonation, first statement: the member's row of the day.               *)
AddRow(r) ==
    /\ At(r, "donate", "charged")
    /\ \/ /\ pot' = [pot EXCEPT ![call[r].arg].gave[Who(r)] = @ + Amt(r)]
          /\ Goto(r, "inserted")
          /\ NoFault
       \/ Fault /\ Goto(r, "refund") /\ UNCHANGED pot
    /\ UNCHANGED <<balance, consoled>>

(* AddDonation, second statement: the pot's total, open or not.  The total  *)
(* it returns decides whether this donor tries to close.                    *)
AddTotal(r) ==
    /\ At(r, "donate", "inserted")
    /\ LET c     == call[r].arg
           total == pot[c].total + Amt(r)
       IN
       \/ /\ pot' = [pot EXCEPT ![c].total = total]
          /\ call' = [call EXCEPT ![r].hand = 0, ![r].amt = total,
                         ![r].pc = IF total < PotTarget THEN "done" ELSE "full"]
          /\ NoFault
       \/ Fault /\ Goto(r, "refund") /\ UNCHANGED pot
    /\ UNCHANGED <<balance, consoled>>

DonateRefund(r) ==
    /\ At(r, "donate", "refund")
    /\ Refund(r, "refused")
    /\ UNCHANGED potVars

\* Mutant: every donor who sees the pot full runs the draw.
ElectedAlways(c) == pot[c].status # "none"
(* CloseCycle elects one closer: WHERE ended_at IS NULL.                    *)
Elected(c) == pot[c].status = "open"

CloseCycle(r) ==
    /\ At(r, "donate", "full")
    /\ LET c == call[r].arg IN
       \/ Elected(c) /\ pot' = [pot EXCEPT ![c].status = "closed"]
                     /\ Goto(r, "draw") /\ NoFault
       \/ /\ \/ ~Elected(c) /\ NoFault
             \/ Fault
          /\ Goto(r, "done") /\ UNCHANGED pot
    /\ UNCHANGED <<balance, consoled>>

(* The winner's share of the total this donor's own write returned.         *)
Winnings(r) == (Amt(r) * PotWinPct) \div 100

(* Who gave enough for the consolation.                                     *)
Earned(c) == {<<c, m>> : m \in {n \in Member : pot[c].gave[n] >= PotRewardMin}}

(* ContributorTotals and pickWeighted: anybody who gave may be drawn; then  *)
(* the payout, whose failure is only logged.                                *)
Draw(r) ==
    /\ At(r, "donate", "draw")
    /\ LET c == call[r].arg IN
       \/ /\ \E m \in {n \in Member : pot[c].gave[n] > 0} :
                \/ /\ balance' = [balance EXCEPT ![m] = @ + Winnings(r)]
                   /\ pot' = [pot EXCEPT ![c].winner = m, ![c].paid = @ + Winnings(r)]
                   /\ NoFault
                \/ /\ Fault
                   /\ pot' = [pot EXCEPT ![c].winner = m]
                   /\ UNCHANGED balance
          /\ call' = [call EXCEPT ![r].pc = "drawn", ![r].arg = Earned(c)]
       \/ Fault /\ Goto(r, "done") /\ UNCHANGED <<balance, pot>>
    /\ UNCHANGED consoled

(* GrantOneOff with the pot as reference: a repeat grants nothing more.     *)
Console(r) ==
    /\ At(r, "donate", "drawn")
    /\ \/ consoled' = consoled \cup call[r].arg /\ NoFault
       \/ /\ Fault
          /\ \E e \in call[r].arg : consoled' = consoled \cup (call[r].arg \ {e})
    /\ Goto(r, "done")
    /\ UNCHANGED <<balance, pot>>

(* splitEven: shares that differ by at most one, the larger ones first.     *)
SplitEven(amount, n) ==
    [i \in 1..n |-> amount \div n + (IF i <= amount % n THEN 1 ELSE 0)]

(* give: who a gift reaches is found before any points move; distribute     *)
(* pays the shares one by one, and a failing one is only logged.            *)
GiveDeduct(r) ==
    /\ At(r, "give", "start")
    /\ IF Needy[Who(r)] = <<>>
       THEN Goto(r, "refused") /\ UNCHANGED <<balance, faults>>
       ELSE Deduct(r, Amt(r), "charged", "refused")
    /\ UNCHANGED potVars

Share(r, i) == SplitEven(Amt(r), Len(Needy[Who(r)]))[i]

GiveShare(r) ==
    /\ call[r].op = "give" /\ call[r].pc = "charged"
    /\ LET i == call[r].arg
           m == Needy[Who(r)][i]
       IN
          /\ \/ /\ balance' = [balance EXCEPT ![m] = @ + Share(r, i)]
                /\ NoFault
                /\ call' = [call EXCEPT ![r].hand = @ - Share(r, i), ![r].arg = i + 1,
                       ![r].pc = IF i = Len(Needy[Who(r)]) THEN "done" ELSE @]
             \/ /\ Fault
                /\ UNCHANGED balance
                /\ call' = [call EXCEPT ![r].owed = TRUE, ![r].arg = i + 1,
                       ![r].pc = IF i = Len(Needy[Who(r)]) THEN "done" ELSE @]
    /\ UNCHANGED potVars

PotDie(r) ==
    /\ call[r].op \in {"donate", "give"}
    /\ Die(r)
    /\ UNCHANGED potVars

PotNext == \E r \in Req :
    \/ PotRead(r) \/ PotInsert(r) \/ WithinLimit(r) \/ PotDeduct(r)
    \/ AddRow(r) \/ AddTotal(r) \/ DonateRefund(r) \/ CloseCycle(r)
    \/ Draw(r) \/ Console(r) \/ GiveDeduct(r) \/ GiveShare(r) \/ PotDie(r)

(* What is in the pots, what left them taken off.                           *)
InPots == SumFunction([c \in Cycle |-> pot[c].total - pot[c].paid])
=============================================================================
