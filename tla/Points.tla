------------------------------- MODULE Points -------------------------------
(***************************************************************************)
(* The point ledger (core.Points, of the host) and the requests in flight   *)
(* that use it.  Every plugin that moves points does so from a handler of   *)
(* its own.                                                                 *)
(***************************************************************************)
EXTENDS Handlers

CONSTANTS
    Member,      \* accounts
    InitBalance  \* member -> points at the start

(* A handler's local state: what it does (op) for whom, with its argument,  *)
(* where it is (pc), the points it is about (amt), and two ghosts: the      *)
(* points it has taken and not yet put anywhere (hand), and whether a       *)
(* compensation of it failed, and was left at that (owed).                  *)
Request(op, who, arg, amt) ==
    [op |-> op, who |-> who, arg |-> arg, amt |-> amt, pc |-> "start",
     hand |-> 0, owed |-> FALSE]

ASSUME PointsAssumption ==
    /\ IsFiniteSet(Req) /\ IsFiniteSet(Member)
    /\ InitBalance \in [Member -> Nat]
    /\ \A p \in Plans :
          /\ MaxFaults[p] \in Nat
          /\ p = [r \in Req |-> Request(p[r].op, p[r].who, p[r].arg, p[r].amt)]
          /\ \A r \in Req : p[r].who \in Member /\ p[r].amt \in Nat

VARIABLE
    balance      \* member -> points, the host's users.points

pointsVars == <<balance, call, faults>>

Who(r) == call[r].who
Amt(r) == call[r].amt

\* Mutant: the balance is not looked at in the statement that takes from it.
DeductUnchecked(r, n, paid, refused) ==
    /\ balance' = [balance EXCEPT ![Who(r)] = @ - n]
    /\ call' = [call EXCEPT ![r].pc = paid, ![r].amt = n, ![r].hand = n]
    /\ NoFault
(* Deduct takes the points or refuses (ErrInsufficientPoints); it may fail. *)
Deduct(r, n, paid, refused) ==
    \/ /\ balance[Who(r)] >= n
       /\ balance' = [balance EXCEPT ![Who(r)] = @ - n]
       /\ call' = [call EXCEPT ![r].pc = paid, ![r].amt = n, ![r].hand = n]
       /\ NoFault
    \/ /\ \/ balance[Who(r)] < n /\ NoFault
          \/ Fault
       /\ Goto(r, refused)
       /\ UNCHANGED balance

(* Refund gives back what the request took.  A failure is logged at most.   *)
Refund(r, next) ==
    \/ /\ balance' = [balance EXCEPT ![Who(r)] = @ + call[r].hand]
       /\ call' = [call EXCEPT ![r].pc = next, ![r].hand = 0]
       /\ NoFault
    \/ /\ Fault
       /\ call' = [call EXCEPT ![r].pc = next, ![r].owed = TRUE]
       /\ UNCHANGED balance

Die(r) == Cut(r) /\ UNCHANGED balance

PointsInit == balance = InitBalance /\ HandlersInit

InBalances == SumFunction(balance)
InHand     == SumFunction([r \in Req |-> call[r].hand])
=============================================================================
