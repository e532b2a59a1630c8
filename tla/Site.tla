-------------------------------- MODULE Site --------------------------------
(***************************************************************************)
(* What the plugins of the tracker site share: members, torrents, the time,  *)
(* and the visits of clients, members and jobs.                              *)
(***************************************************************************)
EXTENDS Handlers

CONSTANTS
    Member, Torrent,
    MaxTicks     \* bound: plan -> how much time passes

VARIABLES
    clock,       \* the time
    ticks        \* how much of it is left

timeVars == <<clock, ticks>>

(* A visit of a handler: todo says how often it is still to run, seen what   *)
(* it has read and not yet used.                                             *)
Visit(op, who, arg, todo) ==
    [op |-> op, who |-> who, arg |-> arg, todo |-> todo, pc |-> "start",
     seen |-> [now |-> 0]]

ASSUME SiteAssumption ==
    /\ IsFiniteSet(Req)
    /\ \A p \in Plans :
          /\ MaxTicks[p] \in Nat /\ MaxFaults[p] \in Nat
          /\ p = [r \in Req |-> Visit(p[r].op, p[r].who, p[r].arg, p[r].todo)]
          /\ \A r \in Req : p[r].who \in Member

Who(r)  == call[r].who
Arg(r)  == call[r].arg
Seen(r) == call[r].seen

Note(r, pc, seen) == call' = [call EXCEPT ![r].pc = pc, ![r].seen = seen]

SiteInit == HandlersInit /\ clock = 0 /\ ticks = MaxTicks[call]

Tick == /\ ticks > 0
        /\ ticks' = ticks - 1 /\ clock' = clock + 1
        /\ UNCHANGED <<call, faults>>
=============================================================================
