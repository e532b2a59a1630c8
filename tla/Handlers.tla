------------------------------ MODULE Handlers ------------------------------
(***************************************************************************)
(* The handlers in flight.  Every plugin serves a request by a sequence of   *)
(* calls to its tables, to Redis and to other plugins with no transaction    *)
(* over them; a job and a client that announces are the same, over and over. *)
(* A request is one run of such a handler: its steps are the calls, and any  *)
(* other request may run in between.                                         *)
(***************************************************************************)
EXTENDS Integers, FiniteSets, FiniteSetsExt

CONSTANTS
    Req,         \* requests: each is one run of one handler
    Plans,       \* which requests come in: a set of functions from Req
    MaxFaults    \* bound: plan -> how many calls may fail, and processes end

VARIABLES
    call,        \* request -> its handler's local state, with op and pc
    faults       \* how many faults are left to happen

At(r, op, pc) == call[r].op = op /\ call[r].pc = pc

Goto(r, pc) == call' = [call EXCEPT ![r].pc = pc]

Ended == {"done", "refused", "dead"}

(* A call to a table or to a service fails and has no effect.               *)
Fault   == faults > 0 /\ faults' = faults - 1
NoFault == UNCHANGED faults

(* The process ends, or the client of a request goes away and every further *)
(* call of its handler fails (they share the request's context).            *)
Cut(r) ==
    /\ call[r].pc \notin Ended \cup {"start"}
    /\ Fault
    /\ Goto(r, "dead")

HandlersInit == call \in Plans /\ faults = MaxFaults[call]
=============================================================================
