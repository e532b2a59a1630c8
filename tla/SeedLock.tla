------------------------------ MODULE SeedLock ------------------------------
(***************************************************************************)
(* One host per torrent (seedlock/plugin.go, store.go, policy.go): the guard *)
(* of the announce.  A claim is a Redis key with a TTL; every decision about *)
(* it takes several commands, between which it may lapse or change hands.    *)
(***************************************************************************)
EXTENDS Site

CONSTANTS
    NoHost,
    LockWindow   \* ticks a claim outlives its last announce

ASSUME SeedLockAssumption == LockWindow \in Nat \ {0}

VARIABLE claim   \* member, torrent -> host, and when the key lapses

Unclaimed == [host |-> NoHost, until |-> 0]

SeedLockInit == claim = [m \in Member |-> [t \in Torrent |-> Unclaimed]]

Host(r)   == Arg(r).host
ClaimOf(r) == claim[Who(r)][Arg(r).torrent]
Live(c)   == c.until > clock

SetClaim(r, host, until) ==
    claim' = [claim EXCEPT ![Who(r)][Arg(r).torrent] = [host |-> host, until |-> until]]

Admitted == "put"

(* A stopping client releases the claim if it is its own: a GET, and a DEL   *)
(* of whatever is there by then.                                             *)
StopHeld(r) ==
    /\ At(r, "client", "held")
    /\ \/ NoFault /\ Goto(r, IF Live(ClaimOf(r)) /\ ClaimOf(r).host = Host(r)
                             THEN "release" ELSE Admitted)
       \/ Fault /\ Goto(r, Admitted)
    /\ UNCHANGED <<timeVars, claim>>

StopRelease(r) ==
    /\ At(r, "client", "release")
    /\ \/ NoFault /\ SetClaim(r, NoHost, 0)
       \/ Fault /\ UNCHANGED claim
    /\ Goto(r, Admitted)
    /\ UNCHANGED timeVars

\* Mutant: the claim is written whether one is held or not.
VacantAlways(c) == TRUE
Vacant(c) == ~Live(c)

(* Acquire: SET NX; a failing Redis admits.                                  *)
AcquireSet(r) ==
    /\ At(r, "client", "acquire")
    /\ \/ /\ NoFault /\ Vacant(ClaimOf(r))
          /\ SetClaim(r, Host(r), clock + LockWindow) /\ Goto(r, Admitted)
       \/ NoFault /\ ~Vacant(ClaimOf(r)) /\ Goto(r, "holder") /\ UNCHANGED claim
       \/ Fault /\ Goto(r, Admitted) /\ UNCHANGED claim
    /\ UNCHANGED timeVars

(* Acquire: GET; a claim that lapsed meanwhile counts as acquired.           *)
AcquireGet(r) ==
    /\ At(r, "client", "holder")
    /\ \/ /\ NoFault
          /\ IF Live(ClaimOf(r)) THEN Note(r, "ttl", [Seen(r) EXCEPT !.host = ClaimOf(r).host])
             ELSE Goto(r, Admitted)
       \/ Fault /\ Goto(r, Admitted)
    /\ UNCHANGED <<timeVars, claim>>

(* Acquire: TTL, and Decide: the holder's host goes on; another is refused   *)
(* unless the TTL says that the claim is over, or does not answer.           *)
Decide(r) ==
    /\ At(r, "client", "ttl")
    /\ \/ /\ NoFault
          /\ Goto(r, IF Seen(r).host = Host(r) \/ ~Live(ClaimOf(r)) THEN "refresh"
                     ELSE "again")
       \/ Fault /\ Goto(r, "refresh")
    /\ UNCHANGED <<timeVars, claim>>

(* EXPIRE: the key's claim, whoever's it is by then.                         *)
Refresh(r) ==
    /\ At(r, "client", "refresh")
    /\ \/ NoFault /\ IF Live(ClaimOf(r)) THEN SetClaim(r, ClaimOf(r).host, clock + LockWindow)
                     ELSE UNCHANGED claim
       \/ Fault /\ UNCHANGED claim
    /\ Goto(r, Admitted)
    /\ UNCHANGED timeVars

(* ClearClaim: the member takes the torrent back on the site.                *)
ClearClaim(r) ==
    /\ At(r, "clear", "start")
    /\ \/ NoFault /\ SetClaim(r, NoHost, 0) /\ Goto(r, "done")
       \/ Fault /\ Goto(r, "refused") /\ UNCHANGED claim
    /\ UNCHANGED timeVars

SeedLockNext == \E r \in Req :
    \/ StopHeld(r) \/ StopRelease(r) \/ AcquireSet(r) \/ AcquireGet(r)
    \/ Decide(r) \/ Refresh(r) \/ ClearClaim(r)
=============================================================================
