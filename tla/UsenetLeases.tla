---------------------------- MODULE UsenetLeases ----------------------------
(***************************************************************************)
(* The lease table that lets several crawler processes share the           *)
(* newsgroups (usenet/lease.go), the heartbeats a lease's exclusivity      *)
(* rests on (usenet/assign.go), and the in-process reference counts that   *)
(* let two jobs of ONE process hold the same lease row.                    *)
(*                                                                         *)
(* A lease is a row (scope, key) with an owner and an expiry.  Workers     *)
(* claim rows before a pass, a renewer goroutine refreshes them while the  *)
(* pass works, and the pass is cancelled when the renewer loses a row.     *)
(* Time is counted in ticks: every clock the code reads is an age that     *)
(* Tick advances, capped where the code stops telling values apart.        *)
(***************************************************************************)
EXTENDS Integers, FiniteSets

CONSTANTS
    Worker,      \* worker ids; a restarted process has a fresh id (workerID)
    NoWorker,    \* "no row": the key is unheld
    Job,         \* the jobs of one process that take leases
    Key,         \* (scope, key) pairs
    JobKeys,     \* which keys each job may ask for
    TTL,         \* lease lifetime
    RenewEvery,  \* leaseRenewInterval(TTL)
    DeadAfter,   \* leaseOwnerDeadAfter
    BeatEvery,   \* the heartbeat period of startHeartbeat
    Punctual,    \* workers whose timers fire on time
    DbOk         \* workers whose database calls never fail

ASSUME WorkerAssumption == NoWorker \notin Worker
ASSUME JobAssumption    == IsFiniteSet(Job) /\ JobKeys \in [Job -> SUBSET Key]
ASSUME TimeAssumption   == /\ TTL \in Nat /\ RenewEvery \in Nat
                           /\ DeadAfter \in Nat /\ BeatEvery \in Nat
                           /\ 0 < RenewEvery /\ RenewEvery < TTL
                           /\ 0 < BeatEvery  /\ BeatEvery < DeadAfter
ASSUME FaultAssumption  == Punctual \subseteq Worker /\ DbOk \subseteq Worker

VARIABLES
    status,  \* process life cycle: "off", then "up", then "dead" for good
    lease,   \* the leases table: owner and ticks left per key
    beat,    \* crawler_workers: age of the last heartbeat, DeadAfter = stale
    held,    \* leaseHeld: per process, how many local passes hold a key
    pass     \* per process and job, the pass in flight

vars == <<status, lease, beat, held, pass>>

Reliable == Punctual \cap DbOk

Phase == {"idle", "claiming", "working", "cancelled", "releasing"}

NoLease  == [owner |-> NoWorker, left |-> 0]
IdlePass == [phase |-> "idle", want |-> {}, keys |-> {}, okAge |-> 0,
             tickAge |-> 0]

LeaseRow == [owner : Worker \cup {NoWorker}, left : 0..TTL]
Pass     == [phase : Phase, want : SUBSET Key, keys : SUBSET Key,
             okAge : 0..TTL, tickAge : 0..RenewEvery]

Init == /\ status = [w \in Worker |-> "off"]
        /\ lease  = [k \in Key |-> NoLease]
        /\ beat   = [w \in Worker |-> DeadAfter]
        /\ held   = [w \in Worker |-> [k \in Key |-> 0]]
        /\ pass   = [w \in Worker |-> [j \in Job |-> IdlePass]]

-----------------------------------------------------------------------------
\* Mutant: claimLease without the dead-owner and expiry clauses.
ClaimableNeverLapses(w, k) == lease[k].owner \in {NoWorker, w}
\* Mutant: an upsert without its WHERE, the last writer takes the row.
ClaimableAlways(w, k) == TRUE

(* The claim guard: unheld, our own, expired, or owned by a worker without  *)
(* a fresh heartbeat.                                                       *)
Claimable(w, k) ==
    \/ lease[k].owner \in {NoWorker, w}
    \/ lease[k].left = 0
    \/ lease[k].owner \in Worker /\ beat[lease[k].owner] = DeadAfter

ClaimRows(w, K) ==
    [k \in Key |-> IF k \in K THEN [owner |-> w, left |-> TTL] ELSE lease[k]]

DeleteRow(w, k) ==
    IF lease[k].owner = w THEN [lease EXCEPT ![k] = NoLease] ELSE lease

\* The renewer goroutine of a pass runs until it is stopped or loses a row.
Renewing(w, j) == pass[w][j].phase = "working"

\* The pass is still doing its protected work on key k.
WorksOn(w, j, k) == Renewing(w, j) /\ k \in pass[w][j].keys

\* Mutant: a renewer that treats a refusal like one more error.
RenewalLostTolerant(ok, err, okAge) == ~ok /\ okAge > TTL

(* renewalLost: a definitive answer decides at once, an error only once the *)
(* unrenewed time reaches two thirds of the TTL.                            *)
RenewalLost(ok, err, okAge) == IF err THEN 3 * okAge >= 2 * TTL ELSE ~ok

SetHeld(w, k, n) == [held EXCEPT ![w][k] = n]

\* What each step does to the pass it belongs to.
SetPass(w, j, p) == [pass EXCEPT ![w][j] = p]
Begun(K)      == [IdlePass EXCEPT !.phase = "claiming", !.want = K]
Asked(p, k)   == [p EXCEPT !.want = @ \ {k}]
Claimed(p, k) == [p EXCEPT !.want = @ \ {k}, !.keys = @ \cup {k}]
InPhase(p, f) == [p EXCEPT !.phase = f]
Renewed(p, ok, err) ==
    [p EXCEPT !.okAge = IF ok THEN 0 ELSE @, !.tickAge = 0,
              !.phase = IF RenewalLost(ok, err, p.okAge)
                        THEN "cancelled" ELSE "working"]
Released(p, k) ==
    IF p.keys = {k} THEN IdlePass ELSE [p EXCEPT !.keys = @ \ {k}]

Older(age, cap) == IF age < cap THEN age + 1 ELSE cap
RunDown(row)    == [row EXCEPT !.left = IF @ > 0 THEN @ - 1 ELSE 0]
OlderPass(p)    == [p EXCEPT !.okAge = Older(@, TTL),
                             !.tickAge = Older(@, RenewEvery)]

-----------------------------------------------------------------------------
Start(w) ==
    /\ status[w] = "off"
    /\ status' = [status EXCEPT ![w] = "up"]
    /\ UNCHANGED <<lease, beat, held, pass>>

\* heartbeat: upserts the worker's row.  A failed beat changes nothing.
Heartbeat(w) ==
    /\ status[w] = "up"
    /\ beat' = [beat EXCEPT ![w] = 0]
    /\ UNCHANGED <<status, lease, held, pass>>

\* A killed process: its memory is gone, its rows stay until they lapse.
Crash(w) ==
    /\ status[w] = "up"
    /\ status' = [status EXCEPT ![w] = "dead"]
    /\ held' = [held EXCEPT ![w] = [k \in Key |-> 0]]
    /\ pass' = [pass EXCEPT ![w] = [j \in Job |-> IdlePass]]
    /\ UNCHANGED <<lease, beat>>

(* A job starts a pass and decides which keys to ask for.  The first beat   *)
(* is issued at boot and the first pass waits out a boot delay of a minute, *)
(* so a reliable worker is on record before it claims.                      *)
BeginPass(w, j) ==
    /\ status[w] = "up"
    /\ pass[w][j].phase = "idle"
    /\ w \in Reliable => beat[w] < DeadAfter
    /\ \E K \in SUBSET JobKeys[j] \ {{}} :
          pass' = SetPass(w, j, Begun(K))
    /\ UNCHANGED <<status, lease, beat, held>>

\* claimLeaseHeld under leaseHeldMu: the upsert and the count are one step.
ClaimKey(w, j, k) ==
    /\ pass[w][j].phase = "claiming" /\ k \in pass[w][j].want
    /\ \/ /\ Claimable(w, k)
          /\ lease' = ClaimRows(w, {k})
          /\ held'  = SetHeld(w, k, held[w][k] + 1)
          /\ pass'  = SetPass(w, j, Claimed(pass[w][j], k))
       \/ /\ ~Claimable(w, k)
          /\ pass' = SetPass(w, j, Asked(pass[w][j], k))
          /\ UNCHANGED <<lease, held>>
       \/ /\ w \notin DbOk         \* an error: the upsert may have committed
          /\ \/ UNCHANGED lease
             \/ Claimable(w, k) /\ lease' = ClaimRows(w, {k})
          /\ pass' = SetPass(w, j, Asked(pass[w][j], k))
          /\ UNCHANGED held
    /\ UNCHANGED <<status, beat>>

\* Claiming is over: nothing claimed ends the pass, else the renewer starts.
StartWork(w, j) ==
    /\ pass[w][j].phase = "claiming" /\ pass[w][j].want = {}
    /\ pass' = SetPass(w, j, IF pass[w][j].keys = {} THEN IdlePass
                             ELSE InPhase(pass[w][j], "working"))
    /\ UNCHANGED <<status, lease, beat, held>>

(* One tick of the renewer: it claims the pass's keys in turn and stops at  *)
(* the first refusal or error, so a subset K may have been renewed.         *)
RenewResult(w, j, K, ok, err) ==
    /\ lease' = ClaimRows(w, K)
    /\ pass'  = SetPass(w, j, Renewed(pass[w][j], ok, err))

Renew(w, j) ==
    /\ Renewing(w, j)
    /\ \E K \in SUBSET pass[w][j].keys :
          /\ \A k \in K : Claimable(w, k)
          /\ \/ K = pass[w][j].keys /\ RenewResult(w, j, K, TRUE, FALSE)
             \/ /\ \E k \in pass[w][j].keys : ~Claimable(w, k)
                /\ RenewResult(w, j, K, FALSE, FALSE)
             \/ w \notin DbOk /\ RenewResult(w, j, K, FALSE, TRUE)
    /\ UNCHANGED <<status, beat, held>>

\* The pass returns: release stops the renewer before it drops any count.
FinishPass(w, j) ==
    /\ pass[w][j].phase \in {"working", "cancelled"}
    /\ pass' = SetPass(w, j, InPhase(pass[w][j], "releasing"))
    /\ UNCHANGED <<status, lease, beat, held>>

\* Mutant: releaseLease before the refcount, every release deletes the row.
ReleaseKeyJobBlind(w, j, k) ==
    /\ pass[w][j].phase = "releasing" /\ k \in pass[w][j].keys
    /\ held' = SetHeld(w, k, IF held[w][k] > 1 THEN held[w][k] - 1 ELSE 0)
    /\ lease' = DeleteRow(w, k)
    /\ pass' = SetPass(w, j, Released(pass[w][j], k))
    /\ UNCHANGED <<status, beat>>
\* Mutant: a release that drops the whole count although others remain.
ReleaseKeyResetsCount(w, j, k) ==
    /\ pass[w][j].phase = "releasing" /\ k \in pass[w][j].keys
    /\ held' = SetHeld(w, k, 0)
    /\ lease' = DeleteRow(w, k)
    /\ pass' = SetPass(w, j, Released(pass[w][j], k))
    /\ UNCHANGED <<status, beat>>

(* releaseLeaseHeld under leaseHeldMu: only the last local holder deletes   *)
(* the row, and only its own; a failed DELETE leaves it to expire.          *)
ReleaseKey(w, j, k) ==
    /\ pass[w][j].phase = "releasing" /\ k \in pass[w][j].keys
    /\ \/ /\ held[w][k] > 1
          /\ held' = SetHeld(w, k, held[w][k] - 1)
          /\ UNCHANGED lease
       \/ /\ held[w][k] <= 1
          /\ held' = SetHeld(w, k, 0)
          /\ \/ lease' = DeleteRow(w, k)
             \/ w \notin DbOk /\ UNCHANGED lease
    /\ pass' = SetPass(w, j, Released(pass[w][j], k))
    /\ UNCHANGED <<status, beat>>

(* Time passes.  A punctual worker's claim loop is shorter than a tick and  *)
(* its renewers are never overdue; a reliable one's beats are not either.   *)
OnTime(w) ==
    /\ \A j \in Job : /\ pass[w][j].phase # "claiming"
                      /\ Renewing(w, j) => pass[w][j].tickAge < RenewEvery
    /\ w \in DbOk => beat[w] < BeatEvery

Tick ==
    /\ \A w \in Punctual : status[w] = "up" => OnTime(w)
    /\ lease' = [k \in Key |-> RunDown(lease[k])]
    /\ beat'  = [w \in Worker |-> Older(beat[w], DeadAfter)]
    /\ pass'  = [w \in Worker |-> [j \in Job |->
                   IF Renewing(w, j)
                   THEN OlderPass(pass[w][j]) ELSE pass[w][j]]]
    /\ UNCHANGED <<status, held>>

JobStep(w, j) ==
    \/ BeginPass(w, j) \/ StartWork(w, j) \/ Renew(w, j) \/ FinishPass(w, j)
    \/ \E k \in Key : ClaimKey(w, j, k) \/ ReleaseKey(w, j, k)

Next == \/ Tick
        \/ \E w \in Worker : Start(w) \/ Heartbeat(w) \/ Crash(w)
        \/ \E w \in Worker, j \in Job : JobStep(w, j)

Spec == Init /\ [][Next]_vars

(* Timers keep firing and a pass finishes claiming.  How long a pass works, *)
(* and whether it ever starts, is not promised: FinishPass is not fair.     *)
Fairness ==
    /\ WF_vars(Tick)
    /\ \A w \in Worker : WF_vars(Heartbeat(w))
    /\ \A w \in Worker, j \in Job :
          /\ WF_vars(Renew(w, j)) /\ WF_vars(StartWork(w, j))
          /\ \A k \in Key : WF_vars(ClaimKey(w, j, k))

FairSpec == Spec /\ Fairness

-----------------------------------------------------------------------------
TypeOK == /\ status \in [Worker -> {"off", "up", "dead"}]
          /\ lease  \in [Key -> LeaseRow]
          /\ beat   \in [Worker -> 0..DeadAfter]
          /\ held   \in [Worker -> [Key -> Nat]]
          /\ pass   \in [Worker -> [Job -> Pass]]

Holders(w, k) == {j \in Job : k \in pass[w][j].keys}

(* The count that decides whether a release deletes the row is exactly the  *)
(* number of local passes holding the key, through every interleaving of    *)
(* the claim and release loops of two jobs (claimLeaseHeld,                 *)
(* releaseLeaseHeld).                                                       *)
RefCountExact == \A w \in Worker, k \in Key :
                    held[w][k] = Cardinality(Holders(w, k))

(* A worker whose timers are on time and whose database answers is never    *)
(* displaced: while its pass works on a key the row is its own and has time *)
(* left, whatever its other job releases and whatever slow, failing or      *)
(* crashed workers do (claimLease, withLease, claimGroupLeases).            *)
ReliableOwns == \A w \in Reliable, j \in Job, k \in Key :
                   WorksOn(w, j, k) => lease[k].owner = w /\ lease[k].left > 0

(* A row leaves a process that still holds it only by a takeover the claim  *)
(* guard allows; it is never deleted under a live local hold by the release *)
(* of a sibling job (the two-step window the leaseHeldMu comment tells of). *)
RowNotDroppedUnderHold ==
    [][\A w \in Worker, k \in Key :
          lease[k].owner = w /\ held[w][k] > 0 /\ held'[w][k] > 0 =>
              \/ lease'[k].owner = w
              \/ /\ lease'[k].owner # NoWorker
                 /\ lease[k].left = 0 \/ beat[w] = DeadAfter]_vars

(* A pass that works on a key another worker has taken over does not do so  *)
(* for ever, however long the pass itself would run: its renewer is refused *)
(* or runs out of margin, and cancels it (renewalLost).                     *)
DisplacedPassStops ==
    \A w \in Worker, j \in Job, k \in Key :
       (WorksOn(w, j, k) /\ lease[k].owner \notin {w, NoWorker})
         ~> ~(WorksOn(w, j, k) /\ lease[k].owner \notin {w, NoWorker})

(* What a killed worker held does not stay locked: its row becomes          *)
(* claimable by everybody (the dead-owner and expiry clauses of claimLease).*)
OrphanFreed ==
    \A w \in Worker, k \in Key :
       (status[w] = "dead" /\ lease[k].owner = w)
         ~> (lease[k].owner # w \/ \A v \in Worker : Claimable(v, k))

=============================================================================
