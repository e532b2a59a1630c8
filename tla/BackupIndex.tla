---------------------------- MODULE BackupIndex ----------------------------
(***************************************************************************)
(* The index pass of the backup plugin (backup/inventory.go, index_job.go,   *)
(* inventory_store.go): it walks the classes, re-reads what may have         *)
(* changed, and seals the result as a generation.  The inventory is written  *)
(* by this pass alone, one at a time (indexMu).                              *)
(***************************************************************************)
EXTENDS Assets, Sequences

CONSTANTS
    Denom,       \* one in Denom unchanged files is read again
    Turn,        \* path -> the hash that says in which generations
    Torn         \* contents that lack their end marker

ASSUME IndexAssumption == /\ Denom \in Nat \ {0} /\ Turn \in [Path -> 0..(Denom - 1)]
                          /\ Torn \subseteq Nat

VARIABLES
    newest,      \* the last generation begun
    sealed,      \* generations with a sealed_at
    rows,        \* the inventory: one row per path and contents
    suspect,     \* paths flagged
    pass,        \* the pass under way
    seen,        \* history: what the passes recorded
    unread       \* history: paths that were there and the pass could not read

indexVars == <<newest, sealed, rows, suspect, pass, seen, unread>>

NoPass == [pc |-> "idle", blind |-> FALSE, class |-> 1,
           todo |-> {}, batch |-> {}]

IndexInit == /\ newest = 0 /\ sealed = {} /\ rows = {} /\ suspect = {}
             /\ pass = NoPass /\ seen = {} /\ unread = {}

Newest(S) == CHOOSE n \in S : \A m \in S : m <= n
Sealed    == IF sealed = {} THEN 0 ELSE Newest(sealed)   \* lastSealedGeneration

(* A pass that ends unsealed leaves its generation behind as it is, and for  *)
(* the rotten files it did not record the count begins anew.                 *)
AbandonAfter(ps) ==
    /\ pass' = NoPass
    /\ rotten' = [p \in Path |-> IF p \in ps \/ rotten[p] = 0 THEN 0 ELSE 1]
Abandon == AbandonAfter({})

(* runIndex and indexPass up to the first class.  Without the flags none is  *)
(* read again on their account, without the inventory the pass ends.         *)
BeginPass ==
    /\ pass.pc = "idle" /\ newest < left["gens"]
    /\ newest' = newest + 1 /\ touched' = {} /\ unread' = {}
    /\ LET begun == [NoPass EXCEPT !.pc = "walk"]
       IN  \/ NoFault /\ pass' = begun /\ UNCHANGED rotten
           \/ Fault /\ pass' = [begun EXCEPT !.blind = TRUE] /\ UNCHANGED rotten
           \/ Fault /\ Abandon
    /\ UNCHANGED <<disk, mounted, stamp, sealed, rows, suspect, seen>>

(* walkClass: every file of the class with its stat.  A volume that is not   *)
(* there is an empty directory.                                              *)
WalkClass ==
    /\ pass.pc = "walk"
    /\ \/ /\ NoFault /\ UNCHANGED rotten
          /\ pass' = [pass EXCEPT !.pc = "files", !.batch = {},
                !.todo = {[path |-> p, stat |-> Found(p).stat] :
                             p \in {q \in Path : ClassOf(q) = Classes[pass.class] /\ There(q)}}]
       \/ Fault /\ Abandon
    /\ UNCHANGED <<disk, mounted, stamp, touched, newest, sealed, rows, suspect, seen, unread>>

(* currentStats: the newest row of a path.  It is read when the pass begins; *)
(* rows of this generation are of files that were done since.                *)
Rows(p)  == {r \in rows : r.path = p /\ r.last < newest}
\* Mutant: the rows in the order of their generation, and the first one kept.
KnownFirst(p) == CHOOSE r \in Rows(p) : \A s \in Rows(p) : s.last >= r.last
Known(p) == CHOOSE r \in Rows(p) : \A s \in Rows(p) : s.last <= r.last

Due(p) == newest % Denom = Turn[p]

Changed(f)  == Known(f.path).stat # f.stat
Flagged(f)  == f.path \in suspect /\ ~pass.blind
MustRead(f) == IF Rows(f.path) = {} THEN TRUE
               ELSE TRUE \in {Changed(f), Flagged(f), Due(f.path)}

Done(f, sha) == [pass EXCEPT !.todo = @ \ {f},
                   !.batch = @ \cup {[path |-> f.path, stat |-> f.stat, sha |-> sha]}]

(* An unchanged stat carries the hash forward.                               *)
CarryFile(f) ==
    /\ ~MustRead(f)
    /\ pass' = Done(f, Known(f.path).sha)
    /\ NoFault /\ UNCHANGED suspect

(* hashFile: damaged contents are flagged and recorded all the same.  The    *)
(* errors of noteSuspect and clearSuspect are dropped.                       *)
ReadFile(f) ==
    /\ MustRead(f) /\ There(f.path)
    /\ pass' = Done(f, disk[f.path].bytes)
    /\ \/ /\ NoFault
          /\ suspect' = IF disk[f.path].bytes \in Torn THEN suspect \cup {f.path}
                        ELSE IF pass.blind THEN suspect ELSE suspect \ {f.path}
       \/ Fault /\ UNCHANGED suspect

(* A file that is gone since the walk, or cannot be read, is flagged and     *)
(* left out, and the pass goes on; the flag may fail to be set.              *)
SkipFile(f) ==
    /\ MustRead(f)
    /\ pass' = [pass EXCEPT !.todo = @ \ {f}]
    /\ rotten' = [rotten EXCEPT ![f.path] = IF @ > 0 THEN 1 ELSE 0]
    /\ suspect' \in {suspect, suspect \cup {f.path}}
    /\ IF There(f.path) THEN Fault /\ unread' = unread \cup {f.path}
       ELSE UNCHANGED unread /\ IF f.path \in suspect' THEN NoFault ELSE Fault
    /\ UNCHANGED touched

IndexFile(f) ==
    /\ pass.pc = "files" /\ f \in pass.todo
    /\ \/ (CarryFile(f) \/ ReadFile(f)) /\ UNCHANGED <<touched, rotten, unread>>
       \/ SkipFile(f)
    /\ UNCHANGED <<disk, mounted, stamp, newest, sealed, rows, seen>>

(* upsertFiles: ON CONFLICT (path, sha256) the row is stamped with this      *)
(* generation; other contents are a row of their own.                        *)
Same(r, f) == r.path = f.path /\ r.sha = f.sha
First(f)   == IF \E r \in rows : Same(r, f)
              THEN (CHOOSE r \in rows : Same(r, f)).first ELSE newest
Upserted   == {r \in rows : \A f \in pass.batch : ~Same(r, f)}
              \cup {[path |-> f.path, sha |-> f.sha, stat |-> f.stat,
                     first |-> First(f), last |-> newest] : f \in pass.batch}

Store == /\ rows' = Upserted
         /\ seen' = seen \cup {[gen |-> newest, path |-> f.path, sha |-> f.sha] :
                                  f \in pass.batch}

(* Files whose contents the batch has as they are.                           *)
Current == {p \in Path : \E f \in pass.batch : f.path = p /\ f.sha = disk[p].bytes}

(* The batch of a class, in one transaction that may commit and yet fail.    *)
RecordClass ==
    /\ pass.pc = "files" /\ pass.todo = {}
    /\ \/ /\ NoFault /\ Store
          /\ rotten' = [p \in Path |-> IF p \in Current THEN 0 ELSE rotten[p]]
          /\ pass' = IF pass.class < Len(Classes)
                     THEN [pass EXCEPT !.pc = "walk", !.class = @ + 1]
                     ELSE [pass EXCEPT !.pc = "seal"]
       \/ Fault /\ Store /\ AbandonAfter(Current)
       \/ Fault /\ UNCHANGED <<rows, seen>> /\ Abandon
    /\ UNCHANGED <<disk, mounted, stamp, touched, newest, sealed, suspect, unread>>

(* sealGeneration; one that commits and yet fails is as one that succeeds.   *)
(* The gate, which runIndex asks after it, only reports.                     *)
Seal ==
    /\ pass.pc = "seal"
    /\ \/ /\ NoFault
          /\ sealed' = sealed \cup {newest}
          /\ pass' = NoPass
          /\ rotten' = [p \in Path |-> IF rotten[p] > 0 /\ p \notin touched \cup unread
                                       THEN rotten[p] + 1 ELSE rotten[p]]
       \/ Fault /\ Abandon /\ UNCHANGED sealed
    /\ UNCHANGED <<disk, mounted, stamp, touched, newest, rows, suspect, seen, unread>>

IndexStep == BeginPass \/ WalkClass \/ (\E f \in pass.todo : IndexFile(f))
             \/ RecordClass \/ Seal
=============================================================================
