---------------------------- MODULE BackupDumps ----------------------------
(***************************************************************************)
(* The database dump job (backup/dbdump.go): dumps are published into the    *)
(* asset tree by a rename and pruned to the newest few, on a disk that has   *)
(* room for few.                                                             *)
(***************************************************************************)
EXTENDS Assets

CONSTANTS
    Keep,        \* dumpKeep: dumps that stay
    Room         \* dumps the disk can hold

ASSUME DumpAssumption == Keep \in Nat \ {0} /\ Room \in Nat /\ Room >= 2 /\ Room >= Keep

VARIABLES
    names,       \* published dump directories
    incoming,    \* number of .incoming- directories
    next,        \* the stamp of the next dump to be published
    dump         \* the run under way, and the dumps it is to remove

dumpVars == <<names, incoming, next, dump>>

NoRun == [pc |-> "idle", doomed |-> {}]

DumpsInit == names = {} /\ incoming = 0 /\ next = 1 /\ dump = NoRun

(* pruneDumpsTo: all but the newest n, never all of them.                    *)
Newer(d)  == {e \in names : e > d}
Oldest(n) == {d \in names : Cardinality(Newer(d)) < n} \* Mutant: from the other end.
Beyond(n) == IF n < 1 THEN {} ELSE {d \in names : Cardinality(Newer(d)) >= n}

(* runDBDump: before the check that may refuse, published dumps go down to   *)
(* one less than are kept.                                                   *)
PrunesLater  == {}                   \* Mutant: pruning comes after a dump only.
PrunesBefore == Beyond(Keep - 1)

(* Abandoned partials go before the check, too; one may resist.              *)
StartDump ==
    /\ dump.pc = "idle" /\ next <= left["dumps"] /\ next <= MaxDump
    /\ \/ NoFault /\ incoming' = 0
       \/ Fault /\ UNCHANGED incoming
    /\ dump' = [pc |-> "room", doomed |-> PrunesBefore]
    /\ UNCHANGED <<assetVars, names, next>>

FilesOn(d) == {p \in {d} \X {"data", "note"} : disk[p] # Absent}

(* RemoveAll takes a directory file by file; one that fails is left for the  *)
(* next run.                                                                 *)
RemoveDump(d) ==
    /\ dump.pc \in {"room", "tidy"} /\ d \in dump.doomed
    /\ \/ /\ NoFault /\ FilesOn(d) # {}
          /\ \E p \in FilesOn(d) : Put(p, Absent)
          /\ UNCHANGED <<mounted, stamp, names, dump>>
       \/ /\ NoFault /\ FilesOn(d) = {}
          /\ names' = names \ {d}
          /\ dump' = [dump EXCEPT !.doomed = @ \ {d}]
          /\ UNCHANGED assetVars
       \/ /\ Fault
          /\ dump' = [dump EXCEPT !.doomed = @ \ {d}]
          /\ UNCHANGED <<assetVars, names>>
    /\ UNCHANGED <<incoming, next>>

Taken == Cardinality(names) + incoming

(* The pre-flight: room for one dump like the last, or no dump.              *)
Preflight ==
    /\ dump.pc = "room" /\ dump.doomed = {}
    /\ \/ /\ NoFault
          /\ IF Taken < Room
             THEN incoming' = incoming + 1 /\ dump' = [dump EXCEPT !.pc = "dump"]
             ELSE dump' = NoRun /\ UNCHANGED incoming
       \/ Fault /\ dump' = NoRun /\ UNCHANGED incoming
    /\ UNCHANGED <<assetVars, names, next>>

(* pg_dump, and the rename that publishes what it wrote.                     *)
Publish ==
    /\ dump.pc = "dump"
    /\ incoming' = incoming - 1
    /\ \/ /\ NoFault
          /\ Put(<<next, "data">>, File(1))
          /\ names' = names \cup {next} /\ next' = next + 1
          /\ dump' = [dump EXCEPT !.pc = "note"]
          /\ UNCHANGED <<mounted, stamp>>
       \/ Fault /\ dump' = NoRun /\ UNCHANGED <<assetVars, names, next>>

(* writeDumpManifest, best effort; then what is beyond the kept is pruned.   *)
WriteNote ==
    /\ dump.pc = "note"
    /\ \/ /\ NoFault /\ Put(<<next - 1, "note">>, File(1)) /\ UNCHANGED <<mounted, stamp>>
       \/ Fault /\ UNCHANGED assetVars
    /\ dump' = [pc |-> "tidy", doomed |-> Beyond(Keep)]
    /\ UNCHANGED <<names, incoming, next>>

EndDump ==
    /\ dump.pc = "tidy" /\ dump.doomed = {}
    /\ dump' = NoRun
    /\ NoFault /\ UNCHANGED <<assetVars, names, incoming, next>>

DumpStep == \/ StartDump \/ Preflight \/ Publish \/ WriteNote \/ EndDump
            \/ \E d \in dump.doomed : RemoveDump(d)
=============================================================================
