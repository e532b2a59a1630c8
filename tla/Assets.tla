------------------------------- MODULE Assets -------------------------------
(***************************************************************************)
(* The files the backup protects: what the site's plugins write, what the    *)
(* disk does to it, and the files of the database dumps.  All of it is       *)
(* external to the backup plugin, which only reads; its own writes, the      *)
(* dumps, are in BackupDumps.                                                *)
(***************************************************************************)
EXTENDS Naturals, FiniteSets

CONSTANTS
    Asset,       \* paths of the asset class
    MaxDump,     \* bound: dumps that are published
    Bounds       \* bounds: how often what may go wrong, in one run

Dump     == 1..MaxDump
DumpFile == Dump \X {"data", "note"}
Path     == Asset \cup DumpFile

(* AssetClass: the assets, and the dumps after them.                         *)
Classes    == <<"assets", "dumps">>
ClassOf(p) == IF p \in Asset THEN "assets" ELSE "dumps"

VARIABLES
    disk,        \* path -> contents and stat identity
    mounted,     \* the volume of the assets is there
    stamp,       \* the last contents written
    left,        \* what may still go wrong
    touched,     \* history: paths that changed since the pass began
    rotten       \* history: path -> passes it has been rotten, and one

assetVars == <<disk, mounted, stamp, touched, rotten>>

Absent   == [bytes |-> 0, stat |-> 0]
File(n)  == [bytes |-> n, stat |-> n]
Found(p) == IF p \in Asset /\ ~mounted THEN Absent ELSE disk[p]
There(p) == Found(p) # Absent

Spend(what) == left[what] > 0 /\ left' = [left EXCEPT ![what] = @ - 1]
Fault   == Spend("faults")
NoFault == UNCHANGED left

ASSUME AssetAssumption ==
    /\ MaxDump \in Nat /\ Asset \cap DumpFile = {}
    /\ Bounds \subseteq [{"edits", "rots", "mounts", "faults", "crashes", "drops",
                          "gens", "dumps", "returns", "pullers"} -> Nat]

AssetsInit == /\ left \in Bounds
              /\ disk = [p \in Path |-> IF p \in Asset THEN File(1) ELSE Absent]
              /\ mounted = TRUE /\ stamp = 1
              /\ touched = {} /\ rotten = [p \in Path |-> 0]

Put(p, file) == /\ disk' = [disk EXCEPT ![p] = file]
                /\ touched' = touched \cup {p}
                /\ rotten' = [rotten EXCEPT ![p] = 0]

(* A writer or a deletion: contents and stat are new.                        *)
Edit(p) == /\ mounted /\ Spend("edits")
           /\ stamp' = stamp + 1
           /\ \E file \in {Absent, File(stamp + 1)} : Put(p, file)
           /\ UNCHANGED mounted

(* The first contents of a file are put back, under a stat of its own.       *)
Restore(p) == /\ mounted /\ disk[p].bytes # 1 /\ Spend("returns")
              /\ stamp' = stamp + 1
              /\ Put(p, [bytes |-> 1, stat |-> stamp + 1])
              /\ UNCHANGED mounted

(* The bytes change under an unchanged stat.                                 *)
Rot(p) == /\ There(p) /\ Spend("rots")
          /\ stamp' = stamp + 1
          /\ disk' = [disk EXCEPT ![p].bytes = stamp + 1]
          /\ touched' = touched \cup {p}
          /\ rotten' = [rotten EXCEPT ![p] = 1]
          /\ UNCHANGED mounted

(* The volume goes, and the directory is found empty; or it is back.         *)
Remount == /\ Spend("mounts")
           /\ mounted' = ~mounted
           /\ touched' = touched \cup Asset
           /\ rotten' = [p \in Path |-> IF rotten[p] > 0 THEN 1 ELSE 0]
           /\ UNCHANGED <<disk, stamp>>

AssetStep == (\E p \in Asset : Edit(p) \/ Restore(p) \/ Rot(p)) \/ Remount
=============================================================================
