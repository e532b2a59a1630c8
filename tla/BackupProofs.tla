---------------------------- MODULE BackupProofs ----------------------------
(***************************************************************************)
(* Proofs about the backup, for any files, numbers of dumps and of passes,   *)
(* and any number of faults: the newest dump stays, a generation that a      *)
(* puller reported held is held whole, and a pass records what stood still.  *)
(***************************************************************************)
EXTENDS Backup, FiniteSetTheorems, WellFoundedInduction, TLAPS

(* The dumps.  Nothing that is about to go is the newest one.                *)
Data(d) == <<d, "data">>

DumpInv ==
    /\ next \in Nat \ {0} /\ names \subseteq 1..(next - 1)
    /\ dump = [f \in {"pc", "doomed"} |-> dump[f]]
    /\ dump.doomed \subseteq 1..(next - 1) /\ next - 1 \notin dump.doomed
    /\ dump.pc \in {"room", "dump"} => next <= MaxDump
    /\ dump.pc = "note" => next > 1
    /\ next - 1 <= MaxDump
    /\ disk = [p \in Path |-> disk[p]]
    /\ next > 1 => disk[Data(next - 1)] # Absent

LEMMA Constants == /\ MaxDump \in Nat /\ Keep \in Nat \ {0}
                   /\ \A d \in Dump : Data(d) \in Path /\ Data(d) \notin Asset
BY AssetAssumption, DumpAssumption DEF Data, Path, DumpFile, Dump

(* What lies beyond the newest n of the dumps is older than the newest.      *)
LEMMA BeyondIsOlder ==
    ASSUME DumpInv, NEW n \in Nat
    PROVE  Beyond(n) \subseteq 1..(next - 1) /\ next - 1 \notin Beyond(n)
<1>1. Beyond(n) \subseteq names
  BY DEF Beyond
<1>2. ASSUME next - 1 \in Beyond(n) PROVE FALSE
  <2>1. n >= 1 /\ Cardinality(Newer(next - 1)) >= n
    BY <1>2 DEF Beyond
  <2>2. Newer(next - 1) = {}
    BY DEF Newer, DumpInv
  <2> QED
    BY <2>1, <2>2, FS_EmptySet
<1> QED
  BY <1>1, <1>2 DEF DumpInv

LEMMA DumpInvInit == Init => DumpInv
BY Constants DEF Init, AssetsInit, DumpsInit, DumpInv, NoRun

LEMMA AssetsKeepDumps == ASSUME DumpInv, AssetStep, UNCHANGED dumpVars PROVE DumpInv'
<1>1. disk' = [p \in Path |-> disk'[p]] /\ \A d \in Dump : disk'[Data(d)] = disk[Data(d)]
  <2>1. CASE \E p \in Asset : Edit(p) \/ Restore(p) \/ Rot(p)
    BY <2>1, Constants DEF DumpInv, Edit, Restore, Rot, Put
  <2>2. CASE Remount
    BY <2>2 DEF DumpInv, Remount
  <2> QED
    BY <2>1, <2>2 DEF AssetStep
<1>2. next > 1 => next - 1 \in Dump
  BY Constants DEF DumpInv, Dump
<1> QED
  BY <1>1, <1>2 DEF DumpInv, dumpVars

LEMMA DiskStays == ASSUME DumpInv, UNCHANGED <<disk, dumpVars>> PROVE DumpInv'
BY DEF DumpInv, dumpVars

LEMMA StartKeeps == ASSUME DumpInv, StartDump PROVE DumpInv'
<1>1. PrunesBefore \subseteq 1..(next - 1) /\ next - 1 \notin PrunesBefore
  BY Constants, BeyondIsOlder DEF PrunesBefore
<1>2. UNCHANGED <<disk, names, next>> /\ next <= MaxDump
      /\ dump' = [pc |-> "room", doomed |-> PrunesBefore]
  BY DEF StartDump, assetVars
<1> QED
  BY <1>1, <1>2 DEF DumpInv

LEMMA RemoveKeeps == ASSUME DumpInv, NEW d \in dump.doomed, RemoveDump(d) PROVE DumpInv'
<1>1. UNCHANGED next /\ names' \subseteq names /\ dump.pc \in {"room", "tidy"}
  BY DEF RemoveDump
<1>2. dump' = dump \/ dump' = [dump EXCEPT !.doomed = @ \ {d}]
  BY DEF RemoveDump
<1>3. disk' = [p \in Path |-> disk'[p]] /\ disk'[Data(next - 1)] = disk[Data(next - 1)]
  <2>1. CASE UNCHANGED disk
    BY <2>1 DEF DumpInv
  <2>2. CASE \E p \in FilesOn(d) : Put(p, Absent)
    <3>1. PICK p \in FilesOn(d) : Put(p, Absent)
      BY <2>2
    <3>2. p[1] = d /\ d # next - 1
      BY <3>1 DEF FilesOn, DumpInv
    <3> QED
      BY <3>1, <3>2 DEF Put, DumpInv, Data
  <2> QED
    BY <2>1, <2>2 DEF RemoveDump, assetVars
<1>4. dump' = [f \in {"pc", "doomed"} |-> dump'[f]]
      /\ dump'.doomed \subseteq dump.doomed /\ dump'.pc = dump.pc
  BY <1>2 DEF DumpInv
<1> QED
  BY <1>1, <1>3, <1>4 DEF DumpInv

LEMMA PreflightKeeps == ASSUME DumpInv, Preflight PROVE DumpInv'
BY DEF DumpInv, Preflight, NoRun, assetVars

LEMMA PublishKeeps == ASSUME DumpInv, Publish PROVE DumpInv'
<1>1. CASE dump' = NoRun /\ UNCHANGED <<assetVars, names, next>>
  BY <1>1 DEF DumpInv, NoRun, assetVars
<1>2. CASE /\ Put(Data(next), File(1)) /\ names' = names \cup {next} /\ next' = next + 1
           /\ dump' = [dump EXCEPT !.pc = "note"]
  <2>1. next <= MaxDump /\ next \in Dump
    BY Constants DEF DumpInv, Publish, Dump
  <2>2. disk' = [p \in Path |-> disk'[p]] /\ disk'[Data(next)] = File(1)
    BY <1>2, <2>1, Constants DEF DumpInv, Put
  <2>3. File(1) # Absent
    BY DEF File, Absent
  <2>4. dump' = [f \in {"pc", "doomed"} |-> dump'[f]]
        /\ dump'.doomed = dump.doomed /\ dump'.pc = "note"
    BY <1>2 DEF DumpInv
  <2>5. next' - 1 = next
    BY <1>2 DEF DumpInv
  <2> QED
    BY <1>2, <2>1, <2>2, <2>3, <2>4, <2>5 DEF DumpInv
<1> QED
  BY <1>1, <1>2 DEF Publish, Data

LEMMA NoteKeeps == ASSUME DumpInv, WriteNote PROVE DumpInv'
<1>1. disk' = [p \in Path |-> disk'[p]] /\ disk'[Data(next - 1)] = disk[Data(next - 1)]
  <2>1. CASE UNCHANGED assetVars
    BY <2>1 DEF DumpInv, assetVars
  <2>2. CASE Put(<<next - 1, "note">>, File(1))
    BY <2>2 DEF DumpInv, Put, Data
  <2> QED
    BY <2>1, <2>2 DEF WriteNote
<1>2. dump' = [pc |-> "tidy", doomed |-> Beyond(Keep)] /\ UNCHANGED <<names, next>>
  BY DEF WriteNote
<1>3. Beyond(Keep) \subseteq 1..(next - 1) /\ next - 1 \notin Beyond(Keep)
  BY Constants, BeyondIsOlder
<1> QED
  BY <1>1, <1>2, <1>3 DEF DumpInv

LEMMA EndKeeps == ASSUME DumpInv, EndDump PROVE DumpInv'
BY DEF DumpInv, EndDump, NoRun, assetVars

LEMMA DumpInvNext == ASSUME DumpInv, [Next]_vars PROVE DumpInv'
<1>1. CASE AssetStep /\ UNCHANGED dumpVars
  BY <1>1, AssetsKeepDumps
<1>2. CASE DumpStep
  BY <1>2, StartKeeps, RemoveKeeps, PreflightKeeps, PublishKeeps, NoteKeeps, EndKeeps DEF DumpStep
<1>3. CASE IndexStep /\ UNCHANGED dumpVars
  <2>1. UNCHANGED disk
    BY <1>3 DEF IndexStep, BeginPass, WalkClass, IndexFile, RecordClass, Seal
  <2> QED
    BY <1>3, <2>1, DiskStays
<1>4. CASE UNCHANGED <<assetVars, dumpVars>>
  BY <1>4, DiskStays DEF assetVars
<1>5. CASE Crash
  BY <1>5 DEF DumpInv, Crash, NoRun
<1>6. CASE UNCHANGED vars
  BY <1>6, DiskStays DEF vars, assetVars
<1> QED
  BY <1>1, <1>2, <1>3, <1>4, <1>5, <1>6 DEF Next

(* The newest published dump is on the disk, for any number of dumps that    *)
(* are kept, whatever the job's faults and the moment it ended at.           *)
THEOREM NewestDumpStays == Spec => []KeepsNewest
<1>1. Init => DumpInv
  BY DumpInvInit
<1>2. DumpInv /\ [Next]_vars => DumpInv'
  BY DumpInvNext
<1>3. DumpInv => KeepsNewest
  BY DEF DumpInv, KeepsNewest, Data
<1> QED
  BY <1>1, <1>2, <1>3, PTL DEF Spec

(* The inventory.  A row stands for the generations that recorded its        *)
(* contents, the first and the last one among them.                          *)
Mark(g, p, sha) == [gen |-> g, path |-> p, sha |-> sha]

SeenInv ==
    /\ \A s \in seen : s = Mark(s.gen, s.path, s.sha) /\ s.gen \in 1..newest
    /\ \A s, t \in seen : s.gen = t.gen /\ s.path = t.path => s.sha = t.sha

RowShape(r) == /\ r.first \in Nat /\ r.last \in Nat
               /\ Mark(r.first, r.path, r.sha) \in seen
               /\ Mark(r.last, r.path, r.sha) \in seen

RowInv ==
    /\ \A r \in rows : RowShape(r)
    /\ \A r, q \in rows : Same(r, q) => r = q
    /\ \A s \in seen : \E r \in rows : Same(r, s) /\ InGen(r, s.gen)

Once(fs) == \A f, g \in fs : f.path = g.path => f = g

PassInv ==
    /\ pass = [x \in {"pc", "blind", "class", "todo", "batch"} |-> pass[x]]
    /\ pass.class \in {1, 2}
    /\ pass.pc # "idle" => newest >= 1 /\ newest \notin sealed
    /\ pass.pc \in {"walk", "files"} =>
          \A s \in seen : s.gen = newest => pass.class = 2 /\ s.path \in Asset
    /\ pass.pc = "files" =>
          /\ Once(pass.todo) /\ Once(pass.batch)
          /\ \A f \in pass.todo, g \in pass.batch : f.path # g.path
          /\ \A f \in pass.todo \cup pass.batch : f.path \in Asset <=> pass.class = 1

IndexInv == /\ newest \in Nat /\ sealed \subseteq 1..newest
            /\ SeenInv /\ RowInv /\ PassInv

LEMMA IndexInvInit == Init => IndexInv
BY DEF Init, IndexInit, NoPass, IndexInv, SeenInv, RowInv, PassInv

LEMMA Classified == ASSUME NEW i \in {1, 2}, NEW p
                    PROVE  ClassOf(p) = Classes[i] <=> (p \in Asset <=> i = 1)
BY DEF ClassOf, Classes

LEMMA InventoryKeeps ==
    ASSUME IndexInv, UNCHANGED <<newest, seen, rows>>, PassInv', sealed' \subseteq 1..newest
    PROVE  IndexInv'
BY DEF IndexInv, SeenInv, RowInv, RowShape, Same, InGen

LEMMA BeginKeeps == ASSUME IndexInv, BeginPass PROVE IndexInv'
<1>1. newest' = newest + 1 /\ UNCHANGED <<sealed, seen, rows>>
  BY DEF BeginPass
<1>2. PICK begun : begun = [NoPass EXCEPT !.pc = "walk"]
  OBVIOUS
<1>3. pass' \in {NoPass, begun, [begun EXCEPT !.blind = TRUE]}
  BY <1>2 DEF BeginPass, Abandon, AbandonAfter
<1>4. PassInv'
  <2>1. pass' = [x \in {"pc", "blind", "class", "todo", "batch"} |-> pass'[x]]
        /\ pass'.class = 1 /\ pass'.pc \in {"idle", "walk"}
    <3>1. begun = [pc |-> "walk", blind |-> FALSE, class |-> 1, todo |-> {}, batch |-> {}]
      BY <1>2 DEF NoPass
    <3>2. CASE pass' = NoPass
      BY <3>2 DEF NoPass
    <3>3. CASE pass' = begun
      BY <3>1, <3>3
    <3>4. CASE pass' = [begun EXCEPT !.blind = TRUE]
      BY <3>1, <3>4
    <3> QED
      BY <1>3, <3>2, <3>3, <3>4
  <2>2. \A s \in seen' : s.gen # newest'
    BY <1>1 DEF IndexInv, SeenInv
  <2>3. newest' >= 1 /\ newest' \notin sealed'
    BY <1>1 DEF IndexInv
  <2> QED
    BY <2>1, <2>2, <2>3 DEF PassInv
<1>5. SeenInv' /\ RowInv'
  BY <1>1 DEF IndexInv, SeenInv, RowInv, RowShape, Same, InGen
<1> QED
  BY <1>1, <1>4, <1>5 DEF IndexInv

LEMMA IdleIsFine == NoPass.pc = "idle" /\ NoPass.class = 1
                    /\ NoPass = [x \in {"pc", "blind", "class", "todo", "batch"} |-> NoPass[x]]
BY DEF NoPass

LEMMA AbandonKeeps ==
    ASSUME IndexInv, pass' = NoPass, UNCHANGED <<newest, seen, rows>>, sealed' \subseteq 1..newest
    PROVE  IndexInv'
<1>1. PassInv'
  BY IdleIsFine DEF PassInv
<1> QED
  BY <1>1, InventoryKeeps

LEMMA WalkKeeps == ASSUME IndexInv, WalkClass PROVE IndexInv'
<1>1. UNCHANGED <<newest, sealed, seen, rows>> /\ pass.pc = "walk"
  BY DEF WalkClass
<1>2. CASE pass' = NoPass
  BY <1>1, <1>2, AbandonKeeps DEF IndexInv
<1>3. CASE pass' # NoPass
  <2>1. PICK walked : walked = {[path |-> p, stat |-> Found(p).stat] :
               p \in {q \in Path : ClassOf(q) = Classes[pass.class] /\ There(q)}}
    OBVIOUS
  <2>2. pass' = [pass EXCEPT !.pc = "files", !.batch = {}, !.todo = walked]
    BY <1>3, <2>1 DEF WalkClass, Abandon, AbandonAfter
  <2>3. Once(walked) /\ \A f \in walked : f.path \in Asset <=> pass.class = 1
    BY <2>1, Classified DEF Once, IndexInv, PassInv
  <2>4. PassInv'
    BY <1>1, <2>2, <2>3 DEF PassInv, IndexInv, Once
  <2> QED
    BY <1>1, <2>4, InventoryKeeps DEF IndexInv
<1> QED
  BY <1>2, <1>3

LEMMA FileKeeps == ASSUME IndexInv, NEW f \in pass.todo, IndexFile(f) PROVE IndexInv'
<1>1. UNCHANGED <<newest, sealed, seen, rows>> /\ pass.pc = "files"
  BY DEF IndexFile
<1>2. CASE pass' = [pass EXCEPT !.todo = @ \ {f}]
  <2>1. PassInv'
    BY <1>1, <1>2 DEF PassInv, IndexInv, Once
  <2> QED
    BY <1>1, <2>1, InventoryKeeps DEF IndexInv
<1>3. CASE \E sha : pass' = Done(f, sha)
  <2>1. PICK sha : pass' = Done(f, sha)
    BY <1>3
  <2>2. pass' = [pass EXCEPT !.todo = @ \ {f},
                    !.batch = @ \cup {[path |-> f.path, stat |-> f.stat, sha |-> sha]}]
    BY <2>1 DEF Done
  <2>3. PassInv'
    <3>1. PICK g : g = [path |-> f.path, stat |-> f.stat, sha |-> sha]
      OBVIOUS
    <3>2. g.path = f.path
      BY <3>1
    <3>3. pass' = [pass EXCEPT !.todo = pass.todo \ {f}, !.batch = pass.batch \cup {g}]
      BY <2>2, <3>1 DEF IndexInv, PassInv
    <3>4. /\ pass' = [x \in {"pc", "blind", "class", "todo", "batch"} |-> pass'[x]]
          /\ pass'.pc = "files" /\ pass'.class = pass.class
          /\ pass'.todo = pass.todo \ {f} /\ pass'.batch = pass.batch \cup {g}
      BY <1>1, <3>3 DEF IndexInv, PassInv
    <3>5. Once(pass'.todo) /\ Once(pass'.batch)
          /\ (\A h \in pass'.todo, k \in pass'.batch : h.path # k.path)
          /\ \A h \in pass'.todo \cup pass'.batch : h.path \in Asset <=> pass'.class = 1
      BY <1>1, <3>2, <3>4 DEF IndexInv, PassInv, Once
    <3> QED
      BY <1>1, <3>4, <3>5 DEF IndexInv, PassInv
  <2> QED
    BY <1>1, <2>3, InventoryKeeps DEF IndexInv
<1> QED
  BY <1>2, <1>3 DEF IndexFile, CarryFile, ReadFile, SkipFile

(* What a row stands for after a batch: every contents of it has a row that   *)
(* reaches to this generation, the others stand as they stood.               *)
LEMMA StoreKeeps ==
    ASSUME IndexInv, pass.pc = "files", Store, newest' = newest
    PROVE  /\ SeenInv' /\ RowInv' /\ seen \subseteq seen'
           /\ \A s \in seen' : s \in seen \/ (s.gen = newest /\ \E f \in pass.batch : s.path = f.path)
<1> DEFINE New == {Mark(newest, f.path, f.sha) : f \in pass.batch}
           RowOf(f) == [path |-> f.path, sha |-> f.sha, stat |-> f.stat,
                        first |-> First(f), last |-> newest]
<1>1. seen' = seen \cup New
  BY DEF Store, Mark
<1>2. \A s \in New : \E f \in pass.batch : s = Mark(newest, f.path, f.sha)
  OBVIOUS
<1>3. \A s \in New : s.gen = newest /\ s = Mark(s.gen, s.path, s.sha)
                    /\ \E f \in pass.batch : s.path = f.path /\ s.sha = f.sha
  BY <1>2 DEF Mark
<1>4. rows' = {r \in rows : \A f \in pass.batch : ~Same(r, f)} \cup {RowOf(f) : f \in pass.batch}
  BY DEF Store, Upserted
<1>5. \A f \in pass.batch, s \in seen : s.gen = newest => s.path # f.path
  BY DEF IndexInv, PassInv
<1>6. newest \in Nat /\ newest >= 1 /\ Once(pass.batch)
  BY DEF IndexInv, PassInv
<1>7. SeenInv'
  <2>1. \A s \in seen' : s = Mark(s.gen, s.path, s.sha) /\ s.gen \in 1..newest
    BY <1>1, <1>3, <1>6 DEF SeenInv, IndexInv
  <2>2. ASSUME NEW s \in seen', NEW t \in seen', s.gen = t.gen, s.path = t.path
        PROVE  s.sha = t.sha
    <3>1. CASE s \in seen /\ t \in seen
      BY <2>2, <3>1 DEF SeenInv, IndexInv
    <3>2. CASE s \in New /\ t \in New
      BY <1>3, <1>6, <2>2, <3>2 DEF Once
    <3>3. CASE (s \in seen /\ t \in New) \/ (s \in New /\ t \in seen)
      BY <1>3, <1>5, <2>2, <3>3
    <3> QED
      BY <1>1, <3>1, <3>2, <3>3
  <2> QED
    BY <2>1, <2>2 DEF SeenInv
<1>8. ASSUME NEW f \in pass.batch
      PROVE  /\ First(f) \in 1..newest /\ Mark(First(f), f.path, f.sha) \in seen'
             /\ \A r \in rows : Same(r, f) => First(f) = r.first
  <2>1. CASE \E r \in rows : Same(r, f)
    <3>1. PICK r \in rows : Same(r, f)
      BY <2>1
    <3>2. \A q \in rows : Same(q, f) => q = r
      BY <3>1 DEF Same, IndexInv, RowInv
    <3>3. First(f) = r.first
      <4>1. (CHOOSE q \in rows : Same(q, f)) = r
        BY <3>1, <3>2
      <4> QED
        BY <2>1, <4>1 DEF First
    <3>4. r.first \in Nat /\ Mark(r.first, f.path, f.sha) \in seen
      BY <3>1 DEF Same, IndexInv, RowInv, RowShape
    <3>5. r.first \in 1..newest
      BY <3>4 DEF Mark, IndexInv, SeenInv
    <3> QED
      BY <1>1, <3>2, <3>3, <3>4, <3>5
  <2>2. CASE ~\E r \in rows : Same(r, f)
    <3>1. First(f) = newest
      BY <2>2 DEF First
    <3> QED
      BY <1>1, <1>6, <2>2, <3>1
  <2> QED
    BY <2>1, <2>2
<1>9. \A r \in rows' : RowShape(r)'
  <2>1. ASSUME NEW r \in rows PROVE RowShape(r)'
    BY <1>1 DEF RowShape, IndexInv, RowInv
  <2>2. ASSUME NEW f \in pass.batch, NEW r, r = RowOf(f) PROVE RowShape(r)'
    <3>1. Mark(newest, f.path, f.sha) \in seen'
      BY <1>1
    <3>2. r.path = f.path /\ r.sha = f.sha /\ r.first = First(f) /\ r.last = newest
      BY <2>2
    <3>3. First(f) \in Nat
      BY <1>6, <1>8
    <3> QED
      BY <1>6, <1>8, <3>1, <3>2, <3>3 DEF RowShape
  <2>3. PICK new : new = {RowOf(f) : f \in pass.batch}
    OBVIOUS
  <2>4. \A r \in rows' : r \in rows \/ r \in new
    BY <1>4, <2>3
  <2> QED
    BY <2>1, <2>2, <2>3, <2>4
<1>10. \A f \in pass.batch : Same(RowOf(f), f) /\ RowOf(f).first = First(f) /\ RowOf(f).last = newest
  BY DEF Same
<1>11. ASSUME NEW r \in rows', NEW q \in rows', Same(r, q) PROVE r = q
  <2>1. CASE r \in rows /\ q \in rows
    BY <1>11, <2>1 DEF IndexInv, RowInv
  <2>2. ASSUME NEW f \in pass.batch, NEW g \in pass.batch, r = RowOf(f), q = RowOf(g) PROVE r = q
    <3>1. f.path = g.path
      BY <1>10, <1>11, <2>2 DEF Same
    <3> QED
      BY <1>6, <2>2, <3>1 DEF Once
  <2>3. ASSUME NEW f \in pass.batch, NEW c \in rows, ~Same(c, f) PROVE ~Same(c, RowOf(f)) /\ ~Same(RowOf(f), c)
    BY <1>10, <2>3 DEF Same
  <2>4. PICK kept : kept = {c \in rows : \A f \in pass.batch : ~Same(c, f)}
    OBVIOUS
  <2>5. PICK new : new = {RowOf(f) : f \in pass.batch}
    OBVIOUS
  <2>6. r \in kept \cup new /\ q \in kept \cup new
    BY <1>4, <2>4, <2>5
  <2>7. CASE r \in kept /\ q \in kept
    BY <2>1, <2>4, <2>7
  <2>8. CASE r \in new /\ q \in new
    BY <2>2, <2>5, <2>8
  <2>9. CASE (r \in kept /\ q \in new) \/ (r \in new /\ q \in kept)
    BY <1>11, <2>3, <2>4, <2>5, <2>9
  <2> QED
    BY <2>6, <2>7, <2>8, <2>9
<1>12. ASSUME NEW s \in seen' PROVE \E r \in rows' : Same(r, s) /\ InGen(r, s.gen)
  <2>1. ASSUME NEW f \in pass.batch, Same(f, s), First(f) <= s.gen, s.gen <= newest
        PROVE  \E r \in rows' : Same(r, s) /\ InGen(r, s.gen)
    <3>1. RowOf(f) \in rows'
      BY <1>4
    <3>2. Same(RowOf(f), s) /\ InGen(RowOf(f), s.gen)
      BY <1>10, <2>1 DEF Same, InGen
    <3> QED
      BY <3>1, <3>2
  <2>2. CASE s \in New
    BY <1>3, <1>6, <1>8, <2>1, <2>2 DEF Same
  <2>3. CASE s \in seen
    <3>1. PICK r \in rows : Same(r, s) /\ InGen(r, s.gen)
      BY <2>3 DEF IndexInv, RowInv
    <3>2. CASE \E f \in pass.batch : Same(r, f)
      <4>1. PICK f \in pass.batch : Same(r, f)
        BY <3>2
      <4>2. First(f) = r.first
        BY <1>8, <4>1
      <4>3. Same(f, s) /\ r.first <= s.gen /\ s.gen <= newest
        BY <2>3, <3>1, <4>1 DEF Same, InGen, IndexInv, SeenInv
      <4> QED
        BY <2>1, <4>2, <4>3
    <3>3. CASE ~\E f \in pass.batch : Same(r, f)
      BY <1>4, <3>1, <3>3
    <3> QED
      BY <3>2, <3>3
  <2> QED
    BY <1>1, <2>2, <2>3
<1>13. RowInv'
  BY <1>9, <1>11, <1>12 DEF RowInv, Same, InGen
<1> QED
  BY <1>1, <1>3, <1>7, <1>13

LEMMA RecordKeeps == ASSUME IndexInv, RecordClass PROVE IndexInv'
<1>1. UNCHANGED <<newest, sealed>> /\ pass.pc = "files"
  BY DEF RecordClass
<1>2. CASE Store
  <2>1. SeenInv' /\ RowInv'
    BY <1>1, <1>2, StoreKeeps
  <2>2. PassInv'
    <3>1. CASE pass' = NoPass
      BY <3>1, IdleIsFine DEF PassInv
    <3>2. CASE pass.class = 1 /\ pass' = [pass EXCEPT !.pc = "walk", !.class = 2]
      <4>1. \A s \in seen' : s.gen = newest => s.path \in Asset
        BY <1>1, <1>2, <3>2, StoreKeeps DEF IndexInv, PassInv
      <4>2. pass' = [x \in {"pc", "blind", "class", "todo", "batch"} |-> pass'[x]]
            /\ pass'.pc = "walk" /\ pass'.class = 2
        BY <3>2 DEF IndexInv, PassInv
      <4> QED
        BY <1>1, <4>1, <4>2 DEF IndexInv, PassInv
    <3>3. CASE pass' = [pass EXCEPT !.pc = "seal"]
      BY <1>1, <3>3 DEF IndexInv, PassInv
    <3>4. Len(Classes) = 2
      BY DEF Classes
    <3>5. CASE pass' = IF pass.class < Len(Classes)
                         THEN [pass EXCEPT !.pc = "walk", !.class = @ + 1]
                         ELSE [pass EXCEPT !.pc = "seal"]
      <4>1. CASE pass.class = 1
        <5>1. pass' = [pass EXCEPT !.pc = "walk", !.class = pass.class + 1]
          BY <3>4, <3>5, <4>1
        <5> QED
          BY <3>2, <4>1, <5>1
      <4>2. CASE pass.class = 2
        BY <3>3, <3>4, <3>5, <4>2
      <4> QED
        BY <4>1, <4>2 DEF IndexInv, PassInv
    <3> QED
      BY <3>1, <3>5 DEF RecordClass, Abandon, AbandonAfter
  <2> QED
    BY <1>1, <2>1, <2>2 DEF IndexInv
<1>3. CASE ~Store
  BY <1>1, <1>3, AbandonKeeps DEF RecordClass, Abandon, AbandonAfter, IndexInv
<1> QED
  BY <1>2, <1>3

LEMMA SealKeeps == ASSUME IndexInv, Seal PROVE IndexInv'
<1>1. UNCHANGED <<newest, rows, seen>> /\ pass' = NoPass /\ sealed' \subseteq sealed \cup {newest}
      /\ newest \in 1..newest
  BY DEF Seal, Abandon, AbandonAfter, IndexInv, PassInv
<1> QED
  BY <1>1, AbandonKeeps DEF IndexInv

(* Of the index no step but its own changes anything, but that a crash ends   *)
(* the pass.  What was sealed stays as it was recorded.                      *)
Stays == /\ sealed \subseteq sealed' /\ seen \subseteq seen'
         /\ \A s \in seen' : s.gen \in sealed => s \in seen

LEMMA IndexInvNext == ASSUME IndexInv, [Next]_vars PROVE IndexInv' /\ Stays
<1>1. CASE UNCHANGED indexVars
  BY <1>1 DEF indexVars, IndexInv, SeenInv, RowInv, RowShape, PassInv, InGen, Same, Once, Stays
<1>2. CASE IndexStep
  <2>1. CASE RecordClass
    <3>1. CASE Store
      BY <2>1, <3>1, StoreKeeps, RecordKeeps DEF RecordClass, Stays, IndexInv, PassInv
    <3>2. CASE ~Store
      BY <2>1, <3>2, RecordKeeps DEF RecordClass, Stays
    <3> QED
      BY <3>1, <3>2
  <2>2. CASE BeginPass
    BY <2>2, BeginKeeps DEF BeginPass, Stays
  <2>3. CASE WalkClass
    BY <2>3, WalkKeeps DEF WalkClass, Stays
  <2>4. CASE \E f \in pass.todo : IndexFile(f)
    BY <2>4, FileKeeps DEF IndexFile, Stays
  <2>5. CASE Seal
    BY <2>5, SealKeeps DEF Seal, Stays
  <2> QED
    BY <1>2, <2>1, <2>2, <2>3, <2>4, <2>5 DEF IndexStep
<1>3. CASE Crash
  <2>1. UNCHANGED <<newest, sealed, rows, seen>> /\ (UNCHANGED pass \/ pass' = NoPass)
    BY <1>3 DEF Crash, Abandon, AbandonAfter
  <2>2. PassInv'
    BY <2>1, IdleIsFine DEF PassInv, IndexInv, Once
  <2> QED
    BY <2>1, <2>2, InventoryKeeps DEF Stays, IndexInv
<1> QED
  BY <1>1, <1>2, <1>3 DEF Next, vars

(* The packs of a generation: of a path they hold one member, and contents   *)
(* that the generation recorded, or that stood before and after it.          *)
Stands(sha, s) == sha \in {s.sha} \cup (Before(s) \cap After(s))

Neat(k) == \A m, n \in k.members : m = <<m[1], m[2]>> /\ (m[1] = n[1] => m = n)

Served(g, ks) ==
    /\ \A k \in ks : Neat(k)
    /\ \A s \in seen : s.gen = g =>
          \E k \in ks : \E m \in k.members : m[1] = s.path /\ Stands(m[2], s)

LEMMA StandsStill ==
    ASSUME Stays, NEW s, NEW sha, Stands(sha, s) PROVE Stands(sha, s)'
<1>1. Before(s) \subseteq Before(s)' /\ After(s) \subseteq After(s)'
  BY DEF Before, After, Stays
<1> QED
  BY <1>1 DEF Stands

LEMMA ServedStill ==
    ASSUME Stays, NEW g \in sealed, NEW ks, Served(g, ks) PROVE Served(g, ks)'
BY StandsStill DEF Served, Stays, Neat

LEMMA RowStands ==
    ASSUME IndexInv, NEW s \in seen, NEW r \in rows, r.path = s.path, InGen(r, s.gen)
    PROVE  Stands(r.sha, s)
<1>1. CASE r.sha = s.sha
  BY <1>1 DEF Stands
<1>2. CASE r.sha # s.sha
  <2>1. Mark(r.first, r.path, r.sha) \in seen /\ Mark(r.last, r.path, r.sha) \in seen
        /\ r.first \in Nat /\ r.last \in Nat /\ s.gen \in Nat
    BY DEF IndexInv, SeenInv, RowInv, RowShape
  <2>2. PICK t, u : t = Mark(r.first, r.path, r.sha) /\ u = Mark(r.last, r.path, r.sha)
    OBVIOUS
  <2>3. /\ t \in seen /\ t.gen = r.first /\ t.path = s.path /\ t.sha = r.sha
        /\ u \in seen /\ u.gen = r.last /\ u.path = s.path /\ u.sha = r.sha
    BY <2>1, <2>2 DEF Mark
  <2>4. t.gen # s.gen /\ u.gen # s.gen
    BY <1>2, <2>3 DEF IndexInv, SeenInv
  <2>5. t.gen < s.gen /\ u.gen > s.gen
    BY <2>1, <2>3, <2>4 DEF InGen
  <2> QED
    BY <2>3, <2>5 DEF Stands, Before, After
<1> QED
  BY <1>1, <1>2

(* One plan of a class: a member of each path.                               *)
LEMMA ClassServed ==
    ASSUME IndexInv, NEW g, NEW c, NEW fs \in Single(Files(g, c))
    PROVE  /\ \A k \in Packs(c, fs) : Neat(k)
           /\ \A s \in seen : s.gen = g /\ ClassOf(s.path) = c =>
                 \E k \in Packs(c, fs) : \E m \in k.members : m[1] = s.path /\ Stands(m[2], s)
<1>1. /\ fs \subseteq Files(g, c)
      /\ \A p \in Paths(Files(g, c)) : \E f \in fs : f[1] = p /\ \A h \in fs : h[1] = p => h = f
  BY DEF Single
<1>2. \A f \in fs : /\ f = <<f[1], f[2]>> /\ f[1] \in Paths(Files(g, c))
                    /\ \E r \in rows : r.path = f[1] /\ r.sha = f[2] /\ InGen(r, g)
  BY <1>1 DEF Files, Paths
<1>3. \A f, h \in fs : f[1] = h[1] => f = h
  BY <1>1, <1>2
<1>4. \A k \in Packs(c, fs) : k.members \subseteq fs
  BY DEF Packs
<1>5. \A k \in Packs(c, fs) : Neat(k)
  BY <1>2, <1>3, <1>4 DEF Neat
<1>6. \A f \in fs : \E k \in Packs(c, fs) : f \in k.members
  <2> SUFFICES ASSUME NEW f \in fs PROVE \E k \in Packs(c, fs) : f \in k.members
    OBVIOUS
  <2>1. CASE f[1] \in Large
    <3>1. [class |-> c, raw |-> TRUE, members |-> {f}] \in Packs(c, fs)
      BY <2>1 DEF Packs
    <3> QED
      BY <3>1
  <2>2. CASE f[1] \notin Large
    <3>1. PICK small : small = {h \in fs : h[1] \notin Large}
      OBVIOUS
    <3>2. f \in small
      BY <2>2, <3>1
    <3>3. [class |-> c, raw |-> FALSE, members |-> small] \in Packs(c, fs)
      BY <3>1, <3>2 DEF Packs
    <3> QED
      BY <3>2, <3>3
  <2> QED
    BY <2>1, <2>2
<1>7. ASSUME NEW s \in seen, s.gen = g, ClassOf(s.path) = c
      PROVE  \E k \in Packs(c, fs) : \E m \in k.members : m[1] = s.path /\ Stands(m[2], s)
  <2>1. PICK r \in rows : r.path = s.path /\ InGen(r, g)
    BY <1>7 DEF IndexInv, RowInv, Same
  <2>2. s.path \in Paths(Files(g, c))
    <3>1. <<r.path, r.sha>> \in Files(g, c)
      BY <1>7, <2>1 DEF Files
    <3> QED
      BY <2>1, <3>1 DEF Paths
  <2>3. PICK f \in fs : f[1] = s.path
    BY <1>1, <2>2
  <2>4. Stands(f[2], s)
    BY <1>2, <1>7, <2>3, RowStands
  <2> QED
    BY <1>6, <2>3, <2>4
<1> QED
  BY <1>5, <1>7

LEMMA BuiltServed == ASSUME IndexInv, NEW g, NEW ks \in Built(g) PROVE Served(g, ks)
<1>1. PICK a \in Single(Files(g, "assets")), d \in Single(Files(g, "dumps")) :
        ks = Packs("assets", a) \cup Packs("dumps", d)
  BY DEF Built
<1>2. \A s \in seen : ClassOf(s.path) = "assets" \/ ClassOf(s.path) = "dumps"
  BY DEF ClassOf
<1> QED
  BY <1>1, <1>2, ClassServed DEF Served

(* Plans that are kept stand for sealed generations.                         *)
CacheInv == /\ \E S : cache \in Seq(S)
            /\ \A i \in 1..Len(cache) : cache[i].gen \in sealed /\ Served(cache[i].gen, cache[i].packs)

LEMMA PlansServed == ASSUME IndexInv, CacheInv, NEW g \in sealed, NEW ks \in Plans(g) PROVE Served(g, ks)
<1>1. DOMAIN cache = 1..Len(cache)
  BY DEF CacheInv
<1>2. CASE Cached(g) = {}
  BY <1>2, BuiltServed DEF Plans
<1>3. CASE Cached(g) # {}
  BY <1>1, <1>3 DEF Plans, Cached, CacheInv
<1> QED
  BY <1>2, <1>3

LEMMA RememberKeeps ==
    ASSUME CacheInv, NEW g \in sealed, NEW ks, Served(g, ks), Remember(g, ks),
           UNCHANGED indexVars
    PROVE  CacheInv'
<1>1. PICK S : cache \in Seq(S)
  BY DEF CacheInv
<1>2. PICK e : e = [gen |-> g, packs |-> ks]
  OBVIOUS
<1>3. e.gen = g /\ e.packs = ks
  BY <1>2
<1>4. PICK all : all = Append(cache, e)
  OBVIOUS
<1>5. cache \in Seq(S \cup {e})
  BY <1>1
<1>6. all \in Seq(S \cup {e}) /\ Len(all) = Len(cache) + 1
      /\ \A i \in 1..Len(all) : all[i] = e \/ (i \in 1..Len(cache) /\ all[i] = cache[i])
  BY <1>4, <1>5
<1>7. \A i \in 1..Len(all) : all[i].gen \in sealed /\ Served(all[i].gen, all[i].packs)
  BY <1>3, <1>6 DEF CacheInv
<1>8. all # <<>> /\ Tail(all) \in Seq(S \cup {e}) /\ Len(Tail(all)) = Len(all) - 1
      /\ \A i \in 1..Len(Tail(all)) : Tail(all)[i] = all[i + 1]
  BY <1>4, <1>5, <1>6
<1>9. \A h, hs : Served(h, hs) => Served(h, hs)'
  BY DEF Served, Stands, Before, After, indexVars
<1>10. cache' \in {cache, all, Tail(all)}
  BY <1>2, <1>4 DEF Remember
<1>11. CASE cache' = cache
  BY <1>9, <1>11 DEF CacheInv, indexVars
<1>12. CASE cache' = all
  BY <1>6, <1>7, <1>9, <1>12 DEF CacheInv, indexVars
<1>13. CASE cache' = Tail(all)
  <2>1. \A i \in 1..Len(cache') : cache'[i].gen \in sealed /\ Served(cache'[i].gen, cache'[i].packs)
    <3>1. \A i \in 1..Len(cache') : i + 1 \in 1..Len(all) /\ cache'[i] = all[i + 1]
      BY <1>6, <1>8, <1>13
    <3> QED
      BY <1>7, <3>1
  <2> QED
    BY <1>8, <1>9, <1>13, <2>1 DEF CacheInv, indexVars
<1> QED
  BY <1>10, <1>11, <1>12, <1>13

(* The puller.  What has been sent of a pack was what the pack describes.    *)
PullFields == {"pc", "gen", "packs", "pack", "sent", "at", "crc", "part"}

Checked(m) == m[1] \in DOMAIN pull.crc /\ pull.crc[m[1]] = m[2]

PullInv ==
    /\ pull = [x \in PullFields |-> pull[x]]
    /\ pull.pc # "idle" => pull.gen \in sealed /\ Served(pull.gen, pull.packs)
    /\ pull.pc \in {"stream", "copy"} =>
          /\ Neat(pull.pack)
          /\ ~pull.pack.raw => \A m \in pull.pack.members : m[1] \in pull.sent => Checked(m)
    /\ pull.pc = "copy" => /\ ~pull.pack.raw /\ pull.at \in pull.pack.members
                           /\ Checked(pull.at)

HeldInv == \A h \in held : \A m \in h.pack.members : h.got[m[1]] = m[2]

AckedInv ==
    /\ acks \subseteq sealed
    /\ \A s \in seen : s.gen \in acks => \E sha : Stands(sha, s) /\ Holds(s.path, sha)

ServeInv == IndexInv /\ CacheInv /\ PullInv /\ HeldInv /\ AckedInv

LEMMA ServeInvInit == Init => ServeInv
<1> SUFFICES ASSUME Init PROVE ServeInv
  OBVIOUS
<1>1. CacheInv
  BY DEF Init, PullInit, CacheInv
<1>2. PullInv
  BY DEF Init, PullInit, PullInv, Resting, PullFields
<1>3. HeldInv /\ AckedInv
  BY DEF Init, PullInit, IndexInit, HeldInv, AckedInv
<1> QED
  BY <1>1, <1>2, <1>3, IndexInvInit DEF ServeInv

(* While the index works, or nothing that is served changes.                 *)
LEMMA OthersKeep ==
    ASSUME ServeInv, IndexInv', Stays, UNCHANGED pullVars
    PROVE  ServeInv'
<1>1. CacheInv'
  BY ServedStill DEF ServeInv, CacheInv, pullVars, Stays
<1>2. PullInv'
  <2>1. pull' = pull /\ sealed \subseteq sealed'
    BY DEF pullVars, Stays
  <2>2. pull.pc # "idle" => pull.gen \in sealed' /\ Served(pull.gen, pull.packs)'
    BY <2>1, ServedStill DEF ServeInv, PullInv
  <2> QED
    BY <2>1, <2>2 DEF ServeInv, PullInv, Checked, Neat
<1>3. HeldInv' /\ acks' \subseteq sealed'
  BY DEF ServeInv, HeldInv, AckedInv, pullVars, Stays
<1>4. ASSUME NEW s \in seen', s.gen \in acks'
      PROVE  \E sha : Stands(sha, s)' /\ Holds(s.path, sha)'
  <2>1. s \in seen /\ s.gen \in acks
    BY <1>4 DEF ServeInv, AckedInv, pullVars, Stays
  <2>2. PICK sha : Stands(sha, s) /\ Holds(s.path, sha)
    BY <2>1 DEF ServeInv, AckedInv
  <2>3. Stands(sha, s)' /\ Holds(s.path, sha)'
    BY <2>2, StandsStill DEF Holds, pullVars
  <2> QED
    BY <2>3
<1> QED
  BY <1>1, <1>2, <1>3, <1>4 DEF ServeInv, AckedInv

(* A step of the puller that leaves what it holds and reported as it is.     *)
LEMMA PullerKeeps ==
    ASSUME ServeInv, UNCHANGED indexVars, CacheInv', PullInv', UNCHANGED <<held, acks>>
    PROVE  ServeInv'
<1>1. IndexInv'
  BY DEF ServeInv, indexVars, IndexInv, SeenInv, RowInv, RowShape, PassInv, InGen, Same, Once
<1>2. HeldInv' /\ AckedInv'
  BY DEF ServeInv, HeldInv, AckedInv, Holds, Stands, Before, After, indexVars
<1> QED
  BY <1>1, <1>2 DEF ServeInv

LEMMA CacheSame == ASSUME CacheInv, UNCHANGED cache, UNCHANGED indexVars PROVE CacheInv'
BY DEF CacheInv, Served, Stands, Before, After, indexVars, Neat

LEMMA ServedSame == ASSUME UNCHANGED indexVars, NEW g, NEW ks PROVE Served(g, ks)' <=> Served(g, ks)
BY DEF Served, Stands, Before, After, indexVars, Neat

LEMMA RestKeeps == ASSUME pull' = Resting PROVE PullInv'
BY DEF PullInv, Resting, PullFields

(* A connection that drops, or a member that is refused.                     *)
LEMMA BrokenKeeps ==
    ASSUME PullInv, UNCHANGED indexVars, pull' = Broken, pull.pc # "idle" PROVE PullInv'
<1>1. pull' = [x \in PullFields |-> pull'[x]] /\ pull'.pc = "plan"
      /\ pull'.gen = pull.gen /\ pull'.packs = pull.packs
  BY DEF PullInv, Broken, PullFields
<1> QED
  BY <1>1, ServedSame DEF PullInv, indexVars

LEMMA LeastExists == ASSUME NEW S \in SUBSET Nat, S # {} PROVE \E x \in S : \A y \in S : x <= y
<1>1. IsWellFoundedOn(OpToRel(<, Nat), Nat)
  BY NatLessThanWellFounded
<1>2. PICK x \in S : \A y \in S : <<y, x>> \notin OpToRel(<, Nat)
  BY <1>1, WFMin
<1>3. \A y \in S : ~(y < x)
  BY <1>2 DEF OpToRel
<1> QED
  BY <1>3

LEMMA FetchKeeps == ASSUME ServeInv, UNCHANGED indexVars, FetchManifest PROVE ServeInv'
<1>1. PICK ks \in Plans(Sealed) :
        /\ Remember(Sealed, ks)
        /\ pull' = [Resting EXCEPT !.pc = "plan", !.gen = Sealed, !.packs = ks]
  BY DEF FetchManifest
<1>2. Sealed \in sealed
  <2>1. sealed # {} /\ newest \in Nat /\ \A n \in sealed : n \in 1..newest
    BY DEF FetchManifest, ServeInv, IndexInv
  <2>2. PICK ages : ages = {newest - n : n \in sealed}
    OBVIOUS
  <2>3. ages \in SUBSET Nat /\ ages # {}
    BY <2>1, <2>2
  <2>4. PICK a \in ages : \A b \in ages : a <= b
    BY <2>3, LeastExists
  <2>5. PICK n \in sealed : a = newest - n
    BY <2>2, <2>4
  <2>6. \A m \in sealed : m <= n
    BY <2>1, <2>2, <2>4, <2>5
  <2> QED
    BY <2>1, <2>6 DEF Sealed, Newest
<1>3. Served(Sealed, ks)
  BY <1>1, <1>2, PlansServed DEF ServeInv
<1>4. CacheInv'
  BY <1>1, <1>2, <1>3, RememberKeeps DEF ServeInv
<1>5. PullInv'
  <2>1. pull' = [x \in PullFields |-> pull'[x]] /\ pull'.pc = "plan"
        /\ pull'.gen = Sealed /\ pull'.packs = ks
    BY <1>1 DEF Resting, PullFields
  <2> QED
    BY <1>2, <1>3, <2>1, ServedSame DEF PullInv, indexVars
<1> QED
  BY <1>4, <1>5, PullerKeeps DEF FetchManifest

LEMMA OpenKeeps ==
    ASSUME ServeInv, UNCHANGED indexVars, NEW k \in pull.packs, OpenPack(k) PROVE ServeInv'
<1>1. pull.gen \in sealed /\ Served(pull.gen, pull.packs) /\ Neat(k)
  BY DEF OpenPack, ServeInv, PullInv, Served
<1>2. PICK ks \in Plans(pull.gen) :
        /\ Remember(pull.gen, ks)
        /\ pull' = IF k \notin ks THEN Resting
                   ELSE [pull EXCEPT !.pc = "stream", !.pack = k, !.sent = {}, !.crc = <<>>,
                            !.part = IF pull.pack = k THEN @ ELSE <<>>]
  BY DEF OpenPack
<1>3. CacheInv'
  BY <1>1, <1>2, PlansServed, RememberKeeps DEF ServeInv
<1>4. PullInv'
  <2>1. CASE pull' = Resting
    BY <2>1, RestKeeps
  <2>2. CASE pull' # Resting
    <3>1. /\ pull' = [x \in PullFields |-> pull'[x]] /\ pull'.pc = "stream"
          /\ pull'.gen = pull.gen /\ pull'.packs = pull.packs
          /\ pull'.pack = k /\ pull'.sent = {}
      BY <1>2, <2>2 DEF ServeInv, PullInv, PullFields
    <3> QED
      BY <1>1, <3>1, ServedSame DEF PullInv, indexVars, Neat
  <2> QED
    BY <2>1, <2>2
<1> QED
  BY <1>3, <1>4, PullerKeeps DEF OpenPack

LEMMA WithAdds == ASSUME NEW f, NEW p, NEW b
                  PROVE  /\ p \in DOMAIN With(f, p, b) /\ With(f, p, b)[p] = b
                         /\ \A q \in DOMAIN f : q # p => q \in DOMAIN With(f, p, b) /\ With(f, p, b)[q] = f[q]
BY DEF With

LEMMA DigestKeeps ==
    ASSUME ServeInv, UNCHANGED indexVars, NEW m \in pull.pack.members, DigestMember(m) PROVE ServeInv'
<1>1. pull.pc = "stream" /\ ~pull.pack.raw /\ Neat(pull.pack)
  BY DEF DigestMember, ServeInv, PullInv
<1>2. PullInv'
  <2>1. CASE pull' = Broken
    BY <1>1, <2>1, BrokenKeeps DEF ServeInv
  <2>2. CASE pull' # Broken
    <3>1. PICK crc : crc = With(pull.crc, m[1], m[2])
      OBVIOUS
    <3>2. pull' = [pull EXCEPT !.pc = "copy", !.at = m, !.crc = crc]
      BY <2>2, <3>1 DEF DigestMember, AsPlanned
    <3>3. /\ pull' = [x \in PullFields |-> pull'[x]] /\ pull'.pc = "copy"
          /\ pull'.gen = pull.gen /\ pull'.packs = pull.packs /\ pull'.pack = pull.pack
          /\ pull'.sent = pull.sent /\ pull'.at = m /\ pull'.crc = crc
      BY <3>2 DEF ServeInv, PullInv, PullFields
    <3>4. m[1] \in DOMAIN crc /\ crc[m[1]] = m[2]
      BY <3>1, WithAdds
    <3>5. ASSUME NEW n \in pull.pack.members, n[1] \in pull.sent
          PROVE  n[1] \in DOMAIN crc /\ crc[n[1]] = n[2]
      <4>1. n[1] \in DOMAIN pull.crc /\ pull.crc[n[1]] = n[2]
        BY <1>1, <3>5 DEF ServeInv, PullInv, Checked
      <4>2. CASE n[1] = m[1]
        BY <1>1, <3>4, <4>2 DEF Neat
      <4>3. CASE n[1] # m[1]
        BY <3>1, <4>1, <4>3, WithAdds
      <4> QED
        BY <4>2, <4>3
    <3>6. pull.gen \in sealed' /\ Served(pull.gen, pull.packs)'
      BY <1>1, <3>3, ServedSame DEF ServeInv, PullInv, indexVars
    <3> QED
      BY <1>1, <3>3, <3>4, <3>5, <3>6 DEF PullInv, Checked, Neat
  <2> QED
    BY <2>1, <2>2
<1> QED
  BY <1>2, PullerKeeps, CacheSame DEF DigestMember, ServeInv

LEMMA CopyKeeps == ASSUME ServeInv, UNCHANGED indexVars, CopyMember PROVE ServeInv'
<1>1. pull.pc = "copy" /\ ~pull.pack.raw /\ Neat(pull.pack)
      /\ pull.at \in pull.pack.members /\ Checked(pull.at)
  BY DEF CopyMember, ServeInv, PullInv
<1>2. PICK b : pull' = [pull EXCEPT !.pc = "stream", !.part = Received(pull.at[1], b),
                                   !.sent = @ \cup {pull.at[1]}]
  BY DEF CopyMember
<1>3. /\ pull' = [x \in PullFields |-> pull'[x]] /\ pull'.pc = "stream"
      /\ pull'.gen = pull.gen /\ pull'.packs = pull.packs /\ pull'.pack = pull.pack
      /\ pull'.sent = pull.sent \cup {pull.at[1]} /\ pull'.crc = pull.crc
  BY <1>2 DEF ServeInv, PullInv, PullFields
<1>4. \A m \in pull.pack.members : m[1] \in pull'.sent => Checked(m)
  BY <1>1, <1>3 DEF ServeInv, PullInv, Neat
<1>5. PullInv'
  BY <1>1, <1>3, <1>4, ServedSame DEF ServeInv, PullInv, indexVars, Checked, Neat
<1> QED
  BY <1>5, PullerKeeps, CacheSame DEF CopyMember, ServeInv

LEMMA RawKeeps ==
    ASSUME ServeInv, UNCHANGED indexVars, NEW m \in pull.pack.members, SendRaw(m) PROVE ServeInv'
<1>1. pull.pc = "stream" /\ pull.pack.raw /\ Neat(pull.pack)
  BY DEF SendRaw, ServeInv, PullInv
<1>2. PullInv'
  <2>1. CASE pull' = Broken
    BY <1>1, <2>1, BrokenKeeps DEF ServeInv
  <2>2. CASE pull' = [pull EXCEPT !.part = Received(m[1], disk[m[1]].bytes), !.sent = @ \cup {m[1]}]
    <3>1. /\ pull' = [x \in PullFields |-> pull'[x]] /\ pull'.pc = "stream"
          /\ pull'.gen = pull.gen /\ pull'.packs = pull.packs /\ pull'.pack = pull.pack
      BY <1>1, <2>2 DEF ServeInv, PullInv, PullFields
    <3>2. pull.gen \in sealed' /\ Served(pull.gen, pull.packs)'
      BY <1>1, <3>1, ServedSame DEF ServeInv, PullInv, indexVars
    <3>3. Neat(pull.pack)'
      BY <1>1, <3>1 DEF Neat
    <3> QED
      BY <1>1, <3>1, <3>2, <3>3 DEF PullInv
  <2> QED
    BY <2>1, <2>2 DEF SendRaw
<1> QED
  BY <1>2, PullerKeeps, CacheSame DEF SendRaw, ServeInv

(* What is kept of a pack is verified against what was checked as it was sent. *)
LEMMA FinishKeeps == ASSUME ServeInv, UNCHANGED indexVars, FinishPack PROVE ServeInv'
<1>1. /\ pull' = [x \in PullFields |-> pull'[x]] /\ pull'.pc = "plan"
      /\ pull'.gen = pull.gen /\ pull'.packs = pull.packs
  BY DEF FinishPack, ServeInv, PullInv, PullFields
<1>2. PullInv'
  <2>1. pull.gen \in sealed /\ Served(pull.gen, pull.packs)
    BY DEF FinishPack, ServeInv, PullInv
  <2>2. pull'.gen \in sealed' /\ Served(pull.gen, pull.packs)'
    BY <1>1, <2>1, ServedSame DEF indexVars
  <2> QED
    BY <1>1, <2>2 DEF PullInv
<1>3. HeldInv'
  <2>1. CASE Verified
    <3>1. \A m \in pull.pack.members : pull.part[m[1]] = m[2]
      BY <2>1 DEF FinishPack, Verified, ServeInv, PullInv, Checked
    <3>2. PICK h : h = [pack |-> pull.pack, got |-> pull.part]
      OBVIOUS
    <3>3. held' = held \cup {h} /\ h.pack = pull.pack /\ h.got = pull.part
      BY <2>1, <3>2 DEF FinishPack
    <3> QED
      BY <3>1, <3>3 DEF HeldInv, ServeInv
  <2>2. CASE ~Verified
    BY <2>2 DEF FinishPack, HeldInv, ServeInv
  <2> QED
    BY <2>1, <2>2
<1>4. AckedInv'
  <2>1. held \subseteq held' /\ acks' = acks
    BY DEF FinishPack
  <2> QED
    BY <2>1 DEF ServeInv, AckedInv, Holds, Stands, Before, After, indexVars
<1>5. IndexInv'
  BY DEF ServeInv, indexVars, IndexInv, SeenInv, RowInv, RowShape, PassInv, InGen, Same, Once
<1> QED
  BY <1>2, <1>3, <1>4, <1>5, CacheSame DEF FinishPack, ServeInv

LEMMA AckKeeps == ASSUME ServeInv, UNCHANGED indexVars, Acknowledge PROVE ServeInv'
<1>1. pull.gen \in sealed /\ Served(pull.gen, pull.packs)
  BY DEF Acknowledge, ServeInv, PullInv
<1>2. ASSUME NEW s \in seen, s.gen = pull.gen
      PROVE  \E sha : Stands(sha, s) /\ Holds(s.path, sha)
  <2>0. PICK k \in pull.packs : \E m \in k.members : m[1] = s.path /\ Stands(m[2], s)
    BY <1>1, <1>2 DEF Served
  <2>1. PICK m \in k.members : m[1] = s.path /\ Stands(m[2], s)
    BY <2>0
  <2>2. m = <<s.path, m[2]>>
    BY <1>1, <2>1 DEF Served, Neat
  <2>3. PICK h \in held : h.pack = k
    BY <2>1 DEF Acknowledge, Have
  <2>4. h.got[s.path] = m[2]
    BY <2>1, <2>3 DEF ServeInv, HeldInv
  <2>5. Holds(s.path, m[2])
    BY <2>1, <2>2, <2>3, <2>4 DEF Holds
  <2> QED
    BY <2>1, <2>5
<1>3. AckedInv'
  <2>1. acks' = acks \cup {pull.gen} /\ held' = held /\ seen' = seen /\ sealed' = sealed
    BY DEF Acknowledge, indexVars
  <2>2. \A s \in seen : s.gen \in acks' => \E sha : Stands(sha, s) /\ Holds(s.path, sha)
    BY <1>2, <2>1 DEF ServeInv, AckedInv
  <2> QED
    BY <1>1, <2>1, <2>2 DEF ServeInv, AckedInv, Holds, Stands, Before, After
<1>4. IndexInv'
  BY DEF ServeInv, indexVars, IndexInv, SeenInv, RowInv, RowShape, PassInv, InGen, Same, Once
<1> QED
  BY <1>3, <1>4, RestKeeps, CacheSame DEF Acknowledge, ServeInv, HeldInv

LEMMA PullStepKeeps == ASSUME ServeInv, UNCHANGED indexVars, PullStep PROVE ServeInv'
<1>1. CASE GiveUp
  BY <1>1, RestKeeps, PullerKeeps, CacheSame DEF GiveUp, ServeInv
<1>2. CASE DropStream
  BY <1>2, BrokenKeeps, PullerKeeps, CacheSame DEF DropStream, ServeInv
<1> QED
  BY <1>1, <1>2, FetchKeeps, CopyKeeps, FinishKeeps, AckKeeps, OpenKeeps, DigestKeeps, RawKeeps
     DEF PullStep

LEMMA CrashKeeps == ASSUME ServeInv, Crash, IndexInv', Stays PROVE ServeInv'
<1>1. UNCHANGED <<newest, sealed, rows, seen, held, acks>> /\ cache' = <<>>
      /\ (pull' = pull \/ (pull' = Broken /\ pull.pc # "idle"))
  BY DEF Crash
<1>2. \A g, ks : Served(g, ks)' <=> Served(g, ks)
  BY <1>1 DEF Served, Stands, Before, After, Neat
<1>3. PullInv'
  <2>1. CASE pull' = pull
    BY <1>1, <1>2, <2>1 DEF ServeInv, PullInv, Checked, Neat
  <2>2. CASE pull' = Broken /\ pull.pc # "idle"
    <3>1. pull' = [x \in PullFields |-> pull'[x]] /\ pull'.pc = "plan"
          /\ pull'.gen = pull.gen /\ pull'.packs = pull.packs
      BY <2>2 DEF ServeInv, PullInv, Broken, PullFields
    <3> QED
      BY <1>1, <1>2, <2>2, <3>1 DEF ServeInv, PullInv
  <2> QED
    BY <1>1, <2>1, <2>2
<1>4. CacheInv'
  BY <1>1 DEF CacheInv
<1>5. HeldInv' /\ AckedInv'
  BY <1>1 DEF ServeInv, HeldInv, AckedInv, Holds, Stands, Before, After
<1> QED
  BY <1>3, <1>4, <1>5 DEF ServeInv

LEMMA ServeInvNext == ASSUME ServeInv, [Next]_vars PROVE ServeInv'
<1>1. IndexInv' /\ Stays
  BY IndexInvNext DEF ServeInv
<1>2. CASE PullStep /\ UNCHANGED indexVars
  BY <1>2, PullStepKeeps
<1>3. CASE UNCHANGED pullVars
  BY <1>1, <1>3, OthersKeep
<1>4. CASE Crash
  BY <1>1, <1>4, CrashKeeps
<1> QED
  BY <1>2, <1>3, <1>4 DEF Next, vars

(* A generation that a puller reports held is held whole, for any files,     *)
(* classes of large ones, hashes, kept plans, bounds and faults.             *)
THEOREM AckedAreWhole == Spec => []AckedWhole
<1>1. Init => ServeInv
  BY ServeInvInit
<1>2. ServeInv /\ [Next]_vars => ServeInv'
  BY ServeInvNext
<1>3. ServeInv => AckedWhole
  BY DEF ServeInv, AckedInv, AckedWhole, Stands
<1> QED
  BY <1>1, <1>2, <1>3, PTL DEF Spec

(* What an index pass records.  A file is read again when its turn comes     *)
(* round: the passes since then are counted by a remainder.                  *)
Ago(g, p) == (g + Denom - Turn[p]) % Denom

LEMMA Remainder == ASSUME NEW D \in Nat \ {0}, NEW q \in Nat, NEW r \in 0..(D - 1)
                   PROVE  (D * q + r) % D = r
BY SMT

LEMMA Quotient == ASSUME NEW x \in Nat, NEW D \in Nat \ {0}
                  PROVE  x = D * (x \div D) + (x % D) /\ x \div D \in Nat /\ x % D \in 0..(D - 1)
BY SMT

LEMMA TurnComes ==
    ASSUME NEW g \in Nat, NEW p \in Path
    PROVE  /\ Ago(g, p) \in 0..(Denom - 1)
           /\ \/ Ago(g, p) < Denom - 1 /\ Ago(g + 1, p) = Ago(g, p) + 1
              \/ Ago(g, p) = Denom - 1 /\ (g + 1) % Denom = Turn[p]
<1> DEFINE D == Denom
           t == Turn[p]
           x == g + D - t
<1>1. D \in Nat \ {0} /\ t \in 0..(D - 1) /\ x \in Nat
  BY IndexAssumption
<1> HIDE DEF D, t
<1>2. x = D * (x \div D) + (x % D) /\ x \div D \in Nat /\ x % D \in 0..(D - 1)
  BY <1>1, Quotient
<1>3. PICK q \in Nat, r \in 0..(D - 1) : x = D * q + r /\ r = x % D
  BY <1>2
<1>4. CASE r < D - 1
  <2>1. g + 1 + D - t = D * q + (r + 1) /\ r + 1 \in 0..(D - 1)
    BY <1>1, <1>3, <1>4
  <2>2. (g + 1 + D - t) % D = r + 1
    BY <1>1, <2>1, Remainder
  <2> QED
    BY <1>3, <1>4, <2>2 DEF Ago, D, t
<1>5. CASE r = D - 1
  <2>1. g + 1 = D * q + t
    BY <1>1, <1>3, <1>5
  <2>2. (g + 1) % D = t
    BY <1>1, <2>1, Remainder
  <2> QED
    BY <1>3, <1>5, <2>2 DEF Ago, D, t
<1>6. Ago(g, p) = r /\ r \in 0..(Denom - 1)
  BY <1>3 DEF Ago, D, t
<1> QED
  BY <1>1, <1>4, <1>5, <1>6 DEF D, t

(* The files, and what the inventory says of them.                           *)
FileInv ==
    /\ disk = [p \in Path |-> disk[p]] /\ rotten = [p \in Path |-> rotten[p]]
    /\ stamp \in Nat \ {0}
    /\ \A p \in Path : /\ disk[p] = [bytes |-> disk[p].bytes, stat |-> disk[p].stat]
                       /\ disk[p].stat \in 0..stamp /\ rotten[p] \in Nat
    /\ \A p \in DumpFile : disk[p] \in {Absent, File(1)} /\ rotten[p] = 0

Listed(e) == e.path \in Path /\ e.stat \in 0..stamp
Fits(e)   == (disk[e.path] # Absent /\ e.stat = disk[e.path].stat /\ rotten[e.path] = 0)
             => e.sha = disk[e.path].bytes
Latest(r) == \A q \in rows : q.path = r.path => q.last <= r.last
DumpOnce(e) == e.path \in DumpFile => e.sha = 1

FaithInv ==
    /\ \A r \in rows : Listed(r) /\ DumpOnce(r) /\ (Latest(r) => Fits(r))
    /\ \A f \in pass.todo : Listed(f)
    /\ \A f \in pass.batch : Listed(f) /\ DumpOnce(f) /\ Fits(f)

(* Bytes that rotted were passed over only while it was not their turn.      *)
CountInv ==
    \A p \in Asset : rotten[p] > 0 =>
        /\ pass.pc # "idle" /\ p \in touched \cup unread => rotten[p] = 1
        /\ There(p) =>
              \/ rotten[p] = 1
              \/ rotten[p] - 1 <= Ago(IF pass.pc = "idle" THEN newest ELSE newest - 1, p)

(* What the pass under way has done with a file that stood still and could   *)
(* be read.                                                                  *)
Ready(f, p) == f.path = p /\ f.stat = disk[p].stat
Right(f, p) == Ready(f, p) /\ (f.sha = disk[p].bytes \/ (rotten[p] > 0 /\ ~Due(p)))
Covered(p)  == IF rotten[p] = 0 THEN Mark(newest, p, disk[p].bytes) \in seen ELSE ~Due(p)

CoverInv ==
    \A p \in Path : There(p) /\ p \notin touched \cup unread =>
        /\ pass.pc = "files" /\ (p \in Asset <=> pass.class = 1) =>
              (\E f \in pass.todo : Ready(f, p)) \/ (\E f \in pass.batch : Right(f, p))
        /\ pass.pc \in {"walk", "files"} /\ pass.class = 2 /\ p \in Asset => Covered(p)
        /\ pass.pc = "seal" => Covered(p)

HonestInv == IndexInv /\ DumpInv /\ FileInv /\ FaithInv /\ CountInv /\ CoverInv

LEMMA HonestInvInit == Init => HonestInv
<1> SUFFICES ASSUME Init PROVE HonestInv
  OBVIOUS
<1>1. FileInv
  BY AssetAssumption DEF Init, AssetsInit, FileInv, File, Absent, Path
<1>2. FaithInv /\ CountInv /\ CoverInv
  BY DEF Init, AssetsInit, IndexInit, NoPass, FaithInv, CountInv, CoverInv, Path
<1> QED
  BY <1>1, <1>2, IndexInvInit, DumpInvInit DEF HonestInv

(* Steps that are not the index's own.                                       *)
Outside ==
    /\ UNCHANGED indexVars /\ stamp' >= stamp /\ touched \subseteq touched'
    /\ \A p \in Path \ touched' : disk'[p] = disk[p] /\ rotten'[p] = rotten[p]
                                  /\ There(p)' = There(p)
    /\ \A p \in Path : \/ disk'[p] = disk[p] /\ (rotten'[p] = 0 => rotten[p] = 0)
                       \/ rotten'[p] > 0 \/ disk'[p] = Absent \/ p \in DumpFile
                       \/ disk'[p].stat = stamp + 1
    /\ \A p \in Asset : \/ rotten'[p] <= 1
                        \/ rotten'[p] = rotten[p] /\ There(p)' = There(p)
                           /\ (p \in touched' => p \in touched)

LEMMA OutsideKeeps ==
    ASSUME HonestInv, Outside, FileInv', DumpInv'
    PROVE  HonestInv'
<1>1. IndexInv'
  BY DEF HonestInv, Outside, indexVars, IndexInv, SeenInv, RowInv, RowShape, PassInv, InGen, Same, Once
<1>2. ASSUME NEW e, Listed(e), DumpOnce(e) PROVE Listed(e)'
  BY <1>2 DEF Listed, Outside, HonestInv, FileInv
<1>3. ASSUME NEW e, Listed(e), DumpOnce(e), Fits(e) PROVE Fits(e)'
  <2>1. e.path \in Path /\ e.stat \in 0..stamp /\ stamp \in Nat
    BY <1>3 DEF Listed, HonestInv, FileInv
  <2>2. CASE e.path \in DumpFile
    BY <1>3, <2>1, <2>2 DEF DumpOnce, Fits, FileInv, File
  <2>3. CASE disk'[e.path] = disk[e.path] /\ (rotten'[e.path] = 0 => rotten[e.path] = 0)
    BY <1>3, <2>3 DEF Fits
  <2>4. CASE rotten'[e.path] > 0 \/ disk'[e.path] = Absent
    BY <2>4 DEF Fits
  <2>5. CASE disk'[e.path].stat = stamp + 1
    BY <2>1, <2>5 DEF Fits
  <2> QED
    BY <2>1, <2>2, <2>3, <2>4, <2>5 DEF Outside
<1>4. FaithInv'
  <2>1. rows' = rows /\ pass' = pass
    BY DEF Outside, indexVars
  <2>2. \A r \in rows : Latest(r)' = Latest(r)
    BY <2>1 DEF Latest
  <2>3. \A r \in rows : Listed(r)' /\ DumpOnce(r)' /\ (Latest(r) => Fits(r)')
    BY <1>2, <1>3 DEF HonestInv, FaithInv, DumpOnce
  <2>4. \A f \in pass.batch : Listed(f)' /\ DumpOnce(f)' /\ Fits(f)'
    BY <1>2, <1>3 DEF HonestInv, FaithInv, DumpOnce
  <2>5. \A f \in pass.todo : Listed(f)'
    BY DEF HonestInv, FaithInv, Listed, Outside, FileInv
  <2> QED
    BY <2>1, <2>2, <2>3, <2>4, <2>5 DEF FaithInv
<1>5. CountInv'
  <2>1. SUFFICES ASSUME NEW p \in Asset, rotten'[p] > 0
                 PROVE  /\ pass.pc # "idle" /\ p \in touched' \cup unread => rotten'[p] = 1
                        /\ There(p)' =>
                              \/ rotten'[p] = 1
                              \/ rotten'[p] - 1 <= Ago(IF pass.pc = "idle" THEN newest ELSE newest - 1, p)
    BY DEF CountInv, Outside, indexVars, Ago
  <2>2. p \in Path /\ rotten'[p] \in Nat
    BY DEF FileInv, Path
  <2>3. CASE rotten'[p] <= 1
    BY <2>1, <2>2, <2>3
  <2>4. CASE rotten'[p] = rotten[p] /\ There(p)' = There(p) /\ (p \in touched' => p \in touched)
    BY <2>1, <2>4 DEF HonestInv, CountInv
  <2> QED
    BY <2>3, <2>4 DEF Outside
<1>6. CoverInv'
  <2>1. \A p \in Path \ touched' : \A f : (Ready(f, p) => Ready(f, p)') /\ (Right(f, p) => Right(f, p)')
                                          /\ (Covered(p) => Covered(p)')
    BY DEF Outside, Ready, Right, Covered, indexVars, Due
  <2>2. pass' = pass /\ touched \subseteq touched' /\ unread' = unread /\ \A p \in Path \ touched' : There(p)' = There(p)
    BY DEF Outside, indexVars
  <2> QED
    BY <2>1, <2>2 DEF HonestInv, CoverInv
<1> QED
  BY <1>1, <1>4, <1>5, <1>6 DEF HonestInv

LEMMA PathsApart == /\ Asset \subseteq Path /\ DumpFile \subseteq Path /\ Asset \cap DumpFile = {}
                    /\ Path = Asset \cup DumpFile
BY AssetAssumption DEF Path

(* One file, put by a plugin or by the dump job.                             *)
LEMMA PutIsOutside ==
    ASSUME HonestInv, UNCHANGED <<indexVars, mounted>>, NEW p \in Path, NEW file, Put(p, file),
           \/ p \in Asset /\ stamp' = stamp + 1
              /\ (file = Absent \/ \E b : file = [bytes |-> b, stat |-> stamp + 1])
           \/ p \in DumpFile /\ stamp' = stamp /\ file \in {Absent, File(1)}
    PROVE  Outside /\ FileInv'
<1>1. /\ disk' = [disk EXCEPT ![p] = file] /\ touched' = touched \cup {p}
      /\ rotten' = [rotten EXCEPT ![p] = 0]
  BY DEF Put
<1>2. /\ disk'[p] = file /\ rotten'[p] = 0
      /\ \A q \in Path : q # p => disk'[q] = disk[q] /\ rotten'[q] = rotten[q]
      /\ disk' = [q \in Path |-> disk'[q]] /\ rotten' = [q \in Path |-> rotten'[q]]
  BY <1>1 DEF HonestInv, FileInv
<1>3. stamp \in Nat \ {0} /\ stamp' \in {stamp, stamp + 1}
  BY DEF HonestInv, FileInv
<1>4. /\ file = [bytes |-> file.bytes, stat |-> file.stat]
      /\ file.stat \in 0..stamp'
      /\ p \in Asset => file = Absent \/ file.stat = stamp + 1
  <2>1. CASE p \in Asset /\ file # Absent
    <3>1. PICK b : file = [bytes |-> b, stat |-> stamp + 1]
      BY <2>1, PathsApart
    <3>2. file.bytes = b /\ file.stat = stamp + 1
      BY <3>1
    <3> QED
      BY <1>3, <2>1, <3>1, <3>2, PathsApart
  <2>2. CASE file \in {Absent, File(1)} /\ (p \in Asset => file = Absent)
    BY <1>3, <2>2 DEF Absent, File
  <2> QED
    BY <2>1, <2>2, PathsApart
<1>5. FileInv'
  <2>1. \A q \in Path : disk[q].stat \in 0..stamp' /\ rotten[q] \in Nat
    BY <1>3 DEF HonestInv, FileInv
  <2>2. \A q \in Path : /\ disk'[q] = [bytes |-> disk'[q].bytes, stat |-> disk'[q].stat]
                        /\ disk'[q].stat \in 0..stamp' /\ rotten'[q] \in Nat
    BY <1>2, <1>4, <2>1 DEF HonestInv, FileInv
  <2>3. \A q \in DumpFile : disk'[q] \in {Absent, File(1)} /\ rotten'[q] = 0
    BY <1>2, PathsApart DEF HonestInv, FileInv
  <2> QED
    BY <1>2, <1>3, <2>2, <2>3 DEF FileInv
<1>6. \A q \in Path : q # p => There(q)' = There(q)
  BY <1>2 DEF There, Found
<1>7. Outside
  <2>1. \A q \in Path \ touched' : q # p
    BY <1>1
  <2>2. \A q \in Asset : q # p => rotten'[q] = rotten[q] /\ There(q)' = There(q)
                                  /\ (q \in touched' => q \in touched)
    BY <1>1, <1>2, <1>6, PathsApart
  <2> QED
    BY <1>1, <1>2, <1>3, <1>4, <1>6, <2>1, <2>2, PathsApart DEF Outside
<1> QED
  BY <1>5, <1>7

LEMMA RotIsOutside ==
    ASSUME HonestInv, UNCHANGED indexVars, NEW p \in Asset, Rot(p)
    PROVE  Outside /\ FileInv'
<1>1. /\ disk' = [disk EXCEPT ![p].bytes = stamp + 1] /\ touched' = touched \cup {p}
      /\ rotten' = [rotten EXCEPT ![p] = 1] /\ stamp' = stamp + 1 /\ mounted' = mounted
  BY DEF Rot
<1>2. p \in Path /\ p \notin DumpFile /\ stamp \in Nat \ {0}
  BY PathsApart DEF HonestInv, FileInv
<1>3. disk'[p] = [bytes |-> stamp + 1, stat |-> disk[p].stat]
  <2>1. disk[p] = [bytes |-> disk[p].bytes, stat |-> disk[p].stat] /\ p \in DOMAIN disk
    BY <1>2 DEF HonestInv, FileInv
  <2>2. disk'[p] = [disk[p] EXCEPT !.bytes = stamp + 1]
    BY <1>1, <2>1
  <2> QED
    BY <2>1, <2>2
<1>4. /\ rotten'[p] = 1 /\ \A q \in Path : q # p => disk'[q] = disk[q] /\ rotten'[q] = rotten[q]
      /\ disk' = [q \in Path |-> disk'[q]] /\ rotten' = [q \in Path |-> rotten'[q]]
  BY <1>1, <1>2 DEF HonestInv, FileInv
<1>5. FileInv'
  <2>1. \A q \in Path : disk[q].stat \in 0..stamp' /\ rotten[q] \in Nat
    BY <1>1, <1>2 DEF HonestInv, FileInv
  <2>2. \A q \in Path : /\ disk'[q] = [bytes |-> disk'[q].bytes, stat |-> disk'[q].stat]
                        /\ disk'[q].stat \in 0..stamp' /\ rotten'[q] \in Nat
    BY <1>2, <1>3, <1>4, <2>1 DEF HonestInv, FileInv
  <2>3. \A q \in DumpFile : disk'[q] \in {Absent, File(1)} /\ rotten'[q] = 0
    BY <1>2, <1>4, PathsApart DEF HonestInv, FileInv
  <2> QED
    BY <1>1, <1>2, <1>4, <2>2, <2>3 DEF FileInv
<1>6. \A q \in Path : q # p => There(q)' = There(q)
  BY <1>1, <1>4 DEF There, Found
<1>7. Outside
  <2>1. \A q \in Path \ touched' : q # p
    BY <1>1
  <2>2. \A q \in Asset : q # p => rotten'[q] = rotten[q] /\ There(q)' = There(q)
                                  /\ (q \in touched' => q \in touched)
    BY <1>1, <1>4, <1>6, PathsApart
  <2> QED
    BY <1>1, <1>2, <1>4, <1>6, <2>1, <2>2 DEF Outside
<1> QED
  BY <1>5, <1>7

LEMMA RemountIsOutside ==
    ASSUME HonestInv, UNCHANGED indexVars, Remount
    PROVE  Outside /\ FileInv'
<1>1. /\ disk' = disk /\ stamp' = stamp /\ touched' = touched \cup Asset
      /\ rotten' = [p \in Path |-> IF rotten[p] > 0 THEN 1 ELSE 0]
  BY DEF Remount
<1>2. \A p \in Path : rotten'[p] \in {0, 1} /\ (rotten'[p] = 0 <=> rotten[p] = 0)
  BY <1>1 DEF HonestInv, FileInv
<1>3. FileInv'
  BY <1>1, <1>2, PathsApart DEF HonestInv, FileInv
<1>4. \A p \in Path \ touched' : p \in DumpFile /\ There(p)' = There(p)
                                 /\ rotten'[p] = rotten[p]
  BY <1>1, <1>2, PathsApart DEF There, Found, HonestInv, FileInv
<1>5. stamp' >= stamp
  BY <1>1 DEF HonestInv, FileInv
<1> QED
  BY <1>1, <1>2, <1>3, <1>4, <1>5, PathsApart DEF Outside

LEMMA AssetsKeepHonest ==
    ASSUME HonestInv, AssetStep, UNCHANGED indexVars, DumpInv' PROVE HonestInv'
<1>1. ASSUME NEW p \in Asset, Edit(p) PROVE HonestInv'
  <2>1. PICK file \in {Absent, File(stamp + 1)} : Put(p, file)
    BY <1>1 DEF Edit
  <2>2. stamp' = stamp + 1 /\ mounted' = mounted /\ p \in Path
    BY <1>1, PathsApart DEF Edit
  <2>3. file = Absent \/ \E b : file = [bytes |-> b, stat |-> stamp + 1]
    BY <2>1 DEF File
  <2> QED
    BY <2>1, <2>2, <2>3, PutIsOutside, OutsideKeeps
<1>2. ASSUME NEW p \in Asset, Restore(p) PROVE HonestInv'
  <2>1. /\ Put(p, [bytes |-> 1, stat |-> stamp + 1]) /\ stamp' = stamp + 1
        /\ mounted' = mounted /\ p \in Path
    BY <1>2, PathsApart DEF Restore
  <2> QED
    BY <2>1, PutIsOutside, OutsideKeeps
<1>3. ASSUME NEW p \in Asset, Rot(p) PROVE HonestInv'
  BY <1>3, RotIsOutside, OutsideKeeps
<1>4. CASE Remount
  BY <1>4, RemountIsOutside, OutsideKeeps
<1> QED
  BY <1>1, <1>2, <1>3, <1>4 DEF AssetStep

LEMMA NothingIsOutside ==
    ASSUME HonestInv, UNCHANGED <<indexVars, assetVars>>, DumpInv' PROVE HonestInv'
<1>1. Outside
  BY PathsApart DEF Outside, assetVars, There, Found, HonestInv, FileInv
<1>2. FileInv'
  BY DEF assetVars, HonestInv, FileInv
<1> QED
  BY <1>1, <1>2, OutsideKeeps

LEMMA DumpsKeepHonest ==
    ASSUME HonestInv, DumpStep, UNCHANGED indexVars, DumpInv' PROVE HonestInv'
<1>1. CASE UNCHANGED assetVars
  BY <1>1, NothingIsOutside
<1>2. ASSUME NEW p \in DumpFile, NEW file \in {Absent, File(1)}, Put(p, file),
             UNCHANGED <<mounted, stamp>>
      PROVE  HonestInv'
  BY <1>2, PathsApart, PutIsOutside, OutsideKeeps
<1>3. \A d \in Dump, x \in {"data", "note"} : <<d, x>> \in DumpFile
  BY DEF DumpFile
<1>4. next - 1 <= MaxDump /\ next \in Nat \ {0} /\ dump.doomed \subseteq 1..(next - 1)
      /\ MaxDump \in Nat /\ (dump.pc = "dump" => next <= MaxDump)
  BY Constants DEF HonestInv, DumpInv
<1>5. CASE Publish
  <2>1. next \in Dump
    BY <1>4, <1>5 DEF Publish, Dump
  <2> QED
    BY <1>1, <1>2, <1>3, <1>5, <2>1 DEF Publish
<1>6. CASE WriteNote
  <2>1. CASE Put(<<next - 1, "note">>, File(1)) /\ UNCHANGED <<mounted, stamp>>
    <3>1. <<next - 1, "note">> \in DumpFile
      <4>1. next > 1
        BY <1>6 DEF WriteNote, HonestInv, DumpInv
      <4>2. next - 1 \in Dump
        BY <1>4, <4>1 DEF Dump
      <4> QED
        BY <1>3, <4>2
    <3> QED
      BY <1>2, <2>1, <3>1
  <2> QED
    BY <1>1, <1>6, <2>1 DEF WriteNote
<1>7. ASSUME NEW d \in dump.doomed, RemoveDump(d) PROVE HonestInv'
  <2>1. d \in Dump
    BY <1>4 DEF Dump
  <2>2. CASE \E p \in FilesOn(d) : Put(p, Absent) /\ UNCHANGED <<mounted, stamp>>
    <3>1. PICK p \in FilesOn(d) : Put(p, Absent) /\ UNCHANGED <<mounted, stamp>>
      BY <2>2
    <3>2. p \in DumpFile
      BY <2>1, <3>1 DEF FilesOn, DumpFile
    <3> QED
      BY <1>2, <3>1, <3>2
  <2> QED
    BY <1>1, <1>7, <2>2 DEF RemoveDump
<1> QED
  BY <1>1, <1>5, <1>6, <1>7 DEF DumpStep, StartDump, Preflight, EndDump

(* The index's own steps leave the files alone.                              *)
LEMMA FilesKeep ==
    ASSUME FileInv, UNCHANGED <<disk, stamp>>, rotten' = [p \in Path |-> rotten'[p]],
           \A p \in Path : rotten'[p] \in Nat /\ (rotten[p] = 0 => rotten'[p] = 0)
    PROVE  FileInv'
BY PathsApart DEF FileInv

(* What was rotten and is counted anew.                                      *)
LEMMA AbandonCounts ==
    ASSUME FileInv, NEW ps, AbandonAfter(ps)
    PROVE  /\ rotten' = [p \in Path |-> rotten'[p]]
           /\ \A p \in Path : /\ rotten'[p] \in {0, 1} /\ (rotten[p] = 0 => rotten'[p] = 0)
                              /\ p \in ps => rotten'[p] = 0
                              /\ p \notin ps /\ rotten'[p] = 0 => rotten[p] = 0
BY DEF AbandonAfter, FileInv

(* With no pass under way nothing is asked of it.                            *)
LEMMA IdleKeeps ==
    ASSUME HonestInv, FileInv', IndexInv', DumpInv', pass' = NoPass,
           UNCHANGED <<disk, mounted, stamp, rows>>,
           \A p \in Path : rotten'[p] <= 1,
           \A p \in Path : rotten'[p] = 0 => rotten[p] = 0
    PROVE  HonestInv'
<1>1. CoverInv'
  BY DEF CoverInv, NoPass
<1>2. CountInv'
  <2>1. ASSUME NEW p \in Asset, rotten'[p] > 0 PROVE rotten'[p] = 1
    <3>1. p \in Path /\ rotten'[p] \in Nat /\ rotten'[p] <= 1
      BY PathsApart DEF FileInv
    <3> QED
      BY <2>1, <3>1
  <2> QED
    BY <2>1 DEF CountInv
<1>3. FaithInv'
  <2>1. ASSUME NEW r \in rows' PROVE Listed(r)' /\ DumpOnce(r)' /\ (Latest(r)' => Fits(r)')
    <3>1. r \in rows /\ Listed(r) /\ DumpOnce(r) /\ (Latest(r) => Fits(r))
      BY <2>1 DEF HonestInv, FaithInv
    <3>2. Latest(r)' = Latest(r)
      BY DEF Latest
    <3> QED
      BY <3>1, <3>2 DEF Listed, DumpOnce, Fits
  <2> QED
    BY <2>1 DEF FaithInv, NoPass
<1> QED
  BY <1>1, <1>2, <1>3 DEF HonestInv

LEMMA AbandonKeepsHonest ==
    ASSUME HonestInv, IndexInv', DumpInv', Abandon, UNCHANGED <<disk, mounted, stamp, rows>>
    PROVE  HonestInv'
<1>1. pass' = NoPass /\ AbandonAfter({})
  BY DEF Abandon, AbandonAfter
<1>2. FileInv'
  BY <1>1, AbandonCounts, FilesKeep DEF HonestInv
<1> QED
  BY <1>1, <1>2, AbandonCounts, IdleKeeps DEF HonestInv

LEMMA BeginKeepsHonest ==
    ASSUME HonestInv, IndexInv', DumpInv', BeginPass PROVE HonestInv'
<1>1. UNCHANGED <<disk, mounted, stamp, rows, seen>> /\ newest' = newest + 1
      /\ touched' = {} /\ unread' = {} /\ pass.pc = "idle"
  BY DEF BeginPass
<1>2. CASE Abandon
  BY <1>1, <1>2, AbandonKeepsHonest
<1>3. CASE UNCHANGED rotten /\ pass'.pc = "walk" /\ pass'.class = 1
           /\ pass'.todo = {} /\ pass'.batch = {}
  <2>1. FileInv'
    BY <1>1, <1>3 DEF HonestInv, FileInv
  <2>2. FaithInv'
    <3>1. \A r \in rows : Latest(r)' = Latest(r)
      BY <1>1 DEF Latest
    <3> QED
      BY <1>1, <1>3, <3>1 DEF HonestInv, FaithInv, Listed, DumpOnce, Fits
  <2>3. CountInv'
    <3>1. newest \in Nat /\ newest' - 1 = newest
      BY <1>1 DEF HonestInv, IndexInv
    <3>2. \A p : There(p)' = There(p)
      BY <1>1 DEF There, Found
    <3> QED
      BY <1>1, <1>3, <3>1, <3>2 DEF HonestInv, CountInv, Ago
  <2>4. CoverInv'
    BY <1>3 DEF CoverInv, HonestInv
  <2> QED
    BY <2>1, <2>2, <2>3, <2>4 DEF HonestInv
<1>4. Abandon \/ (UNCHANGED rotten /\ pass'.pc = "walk" /\ pass'.class = 1
                  /\ pass'.todo = {} /\ pass'.batch = {})
  <2>1. PICK begun : begun = [NoPass EXCEPT !.pc = "walk"]
    OBVIOUS
  <2>2. begun = [pc |-> "walk", blind |-> FALSE, class |-> 1, todo |-> {}, batch |-> {}]
    BY <2>1 DEF NoPass
  <2>3. Abandon \/ (UNCHANGED rotten /\ pass' \in {begun, [begun EXCEPT !.blind = TRUE]})
    BY <2>1 DEF BeginPass
  <2> QED
    BY <2>2, <2>3
<1> QED
  BY <1>2, <1>3, <1>4

(* A class is walked: whatever is there is to be done.                       *)
LEMMA WalkKeepsHonest ==
    ASSUME HonestInv, IndexInv', DumpInv', WalkClass PROVE HonestInv'
<1>1. UNCHANGED <<disk, mounted, stamp, rows, seen, touched, unread, newest>> /\ pass.pc = "walk"
  BY DEF WalkClass
<1>2. CASE Abandon
  BY <1>1, <1>2, AbandonKeepsHonest
<1>3. CASE ~Abandon
  <2>1. PICK walked : walked = {[path |-> p, stat |-> Found(p).stat] :
               p \in {q \in Path : ClassOf(q) = Classes[pass.class] /\ There(q)}}
    OBVIOUS
  <2>2. pass' = [pass EXCEPT !.pc = "files", !.batch = {}, !.todo = walked] /\ UNCHANGED rotten
    BY <1>3, <2>1 DEF WalkClass
  <2>3. /\ pass'.pc = "files" /\ pass'.batch = {} /\ pass'.todo = walked
        /\ pass'.class = pass.class /\ pass.class \in {1, 2}
    BY <2>2 DEF HonestInv, IndexInv, PassInv
  <2>4. \A p \in Path : There(p) => Found(p) = disk[p]
    BY DEF There, Found
  <2>5. ASSUME NEW f \in walked PROVE Listed(f)
    <3>1. PICK p \in Path : There(p) /\ f = [path |-> p, stat |-> Found(p).stat]
      BY <2>1, <2>5
    <3> QED
      BY <2>4, <3>1 DEF Listed, HonestInv, FileInv
  <2>6. ASSUME NEW p \in Path, There(p), p \in Asset <=> pass.class = 1
        PROVE  \E f \in walked : Ready(f, p)
    <3>1. ClassOf(p) = Classes[pass.class]
      BY <2>3, <2>6, Classified
    <3>2. PICK f : f = [path |-> p, stat |-> Found(p).stat]
      OBVIOUS
    <3>3. f \in walked
      BY <2>1, <2>6, <3>1, <3>2
    <3> QED
      BY <2>4, <2>6, <3>2, <3>3 DEF Ready
  <2>7. FileInv'
    BY <1>1, <2>2 DEF HonestInv, FileInv
  <2>8. \A p \in Path : /\ There(p)' = There(p) /\ (Covered(p) <=> Covered(p)')
                        /\ \A f : Ready(f, p) <=> Ready(f, p)'
    BY <1>1, <2>2 DEF There, Found, Covered, Ready, Due
  <2>9. FaithInv'
    <3>1. \A r \in rows : Latest(r)' = Latest(r)
      BY <1>1 DEF Latest
    <3> QED
      BY <1>1, <2>2, <2>3, <2>5, <3>1 DEF HonestInv, FaithInv, Listed, DumpOnce, Fits
  <2>10. CountInv'
    <3>1. \A p \in Asset : There(p)' = There(p)
      BY <2>8, PathsApart
    <3> QED
      BY <1>1, <2>2, <2>3, <3>1 DEF HonestInv, CountInv, Ago
  <2>11. CoverInv'
    BY <1>1, <2>3, <2>6, <2>8 DEF HonestInv, CoverInv
  <2> QED
    BY <2>7, <2>9, <2>10, <2>11 DEF HonestInv
<1> QED
  BY <1>2, <1>3

(* The row that is carried forward is the latest one of its path.            *)
LEMMA KnownIsLatest ==
    ASSUME IndexInv, pass.pc = "files", NEW f \in pass.todo, Rows(f.path) # {}
    PROVE  Known(f.path) \in rows /\ Known(f.path).path = f.path /\ Latest(Known(f.path))
<1>1. ASSUME NEW r \in rows, r.path = f.path PROVE r.last < newest /\ r.last \in Nat
  <2>1. Mark(r.last, r.path, r.sha) \in seen /\ r.last \in Nat
    BY DEF IndexInv, RowInv, RowShape
  <2>2. \A s \in seen : s.gen = newest => pass.class = 2 /\ s.path \in Asset
    BY DEF IndexInv, PassInv
  <2>3. f.path \in Asset <=> pass.class = 1
    BY DEF IndexInv, PassInv
  <2>4. r.last # newest
    BY <1>1, <2>1, <2>2, <2>3 DEF Mark
  <2>5. r.last \in 1..newest
    BY <2>1 DEF Mark, IndexInv, SeenInv
  <2> QED
    BY <2>1, <2>4, <2>5 DEF IndexInv
<1>2. Rows(f.path) = {r \in rows : r.path = f.path}
  BY <1>1 DEF Rows
<1>3. PICK ages : ages = {newest - r.last : r \in Rows(f.path)}
  OBVIOUS
<1>4. ages \in SUBSET Nat /\ ages # {}
  BY <1>1, <1>2, <1>3 DEF IndexInv
<1>5. PICK a \in ages : \A b \in ages : a <= b
  BY <1>4, LeastExists
<1>6. PICK r \in Rows(f.path) : a = newest - r.last
  BY <1>3, <1>5
<1>7. \A q \in Rows(f.path) : newest - r.last <= newest - q.last
  BY <1>3, <1>5, <1>6
<1>8. \A q \in Rows(f.path) : q.last <= r.last
  BY <1>1, <1>2, <1>7 DEF IndexInv
<1>9. Known(f.path) \in Rows(f.path) /\ \A q \in Rows(f.path) : q.last <= Known(f.path).last
  BY <1>6, <1>8 DEF Known
<1> QED
  BY <1>2, <1>9 DEF Latest

(* A file that is done: its contents are recorded as they are, unless they   *)
(* rotted and were not to be read.                                           *)
LEMMA FileKeepsHonest ==
    ASSUME HonestInv, IndexInv', DumpInv', NEW f \in pass.todo, IndexFile(f) PROVE HonestInv'
<1>1. UNCHANGED <<disk, mounted, stamp, rows, seen, newest, touched>> /\ pass.pc = "files"
  BY DEF IndexFile, SkipFile
<1>2. \A p : There(p)' = There(p)
  BY <1>1 DEF There, Found
<1>3. \A r \in rows : Latest(r)' = Latest(r)
  BY <1>1 DEF Latest
<1>4. Listed(f) /\ Once(pass.todo)
  BY <1>1 DEF HonestInv, FaithInv, IndexInv, PassInv
<1>5. CASE SkipFile(f)
  <2>1. /\ pass' = [pass EXCEPT !.todo = pass.todo \ {f}]
        /\ unread' \in {unread, unread \cup {f.path}}
        /\ There(f.path) => unread' = unread \cup {f.path}
        /\ rotten' = [rotten EXCEPT ![f.path] = IF @ > 0 THEN 1 ELSE 0]
    BY <1>5 DEF SkipFile
  <2>2. /\ pass'.pc = "files" /\ pass'.class = pass.class
        /\ pass'.todo = pass.todo \ {f} /\ pass'.batch = pass.batch
    BY <1>1, <2>1 DEF HonestInv, IndexInv, PassInv
  <2>3. /\ \A p \in Path : p # f.path => rotten'[p] = rotten[p]
        /\ rotten'[f.path] \in {0, 1} /\ (rotten'[f.path] = 0 <=> rotten[f.path] = 0)
        /\ rotten' = [p \in Path |-> rotten'[p]]
    BY <1>4, <2>1 DEF HonestInv, FileInv, Listed
  <2>4. \A p \in Path : rotten'[p] \in Nat /\ (rotten'[p] = 0 <=> rotten[p] = 0)
    BY <2>3 DEF HonestInv, FileInv
  <2>5. FileInv'
    BY <1>1, <2>3, <2>4, FilesKeep DEF HonestInv
  <2>6. FaithInv'
    BY <1>1, <1>3, <2>2, <2>4 DEF HonestInv, FaithInv, Listed, DumpOnce, Fits
  <2>7. CountInv'
    <3>1. SUFFICES ASSUME NEW p \in Asset, rotten'[p] > 0
                   PROVE  /\ p \in touched \cup unread' => rotten'[p] = 1
                          /\ There(p) => rotten'[p] = 1 \/ rotten'[p] - 1 <= Ago(newest - 1, p)
      BY <1>1, <1>2, <2>2 DEF CountInv, Ago
    <3>2. p \in Path
      BY PathsApart
    <3>3. CASE p = f.path
      BY <2>3, <3>1, <3>3
    <3>4. CASE p # f.path
      BY <1>1, <2>1, <2>3, <3>1, <3>2, <3>4 DEF HonestInv, CountInv
    <3> QED
      BY <3>3, <3>4
  <2>8. CoverInv'
    <3>1. SUFFICES ASSUME NEW p \in Path, There(p), p \notin touched \cup unread'
                   PROVE  /\ (p \in Asset <=> pass.class = 1) =>
                               (\E g \in pass'.todo : Ready(g, p)') \/ (\E g \in pass'.batch : Right(g, p)')
                          /\ pass.class = 2 /\ p \in Asset => Covered(p)'
      BY <1>1, <1>2, <2>2 DEF CoverInv
    <3>2. p # f.path /\ p \notin touched \cup unread /\ rotten'[p] = rotten[p]
      BY <2>1, <2>3, <3>1
    <3>3. \A g : (Ready(g, p) => Ready(g, p)') /\ (Right(g, p) => Right(g, p)')
      BY <1>1, <3>2 DEF Ready, Right, Due
    <3>4. Covered(p) => Covered(p)'
      BY <1>1, <3>2 DEF Covered, Due
    <3>5. \A g \in pass.todo : Ready(g, p) => g \in pass'.todo
      BY <2>2, <3>2 DEF Ready
    <3> QED
      BY <1>1, <2>2, <3>1, <3>2, <3>3, <3>4, <3>5 DEF HonestInv, CoverInv
  <2> QED
    BY <2>5, <2>6, <2>7, <2>8 DEF HonestInv
<1>6. CASE UNCHANGED <<touched, rotten, unread>> /\ (CarryFile(f) \/ ReadFile(f))
  <2>1. PICK sha : /\ pass' = Done(f, sha)
                   /\ \/ MustRead(f) /\ There(f.path) /\ sha = disk[f.path].bytes
                      \/ ~MustRead(f) /\ sha = Known(f.path).sha
    BY <1>6 DEF CarryFile, ReadFile
  <2>2. PICK g : g = [path |-> f.path, stat |-> f.stat, sha |-> sha]
    OBVIOUS
  <2>3. g.path = f.path /\ g.stat = f.stat /\ g.sha = sha
    BY <2>2
  <2>4. pass' = [pass EXCEPT !.todo = pass.todo \ {f}, !.batch = pass.batch \cup {g}]
    BY <2>1, <2>2 DEF Done, HonestInv, IndexInv, PassInv
  <2>5. /\ pass'.pc = "files" /\ pass'.class = pass.class
        /\ pass'.todo = pass.todo \ {f} /\ pass'.batch = pass.batch \cup {g}
    BY <1>1, <2>4 DEF HonestInv, IndexInv, PassInv
  <2>6. ~MustRead(f) => /\ Known(f.path) \in rows /\ Known(f.path).path = f.path
                        /\ Latest(Known(f.path)) /\ Known(f.path).stat = f.stat /\ ~Due(f.path)
    <3>1. ~MustRead(f) => Rows(f.path) # {} /\ ~Changed(f) /\ ~Due(f.path)
      BY DEF MustRead
    <3> QED
      BY <1>1, <3>1, KnownIsLatest DEF Changed, HonestInv
  <2>7. DumpOnce(g)
    <3>1. CASE MustRead(f)
      BY <1>4, <2>1, <2>3, <3>1, PathsApart
         DEF DumpOnce, HonestInv, FileInv, There, Found, File
    <3>2. CASE ~MustRead(f)
      BY <2>1, <2>3, <2>6, <3>2 DEF DumpOnce, HonestInv, FaithInv
    <3> QED
      BY <3>1, <3>2
  <2>8. Fits(g)
    <3>1. CASE MustRead(f)
      BY <2>1, <2>3, <3>1 DEF Fits
    <3>2. CASE ~MustRead(f)
      BY <2>1, <2>3, <2>6, <3>2 DEF Fits, HonestInv, FaithInv
    <3> QED
      BY <3>1, <3>2
  <2>9. FileInv'
    BY <1>1, <1>6 DEF HonestInv, FileInv
  <2>10. FaithInv'
    <3>1. \A h \in pass'.batch : Listed(h) /\ DumpOnce(h) /\ Fits(h)
      BY <1>4, <2>3, <2>5, <2>7, <2>8 DEF HonestInv, FaithInv, Listed
    <3>2. \A h \in pass'.todo : Listed(h)
      BY <2>5 DEF HonestInv, FaithInv
    <3> QED
      BY <1>1, <1>3, <1>6, <3>1, <3>2 DEF HonestInv, FaithInv, Listed, DumpOnce, Fits
  <2>11. CountInv'
    BY <1>1, <1>2, <1>6, <2>5 DEF HonestInv, CountInv, Ago
  <2>12. CoverInv'
    <3>1. SUFFICES ASSUME NEW p \in Path, There(p), p \notin touched \cup unread
                   PROVE  /\ (p \in Asset <=> pass.class = 1) =>
                               (\E h \in pass'.todo : Ready(h, p)) \/ (\E h \in pass'.batch : Right(h, p))
                          /\ pass.class = 2 /\ p \in Asset => Covered(p)
      BY <1>1, <1>2, <1>6, <2>5 DEF CoverInv, Ready, Right, Covered, Due
    <3>2. Ready(f, p) => Right(g, p)
      <4>1. SUFFICES ASSUME Ready(f, p) PROVE Right(g, p)
        OBVIOUS
      <4>2. f.path = p /\ f.stat = disk[p].stat /\ Ready(g, p)
        BY <2>3, <4>1 DEF Ready
      <4>3. CASE MustRead(f)
        BY <2>1, <2>3, <4>2, <4>3 DEF Right
      <4>4. CASE ~MustRead(f)
        <5>1. ~Due(p) /\ (rotten[p] = 0 \/ rotten[p] > 0)
          BY <2>6, <4>2, <4>4 DEF HonestInv, FileInv
        <5>2. disk[p] # Absent
          BY <3>1 DEF There, Found
        <5>3. rotten[p] = 0 => g.sha = disk[p].bytes
          BY <2>3, <2>8, <4>2, <5>2 DEF Fits
        <5> QED
          BY <4>2, <5>1, <5>3 DEF Right
      <4> QED
        BY <4>3, <4>4
    <3> QED
      BY <1>1, <2>5, <3>1, <3>2 DEF HonestInv, CoverInv
  <2> QED
    BY <2>9, <2>10, <2>11, <2>12 DEF HonestInv
<1> QED
  BY <1>5, <1>6 DEF IndexFile

(* A batch is stored: what it had as it was counts as read.                  *)
LEMMA StoreKeepsFaith ==
    ASSUME HonestInv, pass.pc = "files", Store, UNCHANGED <<disk, stamp, newest>>,
           \A p \in Path : /\ rotten'[p] = 0 => (rotten[p] = 0 \/ p \in Current)
    PROVE  \A r \in rows' : Listed(r)' /\ DumpOnce(r)' /\ (Latest(r)' => Fits(r)')
<1> DEFINE RowOf(f) == [path |-> f.path, sha |-> f.sha, stat |-> f.stat,
                        first |-> First(f), last |-> newest]
<1>1. PICK kept : kept = {r \in rows : \A f \in pass.batch : ~Same(r, f)}
  OBVIOUS
<1>2. PICK new : new = {RowOf(f) : f \in pass.batch}
  OBVIOUS
<1>3. rows' = kept \cup new
  BY <1>1, <1>2 DEF Store, Upserted
<1>4. \A f \in pass.batch : RowOf(f) \in rows' /\ RowOf(f).path = f.path /\ RowOf(f).last = newest
                            /\ RowOf(f).sha = f.sha /\ RowOf(f).stat = f.stat
  BY <1>2, <1>3
<1>5. ASSUME NEW f \in pass.batch, NEW r, r = RowOf(f)
      PROVE  Listed(r)' /\ DumpOnce(r)' /\ Fits(r)'
  <2>1. r.path = f.path /\ r.sha = f.sha /\ r.stat = f.stat
    BY <1>5
  <2>2. Listed(f) /\ DumpOnce(f) /\ Fits(f)
    BY DEF HonestInv, FaithInv
  <2>3. f.path \in Current => f.sha = disk[f.path].bytes
    BY DEF Current, HonestInv, IndexInv, PassInv, Once
  <2> QED
    BY <2>1, <2>2, <2>3 DEF Listed, DumpOnce, Fits
<1>6. ASSUME NEW r \in kept PROVE Listed(r)' /\ DumpOnce(r)' /\ (Latest(r)' => Fits(r)')
  <2>1. r \in rows /\ Listed(r) /\ DumpOnce(r) /\ (Latest(r) => Fits(r))
    BY <1>1 DEF HonestInv, FaithInv
  <2>2. ASSUME Latest(r)' PROVE Fits(r)'
    <3>1. ASSUME NEW f \in pass.batch, f.path = r.path PROVE FALSE
      <4>1. newest <= r.last
        BY <1>4, <2>2, <3>1 DEF Latest
      <4>2. Mark(r.last, r.path, r.sha) \in seen /\ r.last \in Nat
        BY <2>1 DEF HonestInv, IndexInv, RowInv, RowShape
      <4>3. r.last \in 1..newest
        BY <4>2 DEF Mark, HonestInv, IndexInv, SeenInv
      <4>4. r.last = newest
        BY <4>1, <4>3 DEF HonestInv, IndexInv
      <4>5. pass.class = 2 /\ r.path \in Asset
        BY <4>2, <4>4 DEF Mark, HonestInv, IndexInv, PassInv
      <4> QED
        BY <3>1, <4>5 DEF HonestInv, IndexInv, PassInv
    <3>2. r.path \notin Current
      BY <3>1 DEF Current
    <3>3. Latest(r)
      <4>1. ASSUME NEW q \in rows, q.path = r.path PROVE q.last <= r.last
        <5>1. \A f \in pass.batch : ~Same(q, f)
          BY <3>1, <4>1 DEF Same
        <5>2. q \in rows'
          BY <1>1, <1>3, <5>1
        <5> QED
          BY <2>2, <4>1, <5>2 DEF Latest
      <4> QED
        BY <4>1 DEF Latest
    <3>4. r.path \in Path /\ (rotten'[r.path] = 0 => rotten[r.path] = 0)
      BY <2>1, <3>2 DEF Listed
    <3> QED
      BY <2>1, <3>3, <3>4 DEF Fits
  <2> QED
    BY <2>1, <2>2 DEF Listed, DumpOnce
<1> QED
  BY <1>2, <1>3, <1>5, <1>6

LEMMA RecordKeepsHonest ==
    ASSUME HonestInv, IndexInv', DumpInv', RecordClass PROVE HonestInv'
<1>1. UNCHANGED <<disk, mounted, stamp, touched, unread, newest>> /\ pass.pc = "files" /\ pass.todo = {}
  BY DEF RecordClass
<1>2. CASE Abandon /\ UNCHANGED rows
  BY <1>1, <1>2, AbandonKeepsHonest
<1>3. CASE Store /\ AbandonAfter(Current)
  <2>1. pass' = NoPass /\ NoPass.todo = {} /\ NoPass.batch = {} /\ NoPass.pc = "idle"
    BY <1>3 DEF AbandonAfter, NoPass
  <2>2. \A p \in Path : rotten'[p] \in {0, 1} /\ (rotten'[p] = 0 => (rotten[p] = 0 \/ p \in Current))
    BY <1>3, AbandonCounts DEF HonestInv
  <2>3. FileInv'
    BY <1>1, <1>3, AbandonCounts, FilesKeep DEF HonestInv
  <2>4. FaithInv'
    BY <1>1, <1>3, <2>1, <2>2, StoreKeepsFaith DEF FaithInv
  <2>5. CountInv' /\ CoverInv'
    BY <2>1, <2>2, PathsApart DEF CountInv, CoverInv
  <2> QED
    BY <2>3, <2>4, <2>5 DEF HonestInv
<1>4. CASE /\ Store /\ rotten' = [p \in Path |-> IF p \in Current THEN 0 ELSE rotten[p]]
           /\ pass' = IF pass.class < Len(Classes)
                      THEN [pass EXCEPT !.pc = "walk", !.class = @ + 1]
                      ELSE [pass EXCEPT !.pc = "seal"]
  <2>1. /\ pass'.pc = (IF pass.class = 1 THEN "walk" ELSE "seal")
        /\ pass'.class = 2 /\ pass'.todo = {} /\ pass'.batch = pass.batch
    <3>1. Len(Classes) = 2 /\ pass.class \in {1, 2}
          /\ pass = [x \in {"pc", "blind", "class", "todo", "batch"} |-> pass[x]]
      BY DEF Classes, HonestInv, IndexInv, PassInv
    <3>2. CASE pass.class = 1
      <4>1. pass' = [pass EXCEPT !.pc = "walk", !.class = pass.class + 1]
        BY <1>4, <3>1, <3>2
      <4> QED
        BY <1>1, <3>1, <3>2, <4>1
    <3>3. CASE pass.class = 2
      <4>1. pass' = [pass EXCEPT !.pc = "seal"]
        BY <1>4, <3>1, <3>3
      <4> QED
        BY <1>1, <3>1, <3>3, <4>1
    <3> QED
      BY <3>1, <3>2, <3>3
  <2>2. \A p \in Path : rotten'[p] = IF p \in Current THEN 0 ELSE rotten[p]
    BY <1>4
  <2>3. rotten' = [p \in Path |-> rotten'[p]]
        /\ \A p \in Path : rotten'[p] \in Nat /\ (rotten[p] = 0 => rotten'[p] = 0)
    BY <1>4, <2>2 DEF HonestInv, FileInv
  <2>4. FileInv'
    BY <1>1, <2>3, FilesKeep DEF HonestInv
  <2>5. \A p : There(p)' = There(p)
    BY <1>1 DEF There, Found
  <2>6. FaithInv'
    <3>1. \A r \in rows' : Listed(r)' /\ DumpOnce(r)' /\ (Latest(r)' => Fits(r)')
      BY <1>1, <1>4, <2>2, StoreKeepsFaith
    <3>2. ASSUME NEW f \in pass.batch PROVE Listed(f)' /\ DumpOnce(f)' /\ Fits(f)'
      <4>1. Listed(f) /\ DumpOnce(f) /\ Fits(f)
        BY DEF HonestInv, FaithInv
      <4>2. f.path \in Current => f.sha = disk[f.path].bytes
        BY <1>1 DEF Current, HonestInv, IndexInv, PassInv, Once
      <4> QED
        BY <1>1, <2>2, <4>1, <4>2 DEF Listed, DumpOnce, Fits
    <3> QED
      BY <2>1, <3>1, <3>2 DEF FaithInv
  <2>7. CountInv'
    <3>1. \A p \in Asset : rotten'[p] > 0 => rotten'[p] = rotten[p]
      BY <2>2, PathsApart
    <3> QED
      BY <1>1, <2>1, <2>5, <3>1 DEF HonestInv, CountInv, Ago
  <2>8. CoverInv'
    <3>1. seen \subseteq seen' /\ \A f \in pass.batch : Mark(newest, f.path, f.sha) \in seen'
      BY <1>4 DEF Store, Mark
    <3>2. ASSUME NEW p \in Path, There(p), p \notin touched \cup unread, p \in Asset <=> pass.class = 1
          PROVE  Covered(p)'
      <4>1. PICK f \in pass.batch : Right(f, p)
        BY <1>1, <3>2 DEF HonestInv, CoverInv
      <4>2. f.path = p /\ f.stat = disk[p].stat
        BY <4>1 DEF Right, Ready
      <4>3. disk[p] # Absent /\ Fits(f)
        BY <3>2 DEF There, Found, HonestInv, FaithInv
      <4>4. CASE f.sha = disk[p].bytes
        <5>1. p \in Current
          BY <4>2, <4>4 DEF Current
        <5>2. rotten'[p] = 0 /\ Mark(newest, p, disk[p].bytes) \in seen'
          BY <2>2, <3>1, <4>2, <4>4, <5>1
        <5> QED
          BY <1>1, <5>2 DEF Covered
      <4>5. CASE f.sha # disk[p].bytes
        <5>1. rotten[p] > 0 /\ ~Due(p)
          BY <4>1, <4>5 DEF Right
        <5>2. p \notin Current
          BY <1>1, <4>2, <4>5 DEF Current, HonestInv, IndexInv, PassInv, Once
        <5>3. rotten'[p] > 0
          BY <2>2, <5>1, <5>2
        <5> QED
          BY <1>1, <5>1, <5>3 DEF Covered, Due
      <4> QED
        BY <4>4, <4>5
    <3>3. ASSUME NEW p \in Path, Covered(p) PROVE Covered(p)' \/ p \in Current
      BY <1>1, <2>2, <3>1, <3>3 DEF Covered, Due
    <3>4. ASSUME NEW p \in Current, There(p), p \notin touched \cup unread PROVE Covered(p)'
      <4>1. PICK f \in pass.batch : f.path = p /\ f.sha = disk[p].bytes
        BY DEF Current
      <4>2. rotten'[p] = 0 /\ Mark(newest, p, disk[p].bytes) \in seen'
        BY <2>2, <3>1, <4>1 DEF Current
      <4> QED
        BY <1>1, <4>2 DEF Covered
    <3>5. ASSUME NEW p \in Path, There(p), p \notin touched \cup unread, p \in Asset, pass.class = 2
          PROVE  Covered(p)'
      BY <1>1, <3>3, <3>4, <3>5 DEF HonestInv, CoverInv
    <3>6. pass.class \in {1, 2}
      BY DEF HonestInv, IndexInv, PassInv
    <3> QED
      BY <1>1, <2>1, <2>5, <3>2, <3>5, <3>6 DEF CoverInv
  <2> QED
    BY <2>4, <2>6, <2>7, <2>8 DEF HonestInv
<1> QED
  BY <1>2, <1>3, <1>4 DEF RecordClass

(* A sealed pass: what it passed over has been rotten for one more.          *)
LEMMA SealKeepsHonest ==
    ASSUME HonestInv, IndexInv', DumpInv', Seal PROVE HonestInv'
<1>1. UNCHANGED <<disk, mounted, stamp, rows, touched, unread, newest>> /\ pass.pc = "seal"
  BY DEF Seal
<1>2. CASE Abandon
  BY <1>1, <1>2, AbandonKeepsHonest
<1>3. CASE /\ pass' = NoPass
           /\ rotten' = [p \in Path |-> IF rotten[p] > 0 /\ p \notin touched \cup unread
                                        THEN rotten[p] + 1 ELSE rotten[p]]
  <2>1. pass' = NoPass /\ NoPass.todo = {} /\ NoPass.batch = {} /\ NoPass.pc = "idle"
    BY <1>3 DEF NoPass
  <2>2. \A p \in Path : rotten[p] \in Nat
                        /\ rotten'[p] = IF rotten[p] > 0 /\ p \notin touched \cup unread
                                        THEN rotten[p] + 1 ELSE rotten[p]
    BY <1>3 DEF HonestInv, FileInv
  <2>3. rotten' = [p \in Path |-> rotten'[p]]
        /\ \A p \in Path : rotten'[p] \in Nat /\ (rotten'[p] = 0 <=> rotten[p] = 0)
    BY <1>3, <2>2
  <2>4. FileInv'
    BY <1>1, <2>3, FilesKeep DEF HonestInv
  <2>5. FaithInv'
    <3>1. \A r \in rows : Latest(r)' = Latest(r)
      BY <1>1 DEF Latest
    <3> QED
      BY <1>1, <2>1, <2>3, <3>1 DEF HonestInv, FaithInv, Listed, DumpOnce, Fits
  <2>6. CoverInv'
    BY <2>1 DEF CoverInv
  <2>7. newest \in Nat /\ newest - 1 \in Nat /\ newest - 1 + 1 = newest
    BY <1>1 DEF HonestInv, IndexInv, PassInv
  <2>8. ASSUME NEW p \in Asset, rotten'[p] > 0, There(p), rotten'[p] # 1
        PROVE  rotten'[p] - 1 <= Ago(newest, p)
    <3>1. p \in Path /\ rotten[p] > 0
      BY <2>2, <2>8, PathsApart
    <3>2. p \notin touched \cup unread
      BY <1>1, <2>2, <2>8, <3>1 DEF HonestInv, CountInv
    <3>3. ~Due(p)
      BY <1>1, <2>8, <3>1, <3>2 DEF HonestInv, CoverInv, Covered
    <3>4. rotten[p] = 1 \/ rotten[p] - 1 <= Ago(newest - 1, p)
      BY <1>1, <2>8, <3>1 DEF HonestInv, CountInv
    <3>5. Ago(newest, p) = Ago(newest - 1, p) + 1 /\ Ago(newest - 1, p) \in 0..(Denom - 1)
      BY <2>7, <3>1, <3>3, TurnComes DEF Due
    <3>6. rotten'[p] = rotten[p] + 1 /\ rotten[p] \in Nat
      BY <2>2, <3>1, <3>2
    <3> QED
      BY <3>4, <3>5, <3>6, IndexAssumption
  <2>9. CountInv'
    <3>1. \A p : There(p)' = There(p)
      BY <1>1 DEF There, Found
    <3> QED
      BY <1>1, <2>1, <2>8, <3>1 DEF CountInv, Ago
  <2> QED
    BY <2>4, <2>5, <2>6, <2>9 DEF HonestInv
<1> QED
  BY <1>2, <1>3 DEF Seal

LEMMA HonestInvNext == ASSUME HonestInv, [Next]_vars PROVE HonestInv'
<1>1. IndexInv' /\ DumpInv'
  BY IndexInvNext, DumpInvNext DEF HonestInv
<1>2. CASE AssetStep /\ UNCHANGED indexVars
  BY <1>1, <1>2, AssetsKeepHonest
<1>3. CASE IndexStep
  BY <1>1, <1>3, BeginKeepsHonest, WalkKeepsHonest, FileKeepsHonest, RecordKeepsHonest,
     SealKeepsHonest DEF IndexStep
<1>4. CASE DumpStep /\ UNCHANGED indexVars
  BY <1>1, <1>4, DumpsKeepHonest
<1>5. CASE UNCHANGED <<assetVars, indexVars>>
  BY <1>1, <1>5, NothingIsOutside
<1>6. CASE Crash
  <2>1. CASE Abandon
    BY <1>1, <1>6, <2>1, AbandonKeepsHonest DEF Crash
  <2>2. CASE UNCHANGED <<pass, rotten>>
    BY <1>1, <1>6, <2>2, NothingIsOutside DEF Crash, indexVars, assetVars
  <2> QED
    BY <1>6, <2>1, <2>2 DEF Crash
<1>7. CASE UNCHANGED vars
  BY <1>1, <1>7, NothingIsOutside DEF vars
<1> QED
  BY <1>2, <1>3, <1>4, <1>5, <1>6, <1>7 DEF Next

(* What stood still during a pass, and could be read in it, is in its        *)
(* generation as it is, for any files, turns, faults and numbers of passes;  *)
(* bytes that rotted under an unchanged stat are carried forward for less    *)
(* than Denom passes in a row, and a file that could not be read is left     *)
(* out.                                                                      *)
THEOREM IndexIsHonest == Spec => []IndexHonest
<1>1. Init => HonestInv
  BY HonestInvInit
<1>2. HonestInv /\ [Next]_vars => HonestInv'
  BY HonestInvNext
<1>3. HonestInv => IndexHonest
  <2>1. SUFFICES ASSUME HonestInv, pass.pc = "seal", NEW p \in Path, There(p),
                        p \notin touched \cup unread, rotten[p] \notin 1..(Denom - 1)
                 PROVE  Recorded(p)
    BY DEF IndexHonest
  <2>2. Covered(p) /\ rotten[p] \in Nat
    BY <2>1 DEF HonestInv, CoverInv, FileInv
  <2>3. CASE rotten[p] = 0
    BY <2>2, <2>3 DEF Covered, Recorded, Mark
  <2>4. CASE rotten[p] > 0
    <3>1. ~Due(p) /\ rotten[p] >= Denom /\ p \in Asset
      BY <2>1, <2>2, <2>4, IndexAssumption, PathsApart DEF Covered, HonestInv, FileInv
    <3>2. newest - 1 \in Nat /\ newest - 1 + 1 = newest
      BY <2>1 DEF HonestInv, IndexInv, PassInv
    <3>3. Ago(newest - 1, p) \in 0..(Denom - 1) /\ Ago(newest - 1, p) < Denom - 1
      BY <2>1, <3>1, <3>2, TurnComes DEF Due
    <3>4. rotten[p] = 1 \/ rotten[p] - 1 <= Ago(newest - 1, p)
      BY <2>1, <2>4, <3>1 DEF HonestInv, CountInv
    <3> QED
      BY <2>2, <3>1, <3>3, <3>4, IndexAssumption
  <2> QED
    BY <2>2, <2>3, <2>4
<1> QED
  BY <1>1, <1>2, <1>3, PTL DEF Spec
=============================================================================
