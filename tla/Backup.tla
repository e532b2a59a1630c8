------------------------------- MODULE Backup -------------------------------
(***************************************************************************)
(* The backup plugin: the site's files change, the index seals generations   *)
(* of them, the dump job adds the database to them, and a puller takes the   *)
(* packs of a generation away.                                               *)
(***************************************************************************)
EXTENDS BackupDumps, BackupPull

vars == <<assetVars, left, indexVars, pullVars, dumpVars>>

Init == AssetsInit /\ IndexInit /\ PullInit /\ DumpsInit

(* The worker ends in the middle of everything and starts anew: what it held *)
(* in memory is gone, and the stream it was sending breaks off.              *)
Crash ==
    /\ Spend("crashes")
    /\ IF pass.pc = "idle" THEN UNCHANGED <<pass, rotten>> ELSE Abandon
    /\ cache' = <<>>
    /\ pull' = IF pull.pc \in {"stream", "copy"} THEN Broken ELSE pull
    /\ dump' = NoRun
    /\ UNCHANGED <<disk, mounted, stamp, touched, newest, sealed, rows, suspect,
                   seen, unread, held, acks, names, incoming, next>>

Next == \/ AssetStep /\ UNCHANGED <<indexVars, pullVars, dumpVars>>
        \/ IndexStep /\ UNCHANGED <<pullVars, dumpVars>>
        \/ DumpStep /\ UNCHANGED <<indexVars, pullVars>>
        \/ PullStep /\ UNCHANGED <<assetVars, indexVars, dumpVars>>
        \/ Crash

Spec == Init /\ [][Next]_vars

(* The scheduler runs the dump job again and again, and a run ends.          *)
FairSpec == Spec /\ WF_vars(DumpStep /\ UNCHANGED <<indexVars, pullVars>>)

-----------------------------------------------------------------------------
Holds(p, sha) == \E h \in held : <<p, sha>> \in h.pack.members /\ h.got[p] = sha

(* A generation that a puller reports held can be restored: of every file    *)
(* the pass recorded the puller has whole contents, those the pass recorded  *)
(* unless others stood both before and after it, whatever changed, was       *)
(* indexed again, broke off or was restarted meanwhile (filesForGen,         *)
(* plansFor, writePack, digestFile).                                         *)
Before(s) == {t.sha : t \in {u \in seen : u.path = s.path /\ u.gen < s.gen}}
After(s)  == {t.sha : t \in {u \in seen : u.path = s.path /\ u.gen > s.gen}}
AckedWhole ==
    \A s \in seen : s.gen \in acks =>
        \E sha \in {s.sha} \cup (Before(s) \cap After(s)) : Holds(s.path, sha)

(* What stood still during a pass is in its generation as it is, however     *)
(* many passes failed before and although nearly all of it was not read.     *)
(* Two exceptions: bytes that rotted under an unchanged stat may be carried  *)
(* forward, for less than Denom passes in a row (rehashDue); and a file that *)
(* had to be read and could not be is left out, and the generation is sealed *)
(* without it (indexPass, "unreadable").                                     *)
Recorded(p) == \E s \in seen : s.gen = newest /\ s.path = p /\ s.sha = disk[p].bytes
IndexHonest ==
    pass.pc = "seal" => \A p \in Path :
        (There(p) /\ p \notin touched \cup unread /\ rotten[p] \notin 1..(Denom - 1))
        => Recorded(p)

(* "a failure never leaves us with neither": wherever pruning or a dump was  *)
(* cut off, the newest dump that was published is whole on the disk.         *)
KeepsNewest == next > 1 => disk[<<next - 1, "data">>] # Absent

(* A disk with room for the dumps that are kept and for two never stops the  *)
(* job for good: every dump is followed by another one, although runs are    *)
(* killed and refused (the order of sweep, prune and pre-flight).            *)
DumpRecovers == \A n \in Dump : next = n /\ n <= left["dumps"] ~> next > n

(* "the pass refuses to seal" (maxClassShrinkPct): a class that had files in *)
(* a sealed generation and has none in the next is a missing mount, and that *)
(* generation is not sealed.                                                 *)
Lists(g, c)  == \E s \in seen : s.gen = g /\ ClassOf(s.path) = c
Follows(h, g) == g < h /\ \A k \in sealed : k <= g \/ h <= k
CollapseUnsealed ==
    \A g, h \in sealed : Follows(h, g) => \A i \in DOMAIN Classes :
        Lists(g, Classes[i]) => Lists(h, Classes[i])
=============================================================================
