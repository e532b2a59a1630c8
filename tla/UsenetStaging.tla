---------------------------- MODULE UsenetStaging ----------------------------
(***************************************************************************)
(* One release on its way through the Redis staging area: the batches that *)
(* bring its articles in (stageArticles), the set's article hash and       *)
(* metadata, the ready queue, and the builder that drains it: the          *)
(* walk-past sweep, the salvage of dead sets, the build and the deletion   *)
(* (usenet/redis_staging.go, assemble.go).                                 *)
(*                                                                         *)
(* Batches of crawl and backfill stage at the same time, the builder is one *)
(* per cluster (job lease).  Round trips to Redis are steps of their own;   *)
(* the staging pipeline, which is no transaction, is two: the article       *)
(* write, and the metadata after it.                                        *)
(***************************************************************************)
EXTENDS Integers, FiniteSets, FiniteSetsExt, Functions

CONSTANTS
    Stager,      \* batch workers that stage
    Worlds,      \* the situations covered, records as World describes them
    MaxFile,     \* bound: file numbers
    MaxParts,    \* bound: parts an article claims for its file
    Batch,       \* Config.Batch: the window of one fetch, the sweep's margin
    Top          \* bound: article numbers

StoreAttemptLimit == 3

(* An article's place is its file and part; parts and files are what its    *)
(* subject claims, merit its rank among articles of one place (no ties).    *)
(* A world: the articles posted; who stages; does time pass; what may fail  *)
(* besides the sink: batches, their foldSpans, the builder's other calls,   *)
(* the mark of a salvaged release; Config.WalkPastNoSalvage off or on; does *)
(* policy refuse the release.                                               *)
Article == [num : 1..Top, file : 0..MaxFile, part : 0..MaxParts,
            parts : 1..MaxParts, files : 0..MaxFile, par2 : BOOLEAN, merit : 0..2]
World   == [post : SUBSET Article, stagers : SUBSET Stager, clock : BOOLEAN,
            faults : SUBSET {"batch", "span", "builder", "mark"},
            salvage : BOOLEAN, junk : BOOLEAN]

ASSUME StagingNumbers == /\ Batch \in Nat \ {0} /\ Top \in Nat \ {0}
                         /\ MaxFile \in Nat /\ MaxParts \in Nat \ {0}
ASSUME StagingWorlds == Worlds \subseteq World

VARIABLES
    world,
    done,      \* fetch windows staged without error and recorded
    art,       \* the art: hash, one article per file and part
    meta,      \* the grp: hash; exists when it has its base_subject
    idle,      \* age of touched_at and of the art: TTL: 1 past
               \* evict_staleness_secs, 2 past the sweep's grace, 3 past the
               \* staging TTL or none running
    metaAge,   \* age of the grp: TTL, which a failed store also renews
    ready,     \* is the set in nzb:ready
    stager, builder,
    catalogue, \* releases stored, and whether they are marked broken
    left       \* ghost: has the set been removed from staging

vars == <<world, done, art, meta, idle, metaAge, ready, stager, builder,
          catalogue, left>>
staged == <<art, meta, idle, metaAge, left>>

Window == {<<i, i + Batch - 1>> : i \in {j \in 1..Top : (j - 1) % Batch = 0}}
File   == 0..MaxFile
post   == world.post
In(w)  == {a \in post : w[1] <= a.num /\ a.num <= w[2]}
Covered == UNION {w[1]..w[2] : w \in done}

NoMeta    == [exists |-> FALSE, files |-> 0, parts |-> [f \in File |-> 0],
              struck |-> FALSE, lo |-> 0, hi |-> 0, attempts |-> 0]
NoStager  == [phase |-> "idle", win |-> <<0, 0>>, meta |-> NoMeta, held |-> 0,
              stale |-> FALSE, struck |-> FALSE]
NoBuilder == [phase |-> "idle", arts |-> {}, broken |-> FALSE]

Init ==
    /\ world \in Worlds
    /\ done = {}
    /\ art = {} /\ meta = NoMeta /\ idle = 3 /\ metaAge = 3 /\ ready = FALSE
    /\ stager = [s \in Stager |-> NoStager] /\ builder = NoBuilder
    /\ catalogue = {} /\ left = FALSE

-----------------------------------------------------------------------------
(* Completeness, three times: the cheap bound, the stage-time check on the  *)
(* metadata and the field names, the builder's check on loaded articles.    *)
SamePlace(a, b) == a.file = b.file /\ a.part = b.part
Beats(a, b)     == a.merit > b.merit           \* betterArticle
MaxOf(S)        == IF S = {} THEN 0 ELSE Max(S)
PartsOf(A, f)   == {a.part : a \in {b \in A : b.file = f}}
FilesOf(A)      == {a.file : a \in A}

\* Mutant: a later article displaces the one held.
PutLast(A, B) == {a \in A : \A b \in B : ~SamePlace(a, b)} \cup B
(* artPutScript: of two articles in one place the better stays.             *)
Put(A, B) == {a \in A \cup B : \A b \in A \cup B :
                                  SamePlace(a, b) => ~Beats(b, a)}

\* groupNeededParts: a lower bound on the articles the set needs.
Needed(m) ==
    LET known == {f \in File : m.parts[f] > 0}
    IN IF m.files > 0
       THEN SumFunctionOnSet(m.parts, known)
            + MaxOf({0, m.files - Cardinality(known)})
       ELSE MaxOf({m.parts[f] : f \in File})

(* isGroupComplete: every file seen has what it claims (a file not in the   *)
(* metadata yet, the largest claim) and the files 1..total are all there.   *)
GroupComplete(m, A) ==
    LET most == MaxOf({m.parts[f] : f \in File})
    IN /\ m.exists /\ A # {}
       /\ IF m.files > 0
          THEN /\ \A f \in FilesOf(A) : Cardinality(PartsOf(A, f)) >=
                      (IF m.parts[f] > 0 THEN m.parts[f] ELSE most)
               /\ 1..m.files \subseteq FilesOf(A)
          ELSE most > 0 /\ 1..most \subseteq {a.part : a \in A}

(* isComplete, from the articles alone.                                     *)
IsComplete(A) ==
    LET files == MaxOf({a.files : a \in A})
        parts == MaxOf({a.parts : a \in A})
    IN IF files > 0
       THEN /\ \A a \in A : Cardinality(PartsOf(A, a.file)) >= a.parts
            /\ 1..files \subseteq FilesOf(A)
       ELSE parts > 0 /\ 1..parts \subseteq {a.part : a \in A}

-----------------------------------------------------------------------------
Busy(s) == stager[s].phase # "idle"

(* A batch: fetch a window nobody has in hand, and write its articles.      *)
PutArticles(s) ==
    /\ s \in world.stagers /\ ~Busy(s)
    /\ \E w \in Window \ done :
          /\ In(w) # {} /\ \A t \in Stager : Busy(t) => stager[t].win # w
          /\ art' = Put(art, In(w))
          /\ stager' = [stager EXCEPT ![s].phase = "put", ![s].win = w]
    /\ UNCHANGED <<world, done, meta, idle, metaAge, ready, builder, catalogue, left>>

(* A window without an article of the set: only the sweep can tell.         *)
Skip(w) ==
    /\ world.clock /\ w \notin done /\ In(w) = {} /\ done' = done \cup {w}
    /\ UNCHANGED <<world, staged, ready, stager, builder, catalogue>>

\* Mutant: the totals follow the latest batch.
FoldedLatest(m, B) ==
    [m EXCEPT !.exists = TRUE, !.files = MaxOf({a.files : a \in B}),
              !.parts = [f \in File |-> MaxOf({a.parts : a \in {b \in B : b.file = f}})]]
(* metaMaxScript: every total tracks the largest claim of any batch.        *)
Folded(m, B) ==
    [m EXCEPT !.exists = TRUE, !.files = MaxOf({@} \cup {a.files : a \in B}),
              !.parts = [f \in File |-> MaxOf({m.parts[f]} \cup
                            {a.parts : a \in {b \in B : b.file = f}})]]

(* The rest of the pipeline.  Touch and strike are those from before it,    *)
(* the totals and the length those it leaves.                               *)
FoldMeta(s) ==
    /\ stager[s].phase = "put"
    /\ meta' = Folded(meta, In(stager[s].win)) /\ idle' = 0 /\ metaAge' = 0
    /\ stager' = [stager EXCEPT ![s] =
          [phase |-> "folded", win |-> @.win, meta |-> meta',
           held |-> Cardinality(art), struck |-> meta.struck,
           stale |-> meta.exists /\ idle >= 1]]
    /\ UNCHANGED <<world, done, art, ready, builder, catalogue, left>>

(* foldSpans: best effort; like every HSET it creates a key that is gone.   *)
FoldSpan(s) ==
    /\ stager[s].phase = "folded"
    /\ LET nums == {a.num : a \in In(stager[s].win)}
       IN \/ meta' = [meta EXCEPT
                !.lo = IF @ = 0 THEN Min(nums) ELSE Min(nums \cup {@}),
                !.hi = Max(nums \cup {@})]
          \/ "span" \in world.faults /\ UNCHANGED meta
    /\ stager' = [stager EXCEPT ![s].phase = "spanned"]
    /\ UNCHANGED <<world, done, art, idle, metaAge, ready, builder, catalogue,
                   left>>

EvictDecision(stale, short, struck) ==
    CASE stale /\ short /\ struck  -> "evict"
      [] stale /\ short /\ ~struck -> "strike"
      [] struck /\ ~(stale /\ short) -> "clear"
      [] OTHER -> "pass"

(* What this batch decides of the set; the field names (HKEYS) are read now,*)
(* and only if the length could suffice.                                    *)
Outcome(p) ==
    IF p.held >= Needed(p.meta) /\ GroupComplete(p.meta, art) THEN "queue"
    ELSE EvictDecision(p.stale, p.held > 0 /\ 10 * p.held < 3 * Needed(p.meta),
                       p.struck)

Check(s) ==
    /\ stager[s].phase = "spanned"
    /\ stager' = [stager EXCEPT ![s].phase = Outcome(stager[s])]
    /\ UNCHANGED <<world, done, staged, ready, builder, catalogue>>

-----------------------------------------------------------------------------
(* The end of a batch: its window is recorded, or fetched again, as when    *)
(* another of its sets had an error or the pass died before it recorded.    *)
(* The record is written at the end of the pass; here at once, which only   *)
(* lets the sweep judge earlier.                                            *)
Ends(s) ==
    /\ stager' = [stager EXCEPT ![s] = NoStager]
    /\ \/ done' = done \cup {stager[s].win}
       \/ "batch" \in world.faults /\ UNCHANGED done

Removed == /\ art' = {} /\ meta' = NoMeta /\ idle' = 3 /\ metaAge' = 3
           /\ left' = TRUE

Queue(s) ==
    /\ stager[s].phase = "queue" /\ ready' = TRUE /\ Ends(s)
    /\ UNCHANGED <<world, staged, builder, catalogue>>

(* The eviction pipeline is best effort, and leaves nzb:ready alone.        *)
Evict(s) ==
    /\ stager[s].phase = "evict" /\ (Removed \/ UNCHANGED staged) /\ Ends(s)
    /\ UNCHANGED <<world, ready, builder, catalogue>>

StrikeOrClear(s) ==
    /\ stager[s].phase \in {"strike", "clear"}
    /\ \/ meta' = [meta EXCEPT !.struck = stager[s].phase = "strike"]
       \/ UNCHANGED meta
    /\ Ends(s)
    /\ UNCHANGED <<world, art, idle, metaAge, ready, builder, catalogue, left>>

Pass(s) ==
    /\ stager[s].phase = "pass" /\ Ends(s)
    /\ UNCHANGED <<world, staged, ready, builder, catalogue>>

(* A failed pipeline, HKEYS or SADD, or the end of the process: the window  *)
(* is not acknowledged.                                                     *)
StageFails(s) ==
    /\ Busy(s) /\ "batch" \in world.faults
    /\ stager' = [stager EXCEPT ![s] = NoStager]
    /\ UNCHANGED <<world, done, staged, ready, builder, catalogue>>

Older(n) == IF n = 3 THEN 3 ELSE n + 1

(* Time: a TTL that runs out takes its key.  A batch, or the handling of    *)
(* one set, is over in less than evict_staleness_secs; a set may wait       *)
(* longer for its turn in a round of the builder.                           *)
Tick ==
    /\ world.clock /\ \A s \in Stager : ~Busy(s)
    /\ builder.phase \in {"idle", "drawn", "salvage"}
    /\ idle' = Older(idle) /\ metaAge' = Older(metaAge)
    /\ art' = IF idle = 2 THEN {} ELSE art
    /\ meta' = IF metaAge = 2 THEN NoMeta ELSE meta
    /\ left' = (left \/ idle = 2)
    /\ UNCHANGED <<world, done, ready, stager, builder, catalogue>>

-----------------------------------------------------------------------------
(* The builder's sweep.                                                     *)

\* Mutants: no margin, the seen span alone must be covered; a set that holds
\* all it needs is not spared.
WalkPastDeadInSpan ==
    /\ meta.exists /\ idle >= 2 /\ meta.lo > 0
    /\ Cardinality(art) < Needed(meta)
    /\ meta.lo..meta.hi \subseteq Covered
WalkPastDeadHeld ==
    /\ meta.exists /\ idle >= 2 /\ meta.lo > 0
    /\ MaxOf({1, meta.lo - Batch})..(meta.hi + Batch) \subseteq Covered
WalkPastDead ==
    /\ meta.exists /\ idle >= 2 /\ meta.lo > 0
    /\ Cardinality(art) < Needed(meta)
    /\ MaxOf({1, meta.lo - Batch})..(meta.hi + Batch) \subseteq Covered

(* sweepWalkPast: what the builder will do with a dead set.                 *)
Judge ==
    /\ builder.phase = "idle" /\ WalkPastDead
    /\ builder' = [builder EXCEPT !.phase =
          IF world.salvage /\ 2 * Cardinality(art) >= Needed(meta)
          THEN "salvage" ELSE "doom"]
    /\ UNCHANGED <<world, done, staged, ready, stager, catalogue>>

Doom ==
    /\ builder.phase = "doom" /\ Removed /\ builder' = NoBuilder
    /\ UNCHANGED <<world, done, ready, stager, catalogue>>

(* salvageTally and healthVerdict.  A file is par2 only if every article    *)
(* held of it is; a numbered file nobody saw counts as data, estimated at   *)
(* the average data file.                                                   *)
Count(A)     == [f \in File |-> Cardinality(PartsOf(A, f))]
Claim(A)     == [f \in File |-> MaxOf({Count(A)[f]} \cup
                                     {a.parts : a \in {b \in A : b.file = f}})]
Par2Files(A) == {f \in FilesOf(A) : \A a \in A : a.file = f => a.par2}
DataFiles(A) == FilesOf(A) \ Par2Files(A)
Lacking(A, F) == SumFunctionOnSet(Claim(A), F) - SumFunctionOnSet(Count(A), F)
Estimate(A, F) == IF F = {} THEN 1
                  ELSE MaxOf({1, SumFunctionOnSet(Claim(A), F) \div Cardinality(F)})
Absent(A)    == (1..MaxOf({a.files : a \in A})) \ FilesOf(A)

\* Mutant: files nobody saw are not missing.
MissingDataSeen(A) == Lacking(A, DataFiles(A))
MissingData(A) ==
    Lacking(A, DataFiles(A)) + Estimate(A, DataFiles(A)) * Cardinality(Absent(A))
Par2Held(A) == SumFunctionOnSet(Count(A), Par2Files(A))

SalvageLoad ==
    /\ builder.phase = "salvage"
    /\ builder' =
          IF art = {} THEN NoBuilder
          ELSE [phase  |-> IF world.junk \/ MissingData(art) > Par2Held(art)
                           THEN "delete" ELSE "salvage-store",
                arts   |-> art, broken |-> MissingData(art) > 0]
    /\ UNCHANGED <<world, done, staged, ready, stager, catalogue>>

(* sink.store, which has a release already when it has its articles.        *)
Known(A)  == \E r \in catalogue : r.arts = A
Stored(A) == IF Known(A) THEN catalogue
             ELSE catalogue \cup {[arts |-> A, broken |-> FALSE]}

\* Mutant: the broken mark is left to the health job.
NextPhaseUnmarked == "delete"
(* A broken release this call created is marked before the set is deleted.  *)
NextPhase == IF builder.broken /\ ~Known(builder.arts) THEN "mark" ELSE "delete"

SalvageStore ==
    /\ builder.phase = "salvage-store"
    /\ catalogue' = Stored(builder.arts)
    /\ builder' = [builder EXCEPT !.phase = NextPhase]
    /\ UNCHANGED <<world, done, staged, ready, stager>>

Mark ==
    /\ builder.phase = "mark"
    /\ catalogue' = {IF r.arts = builder.arts THEN [r EXCEPT !.broken = TRUE] ELSE r :
                         r \in catalogue}
    /\ builder' = [builder EXCEPT !.phase = "delete"]
    /\ UNCHANGED <<world, done, staged, ready, stager>>

-----------------------------------------------------------------------------
(* The builder's drain of nzb:ready.                                        *)

\* Mutant: an entry whose set is gone is left where it is.
DrawnLeavesDead == IF meta.exists THEN "drawn" ELSE "idle"
Drawn == IF meta.exists THEN "drawn" ELSE "stale"
Draw ==
    /\ builder.phase = "idle" /\ ready
    /\ builder' = [builder EXCEPT !.phase = Drawn]
    /\ UNCHANGED <<world, done, staged, ready, stager, catalogue>>

(* The set a ready entry names is gone (candidateGroups, reapReadyQueue),   *)
(* or its articles refuse it (demoteReady): the entry goes, the set stays.  *)
Withdraw ==
    /\ builder.phase \in {"stale", "demote"} /\ ready' = FALSE
    /\ builder' = NoBuilder
    /\ UNCHANGED <<world, done, staged, stager, catalogue>>

Load ==
    /\ builder.phase = "drawn"
    /\ builder' =
          CASE art = {}                       -> NoBuilder
            [] art # {} /\ ~IsComplete(art)   -> [NoBuilder EXCEPT !.phase = "demote"]
            [] art # {} /\ IsComplete(art)    ->
                 [NoBuilder EXCEPT !.arts = art,
                                   !.phase = IF world.junk THEN "delete" ELSE "store"]
    /\ UNCHANGED <<world, done, staged, ready, stager, catalogue>>

Store ==
    /\ builder.phase = "store"
    /\ catalogue' = Stored(builder.arts)
    /\ builder' = [builder EXCEPT !.phase = "delete"]
    /\ UNCHANGED <<world, done, staged, ready, stager>>

(* The sink refuses; noteStoreAttempt counts it (bound: up to the limit)    *)
(* and renews the grp: key.                                                 *)
StoreFails ==
    /\ builder.phase = "store"
    /\ meta' = [meta EXCEPT !.attempts = Min({@ + 1, StoreAttemptLimit})]
    /\ metaAge' = 0
    /\ builder' = IF meta'.attempts >= StoreAttemptLimit
                  THEN [builder EXCEPT !.phase = "delete"] ELSE NoBuilder
    /\ UNCHANGED <<world, done, art, idle, ready, stager, catalogue, left>>

\* deleteStaged.
Delete ==
    /\ builder.phase = "delete" /\ Removed /\ ready' = FALSE
    /\ builder' = NoBuilder
    /\ UNCHANGED <<world, done, stager, catalogue>>

(* A call of the builder fails, or its process ends; between a salvaged     *)
(* release and its mark only where the world says so.                       *)
BuilderStops ==
    /\ builder.phase # "idle"
    /\ (IF builder.phase = "mark" THEN "mark" ELSE "builder") \in world.faults
    /\ builder' = NoBuilder
    /\ UNCHANGED <<world, done, staged, ready, stager, catalogue>>

-----------------------------------------------------------------------------
Builder ==
    \/ Judge \/ Doom \/ SalvageLoad \/ SalvageStore \/ Mark
    \/ Draw \/ Withdraw \/ Load \/ Store \/ StoreFails \/ Delete

Proceeds(s) ==
    \/ FoldMeta(s) \/ FoldSpan(s) \/ Check(s) \/ Queue(s) \/ Evict(s)
    \/ StrikeOrClear(s) \/ Pass(s) \/ StageFails(s)

Next ==
    \/ \E s \in Stager : PutArticles(s) \/ Proceeds(s)
    \/ \E w \in Window : Skip(w)
    \/ Tick
    \/ Builder \/ BuilderStops

Spec == Init /\ [][Next]_vars

(* The build job runs every pass, a batch begun ends, and time passes.      *)
Proceed  == \E s \in Stager : Proceeds(s)
FairSpec == Spec /\ WF_vars(Builder) /\ WF_vars(Proceed) /\ WF_vars(Tick)

-----------------------------------------------------------------------------
(* Until the set is removed, every article of a recorded window is          *)
(* staged, or a better one in its place: the watermark never moves past an  *)
(* article that staging lacks (the Exec sweep of stageArticlesOnce,         *)
(* artPutScript).                                                           *)
RecordedHeld ==
    ~left => \A w \in done : \A a \in In(w) : \E h \in art : SamePlace(a, h) /\ ~Beats(a, h)

(* A set that has all its articles, whose batches have all reported success *)
(* and that never left staging, is in the ready queue: completeness is only *)
(* looked for by a batch that adds, so a miss would be for good.            *)
CompleteQueued ==
    (/\ ~left /\ IsComplete(art)
     /\ \A w \in Window \ done : In(w) = {}
     /\ \A s \in Stager : ~Busy(s))
       => ready

(* The sweep gives a set up, the first time it is removed, only when no     *)
(* fetch still to come could add to it: "absence is final" (walkPastDead).  *)
WalkPastFinal == builder.phase \in {"doom", "salvage"} /\ ~left =>
    \A w \in Window \ done : In(w) = {}

(* Every numbered file is there, those of data with all their segments.     *)
Whole(A) == \A a \in post :
                /\ 1..a.files \subseteq FilesOf(A)
                /\ ~a.par2 /\ (a.files > 0 => a.file > 0) =>
                      1..a.parts \subseteq PartsOf(A, a.file)
(* A release served as complete has all its data; one that lacks some is    *)
(* marked broken, up to the mark the builder is about to write              *)
(* (isComplete, salvageSets).                                               *)
StoredWhole ==
    \A r \in catalogue :
        r.broken \/ Whole(r.arts) \/ (builder.phase = "mark" /\ builder.arts = r.arts)

(* A complete set leaves staging because it is in the catalogue, because    *)
(* policy refused it, because the sink refused it three times, or because   *)
(* the staging TTL ran out; neither eviction nor sweep ever takes it.       *)
CompleteNotDropped ==
    [][ IsComplete(art) /\ art # {} /\ art' = {} =>
          \/ \E r \in catalogue : IsComplete(r.arts)
          \/ world.junk \/ meta.attempts >= StoreAttemptLimit
          \/ idle = 2 /\ UNCHANGED <<stager, builder>> ]_vars

(* Every entry of the ready queue leaves it: built, refused or found dead,  *)
(* even if the sink never accepts the release (storeAttemptLimit), where    *)
(* no other call fails.                                                     *)
ReadyDrained == ready /\ world.faults = {} ~> ~ready

=============================================================================
