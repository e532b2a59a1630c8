----------------------------- MODULE UsenetCrawl -----------------------------
(***************************************************************************)
(* How far one newsgroup has been read on one backbone: the state row      *)
(* (high watermark, back watermark, server low, done flag) and the record  *)
(* of fetched ranges, with every job that moves them (usenet/crawl.go,     *)
(* backfill.go, ranges.go, provider_state.go, provider_store.go).          *)
(*                                                                         *)
(* The forward crawl reads upward from the high watermark; the backfill    *)
(* closes the gaps between the server's oldest article and the back        *)
(* watermark.  Each job works from values it read earlier, each process    *)
(* runs one of each at a time, and operators reset the row under them.     *)
(* Leases are taken from UsenetLeases: `owner' is the row of this group.   *)
(***************************************************************************)
EXTENDS Integers, FiniteSets, FiniteSetsExt

CONSTANTS
    Worker, NoWorker,
    MaxArticle,   \* bound: article numbers the server reaches
    InitHigh,     \* newest article at the start
    Batch,        \* Config.Batch
    FirstCap,     \* Config.MaxArticlesPerGroup
    Headroom,     \* Config.CrawlHeadroom
    Budget,       \* batches one pass may plan, crawl_max_batches and the like
    Horizon,      \* articles below are older than the retention cutoff
    Adopted,      \* <<high, back>> watermarks a previous crawler may have left
                  \* (adopt.go); {} is a fresh install
    Leads,        \* accounts that may lead: "deep", "shallow"
    ShallowLow,   \* oldest article the shallow account offers
    Resets,       \* operator resets in use: "rescan", "forward", "history"
    QuietResets,  \* TRUE: the operator resets only while no pass is running
    Takeover      \* TRUE: a lease may be lost while its holder works

ASSUME CrawlWorkers == NoWorker \notin Worker
ASSUME CrawlNumbers == /\ MaxArticle \in Nat /\ InitHigh \in 1..MaxArticle
                       /\ Batch \in Nat \ {0} /\ FirstCap \in Nat \ {0}
                       /\ Headroom \in Nat /\ Budget \in Nat \ {0}
                       /\ Horizon \in Nat /\ ShallowLow \in 1..InitHigh
ASSUME CrawlModes   == /\ Adopted \subseteq (1..InitHigh) \X (0..InitHigh)
                       /\ \A a \in Adopted : a[2] <= a[1]
                       /\ QuietResets \in BOOLEAN
                       /\ Takeover \in BOOLEAN
                       /\ Leads \subseteq {"deep", "shallow"} /\ Leads # {}
                       /\ Resets \subseteq {"rescan", "forward", "history"}

VARIABLES
    low, high,  \* the articles that exist on the backbone: low..high
    lead,       \* the account that answers GROUP
    row,        \* newsgroup_state
    covered,    \* newsgroup_ranges, as a set of articles
    fetched,    \* ghost: articles fetched and staged since last asked for
    owner,      \* the group's lease
    crawl,      \* per worker, its forward pass
    back,       \* per worker, its backfill pass
    resets,     \* the kinds of reset used so far
    calm        \* faults are over: no fetch or write fails any more

vars == <<low, high, lead, row, covered, fetched, owner, crawl, back, resets,
          calm>>

Null  == 0
NoRow == [exists |-> FALSE, hw |-> 0, back |-> Null, slow |-> 0, done |-> FALSE]

Article == 1..MaxArticle
Span(B) == UNION {b[1]..b[2] : b \in B}

Phase     == {"idle", "chosen", "planned", "fetched"}
NoCrawl   == [phase |-> "idle", hw |-> 0, low |-> 0, start |-> 0, end |-> 0,
              todo |-> {}]
NoBack    == [phase |-> "idle", back |-> 0, slow |-> 0, horizon |-> FALSE,
              todo |-> {}]
Busy(p)   == p.phase \in {"planned", "fetched"}
Quiet     == \A w \in Worker : crawl[w].phase = "idle" /\ back[w].phase = "idle"

Init ==
    /\ low = 1 /\ high = InitHigh /\ lead \in Leads
    /\ \/ \E a \in Adopted :
             /\ row = [exists |-> TRUE, hw |-> a[1], back |-> a[2], slow |-> low,
                       done |-> a[2] # Null /\ a[2] <= low]
             /\ fetched = (IF a[2] = Null THEN a[1] ELSE a[2])..a[1]
       \/ Adopted = {} /\ row = NoRow /\ fetched = {}
    /\ covered = {} /\ owner = NoWorker /\ resets = {} /\ calm = FALSE
    /\ crawl = [w \in Worker |-> NoCrawl]
    /\ back  = [w \in Worker |-> NoBack]

-----------------------------------------------------------------------------
(* The server: articles arrive and expire, the lead account changes.        *)
ReportedLow == IF lead = "deep" THEN low ELSE Max({low, ShallowLow})

Post == /\ high < MaxArticle /\ high' = high + 1
        /\ UNCHANGED <<low, lead, row, covered, fetched, owner, crawl, back,
                       resets, calm>>
Expire == /\ low < high /\ low' = low + 1
          /\ UNCHANGED <<high, lead, row, covered, fetched, owner, crawl, back,
                         resets, calm>>
NewLead == /\ lead' \in Leads \ {lead}
           /\ UNCHANGED <<low, high, row, covered, fetched, owner, crawl, back,
                          resets, calm>>
Calm == /\ ~calm /\ calm' = TRUE
        /\ UNCHANGED <<low, high, lead, row, covered, fetched, owner, crawl,
                       back, resets>>

-----------------------------------------------------------------------------
(* Leases: shared by the jobs of one process (claimLeaseHeld), dropped when *)
(* the last of them ends.                                                   *)
CanClaim(w) == owner \in {NoWorker, w} \/ Takeover

AfterRelease(w, other) == IF owner = w /\ ~Busy(other) THEN NoWorker ELSE owner

EndCrawl(w) == /\ crawl' = [crawl EXCEPT ![w] = NoCrawl]
               /\ owner' = AfterRelease(w, back[w])
EndBack(w)  == /\ back' = [back EXCEPT ![w] = NoBack]
               /\ owner' = AfterRelease(w, crawl[w])

(* A pass refused the lease, or ended without a write: no lease, no plan,   *)
(* no live connection, lease lost, shut down or killed.                     *)
Stops(w, phase) == \/ phase = "chosen" /\ ~CanClaim(w)
                   \/ phase # "idle" /\ ~calm
CrawlStops(w) == /\ Stops(w, crawl[w].phase) /\ EndCrawl(w)
                 /\ UNCHANGED <<low, high, lead, row, covered, fetched, back,
                                resets, calm>>
BackStops(w)  == /\ Stops(w, back[w].phase) /\ EndBack(w)
                 /\ UNCHANGED <<low, high, lead, row, covered, fetched, crawl,
                                resets, calm>>

-----------------------------------------------------------------------------
(* planGroup: first article wanted and last one this pass may ask for.      *)
Start(hw, lo) == Max({lo, IF hw = 0 THEN high - FirstCap + 1 ELSE hw + 1})
Ceiling(lo)   == IF high - Headroom > lo THEN high - Headroom ELSE high

ForwardBatches(start, ceiling) ==
    {<<i, Min({i + Batch - 1, ceiling})>> :
        i \in {a \in start..ceiling : (a - start) % Batch = 0}}

\* Mutant: the pass advances to its highest success.
HighestSuccess(start, ok) == Max({start - 1} \cup ok)
(* The end of the unbroken run of fetched articles from start.              *)
ContiguousEnd(start, ok) ==
    Max({start - 1} \cup {e \in ok : start..e \subseteq ok})

(* The row after updateGroupStateForBackbone: a monotonic high watermark, a *)
(* back watermark seeded once by a pass that advanced (mark > 0), the       *)
(* server's low as reported, and a done flag re-armed by a deepening low.   *)
Updated(lo, mark, seed) ==
    [exists |-> TRUE,
     hw     |-> IF mark > row.hw THEN mark ELSE row.hw,
     back   |-> IF row.back = Null /\ mark > 0 THEN seed ELSE row.back,
     slow   |-> lo,
     done   |-> IF lo < row.slow THEN FALSE ELSE row.done]

\* A write of the row: it may fail, and then changes nothing.
Writes(r) == \/ row' = r
             \/ ~calm /\ UNCHANGED row

\* crawlBackbone reads the watermark before it asks for the lease.
CrawlChoose(w) ==
    /\ crawl[w].phase = "idle"
    /\ crawl' = [crawl EXCEPT ![w] = [NoCrawl EXCEPT !.phase = "chosen",
                                                     !.hw = row.hw]]
    /\ UNCHANGED <<low, high, lead, row, covered, fetched, owner, back, resets,
                   calm>>

(* With the lease: resolve the window and plan a prefix of its batches, or  *)
(* record the server's bounds when there is nothing to fetch.               *)
CrawlPlan(w) ==
    /\ crawl[w].phase = "chosen" /\ CanClaim(w)
    /\ LET lo    == ReportedLow
           start == Start(crawl[w].hw, lo)
           all   == ForwardBatches(start, Ceiling(lo))
       IN \/ /\ all # {}
             /\ \E B \in SUBSET all :
                   /\ B # {} /\ Cardinality(B) <= Budget
                   /\ \A b \in B, c \in all \ B : b[1] < c[1]
                   /\ crawl' = [crawl EXCEPT ![w] =
                         [phase |-> "planned", hw |-> @.hw, low |-> lo,
                          start |-> start, end |-> 0, todo |-> B]]
             /\ owner' = w /\ UNCHANGED row
          \/ /\ all = {}
             /\ Writes(Updated(lo, 0, start))
             /\ crawl' = [crawl EXCEPT ![w] = NoCrawl]
             /\ owner' = IF Busy(back[w]) THEN w ELSE NoWorker
    /\ UNCHANGED <<low, high, lead, covered, fetched, back, resets, calm>>

\* Mutant: failed batches are recorded like the others.
CrawlFetchedAll(p, ok) ==
    [p EXCEPT !.phase = "fetched", !.end = ContiguousEnd(p.start, Span(ok))]

CrawlFetched(p, ok) ==
    [p EXCEPT !.phase = "fetched", !.todo = ok,
              !.end = ContiguousEnd(p.start, Span(ok))]

(* runBatches and fetchBatch: any subset of the batches is fetched and      *)
(* staged; the others failed or, under staging pressure, were never fed.    *)
CrawlFetch(w) ==
    /\ crawl[w].phase = "planned"
    /\ \E ok \in SUBSET crawl[w].todo :
          /\ calm => ok = crawl[w].todo
          /\ fetched' = fetched \cup Span(ok)
          /\ crawl' = [crawl EXCEPT ![w] = CrawlFetched(@, ok)]
    /\ UNCHANGED <<low, high, lead, row, covered, owner, back, resets, calm>>

\* Mutant: the write of a range fails every time.
RecordNever(b) == UNCHANGED covered
\* recordFetchedRangeFor, batch by batch in whatever order they came back.
Record(b) == \/ covered' = covered \cup b[1]..b[2]
             \/ ~calm /\ UNCHANGED covered

CrawlRecord(w) ==
    /\ crawl[w].phase = "fetched"
    /\ \E b \in crawl[w].todo :
          Record(b) /\ crawl' = [crawl EXCEPT ![w].todo = @ \ {b}]
    /\ UNCHANGED <<low, high, lead, row, fetched, owner, back, resets, calm>>

\* Mutant: a pass that advanced by a single article does not count.
MarkMissesOne(p) == IF p.end > p.start THEN p.end ELSE 0
Mark(p) == IF p.end >= p.start THEN p.end ELSE 0

\* advanceOneGroup's last write.
CrawlAdvance(w) ==
    /\ crawl[w].phase = "fetched" /\ crawl[w].todo = {}
    /\ LET p == crawl[w]
       IN Writes(Updated(p.low, Mark(p), p.start))
    /\ EndCrawl(w)
    /\ UNCHANGED <<low, high, lead, covered, fetched, back, resets, calm>>

-----------------------------------------------------------------------------
\* Mutant: the server's oldest article is left out of the window.
GapsAboveLow(lo, hi) == ((lo + 1)..hi) \ covered
(* backfillGapsFor and gapJobs: the articles of the window not recorded as  *)
(* covered, cut into batches from the top of every gap.                     *)
Gaps(lo, hi)    == (lo..hi) \ covered
GapTop(G, a)    == Max({t \in G : a <= t /\ a..t \subseteq G})
GapBottom(G, a) == Min({s \in G : s <= a /\ s..a \subseteq G})
GapBatches(G) ==
    {<<Max({GapBottom(G, a), a - Batch + 1}), a>> :
        a \in {x \in G : (GapTop(G, x) - x) % Batch = 0}}

\* Mutant: one failed batch does not keep the horizon from being reached.
HorizonReachedPartial(B, ok) == \E b \in ok : b[2] < Horizon /\ b[2] >= low
(* horizonReached: every batch succeeded and one held only articles older   *)
(* than the cutoff (b[2] is its newest; an expired batch proves nothing).   *)
HorizonReached(B, ok) ==
    ok = B /\ \E b \in ok : b[2] < Horizon /\ b[2] >= low

MarkDone == [row EXCEPT !.done = TRUE]

\* groupsNeedingBackfillForBackbone: history left above the server's low.
NeedsBackfill == row.exists /\ ~row.done /\ row.back # Null /\ row.back > row.slow

BackChoose(w) ==
    /\ back[w].phase = "idle" /\ NeedsBackfill
    /\ back' = [back EXCEPT ![w] = [NoBack EXCEPT !.phase = "chosen",
                                       !.back = row.back, !.slow = row.slow]]
    /\ UNCHANGED <<low, high, lead, row, covered, fetched, owner, crawl, resets,
                   calm>>

(* With the lease: no gap left marks the history done, else a prefix of the *)
(* gaps' batches, newest first, is this pass's share of the budget.         *)
BackPlan(w) ==
    /\ back[w].phase = "chosen" /\ CanClaim(w)
    /\ LET all == GapBatches(Gaps(back[w].slow, back[w].back))
       IN \/ /\ all # {}
             /\ \E B \in SUBSET all :
                   /\ B # {} /\ Cardinality(B) <= Budget
                   /\ \A b \in B, c \in all \ B : b[1] > c[1]
                   /\ back' = [back EXCEPT ![w].phase = "planned",
                                           ![w].todo = B]
             /\ owner' = w /\ UNCHANGED row
          \/ /\ all = {} /\ Writes(MarkDone)
             /\ back' = [back EXCEPT ![w] = NoBack]
             /\ owner' = IF Busy(crawl[w]) THEN w ELSE NoWorker
    /\ UNCHANGED <<low, high, lead, covered, fetched, crawl, resets, calm>>

BackFetch(w) ==
    /\ back[w].phase = "planned"
    /\ \E ok \in SUBSET back[w].todo :
          /\ calm => ok = back[w].todo
          /\ fetched' = fetched \cup Span(ok)
          /\ back' = [back EXCEPT ![w].phase = "fetched", ![w].todo = ok,
                         ![w].horizon = HorizonReached(back[w].todo, ok)]
    /\ UNCHANGED <<low, high, lead, row, covered, owner, crawl, resets, calm>>

BackRecord(w) ==
    /\ back[w].phase = "fetched"
    /\ \E b \in back[w].todo :
          Record(b) /\ back' = [back EXCEPT ![w].todo = @ \ {b}]
    /\ UNCHANGED <<low, high, lead, row, fetched, owner, crawl, resets, calm>>

(* The end of recordBackfill: done at the horizon or when no gap is left    *)
(* between the bounds read at the start, else the back watermark moves down *)
(* to the newest gap.                                                       *)
BackFinish(w) ==
    /\ back[w].phase = "fetched" /\ back[w].todo = {}
    /\ LET left == Gaps(back[w].slow, back[w].back)
       IN Writes(IF back[w].horizon \/ left = {} THEN MarkDone
                 ELSE [row EXCEPT !.back = Max(left)])
    /\ EndBack(w)
    /\ UNCHANGED <<low, high, lead, covered, fetched, crawl, resets, calm>>

-----------------------------------------------------------------------------
(* The operator's resets.  Each asks for a span to be read again; what a    *)
(* running pass holds in its hands when asked counts as read.               *)
InHand == {a \in fetched : \E w \in Worker :
              \/ crawl[w].phase = "fetched" /\ a \in Span(crawl[w].todo)
              \/ back[w].phase = "fetched" /\ a \in Span(back[w].todo)}
Forget(S) == fetched' = fetched \ (S \ InHand)

\* Bound: each kind once, and a group is rescanned or re-walked, not both.
MayReset(kind) == /\ kind \in Resets \ resets /\ row.exists
                  /\ ~({"rescan", "history"} \subseteq resets \cup {kind})
                  /\ QuietResets => Quiet
                  /\ resets' = resets \cup {kind}
                  /\ UNCHANGED <<low, high, lead, owner, crawl, back, calm>>

\* Mutants: the back watermark stays; the recorded ranges stay.
RescannedInPlace  == [row EXCEPT !.done = FALSE]
RescanKeepsRanges == covered
Rescanned     == [row EXCEPT !.back = Max({row.hw - 1, row.slow}), !.done = FALSE]
RescanCovered == {}

\* resetBackfillForGroup: the whole history is asked for again.
Rescan ==
    /\ MayReset("rescan")
    /\ row' = Rescanned /\ covered' = RescanCovered
    /\ Forget(1..(row.hw - 1))

\* resetWatermark works from the start of the highest recorded run.
TopRun == CHOOSE s \in covered :
             /\ s..Max(covered) \subseteq covered /\ s - 1 \notin covered

\* resetForward: the forward mark goes back to the start of that run.
Rewind ==
    /\ MayReset("forward")
    /\ covered # {} /\ TopRun < row.hw
    /\ row' = [row EXCEPT !.hw = TopRun]
    /\ Forget((TopRun + 1)..row.hw)
    /\ UNCHANGED covered

\* Mutants, as for Rescan.
RewalkedInPlace   == [row EXCEPT !.done = FALSE]
RewalkKeepsRanges == covered
Rewalked      == [row EXCEPT !.back = row.hw, !.done = FALSE]
RewalkCovered == covered \ (1..(TopRun - 1))

\* resetHistory: what was claimed below that run is asked for again.
RewalkHistory ==
    /\ MayReset("history")
    /\ covered # {} /\ TopRun > row.slow
    /\ row' = Rewalked /\ covered' = RewalkCovered
    /\ Forget(1..(TopRun - 1))

-----------------------------------------------------------------------------
CrawlStep(w) == \/ CrawlChoose(w) \/ CrawlPlan(w) \/ CrawlFetch(w)
                \/ CrawlRecord(w) \/ CrawlAdvance(w) \/ CrawlStops(w)
BackStep(w)  == \/ BackChoose(w) \/ BackPlan(w) \/ BackFetch(w)
                \/ BackRecord(w) \/ BackFinish(w) \/ BackStops(w)

Next == \/ Post \/ Expire \/ NewLead
        \/ Rescan \/ Rewind \/ RewalkHistory
        \/ \E w \in Worker : CrawlStep(w) \/ BackStep(w)

Spec == Init /\ [][Next]_vars

(* The scheduler keeps running both jobs (RunLoop) and faults end.          *)
FairSpec ==
    /\ Init /\ [][Next \/ Calm]_vars
    /\ WF_vars(Calm)
    /\ \A w \in Worker : WF_vars(CrawlStep(w)) /\ WF_vars(BackStep(w))

-----------------------------------------------------------------------------
TypeOK ==
    /\ low \in Article /\ high \in Article /\ low <= high /\ lead \in Leads
    /\ row \in [exists : BOOLEAN, hw : 0..MaxArticle, back : 0..MaxArticle,
                slow : 0..MaxArticle, done : BOOLEAN]
    /\ covered \subseteq Article /\ fetched \subseteq Article
    /\ owner \in Worker \cup {NoWorker}
    /\ crawl \in [Worker ->
          [phase : Phase, hw : 0..MaxArticle, low : 0..MaxArticle,
           start : 0..(MaxArticle + 1), end : 0..MaxArticle,
           todo : SUBSET (Article \X Article)]]
    /\ back \in [Worker ->
          [phase : Phase, back : 0..MaxArticle, slow : 0..MaxArticle,
           horizon : BOOLEAN, todo : SUBSET (Article \X Article)]]
    /\ resets \subseteq Resets /\ calm \in BOOLEAN

(* Coverage is permanent and final: what is recorded as covered was fetched *)
(* and staged (recordFetchedRangeFor, and the walk-past eviction that       *)
(* reasons from it), through partial passes and lost leases.                *)
CoverageHonest == covered \subseteq fetched

(* "Forward coverage begins here; everything below is backfill's"           *)
(* (updateGroupStateForBackbone): between the back watermark, below which   *)
(* the backfill looks, and the high watermark, above which the crawl looks, *)
(* nobody ever looks again, so all of it has been fetched or is expired.    *)
NoHole == row.back # Null =>
              \A a \in (row.back + 1)..row.hw : a >= low => a \in fetched

(* backfill_done is "the most consequential silent write": once set, all    *)
(* history still on the server and inside the retention has been fetched.   *)
DoneSound == row.done =>
    \A a \in Max({low, row.slow, Horizon})..Min({row.back, row.hw}) :
        a \in fetched

(* A group owing history is worked off: whatever failed before, once faults *)
(* end the backfill reaches the horizon or the server's low (runCatchUp,    *)
(* recordBackfill: no round replans the same work for ever).                *)
BackfillFinishes == NeedsBackfill ~> ~NeedsBackfill

(* Once posting and faults end, the forward crawl reads everything up to    *)
(* the headroom it keeps: partial rounds, failed batches and passes that    *)
(* found a window of one article do not stall it (planGroup,                *)
(* advanceOneGroup).                                                        *)
ForwardCatchesUp == <>[](row.hw >= high - Headroom)
=============================================================================
