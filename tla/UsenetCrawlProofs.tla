-------------------------- MODULE UsenetCrawlProofs --------------------------
(***************************************************************************)
(* Proofs about UsenetCrawl for every number of workers and articles and   *)
(* every configuration: the types, that recorded coverage is honest, that  *)
(* nothing is left unread between the marks, and that done means done.     *)
(***************************************************************************)
EXTENDS UsenetCrawl, WellFoundedInduction, TLAPS

-----------------------------------------------------------------------------
(* The largest and the smallest member of a bounded set.                    *)

LEMMA LeastNat ==
    ASSUME NEW S \in SUBSET Nat, S # {}
    PROVE  \E m \in S : \A x \in S : m <= x
<1>1. PICK m \in S : \A x \in S : <<x, m>> \notin OpToRel(<, Nat)
  BY NatLessThanWellFounded, WFMin
<1>2. ASSUME NEW x \in S PROVE ~(x < m)
  BY <1>1 DEF OpToRel
<1> QED BY <1>2

LEMMA MinOfBounded ==
    ASSUME NEW S \in SUBSET Nat, S # {}
    PROVE  Min(S) \in S /\ \A x \in S : Min(S) <= x
  BY LeastNat DEF Min

LEMMA MaxOfBounded ==
    ASSUME NEW n \in Nat, NEW S \in SUBSET (0..n), S # {}
    PROVE  Max(S) \in S /\ \A x \in S : x <= Max(S)
<1> DEFINE T == {n - x : x \in S}
<1>1. T \in SUBSET Nat /\ T # {}
  <2>1. PICK x \in S : TRUE OBVIOUS
  <2>2. n - x \in T BY <2>1
  <2>3. \A y \in S : n - y \in Nat OBVIOUS
  <2> QED BY <2>2, <2>3
<1>2. PICK m \in T : \A t \in T : m <= t BY <1>1, LeastNat
<1>3. PICK s \in S : m = n - s BY <1>2
<1>4. ASSUME NEW x \in S PROVE x <= s
  <2>1. n - x \in T OBVIOUS
  <2>2. n - s <= n - x BY <2>1, <1>2, <1>3
  <2>3. s \in 0..n /\ x \in 0..n OBVIOUS
  <2> QED BY <2>2, <2>3
<1> QED BY <1>4 DEF Max

LEMMA MaxOfTwo ==
    ASSUME NEW a \in Int, NEW b \in Int
    PROVE  /\ Max({a, b}) \in {a, b}
           /\ a <= Max({a, b}) /\ b <= Max({a, b})
  BY DEF Max

LEMMA MinOfTwo ==
    ASSUME NEW a \in Int, NEW b \in Int
    PROVE  /\ Min({a, b}) \in {a, b}
           /\ Min({a, b}) <= a /\ Min({a, b}) <= b
  BY DEF Min

-----------------------------------------------------------------------------
(* Type correctness: the helpers.                                           *)

(* Besides the types: a row that exists knows the server's low, and so does *)
(* the backfill that read it, so no gap reaches below the first article;    *)
(* and a planned pass starts at an article.                                 *)
SlowKnown == /\ row.exists => row.slow \in Article
             /\ \A w \in Worker :
                   /\ back[w].phase # "idle" => back[w].slow \in Article
                   /\ Busy(crawl[w]) =>
                         crawl[w].start >= 1 /\ crawl[w].low \in Article

Mark0     == 0..MaxArticle
Row       == [exists : BOOLEAN, hw : Mark0, back : Mark0, slow : Mark0,
              done : BOOLEAN]
CrawlPass == [phase : Phase, hw : Mark0, low : Mark0, start : 0..(MaxArticle + 1),
              end : Mark0, todo : SUBSET (Article \X Article)]
BackPass  == [phase : Phase, back : Mark0, slow : Mark0, horizon : BOOLEAN,
              todo : SUBSET (Article \X Article)]

LEMMA TypeOKUnfolded ==
    TypeOK <=> /\ low \in Article /\ high \in Article /\ low <= high
               /\ lead \in Leads /\ row \in Row
               /\ covered \subseteq Article /\ fetched \subseteq Article
               /\ owner \in Worker \cup {NoWorker}
               /\ crawl \in [Worker -> CrawlPass]
               /\ back \in [Worker -> BackPass]
               /\ resets \subseteq Resets /\ calm \in BOOLEAN
  BY DEF TypeOK, Row, CrawlPass, BackPass, Mark0

LEMMA ReportedLowType == TypeOK => ReportedLow \in Article
<1> SUFFICES ASSUME TypeOK PROVE ReportedLow \in Article OBVIOUS
<1>1. low \in Int /\ ShallowLow \in Int /\ ShallowLow \in Article
  BY CrawlNumbers DEF TypeOK, Article
<1>2. Max({low, ShallowLow}) \in {low, ShallowLow} BY <1>1, MaxOfTwo
<1> QED BY <1>1, <1>2 DEF ReportedLow, TypeOK

LEMMA StartType ==
    ASSUME TypeOK, NEW hw \in Mark0, NEW lo \in Article
    PROVE  Start(hw, lo) \in 1..(MaxArticle + 1)
<1> DEFINE b == IF hw = 0 THEN high - FirstCap + 1 ELSE hw + 1
<1>1. b \in Int /\ b <= MaxArticle + 1 /\ lo \in Int
  BY CrawlNumbers DEF TypeOK, Article, Mark0
<1>2. Max({lo, b}) \in {lo, b} /\ lo <= Max({lo, b})
  <2> HIDE DEF b
  <2> QED BY <1>1, MaxOfTwo
<1>3. Start(hw, lo) = Max({lo, b}) BY DEF Start
<1> HIDE DEF b
<1> QED BY <1>1, <1>2, <1>3, CrawlNumbers DEF Article

LEMMA CeilingType ==
    ASSUME TypeOK, NEW lo \in Article PROVE Ceiling(lo) \in Article
  BY CrawlNumbers DEF TypeOK, Ceiling, Article

LEMMA ForwardBatchesType ==
    ASSUME NEW start \in Nat, start >= 1, NEW ceiling \in Article
    PROVE  ForwardBatches(start, ceiling) \subseteq Article \X Article
<1> SUFFICES ASSUME NEW i \in start..ceiling
             PROVE  <<i, Min({i + Batch - 1, ceiling})>> \in Article \X Article
  BY DEF ForwardBatches
<1>1. i + Batch - 1 \in Int /\ ceiling \in Int /\ i \in Article
      /\ i <= i + Batch - 1 /\ i <= ceiling
  BY CrawlNumbers DEF Article
<1>2. /\ Min({i + Batch - 1, ceiling}) \in {i + Batch - 1, ceiling}
      /\ Min({i + Batch - 1, ceiling}) <= ceiling
  BY <1>1, MinOfTwo
<1>3. Min({i + Batch - 1, ceiling}) \in Article
  BY <1>1, <1>2, CrawlNumbers DEF Article
<1> QED BY <1>1, <1>3

LEMMA SpanType ==
    ASSUME NEW B \in SUBSET (Article \X Article)
    PROVE  Span(B) \subseteq Article
<1> SUFFICES ASSUME NEW b \in B, NEW a \in b[1]..b[2] PROVE a \in Article
  BY DEF Span
<1>1. b[1] \in Article /\ b[2] \in Article OBVIOUS
<1> QED BY <1>1, CrawlNumbers DEF Article

LEMMA ContiguousEndType ==
    ASSUME NEW start \in 1..(MaxArticle + 1), NEW ok \in SUBSET Article
    PROVE  ContiguousEnd(start, ok) \in Mark0
<1> DEFINE S == {start - 1} \cup {e \in ok : start..e \subseteq ok}
<1>1. start - 1 \in 0..MaxArticle BY CrawlNumbers
<1>2. S \in SUBSET (0..MaxArticle) /\ S # {}
  <2>1. ok \subseteq 0..MaxArticle BY CrawlNumbers DEF Article
  <2>2. start - 1 \in S OBVIOUS
  <2> QED BY <1>1, <2>1, <2>2
<1> HIDE DEF S
<1>3. Max(S) \in S BY <1>2, MaxOfBounded, CrawlNumbers
<1> QED BY <1>2, <1>3 DEF ContiguousEnd, S, Mark0

LEMMA GapBatchesType ==
    ASSUME NEW G \in SUBSET Article
    PROVE  GapBatches(G) \subseteq Article \X Article
<1> SUFFICES ASSUME NEW a \in G
             PROVE  <<Max({GapBottom(G, a), a - Batch + 1}), a>>
                       \in Article \X Article
  BY DEF GapBatches
<1> DEFINE S == {s \in G : s <= a /\ s..a \subseteq G}
<1>1. a \in Nat /\ a \in Article /\ a - Batch + 1 \in Int
      /\ a - Batch + 1 <= a
  BY CrawlNumbers DEF Article
<1>2. a..a = {a} BY <1>1
<1>3. S \in SUBSET Nat /\ S # {}
  <2>1. a \in S BY <1>1, <1>2
  <2>2. G \subseteq Nat BY CrawlNumbers DEF Article
  <2> QED BY <2>1, <2>2
<1>4. GapBottom(G, a) = Min(S) BY DEF GapBottom
<1>5. GapBottom(G, a) \in S
  <2> HIDE DEF S
  <2> QED BY <1>3, <1>4, MinOfBounded
<1>6. GapBottom(G, a) \in Article /\ GapBottom(G, a) \in Int
      /\ GapBottom(G, a) <= a
  <2>1. GapBottom(G, a) \in G /\ GapBottom(G, a) <= a BY <1>5
  <2>2. GapBottom(G, a) \in Article BY <2>1
  <2> QED BY <2>1, <2>2, CrawlNumbers DEF Article
<1> DEFINE b == a - Batch + 1
           m == Max({GapBottom(G, a), b})
<1>7. m \in {GapBottom(G, a), b} /\ GapBottom(G, a) <= m
  <2>1. b \in Int BY <1>1
  <2> HIDE DEF b
  <2> QED BY <2>1, <1>6, MaxOfTwo
<1>8. m \in Article
  <2>1. b \in Int /\ b <= a BY <1>1
  <2> HIDE DEF m, b
  <2> QED BY <2>1, <1>1, <1>6, <1>7, CrawlNumbers DEF Article
<1> QED BY <1>1, <1>8

LEMMA GapsType ==
    ASSUME NEW lo \in Article, NEW hi \in Mark0
    PROVE  Gaps(lo, hi) \subseteq Article
  BY CrawlNumbers DEF Gaps, Article, Mark0

(* The highest recorded run has a first article.                            *)
LEMMA TopRunType ==
    ASSUME covered \subseteq Article, covered # {}
    PROVE  /\ TopRun \in covered
           /\ TopRun..Max(covered) \subseteq covered
           /\ TopRun - 1 \notin covered
<1> DEFINE m == Max(covered)
           S == {s \in covered : s..m \subseteq covered}
<1>1. covered \in SUBSET (0..MaxArticle) /\ covered \subseteq Nat
  BY CrawlNumbers DEF Article
<1>2. m \in covered BY <1>1, MaxOfBounded, CrawlNumbers
<1>3. m..m = {m} /\ m \in Nat
  <2>1. m \in Nat BY <1>1, <1>2
  <2> HIDE DEF m
  <2> QED BY <2>1
<1>4. S \in SUBSET Nat /\ S # {}
  <2>1. m \in S BY <1>2, <1>3
  <2> QED BY <2>1, <1>1
<1>5. PICK s \in S : \A x \in S : s <= x BY <1>4, LeastNat
<1>6. s - 1 \notin covered
  <2>1. SUFFICES ASSUME s - 1 \in covered PROVE FALSE OBVIOUS
  <2>2. s - 1 \in Nat /\ s \in Nat BY <2>1, <1>1, <1>5
  <2>3. \A x \in (s - 1)..m : x = s - 1 \/ x \in s..m BY <2>2, <1>3
  <2>4. (s - 1)..m \subseteq covered BY <2>1, <2>3, <1>5
  <2>5. s - 1 \in S BY <2>1, <2>4
  <2> QED BY <2>2, <2>5, <1>5
<1>7. s \in covered /\ s..Max(covered) \subseteq covered /\ s - 1 \notin covered
  BY <1>5, <1>6
<1> QED BY <1>7 DEF TopRun

-----------------------------------------------------------------------------
(* Type correctness: the values the actions write.                          *)

LEMMA UpdatedType ==
    ASSUME row \in Row, NEW lo \in Article, NEW mark \in Mark0, NEW seed,
           mark > 0 => seed \in Mark0
    PROVE  Updated(lo, mark, seed) \in Row /\ Updated(lo, mark, seed).slow = lo
<1>1. lo \in Mark0 BY CrawlNumbers DEF Article, Mark0
<1> QED BY <1>1 DEF Updated, Row

LEMMA WritesType ==
    ASSUME row \in Row, NEW r \in Row, Writes(r)
    PROVE  row' \in Row
  BY DEF Writes

LEMMA IdleTypes == NoCrawl \in CrawlPass /\ NoBack \in BackPass
<1>1. 0 \in Mark0 /\ 0 \in 0..(MaxArticle + 1)
  BY CrawlNumbers DEF Mark0
<1> QED BY <1>1 DEF NoCrawl, NoBack, CrawlPass, BackPass, Phase

LEMMA CrawlFetchedType ==
    ASSUME NEW p \in CrawlPass, p.start >= 1, NEW ok \in SUBSET p.todo
    PROVE  /\ CrawlFetched(p, ok) \in CrawlPass
           /\ CrawlFetched(p, ok).todo = ok
           /\ CrawlFetched(p, ok).phase = "fetched"
<1>1. ok \in SUBSET (Article \X Article) /\ p.start \in 1..(MaxArticle + 1)
  BY DEF CrawlPass
<1>2. Span(ok) \in SUBSET Article BY <1>1, SpanType
<1>3. ContiguousEnd(p.start, Span(ok)) \in Mark0
  BY <1>1, <1>2, ContiguousEndType
<1> DEFINE e == ContiguousEnd(p.start, Span(ok))
<1> HIDE DEF e
<1>4. CrawlFetched(p, ok) = [p EXCEPT !.phase = "fetched", !.todo = ok, !.end = e]
  BY DEF CrawlFetched, e
<1> QED BY <1>1, <1>3, <1>4 DEF CrawlPass, Phase, e

-----------------------------------------------------------------------------
(* Type correctness: a step of one pass.                                    *)

RowKnown(r) == r \in Row /\ (r.exists => r.slow \in Article)
CrawlKnown(p) == /\ p \in CrawlPass
                 /\ Busy(p) => p.start >= 1 /\ p.low \in Article
BackKnown(p) == p \in BackPass /\ (p.phase # "idle" => p.slow \in Article)

LEMMA KnownUnfolded ==
    ASSUME TypeOK, SlowKnown
    PROVE  /\ RowKnown(row)
           /\ \A w \in Worker : CrawlKnown(crawl[w]) /\ BackKnown(back[w])
  BY TypeOKUnfolded DEF SlowKnown, RowKnown, CrawlKnown, BackKnown

LEMMA CrawlSet ==
    ASSUME TypeOK, SlowKnown, NEW w \in Worker, NEW p, CrawlKnown(p),
           crawl' = [crawl EXCEPT ![w] = p], back' = back, RowKnown(row')
    PROVE  crawl' \in [Worker -> CrawlPass] /\ SlowKnown'
<1>1. crawl \in [Worker -> CrawlPass] BY TypeOKUnfolded
<1>2. crawl' \in [Worker -> CrawlPass] BY <1>1 DEF CrawlKnown
<1>3. \A v \in Worker : crawl'[v] = p \/ crawl'[v] = crawl[v] BY <1>1
<1> QED BY <1>2, <1>3 DEF SlowKnown, CrawlKnown, RowKnown, Busy

LEMMA BackSet ==
    ASSUME TypeOK, SlowKnown, NEW w \in Worker, NEW p, BackKnown(p),
           back' = [back EXCEPT ![w] = p], crawl' = crawl, RowKnown(row')
    PROVE  back' \in [Worker -> BackPass] /\ SlowKnown'
<1>1. back \in [Worker -> BackPass] BY TypeOKUnfolded
<1>2. back' \in [Worker -> BackPass] BY <1>1 DEF BackKnown
<1>3. \A v \in Worker : back'[v] = p \/ back'[v] = back[v] BY <1>1
<1> QED BY <1>2, <1>3 DEF SlowKnown, BackKnown, RowKnown, Busy

LEMMA IdleKnown == CrawlKnown(NoCrawl) /\ BackKnown(NoBack)
  BY IdleTypes DEF CrawlKnown, BackKnown, NoCrawl, NoBack, Busy

LEMMA OwnerType ==
    ASSUME TypeOK, NEW w \in Worker
    PROVE  \A p : AfterRelease(w, p) \in Worker \cup {NoWorker}
  BY DEF TypeOK, AfterRelease

LEMMA WritesKnown ==
    ASSUME RowKnown(row), NEW r, RowKnown(r), Writes(r)
    PROVE  RowKnown(row')
  BY DEF Writes

LEMMA CrawlChooseType ==
    ASSUME TypeOK, SlowKnown, NEW w \in Worker, CrawlChoose(w)
    PROVE  TypeOK' /\ SlowKnown'
<1> DEFINE p == [NoCrawl EXCEPT !.phase = "chosen", !.hw = row.hw]
<1>1. CrawlKnown(p)
  <2>1. row.hw \in Mark0 BY TypeOKUnfolded DEF Row
  <2>2. p \in CrawlPass /\ p.phase = "chosen"
    BY <2>1, IdleTypes DEF CrawlPass, NoCrawl, Phase
  <2> QED BY <2>2 DEF CrawlKnown, Busy
<1>2. crawl' = [crawl EXCEPT ![w] = p] /\ back' = back /\ row' = row
  BY DEF CrawlChoose
<1> HIDE DEF p
<1>3. crawl' \in [Worker -> CrawlPass] /\ SlowKnown'
  BY <1>1, <1>2, CrawlSet, KnownUnfolded
<1> QED BY <1>3, TypeOKUnfolded DEF CrawlChoose, TypeOK, CrawlPass, Mark0

(* What every step of a pass keeps, in one place.                           *)
LEMMA PassStepType ==
    ASSUME TypeOK, UNCHANGED <<low, high, lead, resets, calm>>,
           row' \in Row, covered' \subseteq Article, fetched' \subseteq Article,
           owner' \in Worker \cup {NoWorker},
           crawl' \in [Worker -> CrawlPass], back' \in [Worker -> BackPass]
    PROVE  TypeOK'
  BY DEF TypeOK, Row, CrawlPass, BackPass, Mark0

LEMMA CrawlPlanType ==
    ASSUME TypeOK, SlowKnown, NEW w \in Worker, CrawlPlan(w)
    PROVE  TypeOK' /\ SlowKnown'
<1> DEFINE lo    == ReportedLow
           start == Start(crawl[w].hw, lo)
           all   == ForwardBatches(start, Ceiling(lo))
           p(B)  == [phase |-> "planned", hw |-> crawl[w].hw, low |-> lo,
                     start |-> start, end |-> 0, todo |-> B]
<1>1. crawl \in [Worker -> CrawlPass] /\ back \in [Worker -> BackPass]
      /\ crawl[w].hw \in Mark0
  BY TypeOKUnfolded DEF CrawlPass
<1>2. lo \in Article /\ start \in 1..(MaxArticle + 1)
  BY <1>1, ReportedLowType, StartType
<1>3. all \subseteq Article \X Article
  <2> HIDE DEF lo, start
  <2>1. Ceiling(lo) \in Article BY <1>2, CeilingType
  <2>2. start \in Nat /\ start >= 1 BY <1>2
  <2> QED BY <2>1, <2>2, ForwardBatchesType
<1>4. \A B \in SUBSET all : CrawlKnown(p(B))
  <2> SUFFICES ASSUME NEW B \in SUBSET all PROVE CrawlKnown(p(B)) OBVIOUS
  <2> HIDE DEF all, start, lo
  <2>1. /\ B \in SUBSET (Article \X Article) /\ lo \in Mark0 /\ 0 \in Mark0
        /\ start \in 0..(MaxArticle + 1) /\ start >= 1
    BY <1>2, <1>3, CrawlNumbers DEF Article, Mark0
  <2> QED BY <2>1, <1>1, <1>2 DEF CrawlKnown, CrawlPass, Phase
<1>5. \/ \E B \in SUBSET all :
            /\ crawl' = [crawl EXCEPT ![w] = p(B)]
            /\ owner' = w /\ UNCHANGED row
      \/ /\ Writes(Updated(lo, 0, start))
         /\ crawl' = [crawl EXCEPT ![w] = NoCrawl]
         /\ owner' = IF Busy(back[w]) THEN w ELSE NoWorker
  BY <1>1 DEF CrawlPlan
<1>6. UNCHANGED <<low, high, lead, covered, fetched, back, resets, calm>>
  BY DEF CrawlPlan
<1> HIDE DEF p, all, start, lo
<1>7. RowKnown(row) BY KnownUnfolded
<1>8. RowKnown(row') /\ crawl' \in [Worker -> CrawlPass] /\ SlowKnown'
      /\ owner' \in Worker \cup {NoWorker}
  <2>1. CASE \E B \in SUBSET all :
               /\ crawl' = [crawl EXCEPT ![w] = p(B)]
               /\ owner' = w /\ UNCHANGED row
    BY <2>1, <1>4, <1>6, <1>7, CrawlSet
  <2>2. CASE /\ Writes(Updated(lo, 0, start))
             /\ crawl' = [crawl EXCEPT ![w] = NoCrawl]
             /\ owner' = IF Busy(back[w]) THEN w ELSE NoWorker
    <3>1. 0 \in Mark0 /\ ~(0 > 0) BY CrawlNumbers DEF Mark0
    <3>2. RowKnown(Updated(lo, 0, start))
      BY <3>1, <1>2, <1>7, UpdatedType DEF RowKnown
    <3>3. RowKnown(row') BY <2>2, <3>2, <1>7, WritesKnown
    <3> QED BY <2>2, <3>3, <1>6, IdleKnown, CrawlSet
  <2> QED BY <1>5, <2>1, <2>2
<1> QED BY <1>1, <1>6, <1>8, PassStepType, TypeOKUnfolded DEF RowKnown

LEMMA CrawlFetchType ==
    ASSUME TypeOK, SlowKnown, NEW w \in Worker, CrawlFetch(w)
    PROVE  TypeOK' /\ SlowKnown'
<1>1. crawl \in [Worker -> CrawlPass] /\ back \in [Worker -> BackPass]
      /\ fetched \subseteq Article /\ CrawlKnown(crawl[w]) /\ RowKnown(row)
  BY TypeOKUnfolded, KnownUnfolded
<1>2. PICK ok \in SUBSET crawl[w].todo :
           /\ fetched' = fetched \cup Span(ok)
           /\ crawl' = [crawl EXCEPT ![w] = CrawlFetched(crawl[w], ok)]
  BY <1>1 DEF CrawlFetch
<1>3. UNCHANGED <<low, high, lead, row, covered, owner, back, resets, calm>>
  BY DEF CrawlFetch
<1>4. crawl[w].start >= 1 /\ crawl[w].low \in Article
  BY <1>1 DEF CrawlFetch, CrawlKnown, Busy
<1>5. CrawlKnown(CrawlFetched(crawl[w], ok))
  <2>1. /\ CrawlFetched(crawl[w], ok).start = crawl[w].start
        /\ CrawlFetched(crawl[w], ok).low = crawl[w].low
    BY <1>1 DEF CrawlFetched, CrawlKnown, CrawlPass
  <2> QED BY <2>1, <1>1, <1>4, CrawlFetchedType DEF CrawlKnown
<1>6. crawl' \in [Worker -> CrawlPass] /\ SlowKnown'
  BY <1>1, <1>2, <1>3, <1>5, CrawlSet
<1>7. fetched' \subseteq Article
  <2>1. ok \in SUBSET (Article \X Article) BY <1>1 DEF CrawlKnown, CrawlPass
  <2> QED BY <2>1, <1>1, <1>2, SpanType
<1> QED BY <1>1, <1>3, <1>6, <1>7, PassStepType, TypeOKUnfolded

LEMMA RecordType ==
    ASSUME covered \subseteq Article, NEW b \in Article \X Article, Record(b)
    PROVE  covered' \subseteq Article
<1>1. b[1]..b[2] \subseteq Article BY CrawlNumbers DEF Article
<1> QED BY <1>1 DEF Record

LEMMA CrawlRecordType ==
    ASSUME TypeOK, SlowKnown, NEW w \in Worker, CrawlRecord(w)
    PROVE  TypeOK' /\ SlowKnown'
<1>1. crawl \in [Worker -> CrawlPass] /\ back \in [Worker -> BackPass]
      /\ covered \subseteq Article /\ CrawlKnown(crawl[w]) /\ RowKnown(row)
  BY TypeOKUnfolded, KnownUnfolded
<1>2. PICK b \in crawl[w].todo :
           /\ Record(b)
           /\ crawl' = [crawl EXCEPT ![w].todo = @ \ {b}]
  BY DEF CrawlRecord
<1> DEFINE p == [crawl[w] EXCEPT !.todo = @ \ {b}]
<1>3. crawl' = [crawl EXCEPT ![w] = p] BY <1>1, <1>2
<1>4. CrawlKnown(p) BY <1>1 DEF CrawlKnown, CrawlPass, Busy
<1>5. UNCHANGED <<low, high, lead, row, fetched, owner, back, resets, calm>>
  BY DEF CrawlRecord
<1> HIDE DEF p
<1>6. crawl' \in [Worker -> CrawlPass] /\ SlowKnown'
  BY <1>1, <1>3, <1>4, <1>5, CrawlSet
<1>7. covered' \subseteq Article
  BY <1>1, <1>2, RecordType DEF CrawlKnown, CrawlPass
<1> QED BY <1>1, <1>5, <1>6, <1>7, PassStepType, TypeOKUnfolded

LEMMA CrawlAdvanceType ==
    ASSUME TypeOK, SlowKnown, NEW w \in Worker, CrawlAdvance(w)
    PROVE  TypeOK' /\ SlowKnown'
<1> DEFINE p == crawl[w]
<1>1. crawl \in [Worker -> CrawlPass] /\ back \in [Worker -> BackPass]
      /\ CrawlKnown(p) /\ RowKnown(row)
  BY TypeOKUnfolded, KnownUnfolded
<1>2. p.low \in Article
  BY <1>1 DEF CrawlAdvance, CrawlKnown, Busy
<1>3. Mark(p) \in Mark0 /\ (Mark(p) > 0 => p.start \in Mark0)
  BY <1>1, CrawlNumbers DEF Mark, CrawlKnown, CrawlPass, Mark0
<1>4. RowKnown(Updated(p.low, Mark(p), p.start))
  BY <1>1, <1>2, <1>3, UpdatedType DEF RowKnown
<1>5. /\ Writes(Updated(p.low, Mark(p), p.start)) /\ EndCrawl(w)
      /\ UNCHANGED <<low, high, lead, covered, fetched, back, resets, calm>>
  BY DEF CrawlAdvance
<1>6. RowKnown(row') BY <1>1, <1>4, <1>5, WritesKnown
<1>7. crawl' \in [Worker -> CrawlPass] /\ SlowKnown'
  BY <1>5, <1>6, IdleKnown, CrawlSet DEF EndCrawl
<1>8. owner' \in Worker \cup {NoWorker} BY <1>5, OwnerType DEF EndCrawl
<1> QED BY <1>1, <1>5, <1>6, <1>7, <1>8, PassStepType, TypeOKUnfolded DEF RowKnown

LEMMA CrawlStopsType ==
    ASSUME TypeOK, SlowKnown, NEW w \in Worker, CrawlStops(w)
    PROVE  TypeOK' /\ SlowKnown'
<1>1. /\ crawl' = [crawl EXCEPT ![w] = NoCrawl]
      /\ owner' = AfterRelease(w, back[w])
      /\ UNCHANGED <<low, high, lead, row, covered, fetched, back, resets, calm>>
  BY DEF CrawlStops, EndCrawl
<1>2. crawl' \in [Worker -> CrawlPass] /\ SlowKnown'
  BY <1>1, IdleKnown, KnownUnfolded, CrawlSet
<1>3. owner' \in Worker \cup {NoWorker} BY <1>1, OwnerType
<1> QED BY <1>1, <1>2, <1>3, PassStepType, TypeOKUnfolded

LEMMA BackChooseType ==
    ASSUME TypeOK, SlowKnown, NEW w \in Worker, BackChoose(w)
    PROVE  TypeOK' /\ SlowKnown'
<1> DEFINE p == [NoBack EXCEPT !.phase = "chosen", !.back = row.back,
                               !.slow = row.slow]
<1>1. RowKnown(row) BY KnownUnfolded
<1>2. BackKnown(p)
  <2>1. row.back \in Mark0 /\ row.slow \in Mark0 BY <1>1 DEF RowKnown, Row
  <2>2. row.slow \in Article BY <1>1 DEF BackChoose, NeedsBackfill, RowKnown
  <2>3. p \in BackPass /\ p.slow = row.slow
    BY <2>1, IdleTypes DEF BackPass, NoBack, Phase
  <2> QED BY <2>2, <2>3 DEF BackKnown
<1>3. /\ back' = [back EXCEPT ![w] = p]
      /\ UNCHANGED <<low, high, lead, row, covered, fetched, owner, crawl, resets,
                     calm>>
  BY DEF BackChoose
<1> HIDE DEF p
<1>4. back' \in [Worker -> BackPass] /\ SlowKnown'
  BY <1>1, <1>2, <1>3, BackSet
<1> QED BY <1>1, <1>3, <1>4, PassStepType, TypeOKUnfolded

LEMMA MarkDoneKnown == RowKnown(row) => RowKnown(MarkDone)
  BY DEF RowKnown, Row, MarkDone

LEMMA BackPlanType ==
    ASSUME TypeOK, SlowKnown, NEW w \in Worker, BackPlan(w)
    PROVE  TypeOK' /\ SlowKnown'
<1> DEFINE all  == GapBatches(Gaps(back[w].slow, back[w].back))
           p(B) == [back[w] EXCEPT !.phase = "planned", !.todo = B]
<1>1. crawl \in [Worker -> CrawlPass] /\ back \in [Worker -> BackPass]
      /\ BackKnown(back[w]) /\ RowKnown(row)
  BY TypeOKUnfolded, KnownUnfolded
<1>2. back[w].slow \in Article /\ back[w].back \in Mark0
  BY <1>1 DEF BackPlan, BackKnown, BackPass
<1>3. all \subseteq Article \X Article BY <1>2, GapsType, GapBatchesType
<1>4. \/ \E B \in SUBSET all :
            /\ back' = [back EXCEPT ![w].phase = "planned", ![w].todo = B]
            /\ owner' = w /\ UNCHANGED row
      \/ /\ Writes(MarkDone) /\ back' = [back EXCEPT ![w] = NoBack]
         /\ owner' = IF Busy(crawl[w]) THEN w ELSE NoWorker
  BY DEF BackPlan
<1>5. UNCHANGED <<low, high, lead, covered, fetched, crawl, resets, calm>>
  BY DEF BackPlan
<1> HIDE DEF all
<1>6. \A B \in SUBSET all : BackKnown(p(B))
  BY <1>1, <1>2, <1>3 DEF BackKnown, BackPass, Phase
<1>7. RowKnown(row') /\ back' \in [Worker -> BackPass] /\ SlowKnown'
      /\ owner' \in Worker \cup {NoWorker}
  <2>1. CASE \E B \in SUBSET all :
               /\ back' = [back EXCEPT ![w].phase = "planned", ![w].todo = B]
               /\ owner' = w /\ UNCHANGED row
    <3>1. PICK B \in SUBSET all :
               /\ back' = [back EXCEPT ![w].phase = "planned", ![w].todo = B]
               /\ owner' = w /\ UNCHANGED row
      BY <2>1
    <3>2. back' = [back EXCEPT ![w] = p(B)] BY <3>1, <1>1
    <3>3. BackKnown(p(B)) BY <1>6
    <3> HIDE DEF p
    <3> QED BY <3>1, <3>2, <3>3, <1>1, <1>5, BackSet
  <2>2. CASE /\ Writes(MarkDone) /\ back' = [back EXCEPT ![w] = NoBack]
             /\ owner' = IF Busy(crawl[w]) THEN w ELSE NoWorker
    <3>1. RowKnown(row') BY <2>2, <1>1, MarkDoneKnown, WritesKnown
    <3> QED BY <2>2, <3>1, <1>5, IdleKnown, BackSet
  <2> QED BY <1>4, <2>1, <2>2
<1> QED BY <1>1, <1>5, <1>7, PassStepType, TypeOKUnfolded DEF RowKnown

LEMMA BackFetchType ==
    ASSUME TypeOK, SlowKnown, NEW w \in Worker, BackFetch(w)
    PROVE  TypeOK' /\ SlowKnown'
<1>1. crawl \in [Worker -> CrawlPass] /\ back \in [Worker -> BackPass]
      /\ fetched \subseteq Article /\ BackKnown(back[w]) /\ RowKnown(row)
  BY TypeOKUnfolded, KnownUnfolded
<1>2. PICK ok \in SUBSET back[w].todo :
           /\ fetched' = fetched \cup Span(ok)
           /\ back' = [back EXCEPT ![w].phase = "fetched", ![w].todo = ok,
                          ![w].horizon = HorizonReached(back[w].todo, ok)]
  BY DEF BackFetch
<1> DEFINE h == HorizonReached(back[w].todo, ok)
           p == [back[w] EXCEPT !.phase = "fetched", !.todo = ok, !.horizon = h]
<1>3. h \in BOOLEAN BY DEF HorizonReached
<1>4. back' = [back EXCEPT ![w] = p]
  <2> HIDE DEF h
  <2>1. back' = [back EXCEPT ![w].phase = "fetched", ![w].todo = ok,
                             ![w].horizon = h]
    BY <1>2 DEF h
  <2> QED BY <2>1, <1>1
<1>5. UNCHANGED <<low, high, lead, row, covered, owner, crawl, resets, calm>>
  BY DEF BackFetch
<1>6. BackKnown(p)
  <2>1. back[w].slow \in Article BY <1>1 DEF BackFetch, BackKnown
  <2> HIDE DEF h
  <2>2. p \in BackPass /\ p.slow = back[w].slow
    BY <1>1, <1>3 DEF BackKnown, BackPass, Phase
  <2> HIDE DEF p
  <2> QED BY <2>1, <2>2 DEF BackKnown
<1> HIDE DEF p
<1>7. back' \in [Worker -> BackPass] /\ SlowKnown'
  BY <1>1, <1>4, <1>5, <1>6, BackSet
<1>8. fetched' \subseteq Article
  <2>1. ok \in SUBSET (Article \X Article) BY <1>1 DEF BackKnown, BackPass
  <2> QED BY <2>1, <1>1, <1>2, SpanType
<1> QED BY <1>1, <1>5, <1>7, <1>8, PassStepType, TypeOKUnfolded

LEMMA BackRecordType ==
    ASSUME TypeOK, SlowKnown, NEW w \in Worker, BackRecord(w)
    PROVE  TypeOK' /\ SlowKnown'
<1>1. crawl \in [Worker -> CrawlPass] /\ back \in [Worker -> BackPass]
      /\ covered \subseteq Article /\ BackKnown(back[w]) /\ RowKnown(row)
  BY TypeOKUnfolded, KnownUnfolded
<1>2. PICK b \in back[w].todo :
           /\ Record(b)
           /\ back' = [back EXCEPT ![w].todo = @ \ {b}]
  BY DEF BackRecord
<1> DEFINE p == [back[w] EXCEPT !.todo = @ \ {b}]
<1>3. back' = [back EXCEPT ![w] = p] BY <1>1, <1>2
<1>4. BackKnown(p) BY <1>1 DEF BackKnown, BackPass
<1>5. UNCHANGED <<low, high, lead, row, fetched, owner, crawl, resets, calm>>
  BY DEF BackRecord
<1> HIDE DEF p
<1>6. back' \in [Worker -> BackPass] /\ SlowKnown'
  BY <1>1, <1>3, <1>4, <1>5, BackSet
<1>7. covered' \subseteq Article
  BY <1>1, <1>2, RecordType DEF BackKnown, BackPass
<1> QED BY <1>1, <1>5, <1>6, <1>7, PassStepType, TypeOKUnfolded

LEMMA BackFinishType ==
    ASSUME TypeOK, SlowKnown, NEW w \in Worker, BackFinish(w)
    PROVE  TypeOK' /\ SlowKnown'
<1> DEFINE left == Gaps(back[w].slow, back[w].back)
           r == IF back[w].horizon \/ left = {} THEN MarkDone
                ELSE [row EXCEPT !.back = Max(left)]
<1>1. crawl \in [Worker -> CrawlPass] /\ back \in [Worker -> BackPass]
      /\ BackKnown(back[w]) /\ RowKnown(row)
  BY TypeOKUnfolded, KnownUnfolded
<1>2. left \in SUBSET (0..MaxArticle)
  <2>1. back[w].slow \in Article /\ back[w].back \in Mark0
    BY <1>1 DEF BackFinish, BackKnown, BackPass
  <2>2. left \subseteq Article BY <2>1, GapsType
  <2> QED BY <2>2, CrawlNumbers DEF Article
<1>3. Writes(r) /\ EndBack(w)
      /\ UNCHANGED <<low, high, lead, covered, fetched, crawl, resets, calm>>
  BY DEF BackFinish
<1> HIDE DEF left
<1>4. RowKnown(r)
  <2>1. CASE back[w].horizon \/ left = {} BY <2>1, <1>1, MarkDoneKnown
  <2>2. CASE ~(back[w].horizon \/ left = {})
    <3>1. Max(left) \in Mark0
      BY <2>2, <1>2, MaxOfBounded, CrawlNumbers DEF Mark0
    <3> QED BY <2>2, <3>1, <1>1 DEF RowKnown, Row
  <2> QED BY <2>1, <2>2
<1> HIDE DEF r
<1>5. RowKnown(row') BY <1>1, <1>3, <1>4, WritesKnown
<1>6. back' \in [Worker -> BackPass] /\ SlowKnown'
  BY <1>3, <1>5, IdleKnown, BackSet DEF EndBack
<1>7. owner' \in Worker \cup {NoWorker} BY <1>3, OwnerType DEF EndBack
<1> QED BY <1>1, <1>3, <1>5, <1>6, <1>7, PassStepType, TypeOKUnfolded DEF RowKnown

LEMMA BackStopsType ==
    ASSUME TypeOK, SlowKnown, NEW w \in Worker, BackStops(w)
    PROVE  TypeOK' /\ SlowKnown'
<1>1. /\ back' = [back EXCEPT ![w] = NoBack]
      /\ owner' = AfterRelease(w, crawl[w])
      /\ UNCHANGED <<low, high, lead, row, covered, fetched, crawl, resets, calm>>
  BY DEF BackStops, EndBack
<1>2. back' \in [Worker -> BackPass] /\ SlowKnown'
  BY <1>1, IdleKnown, KnownUnfolded, BackSet
<1>3. owner' \in Worker \cup {NoWorker} BY <1>1, OwnerType
<1> QED BY <1>1, <1>2, <1>3, PassStepType, TypeOKUnfolded

-----------------------------------------------------------------------------
(* Type correctness: the server and the operator.                           *)

LEMMA ServerType ==
    ASSUME TypeOK, SlowKnown, Post \/ Expire \/ NewLead \/ Calm
    PROVE  TypeOK' /\ SlowKnown'
<1>1. UNCHANGED <<row, covered, fetched, owner, crawl, back, resets>>
  BY DEF Post, Expire, NewLead, Calm
<1>2. /\ low' \in Article /\ high' \in Article /\ low' <= high'
      /\ lead' \in Leads /\ calm' \in BOOLEAN
  <2> USE CrawlNumbers DEF TypeOK, Article
  <2>1. CASE Post BY <2>1 DEF Post
  <2>2. CASE Expire BY <2>2 DEF Expire
  <2>3. CASE NewLead BY <2>3 DEF NewLead
  <2>4. CASE Calm BY <2>4 DEF Calm
  <2> QED BY <2>1, <2>2, <2>3, <2>4
<1>3. SlowKnown' BY <1>1 DEF SlowKnown, Busy
<1> QED BY <1>1, <1>2, <1>3 DEF TypeOK

(* An operator's reset of the row, whatever it forgets.                     *)
LEMMA ResetType ==
    ASSUME TypeOK, SlowKnown, NEW kind, MayReset(kind),
           RowKnown(row'), covered' \subseteq Article, NEW S, Forget(S)
    PROVE  TypeOK' /\ SlowKnown'
<1>1. UNCHANGED <<low, high, lead, owner, crawl, back, calm>>
      /\ resets' \subseteq Resets
  BY DEF MayReset, TypeOK
<1>2. fetched' \subseteq Article BY DEF Forget, TypeOK
<1>3. SlowKnown' BY <1>1 DEF SlowKnown, RowKnown, Busy
<1> QED BY <1>1, <1>2, <1>3 DEF TypeOK, RowKnown, Row, Mark0

LEMMA RescanType ==
    ASSUME TypeOK, SlowKnown, Rescan PROVE TypeOK' /\ SlowKnown'
<1>1. RowKnown(row) BY KnownUnfolded
<1> DEFINE m == Max({row.hw - 1, row.slow})
<1>2. m \in Mark0
  <2>1. row.hw - 1 \in Int /\ row.slow \in Int /\ row.hw - 1 <= MaxArticle
        /\ 0 <= row.slow /\ row.slow <= MaxArticle
    BY <1>1, CrawlNumbers DEF RowKnown, Row, Mark0
  <2>2. m \in {row.hw - 1, row.slow} /\ row.slow <= m BY <2>1, MaxOfTwo
  <2> HIDE DEF m
  <2> QED BY <2>1, <2>2, CrawlNumbers DEF Mark0
<1> HIDE DEF m
<1>3. RowKnown(Rescanned)
  <2>1. Rescanned = [row EXCEPT !.back = m, !.done = FALSE]
    BY DEF Rescanned, m
  <2> QED BY <2>1, <1>1, <1>2 DEF RowKnown, Row
<1>4. row' = Rescanned /\ covered' = {} /\ MayReset("rescan")
      /\ Forget(1..(row.hw - 1))
  BY DEF Rescan, RescanCovered
<1> QED BY <1>3, <1>4, ResetType

LEMMA RewindType ==
    ASSUME TypeOK, SlowKnown, Rewind PROVE TypeOK' /\ SlowKnown'
<1>1. RowKnown(row) /\ covered \subseteq Article
  BY KnownUnfolded, TypeOKUnfolded
<1>2. /\ MayReset("forward") /\ covered # {} /\ row' = [row EXCEPT !.hw = TopRun]
      /\ Forget((TopRun + 1)..row.hw) /\ covered' = covered
  BY DEF Rewind
<1>3. TopRun \in Mark0
  <2>1. TopRun \in Article BY <1>1, <1>2, TopRunType
  <2> QED BY <2>1, CrawlNumbers DEF Article, Mark0
<1>4. RowKnown(row') BY <1>1, <1>2, <1>3 DEF RowKnown, Row
<1> QED BY <1>1, <1>2, <1>4, ResetType

LEMMA RewalkHistoryType ==
    ASSUME TypeOK, SlowKnown, RewalkHistory PROVE TypeOK' /\ SlowKnown'
<1>1. RowKnown(row) /\ covered \subseteq Article
  BY KnownUnfolded, TypeOKUnfolded
<1>2. /\ MayReset("history") /\ row' = Rewalked /\ covered' = RewalkCovered
      /\ Forget(1..(TopRun - 1))
  BY DEF RewalkHistory
<1>3. RowKnown(row') BY <1>1, <1>2 DEF RowKnown, Row, Rewalked
<1>4. covered' \subseteq Article BY <1>1, <1>2 DEF RewalkCovered
<1> QED BY <1>2, <1>3, <1>4, ResetType

LEMMA InitType == Init => TypeOK /\ SlowKnown
<1> SUFFICES ASSUME Init PROVE TypeOK /\ SlowKnown OBVIOUS
<1>1. low = 1 /\ 1 \in Article /\ high \in Article /\ low <= high
      /\ lead \in Leads
  BY CrawlNumbers DEF Init, Article
<1>2. RowKnown(row) /\ fetched \subseteq Article
  <2>1. CASE Adopted = {} /\ row = NoRow /\ fetched = {}
    BY <2>1, CrawlNumbers DEF NoRow, Null, RowKnown, Row, Mark0
  <2>2. CASE \E a \in Adopted :
             /\ row = [exists |-> TRUE, hw |-> a[1], back |-> a[2], slow |-> low,
                       done |-> a[2] # Null /\ a[2] <= low]
             /\ fetched = (IF a[2] = Null THEN a[1] ELSE a[2])..a[1]
    <3>1. PICK a \in Adopted :
             /\ row = [exists |-> TRUE, hw |-> a[1], back |-> a[2], slow |-> low,
                       done |-> a[2] # Null /\ a[2] <= low]
             /\ fetched = (IF a[2] = Null THEN a[1] ELSE a[2])..a[1]
      BY <2>2
    <3>2. a[1] \in 1..InitHigh /\ a[2] \in 0..InitHigh BY CrawlModes
    <3>3. a[1] \in Mark0 /\ a[2] \in Mark0 /\ a[1] \in Article
          /\ (a[2] = Null \/ a[2] \in Article) /\ 1 \in Mark0
      BY <3>2, CrawlNumbers DEF Mark0, Article, Null
    <3>4. fetched \subseteq Article
      BY <3>1, <3>3, CrawlNumbers DEF Article, Null
    <3> DEFINE d == a[2] # Null /\ a[2] <= low
    <3>5. d \in BOOLEAN OBVIOUS
    <3>6. row = [exists |-> TRUE, hw |-> a[1], back |-> a[2], slow |-> low,
                 done |-> d]
      BY <3>1
    <3> HIDE DEF d
    <3> QED BY <3>3, <3>4, <3>5, <3>6, <1>1 DEF RowKnown, Row
  <2> QED BY <2>1, <2>2 DEF Init
<1>3. crawl \in [Worker -> CrawlPass] /\ back \in [Worker -> BackPass]
  BY IdleTypes DEF Init
<1>4. SlowKnown
  BY <1>2, CrawlNumbers DEF SlowKnown, RowKnown, Init, NoCrawl, NoBack, Busy
<1>5. /\ covered \subseteq Article /\ owner \in Worker \cup {NoWorker}
      /\ resets \subseteq Resets /\ calm \in BOOLEAN
  BY DEF Init
<1> QED BY <1>1, <1>2, <1>3, <1>4, <1>5, TypeOKUnfolded DEF RowKnown

LEMMA KnownForever == Spec => [](TypeOK /\ SlowKnown)
<1>1. Init => TypeOK /\ SlowKnown BY InitType
<1>2. TypeOK /\ SlowKnown /\ [Next]_vars => TypeOK' /\ SlowKnown'
  <2> SUFFICES ASSUME TypeOK, SlowKnown, [Next]_vars PROVE TypeOK' /\ SlowKnown'
    OBVIOUS
  <2>1. CASE UNCHANGED vars
    BY <2>1 DEF vars, TypeOK, SlowKnown, Busy
  <2>2. CASE Post \/ Expire \/ NewLead BY <2>2, ServerType
  <2>3. CASE Rescan BY <2>3, RescanType
  <2>4. CASE Rewind BY <2>4, RewindType
  <2>5. CASE RewalkHistory BY <2>5, RewalkHistoryType
  <2>6. ASSUME NEW w \in Worker, CrawlStep(w) PROVE TypeOK' /\ SlowKnown'
    BY <2>6, CrawlChooseType, CrawlPlanType, CrawlFetchType, CrawlRecordType,
       CrawlAdvanceType, CrawlStopsType DEF CrawlStep
  <2>7. ASSUME NEW w \in Worker, BackStep(w) PROVE TypeOK' /\ SlowKnown'
    BY <2>7, BackChooseType, BackPlanType, BackFetchType, BackRecordType,
       BackFinishType, BackStopsType DEF BackStep
  <2> QED BY <2>1, <2>2, <2>3, <2>4, <2>5, <2>6, <2>7 DEF Next
<1> QED BY <1>1, <1>2, PTL DEF Spec

(* The values of UsenetCrawl keep their types: watermarks stay inside the   *)
(* articles the server has had, planned batches inside the group            *)
(* (planGroup, backfillGapsFor), and the row and the passes their shape.    *)
THEOREM TypeCorrect == Spec => []TypeOK
  BY KnownForever, PTL

-----------------------------------------------------------------------------
(* Recorded coverage is honest.  A range is recorded from what its pass     *)
(* holds in its hands, so the invariant says of the hands what              *)
(* CoverageHonest says of the record.                                       *)

HandsHonest ==
    \A w \in Worker :
        /\ crawl[w].phase = "fetched" => Span(crawl[w].todo) \subseteq fetched
        /\ back[w].phase = "fetched" => Span(back[w].todo) \subseteq fetched

LEMMA SpanContains ==
    ASSUME NEW B, NEW b \in B PROVE b[1]..b[2] \subseteq Span(B)
  BY DEF Span

LEMMA SpanMonotone ==
    ASSUME NEW B, NEW C \in SUBSET B PROVE Span(C) \subseteq Span(B)
  BY DEF Span

(* A reset forgets nothing that is in a pass's hands.                       *)
LEMMA HandsKept ==
    ASSUME HandsHonest, NEW S, Forget(S), UNCHANGED <<crawl, back>>
    PROVE  HandsHonest'
<1> SUFFICES ASSUME NEW w \in Worker
             PROVE  /\ crawl[w].phase = "fetched" =>
                          Span(crawl[w].todo) \subseteq fetched'
                    /\ back[w].phase = "fetched" =>
                          Span(back[w].todo) \subseteq fetched'
  BY DEF HandsHonest, Span
<1>1. InHand \subseteq fetched' BY DEF Forget, InHand
<1>2. crawl[w].phase = "fetched" => Span(crawl[w].todo) \subseteq InHand
  BY DEF InHand, HandsHonest
<1>3. back[w].phase = "fetched" => Span(back[w].todo) \subseteq InHand
  BY DEF InHand, HandsHonest
<1> QED BY <1>1, <1>2, <1>3

(* A forward pass takes a step: fetched only grows and the pass holds       *)
(* nothing that was not fetched.                                            *)
LEMMA CrawlHands ==
    ASSUME HandsHonest, NEW w \in Worker, NEW p,
           crawl \in [Worker -> CrawlPass], crawl' = [crawl EXCEPT ![w] = p],
           back' = back, fetched \subseteq fetched',
           p.phase = "fetched" => Span(p.todo) \subseteq fetched'
    PROVE  HandsHonest'
<1>1. \A v \in Worker : crawl'[v] = IF v = w THEN p ELSE crawl[v] OBVIOUS
<1> QED BY <1>1 DEF HandsHonest, Span

LEMMA BackHands ==
    ASSUME HandsHonest, NEW w \in Worker, NEW p,
           back \in [Worker -> BackPass], back' = [back EXCEPT ![w] = p],
           crawl' = crawl, fetched \subseteq fetched',
           p.phase = "fetched" => Span(p.todo) \subseteq fetched'
    PROVE  HandsHonest'
<1>1. \A v \in Worker : back'[v] = IF v = w THEN p ELSE back[v] OBVIOUS
<1> QED BY <1>1 DEF HandsHonest, Span

LEMMA CrawlStepHonest ==
    ASSUME TypeOK, HandsHonest, CoverageHonest, NEW w \in Worker, CrawlStep(w)
    PROVE  HandsHonest' /\ CoverageHonest'
<1>1. crawl \in [Worker -> CrawlPass] BY TypeOKUnfolded
<1> DEFINE Goal == HandsHonest' /\ CoverageHonest'
<1>2. CASE CrawlChoose(w)
  <2>1. [NoCrawl EXCEPT !.phase = "chosen", !.hw = row.hw].phase = "chosen"
    BY DEF NoCrawl
  <2> QED BY <1>1, <1>2, <2>1, CrawlHands DEF CrawlChoose, CoverageHonest
<1>3. CASE CrawlPlan(w)
  <2>1. PICK p : crawl' = [crawl EXCEPT ![w] = p] /\ p.phase # "fetched"
    BY <1>3 DEF CrawlPlan, NoCrawl
  <2> QED BY <1>1, <1>3, <2>1, CrawlHands DEF CrawlPlan, CoverageHonest
<1>4. CASE CrawlFetch(w)
  <2>1. PICK ok \in SUBSET crawl[w].todo :
             /\ fetched' = fetched \cup Span(ok)
             /\ crawl' = [crawl EXCEPT ![w] = CrawlFetched(crawl[w], ok)]
    BY <1>1, <1>4 DEF CrawlFetch
  <2>2. crawl[w] \in CrawlPass BY <1>1
  <2>3. CrawlFetched(crawl[w], ok).todo = ok
    BY <2>2 DEF CrawlFetched, CrawlPass
  <2> QED BY <1>1, <1>4, <2>1, <2>3, CrawlHands DEF CrawlFetch, CoverageHonest
<1>5. CASE CrawlRecord(w)
  <2>1. PICK b \in crawl[w].todo :
             /\ Record(b)
             /\ crawl' = [crawl EXCEPT ![w].todo = @ \ {b}]
    BY <1>5 DEF CrawlRecord
  <2> DEFINE p == [crawl[w] EXCEPT !.todo = @ \ {b}]
  <2>2. crawl' = [crawl EXCEPT ![w] = p] BY <1>1, <2>1
  <2>3. p.todo = crawl[w].todo \ {b} BY <1>1 DEF CrawlPass
  <2>4. Span(crawl[w].todo) \subseteq fetched
    BY <1>5 DEF CrawlRecord, HandsHonest
  <2>5. Span(p.todo) \subseteq fetched BY <2>3, <2>4, SpanMonotone
  <2>6. fetched' = fetched /\ back' = back BY <1>5 DEF CrawlRecord
  <2> HIDE DEF p
  <2>7. HandsHonest' BY <1>1, <2>2, <2>5, <2>6, CrawlHands
  <2>8. CoverageHonest'
    BY <2>1, <2>4, <2>6, SpanContains DEF Record, CoverageHonest
  <2> QED BY <2>7, <2>8
<1>6. CASE CrawlAdvance(w) \/ CrawlStops(w)
  <2>1. NoCrawl.phase = "idle" BY DEF NoCrawl
  <2>2. /\ crawl' = [crawl EXCEPT ![w] = NoCrawl]
        /\ UNCHANGED <<back, fetched, covered>>
    BY <1>6 DEF CrawlAdvance, CrawlStops, EndCrawl
  <2> QED BY <1>1, <2>1, <2>2, CrawlHands DEF CoverageHonest
<1> QED BY <1>2, <1>3, <1>4, <1>5, <1>6 DEF CrawlStep

LEMMA BackStepHonest ==
    ASSUME TypeOK, HandsHonest, CoverageHonest, NEW w \in Worker, BackStep(w)
    PROVE  HandsHonest' /\ CoverageHonest'
<1>1. back \in [Worker -> BackPass] /\ back[w] \in BackPass BY TypeOKUnfolded
<1>2. CASE BackChoose(w)
  <2> DEFINE p == [NoBack EXCEPT !.phase = "chosen", !.back = row.back,
                                 !.slow = row.slow]
  <2>1. back' = [back EXCEPT ![w] = p] /\ p.phase # "fetched"
    BY <1>2 DEF BackChoose, NoBack
  <2> HIDE DEF p
  <2> QED BY <1>1, <1>2, <2>1, BackHands DEF BackChoose, CoverageHonest
<1>3. CASE BackPlan(w)
  <2>1. PICK p : back' = [back EXCEPT ![w] = p] /\ p.phase # "fetched"
    <3>1. CASE back' = [back EXCEPT ![w] = NoBack]
      <4>1. NoBack.phase # "fetched" BY DEF NoBack
      <4> QED BY <3>1, <4>1
    <3>2. CASE \E B : back' = [back EXCEPT ![w].phase = "planned",
                                           ![w].todo = B]
      <4>1. PICK B : back' = [back EXCEPT ![w].phase = "planned",
                                          ![w].todo = B]
        BY <3>2
      <4> DEFINE p == [back[w] EXCEPT !.phase = "planned", !.todo = B]
      <4>2. back' = [back EXCEPT ![w] = p] BY <1>1, <4>1
      <4>3. p.phase = "planned" BY <1>1 DEF BackPass
      <4> HIDE DEF p
      <4> QED BY <4>2, <4>3
    <3> QED BY <1>3, <3>1, <3>2 DEF BackPlan
  <2> QED BY <1>1, <1>3, <2>1, BackHands DEF BackPlan, CoverageHonest
<1>4. CASE BackFetch(w)
  <2>1. PICK ok \in SUBSET back[w].todo, h \in BOOLEAN :
             /\ fetched' = fetched \cup Span(ok)
             /\ back' = [back EXCEPT ![w].phase = "fetched", ![w].todo = ok,
                            ![w].horizon = h]
    BY <1>4 DEF BackFetch, HorizonReached
  <2> DEFINE p == [back[w] EXCEPT !.phase = "fetched", !.todo = ok,
                                  !.horizon = h]
  <2>2. back' = [back EXCEPT ![w] = p] BY <1>1, <2>1
  <2>3. p.todo = ok BY <1>1 DEF BackPass
  <2> HIDE DEF p
  <2> QED BY <1>1, <1>4, <2>1, <2>2, <2>3, BackHands DEF BackFetch, CoverageHonest
<1>5. CASE BackRecord(w)
  <2>1. PICK b \in back[w].todo :
             /\ Record(b)
             /\ back' = [back EXCEPT ![w].todo = @ \ {b}]
    BY <1>5 DEF BackRecord
  <2> DEFINE p == [back[w] EXCEPT !.todo = @ \ {b}]
  <2>2. back' = [back EXCEPT ![w] = p] BY <1>1, <2>1
  <2>3. p.todo = back[w].todo \ {b} BY <1>1 DEF BackPass
  <2>4. Span(back[w].todo) \subseteq fetched
    BY <1>5 DEF BackRecord, HandsHonest
  <2>5. Span(p.todo) \subseteq fetched BY <2>3, <2>4, SpanMonotone
  <2>6. fetched' = fetched /\ crawl' = crawl BY <1>5 DEF BackRecord
  <2> HIDE DEF p
  <2>7. HandsHonest' BY <1>1, <2>2, <2>5, <2>6, BackHands
  <2>8. CoverageHonest'
    BY <2>1, <2>4, <2>6, SpanContains DEF Record, CoverageHonest
  <2> QED BY <2>7, <2>8
<1>6. CASE BackFinish(w) \/ BackStops(w)
  <2>1. NoBack.phase = "idle" BY DEF NoBack
  <2>2. /\ back' = [back EXCEPT ![w] = NoBack]
        /\ UNCHANGED <<crawl, fetched, covered>>
    BY <1>6 DEF BackFinish, BackStops, EndBack
  <2> QED BY <1>1, <2>1, <2>2, BackHands DEF CoverageHonest
<1> QED BY <1>2, <1>3, <1>4, <1>5, <1>6 DEF BackStep

(* What is recorded as covered was fetched and staged, for any number of    *)
(* workers, any failures, takeovers and lead accounts, and under rescans    *)
(* and re-walks of the history.  The forward rewind is excluded: it asks    *)
(* for articles again and leaves their record as it is (resetForward).      *)
THEOREM CoverageIsHonest ==
    ASSUME "forward" \notin Resets
    PROVE  Spec => []CoverageHonest
<1>1. Init => HandsHonest /\ CoverageHonest
  BY DEF Init, HandsHonest, CoverageHonest, NoCrawl, NoBack
<1>2. TypeOK /\ HandsHonest /\ CoverageHonest /\ [Next]_vars
         => HandsHonest' /\ CoverageHonest'
  <2> SUFFICES ASSUME TypeOK, HandsHonest, CoverageHonest, [Next]_vars
               PROVE  HandsHonest' /\ CoverageHonest'
    OBVIOUS
  <2>1. CASE UNCHANGED vars \/ Post \/ Expire \/ NewLead
    <3>1. UNCHANGED <<covered, fetched, crawl, back>>
      BY <2>1 DEF vars, Post, Expire, NewLead
    <3> QED BY <3>1 DEF HandsHonest, CoverageHonest, Span
  <2>2. CASE Rescan
    BY <2>2, HandsKept DEF Rescan, RescanCovered, MayReset, CoverageHonest
  <2>3. CASE Rewind BY <2>3 DEF Rewind, MayReset
  <2>4. CASE RewalkHistory
    BY <2>4, HandsKept
    DEF RewalkHistory, RewalkCovered, MayReset, CoverageHonest, Forget
  <2>5. ASSUME NEW w \in Worker, CrawlStep(w) \/ BackStep(w)
        PROVE  HandsHonest' /\ CoverageHonest'
    BY <2>5, CrawlStepHonest, BackStepHonest
  <2> QED BY <2>1, <2>2, <2>3, <2>4, <2>5 DEF Next
<1> QED BY <1>1, <1>2, TypeCorrect, PTL DEF Spec

-----------------------------------------------------------------------------
(* No hole between the watermarks.  NoHole itself is not inductive: a pass  *)
(* works from marks it read earlier.  The invariant says of every mark a    *)
(* backfill holds what NoHole says of the row's, and that a forward pass    *)
(* started no higher than where the row stood, or above the server's low.   *)
(* It is stated for any row r, server low lo and set F of fetched articles. *)

HoleFree(mark, hw, lo, F) == \A a \in (mark + 1)..hw : a >= lo => a \in F

MarksSound(r, lo, F) ==
    /\ r.back # Null => HoleFree(r.back, r.hw, lo, F) /\ r.hw > 0
    /\ Adopted # {} => r.hw > 0

BackSound(p, r, lo, F) ==
    p.phase # "idle" => r.back # Null /\ HoleFree(p.back, r.hw, lo, F)

CrawlSound(p, r, lo, F) ==
    /\ p.phase # "idle" => /\ p.hw <= r.hw
                           /\ p.hw = 0 => r.hw = 0
                           /\ r.back = Null => p.hw = r.hw
    /\ Busy(p) => /\ p.low <= lo /\ p.hw < p.start
                  /\ p.hw # 0 => \A a \in (p.hw + 1)..(p.start - 1) : a < p.low
    /\ p.phase = "fetched" => p.start..p.end \subseteq F

HoleInv == /\ MarksSound(row, low, fetched)
           /\ \A w \in Worker : /\ BackSound(back[w], row, low, fetched)
                                /\ CrawlSound(crawl[w], row, low, fetched)

(* Expiry and fetching only help.                                           *)
LEMMA SoundKept ==
    ASSUME NEW r, NEW s, s.hw = r.hw, s.back = r.back,
           NEW lo \in Int, NEW hi \in Int, lo <= hi, NEW F, NEW G, F \subseteq G
    PROVE  /\ MarksSound(r, lo, F) => MarksSound(s, hi, G)
           /\ \A p \in BackPass : BackSound(p, r, lo, F) => BackSound(p, s, hi, G)
           /\ \A p \in CrawlPass : CrawlSound(p, r, lo, F) => CrawlSound(p, s, hi, G)
<1>1. ASSUME NEW m, NEW h, HoleFree(m, h, lo, F) PROVE HoleFree(m, h, hi, G)
  BY <1>1 DEF HoleFree
<1>2. MarksSound(r, lo, F) => MarksSound(s, hi, G) BY <1>1 DEF MarksSound
<1>3. \A p \in BackPass : BackSound(p, r, lo, F) => BackSound(p, s, hi, G)
  BY <1>1 DEF BackSound
<1>4. ASSUME NEW p \in CrawlPass, CrawlSound(p, r, lo, F)
      PROVE  CrawlSound(p, s, hi, G)
  <2>1. p.low \in Int BY CrawlNumbers DEF CrawlPass, Mark0
  <2>2. p.low <= lo => p.low <= hi BY <2>1
  <2> QED BY <1>4, <2>2 DEF CrawlSound
<1> QED BY <1>2, <1>3, <1>4

(* A step that leaves both watermarks alone and changes at most one pass.   *)
LEMMA QuietStep ==
    ASSUME TypeOK, HoleInv, low' \in Int, low <= low', fetched \subseteq fetched',
           row'.hw = row.hw, row'.back = row.back,
           \A w \in Worker : \/ back'[w] = back[w]
                             \/ BackSound(back'[w], row', low', fetched'),
           \A w \in Worker : \/ crawl'[w] = crawl[w]
                             \/ CrawlSound(crawl'[w], row', low', fetched')
    PROVE  HoleInv'
<1>1. low \in Int /\ crawl \in [Worker -> CrawlPass] /\ back \in [Worker -> BackPass]
  BY TypeOKUnfolded, CrawlNumbers DEF Article
<1>2. /\ MarksSound(row, low, fetched) => MarksSound(row', low', fetched')
      /\ \A p \in BackPass : BackSound(p, row, low, fetched)
                                => BackSound(p, row', low', fetched')
      /\ \A p \in CrawlPass : CrawlSound(p, row, low, fetched)
                                => CrawlSound(p, row', low', fetched')
  BY <1>1, SoundKept
<1>3. MarksSound(row', low', fetched') BY <1>2 DEF HoleInv
<1>4. ASSUME NEW w \in Worker
      PROVE  /\ BackSound(back'[w], row', low', fetched')
             /\ CrawlSound(crawl'[w], row', low', fetched')
  BY <1>1, <1>2 DEF HoleInv
<1> QED BY <1>3, <1>4 DEF HoleInv

LEMMA IdleSound ==
    \A r, lo, F : CrawlSound(NoCrawl, r, lo, F) /\ BackSound(NoBack, r, lo, F)
  BY DEF CrawlSound, BackSound, NoCrawl, NoBack, Busy

LEMMA UpdatedQuietly ==
    ASSUME TypeOK, NEW lo, NEW seed, Writes(Updated(lo, 0, seed))
    PROVE  row'.hw = row.hw /\ row'.back = row.back
<1>1. row.hw \in Mark0 /\ row.back \in Mark0 BY TypeOKUnfolded DEF Row
<1>2. ~(0 > row.hw) BY <1>1, CrawlNumbers DEF Mark0
<1>3. /\ Updated(lo, 0, seed).hw = row.hw
      /\ Updated(lo, 0, seed).back = row.back
  BY <1>2 DEF Updated
<1> QED BY <1>3 DEF Writes

LEMMA MarkDoneQuietly ==
    ASSUME TypeOK, Writes(MarkDone)
    PROVE  row'.hw = row.hw /\ row'.back = row.back
<1>1. row \in Row BY TypeOKUnfolded
<1>2. MarkDone.hw = row.hw /\ MarkDone.back = row.back BY <1>1 DEF MarkDone, Row
<1> QED BY <1>2 DEF Writes

(* planGroup: between the mark read and the start lie only articles below   *)
(* the server's low.                                                        *)
LEMMA WindowStart ==
    ASSUME TypeOK, NEW hw \in Mark0, NEW lo \in Article
    PROVE  /\ hw < Start(hw, lo)
           /\ hw # 0 => \A a \in (hw + 1)..(Start(hw, lo) - 1) : a < lo
<1> DEFINE b == IF hw = 0 THEN high - FirstCap + 1 ELSE hw + 1
           m == Max({lo, b})
<1>1. hw \in Nat /\ lo \in Nat /\ lo >= 1 /\ b \in Int
  BY CrawlNumbers DEF TypeOK, Article, Mark0
<1>2. hw # 0 => b = hw + 1 OBVIOUS
<1>3. m \in {lo, b} /\ lo <= m /\ b <= m
  <2> HIDE DEF b
  <2> QED BY <1>1, MaxOfTwo
<1>4. Start(hw, lo) = m BY DEF Start
<1> HIDE DEF m, b
<1> QED BY <1>1, <1>2, <1>3, <1>4

(* contiguousEnd: everything up to it was fetched.                          *)
LEMMA ContiguousFetched ==
    ASSUME NEW start \in 1..(MaxArticle + 1), NEW ok \in SUBSET Article
    PROVE  start..ContiguousEnd(start, ok) \subseteq ok
<1> DEFINE S == {start - 1} \cup {e \in ok : start..e \subseteq ok}
<1>1. start - 1 \in 0..MaxArticle BY CrawlNumbers
<1>2. S \in SUBSET (0..MaxArticle) /\ S # {}
  <2>1. ok \subseteq 0..MaxArticle BY CrawlNumbers DEF Article
  <2>2. start - 1 \in S OBVIOUS
  <2> QED BY <1>1, <2>1, <2>2
<1>3. Max(S) \in S
  <2> HIDE DEF S
  <2> QED BY <1>2, MaxOfBounded, CrawlNumbers
<1>4. start..(start - 1) = {} OBVIOUS
<1>5. ContiguousEnd(start, ok) = Max(S) BY DEF ContiguousEnd
<1> DEFINE m == Max(S)
<1>6. m = start - 1 \/ start..m \subseteq ok BY <1>3
<1> HIDE DEF m
<1> QED BY <1>4, <1>5, <1>6 DEF m

(* advanceOneGroup: the high watermark moves to the end of what was fetched *)
(* and the first pass seeds the back watermark below it.  The hypothesis is *)
(* what keeps a second first pass away: the group was adopted with a        *)
(* watermark, or one worker crawls it.                                      *)
NoSecondFirstPass == Adopted # {} \/ \A v, w \in Worker : v = w

LEMMA AdvanceSound ==
    ASSUME TypeOK, SlowKnown, HoleInv, NoSecondFirstPass,
           NEW w \in Worker, crawl[w].phase = "fetched", NEW s,
           s = Updated(crawl[w].low, Mark(crawl[w]), crawl[w].start)
    PROVE  /\ MarksSound(s, low, fetched)
           /\ \A v \in Worker : BackSound(back[v], s, low, fetched)
           /\ \A v \in Worker \ {w} : CrawlSound(crawl[v], s, low, fetched)
           /\ row.hw # 0 => HoleFree(row.hw, s.hw, low, fetched)
<1> DEFINE p == crawl[w]
<1>1. p \in CrawlPass /\ row \in Row /\ low \in Int /\ Busy(p)
      /\ \A v \in Worker : back[v] \in BackPass /\ crawl[v] \in CrawlPass
  BY TypeOKUnfolded, CrawlNumbers DEF Article, Busy
<1>2. p.start \in Nat /\ p.end \in Nat /\ p.hw \in Nat /\ p.low \in Nat
      /\ p.start >= 1 /\ row.hw \in Nat /\ row.back \in Nat
  BY <1>1, CrawlNumbers DEF CrawlPass, Row, Mark0, SlowKnown
<1>3. /\ p.hw <= row.hw /\ (p.hw = 0 => row.hw = 0)
      /\ row.back = Null => p.hw = row.hw
      /\ p.low <= low /\ p.hw < p.start
      /\ p.hw # 0 => \A a \in (p.hw + 1)..(p.start - 1) : a < p.low
      /\ p.start..p.end \subseteq fetched
  BY <1>1 DEF HoleInv, CrawlSound
<1>4. CASE p.end < p.start
  <2>1. Mark(p) = 0 BY <1>2, <1>4 DEF Mark
  <2>2. s.hw = row.hw /\ s.back = row.back BY <1>2, <2>1 DEF Updated
  <2>3. /\ MarksSound(row, low, fetched) => MarksSound(s, low, fetched)
        /\ \A q \in BackPass : BackSound(q, row, low, fetched)
                                  => BackSound(q, s, low, fetched)
        /\ \A q \in CrawlPass : CrawlSound(q, row, low, fetched)
                                  => CrawlSound(q, s, low, fetched)
    BY <1>1, <2>2, SoundKept
  <2>4. HoleFree(row.hw, s.hw, low, fetched) BY <1>2, <2>2 DEF HoleFree
  <2> QED BY <1>1, <2>3, <2>4 DEF HoleInv
<1>5. CASE p.end >= p.start
  <2>1. Mark(p) = p.end /\ p.end > 0 BY <1>2, <1>5 DEF Mark
  <2>2. /\ s.hw = (IF p.end > row.hw THEN p.end ELSE row.hw)
        /\ s.back = (IF row.back = Null THEN p.start ELSE row.back)
    BY <2>1 DEF Updated
  <2>3. /\ s.hw \in Nat /\ row.hw <= s.hw /\ s.hw > 0 /\ s.back # Null
        /\ s.hw = p.end \/ s.hw = row.hw
    BY <1>2, <2>1, <2>2 DEF Null
  <2>4. ASSUME row.hw # 0, NEW m \in Nat, HoleFree(m, row.hw, low, fetched)
        PROVE  HoleFree(m, s.hw, low, fetched)
    <3> SUFFICES ASSUME NEW a \in (m + 1)..s.hw, a >= low PROVE a \in fetched
      BY DEF HoleFree
    <3>1. CASE a <= row.hw BY <1>2, <2>3, <2>4, <3>1 DEF HoleFree
    <3>2. CASE a > row.hw /\ a >= p.start BY <1>2, <1>3, <2>3, <3>2
    <3>3. CASE a > row.hw /\ a < p.start
      <4>1. a \in (p.hw + 1)..(p.start - 1) BY <1>2, <1>3, <3>3
      <4>2. a < p.low BY <1>3, <2>4, <4>1
      <4> QED BY <1>1, <1>2, <1>3, <4>2
    <3> QED BY <1>2, <3>1, <3>2, <3>3
  <2>5. MarksSound(s, low, fetched)
    <3>1. CASE row.back # Null
      <4>1. HoleFree(row.back, row.hw, low, fetched) /\ row.hw > 0
        BY <3>1 DEF HoleInv, MarksSound
      <4>2. HoleFree(row.back, s.hw, low, fetched) BY <1>2, <2>4, <4>1
      <4> QED BY <2>2, <2>3, <3>1, <4>2 DEF MarksSound
    <3>2. CASE row.back = Null
      <4>1. HoleFree(p.start, s.hw, low, fetched)
        <5> SUFFICES ASSUME NEW a \in (p.start + 1)..s.hw PROVE a \in fetched
          BY DEF HoleFree
        <5>1. a <= p.end BY <1>2, <1>3, <1>5, <2>3, <3>2
        <5> QED BY <1>2, <1>3, <5>1
      <4> QED BY <2>2, <2>3, <3>2, <4>1 DEF MarksSound
    <3> QED BY <3>1, <3>2
  <2>6. ASSUME NEW v \in Worker PROVE BackSound(back[v], s, low, fetched)
    <3> SUFFICES ASSUME back[v].phase # "idle"
                 PROVE  HoleFree(back[v].back, s.hw, low, fetched)
      BY <2>3 DEF BackSound
    <3>1. row.back # Null /\ HoleFree(back[v].back, row.hw, low, fetched)
      BY DEF HoleInv, BackSound
    <3>2. row.hw # 0 BY <1>2, <3>1 DEF HoleInv, MarksSound
    <3>3. back[v].back \in Nat BY <1>1, CrawlNumbers DEF BackPass, Mark0
    <3> QED BY <2>4, <3>1, <3>2, <3>3
  <2>7. ASSUME NEW v \in Worker \ {w} PROVE CrawlSound(crawl[v], s, low, fetched)
    <3>1. CrawlSound(crawl[v], row, low, fetched) BY DEF HoleInv
    <3>2. crawl[v].hw \in Nat BY <1>1, CrawlNumbers DEF CrawlPass, Mark0
    <3>3. Adopted # {} /\ row.hw # 0
      BY <1>2 DEF NoSecondFirstPass, HoleInv, MarksSound
    <3>4. crawl[v].phase # "idle" => crawl[v].hw <= s.hw /\ crawl[v].hw # 0
      BY <1>2, <2>3, <3>1, <3>2, <3>3 DEF CrawlSound
    <3> QED BY <2>3, <3>1, <3>4 DEF CrawlSound
  <2>8. row.hw # 0 => HoleFree(row.hw, s.hw, low, fetched)
    <3>1. HoleFree(row.hw, row.hw, low, fetched) BY <1>2 DEF HoleFree
    <3> QED BY <1>2, <2>4, <3>1
  <2> QED BY <2>5, <2>6, <2>7, <2>8
<1> QED BY <1>2, <1>4, <1>5

(* recordBackfill: the back watermark comes down to the newest gap, and all *)
(* above it is recorded as covered, or was above the mark the pass read.    *)
LEMMA LoweredSound ==
    ASSUME TypeOK, SlowKnown, HoleInv, CoverageHonest,
           NEW w \in Worker, back[w].phase = "fetched", NEW left, left # {},
           left = Gaps(back[w].slow, back[w].back)
    PROVE  LET s == [row EXCEPT !.back = Max(left)]
           IN  /\ MarksSound(s, low, fetched)
               /\ \A v \in Worker : BackSound(back[v], s, low, fetched)
               /\ \A v \in Worker : CrawlSound(crawl[v], s, low, fetched)
<1> DEFINE m == Max(left)
           s == [row EXCEPT !.back = m]
<1>1. back[w] \in BackPass /\ row \in Row /\ back[w].slow \in Article
  BY TypeOKUnfolded DEF SlowKnown
<1>2. /\ back[w].slow \in Nat /\ back[w].slow >= 1 /\ back[w].back \in Nat
      /\ row.hw \in Nat /\ low \in Nat
  BY <1>1, CrawlNumbers DEF Article, BackPass, Mark0, Row, TypeOK
<1>3. left \subseteq Article
  BY <1>1, GapsType DEF BackPass
<1>4. m \in left /\ \A x \in left : x <= m
  <2>1. left \in SUBSET (0..MaxArticle) BY <1>3, CrawlNumbers DEF Article
  <2> QED BY <2>1, MaxOfBounded, CrawlNumbers
<1>5. m \in Nat /\ m # Null /\ back[w].slow <= m
  <2> HIDE DEF m
  <2>1. m \in Article BY <1>3, <1>4
  <2>2. m \in back[w].slow..back[w].back BY <1>4 DEF Gaps
  <2> QED BY <2>1, <2>2, <1>2, CrawlNumbers DEF Article, Null
<1>6. s.back = m /\ s.hw = row.hw BY <1>1 DEF Row
<1> HIDE DEF m, s
<1>7. row.back # Null /\ HoleFree(back[w].back, row.hw, low, fetched)
  BY DEF HoleInv, BackSound
<1>8. HoleFree(m, row.hw, low, fetched)
  <2> SUFFICES ASSUME NEW a \in (m + 1)..row.hw, a >= low PROVE a \in fetched
    BY DEF HoleFree
  <2>1. CASE a > back[w].back BY <1>2, <1>5, <1>7, <2>1 DEF HoleFree
  <2>2. CASE a <= back[w].back
    <3>1. a \in back[w].slow..back[w].back BY <1>2, <1>5, <2>2
    <3>2. a \notin left BY <1>4, <1>5
    <3> QED BY <3>1, <3>2 DEF Gaps, CoverageHonest
  <2> QED BY <1>2, <1>5, <2>1, <2>2
<1>9. MarksSound(s, low, fetched)
  BY <1>6, <1>7, <1>8 DEF MarksSound, HoleInv
<1>10. \A v \in Worker : BackSound(back[v], s, low, fetched)
  BY <1>5, <1>6 DEF BackSound, HoleInv
<1>11. \A v \in Worker : CrawlSound(crawl[v], s, low, fetched)
  BY <1>5, <1>6 DEF CrawlSound, HoleInv
<1> QED BY <1>9, <1>10, <1>11 DEF s, m

LEMMA CrawlStepSound ==
    ASSUME TypeOK, SlowKnown, HoleInv, NoSecondFirstPass, Leads = {"deep"},
           NEW w \in Worker, CrawlStep(w)
    PROVE  HoleInv'
<1>1. /\ crawl \in [Worker -> CrawlPass] /\ crawl[w] \in CrawlPass
      /\ low \in Int /\ row \in Row
  BY TypeOKUnfolded, CrawlNumbers DEF Article
<1>2. CASE CrawlChoose(w)
  <2> DEFINE p == [NoCrawl EXCEPT !.phase = "chosen", !.hw = row.hw]
  <2>1. p.phase = "chosen" /\ p.hw = row.hw BY DEF NoCrawl
  <2>2. crawl' = [crawl EXCEPT ![w] = p]
        /\ UNCHANGED <<low, row, fetched, back>>
    BY <1>2 DEF CrawlChoose
  <2>3. row.hw \in Int BY <1>1, CrawlNumbers DEF Row, Mark0
  <2> HIDE DEF p
  <2>4. CrawlSound(p, row, low, fetched)
    BY <2>1, <2>3 DEF CrawlSound, Busy
  <2>5. \A v \in Worker : crawl'[v] = crawl[v]
                          \/ CrawlSound(crawl'[v], row', low', fetched')
    BY <1>1, <2>2, <2>4
  <2> QED BY <1>1, <2>2, <2>5, QuietStep
<1>3. CASE CrawlPlan(w)
  <2> DEFINE lo == ReportedLow
             start == Start(crawl[w].hw, lo)
             p(B) == [phase |-> "planned", hw |-> crawl[w].hw, low |-> lo,
                      start |-> start, end |-> 0, todo |-> B]
  <2>1. UNCHANGED <<low, fetched, back>> BY <1>3 DEF CrawlPlan
  <2>2. \/ (\E B : crawl' = [crawl EXCEPT ![w] = p(B)]) /\ row' = row
        \/ crawl' = [crawl EXCEPT ![w] = NoCrawl] /\ Writes(Updated(lo, 0, start))
    BY <1>1, <1>3 DEF CrawlPlan
  <2>3. lo = low BY DEF ReportedLow, TypeOK
  <2>4. /\ crawl[w].hw < start
        /\ crawl[w].hw # 0 => \A a \in (crawl[w].hw + 1)..(start - 1) : a < lo
    BY <1>1, ReportedLowType, WindowStart DEF CrawlPass
  <2> HIDE DEF start, lo
  <2>5. \A B : CrawlSound(p(B), row, low, fetched)
    <3> SUFFICES ASSUME NEW B PROVE CrawlSound(p(B), row, low, fetched) OBVIOUS
    <3>1. CrawlSound(crawl[w], row, low, fetched) /\ crawl[w].phase # "idle"
      BY <1>3 DEF HoleInv, CrawlPlan
    <3>2. lo <= low BY <1>1, <2>3
    <3> QED BY <2>4, <3>1, <3>2 DEF CrawlSound, Busy
  <2>6. row'.hw = row.hw /\ row'.back = row.back
    BY <2>2, UpdatedQuietly
  <2>7. CASE (\E B : crawl' = [crawl EXCEPT ![w] = p(B)]) /\ row' = row
    <3>1. PICK B : crawl' = [crawl EXCEPT ![w] = p(B)] BY <2>7
    <3>2. CrawlSound(p(B), row, low, fetched) BY <2>5
    <3> HIDE DEF p
    <3>3. \A v \in Worker : crawl'[v] = crawl[v]
                            \/ CrawlSound(crawl'[v], row', low', fetched')
      BY <1>1, <2>1, <2>7, <3>1, <3>2
    <3> QED BY <1>1, <2>1, <2>6, <3>3, QuietStep
  <2>8. CASE crawl' = [crawl EXCEPT ![w] = NoCrawl]
    <3>1. \A v \in Worker : crawl'[v] = crawl[v]
                            \/ CrawlSound(crawl'[v], row', low', fetched')
      BY <1>1, <2>8, IdleSound
    <3> QED BY <1>1, <2>1, <2>6, <3>1, QuietStep
  <2> QED BY <2>2, <2>7, <2>8
<1>4. CASE CrawlFetch(w)
  <2>1. PICK ok \in SUBSET crawl[w].todo :
             /\ fetched' = fetched \cup Span(ok)
             /\ crawl' = [crawl EXCEPT ![w] = CrawlFetched(crawl[w], ok)]
    BY <1>1, <1>4 DEF CrawlFetch
  <2>2. UNCHANGED <<low, row, back>> /\ crawl[w].phase = "planned"
    BY <1>4 DEF CrawlFetch
  <2> DEFINE e == ContiguousEnd(crawl[w].start, Span(ok))
             p == CrawlFetched(crawl[w], ok)
  <2>3. crawl[w].start..e \subseteq Span(ok)
    <3>1. crawl[w].start \in 1..(MaxArticle + 1)
      BY <1>1, <2>2 DEF SlowKnown, Busy, CrawlPass
    <3>2. ok \in SUBSET (Article \X Article) BY <1>1 DEF CrawlPass
    <3>3. Span(ok) \in SUBSET Article BY <3>2, SpanType
    <3> QED BY <3>1, <3>3, ContiguousFetched
  <2>4. /\ p.phase = "fetched" /\ p.hw = crawl[w].hw /\ p.low = crawl[w].low
        /\ p.start = crawl[w].start /\ p.end = e
    BY <1>1 DEF CrawlFetched, CrawlPass
  <2>5. CrawlSound(crawl[w], row, low, fetched) /\ Busy(crawl[w])
    BY <2>2 DEF HoleInv, Busy
  <2> HIDE DEF p, e
  <2>6. CrawlSound(p, row, low, fetched')
    BY <2>1, <2>2, <2>3, <2>4, <2>5 DEF CrawlSound, Busy
  <2>7. \A v \in Worker : crawl'[v] = crawl[v]
                          \/ CrawlSound(crawl'[v], row', low', fetched')
    BY <1>1, <2>1, <2>2, <2>6 DEF p
  <2> QED BY <1>1, <2>1, <2>2, <2>7, QuietStep
<1>5. CASE CrawlRecord(w)
  <2>1. PICK b \in crawl[w].todo : crawl' = [crawl EXCEPT ![w].todo = @ \ {b}]
    BY <1>5 DEF CrawlRecord
  <2> DEFINE p == [crawl[w] EXCEPT !.todo = @ \ {b}]
  <2>2. crawl' = [crawl EXCEPT ![w] = p] BY <1>1, <2>1
  <2>3. /\ p.phase = crawl[w].phase /\ p.hw = crawl[w].hw /\ p.low = crawl[w].low
        /\ p.start = crawl[w].start /\ p.end = crawl[w].end
    BY <1>1 DEF CrawlPass
  <2>4. CrawlSound(p, row, low, fetched)
    <3>1. CrawlSound(crawl[w], row, low, fetched) BY DEF HoleInv
    <3> HIDE DEF p
    <3> QED BY <2>3, <3>1 DEF CrawlSound, Busy
  <2>5. UNCHANGED <<low, row, fetched, back>> BY <1>5 DEF CrawlRecord
  <2> HIDE DEF p
  <2>6. \A v \in Worker : crawl'[v] = crawl[v]
                          \/ CrawlSound(crawl'[v], row', low', fetched')
    BY <1>1, <2>2, <2>4, <2>5
  <2> QED BY <1>1, <2>5, <2>6, QuietStep
<1>6. CASE CrawlAdvance(w)
  <2> DEFINE s == Updated(crawl[w].low, Mark(crawl[w]), crawl[w].start)
  <2>1. /\ crawl[w].phase = "fetched" /\ Writes(s)
        /\ crawl' = [crawl EXCEPT ![w] = NoCrawl]
        /\ UNCHANGED <<low, fetched, back>>
    BY <1>6 DEF CrawlAdvance, EndCrawl
  <2>2. CASE row' = s
    <3>1. /\ MarksSound(s, low, fetched)
          /\ \A v \in Worker : BackSound(back[v], s, low, fetched)
          /\ \A v \in Worker \ {w} : CrawlSound(crawl[v], s, low, fetched)
      BY <2>1, AdvanceSound
    <3> HIDE DEF s
    <3>2. \A v \in Worker : CrawlSound(crawl'[v], s, low, fetched)
      BY <1>1, <2>1, <3>1, IdleSound
    <3> QED BY <2>1, <2>2, <3>1, <3>2 DEF HoleInv
  <2>3. CASE row' = row
    <3>1. \A v \in Worker : crawl'[v] = crawl[v]
                            \/ CrawlSound(crawl'[v], row', low', fetched')
      BY <1>1, <2>1, IdleSound
    <3> QED BY <1>1, <2>1, <2>3, <3>1, QuietStep
  <2> QED BY <2>1, <2>2, <2>3 DEF Writes
<1>7. CASE CrawlStops(w)
  <2>1. crawl' = [crawl EXCEPT ![w] = NoCrawl]
        /\ UNCHANGED <<low, row, fetched, back>>
    BY <1>7 DEF CrawlStops, EndCrawl
  <2>2. \A v \in Worker : crawl'[v] = crawl[v]
                          \/ CrawlSound(crawl'[v], row', low', fetched')
    BY <1>1, <2>1, IdleSound
  <2> QED BY <1>1, <2>1, <2>2, QuietStep
<1> QED BY <1>2, <1>3, <1>4, <1>5, <1>6, <1>7 DEF CrawlStep

LEMMA BackStepSound ==
    ASSUME TypeOK, SlowKnown, HoleInv, CoverageHonest,
           NEW w \in Worker, BackStep(w)
    PROVE  HoleInv'
<1>1. /\ back \in [Worker -> BackPass] /\ back[w] \in BackPass
      /\ low \in Int /\ row \in Row
  BY TypeOKUnfolded, CrawlNumbers DEF Article
<1>2. CASE BackChoose(w)
  <2> DEFINE p == [NoBack EXCEPT !.phase = "chosen", !.back = row.back,
                                 !.slow = row.slow]
  <2>1. p.back = row.back BY DEF NoBack
  <2>2. row.back # Null /\ back' = [back EXCEPT ![w] = p]
        /\ UNCHANGED <<low, row, fetched, crawl>>
    BY <1>2 DEF BackChoose, NeedsBackfill
  <2> HIDE DEF p
  <2>3. BackSound(p, row, low, fetched)
    BY <2>1, <2>2 DEF BackSound, HoleInv, MarksSound
  <2>4. \A v \in Worker : back'[v] = back[v]
                          \/ BackSound(back'[v], row', low', fetched')
    BY <1>1, <2>2, <2>3
  <2> QED BY <1>1, <2>2, <2>4, QuietStep
<1>3. CASE BackPlan(w) \/ BackFetch(w) \/ BackRecord(w)
  <2>1. PICK p : /\ back' = [back EXCEPT ![w] = p]
                 /\ p = NoBack \/ p.back = back[w].back
    <3>1. CASE back' = [back EXCEPT ![w] = NoBack] BY <3>1
    <3>2. CASE \E B : back' = [back EXCEPT ![w].phase = "planned",
                                           ![w].todo = B]
      <4>1. PICK B : back' = [back EXCEPT ![w].phase = "planned",
                                          ![w].todo = B]
        BY <3>2
      <4> DEFINE p == [back[w] EXCEPT !.phase = "planned", !.todo = B]
      <4>2. back' = [back EXCEPT ![w] = p] BY <1>1, <4>1
      <4>3. p.back = back[w].back BY <1>1 DEF BackPass
      <4> HIDE DEF p
      <4> QED BY <4>2, <4>3
    <3>3. CASE \E ok, h : back' = [back EXCEPT ![w].phase = "fetched",
                                      ![w].todo = ok, ![w].horizon = h]
      <4>1. PICK ok, h : back' = [back EXCEPT ![w].phase = "fetched",
                                      ![w].todo = ok, ![w].horizon = h]
        BY <3>3
      <4> DEFINE p == [back[w] EXCEPT !.phase = "fetched", !.todo = ok,
                                      !.horizon = h]
      <4>2. back' = [back EXCEPT ![w] = p] BY <1>1, <4>1
      <4>3. p.back = back[w].back BY <1>1 DEF BackPass
      <4> HIDE DEF p
      <4> QED BY <4>2, <4>3
    <3>4. CASE \E b : back' = [back EXCEPT ![w].todo = @ \ {b}]
      <4>1. PICK b : back' = [back EXCEPT ![w].todo = @ \ {b}] BY <3>4
      <4> DEFINE p == [back[w] EXCEPT !.todo = @ \ {b}]
      <4>2. back' = [back EXCEPT ![w] = p] BY <1>1, <4>1
      <4>3. p.back = back[w].back BY <1>1 DEF BackPass
      <4> HIDE DEF p
      <4> QED BY <4>2, <4>3
    <3>5. CASE BackPlan(w) BY <3>1, <3>2, <3>5 DEF BackPlan
    <3>6. CASE BackFetch(w) BY <3>3, <3>6 DEF BackFetch
    <3>7. CASE BackRecord(w) BY <3>4, <3>7 DEF BackRecord
    <3> QED BY <1>3, <3>5, <3>6, <3>7
  <2>2. UNCHANGED <<low, crawl>> /\ fetched \subseteq fetched'
    BY <1>3 DEF BackPlan, BackFetch, BackRecord
  <2>3. row'.hw = row.hw /\ row'.back = row.back
    BY <1>3, MarkDoneQuietly DEF BackPlan, BackFetch, BackRecord
  <2>4. back[w].phase # "idle"
    BY <1>3 DEF BackPlan, BackFetch, BackRecord
  <2>5. BackSound(p, row', low', fetched')
    <3>1. row.back # Null /\ HoleFree(back[w].back, row.hw, low, fetched)
      BY <2>4 DEF HoleInv, BackSound
    <3>2. HoleFree(back[w].back, row.hw, low, fetched')
      BY <2>2, <3>1 DEF HoleFree
    <3> QED BY <2>1, <2>2, <2>3, <3>1, <3>2, IdleSound DEF BackSound
  <2>6. \A v \in Worker : back'[v] = back[v]
                          \/ BackSound(back'[v], row', low', fetched')
    BY <1>1, <2>1, <2>5
  <2> QED BY <1>1, <2>2, <2>3, <2>6, QuietStep
<1>4. CASE BackFinish(w) \/ BackStops(w)
  <2> DEFINE left == Gaps(back[w].slow, back[w].back)
  <2>1. back' = [back EXCEPT ![w] = NoBack]
        /\ UNCHANGED <<low, fetched, crawl>>
    BY <1>4 DEF BackFinish, BackStops, EndBack
  <2>2. \A v \in Worker : back'[v] = back[v]
                          \/ BackSound(back'[v], row', low', fetched')
    BY <1>1, <2>1, IdleSound
  <2>3. \/ row' = row
        \/ row' = MarkDone
        \/ /\ back[w].phase = "fetched" /\ left # {}
           /\ row' = [row EXCEPT !.back = Max(left)]
    BY <1>4 DEF BackFinish, BackStops, Writes
  <2>4. CASE row' = row \/ row' = MarkDone
    <3>1. row'.hw = row.hw /\ row'.back = row.back
      BY <2>4, MarkDoneQuietly DEF Writes
    <3> QED BY <1>1, <2>1, <2>2, <3>1, QuietStep
  <2>5. CASE /\ back[w].phase = "fetched" /\ left # {}
             /\ row' = [row EXCEPT !.back = Max(left)]
    <3>1. /\ MarksSound(row', low, fetched)
          /\ \A v \in Worker : BackSound(back[v], row', low, fetched)
          /\ \A v \in Worker : CrawlSound(crawl[v], row', low, fetched)
      BY <2>5, LoweredSound
    <3>2. \A v \in Worker : BackSound(back'[v], row', low, fetched)
      BY <1>1, <2>1, <3>1, IdleSound
    <3> QED BY <2>1, <3>1, <3>2 DEF HoleInv
  <2> HIDE DEF left
  <2> QED BY <2>3, <2>4, <2>5
<1> QED BY <1>2, <1>3, <1>4 DEF BackStep

LEMMA InitSound == Init => HoleInv
<1> SUFFICES ASSUME Init PROVE HoleInv OBVIOUS
<1>1. \A w \in Worker : /\ BackSound(back[w], row, low, fetched)
                        /\ CrawlSound(crawl[w], row, low, fetched)
  BY IdleSound DEF Init
<1>2. MarksSound(row, low, fetched)
  <2>1. CASE Adopted = {} /\ row = NoRow
    BY <2>1 DEF MarksSound, NoRow
  <2>2. CASE \E a \in Adopted :
             /\ row.hw = a[1] /\ row.back = a[2]
             /\ fetched = (IF a[2] = Null THEN a[1] ELSE a[2])..a[1]
    <3>1. PICK a \in Adopted :
             /\ row.hw = a[1] /\ row.back = a[2]
             /\ fetched = (IF a[2] = Null THEN a[1] ELSE a[2])..a[1]
      BY <2>2
    <3>2. a[1] \in Nat /\ a[1] >= 1 /\ a[2] \in Nat BY CrawlModes, CrawlNumbers
    <3> QED BY <3>1, <3>2 DEF MarksSound, HoleFree
  <2>3. \/ Adopted = {} /\ row = NoRow
        \/ \E a \in Adopted :
             /\ row.hw = a[1] /\ row.back = a[2]
             /\ fetched = (IF a[2] = Null THEN a[1] ELSE a[2])..a[1]
    BY DEF Init
  <2> QED BY <2>1, <2>2, <2>3
<1> QED BY <1>1, <1>2 DEF HoleInv

-----------------------------------------------------------------------------
(* gapJobs: the batches of the gaps hold every article of a gap, and of two *)
(* that differ one lies below the other.                                    *)

LEMMA Multiples ==
    ASSUME NEW n \in Nat \ {0}, NEW u \in Nat, NEW v \in Nat,
           u % n = 0, v % n = 0, u < v
    PROVE  u + n <= v
<1>1. u = n * (u \div n) /\ v = n * (v \div n) /\ u \div n \in Int /\ v \div n \in Int
  OBVIOUS
<1>2. PICK i \in Int, j \in Int : u = n * i /\ v = n * j
  BY <1>1
<1>3. i < j
  BY <1>2
<1>4. n * (i + 1) <= n * j
  BY <1>3
<1>5. n * (i + 1) = n * i + n
  OBVIOUS
<1> QED
  BY <1>2, <1>4, <1>5

LEMMA RoundDown ==
    ASSUME NEW n \in Nat \ {0}, NEW d \in Nat
    PROVE  \E e \in Nat : e <= d /\ d < e + n /\ e % n = 0
<1>1. (d % n) \in 0..(n - 1) /\ d = (n * (d \div n)) + (d % n) /\ d \div n \in Nat
  OBVIOUS
<1>2. PICK q \in Nat, m \in 0..(n - 1) : d = n * q + m
  BY <1>1
<1>3. n * q \in Nat /\ (n * q) % n = 0
  OBVIOUS
<1> QED
  BY <1>2, <1>3

LEMMA GapTopIs ==
    ASSUME NEW G \in SUBSET Article, NEW a \in G
    PROVE  /\ GapTop(G, a) \in G /\ a <= GapTop(G, a) /\ a..GapTop(G, a) \subseteq G
           /\ \A t \in G : a <= t /\ a..t \subseteq G => t <= GapTop(G, a)
<1> DEFINE S == {t \in G : a <= t /\ a..t \subseteq G}
<1>1. a \in Nat /\ a..a = {a}
  BY CrawlNumbers DEF Article
<1>2. S \in SUBSET (0..MaxArticle) /\ S # {}
  <2>1. a \in S BY <1>1
  <2>2. G \subseteq 0..MaxArticle BY CrawlNumbers DEF Article
  <2> QED BY <2>1, <2>2
<1>3. GapTop(G, a) = Max(S) BY DEF GapTop
<1>4. GapTop(G, a) \in S /\ \A t \in S : t <= GapTop(G, a)
  <2> HIDE DEF S
  <2> QED BY <1>2, <1>3, MaxOfBounded, CrawlNumbers
<1> QED BY <1>4

LEMMA GapBottomIs ==
    ASSUME NEW G \in SUBSET Article, NEW a \in G
    PROVE  /\ GapBottom(G, a) \in G /\ GapBottom(G, a) <= a
           /\ GapBottom(G, a)..a \subseteq G
           /\ \A s \in G : s <= a /\ s..a \subseteq G => GapBottom(G, a) <= s
<1> DEFINE S == {s \in G : s <= a /\ s..a \subseteq G}
<1>1. a \in Nat /\ a..a = {a}
  BY CrawlNumbers DEF Article
<1>2. S \in SUBSET Nat /\ S # {}
  <2>1. a \in S BY <1>1
  <2>2. G \subseteq Nat BY CrawlNumbers DEF Article
  <2> QED BY <2>1, <2>2
<1>3. GapBottom(G, a) = Min(S) BY DEF GapBottom
<1>4. GapBottom(G, a) \in S /\ \A s \in S : GapBottom(G, a) <= s
  <2> HIDE DEF S
  <2> QED BY <1>2, <1>3, MinOfBounded
<1> QED BY <1>4

(* Two articles of one gap have one top.                                    *)
LEMMA OneTop ==
    ASSUME NEW G \in SUBSET Article, NEW a \in G, NEW b \in G, a <= b, a..b \subseteq G
    PROVE  GapTop(G, a) = GapTop(G, b)
<1>1. a \in Nat /\ b \in Nat BY CrawlNumbers DEF Article
<1>2. PICK s \in G : /\ s = GapTop(G, a) /\ a <= s /\ a..s \subseteq G
                     /\ \A t \in G : a <= t /\ a..t \subseteq G => t <= s
  BY GapTopIs
<1>3. PICK u \in G : /\ u = GapTop(G, b) /\ b <= u /\ b..u \subseteq G
                     /\ \A t \in G : b <= t /\ b..t \subseteq G => t <= u
  BY GapTopIs
<1>4. s \in Nat /\ u \in Nat BY CrawlNumbers DEF Article
<1>5. b <= s BY <1>2
<1>6. b..s \subseteq G BY <1>1, <1>2, <1>4
<1>7. s <= u BY <1>3, <1>5, <1>6
<1>8. a..u \subseteq G
  <2> SUFFICES ASSUME NEW x \in a..u PROVE x \in G OBVIOUS
  <2>1. x \in a..b \/ x \in b..u BY <1>1, <1>4
  <2> QED BY <2>1, <1>3
<1>9. u <= s BY <1>1, <1>2, <1>3, <1>4, <1>8
<1> QED BY <1>2, <1>3, <1>4, <1>7, <1>9

LEMMA ABatch ==
    ASSUME NEW G \in SUBSET Article, NEW c \in GapBatches(G)
    PROVE  /\ c[1] \in Nat /\ c[2] \in Nat /\ c[2] \in G
           /\ c[1] <= c[2] /\ c[2] <= c[1] + Batch - 1 /\ c[1]..c[2] \subseteq G
           /\ (GapTop(G, c[2]) - c[2]) % Batch = 0
           /\ c[1] = GapBottom(G, c[2]) \/ c[1] = c[2] - Batch + 1
<1>1. PICK a \in G : /\ (GapTop(G, a) - a) % Batch = 0
                     /\ c = <<Max({GapBottom(G, a), a - Batch + 1}), a>>
  BY DEF GapBatches
<1>2. PICK l \in G : /\ l = GapBottom(G, a) /\ l <= a /\ l..a \subseteq G
  BY GapBottomIs
<1>3. l \in Nat /\ a \in Nat /\ Batch \in Nat \ {0}
  BY CrawlNumbers DEF Article
<1>4. PICK d \in Int : d = a - Batch + 1 BY <1>3
<1>5. Max({l, d}) \in {l, d} /\ l <= Max({l, d}) /\ d <= Max({l, d})
  <2>1. l \in Int /\ d \in Int BY <1>3
  <2> QED BY <2>1, MaxOfTwo
<1>6. PICK m \in {l, d} : m = Max({l, d}) /\ l <= m /\ d <= m BY <1>5
<1>7. c[1] = m /\ c[2] = a BY <1>1, <1>2, <1>4, <1>6
<1>8. m \in Nat /\ m <= a /\ a <= m + Batch - 1 BY <1>2, <1>3, <1>4, <1>6
<1>9. m..a \subseteq G BY <1>2, <1>3, <1>6, <1>8
<1>10. (GapTop(G, c[2]) - c[2]) % Batch = 0 BY <1>1, <1>7
<1>11. c[1] = GapBottom(G, c[2]) \/ c[1] = c[2] - Batch + 1 BY <1>2, <1>4, <1>6, <1>7
<1> QED BY <1>3, <1>7, <1>8, <1>9, <1>10, <1>11

LEMMA GapCover ==
    ASSUME NEW G \in SUBSET Article, NEW x \in G
    PROVE  \E c \in GapBatches(G) : c[1] <= x /\ x <= c[2]
<1>1. PICK t \in G : t = GapTop(G, x) /\ x <= t /\ x..t \subseteq G
  BY GapTopIs
<1>2. x \in Nat /\ t \in Nat /\ Batch \in Nat \ {0}
  BY CrawlNumbers DEF Article
<1> DEFINE far == t - x
<1>15. far \in Nat BY <1>1, <1>2
<1>16. PICK e \in Nat : e <= far /\ far < e + Batch /\ e % Batch = 0
  <2> HIDE DEF far
  <2> QED BY <1>2, <1>15, RoundDown
<1>3. e <= t - x /\ t - x < e + Batch /\ e % Batch = 0 BY <1>16
<1>4. PICK a \in Nat : a = t - e /\ x <= a /\ a <= t BY <1>1, <1>2, <1>3
<1>5. a \in G /\ x..a \subseteq G BY <1>1, <1>2, <1>4
<1>6. GapTop(G, a) = t BY <1>1, <1>4, <1>5, OneTop
<1>7. (GapTop(G, a) - a) % Batch = 0
  <2>1. t - a = e BY <1>2, <1>3, <1>4
  <2> QED BY <1>3, <1>6, <2>1
<1> DEFINE c == <<Max({GapBottom(G, a), a - Batch + 1}), a>>
<1>8. c \in GapBatches(G) BY <1>5, <1>7 DEF GapBatches
<1>9. PICK l \in G : /\ l = GapBottom(G, a)
                     /\ \A s \in G : s <= a /\ s..a \subseteq G => l <= s
  <2> HIDE DEF c, far
  <2>1. a \in G BY <1>5
  <2>2. /\ GapBottom(G, a) \in G
        /\ \A s \in G : s <= a /\ s..a \subseteq G => GapBottom(G, a) <= s
    BY <2>1, GapBottomIs
  <2> QED BY <2>2
<1>10. l <= x /\ l \in Nat BY <1>4, <1>5, <1>9, CrawlNumbers DEF Article
<1>11. PICK d \in Int : d = a - Batch + 1 BY <1>2
<1>12. Max({l, d}) \in {l, d}
  <2>1. l \in Int /\ d \in Int BY <1>10
  <2> QED BY <2>1, MaxOfTwo
<1>13. d <= x BY <1>2, <1>3, <1>4, <1>11
<1>14. c[1] <= x /\ x <= c[2] BY <1>4, <1>9, <1>10, <1>11, <1>12, <1>13
<1> QED BY <1>8, <1>14

LEMMA GapApart ==
    ASSUME NEW G \in SUBSET Article, NEW b \in GapBatches(G), NEW c \in GapBatches(G),
           b[1] > c[1]
    PROVE  b[1] > c[2]
<1>1. PICK b1 \in Nat, b2 \in G : /\ b1 = b[1] /\ b2 = b[2] /\ b1 <= b2
                                  /\ b2 <= b1 + Batch - 1 /\ b1..b2 \subseteq G
                                  /\ (GapTop(G, b2) - b2) % Batch = 0
                                  /\ b1 = GapBottom(G, b2) \/ b1 = b2 - Batch + 1
  BY ABatch
<1>2. PICK c1 \in Nat, c2 \in G : /\ c1 = c[1] /\ c2 = c[2] /\ c1 <= c2
                                  /\ c2 <= c1 + Batch - 1 /\ c1..c2 \subseteq G
                                  /\ (GapTop(G, c2) - c2) % Batch = 0
                                  /\ c1 = GapBottom(G, c2) \/ c1 = c2 - Batch + 1
  BY ABatch
<1>3. b2 \in Nat /\ c2 \in Nat /\ Batch \in Nat \ {0} BY CrawlNumbers DEF Article
<1> SUFFICES ASSUME b1 <= c2 PROVE FALSE BY <1>1, <1>2, <1>3
<1>4. c1 < b1 BY <1>1, <1>2
<1>5. b1 \in G /\ b1..c2 \subseteq G BY <1>2, <1>3, <1>4
<1>6. GapTop(G, b1) = GapTop(G, b2) /\ GapTop(G, b1) = GapTop(G, c2)
  BY <1>1, <1>5, OneTop
<1>7. PICK t \in G : t = GapTop(G, b2) /\ b2 <= t BY GapTopIs
<1>8. c2 <= t BY <1>6, <1>7, GapTopIs
<1>9. t \in Nat /\ t - b2 \in Nat /\ t - c2 \in Nat
  <2>1. t \in Nat BY CrawlNumbers DEF Article
  <2> QED BY <1>3, <1>7, <1>8, <2>1
<1>14. (t - b2) % Batch = 0 /\ (t - c2) % Batch = 0 BY <1>1, <1>2, <1>6, <1>7
<1>10. PICK u \in Nat, v \in Nat : /\ u = t - b2 /\ v = t - c2
                                   /\ u % Batch = 0 /\ v % Batch = 0
  BY <1>9, <1>14
<1>11. CASE b2 = c2
  <2>1. PICK l \in G : /\ l = GapBottom(G, c2)
                       /\ \A s \in G : s <= c2 /\ s..c2 \subseteq G => l <= s
    BY GapBottomIs
  <2>2. c1 \in G BY <1>2, <1>3
  <2>3. l <= c1 /\ l \in Nat BY <1>2, <2>1, <2>2, CrawlNumbers DEF Article
  <2>4. b1 = l \/ b1 = c2 - Batch + 1 BY <1>1, <1>11, <2>1
  <2>5. c2 <= c1 + Batch - 1 BY <1>2
  <2> QED BY <1>3, <1>4, <2>3, <2>4, <2>5
<1>12. CASE b2 > c2
  <2>1. u < v BY <1>3, <1>9, <1>10, <1>12
  <2>2. u % Batch = 0 /\ v % Batch = 0 BY <1>10
  <2>3. u + Batch <= v BY <1>3, <2>1, <2>2, Multiples
  <2>4. b1 \in Nat /\ b2 <= b1 + Batch - 1 /\ b1 <= c2 BY <1>1
  <2> QED BY <1>3, <1>9, <1>10, <2>3, <2>4
<1>13. CASE b2 < c2
  <2>1. v < u BY <1>3, <1>9, <1>10, <1>13
  <2>2. u % Batch = 0 /\ v % Batch = 0 BY <1>10
  <2>3. v + Batch <= u BY <1>3, <2>1, <2>2, Multiples
  <2>4. b1 \in Nat /\ c1 \in Nat /\ b1 <= b2 /\ c2 <= c1 + Batch - 1 /\ c1 < b1
    BY <1>1, <1>2, <1>4
  <2> QED BY <1>3, <1>9, <1>10, <2>3, <2>4
<1> QED BY <1>3, <1>11, <1>12, <1>13

-----------------------------------------------------------------------------
(* Operators reset a group that has been crawled, and while nothing runs.   *)
Tended == Resets = {} \/ ("forward" \notin Resets /\ QuietResets /\ Adopted # {})

(* Until the history is walked anew, the high watermark was itself read: a  *)
(* rescan starts right below it.                                            *)
HighRead == "history" \notin resets /\ row.hw > 0 => row.hw < low \/ row.hw \in fetched

LEMMA InitHighRead == Init => HighRead
<1> SUFFICES ASSUME Init PROVE HighRead OBVIOUS
<1>1. CASE row = NoRow BY <1>1 DEF HighRead, NoRow
<1>2. CASE \E a \in Adopted : /\ row.hw = a[1]
             /\ fetched = (IF a[2] = Null THEN a[1] ELSE a[2])..a[1]
  <2>1. PICK a \in Adopted : /\ row.hw = a[1]
             /\ fetched = (IF a[2] = Null THEN a[1] ELSE a[2])..a[1]
    BY <1>2
  <2>2. a[1] \in Nat /\ a[2] \in Nat /\ a[2] <= a[1] BY CrawlModes, CrawlNumbers
  <2> QED BY <2>1, <2>2 DEF HighRead
<1>3. \/ row = NoRow
      \/ \E a \in Adopted : /\ row.hw = a[1]
             /\ fetched = (IF a[2] = Null THEN a[1] ELSE a[2])..a[1]
  BY DEF Init
<1> QED BY <1>1, <1>2, <1>3

(* The high watermark moves to an article that was fetched.                 *)
LEMMA AdvanceRead ==
    ASSUME TypeOK, SlowKnown, HoleInv, NEW w \in Worker, crawl[w].phase = "fetched"
    PROVE  LET s == Updated(crawl[w].low, Mark(crawl[w]), crawl[w].start)
           IN  s.hw = row.hw \/ s.hw \in fetched
<1> DEFINE p == crawl[w]
           s == Updated(p.low, Mark(p), p.start)
<1>1. p \in CrawlPass /\ Busy(p) /\ row \in Row
  BY TypeOKUnfolded DEF Busy
<1>2. p.start \in Nat /\ p.end \in Nat /\ row.hw \in Nat
  BY <1>1, CrawlNumbers DEF CrawlPass, Row, Mark0
<1>3. p.start..p.end \subseteq fetched
  BY DEF HoleInv, CrawlSound
<1>4. s.hw = (IF Mark(p) > row.hw THEN Mark(p) ELSE row.hw)
  BY DEF Updated
<1>5. Mark(p) = 0 \/ (Mark(p) = p.end /\ p.end >= p.start)
  BY <1>2 DEF Mark
<1> HIDE DEF s
<1>6. CASE Mark(p) = 0
  BY <1>2, <1>4, <1>6 DEF s
<1>7. CASE Mark(p) = p.end /\ p.end >= p.start
  <2>1. p.end \in fetched BY <1>2, <1>3, <1>7
  <2> QED BY <1>4, <1>7, <2>1 DEF s
<1> QED BY <1>5, <1>6, <1>7

LEMMA StepHighRead ==
    ASSUME TypeOK, SlowKnown, HoleInv, HighRead, NEW w \in Worker,
           CrawlStep(w) \/ BackStep(w)
    PROVE  HighRead'
<1>1. low \in Int /\ row \in Row /\ row.hw \in Nat
  BY TypeOKUnfolded, CrawlNumbers DEF Article, Row, Mark0
<1>2. UNCHANGED <<low, resets>> /\ fetched \subseteq fetched'
  BY DEF CrawlStep, BackStep, CrawlChoose, CrawlPlan, CrawlFetch, CrawlRecord, CrawlAdvance,
     CrawlStops, BackChoose, BackPlan, BackFetch, BackRecord, BackFinish, BackStops
<1>3. ASSUME row'.hw = row.hw PROVE HighRead'
  BY <1>2, <1>3 DEF HighRead
<1>4. CASE UNCHANGED row BY <1>3, <1>4
<1>5. CASE CrawlAdvance(w)
  <2>1. crawl[w].phase = "fetched" /\ UNCHANGED fetched
    BY <1>5 DEF CrawlAdvance
  <2> DEFINE s == Updated(crawl[w].low, Mark(crawl[w]), crawl[w].start)
  <2>2. row' = s \/ row' = row
    BY <1>5 DEF CrawlAdvance, Writes
  <2>3. s.hw = row.hw \/ s.hw \in fetched BY <2>1, AdvanceRead
  <2> HIDE DEF s
  <2>4. row'.hw = row.hw \/ row'.hw \in fetched' BY <2>1, <2>2, <2>3
  <2> QED BY <1>3, <2>4 DEF HighRead
<1>6. CASE CrawlPlan(w)
  <2>1. \/ UNCHANGED row
        \/ Writes(Updated(ReportedLow, 0, Start(crawl[w].hw, ReportedLow)))
    BY <1>6 DEF CrawlPlan
  <2> QED BY <1>3, <2>1, UpdatedQuietly
<1>7. CASE BackPlan(w) \/ BackFinish(w)
  <2>1. row' = row \/ row' = MarkDone \/ \E m : row' = [row EXCEPT !.back = m]
    BY <1>7 DEF BackPlan, BackFinish, Writes
  <2>2. row'.hw = row.hw BY <1>1, <2>1 DEF MarkDone, Row
  <2> QED BY <1>3, <2>2
<1>8. CASE \/ CrawlChoose(w) \/ CrawlFetch(w) \/ CrawlRecord(w) \/ CrawlStops(w)
           \/ BackChoose(w) \/ BackFetch(w) \/ BackRecord(w) \/ BackStops(w)
  BY <1>4, <1>8 DEF CrawlChoose, CrawlFetch, CrawlRecord, CrawlStops, BackChoose, BackFetch,
     BackRecord, BackStops
<1> QED BY <1>5, <1>6, <1>7, <1>8 DEF CrawlStep, BackStep

(* A reset while no pass runs.                                              *)
LEMMA ResetSound ==
    ASSUME Tended, TypeOK, SlowKnown, HoleInv, HighRead, Rescan \/ RewalkHistory
    PROVE  /\ HoleInv' /\ HighRead'
           /\ row'.done = FALSE /\ row'.slow = row.slow /\ row'.exists = row.exists
           /\ Quiet /\ UNCHANGED <<low, back>>
<1>1. /\ Quiet /\ UNCHANGED <<low, crawl, back>> /\ Adopted # {}
      /\ row.exists
  BY DEF Tended, Rescan, RewalkHistory, MayReset
<1>2. low \in Int /\ row \in Row /\ row.hw \in Nat /\ row.slow \in Nat /\ row.slow >= 1
  BY <1>1, TypeOKUnfolded, CrawlNumbers DEF Article, Row, Mark0, SlowKnown
<1>3. row.hw > 0 BY <1>1 DEF HoleInv, MarksSound
<1>4. \A w \in Worker : back[w].phase = "idle" /\ crawl[w].phase = "idle"
  BY <1>1 DEF Quiet
<1>5. ASSUME NEW w \in Worker
      PROVE  /\ BackSound(back'[w], row', low', fetched')
             /\ CrawlSound(crawl'[w], row', low', fetched')
  BY <1>1, <1>4 DEF BackSound, CrawlSound, Busy
<1>6. CASE Rescan
  <2>1. /\ row' = [row EXCEPT !.back = Max({row.hw - 1, row.slow}), !.done = FALSE]
        /\ fetched' = fetched \ ((1..(row.hw - 1)) \ InHand)
        /\ "rescan" \in Resets /\ resets' = resets \cup {"rescan"}
    BY <1>6 DEF Rescan, Rescanned, Forget, MayReset
  <2>2. PICK k \in Int : k = row.hw - 1 BY <1>2
  <2>3. Max({k, row.slow}) \in {k, row.slow} /\ k <= Max({k, row.slow})
        /\ row.slow <= Max({k, row.slow})
    <3>1. k \in Int /\ row.slow \in Int BY <1>2
    <3> QED BY <3>1, MaxOfTwo
  <2>4. PICK m \in Nat : m = Max({row.hw - 1, row.slow}) /\ m >= row.hw - 1 /\ m >= 1
    BY <1>2, <2>2, <2>3
  <2>5. row'.hw = row.hw /\ row'.back = m /\ row'.done = FALSE /\ row'.slow = row.slow
        /\ row'.exists = row.exists
    BY <1>2, <2>1, <2>4 DEF Row
  <2>6. \A a : a \in fetched /\ a = row.hw => a \in fetched'
    BY <1>2, <2>1
  <2>7. "history" \notin resets
    BY <1>6 DEF Rescan, MayReset
  <2>8. HighRead' BY <1>1, <2>5, <2>6, <2>7 DEF HighRead
  <2>9. HoleFree(row'.back, row'.hw, low', fetched')
    <3> SUFFICES ASSUME NEW a \in (m + 1)..row.hw, a >= low PROVE a \in fetched'
      BY <1>1, <2>5 DEF HoleFree
    <3>1. a = row.hw BY <1>2, <2>4
    <3>2. a \in fetched BY <1>2, <1>3, <2>7, <3>1 DEF HighRead
    <3> QED BY <2>6, <3>1, <3>2
  <2>10. MarksSound(row', low', fetched') BY <1>3, <2>5, <2>9 DEF MarksSound
  <2> QED BY <1>1, <1>5, <2>5, <2>8, <2>10 DEF HoleInv
<1>7. CASE RewalkHistory
  <2>1. /\ row' = [row EXCEPT !.back = row.hw, !.done = FALSE]
        /\ resets' = resets \cup {"history"}
    BY <1>7 DEF RewalkHistory, Rewalked, MayReset
  <2>2. row'.hw = row.hw /\ row'.back = row.hw /\ row'.done = FALSE /\ row'.slow = row.slow
        /\ row'.exists = row.exists
    BY <1>2, <2>1 DEF Row
  <2>3. HighRead' BY <2>1 DEF HighRead
  <2>4. HoleFree(row'.back, row'.hw, low', fetched')
    BY <1>2, <2>2 DEF HoleFree
  <2>5. MarksSound(row', low', fetched') BY <1>3, <2>2, <2>4 DEF MarksSound
  <2> QED BY <1>1, <1>5, <2>2, <2>3, <2>5 DEF HoleInv
<1> QED BY <1>6, <1>7

-----------------------------------------------------------------------------
(* Done is sound.  What a backfill pass has in hand or has yet to plan is   *)
(* older than what it took; once it reaches the horizon, or no gap is left, *)
(* everything up to the high watermark has been read, and what the crawl    *)
(* adds above is read as it is added.                                       *)
DoneRead(hw, lo, F) == \A a \in 1..hw : a >= lo /\ a >= Horizon => a \in F

NewestFirst(p, F) == \A a \in p.slow..p.back :
    a \in F \/ a \in Span(p.todo) \/ \A b \in p.todo : a < b[1]

Walks(p, lo, F) ==
    /\ p.phase # "idle" => p.slow <= lo
    /\ p.phase = "planned" => NewestFirst(p, F) /\ \A b \in p.todo : b[1] <= b[2]
    /\ p.phase = "fetched" /\ p.horizon =>
          \A a \in p.slow..p.back : a >= lo /\ a >= Horizon => a \in F

DoneInv ==
    /\ row.exists => row.slow <= low
    /\ row.done => row.back # Null /\ DoneRead(row.hw, low, fetched)
    /\ \A w \in Worker : Walks(back[w], low, fetched)

LEMMA DoneReadGrows ==
    ASSUME NEW hw \in Nat, NEW lo \in Int, NEW hi \in Int, lo <= hi, NEW F, NEW G,
           F \subseteq G, DoneRead(hw, lo, F)
    PROVE  DoneRead(hw, hi, G)
<1> SUFFICES ASSUME NEW a \in 1..hw, a >= hi, a >= Horizon PROVE a \in G
  BY DEF DoneRead
<1>1. a \in Int /\ a >= lo OBVIOUS
<1> QED BY <1>1 DEF DoneRead

LEMMA WalksOn ==
    ASSUME NEW p \in BackPass, NEW lo \in Int, NEW hi \in Int, lo <= hi, NEW F, NEW G,
           F \subseteq G, Walks(p, lo, F)
    PROVE  Walks(p, hi, G)
<1>1. p.slow \in Int /\ p.back \in Int BY CrawlNumbers DEF BackPass, Mark0
<1>2. p.phase # "idle" => p.slow <= hi BY <1>1 DEF Walks
<1>3. p.phase = "planned" => NewestFirst(p, G) BY DEF Walks, NewestFirst
<1>4. ASSUME p.phase = "fetched", p.horizon, NEW a \in p.slow..p.back, a >= hi, a >= Horizon
      PROVE  a \in G
  <2>1. a >= lo BY <1>1, <1>4
  <2> QED BY <1>4, <2>1 DEF Walks
<1> QED BY <1>2, <1>3, <1>4 DEF Walks

LEMMA DoneStep ==
    ASSUME TypeOK, DoneInv, low' \in Int, low <= low', fetched \subseteq fetched',
           row'.exists => row'.slow <= low',
           row'.done => row'.back # Null /\ DoneRead(row'.hw, low', fetched'),
           \A w \in Worker : back'[w] = back[w] \/ Walks(back'[w], low', fetched')
    PROVE  DoneInv'
<1>1. low \in Int /\ back \in [Worker -> BackPass]
  BY TypeOKUnfolded, CrawlNumbers DEF Article
<1>2. ASSUME NEW w \in Worker PROVE Walks(back'[w], low', fetched')
  <2>1. CASE back'[w] = back[w]
    <3>1. back[w] \in BackPass /\ Walks(back[w], low, fetched) BY <1>1 DEF DoneInv
    <3>2. Walks(back[w], low', fetched') BY <1>1, <3>1, WalksOn
    <3> QED BY <2>1, <3>2
  <2> QED BY <2>1
<1> QED BY <1>2 DEF DoneInv

(* A row whose marks and flag stay, or whose flag is cleared.               *)
LEMMA SameDone ==
    ASSUME TypeOK, DoneInv, low' \in Int, low <= low', fetched \subseteq fetched',
           row'.hw = row.hw, row'.back = row.back, row'.done => row.done,
           row'.exists => row'.slow <= low',
           \A w \in Worker : back'[w] = back[w] \/ Walks(back'[w], low', fetched')
    PROVE  DoneInv'
<1>1. low \in Int /\ row.hw \in Nat
  BY TypeOKUnfolded, CrawlNumbers DEF Article, Row, Mark0
<1>2. row.done => DoneRead(row.hw, low', fetched')
  BY <1>1, DoneReadGrows DEF DoneInv
<1>3. row'.done => row'.back # Null /\ DoneRead(row'.hw, low', fetched')
  BY <1>2 DEF DoneInv
<1> QED BY <1>3, DoneStep

LEMMA CrawlStepDone ==
    ASSUME TypeOK, SlowKnown, HoleInv, NoSecondFirstPass, Leads = {"deep"}, DoneInv,
           NEW w \in Worker, CrawlStep(w)
    PROVE  DoneInv'
<1>1. low \in Int /\ row \in Row /\ row.hw \in Nat /\ low = ReportedLow
  BY TypeOKUnfolded, CrawlNumbers DEF Article, Row, Mark0, ReportedLow, TypeOK
<1>2. UNCHANGED <<low, back>> /\ fetched \subseteq fetched'
  BY DEF CrawlStep, CrawlChoose, CrawlPlan, CrawlFetch, CrawlRecord, CrawlAdvance, CrawlStops
<1>3. CASE UNCHANGED row
  BY <1>1, <1>2, <1>3, SameDone DEF DoneInv
<1>4. CASE CrawlPlan(w)
  <2>1. PICK seed : seed = Start(crawl[w].hw, ReportedLow) OBVIOUS
  <2>2. UNCHANGED row \/ Writes(Updated(low, 0, seed))
    BY <1>1, <1>4, <2>1 DEF CrawlPlan
  <2>3. CASE row' = Updated(low, 0, seed)
    <3>1. row'.hw = row.hw /\ row'.back = row.back BY <2>3, UpdatedQuietly DEF Writes
    <3>2. row'.slow = low /\ (row'.done => row.done) BY <2>3 DEF Updated
    <3> QED BY <1>1, <1>2, <3>1, <3>2, SameDone
  <2> QED BY <1>3, <2>2, <2>3 DEF Writes
<1>5. CASE CrawlAdvance(w)
  <2> DEFINE s == Updated(crawl[w].low, Mark(crawl[w]), crawl[w].start)
  <2>1. crawl[w].phase = "fetched" /\ UNCHANGED fetched /\ (row' = s \/ row' = row)
    BY <1>5 DEF CrawlAdvance, Writes
  <2>2. s.slow = crawl[w].low /\ (s.done => row.done)
        /\ (row.back # Null => s.back = row.back)
    BY DEF Updated
  <2>3. row.hw # 0 => HoleFree(row.hw, s.hw, low, fetched)
    BY <2>1, AdvanceSound
  <2>4. crawl[w].low <= low
    BY <2>1 DEF HoleInv, CrawlSound, Busy
  <2> HIDE DEF s
  <2>5. CASE row' = s
    <3>1. ASSUME row'.done
          PROVE  row'.back # Null /\ DoneRead(row'.hw, low', fetched')
      <4>1. row.done /\ row.back # Null /\ DoneRead(row.hw, low, fetched)
        BY <2>2, <2>5, <3>1 DEF DoneInv
      <4>2. row.hw # 0 BY <4>1, <1>1 DEF HoleInv, MarksSound
      <4>3. HoleFree(row.hw, s.hw, low, fetched) BY <2>3, <4>2
      <4>4. ASSUME NEW a \in 1..s.hw, a >= low, a >= Horizon PROVE a \in fetched
        <5>1. CASE a <= row.hw BY <1>1, <4>1, <4>4, <5>1 DEF DoneRead
        <5>2. CASE a > row.hw BY <1>1, <4>3, <4>4, <5>2 DEF HoleFree
        <5> QED BY <1>1, <5>1, <5>2
      <4> QED BY <1>2, <2>1, <2>2, <2>5, <4>1, <4>4 DEF DoneRead
    <3> QED BY <1>1, <1>2, <2>2, <2>4, <2>5, <3>1, DoneStep
  <2> QED BY <1>3, <2>1, <2>5
<1> QED BY <1>3, <1>4, <1>5 DEF CrawlStep, CrawlChoose, CrawlFetch, CrawlRecord, CrawlStops

(* The plan takes the newest batches of the gaps.                           *)
LEMMA PlanNewestFirst ==
    ASSUME TypeOK, SlowKnown, CoverageHonest, NEW p \in BackPass, p.slow \in Article,
           NEW B, B \subseteq GapBatches(Gaps(p.slow, p.back)),
           \A b \in B, c \in GapBatches(Gaps(p.slow, p.back)) \ B : b[1] > c[1]
    PROVE  /\ \A a \in p.slow..p.back :
                 a \in fetched \/ a \in Span(B) \/ \A b \in B : a < b[1]
           /\ \A b \in B : b[1] <= b[2]
<1> DEFINE G == Gaps(p.slow, p.back)
<1>1. G \in SUBSET Article BY GapsType DEF BackPass
<1>2. \A b \in B : b[1] <= b[2]
  <2> HIDE DEF G
  <2> QED BY <1>1, ABatch DEF G
<1>3. ASSUME NEW a \in p.slow..p.back, a \notin fetched, a \notin Span(B), NEW b \in B
      PROVE  a < b[1]
  <2>1. a \in G BY <1>3 DEF Gaps, CoverageHonest
  <2>2. b \in GapBatches(G) OBVIOUS
  <2>3. \A c \in GapBatches(G) \ B : b[1] > c[1] OBVIOUS
  <2> HIDE DEF G
  <2>4. PICK c \in GapBatches(G) : c[1] <= a /\ a <= c[2] BY <1>1, <2>1, GapCover
  <2>5. a \in Nat BY <1>1, <2>1, CrawlNumbers DEF Article
  <2>6. c[1] \in Nat /\ c[2] \in Nat BY <1>1, ABatch
  <2>7. c \notin B
    <3>1. c \in B => a \in Span(B) BY <2>4, <2>5, <2>6 DEF Span
    <3> QED BY <1>3, <3>1
  <2>8. b[1] > c[1] BY <2>3, <2>7
  <2>9. b[1] > c[2] BY <1>1, <2>2, <2>8, GapApart
  <2>10. b[1] \in Nat BY <1>1, <2>2, ABatch
  <2> QED BY <2>4, <2>5, <2>6, <2>9, <2>10
<1> QED BY <1>2, <1>3

(* What makes a pass set the flag.                                          *)
LEMMA MarkDoneSound ==
    ASSUME TypeOK, SlowKnown, HoleInv, CoverageHonest, DoneInv,
           NEW w \in Worker, back[w].phase # "idle",
           \/ Gaps(back[w].slow, back[w].back) = {}
           \/ back[w].phase = "fetched" /\ back[w].horizon
    PROVE  row.back # Null /\ DoneRead(row.hw, low, fetched)
<1> DEFINE p == back[w]
<1>1. p \in BackPass /\ row \in Row /\ p.slow \in Nat /\ p.back \in Nat /\ low \in Nat
      /\ row.hw \in Nat
  <2>1. p \in BackPass /\ row \in Row BY TypeOKUnfolded
  <2> QED BY <2>1, CrawlNumbers DEF BackPass, Row, Mark0, TypeOK, Article
<1>2. p.slow <= low BY DEF DoneInv, Walks
<1>3. row.back # Null /\ HoleFree(p.back, row.hw, low, fetched)
  BY DEF HoleInv, BackSound
<1>4. ASSUME NEW a \in p.slow..p.back, a >= low, a >= Horizon PROVE a \in fetched
  <2>1. CASE Gaps(p.slow, p.back) = {}
    BY <1>4, <2>1 DEF Gaps, CoverageHonest
  <2>2. CASE p.phase = "fetched" /\ p.horizon
    BY <1>4, <2>2 DEF DoneInv, Walks
  <2> QED BY <2>1, <2>2
<1>5. ASSUME NEW a \in 1..row.hw, a >= low, a >= Horizon PROVE a \in fetched
  <2>1. CASE a <= p.back
    <3>1. a \in p.slow..p.back BY <1>1, <1>2, <1>5, <2>1
    <3> QED BY <1>4, <1>5, <3>1
  <2>2. CASE a > p.back
    BY <1>1, <1>3, <1>5, <2>2 DEF HoleFree
  <2> QED BY <1>1, <2>1, <2>2
<1> QED BY <1>3, <1>5 DEF DoneRead

LEMMA BackStepDone ==
    ASSUME TypeOK, SlowKnown, HoleInv, CoverageHonest, DoneInv, NEW w \in Worker, BackStep(w)
    PROVE  DoneInv'
<1>1. /\ low \in Int /\ row \in Row /\ row.hw \in Nat
      /\ back \in [Worker -> BackPass] /\ back[w] \in BackPass
  BY TypeOKUnfolded, CrawlNumbers DEF Article, Row, Mark0
<1>2. UNCHANGED low /\ fetched \subseteq fetched'
  BY DEF BackStep, BackChoose, BackPlan, BackFetch, BackRecord, BackFinish, BackStops
<1>3. row.exists => row.slow <= low BY DEF DoneInv
<1>4. \A lo, F : Walks(NoBack, lo, F) BY DEF Walks, NoBack
<1>5. Walks(back[w], low, fetched) BY DEF DoneInv
<1>6. ASSUME row' = MarkDone, back[w].phase # "idle",
             \/ Gaps(back[w].slow, back[w].back) = {}
             \/ back[w].phase = "fetched" /\ back[w].horizon,
             back' = [back EXCEPT ![w] = NoBack]
      PROVE  DoneInv'
  <2>1. row'.hw = row.hw /\ row'.back = row.back /\ row'.slow = row.slow
        /\ row'.exists = row.exists
    BY <1>1, <1>6 DEF MarkDone, Row
  <2>2. row.back # Null /\ DoneRead(row.hw, low, fetched)
    BY <1>6, MarkDoneSound
  <2>3. DoneRead(row.hw, low', fetched') BY <1>1, <1>2, <2>2, DoneReadGrows
  <2>4. \A v \in Worker : back'[v] = back[v] \/ Walks(back'[v], low', fetched')
    BY <1>1, <1>4, <1>6
  <2> QED BY <1>1, <1>2, <1>3, <2>1, <2>2, <2>3, <2>4, DoneStep
<1>7. ASSUME UNCHANGED row, NEW p, back' = [back EXCEPT ![w] = p], Walks(p, low, fetched')
      PROVE  DoneInv'
  <2>1. \A v \in Worker : back'[v] = back[v] \/ Walks(back'[v], low', fetched')
    BY <1>1, <1>2, <1>7
  <2> QED BY <1>1, <1>2, <1>3, <1>7, <2>1, SameDone
<1>8. CASE BackChoose(w)
  <2> DEFINE p == [NoBack EXCEPT !.phase = "chosen", !.back = row.back,
                                 !.slow = row.slow]
  <2>1. p.phase = "chosen" /\ p.slow = row.slow BY DEF NoBack
  <2>2. row.exists /\ back' = [back EXCEPT ![w] = p] /\ UNCHANGED row
    BY <1>8 DEF BackChoose, NeedsBackfill
  <2> HIDE DEF p
  <2>3. Walks(p, low, fetched') BY <1>3, <2>1, <2>2 DEF Walks
  <2> QED BY <1>7, <2>2, <2>3
<1>9. CASE BackPlan(w)
  <2> DEFINE all == GapBatches(Gaps(back[w].slow, back[w].back))
  <2>1. back[w].phase = "chosen" /\ back[w].slow \in Article /\ UNCHANGED fetched
    BY <1>9 DEF BackPlan, SlowKnown
  <2>2. \/ /\ \E B \in SUBSET all :
                /\ \A b \in B, c \in all \ B : b[1] > c[1]
                /\ back' = [back EXCEPT ![w].phase = "planned", ![w].todo = B]
           /\ UNCHANGED row
        \/ /\ all = {} /\ Writes(MarkDone)
           /\ back' = [back EXCEPT ![w] = NoBack]
    BY <1>9 DEF BackPlan
  <2>3. CASE /\ \E B \in SUBSET all :
                /\ \A b \in B, c \in all \ B : b[1] > c[1]
                /\ back' = [back EXCEPT ![w].phase = "planned", ![w].todo = B]
             /\ UNCHANGED row
    <3>1. PICK B \in SUBSET all :
                /\ \A b \in B, c \in all \ B : b[1] > c[1]
                /\ back' = [back EXCEPT ![w].phase = "planned", ![w].todo = B]
      BY <2>3
    <3> DEFINE p == [back[w] EXCEPT !.phase = "planned", !.todo = B]
    <3>2. back' = [back EXCEPT ![w] = p] BY <1>1, <3>1
    <3>3. p.phase = "planned" /\ p.slow = back[w].slow /\ p.back = back[w].back
          /\ p.todo = B
      BY <1>1 DEF BackPass
    <3>4. /\ \A a \in back[w].slow..back[w].back :
                 a \in fetched \/ a \in Span(B) \/ \A b \in B : a < b[1]
          /\ \A b \in B : b[1] <= b[2]
      <4>1. B \subseteq GapBatches(Gaps(back[w].slow, back[w].back)) OBVIOUS
      <4>2. \A b \in B, c \in GapBatches(Gaps(back[w].slow, back[w].back)) \ B : b[1] > c[1]
        BY <3>1
      <4> HIDE DEF all
      <4> QED BY <1>1, <2>1, <4>1, <4>2, PlanNewestFirst
    <3>5. back[w].slow <= low BY <1>5, <2>1 DEF Walks
    <3> HIDE DEF p
    <3>6. Walks(p, low, fetched')
      BY <2>1, <3>3, <3>4, <3>5 DEF Walks, NewestFirst
    <3> QED BY <1>7, <2>3, <3>2, <3>6
  <2>4. CASE /\ all = {} /\ Writes(MarkDone)
             /\ back' = [back EXCEPT ![w] = NoBack]
    <3>1. Gaps(back[w].slow, back[w].back) = {}
      <4>1. Gaps(back[w].slow, back[w].back) \in SUBSET Article
        BY <1>1, <2>1, GapsType DEF BackPass
      <4> QED BY <2>4, <4>1, GapCover
    <3>2. CASE row' = MarkDone BY <1>6, <2>1, <2>4, <3>1, <3>2
    <3>3. CASE row' = row BY <1>4, <1>7, <2>4, <3>3
    <3> QED BY <2>4, <3>2, <3>3 DEF Writes
  <2> QED BY <2>2, <2>3, <2>4
<1>10. CASE BackFetch(w)
  <2>1. PICK ok \in SUBSET back[w].todo :
             /\ fetched' = fetched \cup Span(ok)
             /\ back' = [back EXCEPT ![w].phase = "fetched", ![w].todo = ok,
                            ![w].horizon = HorizonReached(back[w].todo, ok)]
    BY <1>10 DEF BackFetch
  <2>2. back[w].phase = "planned" /\ UNCHANGED row BY <1>10 DEF BackFetch
  <2> DEFINE h == HorizonReached(back[w].todo, ok)
             p == [back[w] EXCEPT !.phase = "fetched", !.todo = ok, !.horizon = h]
  <2>3. back' = [back EXCEPT ![w] = p] BY <1>1, <2>1
  <2>4. p.phase = "fetched" /\ p.slow = back[w].slow /\ p.back = back[w].back
        /\ p.horizon = h
    BY <1>1 DEF BackPass
  <2>5. back[w].slow <= low /\ NewestFirst(back[w], fetched)
        /\ \A b \in back[w].todo : b[1] <= b[2]
    BY <1>5, <2>2 DEF Walks
  <2>6. ASSUME h, NEW a \in back[w].slow..back[w].back, a >= low, a >= Horizon
        PROVE  a \in fetched'
    <3>1. ok = back[w].todo /\ \E b \in ok : b[2] < Horizon /\ b[2] >= low
      BY <2>6 DEF HorizonReached
    <3>2. PICK b \in back[w].todo : b[2] < Horizon BY <3>1
    <3>3. b[1] \in Int /\ b[2] \in Int /\ Horizon \in Int /\ b[1] <= b[2]
      <4>1. b \in Article \X Article BY <1>1 DEF BackPass
      <4> QED BY <4>1, <2>5, CrawlNumbers DEF Article
    <3>4. ~(a < b[1]) BY <2>6, <3>2, <3>3
    <3>5. a \in fetched \/ a \in Span(back[w].todo) BY <2>5, <3>4 DEF NewestFirst
    <3> QED BY <2>1, <3>1, <3>5
  <2> HIDE DEF p, h
  <2>7. Walks(p, low, fetched') BY <2>4, <2>5, <2>6 DEF Walks
  <2> QED BY <1>7, <2>2, <2>3, <2>7
<1>11. CASE BackRecord(w)
  <2>1. PICK b \in back[w].todo : back' = [back EXCEPT ![w].todo = @ \ {b}]
    BY <1>11 DEF BackRecord
  <2>2. back[w].phase = "fetched" /\ UNCHANGED <<row, fetched>> BY <1>11 DEF BackRecord
  <2> DEFINE p == [back[w] EXCEPT !.todo = @ \ {b}]
  <2>3. back' = [back EXCEPT ![w] = p] BY <1>1, <2>1
  <2>4. p.phase = back[w].phase /\ p.slow = back[w].slow /\ p.back = back[w].back
        /\ p.horizon = back[w].horizon
    BY <1>1 DEF BackPass
  <2> HIDE DEF p
  <2>5. Walks(p, low, fetched') BY <1>5, <2>2, <2>4 DEF Walks
  <2> QED BY <1>7, <2>2, <2>3, <2>5
<1>12. CASE BackStops(w)
  <2>1. UNCHANGED row /\ back' = [back EXCEPT ![w] = NoBack]
    BY <1>12 DEF BackStops, EndBack
  <2> QED BY <1>4, <1>7, <2>1
<1>13. CASE BackFinish(w)
  <2> DEFINE left == Gaps(back[w].slow, back[w].back)
  <2>1. back[w].phase = "fetched" /\ back' = [back EXCEPT ![w] = NoBack]
        /\ UNCHANGED fetched
    BY <1>13 DEF BackFinish, EndBack
  <2>2. \/ row' = row
        \/ row' = MarkDone /\ (back[w].horizon \/ left = {})
        \/ left # {} /\ row' = [row EXCEPT !.back = Max(left)]
    BY <1>13 DEF BackFinish, Writes
  <2>3. CASE row' = row BY <1>4, <1>7, <2>1, <2>3
  <2>4. CASE row' = MarkDone /\ (back[w].horizon \/ left = {})
    BY <1>6, <2>1, <2>4
  <2>5. CASE left # {} /\ row' = [row EXCEPT !.back = Max(left)]
    <3>1. left \in SUBSET (0..MaxArticle) /\ left \subseteq Article
      <4>1. back[w].slow \in Article BY <2>1 DEF SlowKnown
      <4>2. left \subseteq Article BY <1>1, <4>1, GapsType DEF BackPass
      <4> QED BY <4>2, CrawlNumbers DEF Article
    <3>2. Max(left) \in left
      <4> HIDE DEF left
      <4> QED BY <2>5, <3>1, MaxOfBounded, CrawlNumbers
    <3>3. PICK m \in Article : m = Max(left) BY <3>1, <3>2
    <3>4. row' = [row EXCEPT !.back = m] BY <2>5, <3>3
    <3>5. row'.hw = row.hw /\ row'.back = m /\ row'.done = row.done
          /\ row'.slow = row.slow /\ row'.exists = row.exists
      BY <1>1, <3>4 DEF Row
    <3>6. m # Null BY CrawlNumbers DEF Article, Null
    <3>7. row.done => DoneRead(row.hw, low, fetched) BY DEF DoneInv
    <3>8. \A v \in Worker : back'[v] = back[v] \/ Walks(back'[v], low', fetched')
      BY <1>1, <1>4, <2>1
    <3> HIDE DEF left
    <3> QED BY <1>1, <1>2, <1>3, <2>1, <3>5, <3>6, <3>7, <3>8, DoneStep
  <2> HIDE DEF left
  <2> QED BY <2>2, <2>3, <2>4, <2>5
<1> QED BY <1>8, <1>9, <1>10, <1>11, <1>12, <1>13 DEF BackStep

LEMMA InitDone == Init => DoneInv
<1> SUFFICES ASSUME Init PROVE DoneInv OBVIOUS
<1>1. \A w \in Worker : Walks(back[w], low, fetched)
  BY DEF Init, Walks, NoBack
<1>2. CASE row = NoRow BY <1>1, <1>2 DEF DoneInv, NoRow
<1>3. CASE \E a \in Adopted :
             /\ row = [exists |-> TRUE, hw |-> a[1], back |-> a[2], slow |-> low,
                       done |-> a[2] # Null /\ a[2] <= low]
             /\ fetched = (IF a[2] = Null THEN a[1] ELSE a[2])..a[1]
  <2>1. PICK a \in Adopted :
             /\ row = [exists |-> TRUE, hw |-> a[1], back |-> a[2], slow |-> low,
                       done |-> a[2] # Null /\ a[2] <= low]
             /\ fetched = (IF a[2] = Null THEN a[1] ELSE a[2])..a[1]
    BY <1>3
  <2>2. /\ row.hw = a[1] /\ row.back = a[2] /\ row.slow = low
        /\ row.done = (a[2] # Null /\ a[2] <= low)
    BY <2>1
  <2>3. a[1] \in Nat /\ a[2] \in Nat /\ low = 1
    BY CrawlModes, CrawlNumbers DEF Init
  <2>4. row.done => row.back # Null /\ DoneRead(row.hw, low, fetched)
    <3> SUFFICES ASSUME row.done
                 PROVE  row.back # Null /\ DoneRead(row.hw, low, fetched)
      OBVIOUS
    <3>1. a[2] # Null /\ a[2] <= low BY <2>2
    <3>2. a[2] = 1 BY <2>3, <3>1 DEF Null
    <3>3. fetched = 1..a[1] BY <2>1, <3>2 DEF Null
    <3> QED BY <2>2, <3>1, <3>3 DEF DoneRead
  <2> QED BY <1>1, <2>2, <2>3, <2>4 DEF DoneInv
<1>4. \/ row = NoRow
      \/ \E a \in Adopted :
             /\ row = [exists |-> TRUE, hw |-> a[1], back |-> a[2], slow |-> low,
                       done |-> a[2] # Null /\ a[2] <= low]
             /\ fetched = (IF a[2] = Null THEN a[1] ELSE a[2])..a[1]
  BY DEF Init
<1> QED BY <1>2, <1>3, <1>4

(* Time, on the server's side.                                              *)
LEMMA ServerSound ==
    ASSUME TypeOK, HoleInv, HighRead, DoneInv, Post \/ Expire \/ NewLead
    PROVE  HoleInv' /\ HighRead' /\ DoneInv'
<1>1. UNCHANGED <<row, fetched, crawl, back, resets>> /\ low' \in Int /\ low <= low'
      /\ low \in Int
  BY CrawlNumbers DEF Post, Expire, NewLead, TypeOK, Article
<1>2. HoleInv' BY <1>1, QuietStep
<1>3. row \in Row /\ row.hw \in Nat /\ row.slow \in Nat
  BY TypeOKUnfolded, CrawlNumbers DEF Row, Mark0
<1>4. HighRead' BY <1>1, <1>3 DEF HighRead
<1>5. row.exists => row.slow <= low' BY <1>1, <1>3 DEF DoneInv
<1>6. DoneInv' BY <1>1, <1>5, SameDone
<1> QED BY <1>2, <1>4, <1>6

Sound == HoleInv /\ HighRead /\ DoneInv

LEMMA NextSound ==
    ASSUME Tended, Leads = {"deep"}, NoSecondFirstPass
    PROVE  TypeOK /\ SlowKnown /\ Sound /\ CoverageHonest /\ [Next]_vars => Sound'
<1> SUFFICES ASSUME TypeOK, SlowKnown, Sound, CoverageHonest, [Next]_vars
             PROVE  Sound'
  OBVIOUS
<1> USE DEF Sound
<1>1. CASE UNCHANGED vars
  BY <1>1 DEF vars, HoleInv, HighRead, DoneInv
<1>2. CASE Post \/ Expire \/ NewLead
  BY <1>2, ServerSound
<1>3. CASE Rewind
  BY <1>3 DEF Rewind, MayReset, Tended
<1>4. CASE Rescan \/ RewalkHistory
  <2>1. /\ HoleInv' /\ HighRead'
        /\ row'.done = FALSE /\ row'.slow = row.slow /\ row'.exists = row.exists
        /\ Quiet /\ UNCHANGED <<low, back>>
    BY <1>4, ResetSound
  <2>2. \A w \in Worker : back'[w].phase = "idle" BY <2>1 DEF Quiet
  <2>3. \A w \in Worker : Walks(back'[w], low', fetched') BY <2>2 DEF Walks
  <2> QED BY <2>1, <2>3 DEF DoneInv
<1>5. ASSUME NEW w \in Worker, CrawlStep(w) PROVE Sound'
  BY <1>5, CrawlStepSound, StepHighRead, CrawlStepDone
<1>6. ASSUME NEW w \in Worker, BackStep(w) PROVE Sound'
  BY <1>6, BackStepSound, StepHighRead, BackStepDone
<1> QED BY <1>1, <1>2, <1>3, <1>4, <1>5, <1>6 DEF Next

LEMMA SoundForever ==
    ASSUME Tended, Leads = {"deep"}, NoSecondFirstPass
    PROVE  Spec => []Sound
<1>1. Init => Sound BY InitSound, InitHighRead, InitDone DEF Sound
<1>2. TypeOK /\ SlowKnown /\ Sound /\ CoverageHonest /\ [Next]_vars => Sound'
  BY NextSound
<1>3. Spec => []SlowKnown BY KnownForever, PTL
<1>4. Spec => []CoverageHonest BY CoverageIsHonest DEF Tended
<1> QED BY <1>1, <1>2, <1>3, <1>4, TypeCorrect, PTL DEF Spec

(* Nothing between the two watermarks is left unread, for any number of     *)
(* workers, any failure and any takeover of the lease, and when an operator *)
(* asks for the history again while nothing runs: a pass never carries the  *)
(* high watermark over an article it did not fetch, and the backfill never  *)
(* leaves one above its own.  What the hypotheses keep out: a reset under a *)
(* running pass loses what the pass read, an account of shorter retention   *)
(* makes the window jump, and two first passes of a new group race.         *)
THEOREM NothingUnreadBetweenMarks ==
    ASSUME Tended, Leads = {"deep"}, NoSecondFirstPass
    PROVE  Spec => []NoHole
<1>1. Spec => []Sound BY SoundForever
<1>2. Sound => NoHole
  BY DEF Sound, HoleInv, MarksSound, HoleFree, NoHole
<1> QED BY <1>1, <1>2, PTL

(* backfill_done is only set when all history that the server still has and *)
(* the retention asks for was fetched, whatever other passes did meanwhile, *)
(* and stays true of whatever the crawl adds above (recordBackfill,         *)
(* markGroupBackfillDone).                                                  *)
THEOREM DoneIsSound ==
    ASSUME Tended, Leads = {"deep"}, NoSecondFirstPass
    PROVE  Spec => []DoneSound
<1>1. Spec => []Sound BY SoundForever
<1>2. TypeOK /\ Sound => DoneSound
  <2> SUFFICES ASSUME TypeOK, Sound, row.done,
                      NEW a \in Max({low, row.slow, Horizon})..Min({row.back, row.hw})
               PROVE  a \in fetched
    BY DEF DoneSound
  <2>1. /\ low \in Nat /\ row.slow \in Nat /\ row.hw \in Nat /\ row.back \in Nat
        /\ low >= 1 /\ Horizon \in Nat
    <3>1. row \in Row BY TypeOKUnfolded
    <3> QED BY <3>1, CrawlNumbers DEF Row, Mark0, TypeOK, Article
  <2>2. Min({row.back, row.hw}) <= row.hw /\ Min({row.back, row.hw}) \in Int
    <3>1. row.back \in Int /\ row.hw \in Int BY <2>1
    <3>2. Min({row.back, row.hw}) \in {row.back, row.hw} BY <3>1, MinOfTwo
    <3> QED BY <2>1, <3>1, <3>2, MinOfTwo
  <2>3. PICK n \in Nat : low <= n /\ row.slow <= n /\ Horizon <= n
    BY <2>1
  <2>4. LET S == {low, row.slow, Horizon}
        IN  Max(S) \in Nat /\ low <= Max(S) /\ Horizon <= Max(S)
    <3> DEFINE S == {low, row.slow, Horizon}
    <3>1. S \in SUBSET (0..n) /\ S # {} BY <2>1, <2>3
    <3>2. low \in S /\ Horizon \in S OBVIOUS
    <3> HIDE DEF S
    <3>3. Max(S) \in S /\ \A x \in S : x <= Max(S) BY <2>3, <3>1, MaxOfBounded
    <3>4. Max(S) \in Nat
      <4>1. PICK m \in 0..n : m = Max(S) BY <3>1, <3>3
      <4> QED BY <4>1
    <3> QED BY <3>2, <3>3, <3>4 DEF S
  <2>5. a \in 1..row.hw /\ a >= low /\ a >= Horizon
    BY <2>1, <2>2, <2>4
  <2> QED BY <2>5 DEF Sound, DoneInv, DoneRead
<1> QED BY <1>1, <1>2, TypeCorrect, PTL
=============================================================================
