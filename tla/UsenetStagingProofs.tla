------------------------- MODULE UsenetStagingProofs -------------------------
(***************************************************************************)
(* What staging keeps, for every post, window and number of workers.  The   *)
(* types come first, then what one article write, one metadata fold and one *)
(* look at completeness do, then an inductive invariant for each property.  *)
(***************************************************************************)
EXTENDS UsenetStaging, Sums, TLAPS

---------------------------------------------------------------------------
(* Types.                                                                   *)
Phases   == {"idle", "put", "folded", "spanned", "queue", "evict", "strike",
             "clear", "pass"}
BPhases  == {"idle", "doom", "salvage", "drawn", "stale", "demote", "store",
             "salvage-store", "mark", "delete"}
Meta     == [exists : BOOLEAN, files : 0..MaxFile, parts : [File -> 0..MaxParts],
             struck : BOOLEAN, lo : 0..Top, hi : 0..Top, attempts : Nat]
Workers  == [phase : Phases, win : Window \cup {<<0, 0>>}, meta : Meta,
             held : Nat, stale : BOOLEAN, struck : BOOLEAN]
Builders == [phase : BPhases, arts : SUBSET Article, broken : BOOLEAN]
Release  == [arts : SUBSET Article, broken : BOOLEAN]

TypeInv ==
    /\ world \in Worlds /\ done \subseteq Window /\ art \subseteq post
    /\ meta \in Meta /\ idle \in 0..3 /\ metaAge \in 0..3
    /\ ready \in BOOLEAN /\ left \in BOOLEAN
    /\ stager \in [Stager -> Workers] /\ builder \in Builders
    /\ catalogue \subseteq Release
    /\ builder.arts \subseteq post

LEMMA FirstNumbers ==
    ASSUME NEW n \in Nat
    PROVE  IsFiniteSet(1..n) /\ Cardinality(1..n) = n
<1>1. 1 \in Int /\ n \in Int /\ ~(1 > n + 1)
  OBVIOUS
<1>2. IsFiniteSet(1..n) /\ Cardinality(1..n) = IF 1 > n THEN 0 ELSE n - 1 + 1
  BY <1>1, FS_Interval
<1> QED BY <1>2

LEMMA WorldTypes ==
    ASSUME NEW w \in Worlds
    PROVE  /\ w.post \subseteq Article /\ w.stagers \subseteq Stager
           /\ w.clock \in BOOLEAN /\ w.salvage \in BOOLEAN /\ w.junk \in BOOLEAN
BY StagingWorlds DEF World

LEMMA ArticleTypes ==
    ASSUME NEW a \in Article
    PROVE  /\ a.num \in 1..Top /\ a.file \in File /\ a.part \in 0..MaxParts
           /\ a.parts \in 1..MaxParts /\ a.files \in 0..MaxFile
           /\ a.par2 \in BOOLEAN /\ a.merit \in 0..2
BY DEF Article, File

LEMMA Numbers ==
    /\ Batch \in Nat \ {0} /\ Top \in Nat \ {0} /\ MaxFile \in Nat /\ MaxParts \in Nat \ {0}
BY StagingNumbers

(* There are finitely many articles.                                        *)
LEMMA Articles == IsFiniteSet(Article)
<1> DEFINE P1 == (1..Top) \X (0..MaxFile)
           P2 == (0..MaxParts) \X (1..MaxParts)
           P3 == (0..MaxFile) \X BOOLEAN
           P4 == P3 \X (0..2)
           P5 == P1 \X P2
           P  == P5 \X P4
           f  == [x \in P |-> [num |-> x[1][1][1], file |-> x[1][1][2],
                               part |-> x[1][2][1], parts |-> x[1][2][2],
                               files |-> x[2][1][1], par2 |-> x[2][1][2],
                               merit |-> x[2][2]]]
<1>1. IsFiniteSet(1..Top) /\ IsFiniteSet(0..MaxFile) /\ IsFiniteSet(0..MaxParts)
      /\ IsFiniteSet(1..MaxParts) /\ IsFiniteSet(0..2)
  <2>1. /\ 0 \in Int /\ 1 \in Int /\ 2 \in Int /\ Top \in Int /\ MaxFile \in Int
        /\ MaxParts \in Int
    BY Numbers
  <2> QED BY <2>1, FS_Interval
<1>2. IsFiniteSet(BOOLEAN)
  <2>1. IsFiniteSet({TRUE})
    BY FS_Singleton
  <2>2. IsFiniteSet({TRUE} \cup {FALSE})
    BY <2>1, FS_AddElement
  <2>3. BOOLEAN = {TRUE} \cup {FALSE}
    OBVIOUS
  <2> QED BY <2>2, <2>3
<1>3. IsFiniteSet(P1) /\ IsFiniteSet(P2) /\ IsFiniteSet(P3)
  BY <1>1, <1>2, FS_Product
<1>4. IsFiniteSet(P4) /\ IsFiniteSet(P5)
  <2> HIDE DEF P1, P2, P3
  <2> QED BY <1>1, <1>3, FS_Product
<1>5. IsFiniteSet(P)
  <2> HIDE DEF P4, P5
  <2> QED BY <1>4, FS_Product
<1>6. f \in Surjection(P, Article)
  <2>1. f \in [P -> Article]
    BY DEF Article
  <2>2. ASSUME NEW a \in Article PROVE \E x \in P : f[x] = a
    <3> DEFINE x == << <<<<a.num, a.file>>, <<a.part, a.parts>>>>,
                       <<<<a.files, a.par2>>, a.merit>> >>
    <3>1. x \in P
      BY DEF Article
    <3>2. a = [num |-> a.num, file |-> a.file, part |-> a.part, parts |-> a.parts,
               files |-> a.files, par2 |-> a.par2, merit |-> a.merit]
      BY DEF Article
    <3>3. f[x] = a
      BY <3>1, <3>2
    <3> QED BY <3>1, <3>3
  <2> QED BY <2>1, <2>2 DEF Surjection
<1> QED
  <2> HIDE DEF f, P
  <2> QED BY <1>5, <1>6, FS_Surjection

LEMMA SomeArticles ==
    ASSUME NEW A, A \subseteq Article
    PROVE  IsFiniteSet(A) /\ Cardinality(A) \in Nat
<1>1. IsFiniteSet(A)
  BY Articles, FS_Subset
<1> QED BY <1>1, FS_CardinalityType

---------------------------------------------------------------------------
(* The largest and the smallest of a set of numbers.                        *)
LEMMA GreatestOf ==
    ASSUME NEW N \in Nat, NEW S, S \subseteq 0..N, S # {}
    PROVE  \E x \in S : \A y \in S : y <= x
<1> DEFINE T == {N - x : x \in S}
<1>1. T \subseteq Nat /\ T # {}
  OBVIOUS
<1>2. PICK t \in T : \A u \in T : t <= u
  <2> HIDE DEF T
  <2> QED BY <1>1, LeastOf
<1>3. PICK x \in S : t = N - x
  OBVIOUS
<1>4. ASSUME NEW y \in S PROVE y <= x
  <2>1. N - y \in T
    OBVIOUS
  <2>2. N - x <= N - y
    BY <1>2, <1>3, <2>1
  <2> QED BY <2>2
<1> QED BY <1>4

LEMMA MaxIs ==
    ASSUME NEW N \in Nat, NEW S, S \subseteq 0..N, S # {}
    PROVE  /\ Max(S) \in S /\ \A y \in S : y <= Max(S)
<1>1. \E x \in S : \A y \in S : x >= y
  <2>1. PICK x \in S : \A y \in S : y <= x BY GreatestOf
  <2> QED BY <2>1
<1>2. Max(S) \in S /\ \A y \in S : Max(S) >= y
  BY <1>1 DEF Max
<1>3. \A y \in S : y \in Int
  OBVIOUS
<1> QED BY <1>2, <1>3

LEMMA MinIs ==
    ASSUME NEW S, S \subseteq Nat, S # {}
    PROVE  /\ Min(S) \in S /\ \A y \in S : Min(S) <= y
<1>1. \E x \in S : \A y \in S : x <= y
  BY LeastOf
<1> QED BY <1>1 DEF Min

LEMMA MaxOfIs ==
    ASSUME NEW N \in Nat, NEW S, S \subseteq 0..N
    PROVE  /\ MaxOf(S) \in 0..N
           /\ S = {} => MaxOf(S) = 0
           /\ S # {} => MaxOf(S) \in S
           /\ \A y \in S : y <= MaxOf(S)
<1>1. CASE S = {}
  BY <1>1 DEF MaxOf
<1>2. CASE S # {}
  <2>1. Max(S) \in S /\ \A y \in S : y <= Max(S)
    BY <1>2, MaxIs
  <2> QED BY <1>2, <2>1 DEF MaxOf
<1> QED BY <1>1, <1>2

LEMMA MaxOfTwo ==
    ASSUME NEW a \in Int, NEW b \in Int
    PROVE  /\ MaxOf({a, b}) \in Int /\ a <= MaxOf({a, b}) /\ b <= MaxOf({a, b})
           /\ MaxOf({a, b}) = a \/ MaxOf({a, b}) = b
<1>1. \E x \in {a, b} : \A y \in {a, b} : x >= y
  <2>1. CASE a <= b
    <3>1. b \in {a, b} /\ \A y \in {a, b} : b >= y BY <2>1
    <3> QED BY <3>1
  <2>2. CASE b <= a
    <3>1. a \in {a, b} /\ \A y \in {a, b} : a >= y BY <2>2
    <3> QED BY <3>1
  <2> QED BY <2>1, <2>2
<1>2. Max({a, b}) \in {a, b} /\ \A y \in {a, b} : Max({a, b}) >= y
  BY <1>1 DEF Max
<1>3. MaxOf({a, b}) = Max({a, b})
  BY DEF MaxOf
<1> QED BY <1>2, <1>3
---------------------------------------------------------------------------
(* One write, one fold, one span.                                           *)
LEMMA NoRecord == NoMeta \in Meta /\ NoStager \in Workers /\ NoBuilder \in Builders
<1>1. NoMeta \in Meta
  BY Numbers DEF NoMeta, Meta
<1>2. NoStager \in Workers
  BY <1>1 DEF NoStager, Workers, Phases
<1> QED BY <1>1, <1>2 DEF NoBuilder, Builders, BPhases

LEMMA InPost ==
    ASSUME NEW w, world \in Worlds
    PROVE  In(w) \subseteq post /\ In(w) \subseteq Article /\ post \subseteq Article
BY WorldTypes DEF In, post

(* Of the articles of one place the best is there after the write, as merit *)
(* has three values.                                                        *)
LEMMA PutKeeps ==
    ASSUME NEW A, A \subseteq Article, NEW B, B \subseteq Article
    PROVE  /\ Put(A, B) \subseteq A \cup B
           /\ \A a \in A \cup B : \E h \in Put(A, B) : SamePlace(a, h) /\ ~Beats(a, h)
<1> DEFINE S == A \cup B
<1>1. \A a \in S : a.merit \in 0..2
  BY ArticleTypes
<1>2. Put(A, B) = {a \in S : \A b \in S : SamePlace(a, b) => ~Beats(b, a)}
  BY DEF Put
<1>3. ASSUME NEW a \in S
      PROVE  \E h \in Put(A, B) : SamePlace(a, h) /\ ~Beats(a, h)
  <2>1. \E h \in S : /\ SamePlace(a, h) /\ h.merit >= a.merit
                     /\ \A b \in S : SamePlace(h, b) => ~(b.merit > h.merit)
    <3>1. CASE \E h \in S : SamePlace(a, h) /\ h.merit = 2
      BY <1>1, <3>1 DEF SamePlace
    <3>2. CASE /\ ~ \E h \in S : SamePlace(a, h) /\ h.merit = 2
               /\ \E h \in S : SamePlace(a, h) /\ h.merit = 1
      BY <1>1, <3>2 DEF SamePlace
    <3>3. CASE ~ \E h \in S : SamePlace(a, h) /\ h.merit \in {1, 2}
      BY <1>1, <3>3 DEF SamePlace
    <3> QED BY <3>1, <3>2, <3>3
  <2>2. PICK h \in S : /\ SamePlace(a, h) /\ h.merit >= a.merit
                       /\ \A b \in S : SamePlace(h, b) => ~(b.merit > h.merit)
    BY <2>1
  <2>3. h \in Put(A, B)
    BY <1>2, <2>2 DEF Beats
  <2>4. ~Beats(a, h)
    BY <1>1, <2>2 DEF Beats
  <2> QED BY <2>2, <2>3, <2>4
<1> QED BY <1>2, <1>3

LEMMA FoldedType ==
    ASSUME NEW m \in Meta, NEW B, B \subseteq Article
    PROVE  /\ Folded(m, B) \in Meta
           /\ Folded(m, B).exists /\ Folded(m, B).lo = m.lo /\ Folded(m, B).hi = m.hi
           /\ Folded(m, B).struck = m.struck
           /\ Folded(m, B).files \in {m.files} \cup {a.files : a \in B}
           /\ m.files <= Folded(m, B).files
           /\ \A a \in B : a.files <= Folded(m, B).files
           /\ \A f \in File :
                 /\ m.parts[f] <= Folded(m, B).parts[f]
                 /\ \A a \in B : a.file = f => a.parts <= Folded(m, B).parts[f]
                 /\ \/ Folded(m, B).parts[f] = m.parts[f]
                    \/ \E a \in B : a.file = f /\ a.parts = Folded(m, B).parts[f]
<1> DEFINE F == {m.files} \cup {a.files : a \in B}
           P(f) == {m.parts[f]} \cup {a.parts : a \in {b \in B : b.file = f}}
           M == Folded(m, B)
<1>1. \A a \in B : a.files \in 0..MaxFile /\ a.parts \in 0..MaxParts
  BY ArticleTypes, Numbers
<1>2. F \subseteq 0..MaxFile /\ F # {}
  BY <1>1 DEF Meta
<1>3. MaxOf(F) \in F /\ MaxOf(F) \in 0..MaxFile /\ \A y \in F : y <= MaxOf(F)
  <2> HIDE DEF F
  <2>1. MaxFile \in Nat BY Numbers
  <2> QED BY <1>2, <2>1, MaxOfIs
<1>4. ASSUME NEW f \in File
      PROVE  /\ MaxOf(P(f)) \in P(f) /\ MaxOf(P(f)) \in 0..MaxParts
             /\ \A y \in P(f) : y <= MaxOf(P(f))
  <2>1. P(f) \subseteq 0..MaxParts /\ P(f) # {}
    BY <1>1 DEF Meta
  <2>2. MaxParts \in Nat BY Numbers
  <2> HIDE DEF P
  <2> QED BY <2>1, <2>2, MaxOfIs
<1> DEFINE Q == [f \in File |-> MaxOf(P(f))]
<1>5. M = [m EXCEPT !.exists = TRUE, !.files = MaxOf(F), !.parts = Q]
  BY DEF Folded, Meta
<1>6. Q \in [File -> 0..MaxParts]
  <2> HIDE DEF P
  <2> QED BY <1>4
<1> HIDE DEF M
<1>7. /\ M \in Meta /\ M.exists /\ M.lo = m.lo /\ M.hi = m.hi /\ M.struck = m.struck
      /\ M.files = MaxOf(F) /\ M.parts = Q
  <2> HIDE DEF F, Q
  <2> QED BY <1>3, <1>5, <1>6 DEF Meta
<1>8. M.files \in F /\ m.files <= M.files /\ \A a \in B : a.files <= M.files
  BY <1>3, <1>7
<1>9. ASSUME NEW f \in File
      PROVE  /\ m.parts[f] <= M.parts[f]
             /\ \A a \in B : a.file = f => a.parts <= M.parts[f]
             /\ \/ M.parts[f] = m.parts[f]
                \/ \E a \in B : a.file = f /\ a.parts = M.parts[f]
  <2>1. M.parts[f] = MaxOf(P(f))
    BY <1>7
  <2> QED BY <1>4, <2>1
<1>10. M = Folded(m, B)
  BY DEF M
<1> HIDE DEF F, Q
<1> QED BY <1>7, <1>8, <1>9, <1>10 DEF F

Spanned(m, N) == [m EXCEPT !.lo = IF @ = 0 THEN Min(N) ELSE Min(N \cup {@}),
                           !.hi = Max(N \cup {@})]

LEMMA SpannedType ==
    ASSUME NEW m \in Meta, NEW N, N \subseteq 1..Top, N # {}
    PROVE  /\ Spanned(m, N) \in Meta
           /\ \E l \in N \cup ({m.lo} \ {0}), h \in N \cup {m.hi} :
                 /\ Spanned(m, N) = [m EXCEPT !.lo = l, !.hi = h]
                 /\ m.lo # 0 => l <= m.lo
                 /\ m.hi <= h
                 /\ \A n \in N : l <= n /\ n <= h
<1> DEFINE L == IF m.lo = 0 THEN Min(N) ELSE Min(N \cup {m.lo})
           H == Max(N \cup {m.hi})
<1>1. m.lo \in Nat /\ m.hi \in 0..Top /\ m.lo \in 0..Top /\ N \subseteq Nat
  BY Numbers DEF Meta
<1>0. \A n \in N : n \in 0..Top
  BY Numbers
<1>2. /\ L \in N \cup ({m.lo} \ {0}) /\ \A n \in N : L <= n
      /\ m.lo # 0 => L <= m.lo
  <2>1. CASE m.lo = 0
    <3>1. Min(N) \in N /\ \A y \in N : Min(N) <= y
      BY <1>1, MinIs
    <3> QED BY <2>1, <3>1
  <2>2. CASE m.lo # 0
    <3>1. N \cup {m.lo} \subseteq Nat /\ N \cup {m.lo} # {}
      <4>1. \A n \in N \cup {m.lo} : n \in Nat BY <1>1
      <4> QED BY <4>1
    <3>2. Min(N \cup {m.lo}) \in N \cup {m.lo} /\ \A y \in N \cup {m.lo} : Min(N \cup {m.lo}) <= y
      BY <3>1, MinIs
    <3> QED BY <2>2, <3>2
  <2> QED BY <2>1, <2>2
<1>3. H \in N \cup {m.hi} /\ \A n \in N : n <= H /\ m.hi <= H
  <2>1. N \cup {m.hi} \subseteq 0..Top /\ N \cup {m.hi} # {} /\ Top \in Nat
    <3>1. \A n \in N \cup {m.hi} : n \in 0..Top BY <1>0, <1>1
    <3>2. N \cup {m.hi} \subseteq 0..Top BY <3>1, Zenon
    <3> QED BY <3>2, Numbers
  <2>2. H \in N \cup {m.hi} /\ \A y \in N \cup {m.hi} : y <= H
    BY <2>1, MaxIs
  <2> QED BY <2>2
<1>4. Spanned(m, N) = [m EXCEPT !.lo = L, !.hi = H]
  BY DEF Spanned, Meta
<1>5. m.hi <= H
  BY <1>3
<1> HIDE DEF L, H
<1>6. L \in 0..Top /\ H \in 0..Top
  BY <1>1, <1>2, <1>3
<1>7. Spanned(m, N) \in Meta
  BY <1>4, <1>6 DEF Meta
<1> QED BY <1>2, <1>3, <1>4, <1>5, <1>7
---------------------------------------------------------------------------
(* The types, and that no two workers have one window in hand.              *)
BusyInv ==
    /\ \A s \in Stager : Busy(s) =>
          /\ stager[s].win \in Window \ done
          /\ In(stager[s].win) # {}
    /\ \A s, t \in Stager : Busy(s) /\ Busy(t) /\ s # t => stager[s].win # stager[t].win
StateInv == TypeInv /\ BusyInv

LEMMA StateInit == Init => StateInv
<1> SUFFICES ASSUME Init PROVE StateInv
  OBVIOUS
<1>1. TypeInv
  <2>1. stager \in [Stager -> Workers] /\ builder \in Builders /\ meta \in Meta
    BY NoRecord DEF Init
  <2>2. builder.arts = {} /\ art = {} /\ done = {} /\ catalogue = {}
    BY DEF Init, NoBuilder
  <2>3. idle \in 0..3 /\ metaAge \in 0..3 /\ world \in Worlds
    BY DEF Init
  <2>4. ready \in BOOLEAN /\ left \in BOOLEAN
    BY DEF Init
  <2>5. /\ done \subseteq Window /\ art \subseteq post /\ catalogue \subseteq Release
        /\ builder.arts \subseteq post
    BY <2>2
  <2> QED BY <2>1, <2>3, <2>4, <2>5 DEF TypeInv
<1>2. \A s \in Stager : ~Busy(s)
  BY DEF Init, Busy, NoStager
<1> QED BY <1>1, <1>2 DEF StateInv, BusyInv

LEMMA RemovedTypes ==
    ASSUME StateInv, Removed
    PROVE  meta' \in Meta /\ idle' \in 0..3 /\ metaAge' \in 0..3 /\ left' /\ art' = {}
BY NoRecord DEF Removed

(* The end of a batch.                                                      *)
LEMMA EndsBatch ==
    ASSUME StateInv, NEW s \in Stager, Busy(s), Ends(s), UNCHANGED world
    PROVE  /\ done \subseteq done' /\ done' \subseteq done \cup {stager[s].win}
           /\ done' \subseteq Window /\ stager' \in [Stager -> Workers]
           /\ stager'[s] = NoStager
           /\ \A t \in Stager \ {s} : stager'[t] = stager[t]
           /\ BusyInv'
<1>1. stager' = [stager EXCEPT ![s] = NoStager] /\ stager \in [Stager -> Workers]
  BY DEF Ends, StateInv, TypeInv
<1>2. stager' \in [Stager -> Workers] /\ stager'[s] = NoStager
      /\ \A t \in Stager \ {s} : stager'[t] = stager[t]
  BY <1>1, NoRecord
<1>3. done \subseteq done' /\ done' \subseteq done \cup {stager[s].win}
  BY DEF Ends
<1>4. stager[s].win \in Window /\ done \subseteq Window
  BY DEF StateInv, TypeInv, BusyInv
<1>5. \A t \in Stager : Busy(t)' => t # s /\ Busy(t) /\ stager'[t] = stager[t]
  BY <1>2 DEF Busy, NoStager
<1>6. ASSUME NEW t \in Stager, Busy(t)'
      PROVE  stager[t].win \in Window \ done' /\ In(stager[t].win)' # {}
  <2>1. t # s /\ Busy(t) BY <1>5, <1>6
  <2>2. stager[t].win \in Window \ done /\ In(stager[t].win) # {} /\ stager[t].win # stager[s].win
    BY <2>1 DEF StateInv, BusyInv
  <2>3. In(stager[t].win)' = In(stager[t].win)
    <3>1. stager'[t].win = stager[t].win /\ world' = world BY <1>2, <2>1
    <3> QED BY <3>1 DEF In, post
  <2> QED BY <1>3, <2>2, <2>3
<1>7. BusyInv'
  <2>1. \A t \in Stager : Busy(t)' => stager'[t].win = stager[t].win
    BY <1>5
  <2>2. \A t, u \in Stager : Busy(t)' /\ Busy(u)' /\ t # u => stager[t].win # stager[u].win
    BY <1>5 DEF StateInv, BusyInv
  <2> QED BY <1>6, <2>1, <2>2 DEF BusyInv
<1> QED BY <1>2, <1>3, <1>4, <1>7

(* A worker goes on with its window.                                        *)
LEMMA StaysBusy ==
    ASSUME StateInv, NEW s \in Stager, Busy(s), NEW r \in Workers,
           r.win = stager[s].win,
           stager' = [stager EXCEPT ![s] = r], UNCHANGED <<world, done>>
    PROVE  /\ stager' \in [Stager -> Workers] /\ BusyInv' /\ stager'[s] = r
           /\ \A t \in Stager \ {s} : stager'[t] = stager[t]
<1>1. stager \in [Stager -> Workers]
  BY DEF StateInv, TypeInv
<1>2. stager' \in [Stager -> Workers] /\ stager'[s] = r
      /\ \A t \in Stager \ {s} : stager'[t] = stager[t]
  BY <1>1
<1>3. \A t \in Stager : stager'[t].win = stager[t].win
  BY <1>2
<1>4. \A t \in Stager : Busy(t)' => Busy(t)
  BY <1>2 DEF Busy
<1>5. \A t \in Stager : In(stager[t].win)' = In(stager[t].win)
  <2>1. \A t \in Stager : stager'[t].win = stager[t].win /\ world' = world BY <1>3
  <2> QED BY <2>1 DEF In, post
<1>6. \A t \in Stager : Busy(t)' =>
          stager'[t].win \in Window \ done' /\ In(stager[t].win)' # {}
  BY <1>3, <1>4, <1>5 DEF StateInv, BusyInv
<1>7. \A t, u \in Stager : Busy(t)' /\ Busy(u)' /\ t # u => stager'[t].win # stager'[u].win
  BY <1>3, <1>4 DEF StateInv, BusyInv
<1> QED BY <1>2, <1>6, <1>7 DEF BusyInv

(* A worker's step, seen as a new record of it.                             *)
PutRecord(s, w) == [stager[s] EXCEPT !.phase = "put", !.win = w]
FoldRecord(s)   == [phase |-> "folded", win |-> stager[s].win, meta |-> meta',
                    held |-> Cardinality(art), struck |-> meta.struck,
                    stale |-> meta.exists /\ idle >= 1]

LEMMA PutStep ==
    ASSUME StateInv, NEW s \in Stager, PutArticles(s)
    PROVE  \E w \in Window \ done :
              /\ s \in world.stagers /\ ~Busy(s) /\ In(w) # {}
              /\ \A t \in Stager : Busy(t) => stager[t].win # w
              /\ art' = Put(art, In(w)) /\ art' \subseteq post
              /\ stager' = [stager EXCEPT ![s] = PutRecord(s, w)]
              /\ PutRecord(s, w) \in Workers
              /\ PutRecord(s, w).phase = "put" /\ PutRecord(s, w).win = w
              /\ stager' \in [Stager -> Workers] /\ stager'[s] = PutRecord(s, w)
              /\ \A t \in Stager \ {s} : stager'[t] = stager[t]
              /\ BusyInv'
<1>1. PICK w \in Window \ done :
          /\ In(w) # {} /\ \A t \in Stager : Busy(t) => stager[t].win # w
          /\ art' = Put(art, In(w))
          /\ stager' = [stager EXCEPT ![s].phase = "put", ![s].win = w]
  BY DEF PutArticles
<1>2. s \in world.stagers /\ ~Busy(s) /\ UNCHANGED <<world, done>>
  BY DEF PutArticles
<1>3. stager \in [Stager -> Workers] /\ world \in Worlds /\ art \subseteq post
  BY DEF StateInv, TypeInv
<1>4. /\ PutRecord(s, w) \in Workers
      /\ PutRecord(s, w).phase = "put" /\ PutRecord(s, w).win = w
  BY <1>3 DEF PutRecord, Workers, Phases
<1>5. stager' = [stager EXCEPT ![s] = PutRecord(s, w)]
  BY <1>1, <1>3 DEF PutRecord
<1>6. stager' \in [Stager -> Workers] /\ stager'[s] = PutRecord(s, w)
      /\ \A t \in Stager \ {s} : stager'[t] = stager[t]
  BY <1>3, <1>4, <1>5
<1>7. art' \subseteq post
  <2>1. In(w) \subseteq post /\ In(w) \subseteq Article /\ art \subseteq Article
    BY <1>3, InPost
  <2> QED BY <1>1, <1>3, <2>1, PutKeeps
<1>8. BusyInv'
  <2>1. \A t \in Stager : Busy(t)' /\ t # s => Busy(t) /\ stager'[t] = stager[t]
    BY <1>6 DEF Busy
  <2>2. \A v : In(v)' = In(v)
    BY <1>2 DEF In, post
  <2>3. \A t \in Stager : Busy(t)' => stager'[t].win \in Window \ done' /\ In(stager[t].win)' # {}
    <3> SUFFICES ASSUME NEW t \in Stager, Busy(t)'
                 PROVE stager'[t].win \in Window \ done' /\ In(stager[t].win)' # {}
      OBVIOUS
    <3>1. CASE t = s
      <4>0. stager'[t].win = w /\ world' = world
        BY <1>2, <1>4, <1>6, <3>1
      <4>1. In(stager[t].win)' = In(w)
        BY <4>0 DEF In, post
      <4> QED BY <1>1, <1>2, <1>4, <1>6, <3>1, <4>1
    <3>2. CASE t # s
      <4>0. stager'[t].win = stager[t].win /\ world' = world
        BY <1>2, <1>6, <3>2
      <4>1. In(stager[t].win)' = In(stager[t].win)
        BY <4>0 DEF In, post
      <4> QED BY <1>2, <2>1, <3>2, <4>1 DEF StateInv, BusyInv
    <3> QED BY <3>1, <3>2
  <2>4. \A t, u \in Stager : Busy(t)' /\ Busy(u)' /\ t # u => stager'[t].win # stager'[u].win
    BY <1>1, <1>4, <1>6, <2>1 DEF StateInv, BusyInv
  <2> QED BY <2>3, <2>4 DEF BusyInv
<1> QED BY <1>1, <1>2, <1>4, <1>5, <1>6, <1>7, <1>8

LEMMA FoldStep ==
    ASSUME StateInv, NEW s \in Stager, FoldMeta(s)
    PROVE  /\ Busy(s) /\ stager[s].phase = "put"
           /\ meta' = Folded(meta, In(stager[s].win)) /\ meta' \in Meta
           /\ stager' = [stager EXCEPT ![s] = FoldRecord(s)]
           /\ FoldRecord(s) \in Workers
           /\ FoldRecord(s).win = stager[s].win /\ FoldRecord(s).phase = "folded"
           /\ stager' \in [Stager -> Workers] /\ BusyInv' /\ stager'[s] = FoldRecord(s)
           /\ \A t \in Stager \ {s} : stager'[t] = stager[t]
<1>1. stager \in [Stager -> Workers] /\ world \in Worlds /\ art \subseteq post /\ meta \in Meta
  BY DEF StateInv, TypeInv
<1>2. Busy(s) /\ stager[s].phase = "put" /\ meta' = Folded(meta, In(stager[s].win))
  BY DEF FoldMeta, Busy
<1>3. meta' \in Meta
  BY <1>1, <1>2, InPost, FoldedType
<1>4. stager' = [stager EXCEPT ![s] = FoldRecord(s)]
  BY <1>1 DEF FoldMeta, FoldRecord
<1>5. Cardinality(art) \in Nat
  <2>1. art \subseteq Article BY <1>1, InPost
  <2> QED BY <2>1, SomeArticles
<1>6. stager[s] \in Workers
  BY <1>1
<1>7. FoldRecord(s) \in Workers /\ FoldRecord(s).win = stager[s].win
      /\ FoldRecord(s).phase = "folded"
  BY <1>1, <1>3, <1>5, <1>6 DEF FoldRecord, Workers, Phases, Meta
<1>8. UNCHANGED <<world, done>>
  BY DEF FoldMeta
<1>9. /\ stager' \in [Stager -> Workers] /\ BusyInv' /\ stager'[s] = FoldRecord(s)
      /\ \A t \in Stager \ {s} : stager'[t] = stager[t]
  BY <1>2, <1>4, <1>7, <1>8, StaysBusy
<1> QED BY <1>2, <1>3, <1>4, <1>7, <1>9

(* What the steps of the pipeline leave alone.                              *)
NumsIn(w) == {a.num : a \in In(w)}

LEMMA SpanStep ==
    ASSUME StateInv, NEW s \in Stager, FoldSpan(s)
    PROVE  /\ Busy(s) /\ stager[s].phase = "folded" /\ meta' \in Meta
           /\ \/ meta' = Spanned(meta, NumsIn(stager[s].win))
              \/ meta' = meta /\ "span" \in world.faults
           /\ [stager[s] EXCEPT !.phase = "spanned"] \in Workers
           /\ stager' \in [Stager -> Workers] /\ BusyInv'
           /\ stager'[s] = [stager[s] EXCEPT !.phase = "spanned"]
           /\ \A t \in Stager \ {s} : stager'[t] = stager[t]
<1> DEFINE N == NumsIn(stager[s].win)
           r == [stager[s] EXCEPT !.phase = "spanned"]
<1>1. stager \in [Stager -> Workers] /\ world \in Worlds /\ meta \in Meta
  BY DEF StateInv, TypeInv
<1>2. Busy(s) /\ stager[s].phase = "folded" /\ UNCHANGED <<world, done>>
  BY DEF FoldSpan, Busy
<1>3. \/ meta' = Spanned(meta, N)
      \/ meta' = meta /\ "span" \in world.faults
  BY DEF FoldSpan, Spanned, NumsIn
<1>4. N \subseteq 1..Top /\ N # {}
  <2>1. In(stager[s].win) # {} BY <1>2 DEF StateInv, BusyInv
  <2>2. In(stager[s].win) \subseteq Article BY <1>1, InPost
  <2> QED BY <2>1, <2>2, ArticleTypes DEF NumsIn
<1>5. meta' \in Meta
  <2> HIDE DEF N
  <2>1. Spanned(meta, N) \in Meta BY <1>1, <1>4, SpannedType
  <2> QED BY <1>1, <1>3, <2>1
<1>6. r \in Workers /\ r.win = stager[s].win
  BY <1>1 DEF Workers, Phases
<1>7. stager' = [stager EXCEPT ![s] = r]
  BY <1>1 DEF FoldSpan
<1>8. /\ stager' \in [Stager -> Workers] /\ BusyInv' /\ stager'[s] = r
      /\ \A t \in Stager \ {s} : stager'[t] = stager[t]
  <2> HIDE DEF r
  <2> QED BY <1>2, <1>6, <1>7, StaysBusy
<1> QED BY <1>2, <1>3, <1>5, <1>6, <1>8

LEMMA OutcomePhase ==
    ASSUME NEW p
    PROVE  Outcome(p) \in {"queue", "evict", "strike", "clear", "pass"}
BY DEF Outcome, EvictDecision

LEMMA CheckStep ==
    ASSUME StateInv, NEW s \in Stager, Check(s)
    PROVE  /\ Busy(s) /\ stager[s].phase = "spanned"
           /\ stager' \in [Stager -> Workers] /\ BusyInv'
           /\ stager'[s] = [stager[s] EXCEPT !.phase = Outcome(stager[s])]
           /\ \A t \in Stager \ {s} : stager'[t] = stager[t]
           /\ UNCHANGED <<world, done, staged, ready, builder, catalogue>>
<1> DEFINE r == [stager[s] EXCEPT !.phase = Outcome(stager[s])]
<1>1. stager \in [Stager -> Workers]
  BY DEF StateInv, TypeInv
<1>2. Outcome(stager[s]) \in Phases
  BY OutcomePhase DEF Phases
<1>3. r \in Workers /\ r.win = stager[s].win
  BY <1>1, <1>2 DEF Workers
<1>4. stager' = [stager EXCEPT ![s] = r]
  BY <1>1 DEF Check
<1>5. Busy(s) /\ stager[s].phase = "spanned"
      /\ UNCHANGED <<world, done, staged, ready, builder, catalogue>>
  BY DEF Check, Busy
<1>6. /\ stager' \in [Stager -> Workers] /\ BusyInv' /\ stager'[s] = r
      /\ \A t \in Stager \ {s} : stager'[t] = stager[t]
  <2> HIDE DEF r
  <2> QED BY <1>3, <1>4, <1>5, StaysBusy
<1> QED BY <1>5, <1>6

(* The steps that end a batch.                                              *)
Finishes(s) == Queue(s) \/ Evict(s) \/ StrikeOrClear(s) \/ Pass(s)

LEMMA FinishStep ==
    ASSUME StateInv, NEW s \in Stager, Finishes(s)
    PROVE  /\ Busy(s) /\ Ends(s) /\ stager[s].phase \in {"queue", "evict", "strike", "clear", "pass"}
           /\ UNCHANGED <<world, builder, catalogue>> /\ meta' \in Meta
           /\ \/ art' = {} /\ left' /\ idle' = 3 /\ metaAge' = 3
              \/ UNCHANGED <<art, left, idle, metaAge>>
           /\ ready' \in BOOLEAN
<1>1. meta \in Meta /\ ready \in BOOLEAN
  BY DEF StateInv, TypeInv
<1>2. CASE Queue(s)
  BY <1>1, <1>2 DEF Queue, Busy, staged
<1>3. CASE Evict(s)
  BY <1>1, <1>3, NoRecord DEF Evict, Busy, staged, Removed
<1>4. CASE StrikeOrClear(s)
  <2>1. [meta EXCEPT !.struck = stager[s].phase = "strike"] \in Meta
    BY <1>1 DEF Meta
  <2> QED BY <1>1, <1>4, <2>1 DEF StrikeOrClear, Busy
<1>5. CASE Pass(s)
  BY <1>1, <1>5 DEF Pass, Busy, staged
<1> QED BY <1>2, <1>3, <1>4, <1>5 DEF Finishes

LEMMA FailStep ==
    ASSUME StateInv, NEW s \in Stager, StageFails(s)
    PROVE  /\ Busy(s) /\ Ends(s)
           /\ UNCHANGED <<world, done, staged, ready, builder, catalogue>>
BY DEF StageFails, Ends

LEMMA NothingBusy ==
    ASSUME StateInv, UNCHANGED <<world, stager>>, done \subseteq done',
           \A w \in done' \ done : In(w) = {}
    PROVE  BusyInv'
<1>1. \A t \in Stager : (Busy(t)' <=> Busy(t)) /\ In(stager[t].win)' = In(stager[t].win)
  BY DEF Busy, In, post
<1> QED BY <1>1 DEF StateInv, BusyInv

LEMMA BuilderStep ==
    ASSUME StateInv, Builder \/ BuilderStops
    PROVE  /\ UNCHANGED <<world, done, stager>> /\ builder' \in Builders
           /\ meta' \in Meta /\ ready' \in BOOLEAN /\ catalogue' \subseteq Release
           /\ \/ art' = {} /\ left' /\ idle' = 3 /\ metaAge' = 3 /\ meta' = NoMeta
              \/ UNCHANGED <<staged>>
              \/ UNCHANGED <<art, idle, left>> /\ metaAge' = 0
           /\ builder'.arts \subseteq post
<1>1. /\ meta \in Meta /\ ready \in BOOLEAN /\ builder \in Builders /\ catalogue \subseteq Release
      /\ art \subseteq post /\ post \subseteq Article /\ builder.arts \subseteq post
  <2>1. world \in Worlds BY DEF StateInv, TypeInv
  <2>2. post \subseteq Article BY <2>1, WorldTypes DEF post
  <2> QED BY <2>2 DEF StateInv, TypeInv
<1>2. NoMeta \in Meta /\ NoBuilder \in Builders /\ NoBuilder.arts = {}
  BY NoRecord DEF NoBuilder
<1>3. ASSUME NEW p \in BPhases
      PROVE  /\ [builder EXCEPT !.phase = p] \in Builders
             /\ [builder EXCEPT !.phase = p].arts = builder.arts
  BY <1>1 DEF Builders
<1>4. {"idle", "doom", "salvage", "drawn", "stale", "demote", "store",
       "salvage-store", "mark", "delete"} = BPhases
  BY DEF BPhases
<1>5. CASE Judge
  <2> DEFINE p == IF world.salvage /\ 2 * Cardinality(art) >= Needed(meta) THEN "salvage" ELSE "doom"
  <2>1. builder' = [builder EXCEPT !.phase = p] /\ p \in BPhases
    BY <1>4, <1>5 DEF Judge
  <2>2. UNCHANGED <<world, done, staged, ready, stager, catalogue>>
    BY <1>5 DEF Judge
  <2> HIDE DEF p
  <2> QED BY <1>1, <1>3, <2>1, <2>2 DEF staged
<1>6. CASE Doom
  BY <1>1, <1>2, <1>6 DEF Doom, Removed
<1>7. CASE SalvageLoad
  <2> DEFINE b == [phase |-> IF world.junk \/ MissingData(art) > Par2Held(art)
                             THEN "delete" ELSE "salvage-store",
                   arts |-> art, broken |-> MissingData(art) > 0]
  <2>1. b \in Builders /\ b.arts = art
    <3> DEFINE p == IF world.junk \/ MissingData(art) > Par2Held(art)
                    THEN "delete" ELSE "salvage-store"
               q == MissingData(art) > 0
    <3>1. p \in BPhases /\ q \in BOOLEAN
      BY <1>4
    <3>2. b = [phase |-> p, arts |-> art, broken |-> q]
      OBVIOUS
    <3> HIDE DEF p, q, b
    <3> QED BY <1>1, <3>1, <3>2 DEF Builders
  <2>2. builder' = NoBuilder \/ builder' = b
    BY <1>7 DEF SalvageLoad
  <2>3. UNCHANGED <<world, done, staged, ready, stager, catalogue>>
    BY <1>7 DEF SalvageLoad
  <2> HIDE DEF b
  <2> QED BY <1>1, <1>2, <2>1, <2>2, <2>3 DEF staged
<1>8. ASSUME NEW A \in {builder.arts} PROVE Stored(A) \subseteq Release
  <2>1. [arts |-> A, broken |-> FALSE] \in Release
    BY <1>1 DEF Release, Builders
  <2> QED BY <1>1, <2>1 DEF Stored
<1>9. CASE SalvageStore
  <2>1. NextPhase \in BPhases
    BY <1>4 DEF NextPhase
  <2>2. builder' = [builder EXCEPT !.phase = NextPhase] /\ catalogue' = Stored(builder.arts)
    BY <1>9 DEF SalvageStore
  <2>3. UNCHANGED <<world, done, staged, ready, stager>>
    BY <1>9 DEF SalvageStore
  <2> QED BY <1>1, <1>3, <1>8, <2>1, <2>2, <2>3 DEF staged
<1>10. CASE Mark
  <2>1. catalogue' \subseteq Release
    <3>1. \A r \in Release : [r EXCEPT !.broken = TRUE] \in Release
      BY DEF Release
    <3> QED BY <1>1, <1>10, <3>1 DEF Mark
  <2>2. /\ builder' = [builder EXCEPT !.phase = "delete"]
        /\ UNCHANGED <<world, done, staged, ready, stager>>
    BY <1>10 DEF Mark
  <2> QED BY <1>1, <1>3, <1>4, <2>1, <2>2 DEF staged
<1>11. CASE Draw
  <2>1. Drawn \in BPhases
    BY <1>4 DEF Drawn
  <2>2. /\ builder' = [builder EXCEPT !.phase = Drawn]
        /\ UNCHANGED <<world, done, staged, ready, stager, catalogue>>
    BY <1>11 DEF Draw
  <2> QED BY <1>1, <1>3, <2>1, <2>2 DEF staged
<1>12. CASE Withdraw
  BY <1>1, <1>2, <1>12 DEF Withdraw, staged
<1>13. CASE Load
  <2> DEFINE p == IF world.junk THEN "delete" ELSE "store"
  <2>1. \/ builder' = NoBuilder
        \/ builder' = [NoBuilder EXCEPT !.phase = "demote"]
        \/ builder' = [NoBuilder EXCEPT !.arts = art, !.phase = p]
    BY <1>13 DEF Load
  <2>2. [NoBuilder EXCEPT !.phase = "demote"] \in Builders
        /\ [NoBuilder EXCEPT !.phase = "demote"].arts = {}
    BY <1>2, <1>4 DEF Builders
  <2>3. p \in BPhases BY <1>4
  <2> HIDE DEF p
  <2>4. [NoBuilder EXCEPT !.arts = art, !.phase = p] \in Builders
        /\ [NoBuilder EXCEPT !.arts = art, !.phase = p].arts = art
    BY <1>1, <1>2, <2>3 DEF Builders
  <2>5. UNCHANGED <<world, done, staged, ready, stager, catalogue>>
    BY <1>13 DEF Load
  <2> QED BY <1>1, <1>2, <2>1, <2>2, <2>4, <2>5 DEF staged
<1>14. CASE Store
  <2>1. builder' = [builder EXCEPT !.phase = "delete"] /\ catalogue' = Stored(builder.arts)
    BY <1>14 DEF Store
  <2>2. UNCHANGED <<world, done, staged, ready, stager>>
    BY <1>14 DEF Store
  <2> QED BY <1>1, <1>3, <1>4, <1>8, <2>1, <2>2 DEF staged
<1>15. CASE StoreFails
  <2>1. meta.attempts \in Nat
    BY <1>1 DEF Meta
  <2>2. Min({meta.attempts + 1, StoreAttemptLimit}) \in Nat
    <3>1. {meta.attempts + 1, StoreAttemptLimit} \subseteq Nat
      BY <2>1 DEF StoreAttemptLimit
    <3> QED BY <3>1, MinIs
  <2> DEFINE k == Min({meta.attempts + 1, StoreAttemptLimit})
  <2>3. meta' = [meta EXCEPT !.attempts = k]
    BY <1>1, <1>15 DEF StoreFails, Meta
  <2> HIDE DEF k
  <2>4. meta' \in Meta
    BY <1>1, <2>2, <2>3 DEF Meta, k
  <2>5. builder' = [builder EXCEPT !.phase = "delete"] \/ builder' = NoBuilder
    BY <1>15 DEF StoreFails
  <2>6. metaAge' = 0 /\ UNCHANGED <<world, done, art, idle, ready, stager, catalogue, left>>
    BY <1>15 DEF StoreFails
  <2> QED BY <1>1, <1>2, <1>3, <1>4, <2>4, <2>5, <2>6
<1>16. CASE Delete
  BY <1>1, <1>2, <1>16 DEF Delete, Removed
<1>17. CASE BuilderStops
  BY <1>1, <1>2, <1>17 DEF BuilderStops, staged
<1> QED
  BY <1>5, <1>6, <1>7, <1>9, <1>10, <1>11, <1>12, <1>13, <1>14, <1>15, <1>16, <1>17
     DEF Builder

LEMMA TickStep ==
    ASSUME StateInv, Tick
    PROVE  /\ UNCHANGED <<world, done, ready, stager, builder, catalogue>>
           /\ idle' \in 0..3 /\ metaAge' \in 0..3 /\ left' \in BOOLEAN
           /\ meta' \in Meta /\ art' \subseteq post
           /\ \A s \in Stager : ~Busy(s)
           /\ ~left' => idle # 2 /\ art' = art /\ ~left
<1>1. idle \in 0..3 /\ metaAge \in 0..3 /\ left \in BOOLEAN /\ meta \in Meta /\ art \subseteq post
  BY DEF StateInv, TypeInv
<1>2. idle' \in 0..3 /\ metaAge' \in 0..3
  BY <1>1 DEF Tick, Older
<1>3. left' \in BOOLEAN
  BY <1>1 DEF Tick
<1> QED BY <1>1, <1>2, <1>3, NoRecord DEF Tick

LEMMA StateNext == StateInv /\ [Next]_vars => StateInv'
<1> SUFFICES ASSUME StateInv, [Next]_vars PROVE StateInv'
  OBVIOUS
<1>0. /\ TypeInv /\ BusyInv
      /\ world \in Worlds /\ done \subseteq Window /\ art \subseteq post
      /\ meta \in Meta /\ idle \in 0..3 /\ metaAge \in 0..3
      /\ ready \in BOOLEAN /\ left \in BOOLEAN
      /\ stager \in [Stager -> Workers] /\ builder \in Builders
      /\ catalogue \subseteq Release /\ builder.arts \subseteq post
  BY DEF StateInv, TypeInv
<1>00. world' = world => post' = post
  BY DEF post
<1>1. ASSUME NEW s \in Stager, PutArticles(s) PROVE StateInv'
  <2>1. art' \subseteq post /\ stager' \in [Stager -> Workers] /\ BusyInv'
    BY <1>1, PutStep
  <2>2. UNCHANGED <<world, done, meta, idle, metaAge, ready, builder, catalogue, left>>
    BY <1>1 DEF PutArticles
  <2> QED BY <1>0, <1>00, <2>1, <2>2 DEF StateInv, TypeInv
<1>2. ASSUME NEW s \in Stager, FoldMeta(s) PROVE StateInv'
  <2>1. meta' \in Meta /\ stager' \in [Stager -> Workers] /\ BusyInv'
    BY <1>2, FoldStep
  <2>2. idle' = 0 /\ metaAge' = 0
        /\ UNCHANGED <<world, done, art, ready, builder, catalogue, left>>
    BY <1>2 DEF FoldMeta
  <2> QED BY <1>0, <1>00, <2>1, <2>2 DEF StateInv, TypeInv
<1>3. ASSUME NEW s \in Stager, FoldSpan(s) PROVE StateInv'
  <2>1. meta' \in Meta /\ stager' \in [Stager -> Workers] /\ BusyInv'
    BY <1>3, SpanStep
  <2>2. UNCHANGED <<world, done, art, idle, metaAge, ready, builder, catalogue, left>>
    BY <1>3 DEF FoldSpan
  <2> QED BY <1>0, <1>00, <2>1, <2>2 DEF StateInv, TypeInv
<1>4. ASSUME NEW s \in Stager, Check(s) PROVE StateInv'
  <2>1. /\ stager' \in [Stager -> Workers] /\ BusyInv'
        /\ UNCHANGED <<world, done, staged, ready, builder, catalogue>>
    BY <1>4, CheckStep
  <2> QED BY <1>0, <1>00, <2>1 DEF StateInv, TypeInv, staged
<1>5. ASSUME NEW s \in Stager, Finishes(s) PROVE StateInv'
  <2>1. /\ Busy(s) /\ Ends(s) /\ UNCHANGED <<world, builder, catalogue>> /\ meta' \in Meta
        /\ \/ art' = {} /\ left' /\ idle' = 3 /\ metaAge' = 3
           \/ UNCHANGED <<art, left, idle, metaAge>>
        /\ ready' \in BOOLEAN
    BY <1>5, FinishStep
  <2>2. done' \subseteq Window /\ stager' \in [Stager -> Workers] /\ BusyInv'
    BY <2>1, EndsBatch
  <2>3. /\ art' \subseteq post /\ idle' \in 0..3 /\ metaAge' \in 0..3
    BY <1>0, <2>1
  <2>4. left' \in BOOLEAN
    <3>1. CASE Queue(s) \/ StrikeOrClear(s) \/ Pass(s)
      BY <1>0, <3>1 DEF Queue, StrikeOrClear, Pass, staged
    <3>2. CASE Evict(s)
      BY <1>0, <3>2 DEF Evict, Removed, staged
    <3> QED BY <1>5, <3>1, <3>2 DEF Finishes
  <2> QED BY <1>0, <1>00, <2>1, <2>2, <2>3, <2>4 DEF StateInv, TypeInv
<1>6. ASSUME NEW s \in Stager, StageFails(s) PROVE StateInv'
  <2>1. Busy(s) /\ Ends(s) /\ UNCHANGED <<world, done, staged, ready, builder, catalogue>>
    BY <1>6, FailStep
  <2>2. stager' \in [Stager -> Workers] /\ BusyInv'
    BY <2>1, EndsBatch
  <2> QED BY <1>0, <1>00, <2>1, <2>2 DEF StateInv, TypeInv, staged
<1>7. ASSUME NEW w \in Window, Skip(w) PROVE StateInv'
  <2>1. /\ In(w) = {} /\ done' = done \cup {w}
        /\ UNCHANGED <<world, staged, ready, stager, builder, catalogue>>
    BY <1>7 DEF Skip
  <2>2. BusyInv'
    BY <2>1, NothingBusy
  <2> QED BY <1>0, <1>00, <2>1, <2>2 DEF StateInv, TypeInv, staged
<1>8. CASE Tick
  <2>1. /\ UNCHANGED <<world, done, ready, stager, builder, catalogue>>
        /\ idle' \in 0..3 /\ metaAge' \in 0..3 /\ left' \in BOOLEAN
        /\ meta' \in Meta /\ art' \subseteq post
    BY <1>8, TickStep
  <2>2. BusyInv'
    BY <2>1, NothingBusy
  <2> QED BY <1>0, <1>00, <2>1, <2>2 DEF StateInv, TypeInv
<1>9. CASE Builder \/ BuilderStops
  <2>1. /\ UNCHANGED <<world, done, stager>> /\ builder' \in Builders
        /\ meta' \in Meta /\ ready' \in BOOLEAN /\ catalogue' \subseteq Release
        /\ \/ art' = {} /\ left' /\ idle' = 3 /\ metaAge' = 3
           \/ UNCHANGED <<staged>>
           \/ UNCHANGED <<art, idle, left>> /\ metaAge' = 0
        /\ builder'.arts \subseteq post
    BY <1>9, BuilderStep
  <2>2. BusyInv'
    BY <2>1, NothingBusy
  <2>3. art' \subseteq post /\ idle' \in 0..3 /\ metaAge' \in 0..3
    BY <1>0, <2>1 DEF staged
  <2>4. left' \in BOOLEAN
    <3>1. (Removed \/ left' = left) => left' \in BOOLEAN
      BY <1>0 DEF Removed
    <3>2. Removed \/ left' = left
      BY <1>9 DEF Builder, Judge, Doom, SalvageLoad, SalvageStore, Mark, Draw, Withdraw,
                  Load, Store, StoreFails, Delete, BuilderStops, staged
    <3> QED BY <3>1, <3>2
  <2> QED BY <1>0, <1>00, <2>1, <2>2, <2>3, <2>4 DEF StateInv, TypeInv
<1>10. CASE UNCHANGED vars
  <2>1. UNCHANGED <<world, done, art, meta, idle, metaAge, ready, stager, builder,
                    catalogue, left>>
    BY <1>10 DEF vars
  <2>2. BusyInv'
    BY <2>1, NothingBusy
  <2> QED BY <1>0, <1>00, <2>1, <2>2 DEF StateInv, TypeInv
<1> QED
  BY <1>1, <1>2, <1>3, <1>4, <1>5, <1>6, <1>7, <1>8, <1>9, <1>10
     DEF Next, Proceeds, Finishes

LEMMA StateAlways == Spec => []StateInv
<1>1. Init => StateInv BY StateInit
<1>2. StateInv /\ [Next]_vars => StateInv' BY StateNext
<1> QED BY <1>1, <1>2, PTL DEF Spec

---------------------------------------------------------------------------
(* The articles.  While the set was never removed, only an article write    *)
(* changes what is staged of it.                                            *)
LEMMA StillStaged ==
    ASSUME StateInv, [Next]_vars, ~left'
    PROVE  ~left /\ (art' = art \/ \E s \in Stager : PutArticles(s))
<1>1. CASE \E s \in Stager : PutArticles(s)
  <2>1. left' = left BY <1>1 DEF PutArticles
  <2> QED BY <1>1, <2>1
<1>2. ASSUME NEW s \in Stager, Proceeds(s) PROVE ~left /\ art' = art
  <2>1. Removed \/ (art' = art /\ left' = left)
    BY <1>2 DEF Proceeds, FoldMeta, FoldSpan, Check, Queue, Evict, StrikeOrClear, Pass,
                StageFails, staged
  <2>2. Removed => left'
    BY DEF Removed
  <2> QED BY <2>1, <2>2
<1>3. CASE \E w \in Window : Skip(w)
  BY <1>3 DEF Skip, staged
<1>4. CASE Tick
  BY <1>4, TickStep
<1>5. CASE Builder \/ BuilderStops
  <2>1. Removed \/ (art' = art /\ left' = left)
    BY <1>5 DEF Builder, Judge, Doom, SalvageLoad, SalvageStore, Mark, Draw, Withdraw,
                Load, Store, StoreFails, Delete, BuilderStops, staged
  <2>2. Removed => left'
    BY DEF Removed
  <2> QED BY <2>1, <2>2
<1>6. CASE UNCHANGED vars
  BY <1>6 DEF vars
<1> QED BY <1>1, <1>2, <1>3, <1>4, <1>5, <1>6 DEF Next

Kept(w) == \A a \in In(w) : \E h \in art : SamePlace(a, h) /\ ~Beats(a, h)
(* The inductive form of RecordedHeld: windows in hand count as well, for    *)
(* one of them is what the next step may record.                             *)
HeldInv == ~left => /\ \A w \in done : Kept(w)
                    /\ \A s \in Stager : Busy(s) => Kept(stager[s].win)

LEMMA KeptGrows ==
    ASSUME StateInv, NEW s \in Stager, PutArticles(s), NEW w, Kept(w)
    PROVE  Kept(w)'
<1>1. PICK v \in Window : art' = Put(art, In(v))
  BY PutStep
<1>2. /\ art \subseteq Article /\ In(v) \subseteq Article /\ In(w) \subseteq Article
      /\ world' = world
  <2>1. world \in Worlds /\ art \subseteq post BY DEF StateInv, TypeInv
  <2> QED BY <2>1, InPost DEF PutArticles
<1>3. \A a \in art : \E h \in art' : SamePlace(a, h) /\ ~Beats(a, h)
  BY <1>1, <1>2, PutKeeps
<1>4. art' \subseteq Article
  BY <1>1, <1>2, PutKeeps
<1>5. In(w)' = In(w)
  BY <1>2 DEF In, post
<1>6. ASSUME NEW a \in In(w) PROVE \E h \in art' : SamePlace(a, h) /\ ~Beats(a, h)
  <2>1. PICK g \in art : SamePlace(a, g) /\ ~Beats(a, g)
    BY DEF Kept
  <2>2. PICK h \in art' : SamePlace(g, h) /\ ~Beats(g, h)
    BY <1>3
  <2>3. a.merit \in Int /\ g.merit \in Int /\ h.merit \in Int
    BY <1>2, <1>4, ArticleTypes
  <2> QED BY <2>1, <2>2, <2>3 DEF SamePlace, Beats
<1> QED BY <1>5, <1>6 DEF Kept

LEMMA KeptNew ==
    ASSUME StateInv, NEW w, art' = Put(art, In(w)), UNCHANGED world
    PROVE  Kept(w)'
<1>1. art \subseteq Article /\ In(w) \subseteq Article
  <2>1. world \in Worlds /\ art \subseteq post BY DEF StateInv, TypeInv
  <2> QED BY <2>1, InPost
<1>2. In(w)' = In(w)
  BY DEF In, post
<1>3. \A a \in In(w) : \E h \in art' : SamePlace(a, h) /\ ~Beats(a, h)
  BY <1>1, PutKeeps
<1> QED BY <1>2, <1>3 DEF Kept

(* What a step does to the windows recorded or in hand.                     *)
LEMMA WorkerStep ==
    ASSUME StateInv, [Next]_vars, NEW s \in Stager
    PROVE  \/ stager'[s] = stager[s]
           \/ PutArticles(s) \/ FoldMeta(s) \/ FoldSpan(s) \/ Check(s)
           \/ Busy(s) /\ stager'[s] = NoStager
<1>1. ASSUME NEW t \in Stager, PutArticles(t) \/ FoldMeta(t) \/ FoldSpan(t) \/ Check(t)
      PROVE  t # s => stager'[s] = stager[s]
  BY <1>1, PutStep, FoldStep, SpanStep, CheckStep
<1>2. ASSUME NEW t \in Stager, Finishes(t) \/ StageFails(t)
      PROVE  /\ t # s => stager'[s] = stager[s]
             /\ t = s => Busy(s) /\ stager'[s] = NoStager
  <2>1. Busy(t) /\ Ends(t) /\ UNCHANGED world
    BY <1>2, FinishStep, FailStep
  <2> QED BY <2>1, EndsBatch
<1>3. CASE Tick \/ Builder \/ BuilderStops \/ UNCHANGED vars \/ \E w \in Window : Skip(w)
  BY <1>3, BuilderStep DEF Tick, vars, Skip
<1> QED BY <1>1, <1>2, <1>3 DEF Next, Proceeds, Finishes

LEMMA WindowStep ==
    ASSUME StateInv, [Next]_vars
    PROVE  /\ world' = world
           /\ \A w \in done' \ done : \/ In(w) = {}
                                      \/ \E s \in Stager : Finishes(s) /\ stager[s].win = w
           /\ \A s \in Stager : Busy(s)' =>
                 \/ Busy(s) /\ stager'[s].win = stager[s].win
                 \/ PutArticles(s)
<1>0. stager \in [Stager -> Workers]
  BY DEF StateInv, TypeInv
<1>1. ASSUME NEW s \in Stager, PutArticles(s) \/ FoldMeta(s) \/ FoldSpan(s) \/ Check(s)
      PROVE  UNCHANGED <<world, done>>
  BY <1>1 DEF PutArticles, FoldMeta, FoldSpan, Check
<1>2. ASSUME NEW s \in Stager, Finishes(s)
      PROVE  world' = world /\ done' \subseteq done \cup {stager[s].win}
  <2>1. Busy(s) /\ Ends(s) /\ UNCHANGED world
    BY <1>2, FinishStep
  <2> QED BY <2>1, EndsBatch
<1>3. ASSUME NEW s \in Stager, StageFails(s) PROVE UNCHANGED <<world, done>>
  BY <1>3, FailStep
<1>4. ASSUME NEW w \in Window, Skip(w)
      PROVE  world' = world /\ done' = done \cup {w} /\ In(w) = {}
  BY <1>4 DEF Skip
<1>5. Tick \/ Builder \/ BuilderStops \/ UNCHANGED vars => UNCHANGED <<world, done>>
  BY BuilderStep DEF Tick, vars
<1>6. /\ world' = world
      /\ \A w \in done' \ done : \/ In(w) = {}
                                 \/ \E s \in Stager : Finishes(s) /\ stager[s].win = w
  BY <1>1, <1>2, <1>3, <1>4, <1>5 DEF Next, Proceeds, Finishes
<1>7. ASSUME NEW s \in Stager, Busy(s)'
      PROVE  (Busy(s) /\ stager'[s].win = stager[s].win) \/ PutArticles(s)
  <2>1. CASE stager'[s] = stager[s]
    BY <1>7, <2>1 DEF Busy
  <2>2. CASE FoldMeta(s)
    BY <2>2, FoldStep
  <2>3. CASE FoldSpan(s)
    <3>1. Busy(s) /\ stager'[s] = [stager[s] EXCEPT !.phase = "spanned"]
      BY <2>3, SpanStep
    <3> QED BY <1>0, <3>1 DEF Workers
  <2>4. CASE Check(s)
    <3>1. Busy(s) /\ stager'[s] = [stager[s] EXCEPT !.phase = Outcome(stager[s])]
      BY <2>4, CheckStep
    <3> QED BY <1>0, <3>1 DEF Workers
  <2>5. CASE stager'[s] = NoStager
    BY <1>7, <2>5 DEF Busy, NoStager
  <2> QED BY <2>1, <2>2, <2>3, <2>4, <2>5, WorkerStep
<1>8. \A s \in Stager : Busy(s)' =>
          (Busy(s) /\ stager'[s].win = stager[s].win) \/ PutArticles(s)
  BY <1>7, Zenon
<1> QED BY <1>6, <1>8, Zenon

LEMMA HeldNext == StateInv /\ HeldInv /\ [Next]_vars => HeldInv'
<1> SUFFICES ASSUME StateInv, HeldInv, [Next]_vars, ~left'
             PROVE  /\ \A w \in done' : Kept(w)'
                    /\ \A s \in Stager : Busy(s)' => Kept(stager[s].win)'
  BY DEF HeldInv
<1>1. ~left /\ (art' = art \/ \E s \in Stager : PutArticles(s))
  BY StillStaged
<1>2. /\ \A w \in done : Kept(w)
      /\ \A s \in Stager : Busy(s) => Kept(stager[s].win)
  BY <1>1 DEF HeldInv
<1>3. world' = world
  BY WindowStep
<1>4. ASSUME NEW w, Kept(w) PROVE Kept(w)'
  <2>1. CASE art' = art
    BY <1>3, <1>4, <2>1 DEF Kept, In, post
  <2>2. CASE \E s \in Stager : PutArticles(s)
    BY <1>4, <2>2, KeptGrows
  <2> QED BY <1>1, <2>1, <2>2
<1>5. ASSUME NEW w \in done' PROVE Kept(w)'
  <2>1. Kept(w)
    <3>1. CASE w \in done
      BY <1>2, <3>1
    <3>2. CASE In(w) = {}
      BY <3>2 DEF Kept
    <3>3. CASE \E s \in Stager : Finishes(s) /\ stager[s].win = w
      BY <1>2, <3>3, FinishStep
    <3> QED BY <3>1, <3>2, <3>3, WindowStep
  <2> QED BY <1>4, <2>1
<1>6. ASSUME NEW s \in Stager, Busy(s)' PROVE Kept(stager[s].win)'
  <2>1. CASE Busy(s) /\ stager'[s].win = stager[s].win
    <3> DEFINE w == stager[s].win
    <3>1. Kept(w) BY <1>2, <2>1
    <3>2. PICK v : v = w OBVIOUS
    <3>3. Kept(v)' BY <1>4, <3>1, <3>2
    <3>4. stager'[s].win = v BY <2>1, <3>2
    <3> QED BY <3>3, <3>4 DEF Kept, In, post
  <2>2. CASE PutArticles(s)
    <3>1. PICK v \in Window : /\ art' = Put(art, In(v))
                              /\ stager'[s].win = v
      BY <2>2, PutStep
    <3>2. Kept(v)' BY <1>3, <3>1, KeptNew
    <3> QED BY <3>1, <3>2 DEF Kept, In, post
  <2> QED BY <1>6, <2>1, <2>2, WindowStep
<1> QED BY <1>5, <1>6

LEMMA HeldAlways == Spec => []HeldInv
<1>1. Init => HeldInv
  BY DEF Init, HeldInv, Busy, NoStager
<1>2. StateInv /\ HeldInv /\ [Next]_vars => HeldInv'
  BY HeldNext
<1> QED BY <1>1, <1>2, StateAlways, PTL DEF Spec

(* RecordedHeld: until the set is removed, the record of windows fetched     *)
(* never runs ahead of staging, whatever fails and however many workers      *)
(* stage, for an article write is over before its window can be recorded     *)
(* and no later write displaces an article except for a better one           *)
(* (stageArticlesOnce, artPutScript).                                        *)
THEOREM RecordedArticlesAreHeld == Spec => []RecordedHeld
<1>1. HeldInv => RecordedHeld
  BY DEF HeldInv, RecordedHeld, Kept
<1> QED BY <1>1, HeldAlways, PTL

---------------------------------------------------------------------------
(* The sweep.  The keys of a set that was never removed run out together:    *)
(* the metadata is never the older of the two (appendArticlesTx, touch).     *)
AgeInv ==
    ~left => /\ metaAge <= idle
             /\ idle = 3 => /\ metaAge = 3 /\ ~ready /\ builder.phase = "idle" /\ ~meta.exists
                            /\ meta.lo = 0
                            /\ \A s \in Stager : stager[s].phase \in {"idle", "put"}

LEMMA AgeNext == StateInv /\ AgeInv /\ [Next]_vars => AgeInv'
<1> SUFFICES ASSUME StateInv, AgeInv, [Next]_vars, ~left'
             PROVE  /\ metaAge' <= idle'
                    /\ idle' = 3 => /\ metaAge' = 3 /\ ~ready' /\ builder'.phase = "idle"
                                    /\ ~meta'.exists /\ meta'.lo = 0
                                    /\ \A s \in Stager : stager'[s].phase \in {"idle", "put"}
  BY DEF AgeInv
<1>1. ~left
  BY StillStaged
<1>2. /\ metaAge <= idle /\ idle \in 0..3 /\ metaAge \in 0..3
      /\ idle = 3 => /\ metaAge = 3 /\ ~ready /\ builder.phase = "idle" /\ ~meta.exists
                     /\ meta.lo = 0
                     /\ \A s \in Stager : stager[s].phase \in {"idle", "put"}
  BY <1>1 DEF AgeInv, StateInv, TypeInv
<1>3. ASSUME NEW s \in Stager, PutArticles(s)
      PROVE  /\ UNCHANGED <<meta, idle, metaAge, ready, builder>>
             /\ \A t \in Stager : stager'[t] = stager[t] \/ stager'[t].phase = "put"
  BY <1>3, PutStep DEF PutArticles
<1>4. CASE \E s \in Stager : FoldMeta(s)
  BY <1>2, <1>4 DEF FoldMeta
<1>5. ASSUME NEW s \in Stager, FoldSpan(s) \/ Check(s)
      PROVE  idle # 3 /\ UNCHANGED <<idle, metaAge>>
  BY <1>2, <1>5 DEF FoldSpan, Check, staged
<1>6. ASSUME NEW s \in Stager, Finishes(s)
      PROVE  idle # 3 /\ UNCHANGED <<idle, metaAge>>
  <2>1. stager[s].phase \in {"queue", "evict", "strike", "clear", "pass"}
        /\ (UNCHANGED <<idle, metaAge>> \/ left')
    BY <1>6, FinishStep
  <2> QED BY <1>2, <2>1
<1>7. ASSUME NEW s \in Stager, StageFails(s)
      PROVE  /\ UNCHANGED <<meta, idle, metaAge, ready, builder>>
             /\ \A t \in Stager : stager'[t] = stager[t] \/ stager'[t].phase = "idle"
  <2>1. /\ Busy(s) /\ Ends(s)
        /\ UNCHANGED <<world, done, staged, ready, builder, catalogue>>
    BY <1>7, FailStep
  <2> QED BY <2>1, EndsBatch DEF NoStager, staged
<1>8. ASSUME NEW w \in Window, Skip(w)
      PROVE  UNCHANGED <<meta, idle, metaAge, ready, builder, stager>>
  BY <1>8 DEF Skip, staged
<1>9. CASE Tick
  <2>1. idle # 2 /\ ~left
    BY <1>9, TickStep
  <2>2. idle' = Older(idle) /\ metaAge' = Older(metaAge)
        /\ meta' = (IF metaAge = 2 THEN NoMeta ELSE meta)
        /\ UNCHANGED <<ready, stager, builder>>
    BY <1>9 DEF Tick
  <2> QED BY <1>2, <2>1, <2>2 DEF Older
<1>10. CASE Builder \/ BuilderStops
  <2>1. CASE idle = 3
    <3>1. UNCHANGED <<meta, idle, metaAge, ready, builder, stager>> \/ FALSE
      <4>1. builder.phase = "idle" /\ ~ready /\ ~meta.exists
        BY <1>2, <2>1
      <4> QED BY <1>10, <4>1
              DEF Builder, Judge, Doom, SalvageLoad, SalvageStore, Mark, Draw, Withdraw,
                  Load, Store, StoreFails, Delete, BuilderStops, WalkPastDead
    <3> QED BY <1>2, <3>1
  <2>2. CASE idle # 3
    <3>1. \/ left' \/ UNCHANGED <<idle, metaAge>> \/ (idle' = idle /\ metaAge' = 0)
      BY <1>10, BuilderStep DEF staged
    <3> QED BY <1>2, <2>2, <3>1
  <2> QED BY <2>1, <2>2
<1>11. CASE UNCHANGED vars
  BY <1>2, <1>11 DEF vars
<1> QED
  BY <1>2, <1>3, <1>4, <1>5, <1>6, <1>7, <1>8, <1>9, <1>10, <1>11
     DEF Next, Proceeds, Finishes

LEMMA AgeAlways == Spec => []AgeInv
<1>1. Init => AgeInv
  BY DEF Init, AgeInv, NoBuilder, NoMeta, NoStager
<1>2. StateInv /\ AgeInv /\ [Next]_vars => AgeInv'
  BY AgeNext
<1> QED BY <1>1, <1>2, StateAlways, PTL DEF Spec

(* So its metadata changes by the steps of the pipeline alone, but for the   *)
(* strike and the count of failed stores.                                    *)
SameSpan(m, n) == /\ n.exists = m.exists /\ n.files = m.files /\ n.parts = m.parts
                  /\ n.lo = m.lo /\ n.hi = m.hi

LEMMA MetaStep ==
    ASSUME StateInv, AgeInv, [Next]_vars, ~left'
    PROVE  \/ SameSpan(meta, meta')
           \/ \E s \in Stager : FoldMeta(s) \/ FoldSpan(s)
<1>1. meta \in Meta
  BY DEF StateInv, TypeInv
<1>2. CASE \E s \in Stager : PutArticles(s) \/ Check(s) \/ Queue(s) \/ Pass(s) \/ StageFails(s)
  BY <1>2 DEF PutArticles, Check, Queue, Pass, StageFails, staged, SameSpan
<1>3. ASSUME NEW s \in Stager, Evict(s) PROVE SameSpan(meta, meta')
  BY <1>3 DEF Evict, Removed, staged, SameSpan
<1>4. ASSUME NEW s \in Stager, StrikeOrClear(s) PROVE SameSpan(meta, meta')
  BY <1>1, <1>4 DEF StrikeOrClear, SameSpan, Meta
<1>5. CASE \E w \in Window : Skip(w)
  BY <1>5 DEF Skip, staged, SameSpan
<1>6. CASE Tick
  <2>1. idle # 2 /\ ~left
    BY <1>6, TickStep
  <2>2. metaAge # 2
    BY <2>1 DEF AgeInv, StateInv, TypeInv
  <2> QED BY <1>6, <2>2 DEF Tick, SameSpan
<1>7. CASE Builder \/ BuilderStops
  <2>1. Removed \/ meta' = meta \/ StoreFails
    BY <1>7 DEF Builder, Judge, Doom, SalvageLoad, SalvageStore, Mark, Draw, Withdraw,
                Load, Store, Delete, BuilderStops, staged
  <2>2. Removed => left'
    BY DEF Removed
  <2>3. StoreFails => SameSpan(meta, meta')
    BY <1>1 DEF StoreFails, SameSpan, Meta
  <2> QED BY <2>1, <2>2, <2>3 DEF SameSpan
<1>8. CASE UNCHANGED vars
  BY <1>8 DEF vars, SameSpan
<1> QED BY <1>2, <1>3, <1>4, <1>5, <1>6, <1>7, <1>8 DEF Next, Proceeds

(* What is supposed of a post: of two of its articles, the one follows the   *)
(* other through articles less than a fetch apart; and where foldSpans may   *)
(* fail, the post is no longer than that.                                    *)
Neighbours(P) ==
    \A a, b \in P : a.num < b.num =>
        /\ \E c \in P : a.num < c.num /\ c.num <= a.num + Batch
        /\ \E c \in P : b.num - Batch <= c.num /\ c.num < b.num
Short(P) == \A a, b \in P : b.num <= a.num + Batch
Contiguous == \A w \in Worlds : /\ Neighbours(w.post)
                                /\ "span" \in w.faults => Short(w.post)

(* The span is of posted articles, and of every window whose batch has got   *)
(* past it, where it is never lost.                                          *)
Spanning(s) == stager[s].phase \notin {"idle", "put", "folded"}
Noted(w)    == \A a \in In(w) : meta.lo > 0 /\ meta.lo <= a.num /\ a.num <= meta.hi
Spread == /\ meta.lo = 0 => meta.hi = 0
          /\ meta.lo > 0 => \E a, b \in post :
                                a.num = meta.lo /\ b.num = meta.hi /\ a.num <= b.num
SpanInv ==
    /\ ~left =>
          /\ Spread
          /\ "span" \notin world.faults =>
                /\ \A w \in done : Noted(w)
                /\ \A s \in Stager : Spanning(s) => Noted(stager[s].win)
    /\ WalkPastFinal

LEMMA WindowsMultiples ==
    ASSUME NEW n \in Nat \ {0}, NEW u \in Nat, NEW v \in Nat,
           u % n = 0, v % n = 0, u < v
    PROVE  u + n <= v
<1>1. u = n * (u \div n) /\ v = n * (v \div n) /\ u \div n \in Int /\ v \div n \in Int
  OBVIOUS
<1>2. PICK i \in Int, j \in Int : u = n * i /\ v = n * j
  BY <1>1
<1>3. i < j
  BY <1>2
<1>4. n * (i + 1) <= n * j
  BY <1>3
<1>5. n * (i + 1) = n * i + n
  OBVIOUS
<1> QED
  BY <1>2, <1>4, <1>5

(* The windows do not overlap.                                               *)
LEMMA OneWindow ==
    ASSUME NEW v \in Window, NEW w \in Window, NEW n,
           n \in v[1]..v[2], n \in w[1]..w[2]
    PROVE  v = w
<1>1. PICK i \in 1..Top : v = <<i, i + Batch - 1>> /\ (i - 1) % Batch = 0
  BY DEF Window
<1>2. PICK j \in 1..Top : w = <<j, j + Batch - 1>> /\ (j - 1) % Batch = 0
  BY DEF Window
<1>3. Batch \in Nat \ {0} /\ Top \in Nat
  BY Numbers
<1>4. PICK u \in Nat, x \in Nat : u = i - 1 /\ x = j - 1
  BY <1>3
<1>5. u % Batch = 0 /\ x % Batch = 0
  BY <1>1, <1>2, <1>4
<1>6. n \in Int /\ u + 1 <= n /\ n <= u + Batch /\ x + 1 <= n /\ n <= x + Batch
  BY <1>1, <1>2, <1>3, <1>4
<1>7. ~(u < x)
  <2>1. u < x => u + Batch <= x BY <1>3, <1>5, WindowsMultiples
  <2> QED BY <1>3, <1>6, <2>1
<1>8. ~(x < u)
  <2>1. x < u => x + Batch <= u BY <1>3, <1>5, WindowsMultiples
  <2> QED BY <1>3, <1>6, <2>1
<1>9. i = j
  BY <1>4, <1>7, <1>8
<1> QED BY <1>1, <1>2, <1>9

LEMMA DeadIsFinal ==
    ASSUME StateInv, Contiguous, WalkPastDead,
           Spread,
           "span" \notin world.faults => \A w \in done : Noted(w)
    PROVE  \A w \in Window \ done : In(w) = {}
<1>1. /\ world \in Worlds /\ done \subseteq Window
      /\ Neighbours(post) /\ ("span" \in world.faults => Short(post))
      /\ post \subseteq Article
  BY WorldTypes DEF Contiguous, StateInv, TypeInv, post
<1>2. PICK l \in post, h \in post : l.num = meta.lo /\ h.num = meta.hi /\ l.num <= h.num
  BY DEF WalkPastDead, Spread
<1>3. \A a \in post : a.num \in Nat /\ a.num >= 1
  BY <1>1, ArticleTypes, Numbers
<1>4. Batch \in Nat \ {0}
  BY Numbers
<1>5. \A n \in Int : n >= 1 /\ meta.lo - Batch <= n /\ n <= meta.hi + Batch => n \in Covered
  <2>1. meta.lo \in Nat /\ meta.hi \in Nat
    BY <1>2, <1>3
  <2>2. PICK d \in Int, o \in Int : d = meta.lo - Batch /\ o = 1
    BY <1>4, <2>1
  <2>3. MaxOf({o, d}) \in Int /\ (MaxOf({o, d}) = o \/ MaxOf({o, d}) = d)
    <3>1. o \in Int /\ d \in Int OBVIOUS
    <3> QED BY <3>1, MaxOfTwo
  <2>4. MaxOf({o, d})..(meta.hi + Batch) \subseteq Covered
    BY <2>2 DEF WalkPastDead
  <2>5. PICK b \in Int, m \in Int : b = meta.hi + Batch /\ m = MaxOf({o, d})
    BY <1>4, <2>1, <2>3
  <2>6. SUFFICES ASSUME NEW n \in Int, n >= 1, d <= n, n <= b PROVE n \in Covered
    BY <2>2, <2>5
  <2>7. m <= n
    BY <2>2, <2>3, <2>5, <2>6
  <2>8. n \in m..b
    BY <2>5, <2>6, <2>7
  <2> QED BY <2>4, <2>5, <2>8
<1>6. SUFFICES ASSUME NEW w \in Window \ done, NEW a \in In(w) PROVE FALSE
  OBVIOUS
<1>7. a \in post /\ a.num \in w[1]..w[2]
  <2>1. w[1] \in Int /\ w[2] \in Int
    BY <1>4, Numbers DEF Window
  <2> QED BY <1>3, <2>1 DEF In
<1>8. a.num \notin Covered
  <2>1. SUFFICES ASSUME NEW v \in done, a.num \in v[1]..v[2] PROVE FALSE
    BY DEF Covered
  <2>2. v = w
    BY <1>1, <1>7, <2>1, OneWindow
  <2> QED BY <2>2
<1>9. ASSUME "span" \notin world.faults, NEW c \in post, c.num \in Covered
      PROVE  meta.lo <= c.num /\ c.num <= meta.hi
  <2>1. PICK v \in done : c.num \in v[1]..v[2]
    BY <1>9 DEF Covered
  <2>2. c \in In(v)
    BY <1>1, <1>3, <2>1, Numbers DEF In, Window
  <2> QED BY <1>9, <2>1, <2>2 DEF Noted
<1>10. CASE "span" \in world.faults
  <2>1. a.num <= l.num + Batch /\ h.num <= a.num + Batch /\ l.num <= a.num + Batch
    BY <1>1, <1>2, <1>7, <1>10 DEF Short
  <2>2. a.num <= h.num + Batch
    BY <1>1, <1>2, <1>7, <1>10 DEF Short
  <2> QED BY <1>2, <1>3, <1>4, <1>5, <1>7, <1>8, <2>1, <2>2
<1>11. CASE "span" \notin world.faults
  <2>1. a.num > meta.hi + Batch \/ a.num < meta.lo - Batch
    BY <1>2, <1>3, <1>4, <1>5, <1>7, <1>8
  <2>2. CASE a.num > meta.hi + Batch
    <3>1. h.num < a.num
      BY <1>2, <1>3, <1>4, <1>7, <2>2
    <3>2. PICK c \in post : h.num < c.num /\ c.num <= h.num + Batch
      BY <1>1, <1>2, <1>7, <3>1 DEF Neighbours
    <3>3. c.num \in Covered
      BY <1>2, <1>3, <1>4, <1>5, <3>2
    <3>4. c.num <= meta.hi
      BY <1>9, <1>11, <3>3
    <3> QED BY <1>2, <1>3, <3>2, <3>4
  <2>3. CASE a.num < meta.lo - Batch
    <3>1. a.num < l.num
      BY <1>2, <1>3, <1>4, <1>7, <2>3
    <3>2. PICK c \in post : l.num - Batch <= c.num /\ c.num < l.num
      BY <1>1, <1>2, <1>7, <3>1 DEF Neighbours
    <3>4. c.num \in Covered
      BY <1>2, <1>3, <1>4, <1>5, <3>2
    <3>5. meta.lo <= c.num
      BY <1>9, <1>11, <3>4
    <3> QED BY <1>2, <1>3, <3>2, <3>5
  <2> QED BY <2>1, <2>2, <2>3
<1> QED BY <1>10, <1>11

(* The builder judges at Judge alone.                                        *)
LEMMA Judged ==
    ASSUME StateInv, [Next]_vars, builder'.phase \in {"doom", "salvage"}
    PROVE  done \subseteq done' /\ (builder' = builder \/ Judge)
<1>0. builder \in Builders
  BY DEF StateInv, TypeInv
<1>1. ASSUME NEW s \in Stager, Finishes(s) \/ StageFails(s)
      PROVE  done \subseteq done' /\ builder' = builder
  <2>1. Busy(s) /\ Ends(s) /\ UNCHANGED <<world, builder>>
    BY <1>1, FinishStep, FailStep
  <2> QED BY <2>1, EndsBatch
<1>2. ASSUME NEW s \in Stager, PutArticles(s) \/ FoldMeta(s) \/ FoldSpan(s) \/ Check(s)
      PROVE  done' = done /\ builder' = builder
  BY <1>2 DEF PutArticles, FoldMeta, FoldSpan, Check
<1>3. Tick \/ UNCHANGED vars \/ (\E w \in Window : Skip(w)) => done \subseteq done' /\ builder' = builder
  BY DEF Tick, vars, Skip
<1>4. ASSUME Builder \/ BuilderStops PROVE done' = done /\ Judge
  <2>1. done' = done
    BY <1>4, BuilderStep
  <2>2. Doom \/ Withdraw \/ Delete \/ BuilderStops => builder' = NoBuilder
    BY DEF Doom, Withdraw, Delete, BuilderStops
  <2>3. Load => builder' \in [phase : {"idle", "demote", "delete", "store"},
                              arts : {art, {}}, broken : {FALSE}]
    BY DEF Load, NoBuilder
  <2>4. SalvageLoad => builder'.phase \in {"idle", "delete", "salvage-store"}
    BY DEF SalvageLoad, NoBuilder
  <2>5. \A p : [builder EXCEPT !.phase = p].phase = p
    BY <1>0 DEF Builders
  <2>6. SalvageStore \/ Mark \/ Draw \/ Store \/ StoreFails =>
            builder'.phase \in {"idle", "mark", "delete", "drawn", "stale"}
    <3>1. SalvageStore => builder'.phase \in {"mark", "delete"}
      BY <2>5 DEF SalvageStore, NextPhase
    <3>2. Mark \/ Store => builder'.phase = "delete"
      BY <2>5 DEF Mark, Store
    <3>3. Draw => builder'.phase \in {"drawn", "stale"}
      BY <2>5 DEF Draw, Drawn
    <3>4. StoreFails => builder'.phase \in {"delete", "idle"}
      BY <2>5 DEF StoreFails, NoBuilder
    <3> QED BY <3>1, <3>2, <3>3, <3>4
  <2>7. NoBuilder.phase = "idle"
    BY DEF NoBuilder
  <2> QED BY <1>4, <2>1, <2>2, <2>3, <2>4, <2>6, <2>7 DEF Builder
<1> QED BY <1>1, <1>2, <1>3, <1>4 DEF Next, Proceeds, Finishes

LEMMA SpanEffect ==
    ASSUME StateInv, NEW s \in Stager, FoldSpan(s)
    PROVE  \/ meta' = meta /\ "span" \in world.faults
           \/ \E l \in NumsIn(stager[s].win) \cup ({meta.lo} \ {0}),
                 h \in NumsIn(stager[s].win) \cup {meta.hi} :
                 /\ meta' = [meta EXCEPT !.lo = l, !.hi = h]
                 /\ meta'.lo = l /\ meta'.hi = h /\ l > 0 /\ l <= h
                 /\ meta.lo > 0 => l <= meta.lo
                 /\ meta.hi <= h
                 /\ \A n \in NumsIn(stager[s].win) : l <= n /\ n <= h
<1> DEFINE N == NumsIn(stager[s].win)
<1>1. world \in Worlds /\ meta \in Meta
  BY DEF StateInv, TypeInv
<1>2. Busy(s) /\ (meta' = Spanned(meta, N) \/ (meta' = meta /\ "span" \in world.faults))
  BY SpanStep
<1>3. N \subseteq 1..Top /\ N # {}
  <2>1. In(stager[s].win) # {} BY <1>2 DEF StateInv, BusyInv
  <2>2. In(stager[s].win) \subseteq Article BY <1>1, InPost
  <2> QED BY <2>1, <2>2, ArticleTypes DEF NumsIn
<1>4. \A n \in N : n \in Nat /\ n > 0
  BY <1>3, Numbers
<1> HIDE DEF N
<1>5. CASE meta' = Spanned(meta, N)
  <2>1. PICK l \in N \cup ({meta.lo} \ {0}), h \in N \cup {meta.hi} :
             /\ Spanned(meta, N) = [meta EXCEPT !.lo = l, !.hi = h]
             /\ meta.lo # 0 => l <= meta.lo
             /\ meta.hi <= h
             /\ \A n \in N : l <= n /\ n <= h
    BY <1>1, <1>3, SpannedType
  <2>2. meta.lo \in Nat /\ meta.hi \in Nat
    BY <1>1, Numbers DEF Meta
  <2>3. l \in Nat /\ h \in Nat /\ l > 0
    BY <1>4, <2>2
  <2>4. l <= h
    <3>1. PICK n \in N : TRUE BY <1>3
    <3> QED BY <1>4, <2>1, <2>3, <3>1
  <2>5. meta'.lo = l /\ meta'.hi = h
    BY <1>1, <1>5, <2>1 DEF Meta
  <2>6. meta' = [meta EXCEPT !.lo = l, !.hi = h] /\ (meta.lo > 0 => l <= meta.lo)
    BY <1>5, <2>1, <2>2
  <2> QED BY <2>1, <2>3, <2>4, <2>5, <2>6 DEF N
<1> QED BY <1>2, <1>5

LEMMA SpanNext ==
    ASSUME Contiguous
    PROVE  StateInv /\ AgeInv /\ SpanInv /\ [Next]_vars => SpanInv'
<1> SUFFICES ASSUME StateInv, AgeInv, SpanInv, [Next]_vars PROVE SpanInv'
  OBVIOUS
<1>1. world' = world /\ post' = post
  BY WindowStep DEF post
<1>2. ASSUME NEW w PROVE In(w)' = In(w)
  BY <1>1 DEF In
<1>3. stager \in [Stager -> Workers] /\ world \in Worlds /\ meta \in Meta
      /\ done \subseteq Window
  BY DEF StateInv, TypeInv
<1>4. ASSUME ~left'
      PROVE  /\ Spread'
             /\ "span" \notin world.faults =>
                   /\ \A w \in done' : Noted(w)'
                   /\ \A s \in Stager : Spanning(s)' => Noted(stager[s].win)'
  <2>1. /\ ~left /\ Spread
        /\ "span" \notin world.faults =>
              /\ \A w \in done : Noted(w)
              /\ \A s \in Stager : Spanning(s) => Noted(stager[s].win)
    BY <1>4, StillStaged DEF SpanInv
  <2>2. \/ meta'.lo = meta.lo /\ meta'.hi = meta.hi
        \/ \E s \in Stager : FoldSpan(s)
    <3>1. CASE SameSpan(meta, meta')
      BY <3>1 DEF SameSpan
    <3>2. ASSUME NEW s \in Stager, FoldMeta(s) PROVE meta'.lo = meta.lo /\ meta'.hi = meta.hi
      <4>1. meta' = Folded(meta, In(stager[s].win))
        BY <3>2, FoldStep
      <4> QED BY <1>3, <4>1, InPost, FoldedType
    <3> QED BY <1>4, <3>1, <3>2, MetaStep
  <2>3. meta.lo \in Nat /\ meta.hi \in Nat
    BY <1>3, Numbers DEF Meta
  <2>4. \A a \in post : a.num \in Nat
    BY <1>3, WorldTypes, ArticleTypes, Numbers DEF post
  <2>5. ASSUME NEW w, Noted(w) PROVE Noted(w)'
    <3>1. CASE meta'.lo = meta.lo /\ meta'.hi = meta.hi
      BY <1>1, <2>5, <3>1 DEF Noted, In
    <3>2. ASSUME NEW s \in Stager, FoldSpan(s) PROVE Noted(w)'
      <4>1. CASE meta' = meta
        BY <1>1, <2>5, <4>1 DEF Noted, In
      <4>2. CASE meta' # meta
        <5>1. /\ meta'.lo \in Int /\ meta'.lo > 0 /\ (meta.lo > 0 => meta'.lo <= meta.lo)
              /\ meta'.hi \in Int /\ meta.hi <= meta'.hi
          <6>1. \A n \in NumsIn(stager[s].win) : n \in Nat
            BY <2>4 DEF In, NumsIn
          <6>2. PICK l \in NumsIn(stager[s].win) \cup ({meta.lo} \ {0}),
                     h \in NumsIn(stager[s].win) \cup {meta.hi} :
                   /\ meta'.lo = l /\ meta'.hi = h /\ l > 0
                   /\ meta.lo > 0 => l <= meta.lo
                   /\ meta.hi <= h
            BY <3>2, <4>2, SpanEffect
          <6>3. l \in Int /\ h \in Int
            BY <2>3, <6>1
          <6> QED BY <6>2, <6>3
        <5>2. \A a \in In(w) : meta.lo > 0 /\ meta.lo <= a.num /\ a.num <= meta.hi /\ a.num \in Nat
          BY <2>4, <2>5 DEF Noted, In
        <5>3. \A a \in In(w) : meta'.lo > 0 /\ meta'.lo <= a.num /\ a.num <= meta'.hi
          BY <2>3, <5>1, <5>2
        <5> QED BY <1>2, <5>3 DEF Noted
      <4> QED BY <4>1, <4>2
    <3> QED BY <2>2, <3>1, <3>2
  <2>6. ASSUME NEW s \in Stager, FoldSpan(s), "span" \notin world.faults
        PROVE  Noted(stager[s].win)'
    <3>1. stager'[s].win = stager[s].win
      BY <1>3, <2>6, SpanStep DEF Workers
    <3>2. \A a \in In(stager[s].win) : meta'.lo > 0 /\ meta'.lo <= a.num /\ a.num <= meta'.hi
      BY <2>6, SpanEffect DEF NumsIn
    <3> QED BY <1>1, <3>1, <3>2 DEF Noted, In
  <2>7. Spread'
    <3>1. CASE meta'.lo = meta.lo /\ meta'.hi = meta.hi
      BY <1>1, <2>1, <3>1 DEF Spread
    <3>2. ASSUME NEW s \in Stager, FoldSpan(s) PROVE Spread'
      <4>1. CASE meta' = meta
        BY <1>1, <2>1, <4>1 DEF Spread
      <4>2. CASE meta' # meta
        <5> DEFINE N == NumsIn(stager[s].win)
        <5>1. PICK l \in N \cup ({meta.lo} \ {0}), h \in N \cup {meta.hi} :
                 /\ meta'.lo = l /\ meta'.hi = h /\ l > 0 /\ l <= h
                 /\ meta.lo > 0 => l <= meta.lo
                 /\ meta.hi <= h
                 /\ \A n \in N : l <= n /\ n <= h
          BY <3>2, <4>2, SpanEffect
        <5>2. \A n \in N : \E a \in post : a.num = n
          BY DEF In, NumsIn
        <5>3. \E a \in post : a.num = l
          <6>1. CASE l \in N
            BY <5>2, <6>1
          <6>2. CASE l \notin N
            <7>1. l = meta.lo /\ meta.lo > 0 BY <2>3, <5>1, <6>2
            <7> QED BY <2>1, <7>1 DEF Spread
          <6> QED BY <6>1, <6>2
        <5>4. \E a \in post : a.num = h
          <6>1. CASE h \in N
            BY <5>2, <6>1
          <6>2. CASE h \notin N /\ meta.lo > 0
            BY <2>1, <5>1, <6>2 DEF Spread
          <6>3. CASE h \notin N /\ meta.lo = 0
            <7>1. l \in N BY <5>1, <6>3
            <7>2. l \in Nat /\ l > 0 /\ l <= h BY <2>4, <5>1, <5>2, <7>1
            <7>3. h = meta.hi /\ meta.hi = 0 BY <2>1, <5>1, <6>3 DEF Spread
            <7> QED BY <7>2, <7>3
          <6> QED BY <2>3, <6>1, <6>2, <6>3
        <5> QED BY <1>1, <5>1, <5>3, <5>4 DEF Spread
      <4> QED BY <4>1, <4>2
    <3> QED BY <2>2, <3>1, <3>2
  <2>8. ASSUME "span" \notin world.faults, NEW w \in done' PROVE Noted(w)'
    <3>1. CASE w \in done
      BY <2>1, <2>5, <2>8, <3>1
    <3>2. CASE In(w) = {}
      BY <1>2, <3>2 DEF Noted
    <3>3. ASSUME NEW s \in Stager, Finishes(s), stager[s].win = w PROVE Noted(w)'
      <4>1. Spanning(s)
        BY <3>3, FinishStep DEF Spanning
      <4> QED BY <2>1, <2>5, <2>8, <3>3, <4>1
    <3> QED BY <3>1, <3>2, <3>3, WindowStep
  <2>9. ASSUME "span" \notin world.faults, NEW s \in Stager, Spanning(s)'
        PROVE  Noted(stager[s].win)'
    <3>1. CASE Spanning(s) /\ stager'[s].win = stager[s].win
      <4>1. PICK w : w = stager[s].win OBVIOUS
      <4>2. Noted(w)' BY <2>1, <2>5, <2>9, <3>1, <4>1
      <4> QED BY <3>1, <4>1, <4>2 DEF Noted, In
    <3>2. CASE FoldSpan(s)
      BY <2>6, <2>9, <3>2
    <3>3. \/ Spanning(s) /\ stager'[s].win = stager[s].win
          \/ FoldSpan(s)
      <4>1. CASE stager'[s] = stager[s]
        BY <2>9, <4>1 DEF Spanning
      <4>2. CASE PutArticles(s)
        BY <2>9, <4>2, PutStep DEF Spanning
      <4>3. CASE FoldMeta(s)
        BY <2>9, <4>3, FoldStep DEF Spanning
      <4>4. CASE Check(s)
        <5>1. stager[s].phase = "spanned"
              /\ stager'[s] = [stager[s] EXCEPT !.phase = Outcome(stager[s])]
          BY <4>4, CheckStep
        <5>2. stager'[s].win = stager[s].win BY <1>3, <5>1 DEF Workers
        <5> QED BY <5>1, <5>2 DEF Spanning
      <4>5. CASE stager'[s] = NoStager
        BY <2>9, <4>5 DEF Spanning, NoStager
      <4> QED BY <4>1, <4>2, <4>3, <4>4, <4>5, WorkerStep
    <3> QED BY <3>1, <3>2, <3>3
  <2> QED BY <2>7, <2>8, <2>9
<1>5. WalkPastFinal'
  <2>1. SUFFICES ASSUME builder'.phase \in {"doom", "salvage"}, ~left',
                        NEW w \in Window \ done'
                 PROVE  In(w) = {}
    BY <1>2 DEF WalkPastFinal
  <2>2. done \subseteq done' /\ (builder' = builder \/ Judge)
    BY <2>1, Judged
  <2>3. ~left
    BY <2>1, StillStaged
  <2>4. CASE builder' = builder
    BY <2>1, <2>2, <2>3, <2>4 DEF SpanInv, WalkPastFinal
  <2>5. CASE Judge
    <3>1. WalkPastDead BY <2>5 DEF Judge
    <3>2. \A v \in Window \ done : In(v) = {}
      BY <2>3, <3>1, DeadIsFinal DEF SpanInv
    <3> QED BY <2>1, <2>2, <3>2
  <2> QED BY <2>2, <2>4, <2>5
<1>6. ~left' => /\ Spread'
                /\ "span" \notin world'.faults =>
                      /\ \A w \in done' : Noted(w)'
                      /\ \A s \in Stager : Spanning(s)' => Noted(stager[s].win)'
  BY <1>1, <1>4
<1> QED BY <1>5, <1>6 DEF SpanInv

(* WalkPastFinal: a set is given up, the first time, only when nothing that  *)
(* could still be fetched belongs to it, provided that posts are contiguous  *)
(* and, where the span may fail to be recorded, short (walkPastDead: the     *)
(* span seen and a fetch on either side are covered).                        *)
THEOREM AbsenceIsFinal ==
    ASSUME Contiguous
    PROVE  Spec => []WalkPastFinal
<1>1. Init => SpanInv
  BY DEF Init, SpanInv, Spread, Spanning, WalkPastFinal, NoMeta, NoStager, NoBuilder
<1>2. StateInv /\ AgeInv /\ SpanInv /\ [Next]_vars => SpanInv'
  BY SpanNext
<1>3. SpanInv => WalkPastFinal
  BY DEF SpanInv
<1> QED BY <1>1, <1>2, <1>3, StateAlways, AgeAlways, PTL DEF Spec

---------------------------------------------------------------------------
(* The releases.  What is supposed of a post: its articles agree on how many *)
(* files there are, and those of one file on its parts and its kind; parts   *)
(* and files are numbered within what is claimed, but for a file 0 of a      *)
(* numbered post.                                                            *)
Agreed(P)   == \A a, b \in P : /\ a.files = b.files
                               /\ a.file = b.file => a.parts = b.parts /\ a.par2 = b.par2
Numbered(P) == \A a \in P : /\ a.file <= a.files
                            /\ a.files = 0 \/ a.file > 0 => a.part \in 1..a.parts
SoundPosts  == \A w \in Worlds : Agreed(w.post) /\ Numbered(w.post)

LEMMA SoundPost ==
    ASSUME SoundPosts, StateInv
    PROVE  post \subseteq Article /\ Agreed(post) /\ Numbered(post)
BY WorldTypes DEF SoundPosts, StateInv, TypeInv, post

LEMMA PartsTypes ==
    ASSUME NEW A, A \subseteq Article, NEW f
    PROVE  /\ PartsOf(A, f) \subseteq 0..MaxParts /\ IsFiniteSet(PartsOf(A, f))
           /\ Cardinality(PartsOf(A, f)) \in 0..(MaxParts + 1)
<1>1. PartsOf(A, f) \subseteq 0..MaxParts
  BY ArticleTypes DEF PartsOf
<1>2. IsFiniteSet(0..MaxParts) /\ Cardinality(0..MaxParts) = MaxParts + 1
  <2>1. 0 \in Int /\ MaxParts \in Int /\ MaxParts >= 0 BY Numbers
  <2> QED BY <2>1, FS_Interval
<1>3. IsFiniteSet(PartsOf(A, f)) /\ Cardinality(PartsOf(A, f)) <= MaxParts + 1
  BY <1>1, <1>2, FS_Subset
<1>4. Cardinality(PartsOf(A, f)) \in Nat
  BY <1>3, FS_CardinalityType
<1> QED BY <1>1, <1>3, <1>4, Numbers

(* As many parts as are claimed are all the parts.                           *)
LEMMA AllParts ==
    ASSUME NEW P, P \subseteq Article, Agreed(P), Numbered(P), NEW A \in SUBSET P,
           NEW b \in A, b.files = 0 \/ b.file > 0,
           Cardinality(PartsOf(A, b.file)) >= b.parts
    PROVE  1..b.parts \subseteq PartsOf(A, b.file)
<1> DEFINE S == PartsOf(A, b.file)
<1>1. b.parts \in Nat
  BY ArticleTypes, Numbers
<1>2. S \subseteq 1..b.parts
  BY DEF PartsOf, Agreed, Numbered
<1>3. IsFiniteSet(1..b.parts) /\ Cardinality(1..b.parts) = b.parts
  <2>1. 1 \in Int /\ b.parts \in Int /\ b.parts >= 0 BY <1>1
  <2> QED BY <2>1, FS_Interval
<1>4. Cardinality(S) <= b.parts /\ (Cardinality(S) = b.parts => S = 1..b.parts)
  BY <1>2, <1>3, FS_Subset
<1>5. Cardinality(S) \in Int
  <2>1. A \subseteq Article OBVIOUS
  <2> QED BY <2>1, PartsTypes, Numbers
<1> HIDE DEF S
<1>6. Cardinality(S) = b.parts
  BY <1>1, <1>4, <1>5 DEF S
<1> QED BY <1>4, <1>6 DEF S

LEMMA FilesClaimed ==
    ASSUME NEW P, P \subseteq Article, Agreed(P), NEW A \in SUBSET P, NEW b \in A
    PROVE  MaxOf({a.files : a \in A}) = b.files
<1>1. {a.files : a \in A} = {b.files}
  BY DEF Agreed
<1>2. b.files \in 0..MaxFile /\ MaxFile \in Nat
  BY ArticleTypes, Numbers
<1>3. {b.files} \subseteq 0..MaxFile /\ {b.files} # {}
  BY <1>2
<1>4. MaxOf({b.files}) \in {b.files}
  BY <1>2, <1>3, MaxOfIs
<1> QED BY <1>1, <1>4

LEMMA EmptyIncomplete == ~IsComplete({})
<1>1. {a.files : a \in {}} = {} /\ {a.parts : a \in {}} = {}
  OBVIOUS
<1>2. MaxOf({}) = 0
  BY DEF MaxOf
<1> QED BY <1>1, <1>2 DEF IsComplete

LEMMA CompleteIsWhole ==
    ASSUME post \subseteq Article, Agreed(post), Numbered(post),
           NEW A \in SUBSET post, IsComplete(A)
    PROVE  Whole(A)
<1>1. PICK c \in A : TRUE
  BY EmptyIncomplete
<1> DEFINE F == MaxOf({a.files : a \in A})
           p == MaxOf({a.parts : a \in A})
<1>2. F = c.files /\ \A a \in post : a.files = c.files
  BY <1>1, FilesClaimed DEF Agreed
<1>3. \A a \in post : a.file \in Nat /\ a.files \in Nat /\ a.parts \in Nat
  BY ArticleTypes, Numbers DEF File
<1>4. IF F > 0
      THEN /\ \A a \in A : Cardinality(PartsOf(A, a.file)) >= a.parts
           /\ 1..F \subseteq FilesOf(A)
      ELSE p > 0 /\ 1..p \subseteq {a.part : a \in A}
  BY DEF IsComplete
<1> SUFFICES ASSUME NEW a \in post
             PROVE  /\ 1..a.files \subseteq FilesOf(A)
                    /\ (a.files > 0 => a.file > 0) => 1..a.parts \subseteq PartsOf(A, a.file)
  BY DEF Whole
<1>5. CASE F > 0
  <2>1. 1..a.files \subseteq FilesOf(A)
    BY <1>2, <1>4, <1>5
  <2>2. ASSUME a.file > 0 PROVE 1..a.parts \subseteq PartsOf(A, a.file)
    <3>1. a.file \in 1..a.files
      BY <1>3, <2>2 DEF Numbered
    <3>2. PICK b \in A : b.file = a.file
      BY <2>1, <3>1 DEF FilesOf
    <3>3. b.parts = a.parts
      BY <3>2 DEF Agreed
    <3>4. Cardinality(PartsOf(A, b.file)) >= b.parts /\ b.file > 0
      BY <1>4, <1>5, <2>2, <3>2
    <3>5. 1..b.parts \subseteq PartsOf(A, b.file)
      BY <3>4, AllParts
    <3> QED BY <3>2, <3>3, <3>5
  <2> QED BY <1>2, <1>5, <2>1, <2>2
<1>6. CASE ~(F > 0)
  <2>1. a.files = 0 /\ \A b \in post : b.file = 0 /\ b.parts = a.parts
    <3>1. a.files = 0 /\ \A b \in post : b.files = 0
      BY <1>2, <1>3, <1>6
    <3>2. \A b \in post : b.file = 0
      BY <1>3, <3>1 DEF Numbered
    <3> QED BY <3>1, <3>2 DEF Agreed
  <2>2. p = a.parts
    <3>1. {b.parts : b \in A} = {a.parts}
      BY <1>1, <2>1
    <3>2. a.parts \in 0..MaxParts /\ MaxParts \in Nat
      BY ArticleTypes, Numbers
    <3>3. {a.parts} \subseteq 0..MaxParts /\ {a.parts} # {}
      BY <3>2
    <3>4. MaxOf({a.parts}) \in {a.parts}
      BY <3>2, <3>3, MaxOfIs
    <3> QED BY <3>1, <3>4
  <2>3. {b.part : b \in A} = PartsOf(A, a.file)
    BY <2>1 DEF PartsOf
  <2> QED BY <1>4, <1>6, <2>1, <2>2, <2>3
<1> QED BY <1>5, <1>6

(* A tally that finds nothing lacking, of data held or of files unseen.      *)
LEMMA NothingLacking ==
    ASSUME post \subseteq Article, Agreed(post), Numbered(post),
           NEW A \in SUBSET post, A # {}, ~(MissingData(A) > 0)
    PROVE  Whole(A)
<1> DEFINE D == DataFiles(A)
           n == Cardinality(Absent(A))
           e == Estimate(A, D)
<1>0. A \subseteq Article
  OBVIOUS
<1>1. \A a \in post : a.file \in File /\ a.file \in Nat /\ a.files \in 0..MaxFile
                      /\ a.files \in Nat /\ a.parts \in Nat /\ a.parts \in 0..(MaxParts + 1)
  BY ArticleTypes, Numbers DEF File
<1>2. D \subseteq File /\ IsFiniteSet(D) /\ IsFiniteSet(File)
  <2>1. D \subseteq File
    BY <1>1 DEF DataFiles, FilesOf
  <2>2. 0 \in Int /\ MaxFile \in Int BY Numbers
  <2>3. IsFiniteSet(File)
    BY <2>2, FS_Interval DEF File
  <2> HIDE DEF D
  <2> QED BY <2>1, <2>3, FS_Subset
<1>3. \A f \in File : Count(A)[f] \in Int /\ Count(A)[f] = Cardinality(PartsOf(A, f))
  BY <1>0, PartsTypes, Numbers DEF Count
<1>4. ASSUME NEW f \in File
      PROVE  /\ Claim(A)[f] \in Int /\ Count(A)[f] <= Claim(A)[f]
             /\ \A b \in A : b.file = f => b.parts <= Claim(A)[f]
  <2> DEFINE S == {Count(A)[f]} \cup {a.parts : a \in {b \in A : b.file = f}}
  <2>1. S \subseteq 0..(MaxParts + 1)
    <3>1. Count(A)[f] \in 0..(MaxParts + 1)
      BY <1>0, PartsTypes DEF Count
    <3>2. \A x \in {a.parts : a \in {b \in A : b.file = f}} : x \in 0..(MaxParts + 1)
      BY <1>1
    <3> QED BY <3>1, <3>2
  <2>2. Claim(A)[f] = MaxOf(S)
    BY DEF Claim
  <2>3. MaxParts + 1 \in Nat BY Numbers
  <2>4. Count(A)[f] \in S /\ \A b \in A : b.file = f => b.parts \in S
    OBVIOUS
  <2> HIDE DEF S
  <2>5. MaxOf(S) \in 0..(MaxParts + 1) /\ \A y \in S : y <= MaxOf(S)
    BY <2>1, <2>3, MaxOfIs
  <2> QED BY <2>2, <2>4, <2>5
<1>5. Absent(A) \subseteq 1..MaxFile /\ IsFiniteSet(Absent(A)) /\ n \in Nat
  <2>1. MaxOf({a.files : a \in A}) \in 0..MaxFile
    <3>1. {a.files : a \in A} \subseteq 0..MaxFile BY <1>1
    <3>2. MaxFile \in Nat BY Numbers
    <3> QED BY <3>1, <3>2, MaxOfIs
  <2>2. Absent(A) \subseteq 1..MaxFile
    BY <2>1, Numbers DEF Absent
  <2>3. 1 \in Int /\ MaxFile \in Int BY Numbers
  <2>4. IsFiniteSet(1..MaxFile) BY <2>3, FS_Interval
  <2>5. IsFiniteSet(Absent(A)) BY <2>2, <2>4, FS_Subset
  <2> QED BY <2>2, <2>5, FS_CardinalityType
<1>6. SumFunctionOnSet(Count(A), D) \in Int /\ SumFunctionOnSet(Claim(A), D) \in Int
      /\ SumFunctionOnSet(Count(A), D) <= SumFunctionOnSet(Claim(A), D)
  <2>1. /\ \A f \in D : Count(A)[f] \in Int
        /\ \A f \in D : Claim(A)[f] \in Int
        /\ \A f \in D : Count(A)[f] <= Claim(A)[f]
    BY <1>2, <1>3, <1>4
  <2> HIDE DEF D
  <2> QED BY <1>2, <2>1, SumInt, SumLeq
<1>7. e \in Int /\ e >= 1
  <2>1. CASE D = {}
    BY <2>1 DEF Estimate
  <2>2. CASE D # {}
    <3> DEFINE k == Cardinality(D)
               x == SumFunctionOnSet(Claim(A), D)
    <3>1. k \in Nat /\ k # 0
      BY <1>2, <2>2, FS_CardinalityType, FS_EmptySet
    <3>2. x \in Int BY <1>6
    <3>3. e = MaxOf({1, x \div k})
      BY <2>2 DEF Estimate
    <3> HIDE DEF k, x, e
    <3>4. x \div k \in Int
      BY <3>1, <3>2
    <3>5. PICK q \in Int, o \in Int : q = x \div k /\ o = 1
      BY <3>4
    <3>6. MaxOf({o, q}) \in Int /\ o <= MaxOf({o, q})
      <4>1. o \in Int /\ q \in Int OBVIOUS
      <4> QED BY <4>1, MaxOfTwo
    <3> QED BY <3>3, <3>5, <3>6
  <2> QED BY <2>1, <2>2
<1>8. MissingData(A) = Lacking(A, D) + e * n
  BY DEF MissingData
<1>9. Lacking(A, D) = SumFunctionOnSet(Claim(A), D) - SumFunctionOnSet(Count(A), D)
  BY DEF Lacking
<1>10. n = 0 /\ SumFunctionOnSet(Claim(A), D) <= SumFunctionOnSet(Count(A), D)
  <2> DEFINE x == SumFunctionOnSet(Claim(A), D)
             y == SumFunctionOnSet(Count(A), D)
             m == MissingData(A)
  <2>1. x \in Int /\ y \in Int /\ y <= x /\ m = (x - y) + e * n /\ ~(m > 0)
    BY <1>6, <1>8, <1>9
  <2>2. e \in Int /\ e >= 1 /\ n \in Nat
    BY <1>5, <1>7
  <2> HIDE DEF x, y, m, e, n
  <2>3. e * n \in Int /\ e * n >= n
    BY <2>2
  <2> QED BY <2>1, <2>2, <2>3 DEF x, y
<1>11. \A f \in D : Count(A)[f] = Claim(A)[f]
  <2>1. /\ \A f \in D : Count(A)[f] \in Int
        /\ \A f \in D : Claim(A)[f] \in Int
        /\ \A f \in D : Count(A)[f] <= Claim(A)[f]
    BY <1>2, <1>3, <1>4
  <2>2. SumFunctionOnSet(Claim(A), D) <= SumFunctionOnSet(Count(A), D)
    BY <1>10
  <2> HIDE DEF D
  <2> QED BY <1>2, <2>1, <2>2, SumEqual
<1>12. Absent(A) = {}
  BY <1>5, <1>10, FS_EmptySet
<1>13. PICK c \in A : TRUE
  OBVIOUS
<1>14. 1..c.files \subseteq FilesOf(A) /\ \A a \in post : a.files = c.files
  BY <1>12, FilesClaimed DEF Absent, Agreed
<1> SUFFICES ASSUME NEW a \in post
             PROVE  /\ 1..a.files \subseteq FilesOf(A)
                    /\ ~a.par2 /\ (a.files > 0 => a.file > 0) =>
                          1..a.parts \subseteq PartsOf(A, a.file)
  BY DEF Whole
<1>15. ASSUME ~a.par2, a.files > 0 => a.file > 0
       PROVE  1..a.parts \subseteq PartsOf(A, a.file)
  <2>1. a.file \in FilesOf(A)
    <3>1. CASE a.files > 0
      <4>1. a.file \in 1..c.files
        BY <1>1, <1>14, <1>15, <3>1 DEF Numbered
      <4> QED BY <1>14, <4>1
    <3>2. CASE ~(a.files > 0)
      <4>1. a.files = 0 /\ c.files = 0
        BY <1>1, <1>14, <3>2
      <4>2. a.file = 0 /\ c.file = 0
        BY <1>1, <4>1 DEF Numbered
      <4> QED BY <4>2 DEF FilesOf
    <3> QED BY <3>1, <3>2
  <2>2. PICK b \in A : b.file = a.file
    BY <2>1 DEF FilesOf
  <2>3. b.parts = a.parts /\ b.par2 = a.par2 /\ b.files = a.files
    BY <2>2 DEF Agreed
  <2>4. b.file \in D
    BY <1>15, <2>2, <2>3 DEF DataFiles, Par2Files, FilesOf
  <2>5. Cardinality(PartsOf(A, b.file)) >= b.parts
    <3>1. b.file \in File BY <1>1
    <3>2. Count(A)[b.file] = Cardinality(PartsOf(A, b.file)) /\ Count(A)[b.file] \in Int
      BY <1>3, <3>1
    <3>3. b.parts <= Claim(A)[b.file] /\ b.parts \in Nat
      BY <1>1, <1>4, <3>1
    <3>4. Count(A)[b.file] = Claim(A)[b.file]
      BY <1>11, <2>4
    <3> HIDE DEF D
    <3> QED BY <3>2, <3>3, <3>4
  <2>6. b.files = 0 \/ b.file > 0
    BY <1>1, <1>15, <2>2, <2>3
  <2>7. 1..b.parts \subseteq PartsOf(A, b.file)
    BY <2>5, <2>6, AllParts
  <2> QED BY <2>2, <2>3, <2>7
<1> QED BY <1>14, <1>15

(* What the builder is about to store: a complete set, or one it has tallied *)
(* and found whole or means to mark.                                         *)
CatInv ==
    /\ builder.phase = "store" => IsComplete(builder.arts)
    /\ builder.phase = "salvage-store" => builder.broken \/ Whole(builder.arts)
    /\ StoredWhole

LEMMA NotTheBuilder ==
    ASSUME StateInv, [Next]_vars
    PROVE  Builder \/ BuilderStops \/ UNCHANGED <<builder, catalogue>>
<1>1. ASSUME NEW s \in Stager, Finishes(s) \/ StageFails(s) PROVE UNCHANGED <<builder, catalogue>>
  BY <1>1, FinishStep, FailStep
<1>2. ASSUME NEW s \in Stager, PutArticles(s) \/ FoldMeta(s) \/ FoldSpan(s) \/ Check(s)
      PROVE  UNCHANGED <<builder, catalogue>>
  BY <1>2 DEF PutArticles, FoldMeta, FoldSpan, Check
<1>3. Tick \/ UNCHANGED vars \/ (\E w \in Window : Skip(w)) => UNCHANGED <<builder, catalogue>>
  BY DEF Tick, vars, Skip
<1> QED BY <1>1, <1>2, <1>3 DEF Next, Proceeds, Finishes

NoUnmarked == \A w \in Worlds : "mark" \notin w.faults

LEMMA CatNext ==
    ASSUME SoundPosts, NoUnmarked
    PROVE  StateInv /\ CatInv /\ [Next]_vars => CatInv'
<1> SUFFICES ASSUME StateInv, CatInv, [Next]_vars PROVE CatInv'
  OBVIOUS
<1>1. world' = world /\ \A A : Whole(A)' <=> Whole(A)
  <2>1. world' = world BY WindowStep
  <2> QED BY <2>1 DEF Whole, post
<1>2. /\ builder \in Builders /\ catalogue \subseteq Release /\ art \subseteq post
      /\ builder.arts \subseteq post /\ "mark" \notin world.faults
  BY DEF StateInv, TypeInv, NoUnmarked
<1>3. post \subseteq Article /\ Agreed(post) /\ Numbered(post)
  BY SoundPost
<1>4. \A p : /\ [builder EXCEPT !.phase = p].phase = p
             /\ [builder EXCEPT !.phase = p].arts = builder.arts
             /\ [builder EXCEPT !.phase = p].broken = builder.broken
  BY <1>2 DEF Builders
<1>5. \A r \in catalogue : r.broken \/ Whole(r.arts) \/ (builder.phase = "mark" /\ builder.arts = r.arts)
  BY DEF CatInv, StoredWhole
(* The catalogue as it is, the builder not about to mark.                    *)
<1>6. ASSUME catalogue' = catalogue, builder.phase # "mark",
             builder'.phase = "store" => IsComplete(builder'.arts),
             builder'.phase = "salvage-store" => builder'.broken \/ Whole(builder'.arts)
      PROVE  CatInv'
  <2>1. \A r \in catalogue : r.broken \/ Whole(r.arts)
    BY <1>5, <1>6
  <2> QED BY <1>1, <1>6, <2>1 DEF CatInv, StoredWhole
<1>7. CASE UNCHANGED <<builder, catalogue>>
  BY <1>1, <1>7 DEF CatInv, StoredWhole
<1>8. NoBuilder.phase = "idle"
  BY DEF NoBuilder
<1>9. CASE Judge \/ Draw
  <2>1. /\ catalogue' = catalogue /\ builder.phase = "idle"
        /\ builder'.phase \in {"salvage", "doom", "drawn", "stale"}
    BY <1>4, <1>9 DEF Judge, Draw, Drawn
  <2> QED BY <1>6, <2>1
<1>10. CASE Doom \/ Withdraw \/ Delete
  <2>1. catalogue' = catalogue /\ builder.phase # "mark" /\ builder'.phase = "idle"
    BY <1>8, <1>10 DEF Doom, Withdraw, Delete
  <2> QED BY <1>6, <2>1
<1>11. CASE SalvageLoad
  <2>1. catalogue' = catalogue /\ builder.phase = "salvage"
    BY <1>11 DEF SalvageLoad
  <2>2. CASE art = {}
    <3>1. builder'.phase = "idle" BY <1>8, <1>11, <2>2 DEF SalvageLoad
    <3> QED BY <1>6, <2>1, <3>1
  <2>3. CASE art # {}
    <3>1. /\ builder'.phase \in {"delete", "salvage-store"}
          /\ builder'.arts = art /\ builder'.broken = (MissingData(art) > 0)
      BY <1>11, <2>3 DEF SalvageLoad
    <3>2. builder'.broken \/ Whole(builder'.arts)
      <4>1. MissingData(art) > 0 \/ Whole(art)
        BY <1>2, <1>3, <2>3, NothingLacking
      <4> QED BY <3>1, <4>1
    <3> QED BY <1>6, <2>1, <3>1, <3>2
  <2> QED BY <2>2, <2>3
<1>12. CASE Load
  <2>1. catalogue' = catalogue /\ builder.phase = "drawn"
    BY <1>12 DEF Load
  <2>2. \/ builder'.phase = "idle" \/ builder'.phase = "demote"
        \/ IsComplete(art) /\ builder'.arts = art /\ builder'.phase \in {"delete", "store"}
    BY <1>12 DEF Load, NoBuilder
  <2> QED BY <1>6, <2>1, <2>2
<1>13. CASE StoreFails
  <2>1. catalogue' = catalogue /\ builder.phase = "store" /\ builder'.phase \in {"delete", "idle"}
    BY <1>4, <1>8, <1>13 DEF StoreFails
  <2> QED BY <1>6, <2>1
<1>14. CASE BuilderStops
  <2>1. catalogue' = catalogue /\ builder'.phase = "idle"
    BY <1>8, <1>14 DEF BuilderStops
  <2>2. builder.phase # "mark"
    BY <1>2, <1>14 DEF BuilderStops
  <2> QED BY <1>6, <2>1, <2>2
<1>15. \A A : \A r \in Stored(A) : r \in catalogue \/ (~Known(A) /\ r = [arts |-> A, broken |-> FALSE])
  BY DEF Stored
<1>16. CASE Store
  <2>1. /\ catalogue' = Stored(builder.arts) /\ builder.phase = "store" /\ builder'.phase = "delete"
    BY <1>4, <1>16 DEF Store
  <2>2. Whole(builder.arts)
    BY <1>2, <1>3, <2>1, CompleteIsWhole DEF CatInv
  <2>3. \A r \in catalogue' : r.broken \/ Whole(r.arts)
    BY <1>5, <1>15, <2>1, <2>2
  <2> QED BY <1>1, <2>1, <2>3 DEF CatInv, StoredWhole
<1>17. CASE SalvageStore
  <2>1. /\ catalogue' = Stored(builder.arts) /\ builder.phase = "salvage-store"
        /\ builder'.phase = NextPhase /\ builder'.arts = builder.arts
    BY <1>4, <1>17 DEF SalvageStore
  <2>2. NextPhase \in {"mark", "delete"}
        /\ (builder.broken /\ ~Known(builder.arts) => NextPhase = "mark")
    BY DEF NextPhase
  <2>3. builder.broken \/ Whole(builder.arts)
    BY <2>1 DEF CatInv
  <2>4. \A r \in catalogue' : \/ r.broken \/ Whole(r.arts)
                              \/ builder'.phase = "mark" /\ builder'.arts = r.arts
    <3> SUFFICES ASSUME NEW r \in catalogue'
                 PROVE  \/ r.broken \/ Whole(r.arts)
                        \/ builder'.phase = "mark" /\ builder'.arts = r.arts
      OBVIOUS
    <3>1. CASE r \in catalogue
      BY <1>5, <2>1, <3>1
    <3>2. CASE ~Known(builder.arts) /\ r = [arts |-> builder.arts, broken |-> FALSE]
      BY <2>1, <2>2, <2>3, <3>2
    <3> QED BY <1>15, <2>1, <3>1, <3>2
  <2> QED BY <1>1, <2>1, <2>2, <2>4 DEF CatInv, StoredWhole
<1>18. CASE Mark
  <2>1. /\ builder.phase = "mark" /\ builder'.phase = "delete"
        /\ catalogue' = {IF r.arts = builder.arts THEN [r EXCEPT !.broken = TRUE] ELSE r :
                             r \in catalogue}
    BY <1>4, <1>18 DEF Mark
  <2>2. \A r \in catalogue : [r EXCEPT !.broken = TRUE].broken
    BY <1>2 DEF Release
  <2>3. \A r \in catalogue' : r.broken \/ Whole(r.arts)
    BY <1>5, <2>1, <2>2
  <2> QED BY <1>1, <2>1, <2>3 DEF CatInv, StoredWhole
<1> QED
  BY <1>7, <1>9, <1>10, <1>11, <1>12, <1>13, <1>14, <1>16, <1>17, <1>18, NotTheBuilder
     DEF Builder

(* StoredWhole: whatever is served as complete has all its data, whichever   *)
(* batches came in which order and whatever failed but the mark of a broken  *)
(* release, for posts whose articles agree on what they claim (isComplete,   *)
(* salvageSets).                                                             *)
THEOREM StoredReleasesAreWhole ==
    ASSUME SoundPosts, NoUnmarked
    PROVE  Spec => []StoredWhole
<1>1. Init => CatInv
  BY DEF Init, CatInv, StoredWhole, NoBuilder
<1>2. StateInv /\ CatInv /\ [Next]_vars => CatInv'
  BY CatNext
<1>3. CatInv => StoredWhole
  BY DEF CatInv
<1> QED BY <1>1, <1>2, <1>3, StateAlways, PTL DEF Spec

---------------------------------------------------------------------------
(* Completeness.  What is supposed of a post whose complete set is to be     *)
(* queued: sound, file 0 of a numbered post in one part, and in every window *)
(* that holds articles one of a largest file; or else never complete.        *)
(* (isGroupComplete takes a file its metadata does not have for as large as  *)
(* the largest it has.)                                                      *)
Plain(P)   == \A a \in P : a.files > 0 /\ a.file = 0 => a.parts = 1
Largest(c, P) == \A d \in P : d.parts <= c.parts
InWindow(P, w) == {a \in P : w[1] <= a.num /\ a.num <= w[2]}
LargestAmong(P) == \A w \in Window : \A a \in InWindow(P, w) :
                       \E c \in InWindow(P, w) : Largest(c, P)
Steady(P)   == Agreed(P) /\ Numbered(P) /\ Plain(P) /\ LargestAmong(P)
Hopeless(P) == \A A \in SUBSET P : ~IsComplete(A)
SteadyPosts == \A w \in Worlds : Steady(w.post) \/ Hopeless(w.post)

LEMMA Completeness ==
    ASSUME post \subseteq Article, Agreed(post), Numbered(post),
           NEW A \in SUBSET post, NEW c \in A
    PROVE  IsComplete(A) <=>
              IF c.files > 0
              THEN /\ \A a \in A : Cardinality(PartsOf(A, a.file)) >= a.parts
                   /\ 1..c.files \subseteq FilesOf(A)
              ELSE 1..c.parts \subseteq PartsOf(A, 0)
<1> DEFINE F == MaxOf({a.files : a \in A})
           p == MaxOf({a.parts : a \in A})
<1>1. F = c.files /\ \A a \in post : a.files = c.files
  BY FilesClaimed DEF Agreed
<1>2. \A a \in post : a.file \in Nat /\ a.files \in Nat /\ a.parts \in Nat /\ a.parts > 0
  BY ArticleTypes, Numbers DEF File
<1>3. IsComplete(A) <=>
         IF F > 0
         THEN /\ \A a \in A : Cardinality(PartsOf(A, a.file)) >= a.parts
              /\ 1..F \subseteq FilesOf(A)
         ELSE p > 0 /\ 1..p \subseteq {a.part : a \in A}
  BY DEF IsComplete
<1>4. CASE c.files > 0
  BY <1>1, <1>3, <1>4
<1>5. CASE ~(c.files > 0)
  <2>1. \A b \in post : b.file = 0 /\ b.parts = c.parts
    <3>1. \A b \in post : b.files = 0
      BY <1>1, <1>2, <1>5
    <3>2. \A b \in post : b.file = 0
      BY <1>2, <3>1 DEF Numbered
    <3> QED BY <3>1, <3>2 DEF Agreed
  <2>2. p = c.parts
    <3>1. {b.parts : b \in A} = {c.parts}
      BY <2>1
    <3>2. c.parts \in 0..MaxParts /\ MaxParts \in Nat
      BY ArticleTypes, Numbers
    <3>3. {c.parts} \subseteq 0..MaxParts /\ {c.parts} # {}
      BY <3>2
    <3>4. MaxOf({c.parts}) \in {c.parts}
      BY <3>2, <3>3, MaxOfIs
    <3> QED BY <3>1, <3>4
  <2>3. {b.part : b \in A} = PartsOf(A, 0)
    BY <2>1 DEF PartsOf
  <2> HIDE DEF F, p
  <2> QED BY <1>1, <1>2, <1>3, <1>5, <2>2, <2>3
<1> QED BY <1>4, <1>5

(* More places filled: complete stays complete.                              *)
LEMMA CompleteStays ==
    ASSUME post \subseteq Article, Steady(post),
           NEW A \in SUBSET post, NEW B \in SUBSET post,
           \A a \in A : \E h \in B : SamePlace(a, h), IsComplete(A)
    PROVE  IsComplete(B)
<1>1. PICK c \in A : TRUE
  BY EmptyIncomplete
<1>2. PICK d \in B : SamePlace(c, d)
  BY <1>1
<1>3. Agreed(post) /\ Numbered(post) /\ Plain(post)
  BY DEF Steady
<1>4. d.files = c.files /\ d.parts = c.parts /\ d.file = c.file
  BY <1>2, <1>3 DEF Agreed, SamePlace
<1>5. \A f : PartsOf(A, f) \subseteq PartsOf(B, f)
  BY DEF PartsOf, SamePlace
<1>6. FilesOf(A) \subseteq FilesOf(B)
  BY DEF FilesOf, SamePlace
<1>7. CASE c.files > 0
  <2>1. /\ \A a \in A : Cardinality(PartsOf(A, a.file)) >= a.parts
        /\ 1..c.files \subseteq FilesOf(A)
    BY <1>1, <1>3, <1>7, Completeness
  <2>2. ASSUME NEW b \in B PROVE Cardinality(PartsOf(B, b.file)) >= b.parts
    <3>0. /\ B \subseteq Article /\ A \subseteq Article
          /\ b.file \in Nat /\ b.parts \in Nat /\ b.files \in Nat
      BY ArticleTypes, Numbers DEF File
    <3>1. /\ IsFiniteSet(PartsOf(B, b.file)) /\ Cardinality(PartsOf(B, b.file)) \in Nat
          /\ Cardinality(PartsOf(A, b.file)) \in Nat
      BY <3>0, PartsTypes, Numbers
    <3>2. CASE b.file = 0
      <4>1. b.parts = 1
        BY <1>1, <1>3, <1>7, <3>2 DEF Plain, Agreed
      <4>2. b.part \in PartsOf(B, b.file)
        BY DEF PartsOf
      <4>3. Cardinality(PartsOf(B, b.file)) # 0
        BY <3>1, <4>2, FS_EmptySet
      <4> QED BY <3>1, <4>1, <4>3
    <3>3. CASE b.file # 0
      <4>1. b.file \in 1..c.files
        BY <1>1, <1>3, <3>0, <3>3 DEF Numbered, Agreed
      <4>2. PICK a \in A : a.file = b.file
        BY <2>1, <4>1 DEF FilesOf
      <4>3. a.parts = b.parts
        BY <1>3, <4>2 DEF Agreed
      <4>4. Cardinality(PartsOf(A, b.file)) >= b.parts
        BY <2>1, <4>2, <4>3
      <4>5. Cardinality(PartsOf(A, b.file)) <= Cardinality(PartsOf(B, b.file))
        BY <1>5, <3>1, FS_Subset
      <4> QED BY <3>0, <3>1, <4>4, <4>5
    <3> QED BY <3>2, <3>3
  <2>3. 1..d.files \subseteq FilesOf(B)
    BY <1>4, <1>6, <2>1
  <2> QED BY <1>2, <1>3, <1>4, <1>7, <2>2, <2>3, Completeness
<1>8. CASE ~(c.files > 0)
  <2>1. 1..c.parts \subseteq PartsOf(A, 0)
    BY <1>1, <1>3, <1>8, Completeness
  <2>2. 1..d.parts \subseteq PartsOf(B, 0)
    BY <1>4, <1>5, <2>1
  <2> QED BY <1>2, <1>3, <1>4, <1>8, <2>2, Completeness
<1> QED BY <1>7, <1>8

(* Metadata that is a fold of windows whose articles are staged: it has the   *)
(* file count, a largest file, and of every file it has the claim.           *)
Good(m, A) ==
    /\ \A f \in File : m.parts[f] > 0 => \E a \in A : a.file = f /\ a.parts = m.parts[f]
    /\ m.exists => /\ \A a \in post : m.files = a.files
                   /\ \E f \in File : \A a \in post : a.parts <= m.parts[f]

LEMMA MostIs ==
    ASSUME NEW m \in Meta
    PROVE  /\ \E f \in File : MaxOf({m.parts[g] : g \in File}) = m.parts[f]
           /\ \A f \in File : m.parts[f] <= MaxOf({m.parts[g] : g \in File})
<1> DEFINE S == {m.parts[g] : g \in File}
<1>1. S \subseteq 0..MaxParts /\ S # {} /\ MaxParts \in Nat
  <2>1. 0 \in File BY Numbers DEF File
  <2> QED BY <2>1, Numbers DEF Meta
<1>2. MaxOf(S) \in S /\ \A y \in S : y <= MaxOf(S)
  <2> HIDE DEF S
  <2> QED BY <1>1, MaxOfIs
<1> QED BY <1>2

LEMMA GroupIsComplete ==
    ASSUME post \subseteq Article, Steady(post), NEW A \in SUBSET post,
           NEW m \in Meta, Good(m, A)
    PROVE  /\ GroupComplete(m, A) => IsComplete(A)
           /\ IsComplete(A) /\ m.exists /\ (\A f \in FilesOf(A) : m.parts[f] > 0) =>
                 GroupComplete(m, A)
<1> DEFINE most == MaxOf({m.parts[f] : f \in File})
<1>1. Agreed(post) /\ Numbered(post) /\ Plain(post)
  BY DEF Steady
<1>2. PICK g \in File : most = m.parts[g]
  BY MostIs
<1>3. \A f \in File : m.parts[f] \in Nat /\ m.parts[f] <= most
  BY MostIs DEF Meta
<1>4. \A a \in post : /\ a.file \in File /\ a.file \in Nat /\ a.parts \in Nat /\ a.parts > 0
                      /\ a.files \in Nat /\ a.part \in Nat
  BY ArticleTypes, Numbers DEF File
<1>5. GroupComplete(m, A) <=>
         /\ m.exists /\ A # {}
         /\ IF m.files > 0
            THEN /\ \A f \in FilesOf(A) : Cardinality(PartsOf(A, f)) >=
                        (IF m.parts[f] > 0 THEN m.parts[f] ELSE most)
                 /\ 1..m.files \subseteq FilesOf(A)
            ELSE most > 0 /\ 1..most \subseteq {a.part : a \in A}
  BY DEF GroupComplete
<1> HIDE DEF most
<1>6. \A f \in File : m.parts[f] > 0 => \A a \in post : a.file = f => a.parts = m.parts[f]
  BY <1>1 DEF Good, Agreed
<1>7. \A a \in A : Cardinality(PartsOf(A, a.file)) \in Nat
  <2>1. A \subseteq Article OBVIOUS
  <2> QED BY <2>1, PartsTypes, Numbers
<1>8. ASSUME m.exists, NEW c \in A
      PROVE  m.files = c.files /\ \A a \in post : a.parts <= most
  <2>1. PICK f \in File : \A a \in post : a.parts <= m.parts[f]
    BY <1>8 DEF Good
  <2> QED BY <1>2, <1>3, <1>4, <1>8, <2>1 DEF Good
<1>9. ASSUME m.exists, NEW c \in A, ~(c.files > 0)
      PROVE  most = c.parts /\ {a.part : a \in A} = PartsOf(A, 0)
  <2>1. \A b \in post : b.file = 0 /\ b.parts = c.parts
    <3>1. \A b \in post : b.files = 0
      BY <1>1, <1>4, <1>9 DEF Agreed
    <3>2. \A b \in post : b.file = 0
      BY <1>1, <1>4, <3>1 DEF Numbered
    <3> QED BY <1>1, <3>1, <3>2 DEF Agreed
  <2>2. c.parts <= most
    BY <1>8, <1>9
  <2>3. most > 0
    BY <1>2, <1>3, <1>4, <2>2
  <2>4. PICK a \in A : a.parts = most
    BY <1>2, <2>3 DEF Good
  <2>5. most = c.parts
    BY <2>1, <2>4
  <2> QED BY <2>1, <2>5 DEF PartsOf
<1>10. ASSUME GroupComplete(m, A) PROVE IsComplete(A)
  <2>1. m.exists /\ A # {}
    BY <1>5, <1>10
  <2>2. PICK c \in A : TRUE
    BY <2>1
  <2>3. m.files = c.files /\ \A a \in post : a.parts <= most
    BY <1>8, <2>1
  <2>4. CASE c.files > 0
    <3>1. /\ \A f \in FilesOf(A) : Cardinality(PartsOf(A, f)) >=
                (IF m.parts[f] > 0 THEN m.parts[f] ELSE most)
          /\ 1..c.files \subseteq FilesOf(A)
      BY <1>5, <1>10, <2>3, <2>4
    <3>2. ASSUME NEW a \in A PROVE Cardinality(PartsOf(A, a.file)) >= a.parts
      <4>1. a.file \in FilesOf(A) /\ a.file \in File
        BY <1>4 DEF FilesOf
      <4>2. CASE m.parts[a.file] > 0
        BY <1>6, <3>1, <4>1, <4>2
      <4>3. CASE ~(m.parts[a.file] > 0)
        <5>1. Cardinality(PartsOf(A, a.file)) >= most /\ a.parts <= most
          BY <2>3, <3>1, <4>1, <4>3
        <5> QED BY <1>2, <1>3, <1>4, <1>7, <5>1
      <4> QED BY <4>2, <4>3
    <3> QED BY <1>1, <2>4, <3>1, <3>2, Completeness
  <2>5. CASE ~(c.files > 0)
    <3>1. 1..most \subseteq {a.part : a \in A}
      BY <1>5, <1>10, <2>3, <2>5
    <3>2. 1..c.parts \subseteq PartsOf(A, 0)
      BY <1>9, <2>1, <2>5, <3>1
    <3> QED BY <1>1, <2>5, <3>2, Completeness
  <2> QED BY <2>4, <2>5
<1>11. ASSUME IsComplete(A), m.exists, \A f \in FilesOf(A) : m.parts[f] > 0
       PROVE  GroupComplete(m, A)
  <2>1. PICK c \in A : TRUE
    BY <1>11, EmptyIncomplete
  <2>2. m.files = c.files
    BY <1>8, <1>11
  <2>3. CASE c.files > 0
    <3>1. /\ \A a \in A : Cardinality(PartsOf(A, a.file)) >= a.parts
          /\ 1..c.files \subseteq FilesOf(A)
      BY <1>1, <1>11, <2>3, Completeness
    <3>2. ASSUME NEW f \in FilesOf(A)
          PROVE  Cardinality(PartsOf(A, f)) >= (IF m.parts[f] > 0 THEN m.parts[f] ELSE most)
      <4>1. PICK a \in A : a.file = f
        BY DEF FilesOf
      <4>2. f \in File /\ m.parts[f] > 0
        BY <1>4, <1>11, <4>1
      <4>3. a.parts = m.parts[f]
        BY <1>6, <4>1, <4>2
      <4> QED BY <3>1, <4>1, <4>2, <4>3
    <3> QED BY <1>5, <1>11, <2>1, <2>2, <2>3, <3>1, <3>2
  <2>4. CASE ~(c.files > 0)
    <3>1. 1..c.parts \subseteq PartsOf(A, 0)
      BY <1>1, <1>11, <2>4, Completeness
    <3>2. most = c.parts /\ {a.part : a \in A} = PartsOf(A, 0)
      BY <1>9, <1>11, <2>4
    <3>3. most > 0
      BY <1>4, <3>2
    <3> QED BY <1>5, <1>11, <2>1, <2>2, <2>4, <3>1, <3>2, <3>3
  <2> QED BY <2>3, <2>4
<1> QED BY <1>10, <1>11

(* The cheap bound: a complete set has at least as many articles as its      *)
(* metadata asks for.                                                        *)
InFiles(A, K) == {a \in A : a.file \in K}

LEMMA PartsNoMore ==
    ASSUME NEW A, A \subseteq Article, NEW f
    PROVE  Cardinality(PartsOf(A, f)) <= Cardinality(InFiles(A, {f}))
<1> DEFINE g == [a \in InFiles(A, {f}) |-> a.part]
<1>1. g \in Surjection(InFiles(A, {f}), PartsOf(A, f))
  BY DEF Surjection, InFiles, PartsOf
<1>2. IsFiniteSet(InFiles(A, {f}))
  <2>1. InFiles(A, {f}) \subseteq Article BY DEF InFiles
  <2> QED BY <2>1, SomeArticles
<1> HIDE DEF g
<1> QED BY <1>1, <1>2, FS_Surjection

LEMMA FilesNoMore ==
    ASSUME NEW A, A \subseteq Article, NEW U, U \subseteq FilesOf(A)
    PROVE  Cardinality(U) <= Cardinality(InFiles(A, U))
<1> DEFINE g == [a \in InFiles(A, U) |-> a.file]
<1>1. g \in Surjection(InFiles(A, U), U)
  BY DEF Surjection, InFiles, FilesOf
<1>2. IsFiniteSet(InFiles(A, U))
  <2>1. InFiles(A, U) \subseteq Article BY DEF InFiles
  <2> QED BY <2>1, SomeArticles
<1> HIDE DEF g
<1> QED BY <1>1, <1>2, FS_Surjection

LEMMA FilesApart ==
    ASSUME NEW A, A \subseteq Article, NEW K, NEW U, K \cap U = {}
    PROVE  /\ Cardinality(InFiles(A, K \cup U)) =
                  Cardinality(InFiles(A, K)) + Cardinality(InFiles(A, U))
           /\ Cardinality(InFiles(A, K \cup U)) <= Cardinality(A)
           /\ Cardinality(InFiles(A, K)) \in Nat /\ Cardinality(InFiles(A, U)) \in Nat
<1>1. /\ IsFiniteSet(A) /\ IsFiniteSet(InFiles(A, K)) /\ IsFiniteSet(InFiles(A, U))
      /\ Cardinality(InFiles(A, K)) \in Nat /\ Cardinality(InFiles(A, U)) \in Nat
  <2>1. InFiles(A, K) \subseteq Article /\ InFiles(A, U) \subseteq Article BY DEF InFiles
  <2> QED BY <2>1, SomeArticles
<1>2. /\ InFiles(A, K \cup U) = InFiles(A, K) \cup InFiles(A, U)
      /\ InFiles(A, K) \cap InFiles(A, U) = {}
      /\ InFiles(A, K \cup U) \subseteq A
  BY DEF InFiles
<1>3. Cardinality(InFiles(A, K) \cap InFiles(A, U)) = 0
  BY <1>2, FS_EmptySet
<1>4. Cardinality(InFiles(A, K) \cup InFiles(A, U)) =
          Cardinality(InFiles(A, K)) + Cardinality(InFiles(A, U)) - 0
  BY <1>1, <1>3, FS_Union
<1>5. Cardinality(InFiles(A, K \cup U)) <= Cardinality(A)
  BY <1>1, <1>2, FS_Subset
<1>6. Cardinality(InFiles(A, K \cup U)) = Cardinality(InFiles(A, K) \cup InFiles(A, U))
  BY <1>2, Zenon
<1>7. PICK k \in Nat, u \in Nat : /\ k = Cardinality(InFiles(A, K))
                                 /\ u = Cardinality(InFiles(A, U))
  BY <1>1, Zenon
<1>8. Cardinality(InFiles(A, K) \cup InFiles(A, U)) = k + u
  BY <1>4, <1>7
<1>9. Cardinality(InFiles(A, K \cup U)) = Cardinality(InFiles(A, K)) + Cardinality(InFiles(A, U))
  BY <1>6, <1>7, <1>8, Zenon
<1> QED BY <1>1, <1>5, <1>9, Zenon

LEMMA CountLeq ==
    ASSUME NEW A, A \subseteq Article, NEW K, IsFiniteSet(K), NEW g, \A f \in K : g[f] \in Nat,
           \A f \in K : g[f] <= Cardinality(PartsOf(A, f))
    PROVE  SumFunctionOnSet(g, K) <= Cardinality(InFiles(A, K))
<1> DEFINE Fits == {T \in SUBSET K : SumFunctionOnSet(g, T) <= Cardinality(InFiles(A, T))}
<1>1. ASSUME NEW T \in SUBSET K, \A U \in SUBSET T : U # T => U \in Fits
      PROVE  T \in Fits
  <2>1. CASE T = {}
    <3>1. SumFunctionOnSet(g, {}) = 0
      BY SumOfNone
    <3>2. Cardinality(InFiles(A, {})) = 0
      <4>1. InFiles(A, {}) = {} BY DEF InFiles
      <4> QED BY <4>1, FS_EmptySet
    <3> QED BY <2>1, <3>1, <3>2
  <2>2. ASSUME NEW x \in T PROVE T \in Fits
    <3> DEFINE R == T \ {x}
    <3>1. R \in SUBSET T /\ R # T /\ R \cup {x} = T /\ R \cap {x} = {}
      BY <2>2
    <3>2. SumFunctionOnSet(g, R) <= Cardinality(InFiles(A, R))
      BY <1>1, <3>1
    <3>3. IsFiniteSet(T) /\ IsFiniteSet(R)
      BY FS_Subset
    <3>4. \A y \in T : g[y] \in Int
      OBVIOUS
    <3>5. SumFunctionOnSet(g, T) = g[x] + SumFunctionOnSet(g, R)
      BY <2>2, <3>3, <3>4, SumTake
    <3>6. SumFunctionOnSet(g, R) \in Int
      BY <3>3, <3>4, SumInt
    <3> HIDE DEF R
    <3>7. Cardinality(InFiles(A, T)) =
              Cardinality(InFiles(A, R)) + Cardinality(InFiles(A, {x}))
          /\ Cardinality(InFiles(A, R)) \in Nat /\ Cardinality(InFiles(A, {x})) \in Nat
      BY <3>1, FilesApart
    <3>8. g[x] <= Cardinality(PartsOf(A, x))
          /\ Cardinality(PartsOf(A, x)) <= Cardinality(InFiles(A, {x}))
      BY <2>2, PartsNoMore
    <3>9. Cardinality(PartsOf(A, x)) \in Int
      BY PartsTypes, Numbers
    <3>10. g[x] \in Int /\ T \subseteq K
      BY <2>2
    <3>11. SumFunctionOnSet(g, T) <= Cardinality(InFiles(A, T))
      BY <3>2, <3>5, <3>6, <3>7, <3>8, <3>9, <3>10
    <3> QED BY <3>11
  <2> QED BY <2>1, <2>2
<1>2. Fits \in SUBSET (SUBSET K)
  OBVIOUS
<1>3. K \in Fits
  <2> HIDE DEF Fits
  <2> QED BY <1>1, <1>2, SubsetInduction
<1> QED BY <1>3

LEMMA NeededHeld ==
    ASSUME post \subseteq Article, Steady(post), NEW A \in SUBSET post,
           NEW m \in Meta, m.exists, Good(m, A), IsComplete(A)
    PROVE  Needed(m) <= Cardinality(A)
<1>1. PICK c \in A : TRUE
  BY EmptyIncomplete
<1>2. Agreed(post) /\ Numbered(post) /\ A \subseteq Article
  BY DEF Steady
<1>3. m.files = c.files
  BY DEF Good
<1>4. m.files \in Nat /\ m.parts \in [File -> 0..MaxParts] /\ MaxParts \in Nat
  BY Numbers DEF Meta
<1>5. Cardinality(A) \in Nat
  BY <1>2, SomeArticles
<1> DEFINE known == {f \in File : m.parts[f] > 0}
           d == m.files - Cardinality(known)
           S == SumFunctionOnSet(m.parts, known)
<1>6. Needed(m) = IF m.files > 0 THEN S + MaxOf({0, d}) ELSE MaxOf({m.parts[f] : f \in File})
  BY DEF Needed
<1>7. CASE m.files > 0
  <2>1. /\ \A a \in A : Cardinality(PartsOf(A, a.file)) >= a.parts
        /\ 1..m.files \subseteq FilesOf(A)
    BY <1>2, <1>3, <1>7, Completeness
  <2>2. IsFiniteSet(known) /\ Cardinality(known) \in Nat
    <3>1. IsFiniteSet(File)
      <4>1. 0 \in Int /\ MaxFile \in Int BY Numbers
      <4> QED BY <4>1, FS_Interval DEF File
    <3>2. known \subseteq File OBVIOUS
    <3> QED BY <3>1, <3>2, FS_Subset, FS_CardinalityType
  <2>3. \A f \in known : /\ m.parts[f] \in Nat
                         /\ m.parts[f] <= Cardinality(PartsOf(A, f))
    <3> SUFFICES ASSUME NEW f \in known
                 PROVE m.parts[f] \in Nat /\ m.parts[f] <= Cardinality(PartsOf(A, f))
      OBVIOUS
    <3>1. PICK a \in A : a.file = f /\ a.parts = m.parts[f]
      BY DEF Good
    <3>2. Cardinality(PartsOf(A, f)) >= a.parts
      BY <2>1, <3>1
    <3>3. m.parts[f] \in Nat
      BY <1>4
    <3>4. Cardinality(PartsOf(A, f)) \in Int
      BY <1>2, PartsTypes, Numbers
    <3> QED BY <3>1, <3>2, <3>3, <3>4
  <2> DEFINE U == (1..m.files) \ known
  <2> HIDE DEF known, S
  <2>4. S <= Cardinality(InFiles(A, known))
    BY <1>2, <2>2, <2>3, CountLeq DEF S
  <2>5. S \in Int
    <3>1. \A f \in known : m.parts[f] \in Int BY <2>3
    <3> QED BY <2>2, <3>1, SumInt DEF S
  <2>6. Cardinality(U) >= m.files - Cardinality(known) /\ Cardinality(U) \in Nat
    <3>1. IsFiniteSet(1..m.files) /\ Cardinality(1..m.files) = m.files
      <4>1. m.files \in Nat BY <1>4
      <4> QED BY <4>1, FirstNumbers
    <3>2. /\ IsFiniteSet(U)
          /\ Cardinality(U) = m.files - Cardinality((1..m.files) \cap known)
      BY <3>1, FS_Difference
    <3>3. (1..m.files) \cap known \subseteq known
      OBVIOUS
    <3>4. /\ IsFiniteSet((1..m.files) \cap known)
          /\ Cardinality((1..m.files) \cap known) <= Cardinality(known)
      BY <2>2, <3>3, FS_Subset
    <3>5. Cardinality((1..m.files) \cap known) \in Nat /\ Cardinality(U) \in Nat
      BY <3>2, <3>4, FS_CardinalityType
    <3> QED BY <1>4, <2>2, <3>2, <3>4, <3>5
  <2>7. U \subseteq FilesOf(A) /\ known \cap U = {}
    BY <2>1
  <2> HIDE DEF U
  <2>8. Cardinality(U) <= Cardinality(InFiles(A, U))
    BY <1>2, <2>7, FilesNoMore
  <2>9. /\ Cardinality(InFiles(A, known)) + Cardinality(InFiles(A, U)) <= Cardinality(A)
        /\ Cardinality(InFiles(A, known)) \in Nat /\ Cardinality(InFiles(A, U)) \in Nat
    <3>1. /\ Cardinality(InFiles(A, known \cup U)) =
                 Cardinality(InFiles(A, known)) + Cardinality(InFiles(A, U))
          /\ Cardinality(InFiles(A, known \cup U)) <= Cardinality(A)
          /\ Cardinality(InFiles(A, known)) \in Nat /\ Cardinality(InFiles(A, U)) \in Nat
      BY <1>2, <2>7, FilesApart, Zenon
    <3> QED BY <3>1, Zenon
  <2>10. PICK e \in Int : e = d
    BY <1>4, <2>2
  <2>11. MaxOf({0, e}) = 0 \/ MaxOf({0, e}) = e
    <3>1. 0 \in Int /\ e \in Int OBVIOUS
    <3> QED BY <3>1, MaxOfTwo
  <2>12. Needed(m) = S + MaxOf({0, e})
    BY <1>6, <1>7, <2>10
  <2> QED
    BY <1>4, <1>5, <2>2, <2>4, <2>5, <2>6, <2>8, <2>9, <2>10, <2>11, <2>12
<1>8. CASE ~(m.files > 0)
  <2>1. PICK f \in File : Needed(m) = m.parts[f]
    BY <1>6, <1>8, MostIs
  <2>2. CASE m.parts[f] = 0
    BY <1>5, <2>1, <2>2
  <2>3. CASE m.parts[f] # 0
    <3>1. m.parts[f] > 0
      BY <1>4, <2>3
    <3>2. PICK a \in A : a.file = f /\ a.parts = m.parts[f]
      BY <3>1 DEF Good
    <3>3. a.files = m.files /\ a.parts \in Nat /\ a.file \in Nat /\ a.files \in Nat
      BY <1>2, <1>3, <3>2, ArticleTypes, Numbers DEF Agreed, File
    <3>4. 1..a.parts \subseteq PartsOf(A, 0)
      BY <1>2, <1>8, <3>3, Completeness
    <3>5. IsFiniteSet(PartsOf(A, 0)) /\ Cardinality(PartsOf(A, 0)) \in Int
      BY <1>2, PartsTypes, Numbers
    <3>6. Cardinality(1..a.parts) = a.parts
      <4>1. 1 \in Int /\ a.parts \in Int /\ a.parts >= 0 BY <3>3
      <4> QED BY <4>1, FS_Interval
    <3>7. a.parts <= Cardinality(PartsOf(A, 0))
      <4>1. PICK V : V = 1..a.parts
        OBVIOUS
      <4>2. V \in SUBSET PartsOf(A, 0)
        BY <3>4, <4>1
      <4>3. Cardinality(V) <= Cardinality(PartsOf(A, 0))
        BY <3>5, <4>2, FS_Subset
      <4> QED BY <3>6, <4>1, <4>3
    <3>8. Cardinality(PartsOf(A, 0)) <= Cardinality(InFiles(A, {0}))
      BY <1>2, PartsNoMore
    <3>9. PICK K : K = {0}
      OBVIOUS
    <3>10. K \cap {} = {} /\ K \cup {} = K
      OBVIOUS
    <3>11. /\ Cardinality(InFiles(A, K \cup {})) <= Cardinality(A)
           /\ Cardinality(InFiles(A, K)) \in Nat
      BY <1>2, <3>10, FilesApart, Zenon
    <3>12. /\ Cardinality(InFiles(A, {0})) <= Cardinality(A)
           /\ Cardinality(InFiles(A, {0})) \in Nat
      BY <3>9, <3>10, <3>11
    <3> QED BY <1>5, <2>1, <3>2, <3>3, <3>5, <3>7, <3>8, <3>12
  <2> QED BY <2>2, <2>3
<1> QED BY <1>7, <1>8

---------------------------------------------------------------------------
(* A set whose last window is in hand is on its way into the ready queue.    *)
LEMMA WindowStart ==
    ASSUME NEW n \in Nat \ {0}, NEW d \in Nat
    PROVE  \E e \in Nat : e <= d /\ d < e + n /\ e % n = 0
<1>1. (d % n) \in 0..(n - 1) /\ d = (n * (d \div n)) + (d % n) /\ d \div n \in Nat
  OBVIOUS
<1>2. PICK q \in Nat, m \in 0..(n - 1) : d = n * q + m
  BY <1>1
<1>3. n * q \in Nat /\ (n * q) % n = 0
  OBVIOUS
<1> QED BY <1>2, <1>3

LEMMA InSomeWindow ==
    ASSUME post \subseteq Article, NEW a \in post
    PROVE  \E w \in Window : a \in In(w)
<1>1. a.num \in 1..Top /\ Top \in Nat /\ Batch \in Nat \ {0}
  BY ArticleTypes, Numbers
<1>2. PICK d \in Nat : d = a.num - 1
  BY <1>1
<1>3. PICK e \in Nat : e <= d /\ d < e + Batch /\ e % Batch = 0
  BY <1>1, WindowStart
<1>4. e + 1 \in 1..Top /\ ((e + 1) - 1) % Batch = 0
  <2>1. (e + 1) - 1 = e OBVIOUS
  <2>2. e + 1 \in 1..Top BY <1>1, <1>2, <1>3
  <2> QED BY <1>3, <2>1, <2>2
<1>5. PICK i \in 1..Top : i = e + 1 /\ (i - 1) % Batch = 0
  BY <1>4
<1>6. <<i, i + Batch - 1>> \in Window
  BY <1>5 DEF Window
<1>7. i <= a.num /\ a.num <= i + Batch - 1
  BY <1>1, <1>2, <1>3, <1>5
<1> QED BY <1>6, <1>7 DEF In

Claimed(w, m) == \A a \in In(w) : m.parts[a.file] > 0

LEMMA FoldGood ==
    ASSUME post \subseteq Article, Steady(post), NEW A \in SUBSET post,
           NEW m \in Meta, Good(m, A), \A a \in post : m.files \in {0, a.files},
           NEW w \in Window, In(w) # {}, \A a \in In(w) : \E h \in A : SamePlace(a, h)
    PROVE  /\ Good(Folded(m, In(w)), A) /\ Folded(m, In(w)).exists
           /\ \A a \in post : Folded(m, In(w)).files \in {0, a.files}
           /\ Claimed(w, Folded(m, In(w)))
           /\ \A f \in File : m.parts[f] > 0 => Folded(m, In(w)).parts[f] > 0
<1>1. PICK M : M = Folded(m, In(w))
  OBVIOUS
<1>2. In(w) \subseteq post /\ In(w) \subseteq Article /\ In(w) = InWindow(post, w)
  BY DEF In, InWindow
<1>3. /\ M \in Meta /\ M.exists
      /\ M.files \in {m.files} \cup {a.files : a \in In(w)}
      /\ m.files <= M.files
      /\ \A a \in In(w) : a.files <= M.files
  BY <1>1, <1>2, FoldedType
<1>4. \A f \in File :
         /\ m.parts[f] <= M.parts[f]
         /\ \A a \in In(w) : a.file = f => a.parts <= M.parts[f]
         /\ \/ M.parts[f] = m.parts[f]
            \/ \E a \in In(w) : a.file = f /\ a.parts = M.parts[f]
  BY <1>1, <1>2, FoldedType
<1>5. Agreed(post)
  BY DEF Steady
<1>6. /\ \A f \in File : m.parts[f] \in Nat /\ M.parts[f] \in Nat
      /\ m.files \in Nat /\ M.files \in Nat
  BY <1>3, Numbers DEF Meta
<1>7. \A a \in post : /\ a.file \in File /\ a.parts \in Nat /\ a.parts > 0 /\ a.files \in Nat
  BY ArticleTypes, Numbers
<1>8. ASSUME NEW f \in File, M.parts[f] > 0
      PROVE  \E a \in A : a.file = f /\ a.parts = M.parts[f]
  <2>1. CASE M.parts[f] = m.parts[f]
    BY <1>8, <2>1 DEF Good
  <2>2. CASE \E a \in In(w) : a.file = f /\ a.parts = M.parts[f]
    <3>1. PICK a \in In(w) : a.file = f /\ a.parts = M.parts[f]
      BY <2>2
    <3>2. PICK h \in A : SamePlace(a, h)
      OBVIOUS
    <3>3. h.file = f /\ h.parts = a.parts
      BY <1>2, <1>5, <3>1, <3>2 DEF SamePlace, Agreed
    <3> QED BY <3>1, <3>3
  <2> QED BY <1>4, <2>1, <2>2
<1>9. PICK c \in In(w) : Largest(c, post)
  <2>1. PICK a \in In(w) : TRUE OBVIOUS
  <2> QED BY <1>2, <2>1 DEF Steady, LargestAmong
<1>10. \A a \in post : M.files = a.files
  <2> SUFFICES ASSUME NEW a \in post PROVE M.files = a.files
    OBVIOUS
  <2>1. \A b \in In(w) : b.files = a.files
    BY <1>2, <1>5 DEF Agreed
  <2>2. c.files = a.files /\ c.files <= M.files
    BY <1>3, <1>9, <2>1
  <2>3. M.files = m.files \/ M.files = a.files
    BY <1>3, <2>1
  <2>4. m.files = 0 \/ m.files = a.files
    OBVIOUS
  <2> QED BY <1>6, <1>7, <2>2, <2>3, <2>4
<1>11. c.file \in File /\ \A a \in post : a.parts <= M.parts[c.file]
  <2>1. c.file \in File /\ c.parts <= M.parts[c.file] /\ c.parts \in Nat
    BY <1>2, <1>4, <1>7, <1>9
  <2>2. \A a \in post : a.parts <= c.parts
    BY <1>9 DEF Largest
  <2> QED BY <1>6, <1>7, <2>1, <2>2
<1>12. Good(M, A)
  BY <1>8, <1>10, <1>11 DEF Good
<1>13. \A a \in In(w) : M.parts[a.file] > 0
  <2> SUFFICES ASSUME NEW a \in In(w) PROVE M.parts[a.file] > 0
    OBVIOUS
  <2>1. a.file \in File /\ a.parts \in Nat /\ a.parts > 0
    BY <1>2, <1>7
  <2>2. a.parts <= M.parts[a.file] /\ M.parts[a.file] \in Nat
    BY <1>4, <1>6, <2>1
  <2> QED BY <2>1, <2>2
<1>14. \A f \in File : m.parts[f] > 0 => M.parts[f] > 0
  BY <1>4, <1>6
<1> QED BY <1>1, <1>3, <1>10, <1>12, <1>13, <1>14 DEF Claimed

LEMMA GoodStays ==
    ASSUME Steady(post), NEW A \in SUBSET post, NEW B \in SUBSET post,
           \A a \in A : \E h \in B : SamePlace(a, h), NEW m, Good(m, A)
    PROVE  Good(m, B)
<1>1. Agreed(post)
  BY DEF Steady
<1>2. ASSUME NEW f \in File, m.parts[f] > 0
      PROVE  \E a \in B : a.file = f /\ a.parts = m.parts[f]
  <2>1. PICK a \in A : a.file = f /\ a.parts = m.parts[f]
    BY <1>2 DEF Good
  <2>2. PICK h \in B : SamePlace(a, h)
    OBVIOUS
  <2> QED BY <1>1, <2>1, <2>2 DEF SamePlace, Agreed
<1> QED BY <1>2 DEF Good

(* A worker is on its way: its articles are not counted yet, it saw enough   *)
(* of the set for the check to find it complete, or it has.                  *)
Past(s)    == stager[s].phase \notin {"idle", "put"}
Tracks(r, A) == \/ r.phase \in {"put", "queue"}
                \/ /\ r.phase \in {"folded", "spanned"} /\ r.held >= Needed(r.meta)
                   /\ \A f \in FilesOf(A) : r.meta.parts[f] > 0
OnTrack(s) == Tracks(stager[s], art)
OnlyOnTrack(w) == \A s \in Stager : Busy(s) /\ stager[s].win = w => OnTrack(s)
Awaited == \E w \in Window \ done : In(w) # {} /\ OnlyOnTrack(w)

Totals    == Good(meta, art) /\ \A a \in post : meta.files \in {0, a.files}
Copies    == \A s \in Stager : stager[s].phase \in {"folded", "spanned"} =>
                 stager[s].meta.exists /\ Good(stager[s].meta, art)
Counted   == /\ \A s \in Stager : Past(s) => meta.exists /\ Claimed(stager[s].win, meta)
             /\ \A w \in done : Claimed(w, meta)
Queued    == ready \/ builder.phase = "drawn" \/ \E s \in Stager : stager[s].phase = "queue"
QueuedFit == /\ Queued => IsComplete(art) /\ meta.exists
             /\ builder.phase \notin {"stale", "demote"}

(* The inductive form of CompleteQueued: what is queued is complete, and a   *)
(* complete set that is not queued has a window, not recorded yet, that only *)
(* a worker on its way has in hand.                                          *)
QueueInv == Steady(post) /\ ~left =>
    Totals /\ Copies /\ Counted /\ QueuedFit /\ (IsComplete(art) => ready \/ Awaited)

(* What is known before a step that leaves the set in staging.               *)
QueueStep == StateInv /\ AgeInv /\ HeldInv /\ QueueInv /\ [Next]_vars /\ Steady(post) /\ ~left'

LEMMA QueueFacts ==
    ASSUME QueueStep
    PROVE  /\ Totals /\ Copies /\ Counted /\ QueuedFit /\ (IsComplete(art) => ready \/ Awaited)
           /\ world' = world /\ post' = post /\ (\A w : In(w)' = In(w))
           /\ post \subseteq Article /\ art \subseteq post /\ art' \subseteq post
           /\ ~left /\ meta \in Meta /\ meta' \in Meta
           /\ stager \in [Stager -> Workers] /\ builder \in Builders /\ done \subseteq Window
           /\ \A s \in Stager : Busy(s) => stager[s].win \in Window \ done /\ In(stager[s].win) # {}
           /\ \A s \in Stager : stager[s].phase \in {"folded", "spanned"} => stager[s].meta \in Meta
           /\ \A a \in art : \E h \in art' : SamePlace(a, h)
           /\ art' = art \/ \E s \in Stager : PutArticles(s)
<1>1. StateInv /\ [Next]_vars /\ ~left'
  BY DEF QueueStep
<1>2. ~left /\ (art' = art \/ \E s \in Stager : PutArticles(s))
  BY <1>1, StillStaged
<1>3. Totals /\ Copies /\ Counted /\ QueuedFit /\ (IsComplete(art) => ready \/ Awaited)
  BY <1>2 DEF QueueStep, QueueInv
<1>4. world' = world
  BY <1>1, WindowStep
<1>5. post' = post
  BY <1>4 DEF post
<1>6. \A w : In(w)' = In(w)
  BY <1>4 DEF In, post
<1>7. /\ world \in Worlds /\ art \subseteq post /\ meta \in Meta /\ done \subseteq Window
      /\ stager \in [Stager -> Workers] /\ builder \in Builders
  BY <1>1 DEF StateInv, TypeInv
<1>8. post \subseteq Article
  BY <1>7, InPost
<1>9. StateInv'
  BY <1>1, StateNext
<1>10. meta' \in Meta /\ art' \subseteq post'
  BY <1>9 DEF StateInv, TypeInv
<1>11. \A s \in Stager : Busy(s) => stager[s].win \in Window \ done /\ In(stager[s].win) # {}
  BY <1>1 DEF StateInv, BusyInv
<1>12. \A s \in Stager : stager[s].meta \in Meta
  BY <1>7 DEF Workers
<1>13. \A a \in art : \E h \in art' : SamePlace(a, h)
  <2>1. CASE art' = art
    BY <2>1 DEF SamePlace
  <2>2. CASE \E s \in Stager : PutArticles(s)
    <3>1. PICK s \in Stager : PutArticles(s) BY <2>2
    <3>2. PICK w \in Window : art' = Put(art, In(w)) BY <1>1, <3>1, PutStep
    <3>3. art \subseteq Article /\ In(w) \subseteq Article BY <1>7, InPost
    <3>4. \A a \in art \cup In(w) : \E h \in Put(art, In(w)) : SamePlace(a, h) /\ ~Beats(a, h)
      BY <3>3, PutKeeps
    <3> QED BY <3>2, <3>4
  <2> QED BY <1>2, <2>1, <2>2
<1> QED BY <1>2, <1>3, <1>4, <1>5, <1>6, <1>7, <1>8, <1>10, <1>11, <1>12, <1>13

LEMMA InHand ==
    ASSUME QueueStep, NEW s \in Stager, Busy(s)
    PROVE  \A a \in In(stager[s].win) : \E h \in art : SamePlace(a, h)
<1>1. Kept(stager[s].win)
  BY QueueFacts DEF QueueStep, HeldInv
<1> QED BY <1>1 DEF Kept

LEMMA FoldTotals ==
    ASSUME QueueStep, NEW s \in Stager, FoldMeta(s)
    PROVE  /\ Good(meta', art) /\ meta'.exists
           /\ \A a \in post : meta'.files \in {0, a.files}
           /\ Claimed(stager[s].win, meta')
           /\ \A f \in File : meta.parts[f] > 0 => meta'.parts[f] > 0
           /\ art' = art /\ done' = done
<1>1. /\ Totals /\ post \subseteq Article /\ art \subseteq post /\ meta \in Meta
      /\ StateInv /\ Steady(post)
  BY QueueFacts DEF QueueStep
<1>2. Busy(s) /\ meta' = Folded(meta, In(stager[s].win))
  BY <1>1, FoldStep
<1>3. stager[s].win \in Window /\ In(stager[s].win) # {}
  BY <1>2, QueueFacts
<1>4. \A a \in In(stager[s].win) : \E h \in art : SamePlace(a, h)
  BY <1>2, InHand
<1>5. Good(meta, art) /\ \A a \in post : meta.files \in {0, a.files}
  BY <1>1 DEF Totals
<1>6. art' = art /\ done' = done
  BY DEF FoldMeta
<1>7. PICK w \in Window : w = stager[s].win
  BY <1>3
<1>8. /\ Good(Folded(meta, In(w)), art) /\ Folded(meta, In(w)).exists
      /\ \A a \in post : Folded(meta, In(w)).files \in {0, a.files}
      /\ Claimed(w, Folded(meta, In(w)))
      /\ \A f \in File : meta.parts[f] > 0 => Folded(meta, In(w)).parts[f] > 0
  BY <1>1, <1>3, <1>4, <1>5, <1>7, FoldGood
<1> QED BY <1>2, <1>6, <1>7, <1>8

SameTotals(m, n) == n.exists = m.exists /\ n.files = m.files /\ n.parts = m.parts

LEMMA TotalsStep ==
    ASSUME QueueStep
    PROVE  SameTotals(meta, meta') \/ \E s \in Stager : FoldMeta(s)
<1>1. StateInv /\ AgeInv /\ [Next]_vars /\ ~left' /\ meta \in Meta
  BY QueueFacts DEF QueueStep
<1>2. CASE SameSpan(meta, meta')
  BY <1>2 DEF SameSpan, SameTotals
<1>3. ASSUME NEW s \in Stager, FoldSpan(s) PROVE SameTotals(meta, meta')
  BY <1>1, <1>3, SpanEffect DEF SameTotals, Meta
<1> QED BY <1>1, <1>2, <1>3, MetaStep

LEMMA TotalsNext ==
    ASSUME QueueStep
    PROVE  /\ Good(meta', art') /\ \A a \in post : meta'.files \in {0, a.files}
           /\ meta.exists => meta'.exists
           /\ \A w : Claimed(w, meta) => Claimed(w, meta')
<1>1. /\ Totals /\ post \subseteq Article /\ art \subseteq post /\ art' \subseteq post
      /\ Steady(post) /\ \A a \in art : \E h \in art' : SamePlace(a, h)
  BY QueueFacts DEF QueueStep
<1>2. \A w : \A a \in In(w) : a.file \in File
  BY <1>1, ArticleTypes DEF In
<1>3. CASE SameTotals(meta, meta')
  <2>1. Good(meta', art)
    BY <1>1, <1>3 DEF SameTotals, Totals, Good
  <2>2. Good(meta', art')
    BY <1>1, <2>1, GoodStays
  <2> QED BY <1>1, <1>3, <2>2 DEF SameTotals, Totals, Claimed
<1>4. ASSUME NEW s \in Stager, FoldMeta(s)
      PROVE  /\ Good(meta', art') /\ \A a \in post : meta'.files \in {0, a.files}
             /\ meta'.exists
             /\ \A w : Claimed(w, meta) => Claimed(w, meta')
  <2>1. /\ Good(meta', art) /\ meta'.exists /\ art' = art
        /\ \A a \in post : meta'.files \in {0, a.files}
        /\ \A f \in File : meta.parts[f] > 0 => meta'.parts[f] > 0
    BY <1>4, FoldTotals
  <2> QED BY <1>2, <2>1 DEF Claimed
<1> QED BY <1>3, <1>4, TotalsStep

LEMMA CopiesNext ==
    ASSUME QueueStep, NEW s \in Stager, stager'[s].phase \in {"folded", "spanned"}
    PROVE  stager'[s].meta.exists /\ Good(stager'[s].meta, art')
<1>1. /\ Copies /\ art \subseteq post /\ art' \subseteq post /\ StateInv /\ [Next]_vars
      /\ Steady(post) /\ \A a \in art : \E h \in art' : SamePlace(a, h)
      /\ stager \in [Stager -> Workers]
  BY QueueFacts DEF QueueStep
<1>2. ASSUME stager[s].phase \in {"folded", "spanned"}, stager'[s].meta = stager[s].meta
      PROVE  stager'[s].meta.exists /\ Good(stager'[s].meta, art')
  <2>1. PICK m : m = stager[s].meta OBVIOUS
  <2>2. m.exists /\ Good(m, art)
    BY <1>1, <1>2, <2>1 DEF Copies
  <2>3. Good(m, art')
    BY <1>1, <2>2, GoodStays
  <2> QED BY <1>2, <2>1, <2>2, <2>3
<1>3. CASE stager'[s] = stager[s]
  BY <1>2, <1>3
<1>4. CASE PutArticles(s)
  <2>1. stager'[s].phase = "put"
    BY <1>1, <1>4, PutStep
  <2> QED BY <2>1
<1>5. CASE FoldMeta(s)
  <2>1. stager'[s].meta = meta'
    <3>1. stager'[s] = FoldRecord(s)
      BY <1>1, <1>5, FoldStep
    <3>2. FoldRecord(s).meta = meta'
      BY DEF FoldRecord
    <3> QED BY <3>1, <3>2
  <2>2. Good(meta', art') /\ meta'.exists
    BY <1>5, TotalsNext, FoldTotals
  <2> QED BY <2>1, <2>2
<1>6. CASE FoldSpan(s)
  <2>1. stager[s].phase = "folded" /\ stager'[s] = [stager[s] EXCEPT !.phase = "spanned"]
    BY <1>1, <1>6, SpanStep
  <2>2. stager'[s].meta = stager[s].meta
    BY <1>1, <2>1 DEF Workers
  <2> QED BY <1>2, <2>1, <2>2
<1>7. CASE Check(s)
  <2>1. stager'[s] = [stager[s] EXCEPT !.phase = Outcome(stager[s])]
    BY <1>1, <1>7, CheckStep
  <2>2. stager'[s].phase = Outcome(stager[s])
    BY <1>1, <2>1 DEF Workers
  <2> QED BY <2>2, OutcomePhase
<1>8. CASE stager'[s] = NoStager
  BY <1>8 DEF NoStager
<1> QED BY <1>1, <1>3, <1>4, <1>5, <1>6, <1>7, <1>8, WorkerStep

LEMMA CountedNext ==
    ASSUME QueueStep
    PROVE  /\ \A s \in Stager : stager'[s].phase \notin {"idle", "put"} =>
                 meta'.exists /\ Claimed(stager'[s].win, meta')
           /\ \A w \in done' : Claimed(w, meta')
<1>1. Counted /\ StateInv /\ [Next]_vars /\ stager \in [Stager -> Workers]
  BY QueueFacts DEF QueueStep
<1>2. ASSUME NEW s \in Stager, stager'[s].phase \notin {"idle", "put"}
      PROVE  meta'.exists /\ Claimed(stager'[s].win, meta')
  <2>1. ASSUME Past(s), stager'[s].win = stager[s].win
        PROVE  meta'.exists /\ Claimed(stager'[s].win, meta')
    <3>1. meta.exists /\ Claimed(stager[s].win, meta)
      BY <1>1, <2>1 DEF Counted
    <3> QED BY <2>1, <3>1, TotalsNext
  <2>2. CASE stager'[s] = stager[s]
    BY <1>2, <2>1, <2>2 DEF Past
  <2>3. CASE PutArticles(s)
    BY <1>1, <1>2, <2>3, PutStep
  <2>4. CASE FoldMeta(s)
    <3>1. stager'[s].win = stager[s].win
      BY <1>1, <2>4, FoldStep
    <3> QED BY <2>4, <3>1, FoldTotals
  <2>5. CASE FoldSpan(s)
    <3>1. stager[s].phase = "folded" /\ stager'[s] = [stager[s] EXCEPT !.phase = "spanned"]
      BY <1>1, <2>5, SpanStep
    <3>2. stager'[s].win = stager[s].win
      BY <1>1, <3>1 DEF Workers
    <3> QED BY <2>1, <3>1, <3>2 DEF Past
  <2>6. CASE Check(s)
    <3>1. stager[s].phase = "spanned"
          /\ stager'[s] = [stager[s] EXCEPT !.phase = Outcome(stager[s])]
      BY <1>1, <2>6, CheckStep
    <3>2. stager'[s].win = stager[s].win
      BY <1>1, <3>1 DEF Workers
    <3> QED BY <2>1, <3>1, <3>2 DEF Past
  <2>7. CASE stager'[s] = NoStager
    BY <1>2, <2>7 DEF NoStager
  <2> QED BY <1>1, <2>2, <2>3, <2>4, <2>5, <2>6, <2>7, WorkerStep
<1>3. ASSUME NEW w \in done' PROVE Claimed(w, meta')
  <2>1. CASE w \in done
    BY <1>1, <2>1, TotalsNext DEF Counted
  <2>2. CASE In(w) = {}
    BY <2>2 DEF Claimed
  <2>3. ASSUME NEW s \in Stager, Finishes(s), stager[s].win = w PROVE Claimed(w, meta')
    <3>1. Past(s)
      BY <1>1, <2>3, FinishStep DEF Past
    <3>2. Claimed(w, meta)
      BY <1>1, <2>3, <3>1 DEF Counted
    <3> QED BY <3>2, TotalsNext
  <2> QED BY <1>1, <2>1, <2>2, <2>3, WindowStep
<1> QED BY <1>2, <1>3

LEMMA QueuedStep ==
    ASSUME QueueStep
    PROVE  /\ Queued' => Queued \/ \E s \in Stager : Check(s) /\ Outcome(stager[s]) = "queue"
           /\ builder'.phase \notin {"stale", "demote"}
           /\ ready => ready'
<1>1. /\ QueuedFit /\ StateInv /\ [Next]_vars /\ ~left' /\ builder \in Builders
      /\ stager \in [Stager -> Workers]
  BY QueueFacts DEF QueueStep
<1>2. builder.phase \notin {"stale", "demote"} /\ (Queued => IsComplete(art) /\ meta.exists)
  BY <1>1 DEF QueuedFit
<1>3. Removed => left'
  BY DEF Removed
<1>4. CASE Builder \/ BuilderStops
  <2>1. stager' = stager
    BY <1>1, <1>4, BuilderStep
  <2>2. ready' = ready
    BY <1>1, <1>2, <1>3, <1>4 DEF Builder, Judge, Doom, SalvageLoad, SalvageStore, Mark, Draw,
       Withdraw, Load, Store, StoreFails, Delete, BuilderStops
  <2>3. /\ builder'.phase = "drawn" => builder.phase = "drawn" \/ ready
        /\ builder'.phase \notin {"stale", "demote"}
    <3>1. CASE Judge
      <4>1. builder'.phase \in {"salvage", "doom"}
        BY <1>1, <3>1 DEF Judge, Builders
      <4> QED BY <4>1
    <3>2. CASE SalvageLoad
      <4>1. builder'.phase \in {"idle", "delete", "salvage-store"}
        BY <1>1, <3>2 DEF SalvageLoad, NoBuilder
      <4> QED BY <4>1
    <3>3. CASE SalvageStore
      <4>1. builder'.phase \in {"mark", "delete"}
        BY <1>1, <3>3 DEF SalvageStore, NextPhase, Builders
      <4> QED BY <4>1
    <3>4. CASE Mark \/ Store
      <4>1. builder'.phase = "delete"
        BY <1>1, <3>4 DEF Mark, Store, Builders
      <4> QED BY <4>1
    <3>5. CASE Draw
      <4>1. ready /\ builder'.phase = Drawn
        BY <1>1, <3>5 DEF Draw, Builders
      <4>2. meta.exists
        BY <1>2, <4>1 DEF Queued
      <4> QED BY <4>1, <4>2 DEF Drawn
    <3>6. CASE Load
      <4>1. IsComplete(art)
        BY <1>2, <3>6 DEF Load, Queued
      <4>2. art # {}
        BY <4>1, EmptyIncomplete
      <4>3. builder' = [NoBuilder EXCEPT !.arts = art,
                                         !.phase = IF world.junk THEN "delete" ELSE "store"]
        BY <3>6, <4>1, <4>2 DEF Load
      <4>4. builder'.phase \in {"delete", "store"}
        BY <4>3 DEF NoBuilder
      <4> QED BY <4>4
    <3>7. CASE StoreFails
      <4>1. builder'.phase \in {"delete", "idle"}
        BY <1>1, <3>7 DEF StoreFails, NoBuilder, Builders
      <4> QED BY <4>1
    <3>8. CASE Doom \/ Withdraw \/ Delete \/ BuilderStops
      <4>1. builder' = NoBuilder
        BY <3>8 DEF Doom, Withdraw, Delete, BuilderStops
      <4> QED BY <4>1 DEF NoBuilder
    <3> QED BY <1>4, <3>1, <3>2, <3>3, <3>4, <3>5, <3>6, <3>7, <3>8 DEF Builder
  <2> QED BY <2>1, <2>2, <2>3 DEF Queued
<1>5. CASE Tick \/ UNCHANGED vars \/ \E w \in Window : Skip(w)
  <2>1. UNCHANGED <<ready, stager, builder>>
    BY <1>5 DEF Tick, vars, Skip
  <2> QED BY <1>2, <2>1 DEF Queued
<1>6. ASSUME NEW s \in Stager, PutArticles(s) \/ Proceeds(s)
      PROVE  /\ builder' = builder
             /\ ready => ready'
             /\ ready' => Queued
             /\ \A t \in Stager : stager'[t].phase = "queue" =>
                   \/ stager[t].phase = "queue"
                   \/ Check(t) /\ Outcome(stager[t]) = "queue"
  <2>1. builder' = builder /\ (ready => ready') /\ (ready' => Queued)
    <3>1. CASE Queue(s)
      BY <3>1 DEF Queue, Queued
    <3>2. CASE ~Queue(s)
      <4>1. UNCHANGED <<builder, ready>>
        BY <1>6, <3>2 DEF PutArticles, Proceeds, FoldMeta, FoldSpan, Check, Evict, StrikeOrClear,
                          Pass, StageFails
      <4> QED BY <4>1 DEF Queued
    <3> QED BY <3>1, <3>2
  <2>2. ASSUME NEW t \in Stager, stager'[t].phase = "queue"
        PROVE  stager[t].phase = "queue" \/ (Check(t) /\ Outcome(stager[t]) = "queue")
    <3>1. CASE stager'[t] = stager[t]
      BY <2>2, <3>1
    <3>2. CASE PutArticles(t)
      BY <1>1, <2>2, <3>2, PutStep
    <3>3. CASE FoldMeta(t)
      BY <1>1, <2>2, <3>3, FoldStep
    <3>4. CASE FoldSpan(t)
      <4>1. stager'[t] = [stager[t] EXCEPT !.phase = "spanned"]
        BY <1>1, <3>4, SpanStep
      <4>2. stager'[t].phase = "spanned"
        BY <1>1, <4>1 DEF Workers
      <4> QED BY <2>2, <4>2
    <3>5. CASE Check(t)
      <4>1. stager'[t] = [stager[t] EXCEPT !.phase = Outcome(stager[t])]
        BY <1>1, <3>5, CheckStep
      <4>2. stager'[t].phase = Outcome(stager[t])
        BY <1>1, <4>1 DEF Workers
      <4> QED BY <2>2, <3>5, <4>2
    <3>6. CASE stager'[t] = NoStager
      BY <2>2, <3>6 DEF NoStager
    <3> QED BY <1>1, <3>1, <3>2, <3>3, <3>4, <3>5, <3>6, WorkerStep
  <2> QED BY <2>1, <2>2
<1>7. ASSUME NEW s \in Stager, PutArticles(s) \/ Proceeds(s)
      PROVE  /\ Queued' => Queued \/ \E t \in Stager : Check(t) /\ Outcome(stager[t]) = "queue"
             /\ builder'.phase \notin {"stale", "demote"}
             /\ ready => ready'
  BY <1>2, <1>6, <1>7 DEF Queued
<1> QED BY <1>1, <1>4, <1>5, <1>7 DEF Next

LEMMA QueuedFitNext ==
    ASSUME QueueStep
    PROVE  QueuedFit'
<1>1. /\ QueuedFit /\ Copies /\ Counted /\ StateInv /\ Steady(post) /\ post \subseteq Article
      /\ art \subseteq post /\ art' \subseteq post
      /\ \A a \in art : \E h \in art' : SamePlace(a, h)
      /\ \A s \in Stager : stager[s].phase \in {"folded", "spanned"} => stager[s].meta \in Meta
  BY QueueFacts DEF QueueStep
<1>2. ASSUME NEW s \in Stager, Check(s), Outcome(stager[s]) = "queue"
      PROVE  IsComplete(art) /\ meta.exists
  <2>1. stager[s].phase = "spanned"
    BY <1>1, <1>2, CheckStep
  <2>2. PICK m \in Meta : m = stager[s].meta
    BY <1>1, <2>1
  <2>3. GroupComplete(m, art)
    BY <1>2, <2>2 DEF Outcome, EvictDecision
  <2>4. Good(m, art)
    BY <1>1, <2>1, <2>2 DEF Copies
  <2>5. IsComplete(art)
    BY <1>1, <2>3, <2>4, GroupIsComplete
  <2>6. meta.exists
    BY <1>1, <2>1 DEF Counted, Past
  <2> QED BY <2>5, <2>6
<1>3. Queued' => IsComplete(art) /\ meta.exists
  BY <1>1, <1>2, QueuedStep DEF QueuedFit
<1>4. IsComplete(art) => IsComplete(art')
  BY <1>1, CompleteStays
<1>5. meta.exists => meta'.exists
  BY TotalsNext
<1>6. builder'.phase \notin {"stale", "demote"}
  BY QueuedStep
<1>7. IsComplete(art)' = IsComplete(art')
  BY DEF IsComplete, MaxOf, PartsOf, FilesOf
<1> QED BY <1>3, <1>4, <1>5, <1>6, <1>7 DEF QueuedFit

LEMMA Witnesses ==
    ASSUME world' = world, NEW w \in Window \ done', In(w) # {},
           \A t \in Stager : stager'[t].phase # "idle" /\ stager'[t].win = w =>
               Tracks(stager'[t], art')
    PROVE  Awaited'
<1>1. In(w)' # {}
  BY DEF In, post
<1>2. OnlyOnTrack(w)'
  BY DEF OnlyOnTrack, OnTrack, Busy, Tracks, Needed, FilesOf, MaxOf
<1>3. Window' = Window
  BY DEF Window
<1> QED BY <1>1, <1>2, <1>3 DEF Awaited

(* The check of a worker on its way, at a complete set, finds it complete.   *)
LEMMA ChecksOut ==
    ASSUME QueueStep, IsComplete(art), NEW s \in Stager, Check(s), OnTrack(s)
    PROVE  Outcome(stager[s]) = "queue"
<1>1. /\ Copies /\ StateInv /\ Steady(post) /\ post \subseteq Article /\ art \subseteq post
      /\ \A t \in Stager : stager[t].phase \in {"folded", "spanned"} => stager[t].meta \in Meta
  BY QueueFacts DEF QueueStep
<1>2. stager[s].phase = "spanned"
  BY <1>1, CheckStep
<1>3. PICK m \in Meta : m = stager[s].meta
  BY <1>1, <1>2
<1>4. m.exists /\ Good(m, art)
  BY <1>1, <1>2, <1>3 DEF Copies
<1>5. stager[s].held >= Needed(stager[s].meta) /\ \A f \in FilesOf(art) : m.parts[f] > 0
  BY <1>2, <1>3 DEF OnTrack, Tracks
<1>6. GroupComplete(m, art)
  BY <1>1, <1>4, <1>5, GroupIsComplete
<1>7. GroupComplete(stager[s].meta, art)
  BY <1>3, <1>6
<1> QED BY <1>5, <1>7 DEF Outcome

(* Where the window awaited stays awaited.                                   *)
LEMMA StaysAwaited ==
    ASSUME QueueStep, IsComplete(art), ~ready', art' = art,
           NEW w \in Window \ done, In(w) # {}, OnlyOnTrack(w),
           \A s \in Stager : FoldMeta(s) => stager[s].win # w,
           \A s \in Stager : ~PutArticles(s)
    PROVE  Awaited'
<1>1. /\ StateInv /\ [Next]_vars /\ world' = world /\ stager \in [Stager -> Workers]
  BY QueueFacts DEF QueueStep
<1>2. w \in Window \ done'
  <2>1. ASSUME NEW s \in Stager, Finishes(s), stager[s].win = w PROVE FALSE
    <3>1. Busy(s) /\ stager[s].phase \in {"queue", "evict", "strike", "clear", "pass"}
      BY <1>1, <2>1, FinishStep
    <3>2. stager[s].phase = "queue"
      BY <2>1, <3>1 DEF OnlyOnTrack, OnTrack, Tracks
    <3>3. Queue(s)
      BY <2>1, <3>2 DEF Finishes, Evict, StrikeOrClear, Pass
    <3> QED BY <3>3 DEF Queue
  <2> QED BY <1>1, <2>1, WindowStep
<1>3. ASSUME NEW t \in Stager, stager'[t].phase # "idle", stager'[t].win = w
      PROVE  Tracks(stager'[t], art')
  <2>1. CASE stager'[t] = stager[t]
    BY <1>3, <2>1 DEF OnlyOnTrack, OnTrack, Busy
  <2>2. CASE FoldMeta(t)
    <3>1. stager'[t].win = stager[t].win
      BY <1>1, <2>2, FoldStep
    <3> QED BY <1>3, <2>2, <3>1
  <2>3. CASE FoldSpan(t)
    <3>1. /\ Busy(t) /\ stager[t].phase = "folded"
          /\ stager'[t] = [stager[t] EXCEPT !.phase = "spanned"]
      BY <1>1, <2>3, SpanStep
    <3>2. /\ stager'[t].win = stager[t].win /\ stager'[t].phase = "spanned"
          /\ stager'[t].meta = stager[t].meta /\ stager'[t].held = stager[t].held
      BY <1>1, <3>1 DEF Workers
    <3>3. Tracks(stager[t], art)
      BY <1>3, <3>1, <3>2 DEF OnlyOnTrack, OnTrack
    <3> QED BY <3>1, <3>2, <3>3 DEF Tracks
  <2>4. CASE Check(t)
    <3>1. /\ Busy(t) /\ stager'[t] = [stager[t] EXCEPT !.phase = Outcome(stager[t])]
      BY <1>1, <2>4, CheckStep
    <3>2. stager'[t].win = stager[t].win /\ stager'[t].phase = Outcome(stager[t])
      BY <1>1, <3>1 DEF Workers
    <3>3. OnTrack(t)
      BY <1>3, <3>1, <3>2 DEF OnlyOnTrack
    <3>4. stager'[t].phase = "queue"
      BY <2>4, <3>2, <3>3, ChecksOut
    <3> QED BY <3>4 DEF Tracks
  <2>5. CASE stager'[t] = NoStager
    BY <1>3, <2>5 DEF NoStager
  <2> QED BY <1>1, <2>1, <2>2, <2>3, <2>4, <2>5, WorkerStep
<1> QED BY <1>1, <1>2, <1>3, Witnesses

(* The last window to be counted completes the count.                        *)
LEMMA LastCounted ==
    ASSUME QueueStep, IsComplete(art), NEW s \in Stager, FoldMeta(s),
           \A v \in Window \ done : v # stager[s].win /\ In(v) # {} =>
               \E t \in Stager : Past(t) /\ stager[t].win = v
    PROVE  Tracks(stager'[s], art')
<1>1. /\ Counted /\ StateInv /\ Steady(post) /\ post \subseteq Article /\ art \subseteq post
      /\ meta' \in Meta
  BY QueueFacts DEF QueueStep
<1>2. /\ Good(meta', art) /\ meta'.exists /\ Claimed(stager[s].win, meta') /\ art' = art
      /\ \A v : Claimed(v, meta) => Claimed(v, meta')
  BY FoldTotals, TotalsNext
<1>3. \A a \in post : meta'.parts[a.file] > 0
  <2> SUFFICES ASSUME NEW a \in post PROVE meta'.parts[a.file] > 0
    OBVIOUS
  <2>1. PICK v \in Window : a \in In(v)
    BY <1>1, InSomeWindow
  <2>2. Claimed(v, meta')
    BY <1>1, <1>2, <2>1 DEF Counted
  <2> QED BY <2>1, <2>2 DEF Claimed
<1>4. stager'[s] = FoldRecord(s)
  BY <1>1, FoldStep
<1>5. /\ FoldRecord(s).phase = "folded" /\ FoldRecord(s).meta = meta'
      /\ FoldRecord(s).held = Cardinality(art)
  BY DEF FoldRecord
<1>6. Needed(meta') <= Cardinality(art)
  <2>1. PICK m \in Meta : m = meta'
    BY <1>1
  <2>2. Needed(m) <= Cardinality(art)
    BY <1>1, <1>2, <2>1, NeededHeld
  <2> QED BY <2>1, <2>2
<1>7. \A f \in FilesOf(art) : meta'.parts[f] > 0
  BY <1>1, <1>3 DEF FilesOf
<1>8. Cardinality(art) >= Needed(meta')
  BY <1>6
<1> QED BY <1>2, <1>4, <1>5, <1>7, <1>8 DEF Tracks

LEMMA AwaitedNext ==
    ASSUME QueueStep, IsComplete(art'), ~ready'
    PROVE  Awaited'
<1>1. /\ StateInv /\ [Next]_vars /\ world' = world /\ stager \in [Stager -> Workers]
      /\ (IsComplete(art) => ready \/ Awaited) /\ (art' = art \/ \E s \in Stager : PutArticles(s))
      /\ \A s \in Stager : Busy(s) => stager[s].win \in Window \ done /\ In(stager[s].win) # {}
  BY QueueFacts DEF QueueStep
<1>2. ASSUME NEW s \in Stager, PutArticles(s) PROVE Awaited'
  <2>1. PICK w \in Window \ done :
            /\ In(w) # {} /\ \A t \in Stager : Busy(t) => stager[t].win # w
            /\ stager'[s].phase = "put" /\ stager'[s].win = w
            /\ \A t \in Stager \ {s} : stager'[t] = stager[t]
    BY <1>1, <1>2, PutStep
  <2>2. done' = done
    BY <1>2 DEF PutArticles
  <2>3. ASSUME NEW t \in Stager, stager'[t].phase # "idle", stager'[t].win = w
        PROVE  Tracks(stager'[t], art')
    <3>1. t = s
      BY <2>1, <2>3 DEF Busy
    <3> QED BY <2>1, <3>1 DEF Tracks
  <2> QED BY <1>1, <2>1, <2>2, <2>3, Witnesses
<1>3. CASE \A s \in Stager : ~PutArticles(s)
  <2>1. art' = art /\ IsComplete(art)
    BY <1>1, <1>3
  <2>2. PICK w \in Window \ done : In(w) # {} /\ OnlyOnTrack(w)
    BY <1>1, <2>1, QueuedStep DEF Awaited
  <2>3. CASE \A s \in Stager : FoldMeta(s) => stager[s].win # w
    BY <1>3, <2>1, <2>2, <2>3, StaysAwaited
  <2>4. ASSUME NEW s \in Stager, FoldMeta(s), stager[s].win = w PROVE Awaited'
    <3>1. CASE \E v \in Window \ done : v # w /\ In(v) # {} /\ OnlyOnTrack(v)
      <4>1. PICK v \in Window \ done : v # w /\ In(v) # {} /\ OnlyOnTrack(v)
        BY <3>1
      <4>2. ASSUME NEW t \in Stager, FoldMeta(t) PROVE stager[t].win # v
        <5>1. t = s
          <6>1. stager'[s] # stager[s]
            <7>1. stager[s].phase = "put" /\ stager'[s] = FoldRecord(s)
                  /\ FoldRecord(s).phase = "folded"
              BY <1>1, <2>4, FoldStep
            <7> QED BY <7>1
          <6>2. t # s => stager'[s] = stager[s]
            BY <1>1, <4>2, FoldStep
          <6> QED BY <6>1, <6>2
        <5> QED BY <2>4, <4>1, <5>1
      <4> QED BY <1>3, <2>1, <4>1, <4>2, StaysAwaited
    <3>2. CASE ~ \E v \in Window \ done : v # w /\ In(v) # {} /\ OnlyOnTrack(v)
      <4>1. ASSUME NEW v \in Window \ done, v # w, In(v) # {}
            PROVE  \E t \in Stager : Past(t) /\ stager[t].win = v
        <5>1. PICK t \in Stager : Busy(t) /\ stager[t].win = v /\ ~OnTrack(t)
          BY <3>2, <4>1 DEF OnlyOnTrack
        <5>2. Past(t)
          BY <5>1 DEF OnTrack, Tracks, Past, Busy
        <5> QED BY <5>1, <5>2
      <4>2. Tracks(stager'[s], art')
        BY <2>1, <2>4, <4>1, LastCounted
      <4>3. done' = done
        BY <2>4 DEF FoldMeta
      <4>4. ASSUME NEW t \in Stager, stager'[t].phase # "idle", stager'[t].win = w
            PROVE  Tracks(stager'[t], art')
        <5>1. CASE t = s
          BY <4>2, <5>1
        <5>2. CASE t # s
          <6>1. stager'[t] = stager[t] /\ Busy(s)
            BY <1>1, <2>4, <5>2, FoldStep
          <6>2. Busy(t) /\ stager[t].win = stager[s].win
            BY <2>4, <4>4, <6>1 DEF Busy
          <6> QED BY <1>1, <5>2, <6>1, <6>2 DEF StateInv, BusyInv
        <5> QED BY <5>1, <5>2
      <4> QED BY <1>1, <2>2, <4>3, <4>4, Witnesses
    <3> QED BY <3>1, <3>2
  <2> QED BY <2>3, <2>4
<1> QED BY <1>2, <1>3

LEMMA QueueNext == StateInv /\ AgeInv /\ HeldInv /\ QueueInv /\ [Next]_vars => QueueInv'
<1> SUFFICES ASSUME StateInv, AgeInv, HeldInv, QueueInv, [Next]_vars, Steady(post)', ~left'
             PROVE  /\ Totals' /\ Copies' /\ Counted' /\ QueuedFit'
                    /\ IsComplete(art)' => ready' \/ Awaited'
  BY DEF QueueInv
<1>1. world' = world
  BY WindowStep
<1>2. Steady(post)
  BY <1>1 DEF post, Steady, Agreed, Numbered, Plain, LargestAmong, InWindow, Largest, Window
<1>3. QueueStep
  BY <1>2 DEF QueueStep
<1>4. post' = post /\ \A w : In(w)' = In(w)
  BY <1>3, QueueFacts
<1>6. Totals'
  <2>1. Good(meta', art') /\ \A a \in post : meta'.files \in {0, a.files}
    BY <1>3, TotalsNext
  <2> QED BY <1>4, <2>1 DEF Totals, Good
<1>7. Copies'
  <2>1. \A s \in Stager : stager'[s].phase \in {"folded", "spanned"} =>
            stager'[s].meta.exists /\ Good(stager'[s].meta, art')
    BY <1>3, CopiesNext
  <2> QED BY <1>4, <2>1 DEF Copies, Good
<1>8. Counted'
  <2>1. /\ \A s \in Stager : stager'[s].phase \notin {"idle", "put"} =>
                 meta'.exists /\ Claimed(stager'[s].win, meta')
        /\ \A w \in done' : Claimed(w, meta')
    BY <1>3, CountedNext
  <2>2. \A w : Claimed(w, meta') => Claimed(w, meta)'
    BY <1>4 DEF Claimed
  <2>3. \A s \in Stager : Claimed(stager'[s].win, meta') => Claimed(stager[s].win, meta)'
    BY <1>4, <1>1 DEF Claimed, In, post
  <2> QED BY <2>1, <2>2, <2>3 DEF Counted, Past
<1>9. QueuedFit'
  BY <1>3, QueuedFitNext
<1>10. IsComplete(art)' => ready' \/ Awaited'
  <2>1. IsComplete(art)' = IsComplete(art')
    BY DEF IsComplete, MaxOf, PartsOf, FilesOf
  <2> QED BY <1>3, <2>1, AwaitedNext
<1> QED BY <1>6, <1>7, <1>8, <1>9, <1>10

(* CompleteQueued: no interleaving of batches, failures and clocks leaves a  *)
(* complete set, whose batches all reported success, out of the ready queue: *)
(* the batch whose fold counts the last window sees all there is to see,     *)
(* because the articles are written before the metadata and no total ever    *)
(* shrinks (metaMaxScript, stageArticlesOnce).                               *)
THEOREM CompleteSetsAreQueued == ASSUME SteadyPosts PROVE Spec => []CompleteQueued
<1>1. Init => QueueInv
  <2> SUFFICES ASSUME Init PROVE Totals /\ Copies /\ Counted /\ QueuedFit /\ ~IsComplete(art)
    BY DEF QueueInv
  <2>1. \A f \in File : meta.parts[f] = 0
    BY DEF Init, NoMeta
  <2>2. ~meta.exists /\ meta.files = 0
    BY DEF Init, NoMeta
  <2>3. Totals
    BY <2>1, <2>2 DEF Totals, Good
  <2>4. \A s \in Stager : stager[s].phase = "idle"
    BY DEF Init, NoStager
  <2>5. ~ready /\ builder.phase = "idle" /\ done = {} /\ art = {}
    BY DEF Init, NoBuilder
  <2> QED BY <2>3, <2>4, <2>5, EmptyIncomplete DEF Copies, Counted, Past, QueuedFit, Queued
<1>2. StateInv /\ AgeInv /\ HeldInv /\ QueueInv /\ [Next]_vars => QueueInv'
  BY QueueNext
<1>3. StateInv /\ QueueInv => CompleteQueued
  <2> SUFFICES ASSUME StateInv, QueueInv, ~left, IsComplete(art),
                      \A w \in Window \ done : In(w) = {}
               PROVE  ready
    BY DEF CompleteQueued
  <2>1. world \in Worlds /\ art \subseteq post
    BY DEF StateInv, TypeInv
  <2>2. Steady(post)
    BY <2>1 DEF SteadyPosts, Hopeless, post
  <2> QED BY <2>2 DEF QueueInv, Awaited
<1> QED BY <1>1, <1>2, <1>3, StateAlways, AgeAlways, HeldAlways, PTL DEF Spec
=============================================================================
