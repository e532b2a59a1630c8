------------------------- MODULE UsenetLeasesProofs -------------------------
(***************************************************************************)
(* Proofs about UsenetLeases for every set of workers, jobs and keys and   *)
(* every admissible timing: the types, the exactness of the reference      *)
(* count, and that a reliable worker owns what it works on.                *)
(***************************************************************************)
EXTENDS UsenetLeases, FiniteSetTheorems, TLAPS

-----------------------------------------------------------------------------
(* Type correctness, one lemma per group of actions.                        *)

LEMMA ClaimRowsType ==
    ASSUME TypeOK, NEW w \in Worker, NEW K \in SUBSET Key
    PROVE  ClaimRows(w, K) \in [Key -> LeaseRow]
  BY TimeAssumption DEF TypeOK, ClaimRows, LeaseRow

LEMMA DeleteRowType ==
    ASSUME TypeOK, NEW w \in Worker, NEW k \in Key
    PROVE  DeleteRow(w, k) \in [Key -> LeaseRow]
  BY TimeAssumption DEF TypeOK, DeleteRow, LeaseRow, NoLease

LEMMA IdlePassType == IdlePass \in Pass
  BY TimeAssumption DEF IdlePass, Pass, Phase

LEMMA InitType == Init => TypeOK
  BY IdlePassType, TimeAssumption DEF Init, TypeOK, NoLease, LeaseRow

LEMMA BegunType == ASSUME NEW K \in SUBSET Key PROVE Begun(K) \in Pass
<1>1. ASSUME NEW p \in Pass, NEW f \in Phase
      PROVE  [p EXCEPT !.phase = f, !.want = K] \in Pass
  BY DEF Pass
<1>2. "claiming" \in Phase BY DEF Phase
<1> QED BY <1>1, <1>2, IdlePassType DEF Begun

LEMMA ClaimingType ==
    ASSUME NEW p \in Pass, NEW k \in Key
    PROVE  Asked(p, k) \in Pass /\ Claimed(p, k) \in Pass
  BY DEF Asked, Claimed, Pass

LEMMA InPhaseType ==
    ASSUME NEW p \in Pass, NEW f \in Phase PROVE InPhase(p, f) \in Pass
  BY DEF InPhase, Pass

LEMMA RenewedType ==
    ASSUME NEW p \in Pass, NEW ok \in BOOLEAN, NEW err \in BOOLEAN
    PROVE  Renewed(p, ok, err) \in Pass
<1> DEFINE a == IF ok THEN 0 ELSE p.okAge
           f == IF RenewalLost(ok, err, p.okAge) THEN "cancelled" ELSE "working"
<1>1. a \in 0..TTL /\ f \in Phase /\ 0 \in 0..RenewEvery
  BY TimeAssumption DEF Pass, Phase
<1>2. Renewed(p, ok, err) = [p EXCEPT !.okAge = a, !.tickAge = 0, !.phase = f]
  BY DEF Renewed, Pass
<1> HIDE DEF a, f
<1> QED BY <1>1, <1>2 DEF Pass

LEMMA ReleasedType ==
    ASSUME NEW p \in Pass, NEW k \in Key PROVE Released(p, k) \in Pass
  BY IdlePassType DEF Released, Pass

LEMMA SetPassType ==
    ASSUME TypeOK, NEW w \in Worker, NEW j \in Job, NEW p \in Pass
    PROVE  SetPass(w, j, p) \in [Worker -> [Job -> Pass]]
  BY DEF TypeOK, SetPass

LEMMA HeldUpdateType ==
    ASSUME TypeOK, NEW w \in Worker, NEW k \in Key, NEW n \in Nat
    PROVE  SetHeld(w, k, n) \in [Worker -> [Key -> Nat]]
  BY DEF TypeOK, SetHeld

LEMMA RunDownType == ASSUME NEW row \in LeaseRow PROVE RunDown(row) \in LeaseRow
  BY TimeAssumption DEF RunDown, LeaseRow

LEMMA OlderType == ASSUME NEW cap \in Nat, NEW age \in 0..cap
                   PROVE  Older(age, cap) \in 0..cap
  BY DEF Older

LEMMA OlderPassType == ASSUME NEW p \in Pass PROVE OlderPass(p) \in Pass
<1>1. Older(p.okAge, TTL) \in 0..TTL /\ Older(p.tickAge, RenewEvery) \in 0..RenewEvery
  BY OlderType, TimeAssumption DEF Pass
<1> QED BY <1>1 DEF OlderPass, Pass

LEMMA StepType == TypeOK /\ [Next]_vars => TypeOK'
<1> SUFFICES ASSUME TypeOK, [Next]_vars PROVE TypeOK'
  OBVIOUS
<1>1. CASE Tick
  <2>1. lease' \in [Key -> LeaseRow]
    BY <1>1, RunDownType DEF Tick, TypeOK
  <2>2. beat' \in [Worker -> 0..DeadAfter]
    BY <1>1, OlderType, TimeAssumption DEF Tick, TypeOK
  <2>3. pass' \in [Worker -> [Job -> Pass]]
    BY <1>1, OlderPassType DEF Tick, TypeOK
  <2> QED BY <1>1, <2>1, <2>2, <2>3 DEF Tick, TypeOK
<1>2. ASSUME NEW w \in Worker, Start(w) \/ Heartbeat(w) PROVE TypeOK'
  <2>1. CASE Start(w)
    BY <2>1 DEF Start, TypeOK
  <2>2. CASE Heartbeat(w)
    <3>1. 0 \in 0..DeadAfter BY TimeAssumption
    <3> QED BY <2>2, <3>1 DEF Heartbeat, TypeOK
  <2> QED BY <1>2, <2>1, <2>2
<1>3. ASSUME NEW w \in Worker, Crash(w) PROVE TypeOK'
  <2>1. [j \in Job |-> IdlePass] \in [Job -> Pass] /\ [k \in Key |-> 0] \in [Key -> Nat]
    BY IdlePassType
  <2>2. pass' \in [Worker -> [Job -> Pass]] /\ held' \in [Worker -> [Key -> Nat]]
    BY <1>3, <2>1 DEF Crash, TypeOK
  <2> QED BY <1>3, <2>2 DEF Crash, TypeOK
<1>4. ASSUME NEW w \in Worker, NEW j \in Job, JobStep(w, j) PROVE TypeOK'
  <2>0. pass[w][j] \in Pass
    BY DEF TypeOK
  <2>1. CASE BeginPass(w, j)
    <3>1. PICK K \in SUBSET Key : pass' = SetPass(w, j, Begun(K))
      BY <2>1, JobAssumption DEF BeginPass
    <3> QED BY <2>1, <3>1, BegunType, SetPassType DEF BeginPass, TypeOK
  <2>2. CASE StartWork(w, j)
    <3>1. "working" \in Phase BY DEF Phase
    <3> QED BY <2>0, <2>2, <3>1, IdlePassType, InPhaseType, SetPassType
            DEF StartWork, TypeOK
  <2>3. CASE Renew(w, j)
    <3>1. PICK K \in SUBSET pass[w][j].keys, ok \in BOOLEAN, err \in BOOLEAN :
             RenewResult(w, j, K, ok, err)
      BY <2>3 DEF Renew
    <3>2. K \in SUBSET Key
      BY <2>0 DEF Pass
    <3> QED BY <2>0, <2>3, <3>1, <3>2, RenewedType, SetPassType, ClaimRowsType
            DEF Renew, RenewResult, TypeOK
  <2>4. CASE FinishPass(w, j)
    <3>1. "releasing" \in Phase BY DEF Phase
    <3> QED BY <2>0, <2>4, <3>1, InPhaseType, SetPassType DEF FinishPass, TypeOK
  <2>5. ASSUME NEW k \in Key, ClaimKey(w, j, k) PROVE TypeOK'
    <3>1. pass' \in [Worker -> [Job -> Pass]]
      <4>1. \/ pass' = SetPass(w, j, Asked(pass[w][j], k))
            \/ pass' = SetPass(w, j, Claimed(pass[w][j], k))
        BY <2>5 DEF ClaimKey
      <4> QED BY <2>0, <4>1, ClaimingType, SetPassType
    <3>2. lease' \in [Key -> LeaseRow]
      BY <2>5, ClaimRowsType DEF ClaimKey, TypeOK
    <3>3. held' \in [Worker -> [Key -> Nat]]
      <4>1. held[w][k] + 1 \in Nat BY DEF TypeOK
      <4> QED BY <2>5, <4>1, HeldUpdateType DEF ClaimKey, TypeOK
    <3> QED BY <2>5, <3>1, <3>2, <3>3 DEF ClaimKey, TypeOK
  <2>6. ASSUME NEW k \in Key, ReleaseKey(w, j, k) PROVE TypeOK'
    <3>1. pass' \in [Worker -> [Job -> Pass]]
      BY <2>0, <2>6, ReleasedType, SetPassType DEF ReleaseKey
    <3>2. lease' \in [Key -> LeaseRow]
      BY <2>6, DeleteRowType DEF ReleaseKey, TypeOK
    <3>3. held' \in [Worker -> [Key -> Nat]]
      <4>1. held[w][k] > 1 => held[w][k] - 1 \in Nat
        BY DEF TypeOK
      <4> QED BY <2>6, <4>1, HeldUpdateType DEF ReleaseKey, TypeOK
    <3> QED BY <2>6, <3>1, <3>2, <3>3 DEF ReleaseKey, TypeOK
  <2> QED BY <1>4, <2>1, <2>2, <2>3, <2>4, <2>5, <2>6 DEF JobStep
<1>5. CASE UNCHANGED vars
  BY <1>5 DEF vars, TypeOK
<1> QED BY <1>1, <1>2, <1>3, <1>4, <1>5 DEF Next

(* Every value stays in its type: in particular the ages the code compares  *)
(* with its thresholds never leave their ranges.                            *)
THEOREM TypeCorrect == Spec => []TypeOK
<1>1. Init => TypeOK BY InitType
<1>2. TypeOK /\ [Next]_vars => TypeOK' BY StepType
<1> QED BY <1>1, <1>2, PTL DEF Spec

-----------------------------------------------------------------------------
(* The inductive invariant.  The reference count needs to know that a key   *)
(* being asked for is not one already counted, and that an idle pass counts *)
(* none.  Ownership needs the margins: how old a beat and a row can be.     *)
PassShape ==
    \A w \in Worker, j \in Job :
       /\ pass[w][j].phase = "idle" => pass[w][j].keys = {}
       /\ pass[w][j].want \cap pass[w][j].keys = {}
       /\ status[w] # "up" => pass[w][j].phase = "idle"

BeatFresh ==
    \A w \in Reliable :
       /\ status[w] = "off" => beat[w] = DeadAfter
       /\ status[w] = "up" => beat[w] <= BeatEvery \/ beat[w] = DeadAfter
       /\ \A j \in Job : pass[w][j].phase # "idle" => beat[w] # DeadAfter

RowMargin ==
    \A w \in Reliable, j \in Job : \A k \in pass[w][j].keys :
       /\ pass[w][j].phase = "claiming" =>
             lease[k].owner = w /\ lease[k].left = TTL
       /\ pass[w][j].phase = "working" =>
             lease[k].owner = w /\ lease[k].left + pass[w][j].tickAge >= TTL

IInv == TypeOK /\ PassShape /\ RefCountExact /\ BeatFresh /\ RowMargin

-----------------------------------------------------------------------------
(* How each step changes one pass, field by field.                          *)

LEMMA SetPassAt ==
    ASSUME TypeOK, NEW w \in Worker, NEW j \in Job, NEW p,
           NEW v \in Worker, NEW i \in Job
    PROVE  SetPass(w, j, p)[v][i] = IF v = w /\ i = j THEN p ELSE pass[v][i]
  BY DEF TypeOK, SetPass

LEMMA AskedFields ==
    ASSUME NEW p \in Pass, NEW k
    PROVE  /\ Asked(p, k).phase = p.phase
           /\ Asked(p, k).want = p.want \ {k}
           /\ Asked(p, k).keys = p.keys
  BY DEF Asked, Pass

LEMMA ClaimedFields ==
    ASSUME NEW p \in Pass, NEW k
    PROVE  /\ Claimed(p, k).phase = p.phase
           /\ Claimed(p, k).want = p.want \ {k}
           /\ Claimed(p, k).keys = p.keys \cup {k}
  BY DEF Claimed, Pass

LEMMA InPhaseFields ==
    ASSUME NEW p \in Pass, NEW f
    PROVE  /\ InPhase(p, f).phase = f
           /\ InPhase(p, f).want = p.want
           /\ InPhase(p, f).keys = p.keys
           /\ InPhase(p, f).tickAge = p.tickAge
  BY DEF InPhase, Pass

LEMMA RenewedFields ==
    ASSUME NEW p \in Pass, NEW ok, NEW err
    PROVE  /\ Renewed(p, ok, err).phase \in {"cancelled", "working"}
           /\ Renewed(p, ok, err).want = p.want
           /\ Renewed(p, ok, err).keys = p.keys
           /\ Renewed(p, ok, err).tickAge = 0
  BY DEF Renewed, Pass

LEMMA OlderFields ==
    ASSUME NEW p \in Pass
    PROVE  /\ OlderPass(p).phase = p.phase
           /\ OlderPass(p).want = p.want
           /\ OlderPass(p).keys = p.keys
           /\ OlderPass(p).tickAge = Older(p.tickAge, RenewEvery)
  BY DEF OlderPass, Pass

LEMMA ReleasedFields ==
    ASSUME NEW p \in Pass, NEW k
    PROVE  /\ Released(p, k).keys = p.keys \ {k}
           /\ Released(p, k).want = {} \/ Released(p, k).want = p.want
           /\ Released(p, k).phase = "idle" => Released(p, k).keys = {} \/ p.phase = "idle"
           /\ Released(p, k).phase \in {"idle", p.phase}
<1>1. CASE p.keys = {k}
  BY <1>1 DEF Released, IdlePass
<1>2. CASE p.keys # {k}
  BY <1>2 DEF Released, Pass
<1> QED BY <1>1, <1>2

LEMMA IdleFields ==
    IdlePass.phase = "idle" /\ IdlePass.want = {} /\ IdlePass.keys = {}
  BY DEF IdlePass

LEMMA BegunFields == ASSUME NEW K
    PROVE Begun(K).phase = "claiming" /\ Begun(K).want = K /\ Begun(K).keys = {}
  BY DEF Begun, IdlePass

-----------------------------------------------------------------------------
LEMMA ShapeStep == TypeOK /\ PassShape /\ [Next]_vars => PassShape'
<1> SUFFICES ASSUME TypeOK, PassShape, [Next]_vars,
                    NEW v \in Worker, NEW i \in Job
             PROVE  /\ pass'[v][i].phase = "idle" => pass'[v][i].keys = {}
                    /\ pass'[v][i].want \cap pass'[v][i].keys = {}
                    /\ status'[v] # "up" => pass'[v][i].phase = "idle"
  BY DEF PassShape
<1>0. pass[v][i] \in Pass
  BY DEF TypeOK
<1>1. CASE Tick
  <2>1. pass'[v][i] \in {pass[v][i], OlderPass(pass[v][i])} /\ status' = status
    BY <1>1 DEF Tick
  <2> QED BY <1>0, <2>1, OlderFields DEF PassShape
<1>2. ASSUME NEW w \in Worker, Start(w) PROVE status'[v] # "up" => status[v] # "up"
  BY <1>2 DEF Start, TypeOK
<1>3. ASSUME NEW w \in Worker, Crash(w)
      PROVE  /\ pass'[v][i] = IF v = w THEN IdlePass ELSE pass[v][i]
             /\ v # w => status'[v] = status[v]
  BY <1>3 DEF Crash, TypeOK
<1>4. ASSUME NEW w \in Worker, NEW j \in Job, JobStep(w, j)
      PROVE  /\ pass'[v][i].phase = "idle" => pass'[v][i].keys = {}
             /\ pass'[v][i].want \cap pass'[v][i].keys = {}
             /\ status'[v] # "up" => pass'[v][i].phase = "idle"
  <2>0. pass[w][j] \in Pass /\ status' = status
    BY <1>4 DEF TypeOK, JobStep, BeginPass, StartWork, Renew, FinishPass, ClaimKey, ReleaseKey
  <2>1. CASE v # w \/ i # j
    <3>1. PICK p : pass' = SetPass(w, j, p)
      BY <1>4 DEF JobStep, BeginPass, StartWork, Renew, RenewResult, FinishPass,
                  ClaimKey, ReleaseKey
    <3> QED BY <2>0, <2>1, <3>1, SetPassAt DEF PassShape
  <2> SUFFICES ASSUME v = w, i = j
               PROVE  /\ pass'[w][j].phase = "idle" => pass'[w][j].keys = {}
                      /\ pass'[w][j].want \cap pass'[w][j].keys = {}
                      /\ status[w] # "up" => pass'[w][j].phase = "idle"
    BY <2>0, <2>1
  <2>2. CASE BeginPass(w, j)
    <3>1. PICK K : pass' = SetPass(w, j, Begun(K)) /\ status[w] = "up"
      BY <2>2 DEF BeginPass
    <3> QED BY <3>1, SetPassAt, BegunFields
  <2>3. CASE StartWork(w, j)
    BY <2>0, <2>3, SetPassAt, InPhaseFields, IdleFields DEF StartWork, PassShape
  <2>4. CASE Renew(w, j)
    <3>1. PICK K, ok, err : RenewResult(w, j, K, ok, err)
      BY <2>4 DEF Renew
    <3> QED BY <2>0, <2>4, <3>1, SetPassAt, RenewedFields
            DEF Renew, RenewResult, Renewing, PassShape
  <2>5. CASE FinishPass(w, j)
    BY <2>0, <2>5, SetPassAt, InPhaseFields DEF FinishPass, PassShape
  <2>6. ASSUME NEW k \in Key, ClaimKey(w, j, k)
        PROVE  /\ pass'[w][j].phase = "idle" => pass'[w][j].keys = {}
               /\ pass'[w][j].want \cap pass'[w][j].keys = {}
               /\ status[w] # "up" => pass'[w][j].phase = "idle"
    <3>1. \/ pass' = SetPass(w, j, Asked(pass[w][j], k))
          \/ pass' = SetPass(w, j, Claimed(pass[w][j], k))
      BY <2>6 DEF ClaimKey
    <3>2. pass[w][j].phase = "claiming"
      BY <2>6 DEF ClaimKey
    <3> QED BY <2>0, <3>1, <3>2, SetPassAt, AskedFields, ClaimedFields DEF PassShape
  <2>7. ASSUME NEW k \in Key, ReleaseKey(w, j, k)
        PROVE  /\ pass'[w][j].phase = "idle" => pass'[w][j].keys = {}
               /\ pass'[w][j].want \cap pass'[w][j].keys = {}
               /\ status[w] # "up" => pass'[w][j].phase = "idle"
    <3>1. pass'[w][j] = Released(pass[w][j], k) /\ pass[w][j].phase = "releasing"
      BY <2>7, SetPassAt DEF ReleaseKey
    <3> QED BY <2>0, <3>1, ReleasedFields DEF PassShape
  <2> QED BY <1>4, <2>2, <2>3, <2>4, <2>5, <2>6, <2>7 DEF JobStep
<1>5. CASE UNCHANGED vars \/ \E w \in Worker : Heartbeat(w)
  BY <1>5 DEF vars, Heartbeat, PassShape
<1>6. CASE \E w \in Worker : Start(w)
  BY <1>2, <1>6 DEF Start, PassShape
<1>7. CASE \E w \in Worker : Crash(w)
  BY <1>3, <1>7, IdleFields DEF PassShape
<1> QED BY <1>1, <1>4, <1>5, <1>6, <1>7 DEF Next

-----------------------------------------------------------------------------
(* The reference count.  Holders changes with the keys of one pass only.    *)

LEMMA HoldersFinite ==
    ASSUME NEW w, NEW k
    PROVE  IsFiniteSet(Holders(w, k)) /\ Cardinality(Holders(w, k)) \in Nat
  BY JobAssumption, FS_Subset, FS_CardinalityType DEF Holders

\* A step that leaves the keys of every pass alone keeps the holders.
LEMMA HoldersKept ==
    ASSUME NEW v, NEW k, \A i \in Job : pass'[v][i].keys = pass[v][i].keys
    PROVE  Holders(v, k)' = Holders(v, k)
  BY DEF Holders

\* A pass that gains k joins the holders of k, and of no other key.
LEMMA HoldersClaimed ==
    ASSUME TypeOK, PassShape, NEW w \in Worker, NEW j \in Job, NEW k \in Key,
           ClaimKey(w, j, k), pass' = SetPass(w, j, Claimed(pass[w][j], k)),
           NEW v \in Worker, NEW l \in Key
    PROVE  IF v = w /\ l = k
           THEN Holders(v, l)' = Holders(v, l) \cup {j} /\ j \notin Holders(v, l)
           ELSE Holders(v, l)' = Holders(v, l)
<1>0. pass[w][j] \in Pass
  BY DEF TypeOK
<1>1. ASSUME NEW i \in Job
      PROVE  pass'[v][i].keys = IF v = w /\ i = j THEN pass[v][i].keys \cup {k}
                                ELSE pass[v][i].keys
  <2>1. pass'[v][i] = IF v = w /\ i = j THEN Claimed(pass[w][j], k) ELSE pass[v][i]
    BY SetPassAt
  <2> QED BY <1>0, <2>1, ClaimedFields
<1>2. k \notin pass[w][j].keys
  BY DEF ClaimKey, PassShape
<1> QED BY <1>1, <1>2 DEF Holders

\* A pass that gives k back leaves the holders of k, and of no other key.
LEMMA HoldersReleased ==
    ASSUME TypeOK, NEW w \in Worker, NEW j \in Job, NEW k \in Key,
           ReleaseKey(w, j, k), NEW v \in Worker, NEW l \in Key
    PROVE  IF v = w /\ l = k
           THEN Holders(v, l)' = Holders(v, l) \ {j} /\ j \in Holders(v, l)
           ELSE Holders(v, l)' = Holders(v, l)
<1>0. pass[w][j] \in Pass
  BY DEF TypeOK
<1>1. ASSUME NEW i \in Job
      PROVE  pass'[v][i].keys = IF v = w /\ i = j THEN pass[v][i].keys \ {k}
                                ELSE pass[v][i].keys
  <2>1. pass'[v][i] = IF v = w /\ i = j THEN Released(pass[w][j], k) ELSE pass[v][i]
    BY SetPassAt DEF ReleaseKey
  <2> QED BY <1>0, <2>1, ReleasedFields
<1>2. k \in pass[w][j].keys
  BY DEF ReleaseKey
<1> QED BY <1>1, <1>2 DEF Holders

\* The other steps of a job keep the keys of its pass.
LEMMA QuietJobStep ==
    ASSUME TypeOK, PassShape, NEW w \in Worker, NEW j \in Job,
           \/ BeginPass(w, j) \/ StartWork(w, j) \/ Renew(w, j) \/ FinishPass(w, j)
           \/ \E k \in Key : /\ ClaimKey(w, j, k)
                             /\ pass' = SetPass(w, j, Asked(pass[w][j], k)),
           NEW v \in Worker, NEW i \in Job
    PROVE  pass'[v][i].keys = pass[v][i].keys
<1>0. pass[w][j] \in Pass
  BY DEF TypeOK
<1>1. CASE BeginPass(w, j)
  <2>1. PICK K : pass' = SetPass(w, j, Begun(K)) /\ pass[w][j].phase = "idle"
    BY <1>1 DEF BeginPass
  <2>2. pass'[v][i] = IF v = w /\ i = j THEN Begun(K) ELSE pass[v][i]
    BY <2>1, SetPassAt
  <2> QED BY <2>1, <2>2, BegunFields DEF PassShape
<1>2. CASE StartWork(w, j)
  <2> DEFINE p == IF pass[w][j].keys = {} THEN IdlePass
                  ELSE InPhase(pass[w][j], "working")
  <2>1. pass' = SetPass(w, j, p)
    BY <1>2 DEF StartWork
  <2>2. p.keys = pass[w][j].keys
    BY <1>0, InPhaseFields, IdleFields
  <2> HIDE DEF p
  <2> QED BY <2>1, <2>2, SetPassAt
<1>3. CASE Renew(w, j)
  <2>1. PICK K, ok, err : RenewResult(w, j, K, ok, err)
    BY <1>3 DEF Renew
  <2> QED BY <1>0, <2>1, SetPassAt, RenewedFields DEF RenewResult
<1>4. CASE FinishPass(w, j)
  BY <1>0, <1>4, SetPassAt, InPhaseFields DEF FinishPass
<1>5. ASSUME NEW k \in Key, pass' = SetPass(w, j, Asked(pass[w][j], k))
      PROVE  pass'[v][i].keys = pass[v][i].keys
  BY <1>0, <1>5, SetPassAt, AskedFields
<1> QED BY <1>1, <1>2, <1>3, <1>4, <1>5

LEMMA SetHeldAt ==
    ASSUME TypeOK, NEW w \in Worker, NEW k \in Key, NEW n,
           NEW v \in Worker, NEW l \in Key
    PROVE  SetHeld(w, k, n)[v][l] = IF v = w /\ l = k THEN n ELSE held[v][l]
  BY DEF TypeOK, SetHeld

LEMMA RefCountStep ==
    TypeOK /\ PassShape /\ RefCountExact /\ [Next]_vars => RefCountExact'
<1> SUFFICES ASSUME TypeOK, PassShape, RefCountExact, [Next]_vars,
                    NEW v \in Worker, NEW l \in Key
             PROVE  held'[v][l] = Cardinality(Holders(v, l)')
  BY DEF RefCountExact
<1>0. held[v][l] = Cardinality(Holders(v, l))
  BY DEF RefCountExact
<1>1. CASE Tick
  <2>1. \A i \in Job : pass'[v][i].keys = pass[v][i].keys
    BY <1>1, OlderFields DEF Tick, TypeOK
  <2> QED BY <1>0, <1>1, <2>1, HoldersKept DEF Tick
<1>2. CASE UNCHANGED vars \/ \E w \in Worker : Start(w) \/ Heartbeat(w)
  BY <1>0, <1>2, HoldersKept DEF vars, Start, Heartbeat
<1>3. ASSUME NEW w \in Worker, Crash(w)
      PROVE  held'[v][l] = Cardinality(Holders(v, l)')
  <2>1. CASE v = w
    <3>1. held'[v][l] = 0 /\ \A i \in Job : pass'[v][i] = IdlePass
      BY <1>3, <2>1 DEF Crash, TypeOK
    <3>2. Holders(v, l)' = {}
      BY <3>1, IdleFields DEF Holders
    <3> QED BY <3>1, <3>2, FS_EmptySet
  <2>2. CASE v # w
    <3>1. held'[v] = held[v] /\ pass'[v] = pass[v]
      BY <1>3, <2>2 DEF Crash, TypeOK
    <3> QED BY <1>0, <3>1, HoldersKept
  <2> QED BY <2>1, <2>2
<1>4. ASSUME NEW w \in Worker, NEW j \in Job, JobStep(w, j)
      PROVE  held'[v][l] = Cardinality(Holders(v, l)')
  <2>1. CASE BeginPass(w, j) \/ StartWork(w, j) \/ Renew(w, j) \/ FinishPass(w, j)
    <3>1. held' = held
      BY <2>1 DEF BeginPass, StartWork, Renew, FinishPass
    <3> QED BY <1>0, <2>1, <3>1, QuietJobStep, HoldersKept
  <2>2. ASSUME NEW k \in Key, ClaimKey(w, j, k)
        PROVE  held'[v][l] = Cardinality(Holders(v, l)')
    <3>1. CASE held' = held /\ pass' = SetPass(w, j, Asked(pass[w][j], k))
      BY <1>0, <2>2, <3>1, QuietJobStep, HoldersKept
    <3>2. CASE /\ held' = SetHeld(w, k, held[w][k] + 1)
               /\ pass' = SetPass(w, j, Claimed(pass[w][j], k))
      <4>1. CASE v = w /\ l = k
        <5>1. Holders(v, l)' = Holders(v, l) \cup {j} /\ j \notin Holders(v, l)
          BY <2>2, <3>2, <4>1, HoldersClaimed
        <5>2. Cardinality(Holders(v, l)') = Cardinality(Holders(v, l)) + 1
          BY <5>1, HoldersFinite, FS_AddElement
        <5> QED BY <1>0, <3>2, <4>1, <5>2, SetHeldAt
      <4>2. CASE ~(v = w /\ l = k)
        BY <1>0, <2>2, <3>2, <4>2, HoldersClaimed, SetHeldAt
      <4> QED BY <4>1, <4>2
    <3> QED BY <2>2, <3>1, <3>2 DEF ClaimKey
  <2>3. ASSUME NEW k \in Key, ReleaseKey(w, j, k)
        PROVE  held'[v][l] = Cardinality(Holders(v, l)')
    <3>1. CASE v = w /\ l = k
      <4>0. held[w][k] \in Nat
        BY DEF TypeOK
      <4>1. Holders(v, l)' = Holders(v, l) \ {j} /\ j \in Holders(v, l)
        BY <2>3, <3>1, HoldersReleased
      <4>2. Cardinality(Holders(v, l)') = Cardinality(Holders(v, l)) - 1
        BY <4>1, HoldersFinite, FS_RemoveElement
      <4>3. Cardinality(Holders(v, l)') \in Nat
        BY <4>1, HoldersFinite, FS_RemoveElement, FS_CardinalityType
      <4>4. held'[w][k] = IF held[w][k] > 1 THEN held[w][k] - 1 ELSE 0
        <5>1. CASE held[w][k] > 1
          <6>1. held' = SetHeld(w, k, held[w][k] - 1)
            BY <2>3, <4>0, <5>1 DEF ReleaseKey
          <6> QED BY <5>1, <6>1, SetHeldAt
        <5>2. CASE ~(held[w][k] > 1)
          <6>1. held' = SetHeld(w, k, 0)
            BY <2>3, <4>0, <5>2 DEF ReleaseKey
          <6> QED BY <5>2, <6>1, SetHeldAt
        <5> QED BY <5>1, <5>2
      <4> QED BY <1>0, <3>1, <4>2, <4>3, <4>4, HoldersFinite
    <3>2. CASE ~(v = w /\ l = k)
      <4>1. PICK n : held' = SetHeld(w, k, n)
        BY <2>3 DEF ReleaseKey
      <4> QED BY <1>0, <2>3, <3>2, <4>1, HoldersReleased, SetHeldAt
    <3> QED BY <3>1, <3>2
  <2> QED BY <1>4, <2>1, <2>2, <2>3 DEF JobStep
<1> QED BY <1>1, <1>2, <1>3, <1>4 DEF Next

-----------------------------------------------------------------------------
(* Heartbeats: on time, they keep a reliable worker away from DeadAfter.    *)

LEMMA JobStepFrame ==
    ASSUME TypeOK, NEW w \in Worker, NEW j \in Job, JobStep(w, j)
    PROVE  /\ status' = status /\ beat' = beat
           /\ \A v \in Worker, i \in Job :
                 v # w \/ i # j => pass'[v][i] = pass[v][i]
<1>1. PICK p : pass' = SetPass(w, j, p)
  BY DEF JobStep, BeginPass, StartWork, Renew, RenewResult, FinishPass, ClaimKey,
         ReleaseKey
<1>2. status' = status /\ beat' = beat
  BY DEF JobStep, BeginPass, StartWork, Renew, FinishPass, ClaimKey, ReleaseKey
<1> QED BY <1>1, <1>2, SetPassAt

\* Only BeginPass takes a pass out of the idle phase.
LEMMA LeavesIdle ==
    ASSUME TypeOK, NEW w \in Worker, NEW j \in Job, JobStep(w, j),
           pass[w][j].phase = "idle", pass'[w][j].phase # "idle"
    PROVE  BeginPass(w, j)
  BY DEF JobStep, StartWork, Renew, Renewing, FinishPass, ClaimKey, ReleaseKey

LEMMA BeatStep == TypeOK /\ PassShape /\ BeatFresh /\ [Next]_vars => BeatFresh'
<1> SUFFICES ASSUME TypeOK, PassShape, BeatFresh, [Next]_vars, NEW v \in Reliable
             PROVE  /\ status'[v] = "off" => beat'[v] = DeadAfter
                    /\ status'[v] = "up" => beat'[v] <= BeatEvery \/ beat'[v] = DeadAfter
                    /\ \A i \in Job : pass'[v][i].phase # "idle" => beat'[v] # DeadAfter
  BY DEF BeatFresh, Reliable
<1>0. v \in Worker /\ v \in Punctual /\ v \in DbOk /\ beat[v] \in 0..DeadAfter
  BY FaultAssumption DEF Reliable, TypeOK
<1>1. CASE Tick
  <2>1. /\ beat'[v] = Older(beat[v], DeadAfter) /\ status' = status
        /\ status[v] = "up" => beat[v] < BeatEvery
    BY <1>0, <1>1 DEF Tick, OnTime
  <2>2. ASSUME NEW i \in Job, pass'[v][i].phase # "idle" PROVE status[v] = "up"
    <3>1. pass'[v][i] \in {pass[v][i], OlderPass(pass[v][i])} /\ pass[v][i] \in Pass
      BY <1>0, <1>1 DEF Tick, TypeOK
    <3> QED BY <1>0, <2>2, <3>1, OlderFields DEF PassShape
  <2>3. /\ status[v] = "off" => beat'[v] = DeadAfter
        /\ status[v] = "up" => beat'[v] <= BeatEvery /\ beat'[v] # DeadAfter
    BY <1>0, <2>1, TimeAssumption DEF BeatFresh, Older
  <2> QED BY <2>1, <2>2, <2>3
<1>2. ASSUME NEW w \in Worker, Start(w) \/ Heartbeat(w) \/ Crash(w)
      PROVE  /\ status'[v] = "off" => beat'[v] = DeadAfter
             /\ status'[v] = "up" => beat'[v] <= BeatEvery \/ beat'[v] = DeadAfter
             /\ \A i \in Job : pass'[v][i].phase # "idle" => beat'[v] # DeadAfter
  <2>1. CASE Start(w)
    BY <1>0, <2>1 DEF Start, BeatFresh, TypeOK
  <2>2. CASE Heartbeat(w)
    <3>1. beat'[v] = (IF v = w THEN 0 ELSE beat[v]) /\ status[w] = "up"
      BY <1>0, <2>2 DEF Heartbeat, TypeOK
    <3> QED BY <1>0, <2>2, <3>1, TimeAssumption DEF Heartbeat, BeatFresh
  <2>3. CASE Crash(w)
    <3>1. /\ status'[v] = IF v = w THEN "dead" ELSE status[v]
          /\ \A i \in Job : pass'[v][i] = IF v = w THEN IdlePass ELSE pass[v][i]
          /\ beat' = beat
      BY <1>0, <2>3 DEF Crash, TypeOK
    <3> QED BY <3>1, IdleFields DEF BeatFresh
  <2> QED BY <1>2, <2>1, <2>2, <2>3
<1>3. ASSUME NEW w \in Worker, NEW j \in Job, JobStep(w, j), NEW i \in Job,
             pass'[v][i].phase # "idle"
      PROVE  beat'[v] # DeadAfter
  <2>1. CASE pass[v][i].phase # "idle"
    BY <1>3, <2>1, JobStepFrame DEF BeatFresh
  <2>2. CASE pass[v][i].phase = "idle"
    <3>1. v = w /\ i = j
      BY <1>0, <1>3, <2>2, JobStepFrame
    <3>2. BeginPass(v, i)
      BY <1>3, <2>2, <3>1, LeavesIdle
    <3> QED BY <1>0, <3>2, TimeAssumption DEF BeginPass
  <2> QED BY <2>1, <2>2
<1>4. ASSUME NEW w \in Worker, NEW j \in Job, JobStep(w, j)
      PROVE  /\ status'[v] = "off" => beat'[v] = DeadAfter
             /\ status'[v] = "up" => beat'[v] <= BeatEvery \/ beat'[v] = DeadAfter
  BY <1>4, JobStepFrame DEF BeatFresh
<1>5. CASE UNCHANGED vars
  BY <1>5 DEF vars, BeatFresh
<1> QED BY <1>1, <1>2, <1>3, <1>4, <1>5 DEF Next

-----------------------------------------------------------------------------
(* Rows: nobody else may claim a row inside its margin, and no release of   *)
(* the worker's own deletes it while another of its passes holds it.        *)
Busy == {"claiming", "working"}

LEMMA Protected ==
    ASSUME TypeOK, BeatFresh, RowMargin, NEW v \in Reliable, NEW i \in Job,
           NEW k \in pass[v][i].keys, pass[v][i].phase \in Busy
    PROVE  /\ k \in Key
           /\ lease[k].owner = v /\ lease[k].left > 0
           /\ \A u \in Worker : u # v => ~Claimable(u, k)
<1>1. /\ v \in Worker /\ pass[v][i] \in Pass /\ k \in Key
      /\ lease[k] \in LeaseRow /\ beat[v] # DeadAfter
  BY FaultAssumption DEF Reliable, TypeOK, Pass, Busy, BeatFresh
<1>2. lease[k].owner = v /\ lease[k].left > 0
  BY <1>1, TimeAssumption DEF RowMargin, Busy, LeaseRow, Pass
<1> QED BY <1>1, <1>2, WorkerAssumption DEF Claimable

LEMMA TwoHolders ==
    ASSUME TypeOK, RefCountExact, NEW v \in Worker, NEW i \in Job, NEW j \in Job,
           i # j, NEW k \in Key, k \in pass[v][i].keys, k \in pass[v][j].keys
    PROVE  held[v][k] > 1
<1> DEFINE H == Holders(v, k)
<1>1. i \in H \ {j} /\ j \in H
  BY DEF Holders
<1>2. IsFiniteSet(H) /\ IsFiniteSet(H \ {j})
  BY HoldersFinite, FS_RemoveElement
<1>3. Cardinality(H \ {j}) # 0 /\ Cardinality(H \ {j}) \in Nat
  BY <1>1, <1>2, FS_EmptySet, FS_CardinalityType
<1>4. Cardinality(H) = Cardinality(H \ {j}) + 1
  BY <1>1, <1>2, FS_RemoveElement, HoldersFinite
<1> QED BY <1>3, <1>4 DEF RefCountExact

LEMMA RowAfter ==
    ASSUME TypeOK, PassShape, RefCountExact, BeatFresh, RowMargin,
           NEW u \in Worker, NEW j \in Job, JobStep(u, j),
           NEW v \in Reliable, NEW i \in Job, NEW k \in pass[v][i].keys,
           pass[v][i].phase \in Busy
    PROVE  lease'[k] = lease[k] \/ lease'[k] = [owner |-> v, left |-> TTL]
<1>0. /\ k \in Key /\ lease[k].owner = v /\ v \in Worker
      /\ u # v => ~Claimable(u, k)
  BY Protected, FaultAssumption DEF Reliable
<1>1. ASSUME NEW K, \A l \in K : Claimable(u, l), lease' = ClaimRows(u, K)
      PROVE  lease'[k] = lease[k] \/ lease'[k] = [owner |-> v, left |-> TTL]
  BY <1>0, <1>1 DEF ClaimRows
<1>2. CASE UNCHANGED lease
  BY <1>2
<1>3. CASE Renew(u, j)
  BY <1>1, <1>3 DEF Renew, RenewResult
<1>4. ASSUME NEW l \in Key, ClaimKey(u, j, l)
      PROVE  lease'[k] = lease[k] \/ lease'[k] = [owner |-> v, left |-> TTL]
  <2>1. UNCHANGED lease \/ (Claimable(u, l) /\ lease' = ClaimRows(u, {l}))
    BY <1>4 DEF ClaimKey
  <2> QED BY <1>1, <1>2, <2>1
<1>5. ASSUME NEW l \in Key, ReleaseKey(u, j, l)
      PROVE  lease'[k] = lease[k]
  <2>1. CASE UNCHANGED lease
    BY <2>1
  <2>2. CASE lease' = DeleteRow(u, l) /\ ~(u = v /\ l = k)
    BY <1>0, <2>2 DEF DeleteRow, TypeOK
  <2>3. CASE u = v /\ l = k
    <3>1. i # j /\ k \in pass[v][j].keys
      BY <1>5, <2>3 DEF ReleaseKey, Busy
    <3>2. held[v][k] > 1
      BY <1>0, <3>1, TwoHolders
    <3>3. held[v][k] \in Nat
      BY <1>0 DEF TypeOK
    <3> QED BY <1>5, <2>3, <3>2, <3>3 DEF ReleaseKey
  <2> QED BY <1>5, <2>1, <2>2, <2>3 DEF ReleaseKey
<1> QED BY <1>2, <1>3, <1>4, <1>5 DEF JobStep, BeginPass, StartWork, FinishPass

\* What RowMargin says of key k of pass p, of worker v, under the leases r.
Margin(v, p, k, r) ==
    /\ p.phase = "claiming" => r[k].owner = v /\ r[k].left = TTL
    /\ p.phase = "working" => r[k].owner = v /\ r[k].left + p.tickAge >= TTL

LEMMA FreshRow ==
    ASSUME NEW v, NEW p \in Pass, NEW k, NEW r, r[k] = [owner |-> v, left |-> TTL]
    PROVE  Margin(v, p, k, r)
  BY TimeAssumption DEF Margin, Pass

LEMMA MarginStep == IInv /\ [Next]_vars => RowMargin'
<1> SUFFICES ASSUME IInv, [Next]_vars, NEW v \in Reliable, NEW i \in Job,
                    NEW k \in pass'[v][i].keys
             PROVE  Margin(v, pass'[v][i], k, lease')
  BY DEF RowMargin, Margin
<1> USE DEF IInv
<1>0. v \in Worker /\ v \in Punctual /\ v \in DbOk /\ pass[v][i] \in Pass
  BY FaultAssumption DEF Reliable, TypeOK
<1>1. ASSUME k \in pass[v][i].keys PROVE Margin(v, pass[v][i], k, lease)
  BY <1>1 DEF RowMargin, Margin
<1>2. CASE Tick
  <2>1. pass'[v][i] = IF Renewing(v, i) THEN OlderPass(pass[v][i]) ELSE pass[v][i]
    BY <1>0, <1>2 DEF Tick
  <2>2. CASE pass[v][i].phase \in Busy
    <3>1. status[v] = "up"
      BY <1>0, <2>2 DEF PassShape, Busy
    <3>2. Renewing(v, i) /\ pass[v][i].tickAge < RenewEvery
      BY <1>0, <1>2, <2>2, <3>1 DEF Tick, OnTime, Busy, Renewing
    <3>3. /\ pass'[v][i] = OlderPass(pass[v][i])
          /\ pass'[v][i].phase = "working" /\ pass'[v][i].keys = pass[v][i].keys
          /\ pass'[v][i].tickAge = pass[v][i].tickAge + 1
      BY <1>0, <2>1, <3>2, OlderFields DEF Older, Renewing
    <3>4. k \in Key /\ lease[k].owner = v /\ lease[k].left > 0 /\ lease[k] \in LeaseRow
      BY <2>2, <3>3, Protected DEF TypeOK
    <3>5. lease'[k].owner = v /\ lease'[k].left = lease[k].left - 1
      BY <1>2, <3>4 DEF Tick, RunDown, LeaseRow
    <3>6. lease[k].left + pass[v][i].tickAge >= TTL
      BY <1>1, <3>2, <3>3 DEF Margin, Renewing
    <3> QED BY <1>0, <3>3, <3>4, <3>5, <3>6, TimeAssumption DEF Margin, LeaseRow, Pass
  <2>3. CASE pass[v][i].phase \notin Busy
    BY <2>1, <2>3 DEF Margin, Renewing, Busy
  <2> QED BY <2>2, <2>3
<1>3. ASSUME NEW w \in Worker, Start(w) \/ Heartbeat(w) \/ Crash(w)
      PROVE  Margin(v, pass'[v][i], k, lease')
  <2>1. lease' = lease /\ (pass'[v][i] = pass[v][i] \/ pass'[v][i] = IdlePass)
    BY <1>0, <1>3 DEF Start, Heartbeat, Crash, TypeOK
  <2> QED BY <1>1, <2>1, IdleFields DEF Margin
<1>4. ASSUME NEW w \in Worker, NEW j \in Job, JobStep(w, j)
      PROVE  Margin(v, pass'[v][i], k, lease')
  <2>1. ASSUME k \in pass[v][i].keys, pass[v][i].phase \in Busy
        PROVE  lease'[k] = lease[k] \/ lease'[k] = [owner |-> v, left |-> TTL]
    BY <1>4, <2>1, RowAfter
  <2>2. CASE v # w \/ i # j
    <3>1. pass'[v][i] = pass[v][i]
      BY <1>0, <1>4, <2>2, JobStepFrame
    <3>2. CASE pass[v][i].phase \in Busy
      BY <1>0, <1>1, <2>1, <3>1, <3>2, FreshRow DEF Margin
    <3>3. CASE pass[v][i].phase \notin Busy
      BY <3>1, <3>3 DEF Margin, Busy
    <3> QED BY <3>2, <3>3
  <2> SUFFICES ASSUME v = w, i = j
               PROVE  Margin(v, pass'[v][i], k, lease')
    BY <2>2
  <2>3. CASE BeginPass(v, i)
    <3>1. PICK K : pass' = SetPass(v, i, Begun(K))
      BY <2>3 DEF BeginPass
    <3> QED BY <1>0, <3>1, SetPassAt, BegunFields
  <2>4. CASE StartWork(v, i)
    <3>1. /\ pass[v][i].phase = "claiming" /\ lease' = lease
          /\ \/ pass'[v][i] = IdlePass
             \/ pass'[v][i] = InPhase(pass[v][i], "working")
      BY <1>0, <2>4, SetPassAt DEF StartWork
    <3>2. CASE pass'[v][i] = IdlePass
      BY <3>2, IdleFields
    <3>3. CASE pass'[v][i] = InPhase(pass[v][i], "working")
      <4>1. /\ k \in pass[v][i].keys /\ pass'[v][i].phase = "working"
            /\ pass'[v][i].tickAge = pass[v][i].tickAge
        BY <1>0, <3>3, InPhaseFields
      <4>2. lease[k].owner = v /\ lease[k].left = TTL /\ pass[v][i].tickAge \in Nat
        BY <1>0, <1>1, <3>1, <4>1 DEF Margin, Pass
      <4> QED BY <3>1, <4>1, <4>2, TimeAssumption DEF Margin
    <3> QED BY <3>1, <3>2, <3>3
  <2>5. CASE Renew(v, i)
    <3>1. PICK K, ok, err : RenewResult(v, i, K, ok, err)
      BY <2>5 DEF Renew
    <3>2. /\ pass[v][i].phase = "working"
          /\ pass'[v][i].phase \in {"cancelled", "working"}
          /\ pass'[v][i].keys = pass[v][i].keys /\ pass'[v][i] \in Pass
      BY <1>0, <2>5, <3>1, SetPassAt, RenewedFields, StepType
         DEF Renew, RenewResult, Renewing, TypeOK
    <3>3. \A l \in pass[v][i].keys : l \in Key /\ Claimable(v, l)
      BY <3>2, Protected DEF Claimable, Busy
    <3>4. lease' = ClaimRows(v, pass[v][i].keys)
      BY <1>0, <2>5, <3>3 DEF Renew, RenewResult
    <3>5. lease'[k] = [owner |-> v, left |-> TTL]
      BY <3>2, <3>3, <3>4 DEF ClaimRows
    <3> QED BY <3>2, <3>5, FreshRow
  <2>6. CASE FinishPass(v, i)
    BY <1>0, <2>6, SetPassAt, InPhaseFields DEF FinishPass, Margin
  <2>7. ASSUME NEW l \in Key, ClaimKey(v, i, l)
        PROVE  Margin(v, pass'[v][i], k, lease')
    <3>1. pass[v][i].phase = "claiming"
      BY <2>7 DEF ClaimKey
    <3>2. CASE /\ lease' = ClaimRows(v, {l})
               /\ pass' = SetPass(v, i, Claimed(pass[v][i], l)) /\ k = l
      <4>1. lease'[k] = [owner |-> v, left |-> TTL]
        BY <3>2 DEF ClaimRows
      <4>2. pass'[v][i] \in Pass
        BY <1>0, <2>7, <3>2, SetPassAt, ClaimingType
      <4> QED BY <4>1, <4>2, FreshRow
    <3>3. CASE ~(/\ lease' = ClaimRows(v, {l})
                 /\ pass' = SetPass(v, i, Claimed(pass[v][i], l)) /\ k = l)
      <4>1. \/ pass' = SetPass(v, i, Asked(pass[v][i], l))
            \/ pass' = SetPass(v, i, Claimed(pass[v][i], l)) /\ k # l
        BY <2>7, <3>3 DEF ClaimKey
      <4>2. k \in pass[v][i].keys /\ pass'[v][i].phase = "claiming"
        BY <1>0, <3>1, <4>1, SetPassAt, AskedFields, ClaimedFields
      <4>3. lease[k].owner = v /\ lease[k].left = TTL
        BY <1>1, <3>1, <4>2 DEF Margin
      <4>4. lease'[k].owner = v /\ lease'[k].left = TTL
        BY <2>1, <3>1, <4>2, <4>3 DEF Busy
      <4> QED BY <4>2, <4>4 DEF Margin
    <3> QED BY <3>2, <3>3
  <2>8. ASSUME NEW l \in Key, ReleaseKey(v, i, l)
        PROVE  Margin(v, pass'[v][i], k, lease')
    <3>1. pass'[v][i] = Released(pass[v][i], l) /\ pass[v][i].phase = "releasing"
      BY <1>0, <2>8, SetPassAt DEF ReleaseKey
    <3> QED BY <1>0, <3>1, ReleasedFields DEF Margin
  <2> QED BY <1>4, <2>3, <2>4, <2>5, <2>6, <2>7, <2>8 DEF JobStep
<1>5. CASE UNCHANGED vars
  BY <1>1, <1>5 DEF vars
<1> QED BY <1>2, <1>3, <1>4, <1>5 DEF Next

-----------------------------------------------------------------------------
LEMMA InitInv == Init => IInv
<1> SUFFICES ASSUME Init PROVE IInv
  OBVIOUS
<1>1. \A w \in Worker, j \in Job : pass[w][j] = IdlePass
  BY DEF Init
<1>2. PassShape
  BY <1>1, IdleFields DEF PassShape
<1>3. RefCountExact
  <2>1. \A w \in Worker, k \in Key : Holders(w, k) = {} /\ held[w][k] = 0
    BY <1>1, IdleFields DEF Holders, Init
  <2> QED BY <2>1, FS_EmptySet DEF RefCountExact
<1>4. BeatFresh
  BY <1>1, IdleFields, FaultAssumption DEF Init, BeatFresh, Reliable
<1>5. RowMargin
  BY <1>1, IdleFields, FaultAssumption DEF RowMargin, Reliable
<1> QED BY <1>2, <1>3, <1>4, <1>5, InitType DEF IInv

LEMMA StepInv == IInv /\ [Next]_vars => IInv'
  BY StepType, ShapeStep, RefCountStep, BeatStep, MarginStep DEF IInv

LEMMA InvOwns == IInv => ReliableOwns
  BY Protected DEF IInv, ReliableOwns, WorksOn, Renewing, Busy

(* The strengthening the safety results rest on holds in every state of     *)
(* claimLease, withLease and claimGroupLeases' interleavings: exact counts, *)
(* fresh beats and a margin on every row a reliable pass holds.             *)
THEOREM Inductive == Spec => []IInv
<1> QED BY InitInv, StepInv, PTL DEF Spec

(* The count of claimLeaseHeld and releaseLeaseHeld is exact: for every     *)
(* number of jobs and keys, the release that deletes a row is the one of    *)
(* the last local pass holding it.                                          *)
THEOREM RefCountCorrect == Spec => []RefCountExact
<1>1. IInv => RefCountExact BY DEF IInv
<1> QED BY <1>1, Inductive, PTL

(* A reliable worker works only on rows it owns, whatever crashed, slow or  *)
(* failing workers do and whatever its own other jobs release.              *)
THEOREM ReliableOwnership == Spec => []ReliableOwns
<1> QED BY InvOwns, Inductive, PTL

-----------------------------------------------------------------------------
LEMMA RowKeptStep ==
    ASSUME TypeOK, [Next]_vars, NEW w \in Worker, NEW k \in Key,
           lease[k].owner = w, held[w][k] > 0, held'[w][k] > 0
    PROVE  \/ lease'[k].owner = w
           \/ /\ lease'[k].owner # NoWorker
              /\ lease[k].left = 0 \/ beat[w] = DeadAfter
<1>1. ASSUME NEW u \in Worker, NEW K, \A l \in K : Claimable(u, l),
             lease' = ClaimRows(u, K)
      PROVE  \/ lease'[k].owner = w
             \/ /\ lease'[k].owner # NoWorker
                /\ lease[k].left = 0 \/ beat[w] = DeadAfter
  BY <1>1, WorkerAssumption DEF ClaimRows, Claimable
<1>2. CASE Tick
  BY <1>2 DEF Tick, RunDown, TypeOK, LeaseRow
<1>3. CASE UNCHANGED lease
  BY <1>3
<1>4. ASSUME NEW u \in Worker, NEW j \in Job, Renew(u, j)
      PROVE  \/ lease'[k].owner = w
             \/ /\ lease'[k].owner # NoWorker
                /\ lease[k].left = 0 \/ beat[w] = DeadAfter
  <2>1. PICK K : lease' = ClaimRows(u, K) /\ \A l \in K : Claimable(u, l)
    BY <1>4 DEF Renew, RenewResult
  <2> QED BY <1>1, <2>1
<1>5. ASSUME NEW u \in Worker, NEW j \in Job, NEW l \in Key, ClaimKey(u, j, l)
      PROVE  \/ lease'[k].owner = w
             \/ /\ lease'[k].owner # NoWorker
                /\ lease[k].left = 0 \/ beat[w] = DeadAfter
  <2>1. UNCHANGED lease \/ (Claimable(u, l) /\ lease' = ClaimRows(u, {l}))
    BY <1>5 DEF ClaimKey
  <2> QED BY <1>1, <1>3, <2>1
<1>6. ASSUME NEW u \in Worker, NEW j \in Job, NEW l \in Key, ReleaseKey(u, j, l)
      PROVE  lease'[k].owner = w
  <2>1. CASE UNCHANGED lease
    BY <2>1
  <2>2. CASE lease' = DeleteRow(u, l) /\ held' = SetHeld(u, l, 0)
    <3>1. ~(u = w /\ l = k)
      BY <2>2, SetHeldAt
    <3> QED BY <2>2, <3>1 DEF DeleteRow, TypeOK
  <2> QED BY <1>6, <2>1, <2>2 DEF ReleaseKey
<1> QED BY <1>2, <1>3, <1>4, <1>5, <1>6
        DEF Next, JobStep, Start, Heartbeat, Crash, BeginPass, StartWork, FinishPass, vars

(* The window the leaseHeldMu comment describes is closed: a row is never   *)
(* deleted under a process that keeps holding it; it only changes hands by  *)
(* a takeover the claim guard allows.                                       *)
THEOREM RowKept == Spec => RowNotDroppedUnderHold
<1>1. TypeOK /\ [Next]_vars =>
        [\A w \in Worker, k \in Key :
           lease[k].owner = w /\ held[w][k] > 0 /\ held'[w][k] > 0 =>
              \/ lease'[k].owner = w
              \/ /\ lease'[k].owner # NoWorker
                 /\ lease[k].left = 0 \/ beat[w] = DeadAfter]_vars
  BY RowKeptStep
<1> QED BY <1>1, TypeCorrect, PTL DEF Spec, RowNotDroppedUnderHold
=============================================================================
