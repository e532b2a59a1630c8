---------------------------- MODULE PointsLedger ----------------------------
(***************************************************************************)
(* The books of PointsEconomy: what each request holds, what is staked, in *)
(* the pots, held with applications, spent, minted and paid out.  Every    *)
(* step of every handler moves points between these columns and makes none *)
(* (PointsAreConserved), whatever is interleaved and whatever fails, for   *)
(* every set of members, requests and plans.  A column is a sum over a     *)
(* finite set, of which a step changes one summand (Sums).                 *)
(***************************************************************************)
EXTENDS PointsEconomyProofs, Sums, SequenceTheorems

(* What the proofs about the components give together.                      *)
Known == Frame /\ SaleInv /\ EndsInv /\ OfferInv /\ DailyInv /\ PotInv

Untaken == {"start", "priced", "claimed", "gated", "insert", "reread", "found", "allowed", "settle"}

Handless == {"edit", "delete", "approve", "redeem", "claim", "fail", "daily"} \cup RewardOps

Purse(r) ==
    /\ call[r].who \in Member /\ call[r].amt \in Nat /\ call[r].hand \in Nat
    /\ call[r].owed \in BOOLEAN
    /\ call[r].pc \in Untaken \/ call[r].op \in Handless => call[r].hand = 0
    /\ (call[r].pc = "charged" /\ call[r].op # "give") \/ call[r].pc = "inserted" =>
          call[r].hand = call[r].amt

Applying(r) ==
    /\ application[r] = [status |-> application[r].status, held |-> application[r].held]
    /\ application[r].held \in Nat
    /\ application[r].status # "none" =>
          call[r].op = "apply" /\ call[r].pc \notin {"start", "gated", "charged"}

Joining(r) == call[r].op = "join" =>
    /\ call[r].pc \in {"start", "gated", "charged", "refused", "done", "dead"}
    /\ call[r].pc \in {"start", "gated"} => call[r].amt = 0
    /\ call[r].pc = "charged" => call[r].hand > 0

Rest(amount, n, i) ==
    (n - i + 1) * (amount \div n) + (IF i <= amount % n THEN (amount % n) - i + 1 ELSE 0)

Giving(r) == call[r].op = "give" =>
    /\ call[r].pc = "start" => call[r].arg = 1
    /\ call[r].pc = "charged" =>
          /\ call[r].arg \in 1..Len(Needy[Who(r)])
          /\ Rest(Amt(r), Len(Needy[Who(r)]), call[r].arg) <= call[r].hand

Dated(r) == call[r].op = "daily" /\ call[r].pc \in {"dated", "unlocked"} =>
    call[r].arg \in FirstDay..today

ToScore == {"phase", "todo", "values", "silent"}
Scoring(r) == call[r].op = Job /\ call[r].pc # "start" =>
    /\ call[r].arg = [f \in ToScore |-> call[r].arg[f]]
    /\ call[r].arg.todo \subseteq Member

Ref == {<<"once">>, BadgeRef} \cup {<<"mark", n>> : n \in Nat}
          \cup {<<"box", h, l>> : h \in Nat, l \in Nat}
GrantRow ==
    [reward : DOMAIN Reward, who : Member, ref : Ref, mark : Nat, units : Nat,
     state : {"pending", "credited", "expired"}, settled : SUBSET Nat, handed : Seq(Nat)]

LinesOf(g) == DOMAIN Reward[grants[g].reward].lines

Granting(r) ==
    /\ call[r].op = "grant" => call[r].arg \in DOMAIN Reward
    /\ call[r].op = "units" =>
          /\ call[r].arg.slug \in DOMAIN Reward
          /\ call[r].pc = "owed" => call[r].arg.units \in Nat
    /\ settling[r] = [grant |-> settling[r].grant, lines |-> settling[r].lines]
    /\ call[r].pc \in Settling => Mine(r) \in DOMAIN grants
    /\ call[r].pc \in {"lines", "mark"} => settling[r].lines \subseteq LinesOf(Mine(r))
    /\ call[r].pc = "mark" => settling[r].lines # {}

(* A row of reward_grants has one count for every line of its reward.       *)
Lined(g) ==
    /\ DOMAIN g.handed = DOMAIN Reward[g.reward].lines
    /\ g.settled \subseteq DOMAIN Reward[g.reward].lines

RowsIn(G) == G \in Seq(GrantRow) /\ \A g \in DOMAIN G : Lined(G[g])
Rows == RowsIn(grants)

GrantTypes ==
    /\ Rows /\ counted \in [Member -> Nat] /\ paidOut \in Nat
    /\ settling = [r \in Req |-> settling[r]]

DayTypes ==
    /\ today \in FirstDay..LastDay /\ minted \in Nat
    /\ \A m \in Member : daily[m].streak > 0 =>
          daily[m].last <= today /\ daily[m].streak <= daily[m].last - FirstDay + 2

LedgerInv ==
    /\ balance \in [Member -> Nat]
    /\ application = [r \in Req |-> application[r]]
    /\ DayTypes /\ GrantTypes
    /\ \A r \in Req : /\ Purse(r) /\ Applying(r) /\ Joining(r) /\ Giving(r) /\ Dated(r)
                      /\ Scoring(r) /\ Granting(r)

(* What a request has spent: on what it bought, and on an application that  *)
(* was approved.                                                            *)
Price(r) == IF Bought(r) THEN Amt(r) ELSE 0
Filed(r) == IF application[r].status = "approved" THEN application[r].held ELSE 0
Waits(r) == IF application[r].status = "pending" THEN application[r].held ELSE 0

---------------------------------------------------------------------------
(* The totals, and how one of them moves when one entry does.               *)
LEMMA BalanceMoves ==
    ASSUME balance \in [Member -> Nat], balance' \in [Member -> Nat], NEW m \in Member,
           NEW b \in Int, balance' = [balance EXCEPT ![m] = @ + b]
    PROVE  InBalances' = InBalances + b
<1> DEFINE f == balance
           g == balance'
<1>1. DOMAIN f = Member /\ DOMAIN g = Member
  OBVIOUS
<1>2. \A x \in Member : f[x] \in Int /\ g[x] \in Int
  OBVIOUS
<1>3. \A x \in Member : x # m => g[x] = f[x]
  OBVIOUS
<1>4. g[m] = f[m] + b
  OBVIOUS
<1>5. InBalances = SumFunctionOnSet(f, Member) /\ InBalances' = SumFunctionOnSet(g, Member)
  BY <1>1 DEF InBalances, SumFunction
<1> HIDE DEF f, g
<1>6. SumFunctionOnSet(g, Member) = SumFunctionOnSet(f, Member) + g[m] - f[m]
  BY <1>2, <1>3, PointsAssumption, SumChange
<1>7. SumFunctionOnSet(f, Member) \in Int
  BY <1>2, PointsAssumption, SumInt
<1> QED
  BY <1>2, <1>4, <1>5, <1>6, <1>7

LEMMA HandMoves ==
    ASSUME \A s \in Req : call[s].hand \in Int, \A s \in Req : call'[s].hand \in Int,
           NEW r \in Req, MovesOnly(r)
    PROVE  InHand' = InHand + call'[r].hand - call[r].hand
<1> DEFINE f == [s \in Req |-> call[s].hand]
           g == [s \in Req |-> call'[s].hand]
<1>1. \A s \in Req : s # r => g[s] = f[s]
  BY DEF MovesOnly
<1>2. (\A s \in Req : f[s] \in Int /\ g[s] \in Int) /\ DOMAIN f = Req /\ DOMAIN g = Req
  OBVIOUS
<1>3. f[r] = call[r].hand /\ g[r] = call'[r].hand
  OBVIOUS
<1>4. InHand = SumFunctionOnSet(f, Req) /\ InHand' = SumFunctionOnSet(g, Req)
  BY DEF InHand, SumFunction
<1> HIDE DEF f, g
<1>5. SumFunctionOnSet(g, Req) = SumFunctionOnSet(f, Req) + g[r] - f[r]
  BY <1>1, <1>2, PointsAssumption, SumChange
<1> QED
  BY <1>3, <1>4, <1>5

LEMMA SpentMoves ==
    ASSUME \A s \in Req : Price(s) + Filed(s) \in Int, \A s \in Req : (Price(s) + Filed(s))' \in Int,
           NEW r \in Req, \A s \in Req \ {r} : (Price(s) + Filed(s))' = Price(s) + Filed(s)
    PROVE  Spent' = Spent + (Price(r) + Filed(r))' - (Price(r) + Filed(r))
<1> DEFINE f == [s \in Req |-> Price(s) + Filed(s)]
           g == [s \in Req |-> (Price(s) + Filed(s))']
<1>1. \A s \in Req : s # r => g[s] = f[s]
  OBVIOUS
<1>2. (\A s \in Req : f[s] \in Int /\ g[s] \in Int) /\ DOMAIN f = Req /\ DOMAIN g = Req
  OBVIOUS
<1>3. f[r] = Price(r) + Filed(r) /\ g[r] = (Price(r) + Filed(r))'
  OBVIOUS
<1>4. Spent = SumFunctionOnSet(f, Req) /\ Spent' = SumFunctionOnSet(g, Req)
  BY DEF Spent, SumFunction, Price, Filed
<1> HIDE DEF f, g
<1>5. SumFunctionOnSet(g, Req) = SumFunctionOnSet(f, Req) + g[r] - f[r]
  BY <1>1, <1>2, PointsAssumption, SumChange
<1> QED
  BY <1>3, <1>4, <1>5

LEMMA WaitMoves ==
    ASSUME \A s \in Req : Waits(s) \in Int, \A s \in Req : Waits(s)' \in Int,
           NEW a \in Req, \A s \in Req \ {a} : Waits(s)' = Waits(s)
    PROVE  HeldByApplications' = HeldByApplications + Waits(a)' - Waits(a)
<1> DEFINE f == [s \in Req |-> Waits(s)]
           g == [s \in Req |-> Waits(s)']
<1>1. \A s \in Req : s # a => g[s] = f[s]
  OBVIOUS
<1>2. (\A s \in Req : f[s] \in Int /\ g[s] \in Int) /\ DOMAIN f = Req /\ DOMAIN g = Req
  OBVIOUS
<1>3. f[a] = Waits(a) /\ g[a] = Waits(a)'
  OBVIOUS
<1>4. HeldByApplications = SumFunctionOnSet(f, Req) /\ HeldByApplications' = SumFunctionOnSet(g, Req)
  BY DEF HeldByApplications, SumFunction, Waits
<1> HIDE DEF f, g
<1>5. SumFunctionOnSet(g, Req) = SumFunctionOnSet(f, Req) + g[a] - f[a]
  BY <1>1, <1>2, PointsAssumption, SumChange
<1> QED
  BY <1>3, <1>4, <1>5

LEMMA PoolInt ==
    ASSUME NEW S \in [Member -> Nat]
    PROVE  SumFunction(S) \in Int
BY SumInt, PointsAssumption DEF SumFunction

(* A stake moves, and with it the pool.                                     *)
LEMMA StakeMoves ==
    ASSUME NEW S \in [Member -> Nat], NEW T \in [Member -> Nat], NEW m \in Member,
           \A n \in Member : n # m => T[n] = S[n]
    PROVE  SumFunction(T) = SumFunction(S) + T[m] - S[m]
<1>1. \A n \in Member : S[n] \in Int /\ T[n] \in Int
  OBVIOUS
<1>2. SumFunctionOnSet(T, Member) = SumFunctionOnSet(S, Member) + T[m] - S[m]
  BY <1>1, SumChange, PointsAssumption
<1> QED
  BY <1>2 DEF SumFunction

Unpaid1(q) == IF offer[q].settled THEN 0 ELSE Pool(q)

LEMMA PoolsMove ==
    ASSUME OfferInv, OfferInv', NEW q \in Rid, \A p \in Rid \ {q} : offer'[p] = offer[p]
    PROVE  InPools' = InPools + Unpaid1(q)' - Unpaid1(q)
<1> DEFINE f == [p \in Rid |-> Unpaid1(p)]
           g == [p \in Rid |-> Unpaid1(p)']
<1>1. \A p \in Rid : p # q => g[p] = f[p]
  BY DEF Unpaid1, Pool
<1>2. \A p \in Rid : Pool(p) \in Int /\ Pool(p)' \in Int
  BY PoolInt DEF Pool, OfferInv, OfferShape
<1>3. (\A p \in Rid : f[p] \in Int /\ g[p] \in Int) /\ DOMAIN f = Rid /\ DOMAIN g = Rid
  BY <1>2 DEF Unpaid1
<1>4. f[q] = Unpaid1(q) /\ g[q] = Unpaid1(q)'
  OBVIOUS
<1>5. InPools = SumFunctionOnSet(f, Rid) /\ InPools' = SumFunctionOnSet(g, Rid)
  BY DEF InPools, SumFunction, Unpaid1
<1> HIDE DEF f, g
<1>6. SumFunctionOnSet(g, Rid) = SumFunctionOnSet(f, Rid) + g[q] - f[q]
  BY <1>1, <1>3, RidAssumption, SumChange
<1> QED
  BY <1>4, <1>5, <1>6

LEMMA CyclesFinite == IsFiniteSet(Cycle)
<1>1. MaxCycles \in Int
  BY PotAssumption
<1> QED
  BY <1>1, FS_Interval DEF Cycle

LEMMA PotsMove ==
    ASSUME PotInv, PotInv', NEW c \in Cycle, \A d \in Cycle \ {c} : pot'[d] = pot[d]
    PROVE  InPots' = InPots + (pot'[c].total - pot'[c].paid) - (pot[c].total - pot[c].paid)
<1> DEFINE f == [d \in Cycle |-> pot[d].total - pot[d].paid]
           g == [d \in Cycle |-> pot'[d].total - pot'[d].paid]
<1>1. \A d \in Cycle : d # c => g[d] = f[d]
  OBVIOUS
<1>2. (\A d \in Cycle : f[d] \in Int /\ g[d] \in Int) /\ DOMAIN f = Cycle /\ DOMAIN g = Cycle
  BY DEF PotInv, PotShape
<1>3. f[c] = pot[c].total - pot[c].paid /\ g[c] = pot'[c].total - pot'[c].paid
  OBVIOUS
<1>4. InPots = SumFunctionOnSet(f, Cycle) /\ InPots' = SumFunctionOnSet(g, Cycle)
  BY DEF InPots, SumFunction
<1>5. IsFiniteSet(Cycle)
  BY CyclesFinite
<1> HIDE DEF f, g
<1>6. SumFunctionOnSet(g, Cycle) = SumFunctionOnSet(f, Cycle) + g[c] - f[c]
  BY <1>1, <1>2, <1>5, SumChange
<1> QED
  BY <1>3, <1>4, <1>6

(* The totals are numbers.                                                  *)
Totals == {InBalances, InHand, InPools, InPots, HeldByApplications, Spent, minted, paidOut}

LEMMA TotalsInt == ASSUME Known, LedgerInv PROVE Totals \subseteq Int
<1>1. InBalances \in Int
  BY SumInt, PointsAssumption DEF InBalances, SumFunction, LedgerInv
<1>2. InHand \in Int
  <2> DEFINE f == [s \in Req |-> call[s].hand]
  <2>1. (\A s \in Req : f[s] \in Int) /\ DOMAIN f = Req
    BY DEF LedgerInv, Purse
  <2>2. InHand = SumFunctionOnSet(f, Req)
    BY DEF InHand, SumFunction
  <2> HIDE DEF f
  <2> QED
    BY <2>1, <2>2, SumInt, PointsAssumption
<1>3. InPools \in Int
  <2> DEFINE f == [q \in Rid |-> Unpaid1(q)]
  <2>1. \A q \in Rid : Pool(q) \in Int
    BY PoolInt DEF Pool, Known, OfferInv, OfferShape
  <2>2. (\A q \in Rid : f[q] \in Int) /\ DOMAIN f = Rid
    BY <2>1 DEF Unpaid1
  <2>3. InPools = SumFunctionOnSet(f, Rid)
    BY DEF InPools, SumFunction, Unpaid1
  <2> HIDE DEF f
  <2> QED
    BY <2>2, <2>3, SumInt, RidAssumption
<1>4. InPots \in Int
  <2> DEFINE f == [d \in Cycle |-> pot[d].total - pot[d].paid]
  <2>1. (\A d \in Cycle : f[d] \in Int) /\ DOMAIN f = Cycle
    BY DEF Known, PotInv, PotShape
  <2>2. InPots = SumFunctionOnSet(f, Cycle)
    BY DEF InPots, SumFunction
  <2>3. IsFiniteSet(Cycle)
    BY CyclesFinite
  <2> HIDE DEF f
  <2> QED
    BY <2>1, <2>2, <2>3, SumInt
<1>5. HeldByApplications \in Int
  <2> DEFINE f == [s \in Req |-> Waits(s)]
  <2>1. (\A s \in Req : f[s] \in Int) /\ DOMAIN f = Req
    BY DEF LedgerInv, Applying, Waits
  <2>2. HeldByApplications = SumFunctionOnSet(f, Req)
    BY DEF HeldByApplications, SumFunction, Waits
  <2> HIDE DEF f
  <2> QED
    BY <2>1, <2>2, SumInt, PointsAssumption
<1>6. Spent \in Int
  <2> DEFINE f == [s \in Req |-> Price(s) + Filed(s)]
  <2>1. \A s \in Req : Price(s) \in Int /\ Filed(s) \in Int
    BY DEF LedgerInv, Applying, Purse, Price, Filed, Amt
  <2>2. (\A s \in Req : f[s] \in Int) /\ DOMAIN f = Req
    BY <2>1
  <2>3. Spent = SumFunctionOnSet(f, Req)
    BY DEF Spent, SumFunction, Price, Filed
  <2> HIDE DEF f
  <2> QED
    BY <2>2, <2>3, SumInt, PointsAssumption
<1>7. minted \in Int /\ paidOut \in Int
  BY DEF LedgerInv, DayTypes, GrantTypes
<1> QED
  BY <1>1, <1>2, <1>3, <1>4, <1>5, <1>6, <1>7 DEF Totals

---------------------------------------------------------------------------
(* What a step does to the books: b points to the balance of m, and what it *)
(* moves in the other totals; all of it adds up to what is awarded.         *)
Credit(m, b) == balance' = [balance EXCEPT ![m] = @ + b]

LEMMA Booked ==
    ASSUME Known, LedgerInv, Conserved, \A s \in Req : call'[s].hand \in Int,
           balance' \in [Member -> Nat], NEW r \in Req, MovesOnly(r),
           NEW m \in Member, NEW b \in Int, Credit(m, b),
           InPools' \in Int, InPots' \in Int, HeldByApplications' \in Int, Spent' \in Int,
           minted' \in Int, paidOut' \in Int,
           b + (call'[r].hand - call[r].hand) + (InPools' - InPools) + (InPots' - InPots)
             + (HeldByApplications' - HeldByApplications) + (Spent' - Spent)
             = (minted' - minted) + (paidOut' - paidOut)
    PROVE  Conserved'
<1>1. InBalances' = InBalances + b
  BY BalanceMoves DEF LedgerInv, Credit
<1>2. InHand' = InHand + call'[r].hand - call[r].hand
  <2>1. \A s \in Req : call[s].hand \in Int
    BY DEF LedgerInv, Purse
  <2> QED
    BY <2>1, HandMoves
<1>3. call[r].hand \in Int /\ call'[r].hand \in Int
  BY DEF LedgerInv, Purse
<1>4. Totals \subseteq Int
  BY TotalsInt
<1>5. /\ InBalances \in Int /\ InHand \in Int /\ InPools \in Int /\ InPots \in Int
      /\ HeldByApplications \in Int /\ Spent \in Int /\ minted \in Int /\ paidOut \in Int
  BY <1>4 DEF Totals
<1>6. SumFunction(InitBalance) \in Int
  BY PointsAssumption, PoolInt
<1>7. InBalances + InHand + InPools + InPots + HeldByApplications + Spent
        = SumFunction(InitBalance) + minted + paidOut
  BY DEF Conserved
<1> DEFINE A == InPools + InPots + HeldByApplications + Spent
           B == InPools' + InPots' + HeldByApplications' + Spent'
           G == minted + paidOut
           H == minted' + paidOut'
           h == call[r].hand
           k == call'[r].hand
<1>8. A \in Int /\ B \in Int /\ G \in Int /\ H \in Int
  BY <1>5
<1>9. b + (k - h) + (B - A) = H - G
  BY <1>3, <1>5
<1>10. InBalances + InHand + A = SumFunction(InitBalance) + G
  BY <1>5, <1>6, <1>7
<1>11. InBalances' + InHand' + B = SumFunction(InitBalance) + H
  <2> HIDE DEF A, B, G, H
  <2> QED
    BY <1>1, <1>2, <1>3, <1>5, <1>6, <1>8, <1>9, <1>10
<1>12. InBalances' \in Int /\ InHand' \in Int
  BY <1>1, <1>2, <1>3, <1>5
<1>13. InBalances' + InHand' + InPools' + InPots' + HeldByApplications' + Spent'
        = SumFunction(InitBalance) + minted' + paidOut'
  BY <1>6, <1>11, <1>12
<1> QED
  BY <1>13 DEF Conserved

(* What a request has spent stays what it was when it has bought what it    *)
(* had bought.                                                              *)
LEMMA SpentSteady ==
    ASSUME \A s \in Req : (Price(s) + Filed(s))' = Price(s) + Filed(s)
    PROVE  Spent' = Spent
<1> DEFINE f == [s \in Req |-> Price(s) + Filed(s)]
           g == [s \in Req |-> (Price(s) + Filed(s))']
<1>1. f = g
  OBVIOUS
<1>2. Spent = SumFunction(f) /\ Spent' = SumFunction(g)
  BY DEF Spent, Price, Filed
<1> HIDE DEF f, g
<1> QED
  BY <1>1, <1>2

LEMMA Prices ==
    ASSUME SaleInv, EndsInv, NEW r \in Req
    PROVE  /\ call[r].op = "buy" => Price(r) = IF r \in granted THEN Amt(r) ELSE 0
           /\ call[r].op = "medal" =>
                Price(r) = IF call[r].pc = "done" /\ Who(r) \in medal THEN Amt(r) ELSE 0
           /\ call[r].op = "cast" => Price(r) = IF r \in casts THEN Amt(r) ELSE 0
           /\ call[r].op = "boost" => Price(r) = IF r \in boosts THEN Amt(r) ELSE 0
           /\ call[r].op = "join" =>
                Price(r) = IF call[r].pc = "done" /\ call[r].hand = 0 THEN Amt(r) ELSE 0
           /\ call[r].op \notin Sales \cup {"join"} => Price(r) = 0
<1>1. /\ r \in granted => call[r].op = "buy"
      /\ r \in casts => call[r].op = "cast"
      /\ r \in boosts => call[r].op = "boost"
  BY DEF SaleInv, EndsInv
<1> QED
  BY <1>1 DEF Price, Bought, At, Sales

(* The same one step later.                                                 *)
LEMMA PricesNext ==
    ASSUME SaleInv', EndsInv', NEW r \in Req
    PROVE  /\ call'[r].op = "buy" => Price(r)' = IF r \in granted' THEN call'[r].amt ELSE 0
           /\ call'[r].op = "medal" =>
                Price(r)' = IF call'[r].pc = "done" /\ call'[r].who \in medal' THEN call'[r].amt ELSE 0
           /\ call'[r].op = "cast" => Price(r)' = IF r \in casts' THEN call'[r].amt ELSE 0
           /\ call'[r].op = "boost" => Price(r)' = IF r \in boosts' THEN call'[r].amt ELSE 0
           /\ call'[r].op = "join" =>
                Price(r)' = IF call'[r].pc = "done" /\ call'[r].hand = 0 THEN call'[r].amt ELSE 0
           /\ call'[r].op \notin Sales \cup {"join"} => Price(r)' = 0
<1>1. /\ r \in granted' => call'[r].op = "buy"
      /\ r \in casts' => call'[r].op = "cast"
      /\ r \in boosts' => call'[r].op = "boost"
  BY DEF SaleInv, EndsInv
<1> QED
  BY <1>1 DEF Price, Bought, At, Sales, Amt, Who

(* A request that does not move keeps its price, whoever else buys.         *)
LEMMA PriceKept ==
    ASSUME EndsInv, NEW s \in Req, call'[s] = call[s],
           s \in granted' <=> s \in granted, s \in casts' <=> s \in casts,
           s \in boosts' <=> s \in boosts, medal \subseteq medal'
    PROVE  Price(s)' = Price(s)
<1>1. At(s, "medal", "done") => Who(s) \in medal
  BY DEF EndsInv, PaidOK, At, PaidOps
<1>2. Bought(s)' <=> Bought(s)
  BY <1>1 DEF Bought, At, Who
<1> QED
  BY <1>2 DEF Price, Amt

---------------------------------------------------------------------------
(* What the parts of the invariant ask of a step of r.                      *)
PlainOps == SaleOps \cup PaidOps \cup JoinOps \cup OfferOps \cup PotOps \cup {"daily"}

LEMMA Plain ==
    ASSUME NEW r, call[r].op \in PlainOps
    PROVE  /\ call[r].op \notin RewardOps
           /\ call[r].op \in SaleOps => call[r].op \notin {"join", "apply", "give", "daily", "donate"}
           /\ call[r].op \in PaidOps => call[r].op \notin {"join", "apply", "give", "daily", "donate"}
           /\ call[r].op \in OfferOps => call[r].op \notin {"join", "apply", "give", "daily", "donate"}
           /\ call[r].op \in JoinOps => call[r].op \notin {"give", "daily", "donate"} \cup Sales
           /\ call[r].op \in PotOps \cup {"daily"} => call[r].op \notin {"join", "apply"} \cup Sales
BY DEF PlainOps, SaleOps, PaidOps, JoinOps, OfferOps, PotOps, RewardOps, Job, Sales

LEMMA QuietRewards ==
    ASSUME Frame, LedgerInv, NEW r \in Req, StepOf(r, PlainOps), UNCHANGED grantVars
    PROVE  GrantTypes' /\ \A s \in Req : Granting(s)' /\ Scoring(s)'
<1>0. UNCHANGED <<grants, settling, counted, paidOut>>
  BY DEF grantVars
<1>1. GrantTypes'
  BY <1>0 DEF LedgerInv, GrantTypes, Rows, RowsIn
<1>2. call[r].op \notin RewardOps /\ call'[r].op = call[r].op /\ call'[r].pc \notin Settling
  BY Plain DEF StepOf, MovesOnly
<1>3. ASSUME NEW s \in Req PROVE Granting(s)' /\ Scoring(s)'
  <2>0. Granting(s) /\ Scoring(s)
    BY DEF LedgerInv
  <2>1. CASE s = r
    <3>1. call'[s].op \notin {"grant", "units", Job}
      BY <1>2, <2>1 DEF RewardOps
    <3> QED
      BY <1>0, <1>2, <2>0, <2>1, <3>1 DEF Granting, Scoring, Settling, Mine
  <2>2. CASE s # r
    <3>1. call'[s] = call[s]
      BY <2>2 DEF StepOf, MovesOnly
    <3> QED
      BY <1>0, <2>0, <3>1 DEF Granting, Scoring, Mine, LinesOf
  <2> QED
    BY <2>1, <2>2
<1> QED
  BY <1>1, <1>3

LEMMA QuietDays ==
    ASSUME LedgerInv, NEW r \in Req, MovesOnly(r), call[r].op # "daily", UNCHANGED dailyVars
    PROVE  DayTypes' /\ \A s \in Req : Dated(s)'
<1>1. UNCHANGED <<today, daily, minted>>
  BY DEF dailyVars
<1>2. DayTypes'
  BY <1>1 DEF LedgerInv, DayTypes
<1>3. ASSUME NEW s \in Req PROVE Dated(s)'
  <2>1. call'[s].op = "daily" => call'[s] = call[s]
    BY DEF MovesOnly
  <2>2. Dated(s)
    BY DEF LedgerInv
  <2> QED
    BY <1>1, <2>1, <2>2 DEF Dated
<1> QED
  BY <1>2, <1>3

LEMMA QuietJoins ==
    ASSUME LedgerInv, NEW r \in Req, MovesOnly(r), call[r].op \notin {"join", "apply"},
           UNCHANGED application
    PROVE  /\ application' = [s \in Req |-> application'[s]]
           /\ \A s \in Req : Applying(s)' /\ Joining(s)'
<1>1. application' = [s \in Req |-> application'[s]]
  BY DEF LedgerInv
<1>2. ASSUME NEW s \in Req PROVE Applying(s)' /\ Joining(s)'
  <2>1. call'[s].op \in {"join", "apply"} => call'[s] = call[s]
    BY DEF MovesOnly
  <2>2. Applying(s) /\ Joining(s) /\ call'[s].op = call[s].op
    BY DEF LedgerInv, MovesOnly
  <2> QED
    BY <2>1, <2>2 DEF Applying, Joining
<1> QED
  BY <1>1, <1>2

LEMMA QuietGives ==
    ASSUME LedgerInv, NEW r \in Req, MovesOnly(r), call[r].op # "give"
    PROVE  \A s \in Req : Giving(s)'
<1> SUFFICES ASSUME NEW s \in Req PROVE Giving(s)'
  OBVIOUS
<1>1. call'[s].op = "give" => call'[s] = call[s]
  BY DEF MovesOnly
<1>2. Giving(s)
  BY DEF LedgerInv
<1> QED
  BY <1>1, <1>2 DEF Giving, Who, Amt

LEMMA PursesKept ==
    ASSUME LedgerInv, NEW r \in Req, MovesOnly(r), Purse(r)'
    PROVE  \A s \in Req : Purse(s)' /\ call'[s].hand \in Int
<1> SUFFICES ASSUME NEW s \in Req PROVE Purse(s)' /\ call'[s].hand \in Int
  OBVIOUS
<1>1. CASE s = r
  BY <1>1 DEF Purse
<1>2. CASE s # r
  BY <1>2 DEF MovesOnly, LedgerInv, Purse
<1> QED
  BY <1>1, <1>2

LEMMA SalesKeep ==
    ASSUME Frame, LedgerInv, NEW r \in Req, StepOf(r, SaleOps \cup PaidOps \cup OfferOps),
           UNCHANGED <<grantVars, dailyVars, application>>, Purse(r)', balance' \in [Member -> Nat]
    PROVE  LedgerInv' /\ \A s \in Req : call'[s].hand \in Int
<1>1. MovesOnly(r) /\ StepOf(r, PlainOps)
      /\ call[r].op \notin {"join", "apply", "give", "daily", "donate"}
  BY Plain DEF StepOf, PlainOps, SaleOps, PaidOps, OfferOps
<1> QED
  BY <1>1, QuietRewards, QuietDays, QuietJoins, QuietGives, PursesKept DEF LedgerInv

---------------------------------------------------------------------------
(* The record of a request of which two fields are set.                     *)
AmtSet(r, x, n) == call' = [call EXCEPT ![r].pc = x, ![r].amt = n]

LEMMA SetAmt ==
    ASSUME Shaped, NEW r \in Req, NEW x, NEW n, AmtSet(r, x, n)
    PROVE  /\ call'[r].pc = x /\ call'[r].amt = n /\ call'[r].hand = call[r].hand
           /\ call'[r].who = call[r].who /\ call'[r].owed = call[r].owed
           /\ call'[r].op = call[r].op /\ call'[r].arg = call[r].arg
<1>1. call'[r] = [call[r] EXCEPT !.pc = x, !.amt = n]
  BY DEF Shaped, AmtSet
<1>2. DOMAIN call[r] = Fields
  BY DEF Shaped, IsCall
<1> QED
  BY <1>1, <1>2 DEF Fields

HandSet(r, x, n) == call' = [call EXCEPT ![r].pc = x, ![r].hand = n]

LEMMA SetHand ==
    ASSUME Shaped, NEW r \in Req, NEW x, NEW n, HandSet(r, x, n)
    PROVE  /\ call'[r].pc = x /\ call'[r].hand = n /\ call'[r].amt = call[r].amt
           /\ call'[r].who = call[r].who /\ call'[r].owed = call[r].owed
           /\ call'[r].op = call[r].op /\ call'[r].arg = call[r].arg
<1>1. call'[r] = [call[r] EXCEPT !.pc = x, !.hand = n]
  BY DEF Shaped, HandSet
<1>2. DOMAIN call[r] = Fields
  BY DEF Shaped, IsCall
<1> QED
  BY <1>1, <1>2 DEF Fields

OwedSet(r, x, n) == call' = [call EXCEPT ![r].pc = x, ![r].owed = n]

LEMMA SetOwed ==
    ASSUME Shaped, NEW r \in Req, NEW x, NEW n, OwedSet(r, x, n)
    PROVE  /\ call'[r].pc = x /\ call'[r].owed = n /\ call'[r].amt = call[r].amt
           /\ call'[r].who = call[r].who /\ call'[r].hand = call[r].hand
           /\ call'[r].op = call[r].op /\ call'[r].arg = call[r].arg
<1>1. call'[r] = [call[r] EXCEPT !.pc = x, !.owed = n]
  BY DEF Shaped, OwedSet
<1>2. DOMAIN call[r] = Fields
  BY DEF Shaped, IsCall
<1> QED
  BY <1>1, <1>2 DEF Fields

ArgSet(r, x, n) == call' = [call EXCEPT ![r].pc = x, ![r].arg = n]

LEMMA SetArg ==
    ASSUME Shaped, NEW r \in Req, NEW x, NEW n, ArgSet(r, x, n)
    PROVE  /\ call'[r].pc = x /\ call'[r].arg = n /\ call'[r].amt = call[r].amt
           /\ call'[r].who = call[r].who /\ call'[r].hand = call[r].hand
           /\ call'[r].op = call[r].op /\ call'[r].owed = call[r].owed
<1>1. call'[r] = [call[r] EXCEPT !.pc = x, !.arg = n]
  BY DEF Shaped, ArgSet
<1>2. DOMAIN call[r] = Fields
  BY DEF Shaped, IsCall
<1> QED
  BY <1>1, <1>2 DEF Fields

---------------------------------------------------------------------------
(* The three ways of moving points between a balance and a hand.            *)
Transfers(r) ==
    /\ balance' \in [Member -> Nat]
    /\ \E b \in Int : Credit(Who(r), b) /\ call'[r].hand = call[r].hand - b

LEMMA Stays ==
    ASSUME balance \in [Member -> Nat], NEW m, UNCHANGED balance
    PROVE  Credit(m, 0)
BY DEF Credit

LEMMA GotoTransfers ==
    ASSUME Frame, LedgerInv, NEW r \in Req, NEW x, Goto(r, x), UNCHANGED balance
    PROVE  Transfers(r)
<1>1. call'[r].hand = call[r].hand - 0
  BY GotoMoves DEF Frame, LedgerInv, Purse
<1>2. Credit(Who(r), 0) /\ balance' \in [Member -> Nat]
  BY Stays DEF LedgerInv
<1> QED
  BY <1>1, <1>2 DEF Transfers

LEMMA DeductTransfers ==
    ASSUME Frame, LedgerInv, NEW r \in Req, NEW n \in Nat, NEW x, NEW y, Deduct(r, n, x, y),
           call[r].hand = 0
    PROVE  Transfers(r)
<1>1. Who(r) \in Member /\ balance \in [Member -> Nat]
  BY DEF LedgerInv, Purse, Who
<1>2. CASE /\ balance[Who(r)] >= n
           /\ balance' = [balance EXCEPT ![Who(r)] = @ - n]
           /\ call' = [call EXCEPT ![r].pc = x, ![r].amt = n, ![r].hand = n]
  <2>1. call'[r].hand = n
    BY <1>2 DEF Frame, Shaped, IsCall, Fields
  <2>2. balance' \in [Member -> Nat]
    BY <1>1, <1>2
  <2>3. Credit(Who(r), 0 - n)
    <3>1. balance[Who(r)] - n = balance[Who(r)] + (0 - n)
      BY <1>1
    <3> QED
      BY <1>2, <3>1 DEF Credit
  <2>4. 0 - n \in Int /\ n = call[r].hand - (0 - n)
    OBVIOUS
  <2> QED
    BY <2>1, <2>2, <2>3, <2>4 DEF Transfers
<1>3. CASE Goto(r, y) /\ UNCHANGED balance
  BY <1>3, GotoTransfers
<1> QED
  BY <1>2, <1>3 DEF Deduct

LEMMA RefundTransfers ==
    ASSUME Frame, LedgerInv, NEW r \in Req, NEW x, Refund(r, x)
    PROVE  Transfers(r)
<1>1. Who(r) \in Member /\ balance \in [Member -> Nat] /\ call[r].hand \in Nat
  BY DEF LedgerInv, Purse, Who
<1>2. CASE /\ balance' = [balance EXCEPT ![Who(r)] = @ + call[r].hand]
           /\ call' = [call EXCEPT ![r].pc = x, ![r].hand = 0]
  <2>1. call'[r].hand = 0
    BY <1>2 DEF Frame, Shaped, IsCall, Fields
  <2>2. balance' \in [Member -> Nat]
    BY <1>1, <1>2
  <2>3. call'[r].hand = call[r].hand - call[r].hand /\ call[r].hand \in Int
    BY <1>1, <2>1
  <2>4. Credit(Who(r), call[r].hand)
    BY <1>2 DEF Credit
  <2> QED
    BY <2>2, <2>3, <2>4 DEF Transfers
<1>3. CASE call' = [call EXCEPT ![r].pc = x, ![r].owed = TRUE] /\ UNCHANGED balance
  <2>1. call'[r].hand = call[r].hand - 0
    BY <1>1, <1>3 DEF Frame, Shaped, IsCall, Fields
  <2>2. Credit(Who(r), 0) /\ balance' \in [Member -> Nat]
    BY <1>1, <1>3, Stays
  <2> QED
    BY <2>1, <2>2 DEF Transfers
<1> QED
  BY <1>2, <1>3 DEF Refund

LEMMA DeductPurse ==
    ASSUME Frame, NEW r \in Req, Purse(r), NEW n \in Nat, NEW y,
           y \notin {"charged", "inserted"}, Deduct(r, n, "charged", y), call[r].hand = 0,
           call[r].op \notin Handless
    PROVE  Purse(r)' /\ call'[r].amt \in {call[r].amt, n}
<1>1. /\ call'[r].op = call[r].op /\ call'[r].who = call[r].who /\ call'[r].owed = call[r].owed
      /\ \/ call'[r].pc = "charged" /\ call'[r].amt = n /\ call'[r].hand = n
         \/ call'[r].pc = y /\ call'[r].amt = call[r].amt /\ call'[r].hand = call[r].hand
  BY DeductMoves DEF Frame, MovesOnly
<1> QED
  BY <1>1 DEF Purse, Untaken

LEMMA RefundPurse ==
    ASSUME Frame, NEW r \in Req, Purse(r), NEW x, x \notin {"charged", "inserted"} \cup Untaken,
           Refund(r, x), call[r].op \notin Handless
    PROVE  Purse(r)' /\ call'[r].amt = call[r].amt
<1>1. /\ call'[r].op = call[r].op /\ call'[r].pc = x /\ call'[r].amt = call[r].amt
      /\ call'[r].who = call[r].who
      /\ \/ call'[r].hand = 0 /\ call'[r].owed = call[r].owed
         \/ call'[r].hand = call[r].hand /\ call'[r].owed = TRUE
  BY RefundMoves DEF Frame, MovesOnly
<1>2. call'[r].pc \notin Untaken /\ call'[r].pc # "charged" /\ call'[r].pc # "inserted"
  BY <1>1
<1>3. call'[r].owed \in BOOLEAN
  BY <1>1 DEF Purse
<1>4. call'[r].hand \in Nat
  BY <1>1 DEF Purse
<1> QED
  BY <1>1, <1>2, <1>3, <1>4 DEF Purse

LEMMA GotoPurse ==
    ASSUME Frame, NEW r \in Req, Purse(r), NEW x, x \notin {"charged", "inserted"},
           x \in Untaken => call[r].hand = 0, Goto(r, x)
    PROVE  Purse(r)' /\ call'[r].amt = call[r].amt
<1>1. /\ call'[r].op = call[r].op /\ call'[r].pc = x /\ call'[r].amt = call[r].amt
      /\ call'[r].who = call[r].who /\ call'[r].hand = call[r].hand /\ call'[r].owed = call[r].owed
  BY GotoMoves DEF Frame, MovesOnly
<1> QED
  BY <1>1 DEF Purse

(* A step that moves points between a balance and a hand, and nothing else. *)
LEMMA Transferred ==
    ASSUME Known, LedgerInv, Conserved, \A s \in Req : call'[s].hand \in Int,
           NEW r \in Req, MovesOnly(r), Transfers(r), Spent' = Spent, InPools' = InPools,
           InPots' = InPots, HeldByApplications' = HeldByApplications, minted' = minted,
           paidOut' = paidOut
    PROVE  Conserved'
<1>1. Who(r) \in Member /\ call[r].hand \in Int
  BY DEF LedgerInv, Purse, Who
<1>2. PICK b \in Int : Credit(Who(r), b) /\ call'[r].hand = call[r].hand - b
  BY DEF Transfers
<1>3. Totals \subseteq Int
  BY TotalsInt
<1>4. /\ InPools \in Int /\ InPots \in Int /\ HeldByApplications \in Int /\ Spent \in Int
      /\ minted \in Int /\ paidOut \in Int
  BY <1>3 DEF Totals
<1>5. b + (call'[r].hand - call[r].hand) = 0
  BY <1>1, <1>2
<1> QED
  BY <1>1, <1>2, <1>4, <1>5, Booked DEF Transfers

(* The same, of a request that has bought what it had bought.               *)
LEMMA Exchanged ==
    ASSUME Known, LedgerInv, Conserved, \A s \in Req : call'[s].hand \in Int,
           NEW r \in Req, MovesOnly(r), Transfers(r), Price(r)' = Price(r),
           UNCHANGED <<granted, medal, casts, boosts, application, offerVars, potVars, minted, paidOut>>
    PROVE  Conserved'
<1>1. ASSUME NEW s \in Req PROVE (Price(s) + Filed(s))' = Price(s) + Filed(s)
  <2>1. CASE s = r
    BY <2>1 DEF Filed
  <2>2. CASE s # r
    <3>1. Price(s)' = Price(s)
      BY <2>2, PriceKept DEF Known, MovesOnly
    <3> QED
      BY <3>1 DEF Filed
  <2> QED
    BY <2>1, <2>2
<1>2. Spent' = Spent
  BY <1>1, SpentSteady
<1>3. InPools' = InPools /\ InPots' = InPots /\ HeldByApplications' = HeldByApplications
  BY DEF InPools, Pool, InPots, HeldByApplications, offerVars, potVars
<1> QED
  BY <1>2, <1>3, Transferred

---------------------------------------------------------------------------
(* The shop.                                                                *)
LEMMA BuyerPurse ==
    ASSUME Frame, LedgerInv, SaleInv, NEW r \in Req,
           BuyRead(r) \/ ClaimStock(r) \/ BuyDeduct(r) \/ BuyRefund(r)
    PROVE  Purse(r)' /\ Transfers(r) /\ UNCHANGED granted /\ (r \in granted => call'[r].amt = call[r].amt)
<1> USE DEF Frame
<1>1. Purse(r) /\ BuyOK(r) /\ ItemOK /\ call[r].op = "buy" /\ balance \in [Member -> Nat]
  BY DEF LedgerInv, SaleInv, BuyRead, ClaimStock, BuyDeduct, BuyRefund, At
<1>2. UNCHANGED granted
  BY DEF BuyRead, ClaimStock, BuyDeduct, BuyRefund, storeVars
<1>3. call[r].op \notin Handless
  BY <1>1 DEF Handless, RewardOps, Job
<1>4. CASE BuyRead(r)
  <2>1. call[r].pc = "start" /\ UNCHANGED balance /\ r \notin granted
    BY <1>1, <1>4 DEF BuyRead, At, BuyOK
  <2>2. CASE call' = [call EXCEPT ![r].pc = "priced", ![r].amt = item.cost]
    <3>1. item.cost \in Nat
      BY <1>1 DEF ItemOK, ItemShape, Gone
    <3>2. /\ call'[r].pc = "priced" /\ call'[r].amt = item.cost /\ call'[r].hand = call[r].hand
          /\ call'[r].who = call[r].who /\ call'[r].owed = call[r].owed /\ call'[r].op = "buy"
      <4>1. AmtSet(r, "priced", item.cost)
        BY <2>2 DEF AmtSet
      <4> QED
        BY <1>1, <4>1, SetAmt
    <3>3. Purse(r)'
      BY <1>1, <2>1, <3>1, <3>2 DEF Purse, Untaken
    <3>4. Transfers(r)
      <4>1. Credit(Who(r), 0) /\ call'[r].hand = call[r].hand - 0 /\ balance' \in [Member -> Nat]
        BY <1>1, <2>1, <3>2, Stays DEF Purse
      <4> QED
        BY <4>1 DEF Transfers
    <3> QED
      BY <1>2, <2>1, <3>3, <3>4
  <2>3. CASE Goto(r, "refused")
    BY <1>1, <1>2, <2>1, <2>3, GotoMoves, GotoTransfers DEF Purse, Untaken, MovesOnly
  <2> QED
    BY <1>4, <2>2, <2>3 DEF BuyRead
<1>5. CASE ClaimStock(r)
  <2>1. call[r].pc = "priced" /\ UNCHANGED balance
    BY <1>5 DEF ClaimStock, At
  <2>2. PICK x \in {"claimed", "refused"} : Goto(r, x)
    BY <1>5 DEF ClaimStock
  <2> QED
    BY <1>1, <1>2, <2>1, <2>2, GotoMoves, GotoTransfers DEF Purse, Untaken, MovesOnly
<1>6. CASE BuyDeduct(r)
  <2>1. call[r].pc = "claimed" /\ Deduct(r, Amt(r), "charged", "unclaim") /\ call[r].hand = 0
        /\ Amt(r) \in Nat
    BY <1>1, <1>6 DEF BuyDeduct, At, BuyOK, Purse, Amt
  <2>2. Transfers(r)
    BY <2>1, DeductTransfers
  <2>3. Purse(r)' /\ call'[r].amt \in {call[r].amt, Amt(r)}
    BY <1>1, <1>3, <2>1, DeductPurse
  <2> QED
    BY <1>2, <2>2, <2>3 DEF Amt
<1>7. CASE BuyRefund(r)
  <2>1. call[r].pc = "refund" /\ Refund(r, "unclaim")
    BY <1>7 DEF BuyRefund, At
  <2>2. Transfers(r)
    BY <2>1, RefundTransfers
  <2>3. Purse(r)' /\ call'[r].amt = call[r].amt
    BY <1>1, <1>3, <2>1, RefundPurse DEF Untaken
  <2> QED
    BY <1>2, <2>2, <2>3
<1> QED
  BY <1>4, <1>5, <1>6, <1>7

LEMMA ShopPurse ==
    ASSUME Frame, LedgerInv, SaleInv, NEW r \in Req,
           \/ RestoreStock(r) \/ RecordPurchase(r) \/ StoreDie(r)
           \/ EditOpen(r) \/ EditSave(r) \/ DeleteItem(r)
    PROVE  Purse(r)' /\ Transfers(r) /\ UNCHANGED granted /\ (r \in granted => call'[r].amt = call[r].amt)
<1> USE DEF Frame
<1>1. Purse(r) /\ balance \in [Member -> Nat]
  BY DEF LedgerInv
<1>2. UNCHANGED granted /\ UNCHANGED balance
  BY DEF RestoreStock, RecordPurchase, StoreDie, Die, EditOpen, EditSave, DeleteItem, storeVars
<1>3. /\ call'[r].hand = call[r].hand /\ call'[r].who = call[r].who /\ call'[r].amt = call[r].amt
      /\ call'[r].owed \in BOOLEAN /\ call'[r].pc \notin Untaken \cup {"charged", "inserted"}
      /\ call'[r].op = call[r].op
  <2>1. CASE \E x \in {"refused", "done", "dead"} : Goto(r, x)
    BY <1>1, <2>1, GotoMoves DEF Purse, Untaken, MovesOnly
  <2>2. CASE call' = [call EXCEPT ![r].pc = "refused", ![r].owed = TRUE]
    BY <2>2 DEF Shaped, IsCall, Fields, Untaken
  <2>3. CASE EditOpen(r)
    <3> DEFINE a == [c \in DOMAIN item |->
                       IF c \in DOMAIN call[r].arg THEN call[r].arg[c] ELSE item[c]]
    <3>1. call' = [call EXCEPT ![r].pc = "form", ![r].arg = a]
      BY <2>3 DEF EditOpen, Shaped, IsCall, Fields
    <3> HIDE DEF a
    <3> QED
      BY <1>1, <3>1 DEF Shaped, IsCall, Fields, Untaken, Purse
  <2> QED
    BY <2>1, <2>2, <2>3 DEF RestoreStock, RecordPurchase, StoreDie, Die, Cut, EditSave, DeleteItem
<1>4. Purse(r)'
  BY <1>1, <1>3 DEF Purse
<1>5. Transfers(r)
  <2>1. Credit(Who(r), 0) /\ call'[r].hand = call[r].hand - 0 /\ balance' \in [Member -> Nat]
    BY <1>1, <1>2, <1>3, Stays DEF Purse
  <2> QED
    BY <2>1 DEF Transfers
<1> QED
  BY <1>2, <1>3, <1>4, <1>5

(* The grant turns what was taken into what was spent.                      *)
LEMMA Sold1 ==
    ASSUME Known, Known', LedgerInv, Conserved, NEW r \in Req, MovesOnly(r),
           \A s \in Req : call'[s].hand \in Int,
           UNCHANGED <<balance, application, offerVars, potVars, minted, paidOut>>,
           \A s \in Req \ {r} : Price(s)' = Price(s),
           Price(r) = 0, Price(r)' = call[r].hand, call'[r].hand = 0
    PROVE  Conserved'
<1>1. \A s \in Req : Filed(s)' = Filed(s) /\ Filed(s) \in Int
  BY DEF Filed, LedgerInv, Applying
<1>2. call[r].hand \in Int /\ \A s \in Req : Price(s) \in Int
  BY DEF LedgerInv, Purse, Price, Amt
<1>3. /\ \A s \in Req : (Price(s) + Filed(s)) \in Int
      /\ \A s \in Req : (Price(s) + Filed(s))' \in Int
      /\ \A s \in Req \ {r} : (Price(s) + Filed(s))' = Price(s) + Filed(s)
  BY <1>1, <1>2
<1>4. Spent' = Spent + (Price(r) + Filed(r))' - (Price(r) + Filed(r))
  BY <1>3, SpentMoves
<1>5. InPools' = InPools /\ InPots' = InPots /\ HeldByApplications' = HeldByApplications
  BY DEF InPools, Pool, InPots, HeldByApplications, offerVars, potVars
<1>6. Totals \subseteq Int
  BY TotalsInt
<1>7. /\ InPools \in Int /\ InPots \in Int /\ HeldByApplications \in Int /\ Spent \in Int
      /\ minted \in Int /\ paidOut \in Int
  BY <1>6 DEF Totals
<1>8. Credit(Who(r), 0) /\ Who(r) \in Member /\ balance' \in [Member -> Nat]
  BY Stays DEF LedgerInv, Purse, Who
<1>9. Spent' = Spent + call[r].hand
  BY <1>1, <1>2, <1>4, <1>7
<1>10. 0 + (call'[r].hand - call[r].hand) + (InPools' - InPools) + (InPots' - InPots)
             + (HeldByApplications' - HeldByApplications) + (Spent' - Spent)
             = (minted' - minted) + (paidOut' - paidOut)
  BY <1>2, <1>5, <1>7, <1>9
<1>11. Spent' \in Int /\ InPools' \in Int /\ InPots' \in Int /\ HeldByApplications' \in Int
       /\ minted' \in Int /\ paidOut' \in Int
  BY <1>2, <1>5, <1>7, <1>9
<1> QED
  BY <1>8, <1>10, <1>11, Booked

LEMMA StoreBooks ==
    ASSUME Known, Known', LedgerInv, Conserved, StoreNext,
           UNCHANGED <<paidVars, joinVars, offerVars, potVars, dailyVars, RecognitionVars>>
    PROVE  LedgerInv' /\ Conserved'
<1> USE DEF Known
<1>1. PICK r \in Req : StoreActs(r)
  BY DEF StoreNext, StoreActs
<1>2. StepOf(r, SaleOps) /\ MovesOnly(r) /\ call[r].op \in SaleOps
  BY <1>1, StoreStep DEF Frame, StepOf
<1>3. UNCHANGED <<grantVars, dailyVars, application, minted, paidOut>>
  BY DEF RecognitionVars, grantVars, dailyVars, joinVars
<1>4. CASE ~Grant(r)
  <2>1. Purse(r)' /\ Transfers(r) /\ UNCHANGED granted /\ (r \in granted => call'[r].amt = call[r].amt)
    BY <1>1, <1>4, BuyerPurse, ShopPurse DEF StoreActs
  <2>2. LedgerInv' /\ \A s \in Req : call'[s].hand \in Int
    BY <1>2, <1>3, <2>1, SalesKeep DEF StepOf, Transfers
  <2>3. call'[r].op = call[r].op
    BY <1>2 DEF MovesOnly
  <2>4. Price(r)' = Price(r)
    <3>1. CASE call[r].op = "buy"
      BY <2>1, <2>3, <3>1, Prices, PricesNext DEF Amt
    <3>2. CASE call[r].op # "buy"
      BY <1>2, <2>3, <3>2, Prices, PricesNext DEF Sales, SaleOps
    <3> QED
      BY <3>1, <3>2
  <2> QED
    BY <1>2, <1>3, <2>1, <2>2, <2>4, Exchanged DEF paidVars
<1>5. CASE Grant(r)
  <2>1. /\ call[r].op = "buy" /\ call[r].pc = "charged" /\ UNCHANGED balance
        /\ Purse(r) /\ BuyOK(r) /\ balance \in [Member -> Nat]
    BY <1>5 DEF Grant, At, LedgerInv, SaleInv
  <2>2. call[r].op \notin Handless /\ r \notin granted
    BY <2>1 DEF Handless, RewardOps, Job, BuyOK
  <2>3. CASE granted' = granted \cup {r} /\ call' = [call EXCEPT ![r].pc = "granted", ![r].hand = 0]
    <3>1. /\ call'[r].pc = "granted" /\ call'[r].hand = 0 /\ call'[r].amt = call[r].amt
          /\ call'[r].who = call[r].who /\ call'[r].owed = call[r].owed /\ call'[r].op = "buy"
      <4>1. HandSet(r, "granted", 0)
        BY <2>3 DEF HandSet
      <4> QED
        BY <2>1, <4>1, SetHand DEF Frame
    <3>2. Purse(r)'
      BY <2>1, <3>1 DEF Purse
    <3>3. LedgerInv' /\ \A s \in Req : call'[s].hand \in Int
      BY <1>2, <1>3, <2>1, <3>2, SalesKeep DEF StepOf
    <3>4. Price(r) = 0 /\ Price(r)' = call[r].hand
      BY <2>1, <2>2, <2>3, <3>1, Prices, PricesNext DEF Purse
    <3>5. \A s \in Req \ {r} : Price(s)' = Price(s)
      BY <1>2, <2>3, PriceKept DEF MovesOnly, paidVars
    <3> QED
      BY <1>2, <1>3, <2>1, <3>1, <3>3, <3>4, <3>5, Sold1
  <2>4. CASE Goto(r, "refund") /\ UNCHANGED granted
    <3>1. Purse(r)' /\ Transfers(r) /\ call'[r].amt = call[r].amt /\ call'[r].op = "buy"
      BY <2>1, <2>2, <2>4, GotoMoves, GotoTransfers DEF Purse, Untaken, MovesOnly, Frame
    <3>2. LedgerInv' /\ \A s \in Req : call'[s].hand \in Int
      BY <1>2, <1>3, <3>1, SalesKeep DEF StepOf, Transfers
    <3>3. Price(r)' = Price(r)
      BY <2>1, <2>4, <3>1, Prices, PricesNext DEF Amt
    <3> QED
      BY <1>2, <1>3, <2>4, <3>1, <3>2, <3>3, Exchanged DEF paidVars
  <2> QED
    BY <1>5, <2>3, <2>4 DEF Grant
<1> QED
  BY <1>4, <1>5

---------------------------------------------------------------------------
(* The paid actions.                                                        *)
LEMMA PayerPurse ==
    ASSUME Frame, LedgerInv, NEW r \in Req, PaidActs(r),
           ~(MedalGrant(r) \/ CastWrite(r) \/ BoostWrite(r))
    PROVE  /\ Purse(r)' /\ Transfers(r) /\ UNCHANGED <<medal, casts, boosts>>
           /\ call[r].pc \in {"start", "priced"} \/ call'[r].amt = call[r].amt
           /\ call[r].pc # "done" /\ (call[r].op = "medal" => call'[r].pc # "done")
<1>1. Purse(r) /\ balance \in [Member -> Nat] /\ call[r].op \in PaidOps
  BY PaidStep DEF LedgerInv, Frame, StepOf
<1>2. UNCHANGED <<medal, casts, boosts>>
  BY DEF PaidActs, MedalRead, MedalDeduct, CastRead, CastDeduct, AddXP, BoostDeduct, BoostPriority,
     PaidRefund, PaidDie, paidVars
<1>3. call[r].op \notin Handless
  BY <1>1 DEF Handless, RewardOps, Job, PaidOps
<1>4. CASE \/ MedalRead(r) \/ AddXP(r) \/ BoostPriority(r) \/ PaidDie(r)
  <2>1. PICK x \in {"refused", "priced", "done", "dead"} :
           /\ Goto(r, x) /\ UNCHANGED balance
           /\ x = "priced" => call[r].pc = "start"
           /\ call[r].pc # "done" /\ (call[r].op = "medal" => x # "done")
    BY <1>4 DEF MedalRead, AddXP, BoostPriority, PaidDie, Die, Cut, At, Ended
  <2>2. Purse(r)' /\ call'[r].amt = call[r].amt
    BY <1>1, <2>1, GotoPurse DEF Untaken, Purse
  <2>3. Transfers(r) /\ call'[r].pc = x
    BY <2>1, GotoTransfers, GotoMoves DEF Frame
  <2> QED
    BY <1>2, <2>1, <2>2, <2>3
<1>5. CASE CastRead(r)
  <2>1. PICK n \in {CastCost[Level(Who(r))], CastCost[0]} :
           /\ call[r].op = "cast" /\ call[r].pc = "start" /\ UNCHANGED balance
           /\ AmtSet(r, "priced", n)
    BY <1>5 DEF CastRead, Priced, At, AmtSet
  <2>2. n \in Nat
    BY PaidActionsAssumption DEF Level
  <2>3. /\ call'[r].pc = "priced" /\ call'[r].amt = n
        /\ call'[r].hand = call[r].hand /\ call'[r].who = call[r].who
        /\ call'[r].owed = call[r].owed /\ call'[r].op = call[r].op
    BY <2>1, SetAmt DEF Frame
  <2>4. call[r].hand = 0
    BY <1>1, <2>1 DEF Purse, Untaken
  <2>5. Purse(r)'
    BY <1>1, <2>2, <2>3, <2>4 DEF Purse
  <2>6. Transfers(r)
    <3>1. Credit(Who(r), 0) /\ call'[r].hand = call[r].hand - 0 /\ balance' \in [Member -> Nat]
      BY <1>1, <2>1, <2>3, <2>4, Stays
    <3> QED
      BY <3>1 DEF Transfers
  <2> QED
    BY <1>2, <2>1, <2>3, <2>5, <2>6
<1>6. CASE MedalDeduct(r) \/ CastDeduct(r) \/ BoostDeduct(r)
  <2>1. PICK n \in Nat : Deduct(r, n, "charged", "refused")
    BY <1>1, <1>6, PaidActionsAssumption DEF MedalDeduct, CastDeduct, BoostDeduct, Purse, Amt
  <2>2. call[r].pc \in {"start", "priced"} /\ call[r].hand = 0
    BY <1>1, <1>6 DEF MedalDeduct, CastDeduct, BoostDeduct, At, Purse, Untaken
  <2>3. Purse(r)'
    BY <1>1, <1>3, <2>1, <2>2, DeductPurse
  <2>4. Transfers(r) /\ call'[r].pc \in {"charged", "refused"}
    BY <2>1, <2>2, DeductTransfers, DeductMoves DEF Frame
  <2> QED
    BY <1>2, <2>2, <2>3, <2>4
<1>7. CASE PaidRefund(r)
  <2>1. Refund(r, "refused") /\ call[r].pc = "refund"
    BY <1>7 DEF PaidRefund
  <2>2. Purse(r)' /\ call'[r].amt = call[r].amt
    BY <1>1, <1>3, <2>1, RefundPurse DEF Untaken
  <2>3. Transfers(r) /\ call'[r].pc = "refused"
    BY <2>1, RefundTransfers, RefundMoves DEF Frame
  <2> QED
    BY <1>2, <2>1, <2>2, <2>3
<1> QED
  BY <1>4, <1>5, <1>6, <1>7 DEF PaidActs

LEMMA PaidBooks ==
    ASSUME Known, Known', LedgerInv, Conserved, PaidActionsNext,
           UNCHANGED <<storeVars, joinVars, offerVars, potVars, dailyVars, RecognitionVars>>
    PROVE  LedgerInv' /\ Conserved'
<1> USE DEF Known
<1>1. PICK r \in Req : PaidActs(r)
  BY DEF PaidActionsNext, PaidActs
<1>2. /\ StepOf(r, PaidOps) /\ MovesOnly(r) /\ call[r].op \in PaidOps /\ PaidOK(r)
      /\ call'[r].op = call[r].op
  BY <1>1, PaidStep DEF Frame, StepOf, EndsInv, MovesOnly
<1>3. UNCHANGED <<grantVars, dailyVars, application, minted, paidOut, granted>>
  BY DEF RecognitionVars, grantVars, dailyVars, joinVars, storeVars
<1>4. CASE ~(MedalGrant(r) \/ CastWrite(r) \/ BoostWrite(r))
  <2>1. /\ Purse(r)' /\ Transfers(r) /\ UNCHANGED <<medal, casts, boosts>>
        /\ call[r].pc \in {"start", "priced"} \/ call'[r].amt = call[r].amt
        /\ call[r].pc # "done" /\ (call[r].op = "medal" => call'[r].pc # "done")
    BY <1>1, <1>4, PayerPurse
  <2>2. LedgerInv' /\ \A s \in Req : call'[s].hand \in Int
    BY <1>2, <1>3, <2>1, SalesKeep DEF StepOf, Transfers
  <2>3. Price(r)' = Price(r)
    <3>1. call[r].pc \in {"start", "priced"} => r \notin casts \cup boosts
      BY <1>2 DEF PaidOK
    <3>2. CASE call[r].op = "medal"
      BY <1>2, <2>1, <3>2, Prices, PricesNext
    <3>3. CASE call[r].op = "cast"
      BY <1>2, <2>1, <3>1, <3>3, Prices, PricesNext DEF Amt
    <3>4. CASE call[r].op = "boost"
      BY <1>2, <2>1, <3>1, <3>4, Prices, PricesNext DEF Amt
    <3> QED
      BY <1>2, <3>2, <3>3, <3>4 DEF PaidOps
  <2> QED
    BY <1>2, <1>3, <2>1, <2>2, <2>3, Exchanged
<1>5. CASE MedalGrant(r) \/ CastWrite(r) \/ BoostWrite(r)
  <2>1. /\ call[r].pc = "charged" /\ UNCHANGED balance
        /\ Purse(r) /\ balance \in [Member -> Nat]
    BY <1>5 DEF MedalGrant, CastWrite, BoostWrite, At, LedgerInv
  <2>2. call[r].op \notin Handless /\ call[r].hand = call[r].amt /\ r \notin casts \cup boosts
    BY <1>2, <2>1 DEF Handless, RewardOps, Job, PaidOps, PaidOK, Purse
  <2>3. Price(r) = 0
    BY <1>2, <2>1, <2>2, Prices DEF PaidOps
  <2>4. CASE Goto(r, "refund") /\ UNCHANGED <<medal, casts, boosts>>
    <3>1. Purse(r)' /\ Transfers(r) /\ call'[r].pc = "refund"
      BY <2>1, <2>2, <2>4, GotoPurse, GotoMoves, GotoTransfers DEF Untaken, Frame
    <3>2. LedgerInv' /\ \A s \in Req : call'[s].hand \in Int
      BY <1>2, <1>3, <3>1, SalesKeep DEF StepOf, Transfers
    <3>3. Price(r)' = Price(r)
      BY <1>2, <2>2, <2>3, <2>4, <3>1, PricesNext DEF PaidOps
    <3> QED
      BY <1>2, <1>3, <2>4, <3>1, <3>2, <3>3, Exchanged
  <2>5. ASSUME NEW x \in {"done", "cast", "boosted"}, Placed(r, x),
               medal \subseteq medal', casts' \in {casts, casts \cup {r}},
               boosts' \in {boosts, boosts \cup {r}},
               \/ call[r].op = "medal" /\ Who(r) \in medal' /\ x = "done"
               \/ call[r].op = "cast" /\ r \in casts'
               \/ call[r].op = "boost" /\ r \in boosts'
        PROVE  LedgerInv' /\ Conserved'
    <3>1. /\ call'[r].pc = x /\ call'[r].hand = 0 /\ call'[r].amt = call[r].amt
          /\ call'[r].who = call[r].who /\ call'[r].owed = call[r].owed
      <4>1. HandSet(r, x, 0)
        BY <2>5 DEF HandSet, Placed
      <4> QED
        BY <4>1, SetHand DEF Frame
    <3>2. Purse(r)'
      BY <1>2, <2>1, <2>5, <3>1 DEF Purse
    <3>3. LedgerInv' /\ \A s \in Req : call'[s].hand \in Int
      BY <1>2, <1>3, <2>1, <3>2, SalesKeep DEF StepOf
    <3>4. Price(r)' = call[r].hand
      BY <1>2, <2>2, <2>5, <3>1, PricesNext DEF Who
    <3>5. \A s \in Req \ {r} : Price(s)' = Price(s)
      BY <1>2, <1>3, <2>5, PriceKept DEF MovesOnly
    <3> QED
      BY <1>2, <1>3, <2>1, <2>3, <3>1, <3>3, <3>4, <3>5, Sold1
  <2>6. CASE MedalGrant(r)
    <3>1. CASE medal' = medal \cup {Who(r)} /\ Placed(r, "done")
      BY <2>5, <2>6, <3>1 DEF MedalGrant, At
    <3> QED
      BY <2>4, <2>6, <3>1 DEF MedalGrant
  <2>7. CASE CastWrite(r)
    <3>1. CASE casts' = casts \cup {r} /\ Placed(r, "cast")
      BY <2>5, <2>7, <3>1 DEF CastWrite, At
    <3> QED
      BY <2>4, <2>7, <3>1 DEF CastWrite
  <2>8. CASE BoostWrite(r)
    <3>1. CASE boosts' = boosts \cup {r} /\ Placed(r, "boosted")
      BY <2>5, <2>8, <3>1 DEF BoostWrite, At
    <3> QED
      BY <2>4, <2>8, <3>1 DEF BoostWrite
  <2> QED
    BY <1>5, <2>6, <2>7, <2>8
<1> QED
  BY <1>4, <1>5

---------------------------------------------------------------------------
(* Joining a community.                                                     *)
LEMMA JoinsKeep ==
    ASSUME Frame, LedgerInv, NEW r \in Req, StepOf(r, JoinOps),
           UNCHANGED <<grantVars, dailyVars>>, Purse(r)', balance' \in [Member -> Nat],
           application' = [s \in Req |-> application'[s]],
           \A s \in Req : Applying(s)', Joining(r)'
    PROVE  LedgerInv' /\ \A s \in Req : call'[s].hand \in Int
<1>1. MovesOnly(r) /\ StepOf(r, PlainOps) /\ call[r].op \notin {"give", "daily", "donate"}
  BY Plain DEF StepOf, PlainOps, JoinOps
<1>2. \A s \in Req : Joining(s)'
  BY <1>1 DEF MovesOnly, LedgerInv, Joining
<1> QED
  BY <1>1, <1>2, QuietRewards, QuietDays, QuietGives, PursesKept DEF LedgerInv

(* An application moves between waiting, a hand and what is spent.          *)
LEMMA JoinBooked ==
    ASSUME Known, Known', LedgerInv, Conserved, \A s \in Req : call'[s].hand \in Int,
           NEW r \in Req, MovesOnly(r),
           UNCHANGED <<balance, offerVars, potVars, minted, paidOut, granted, medal, casts, boosts>>,
           Price(r)' = Price(r), NEW a \in Req,
           \A s \in Req \ {a} : application'[s] = application[s],
           \A s \in Req : application'[s].held \in Int,
           (call'[r].hand - call[r].hand) + (Waits(a)' - Waits(a)) + (Filed(a)' - Filed(a)) = 0
    PROVE  Conserved'
<1>1. \A s \in Req : Price(s)' = Price(s)
  BY PriceKept DEF Known, MovesOnly
<1>2. \A s \in Req : Price(s) \in Int /\ Filed(s) \in Int /\ Filed(s)' \in Int
                        /\ Waits(s) \in Int /\ Waits(s)' \in Int
  BY DEF LedgerInv, Purse, Price, Amt, Applying, Filed, Waits
<1>3. \A s \in Req \ {a} : Filed(s)' = Filed(s) /\ Waits(s)' = Waits(s)
  BY DEF Filed, Waits
<1>4. Spent' = Spent + (Price(a) + Filed(a))' - (Price(a) + Filed(a))
  <2>1. /\ \A s \in Req : (Price(s) + Filed(s)) \in Int
        /\ \A s \in Req : (Price(s) + Filed(s))' \in Int
        /\ \A s \in Req \ {a} : (Price(s) + Filed(s))' = Price(s) + Filed(s)
    BY <1>1, <1>2, <1>3
  <2> QED
    BY <2>1, SpentMoves
<1>5. HeldByApplications' = HeldByApplications + Waits(a)' - Waits(a)
  BY <1>2, <1>3, WaitMoves
<1>6. InPools' = InPools /\ InPots' = InPots
  BY DEF InPools, Pool, InPots, offerVars, potVars
<1>7. Totals \subseteq Int
  BY TotalsInt
<1>8. /\ InPools \in Int /\ InPots \in Int /\ HeldByApplications \in Int /\ Spent \in Int
      /\ minted \in Int /\ paidOut \in Int
  BY <1>7 DEF Totals
<1>9. Credit(Who(r), 0) /\ Who(r) \in Member /\ balance' \in [Member -> Nat]
  BY Stays DEF LedgerInv, Purse, Who
<1>10. Spent' - Spent = Filed(a)' - Filed(a) /\ Spent' \in Int
  BY <1>1, <1>2, <1>4, <1>8
<1>11. HeldByApplications' - HeldByApplications = Waits(a)' - Waits(a) /\ HeldByApplications' \in Int
  BY <1>2, <1>5, <1>8
<1>12. call[r].hand \in Int
  BY DEF LedgerInv, Purse
<1>13. 0 + (call'[r].hand - call[r].hand) + (InPools' - InPools) + (InPots' - InPots)
             + (HeldByApplications' - HeldByApplications) + (Spent' - Spent)
             = (minted' - minted) + (paidOut' - paidOut)
  BY <1>2, <1>6, <1>8, <1>10, <1>11, <1>12
<1> QED
  BY <1>6, <1>8, <1>9, <1>10, <1>11, <1>13, Booked

(* The steps that leave the applications alone, and buy nothing.            *)
LEMMA JoinerPurse ==
    ASSUME Frame, LedgerInv, NEW r \in Req,
           \/ JoinRead(r) \/ JoinDeduct(r) \/ ApplyRefund(r) \/ DenyRefund(r) \/ Redeem(r)
           \/ JoinDie(r)
    PROVE  /\ Purse(r)' /\ Transfers(r) /\ UNCHANGED application /\ Joining(r)' /\ Applying(r)'
           /\ call[r].op = "join" /\ call'[r].pc = "done" => call'[r].amt = 0
           /\ call[r].op = "join" => call[r].pc # "done"
<1>1. /\ Purse(r) /\ balance \in [Member -> Nat] /\ call[r].op \in JoinOps /\ Joining(r) /\ Applying(r)
      /\ call'[r].op = call[r].op
  BY JoinStep DEF JoinActs, LedgerInv, Frame, StepOf, MovesOnly
<1>2. UNCHANGED application
  BY DEF JoinRead, JoinDeduct, ApplyRefund, DenyRefund, Redeem, JoinDie, joinVars
<1>3. CASE JoinRead(r)
  <2>1. PICK x \in {"done", "gated"} : Goto(r, x)
    BY <1>3 DEF JoinRead
  <2>2. call[r].pc = "start" /\ UNCHANGED balance /\ call[r].hand = 0
    BY <1>1, <1>3 DEF JoinRead, Purse, Untaken
  <2>3. Purse(r)' /\ call'[r].amt = call[r].amt
    BY <1>1, <2>1, <2>2, GotoPurse
  <2>4. Transfers(r) /\ call'[r].pc = x
    BY <2>1, <2>2, GotoTransfers, GotoMoves DEF Frame
  <2>5. Joining(r)' /\ Applying(r)'
    BY <1>1, <1>2, <2>2, <2>3, <2>4 DEF Joining, Applying
  <2> QED
    BY <1>1, <1>2, <2>2, <2>3, <2>4, <2>5 DEF Joining
<1>4. CASE JoinDeduct(r)
  <2>1. /\ call[r].pc = "gated" /\ Deduct(r, JoinCost, "charged", "refused")
        /\ call[r].op \in {"join", "apply"} /\ call[r].hand = 0
    BY <1>1, <1>4 DEF JoinDeduct, Purse, Untaken
  <2>2. call[r].op \notin Handless /\ JoinCost \in Nat \ {0}
    BY <2>1, JoinsAssumption DEF Handless, RewardOps, Job
  <2>3. Purse(r)' /\ Transfers(r)
    BY <1>1, <2>1, <2>2, DeductPurse, DeductTransfers
  <2>4. \/ call'[r].pc = "charged" /\ call'[r].hand = JoinCost
        \/ call'[r].pc = "refused"
    BY <2>1, DeductMoves DEF Frame
  <2>5. Joining(r)' /\ Applying(r)'
    BY <1>1, <1>2, <2>1, <2>2, <2>4 DEF Joining, Applying
  <2> QED
    BY <1>1, <1>2, <2>1, <2>3, <2>4, <2>5
<1>5. CASE ApplyRefund(r) \/ DenyRefund(r)
  <2>1. PICK x \in {"done", "refused"} : Refund(r, x)
    BY <1>5 DEF ApplyRefund, DenyRefund
  <2>2. call[r].op \in {"apply", "deny"}
    BY <1>5 DEF ApplyRefund, DenyRefund, At
  <2>3. call[r].op \notin Handless
    BY <2>2 DEF Handless, RewardOps, Job
  <2>4. Purse(r)' /\ Transfers(r) /\ call'[r].pc = x
    BY <1>1, <2>1, <2>3, RefundPurse, RefundTransfers, RefundMoves DEF Untaken, Frame
  <2>5. Joining(r)' /\ Applying(r)'
    BY <1>1, <1>2, <2>2, <2>4 DEF Joining, Applying
  <2> QED
    BY <1>2, <2>2, <2>4, <2>5
<1>6. CASE Redeem(r) \/ JoinDie(r)
  <2>1. PICK x \in {"done", "refused", "dead"} : Goto(r, x) /\ (x = "done" => call[r].op = "redeem")
    BY <1>6 DEF Redeem, JoinDie, Die, Cut, At
  <2>2. UNCHANGED balance /\ call[r].pc # "done"
    BY <1>6 DEF Redeem, JoinDie, Die, Cut, At, Ended
  <2>3. Purse(r)' /\ call'[r].amt = call[r].amt
    BY <1>1, <2>1, GotoPurse DEF Untaken
  <2>4. Transfers(r) /\ call'[r].pc = x
    BY <2>1, <2>2, GotoTransfers, GotoMoves DEF Frame
  <2>5. Joining(r)' /\ Applying(r)'
    BY <1>1, <1>2, <2>1, <2>4 DEF Joining, Applying
  <2> QED
    BY <1>2, <2>1, <2>2, <2>3, <2>4, <2>5
<1> QED
  BY <1>3, <1>4, <1>5, <1>6

(* The steps that take an application from one place to another.            *)
LEMMA OtherPurse ==
    ASSUME Frame, LedgerInv, NEW r \in Req, NEW x \in {"done", "refund"}, Goto(r, x),
           call[r].pc \notin Untaken \/ x = "refund" \/ call[r].hand = 0 \/ call[r].op = "approve",
           call[r].pc \in {"start", "charged"}, UNCHANGED <<balance, application>>,
           call[r].op = "join" => call[r].pc = "charged" /\ x = "done", call[r].op \notin {"give"}
    PROVE  Purse(r)' /\ Transfers(r) /\ Joining(r)' /\ Applying(r)' /\ call'[r].op = call[r].op
           /\ call'[r].hand = call[r].hand /\ call'[r].amt = call[r].amt
<1>1. Purse(r) /\ Joining(r) /\ Applying(r)
  BY DEF LedgerInv
<1>2. /\ call'[r].op = call[r].op /\ call'[r].pc = x /\ call'[r].hand = call[r].hand
      /\ call'[r].amt = call[r].amt
  BY GotoMoves DEF Frame, MovesOnly
<1>3. Purse(r)'
  BY <1>1, GotoPurse DEF Untaken
<1>4. Transfers(r)
  BY GotoTransfers
<1>5. Joining(r)'
  BY <1>2 DEF Joining
<1>6. Applying(r)'
  BY <1>1, <1>2 DEF Applying
<1> QED
  BY <1>2, <1>3, <1>4, <1>5, <1>6

LEMMA JoinIdle ==
    ASSUME Known, Known', LedgerInv, Conserved, NEW r \in Req, JoinActs(r), StepOf(r, JoinOps),
           Purse(r)', Transfers(r), Joining(r)', Applying(r)', Price(r)' = Price(r),
           UNCHANGED <<application, storeVars, paidVars, offerVars, potVars, dailyVars, RecognitionVars>>
    PROVE  LedgerInv' /\ Conserved'
<1>1. UNCHANGED <<grantVars, dailyVars, granted, medal, casts, boosts, minted, paidOut>>
  BY DEF RecognitionVars, grantVars, dailyVars, storeVars, paidVars
<1>2. MovesOnly(r)
  BY DEF StepOf
<1>3. application' = [s \in Req |-> application'[s]]
  BY DEF LedgerInv
<1>4. \A s \in Req : Applying(s)'
  <2> SUFFICES ASSUME NEW s \in Req, s # r PROVE Applying(s)'
    OBVIOUS
  <2> QED
    BY <1>2 DEF MovesOnly, LedgerInv, Applying
<1>5. LedgerInv' /\ \A s \in Req : call'[s].hand \in Int
  BY <1>1, <1>3, <1>4, JoinsKeep DEF Transfers, Known
<1> QED
  BY <1>1, <1>2, <1>5, Exchanged

(* An application is filed, approved or denied.                             *)
LEMMA JoinMoves ==
    ASSUME Known, Known', LedgerInv, Conserved, NEW r \in Req, StepOf(r, JoinOps),
           call[r].op \in {"apply", "approve", "deny"}, Purse(r)', UNCHANGED balance,
           UNCHANGED <<storeVars, paidVars, offerVars, potVars, dailyVars, RecognitionVars>>,
           NEW a \in Req, NEW p, NEW h \in Nat,
           application' = [application EXCEPT ![a] = [status |-> p, held |-> h]],
           p # "none", call'[a].op = "apply", call'[a].pc \notin {"start", "gated", "charged"},
           (call'[r].hand - call[r].hand) + (Waits(a)' - Waits(a)) + (Filed(a)' - Filed(a)) = 0,
           a # r /\ application[r].status # "none" => call'[r].pc \notin {"start", "gated", "charged"}
    PROVE  LedgerInv' /\ Conserved'
<1>1. UNCHANGED <<grantVars, dailyVars, granted, medal, casts, boosts, minted, paidOut>>
  BY DEF RecognitionVars, grantVars, dailyVars, storeVars, paidVars
<1>2. MovesOnly(r) /\ balance' \in [Member -> Nat]
  BY DEF StepOf, LedgerInv
<1>3. /\ application' = [s \in Req |-> application'[s]]
      /\ application'[a] = [status |-> p, held |-> h]
      /\ \A s \in Req \ {a} : application'[s] = application[s]
  BY DEF LedgerInv
<1>4. \A s \in Req : Applying(s)'
  <2> SUFFICES ASSUME NEW s \in Req PROVE Applying(s)'
    OBVIOUS
  <2>1. CASE s = a
    <3>1. application'[a].status = p /\ application'[a].held = h
      BY <1>3
    <3> QED
      BY <1>3, <2>1, <3>1 DEF Applying
  <2>2. CASE s # a
    <3>1. Applying(s) /\ application'[s] = application[s] /\ call'[s].op = call[s].op
      BY <1>2, <1>3, <2>2 DEF LedgerInv, MovesOnly
    <3>2. CASE s = r
      BY <2>2, <3>1, <3>2 DEF Applying
    <3>3. CASE s # r
      <4>1. call'[s] = call[s]
        BY <1>2, <3>3 DEF MovesOnly
      <4> QED
        BY <3>1, <4>1 DEF Applying
    <3> QED
      BY <3>2, <3>3
  <2> QED
    BY <2>1, <2>2
<1>5. call'[r].op = call[r].op
  BY <1>2 DEF MovesOnly
<1>6. Joining(r)'
  BY <1>5 DEF Joining
<1>7. LedgerInv' /\ \A s \in Req : call'[s].hand \in Int
  BY <1>1, <1>2, <1>3, <1>4, <1>6, JoinsKeep DEF Known
<1>8. \A s \in Req : application'[s].held \in Int
  <2> SUFFICES ASSUME NEW s \in Req PROVE application'[s].held \in Nat
    OBVIOUS
  <2>1. Applying(s)'
    BY <1>4
  <2> QED
    BY <2>1 DEF Applying
<1>9. Price(r)' = Price(r)
  <2>1. Price(r) = 0
    BY Prices DEF Known, Sales
  <2>2. Price(r)' = 0
    BY <1>5, PricesNext DEF Known, Sales
  <2> QED
    BY <2>1, <2>2
<1> QED
  BY <1>1, <1>2, <1>3, <1>7, <1>8, <1>9, JoinBooked

Returned(r, x, m, n) == call' = [call EXCEPT ![r].pc = x, ![r].who = m, ![r].hand = n]

LEMMA DeniedRecord ==
    ASSUME Shaped, NEW r \in Req, NEW x, NEW m, NEW n, Returned(r, x, m, n)
    PROVE  /\ call'[r].pc = x /\ call'[r].who = m /\ call'[r].hand = n
           /\ call'[r].amt = call[r].amt /\ call'[r].owed = call[r].owed
<1> DEFINE c == call[r]
           d == [[[c EXCEPT !.pc = x] EXCEPT !.who = m] EXCEPT !.hand = n]
<1>1. call'[r] = d
  BY DEF Shaped, Returned
<1>2. DOMAIN c = {"op", "who", "arg", "amt", "pc", "hand", "owed"}
  BY DEF Shaped, IsCall, Fields
<1>3. d.pc = x /\ d.who = m /\ d.hand = n
  <2> HIDE DEF c
  <2> QED
    BY <1>2
<1>4. d.amt = c.amt /\ d.owed = c.owed
  <2> HIDE DEF c
  <2> QED
    BY <1>2
<1> QED
  <2> HIDE DEF d
  <2> QED
    BY <1>1, <1>3, <1>4

LEMMA JoinBooks ==
    ASSUME Known, Known', LedgerInv, Conserved, JoinsNext,
           UNCHANGED <<storeVars, paidVars, offerVars, potVars, dailyVars, RecognitionVars>>
    PROVE  LedgerInv' /\ Conserved'
<1> USE DEF Known
<1>1. PICK r \in Req : JoinActs(r)
  BY DEF JoinsNext, JoinActs
<1>2. StepOf(r, JoinOps) /\ MovesOnly(r) /\ call[r].op \in JoinOps /\ call'[r].op = call[r].op
  BY <1>1, JoinStep DEF Frame, StepOf, MovesOnly
<1>3. Purse(r) /\ Joining(r) /\ Applying(r) /\ balance \in [Member -> Nat]
  BY DEF LedgerInv
<1>4. CASE \/ JoinRead(r) \/ JoinDeduct(r) \/ ApplyRefund(r) \/ DenyRefund(r) \/ Redeem(r)
           \/ JoinDie(r)
  <2>1. /\ Purse(r)' /\ Transfers(r) /\ UNCHANGED application /\ Joining(r)' /\ Applying(r)'
        /\ call[r].op = "join" /\ call'[r].pc = "done" => call'[r].amt = 0
        /\ call[r].op = "join" => call[r].pc # "done"
    BY <1>4, JoinerPurse
  <2>2. Price(r)' = Price(r)
    <3>1. CASE call[r].op = "join"
      BY <1>2, <2>1, <3>1, Prices, PricesNext
    <3>2. CASE call[r].op # "join"
      <4>1. call[r].op \notin Sales
        BY <1>2, Plain DEF PlainOps
      <4> QED
        BY <1>2, <3>2, <4>1, Prices, PricesNext
    <3> QED
      BY <3>1, <3>2
  <2> QED
    BY <1>1, <1>2, <2>1, <2>2, JoinIdle
<1>5. ASSUME NEW x \in {"done", "refund"}, Goto(r, x), UNCHANGED <<balance, application>>,
             Subscribe(r) \/ CreateJoinRequest(r) \/ Approve(r) \/ Deny(r), 
             Subscribe(r) \/ Approve(r) \/ Deny(r) => x = "done"
      PROVE  LedgerInv' /\ Conserved'
  <2>1. /\ call[r].pc \in {"start", "charged"} /\ call[r].op \notin {"give"}
        /\ call[r].op = "join" => call[r].pc = "charged" /\ x = "done"
        /\ x = "refund" => call[r].op = "apply"
    BY <1>5 DEF Subscribe, CreateJoinRequest, Approve, Deny, At
  <2>2. call[r].pc \notin Untaken \/ x = "refund" \/ call[r].hand = 0 \/ call[r].op = "approve"
    BY <1>3, <1>5 DEF Subscribe, CreateJoinRequest, Approve, Deny, At, Purse, Untaken
  <2>3. /\ Purse(r)' /\ Transfers(r) /\ Joining(r)' /\ Applying(r)' /\ call'[r].op = call[r].op
        /\ call'[r].hand = call[r].hand
    BY <1>5, <2>1, <2>2, OtherPurse
  <2>4. Price(r)' = Price(r)
    <3>1. CASE call[r].op = "join"
      <4>1. call[r].hand > 0 /\ call[r].hand \in Nat /\ call[r].pc = "charged"
        BY <1>3, <2>1, <3>1 DEF Joining, Purse
      <4> QED
        BY <2>3, <3>1, <4>1, Prices, PricesNext
    <3>2. CASE call[r].op # "join"
      <4>1. call[r].op \notin Sales
        BY <1>2, Plain DEF PlainOps
      <4> QED
        BY <1>2, <3>2, <4>1, Prices, PricesNext
    <3> QED
      BY <3>1, <3>2
  <2> QED
    BY <1>1, <1>2, <1>5, <2>3, <2>4, JoinIdle
<1>6. CASE Subscribe(r)
  <2>1. CASE Goto(r, "done")
    BY <1>5, <1>6, <2>1 DEF Subscribe
  <2>2. CASE call' = [call EXCEPT ![r].pc = "done", ![r].hand = 0]
    <3>1. HandSet(r, "done", 0) /\ UNCHANGED <<balance, application>>
      BY <1>6, <2>2 DEF HandSet, Subscribe
    <3>2. /\ call'[r].pc = "done" /\ call'[r].hand = 0 /\ call'[r].amt = call[r].amt
          /\ call'[r].who = call[r].who /\ call'[r].owed = call[r].owed
      BY <3>1, SetHand DEF Frame
    <3>3. call[r].op = "join" /\ call[r].pc = "charged" /\ call[r].hand = call[r].amt
      BY <1>3, <1>6 DEF Subscribe, At, Purse
    <3>4. Purse(r)'
      BY <1>2, <1>3, <3>2 DEF Purse
    <3>5. Joining(r)' /\ Applying(r)'
      BY <1>2, <1>3, <3>1, <3>2, <3>3 DEF Joining, Applying
    <3>6. UNCHANGED <<grantVars, dailyVars, granted, medal, casts, boosts, minted, paidOut>>
      BY DEF RecognitionVars, grantVars, dailyVars, storeVars, paidVars
    <3>7. \A s \in Req : Applying(s)'
      <4> SUFFICES ASSUME NEW s \in Req, s # r PROVE Applying(s)'
        BY <3>5
      <4> QED
        BY <1>2, <3>1 DEF MovesOnly, LedgerInv, Applying
    <3>8. LedgerInv' /\ \A s \in Req : call'[s].hand \in Int
      <4>1. application' = [s \in Req |-> application'[s]] /\ balance' \in [Member -> Nat]
        BY <3>1 DEF LedgerInv
      <4> QED
        BY <1>2, <3>4, <3>5, <3>6, <3>7, <4>1, JoinsKeep
    <3>9. Price(r) = 0 /\ Price(r)' = call[r].hand
      BY <1>2, <3>2, <3>3, Prices, PricesNext
    <3>10. \A s \in Req \ {r} : Price(s)' = Price(s)
      BY <1>2, <3>6, PriceKept DEF MovesOnly
    <3> QED
      BY <1>2, <3>1, <3>2, <3>6, <3>8, <3>9, <3>10, Sold1
  <2> QED
    BY <1>6, <2>1, <2>2 DEF Subscribe
<1>7. CASE CreateJoinRequest(r)
  <2>1. CASE Goto(r, "refund") /\ UNCHANGED application
    BY <1>5, <1>7, <2>1 DEF CreateJoinRequest, Subscribe, Approve, Deny, At
  <2>2. CASE /\ application' = [application EXCEPT ![r] = [status |-> "pending", held |-> call[r].hand]]
             /\ call' = [call EXCEPT ![r].pc = "done", ![r].hand = 0]
    <3>1. HandSet(r, "done", 0) /\ UNCHANGED balance /\ At(r, "apply", "charged")
      BY <1>7, <2>2 DEF HandSet, CreateJoinRequest
    <3>2. /\ call'[r].pc = "done" /\ call'[r].hand = 0 /\ call'[r].amt = call[r].amt
          /\ call'[r].who = call[r].who /\ call'[r].owed = call[r].owed
      BY <3>1, SetHand DEF Frame
    <3>3. Purse(r)' /\ call[r].hand \in Nat
      BY <1>2, <1>3, <3>2 DEF Purse
    <3>4. application[r].status = "none"
      BY <1>3, <3>1 DEF Applying, At
    <3>5. Waits(r) = 0 /\ Filed(r) = 0
      BY <3>4 DEF Waits, Filed
    <3>6. Waits(r)' = call[r].hand /\ Filed(r)' = 0
      <4>1. application'[r] = [status |-> "pending", held |-> call[r].hand]
        BY <2>2 DEF LedgerInv
      <4> QED
        BY <4>1 DEF Waits, Filed
    <3>7. (call'[r].hand - call[r].hand) + (Waits(r)' - Waits(r)) + (Filed(r)' - Filed(r)) = 0
      BY <3>2, <3>3, <3>5, <3>6
    <3> QED
      BY <1>2, <2>2, <3>1, <3>2, <3>3, <3>7, JoinMoves DEF At
  <2> QED
    BY <1>7, <2>1, <2>2 DEF CreateJoinRequest
<1>8. CASE Approve(r)
  <2>1. PICK a \in Req :
          /\ application[a].status # "none"
          /\ IF Undecided(a)
             THEN application' = [application EXCEPT ![a].status = "approved"]
             ELSE UNCHANGED application
    BY <1>8 DEF Approve
  <2>2. Goto(r, "done") /\ UNCHANGED balance /\ At(r, "approve", "start")
    BY <1>8 DEF Approve
  <2>3. CASE ~Undecided(a)
    BY <1>5, <1>8, <2>1, <2>2, <2>3
  <2>4. CASE Undecided(a)
    <3>1. Applying(a) /\ application[a].status = "pending" /\ a # r
      BY <2>1, <2>2, <2>4 DEF LedgerInv, Undecided, Applying, At
    <3>2. application' = [application EXCEPT ![a] = [status |-> "approved", held |-> application[a].held]]
      BY <2>1, <2>4, <3>1 DEF LedgerInv, Applying
    <3>3. call'[a] = call[a] /\ call'[r].hand = call[r].hand /\ call'[r].pc = "done"
      BY <1>2, <2>2, <3>1, GotoMoves DEF MovesOnly, Frame
    <3>4. Purse(r)'
      BY <1>3, <2>2, GotoPurse DEF Untaken
    <3>5. Waits(a) = application[a].held /\ Filed(a) = 0
      BY <3>1 DEF Waits, Filed
    <3>6. Waits(a)' = 0 /\ Filed(a)' = application[a].held
      <4>1. application'[a] = [status |-> "approved", held |-> application[a].held]
        BY <3>2 DEF LedgerInv
      <4> QED
        BY <4>1 DEF Waits, Filed
    <3>7. application[a].held \in Nat /\ call[r].hand \in Nat
      BY <1>3, <3>1 DEF Applying, Purse
    <3>8. (call'[r].hand - call[r].hand) + (Waits(a)' - Waits(a)) + (Filed(a)' - Filed(a)) = 0
      BY <3>3, <3>5, <3>6, <3>7
    <3>9. call'[a].op = "apply" /\ call'[a].pc \notin {"start", "gated", "charged"}
      BY <3>1, <3>3 DEF Applying
    <3> QED
      BY <1>2, <2>2, <3>2, <3>3, <3>4, <3>7, <3>8, <3>9, JoinMoves DEF At
  <2> QED
    BY <2>3, <2>4
<1>9. CASE Deny(r)
  <2>1. PICK a \in Req :
          /\ application[a].status # "none"
          /\ IF Undecided(a)
             THEN /\ application' = [application EXCEPT ![a].status = "denied"]
                  /\ call' = [call EXCEPT ![r].pc = "refund", ![r].who = Who(a),
                                          ![r].hand = application[a].held]
             ELSE Goto(r, "done") /\ UNCHANGED application
    BY <1>9 DEF Deny
  <2>2. UNCHANGED balance /\ At(r, "deny", "start")
    BY <1>9 DEF Deny
  <2>3. CASE ~Undecided(a)
    BY <1>5, <1>9, <2>1, <2>2, <2>3 DEF CreateJoinRequest, At
  <2>4. CASE Undecided(a)
    <3>1. Applying(a) /\ application[a].status = "pending" /\ a # r
      BY <2>1, <2>2, <2>4 DEF LedgerInv, Undecided, Applying, At
    <3>2. application' = [application EXCEPT ![a] = [status |-> "denied", held |-> application[a].held]]
      BY <2>1, <2>4, <3>1 DEF LedgerInv, Applying
    <3>3. call'[a] = call[a]
      BY <1>2, <3>1 DEF MovesOnly
    <3>4. /\ call'[r].pc = "refund" /\ call'[r].hand = application[a].held
          /\ call'[r].who = Who(a) /\ call'[r].amt = call[r].amt /\ call'[r].owed = call[r].owed
      <4> DEFINE m == Who(a)
                 n == application[a].held
      <4>1. Returned(r, "refund", m, n)
        BY <2>1, <2>4 DEF Returned
      <4> HIDE DEF m, n
      <4>2. /\ call'[r].pc = "refund" /\ call'[r].hand = n /\ call'[r].who = m
            /\ call'[r].amt = call[r].amt /\ call'[r].owed = call[r].owed
        BY <4>1, DeniedRecord DEF Frame
      <4> QED
        BY <4>2 DEF m, n
    <3>5. call[a].who \in Member /\ application[a].held \in Nat
      BY <3>1 DEF Applying, LedgerInv, Purse
    <3>6. Purse(r)' /\ call[r].hand = 0
      <4>1. call'[r].op = "deny" /\ call[r].pc = "start"
        BY <1>2, <2>2 DEF At
      <4>2. call[r].hand = 0
        BY <1>3, <4>1 DEF Purse, Untaken
      <4>3. call'[r].op \notin Handless /\ call'[r].pc \notin Untaken
        BY <3>4, <4>1 DEF Handless, RewardOps, Job, Untaken
      <4> QED
        BY <1>3, <3>4, <3>5, <4>2, <4>3 DEF Purse, Who
    <3>7. Waits(a) = application[a].held /\ Filed(a) = 0
      BY <3>1 DEF Waits, Filed
    <3>8. Waits(a)' = 0 /\ Filed(a)' = 0
      <4>1. application'[a] = [status |-> "denied", held |-> application[a].held]
        BY <3>2 DEF LedgerInv
      <4> QED
        BY <4>1 DEF Waits, Filed
    <3>9. (call'[r].hand - call[r].hand) + (Waits(a)' - Waits(a)) + (Filed(a)' - Filed(a)) = 0
      BY <3>4, <3>5, <3>6, <3>7, <3>8
    <3>10. call'[a].op = "apply" /\ call'[a].pc \notin {"start", "gated", "charged"}
      BY <3>1, <3>3 DEF Applying
    <3> QED
      BY <1>2, <2>2, <3>2, <3>4, <3>5, <3>6, <3>9, <3>10, JoinMoves DEF At
  <2> QED
    BY <2>3, <2>4
<1> QED
  BY <1>1, <1>4, <1>6, <1>7, <1>8, <1>9 DEF JoinActs

---------------------------------------------------------------------------
LEMMA PoolNat ==
    ASSUME OfferInv, NEW q \in Rid PROVE Pool(q) \in Nat /\ Unpaid1(q) \in Nat
<1>1. offer[q].stake \in [Member -> Nat]
  BY DEF OfferInv, OfferShape
<1> DEFINE S == offer[q].stake
<1>2. S \in [Member -> Nat] /\ DOMAIN S = Member
  BY <1>1
<1> HIDE DEF S
<1>3. SumFunctionOnSet(S, Member) \in Nat
  BY <1>2, SumNat, PointsAssumption
<1>4. Pool(q) \in Nat
  BY <1>2, <1>3 DEF Pool, SumFunction, S
<1> QED
  BY <1>4 DEF Unpaid1

LEMMA PoolsSteady ==
    ASSUME \A p \in Rid : offer'[p].stake = offer[p].stake /\ offer'[p].settled = offer[p].settled
    PROVE  InPools' = InPools
<1> DEFINE f == [p \in Rid |-> Unpaid1(p)]
           g == [p \in Rid |-> Unpaid1(p)']
<1>1. \A p \in Rid : Unpaid1(p)' = Unpaid1(p)
  BY DEF Unpaid1, Pool
<1>2. f = g
  BY <1>1
<1>3. InPools = SumFunction(f) /\ InPools' = SumFunction(g)
  BY DEF InPools, Unpaid1
<1> HIDE DEF f, g
<1> QED
  BY <1>2, <1>3

(* The other operations buy nothing.                                        *)
LEMMA NothingBought ==
    ASSUME Known, Known', NEW r \in Req, MovesOnly(r), call[r].op \notin Sales \cup {"join"},
           UNCHANGED <<granted, medal, casts, boosts, application>>
    PROVE  Spent' = Spent /\ HeldByApplications' = HeldByApplications
<1>1. ASSUME NEW s \in Req PROVE (Price(s) + Filed(s))' = Price(s) + Filed(s)
  <2>1. CASE s = r
    <3>1. Price(r) = 0 /\ Price(r)' = 0
      BY Prices, PricesNext DEF Known, MovesOnly
    <3> QED
      BY <2>1, <3>1 DEF Filed
  <2>2. CASE s # r
    <3>1. Price(s)' = Price(s)
      BY <2>2, PriceKept DEF Known, MovesOnly
    <3> QED
      BY <3>1 DEF Filed
  <2> QED
    BY <2>1, <2>2
<1>2. Spent' = Spent
  BY <1>1, SpentSteady
<1> QED
  BY <1>2 DEF HeldByApplications

LEMMA Pooled ==
    ASSUME Known, Known', LedgerInv, Conserved, NEW r \in Req, MovesOnly(r),
           \A s \in Req : call'[s].hand \in Int, call[r].op \notin Sales \cup {"join"},
           UNCHANGED <<balance, granted, medal, casts, boosts, application, potVars, minted, paidOut>>,
           NEW q \in Rid, \A p \in Rid \ {q} : offer'[p] = offer[p],
           (call'[r].hand - call[r].hand) + (Unpaid1(q)' - Unpaid1(q)) = 0
    PROVE  Conserved'
<1>1. Spent' = Spent /\ HeldByApplications' = HeldByApplications
  BY NothingBought
<1>2. InPots' = InPots
  BY DEF InPots, potVars
<1>3. InPools' = InPools + Unpaid1(q)' - Unpaid1(q)
  BY PoolsMove DEF Known
<1>4. Totals \subseteq Int
  BY TotalsInt
<1>5. /\ InPools \in Int /\ InPots \in Int /\ HeldByApplications \in Int /\ Spent \in Int
      /\ minted \in Int /\ paidOut \in Int
  BY <1>4 DEF Totals
<1>6. Unpaid1(q) \in Int /\ Unpaid1(q)' \in Int
  <2>1. Pool(q) \in Int /\ Pool(q)' \in Int
    BY PoolInt DEF Pool, Known, OfferInv, OfferShape
  <2> QED
    BY <2>1 DEF Unpaid1
<1>7. Credit(Who(r), 0) /\ Who(r) \in Member /\ balance' \in [Member -> Nat]
  BY Stays DEF LedgerInv, Purse, Who
<1>8. call[r].hand \in Int
  BY DEF LedgerInv, Purse
<1>9. 0 + (call'[r].hand - call[r].hand) + (InPools' - InPools) + (InPots' - InPots)
             + (HeldByApplications' - HeldByApplications) + (Spent' - Spent)
             = (minted' - minted) + (paidOut' - paidOut)
  BY <1>1, <1>2, <1>3, <1>5, <1>6, <1>8
<1>10. InPools' \in Int
  BY <1>3, <1>5, <1>6
<1> QED
  BY <1>1, <1>2, <1>5, <1>7, <1>9, <1>10, Booked

(* The steps that leave stakes alone.                                       *)
LEMMA BackerPurse ==
    ASSUME Frame, LedgerInv, NEW r \in Req, OfferActs(r),
           ~(CreateOrJoin(r) \/ Withdraw(r) \/ Settle(r) \/ Deliver(r))
    PROVE  Purse(r)' /\ Transfers(r)
<1>1. Purse(r) /\ balance \in [Member -> Nat]
  BY DEF LedgerInv
<1>2. CASE Stake(r)
  <2>1. /\ call[r].pc = "start" /\ Deduct(r, Amt(r), "charged", "refused")
        /\ call[r].op = "back" /\ call[r].hand = 0 /\ Amt(r) \in Nat
    BY <1>1, <1>2 DEF Stake, Purse, Untaken, At, Amt
  <2>2. call[r].op \notin Handless
    BY <2>1 DEF Handless, RewardOps, Job
  <2> QED
    BY <1>1, <2>1, <2>2, DeductPurse, DeductTransfers
<1>3. CASE BackRefund(r) \/ WithdrawRefund(r) \/ PayOfferer(r)
  <2>1. PICK x \in {"done", "refused"} : Refund(r, x)
    BY <1>3 DEF BackRefund, WithdrawRefund, PayOfferer
  <2>2. call[r].op \in {"back", "withdraw", "deliver"}
    BY <1>3 DEF BackRefund, WithdrawRefund, PayOfferer, At
  <2>3. call[r].op \notin Handless
    BY <2>2 DEF Handless, RewardOps, Job
  <2> QED
    BY <1>1, <2>1, <2>3, RefundPurse, RefundTransfers DEF Untaken
<1>4. CASE Claim(r) \/ Fail(r) \/ OfferDie(r)
  <2>1. PICK x \in {"done", "dead"} : Goto(r, x) /\ UNCHANGED balance
    BY <1>4 DEF Claim, Fail, OfferDie, Die, Cut
  <2> QED
    BY <1>1, <2>1, GotoPurse, GotoTransfers DEF Untaken
<1> QED
  BY <1>2, <1>3, <1>4 DEF OfferActs

LEMMA DeliverPurse ==
    ASSUME Frame, LedgerInv, NEW r \in Req, Deliver(r)
    PROVE  Purse(r)' /\ Transfers(r)
<1>1. Purse(r) /\ balance \in [Member -> Nat]
  BY DEF LedgerInv
<1>2. call[r].op = "deliver" /\ call[r].pc = "start" /\ UNCHANGED balance
  BY DEF Deliver, At
<1>3. PICK q \in Rid :
          IF MayDeliver(q, Who(r))
          THEN call' = [call EXCEPT ![r].pc = "settle", ![r].arg = q]
          ELSE Goto(r, "refused")
  BY DEF Deliver
<1>4. CASE MayDeliver(q, Who(r))
  <2>1. ArgSet(r, "settle", q)
    BY <1>3, <1>4 DEF ArgSet
  <2>2. /\ call'[r].pc = "settle" /\ call'[r].amt = call[r].amt
        /\ call'[r].who = call[r].who /\ call'[r].hand = call[r].hand
        /\ call'[r].op = call[r].op /\ call'[r].owed = call[r].owed
    BY <2>1, SetArg DEF Frame
  <2>3. call[r].hand = 0
    BY <1>1, <1>2 DEF Purse, Untaken
  <2>4. Purse(r)'
    BY <1>1, <2>2, <2>3 DEF Purse
  <2>5. Transfers(r)
    <3>1. Credit(Who(r), 0) /\ call'[r].hand = call[r].hand - 0 /\ balance' \in [Member -> Nat]
      BY <1>1, <1>2, <2>2, <2>3, Stays
    <3> QED
      BY <3>1 DEF Transfers
  <2> QED
    BY <2>4, <2>5
<1>5. CASE ~MayDeliver(q, Who(r))
  BY <1>1, <1>2, <1>3, <1>5, GotoPurse, GotoTransfers DEF Untaken
<1> QED
  BY <1>4, <1>5

LEMMA StakesKept ==
    ASSUME Frame, Known, NEW r \in Req, Claim(r) \/ Deliver(r) \/ Fail(r)
    PROVE  \A p \in Rid : offer'[p].stake = offer[p].stake /\ offer'[p].settled = offer[p].settled
<1> SUFFICES ASSUME NEW p \in Rid
             PROVE  offer'[p].stake = offer[p].stake /\ offer'[p].settled = offer[p].settled
  OBVIOUS
<1>0. offer = [q \in Rid |-> offer[q]] /\ \A q \in Rid : DOMAIN offer[q] = Facts
  BY DEF Known, OfferInv, OfferShape
<1>1. \/ UNCHANGED offer
      \/ \E q \in Rid : \E x : offer' = [offer EXCEPT ![q].status = x]
      \/ \E q \in Rid : \E x, y : offer' = [offer EXCEPT ![q].status = x, ![q].claimer = y]
  BY DEF Claim, Deliver, Fail
<1>2. CASE \E q \in Rid : \E x : offer' = [offer EXCEPT ![q].status = x]
  BY <1>0, <1>2 DEF Facts
<1>3. CASE \E q \in Rid : \E x, y : offer' = [offer EXCEPT ![q].status = x, ![q].claimer = y]
  BY <1>0, <1>3 DEF Facts
<1> QED
  BY <1>1, <1>2, <1>3

LEMMA SweepBooks ==
    ASSUME Known, LedgerInv, Conserved, Sweep,
           UNCHANGED <<storeVars, paidVars, joinVars, potVars, dailyVars, RecognitionVars>>
    PROVE  LedgerInv' /\ Conserved'
<1>1. UNCHANGED <<balance, call, application, daily, today, minted, grants, settling, counted, paidOut,
                  granted, medal, casts, boosts, pot>>
  BY DEF Sweep, pointsVars, storeVars, paidVars, joinVars, potVars, dailyVars, RecognitionVars, grantVars
<1>2. \A p \in Rid : offer'[p].stake = offer[p].stake /\ offer'[p].settled = offer[p].settled
  <2>0. offer = [q \in Rid |-> offer[q]] /\ \A q \in Rid : DOMAIN offer[q] = Facts
    BY DEF Known, OfferInv, OfferShape
  <2> QED
    BY <2>0 DEF Sweep, Facts
<1>3. InPools' = InPools
  BY <1>2, PoolsSteady
<1>4. LedgerInv'
  <2>1. DayTypes' /\ GrantTypes'
    BY <1>1 DEF LedgerInv, DayTypes, GrantTypes, Rows, RowsIn
  <2>2. ASSUME NEW s \in Req
        PROVE  Purse(s)' /\ Applying(s)' /\ Joining(s)' /\ Giving(s)' /\ Dated(s)' /\ Scoring(s)' /\ Granting(s)'
    <3>1. Purse(s) /\ Applying(s) /\ Joining(s) /\ Giving(s) /\ Dated(s) /\ Scoring(s) /\ Granting(s)
      BY DEF LedgerInv
    <3>2. Purse(s)' /\ Applying(s)' /\ Joining(s)'
      BY <1>1, <3>1 DEF Purse, Applying, Joining
    <3>3. Giving(s)' /\ Dated(s)' /\ Scoring(s)'
      BY <1>1, <3>1 DEF Giving, Dated, Scoring, Who, Amt
    <3>4. Granting(s)'
      BY <1>1, <3>1 DEF Granting, Mine, LinesOf
    <3> QED
      BY <3>2, <3>3, <3>4
  <2> QED
    BY <1>1, <2>1, <2>2 DEF LedgerInv
<1>5. Conserved'
  <2>1. /\ InBalances' = InBalances /\ InHand' = InHand /\ InPots' = InPots
        /\ HeldByApplications' = HeldByApplications
    BY <1>1 DEF InBalances, InHand, InPots, HeldByApplications
  <2>2. Spent' = Spent
    BY <1>1 DEF Spent, Bought, At, Amt, Who
  <2> QED
    BY <1>1, <1>3, <2>1, <2>2 DEF Conserved
<1> QED
  BY <1>4, <1>5

(* A stake goes in or out, or a pool is closed: the points move between it  *)
(* and a hand.                                                              *)
OfferSet(q, p) == offer' = [offer EXCEPT ![q] = p]

LEMMA OfferBooked ==
    ASSUME Known, Known', LedgerInv, Conserved, NEW r \in Req, StepOf(r, OfferOps), Purse(r)',
           UNCHANGED <<balance, storeVars, paidVars, joinVars, potVars, dailyVars, RecognitionVars>>,
           NEW q \in Rid, NEW p, OfferSet(q, p),
           (call'[r].hand - call[r].hand) + (Unpaid1(q)' - Unpaid1(q)) = 0
    PROVE  LedgerInv' /\ Conserved'
<1>1. /\ UNCHANGED <<grantVars, dailyVars, granted, medal, casts, boosts, application, minted, paidOut>>
      /\ MovesOnly(r) /\ call[r].op \notin Sales \cup {"join"}
  BY DEF RecognitionVars, grantVars, dailyVars, storeVars, paidVars, joinVars, StepOf, OfferOps, Sales
<1>2. LedgerInv' /\ \A s \in Req : call'[s].hand \in Int
  <2>1. balance' \in [Member -> Nat] /\ StepOf(r, SaleOps \cup PaidOps \cup OfferOps)
    BY DEF LedgerInv, StepOf
  <2> QED
    BY <1>1, <2>1, SalesKeep DEF Known
<1>3. \A x \in Rid \ {q} : offer'[x] = offer[x]
  BY DEF OfferSet, Known, OfferInv
<1> QED
  BY <1>1, <1>2, <1>3, Pooled

LEMMA OfferEntry ==
    ASSUME Known, NEW q \in Rid, NEW p, OfferSet(q, p)
    PROVE  /\ offer'[q] = p
           /\ Unpaid1(q)' = IF p.settled THEN 0 ELSE SumFunction(p.stake)
<1>1. offer'[q] = p
  BY DEF OfferSet, Known, OfferInv
<1> QED
  BY <1>1 DEF Unpaid1, Pool

StakeSet(o, m, n, st) == [[o EXCEPT !.stake[m] = n] EXCEPT !.status = st]

LEMMA StakeEntry ==
    ASSUME NEW o, OfferShape(o), NEW m \in Member, NEW n \in Nat, NEW st
    PROVE  /\ StakeSet(o, m, n, st).settled = o.settled
           /\ SumFunction(StakeSet(o, m, n, st).stake) = SumFunction(o.stake) + n - o.stake[m]
<1> DEFINE S == o.stake
           T == [S EXCEPT ![m] = n]
<1>1. StakeSet(o, m, n, st).settled = o.settled /\ StakeSet(o, m, n, st).stake = T
  BY DEF OfferShape, Facts, StakeSet
<1>2. S \in [Member -> Nat]
  BY DEF OfferShape
<1>3. T \in [Member -> Nat] /\ T[m] = n /\ \A x \in Member : x # m => T[x] = S[x]
  BY <1>2
<1> HIDE DEF S, T
<1>4. SumFunction(T) = SumFunction(S) + T[m] - S[m]
  BY <1>2, <1>3, StakeMoves
<1> QED
  BY <1>1, <1>3, <1>4 DEF S

LEMMA CreateBooks ==
    ASSUME Known, Known', LedgerInv, Conserved, NEW r \in Req, CreateOrJoin(r), StepOf(r, OfferOps),
           UNCHANGED <<storeVars, paidVars, joinVars, potVars, dailyVars, RecognitionVars>>,
           ~Goto(r, "refund") \/ ~UNCHANGED offer
    PROVE  LedgerInv' /\ Conserved'
<1> USE DEF Known
<1>1. /\ call[r].op = "back" /\ call[r].pc = "charged" /\ UNCHANGED balance
      /\ HandSet(r, "done", 0)
  BY DEF CreateOrJoin, At, HandSet
<1>2. Purse(r) /\ call[r].hand = Amt(r) /\ Amt(r) \in Nat /\ Who(r) \in Member
  BY <1>1 DEF LedgerInv, Purse, Amt, Who
<1>3. /\ call'[r].pc = "done" /\ call'[r].hand = 0 /\ call'[r].amt = call[r].amt
      /\ call'[r].who = call[r].who /\ call'[r].owed = call[r].owed
      /\ call'[r].op = call[r].op
  BY <1>1, SetHand DEF Frame
<1>4. Purse(r)'
  BY <1>2, <1>3 DEF Purse
<1>0. PICK q \in Rid : \E st :
        /\ offer[q].status \in {"none", "open", "claimed"}
        /\ OfferSet(q, StakeSet(offer[q], Who(r), offer[q].stake[Who(r)] + Amt(r), st))
  <2>1. \A q \in Rid : offer[q] = [f \in Facts |-> offer[q][f]]
    BY DEF OfferInv, OfferShape
  <2>2. ASSUME NEW q \in Rid, Live(q), offer' = Backed(q, Who(r), Amt(r))
        PROVE  /\ offer[q].status \in {"none", "open", "claimed"}
               /\ OfferSet(q, StakeSet(offer[q], Who(r), offer[q].stake[Who(r)] + Amt(r), offer[q].status))
    <3>1. OfferSet(q, StakeSet(offer[q], Who(r), offer[q].stake[Who(r)] + Amt(r), offer[q].status))
      BY <2>1, <2>2 DEF OfferSet, StakeSet, Backed, OfferInv, OfferShape, Facts
    <3> QED
      BY <2>2, <3>1 DEF Live
  <2>3. ASSUME NEW q \in Rid, offer[q].status = "none",
               offer' = [Backed(q, Who(r), Amt(r)) EXCEPT ![q].status = "open"]
        PROVE  /\ offer[q].status \in {"none", "open", "claimed"}
               /\ OfferSet(q, StakeSet(offer[q], Who(r), offer[q].stake[Who(r)] + Amt(r), "open"))
    BY <2>1, <2>3 DEF OfferSet, StakeSet, Backed, OfferInv
  <2>4. \/ \E q \in Rid : Live(q) /\ offer' = Backed(q, Who(r), Amt(r))
        \/ \E q \in Rid : offer[q].status = "none"
                          /\ offer' = [Backed(q, Who(r), Amt(r)) EXCEPT ![q].status = "open"]
    BY DEF CreateOrJoin
  <2> QED
    BY <2>2, <2>3, <2>4
<1>5. PICK st :
        /\ offer[q].status \in {"none", "open", "claimed"}
        /\ OfferSet(q, StakeSet(offer[q], Who(r), offer[q].stake[Who(r)] + Amt(r), st))
  BY <1>0
<1> DEFINE o == offer[q]
           n == o.stake[Who(r)] + Amt(r)
           p == StakeSet(o, Who(r), n, st)
<1>6. OfferShape(o) /\ ~o.settled /\ o.stake \in [Member -> Nat] /\ n \in Nat
  BY <1>2, <1>5 DEF OfferInv, OfferShape
<1>7. Pool(q) \in Nat /\ Unpaid1(q) = SumFunction(o.stake)
  BY <1>6, PoolNat DEF Unpaid1, Pool
<1>8. SumFunction(o.stake) \in Nat
  BY <1>7 DEF Pool
<1>9. Unpaid1(q)' = Unpaid1(q) + Amt(r)
  <2>1. ~p.settled /\ SumFunction(p.stake) = SumFunction(o.stake) + n - o.stake[Who(r)]
    <3> HIDE DEF n, o
    <3> QED
      BY <1>2, <1>6, StakeEntry
  <2>2. Unpaid1(q)' = IF p.settled THEN 0 ELSE SumFunction(p.stake)
    BY <1>5, OfferEntry
  <2>3. o.stake[Who(r)] \in Nat
    BY <1>2, <1>6
  <2>4. n = o.stake[Who(r)] + Amt(r)
    OBVIOUS
  <2> HIDE DEF p, o, n
  <2> QED
    BY <1>2, <1>7, <1>8, <2>1, <2>2, <2>3, <2>4
<1>10. (call'[r].hand - call[r].hand) + (Unpaid1(q)' - Unpaid1(q)) = 0
  BY <1>2, <1>3, <1>7, <1>8, <1>9
<1>11. OfferSet(q, p)
  BY <1>5
<1> HIDE DEF p
<1> QED
  BY <1>1, <1>4, <1>10, <1>11, OfferBooked

LEMMA WithdrawBooks ==
    ASSUME Known, Known', LedgerInv, Conserved, NEW r \in Req, Withdraw(r), StepOf(r, OfferOps),
           UNCHANGED <<storeVars, paidVars, joinVars, potVars, dailyVars, RecognitionVars>>,
           ~Goto(r, "refused") \/ ~UNCHANGED offer
    PROVE  LedgerInv' /\ Conserved'
<1> USE DEF Known
<1>1. PICK q \in Rid :
         /\ Withdrawable(q)
         /\ offer' = [offer EXCEPT ![q].stake[Who(r)] = 0,
                        ![q].status = IF Cancelled(q, Who(r)) THEN "cancelled" ELSE @]
         /\ HandSet(r, "refund", offer[q].stake[Who(r)])
  BY DEF Withdraw, HandSet
<1>2. call[r].op = "withdraw" /\ call[r].pc = "start" /\ UNCHANGED balance
  BY DEF Withdraw, At
<1>3. Purse(r) /\ call[r].hand = 0 /\ Who(r) \in Member
  BY <1>2 DEF LedgerInv, Purse, Who, Untaken
<1> DEFINE o == offer[q]
           st == IF Cancelled(q, Who(r)) THEN "cancelled" ELSE o.status
           p == StakeSet(o, Who(r), 0, st)
<1>4. OfferShape(o) /\ ~o.settled /\ o.stake \in [Member -> Nat]
  BY <1>1 DEF OfferInv, OfferShape, Withdrawable
<1>5. OfferSet(q, p)
  BY <1>1, <1>4 DEF OfferSet, StakeSet, OfferInv, OfferShape, Facts
<1>6. /\ call'[r].pc = "refund" /\ call'[r].hand = o.stake[Who(r)] /\ call'[r].amt = call[r].amt
      /\ call'[r].who = call[r].who /\ call'[r].owed = call[r].owed
      /\ call'[r].op = call[r].op
  BY <1>1, SetHand DEF Frame
<1>7. Purse(r)'
  <2>1. call[r].op \notin Handless /\ o.stake[Who(r)] \in Nat
    BY <1>2, <1>3, <1>4 DEF Handless, RewardOps, Job
  <2> HIDE DEF o
  <2> QED
    BY <1>3, <1>6, <2>1 DEF Purse, Untaken
<1>8. Unpaid1(q) = SumFunction(o.stake) /\ Unpaid1(q) \in Nat
  BY <1>4, PoolNat DEF Unpaid1, Pool
<1>9. Unpaid1(q)' = Unpaid1(q) - o.stake[Who(r)]
  <2>1. ~p.settled /\ SumFunction(p.stake) = SumFunction(o.stake) + 0 - o.stake[Who(r)]
    <3> HIDE DEF o, st
    <3> QED
      BY <1>3, <1>4, StakeEntry
  <2>2. Unpaid1(q)' = IF p.settled THEN 0 ELSE SumFunction(p.stake)
    <3> HIDE DEF p
    <3> QED
      BY <1>5, OfferEntry
  <2>3. o.stake[Who(r)] \in Nat
    BY <1>3, <1>4
  <2> HIDE DEF p, o
  <2> QED
    BY <1>8, <2>1, <2>2, <2>3
<1>10. (call'[r].hand - call[r].hand) + (Unpaid1(q)' - Unpaid1(q)) = 0
  <2>1. o.stake[Who(r)] \in Nat
    BY <1>3, <1>4
  <2> HIDE DEF o
  <2> QED
    BY <1>3, <1>6, <1>8, <1>9, <2>1
<1> HIDE DEF p
<1> QED
  BY <1>2, <1>5, <1>7, <1>10, OfferBooked

LEMMA SettleBooks ==
    ASSUME Known, Known', LedgerInv, Conserved, NEW r \in Req, Settle(r), StepOf(r, OfferOps),
           UNCHANGED <<storeVars, paidVars, joinVars, potVars, dailyVars, RecognitionVars>>,
           ~UNCHANGED offer
    PROVE  LedgerInv' /\ Conserved'
<1> USE DEF Known
<1>1. PICK q \in Rid :
         /\ call[r].op = "deliver" /\ call[r].pc = "settle" /\ UNCHANGED balance
         /\ ~offer[q].settled /\ offer' = [offer EXCEPT ![q].settled = TRUE]
         /\ HandSet(r, "refund", Pool(q))
  <2>1. call[r].op = "deliver" /\ call[r].pc = "settle" /\ UNCHANGED balance
    BY DEF Settle, At
  <2>2. call[r].arg \in Rid
    BY <2>1 DEF OfferInv, Delivering
  <2>3. /\ ~offer[call[r].arg].settled /\ offer' = [offer EXCEPT ![call[r].arg].settled = TRUE]
        /\ HandSet(r, "refund", Pool(call[r].arg))
    BY DEF Settle, HandSet
  <2> QED
    BY <2>1, <2>2, <2>3
<1>2. Purse(r) /\ call[r].hand = 0
  BY <1>1 DEF LedgerInv, Purse, Untaken
<1>3. PICK p : OfferSet(q, p) /\ p.settled
  <2>1. OfferSet(q, [offer[q] EXCEPT !.settled = TRUE]) /\ [offer[q] EXCEPT !.settled = TRUE].settled
    BY <1>1 DEF OfferSet, OfferInv, OfferShape, Facts
  <2> QED
    BY <2>1
<1>4. /\ call'[r].pc = "refund" /\ call'[r].hand = Pool(q) /\ call'[r].amt = call[r].amt
      /\ call'[r].who = call[r].who /\ call'[r].owed = call[r].owed
      /\ call'[r].op = call[r].op
  BY <1>1, SetHand DEF Frame
<1>5. Pool(q) \in Nat /\ Unpaid1(q) = Pool(q)
  BY <1>1, PoolNat DEF Unpaid1
<1>6. Purse(r)'
  <2>1. call[r].op \notin Handless
    BY <1>1 DEF Handless, RewardOps, Job
  <2> QED
    BY <1>2, <1>4, <1>5, <2>1 DEF Purse, Untaken
<1>7. Unpaid1(q)' = 0
  BY <1>3, OfferEntry
<1>8. (call'[r].hand - call[r].hand) + (Unpaid1(q)' - Unpaid1(q)) = 0
  BY <1>2, <1>4, <1>5, <1>7
<1> QED
  BY <1>1, <1>2, <1>3, <1>6, <1>8, OfferBooked

LEMMA SettleRests ==
    ASSUME Frame, LedgerInv, NEW r \in Req, Settle(r), UNCHANGED offer, Known
    PROVE  Purse(r)' /\ Transfers(r)
<1>1. Purse(r) /\ balance \in [Member -> Nat]
  BY DEF LedgerInv
<1>2. call[r].op = "deliver" /\ call[r].pc = "settle" /\ UNCHANGED balance
  BY DEF Settle, At
<1>3. CASE Goto(r, "done")
  BY <1>1, <1>2, <1>3, GotoPurse, GotoTransfers DEF Untaken
<1>4. CASE call' = [call EXCEPT ![r].pc = "done", ![r].owed = TRUE]
  <2>1. OwedSet(r, "done", TRUE)
    BY <1>4 DEF OwedSet
  <2>2. /\ call'[r].pc = "done" /\ call'[r].owed = TRUE /\ call'[r].amt = call[r].amt
        /\ call'[r].who = call[r].who /\ call'[r].hand = call[r].hand
        /\ call'[r].op = call[r].op
    BY <2>1, SetOwed DEF Frame
  <2>3. call[r].hand = 0
    BY <1>1, <1>2 DEF Purse, Untaken
  <2>4. Purse(r)'
    <3>1. call'[r].owed \in BOOLEAN
      BY <2>2
    <3> QED
      BY <1>1, <2>2, <2>3, <3>1 DEF Purse
  <2>5. Transfers(r)
    <3>1. Credit(Who(r), 0) /\ call'[r].hand = call[r].hand - 0 /\ balance' \in [Member -> Nat]
      BY <1>1, <1>2, <2>2, <2>3, Stays
    <3> QED
      BY <3>1 DEF Transfers
  <2> QED
    BY <2>4, <2>5
<1>5. ASSUME ~offer[call[r].arg].settled, offer' = [offer EXCEPT ![call[r].arg].settled = TRUE]
      PROVE  FALSE
  <2>1. call[r].arg \in Rid
    BY <1>2 DEF Known, OfferInv, Delivering
  <2>2. offer'[call[r].arg].settled = TRUE
    BY <1>5, <2>1 DEF Known, OfferInv, OfferShape, Facts
  <2> QED
    BY <1>5, <2>2
<1> QED
  BY <1>3, <1>4, <1>5 DEF Settle

LEMMA OfferBooks ==
    ASSUME Known, Known', LedgerInv, Conserved, OfferNext,
           UNCHANGED <<storeVars, paidVars, joinVars, potVars, dailyVars, RecognitionVars>>
    PROVE  LedgerInv' /\ Conserved'
<1> USE DEF Known
<1>1. CASE Sweep
  BY <1>1, SweepBooks
<1>2. ASSUME NEW r \in Req, OfferActs(r) PROVE LedgerInv' /\ Conserved'
  <2>1. StepOf(r, OfferOps) /\ MovesOnly(r) /\ call[r].op \in OfferOps
    BY <1>2, OfferStep DEF Frame, StepOf
  <2>2. ASSUME Purse(r)', Transfers(r),
               \A p \in Rid : offer'[p].stake = offer[p].stake /\ offer'[p].settled = offer[p].settled
        PROVE  LedgerInv' /\ Conserved'
    <3>1. /\ UNCHANGED <<grantVars, dailyVars, granted, medal, casts, boosts, application, minted, paidOut>>
          /\ call[r].op \notin Sales \cup {"join"}
      BY <2>1 DEF RecognitionVars, grantVars, dailyVars, storeVars, paidVars, joinVars, OfferOps, Sales
    <3>2. LedgerInv' /\ \A s \in Req : call'[s].hand \in Int
      <4>1. StepOf(r, SaleOps \cup PaidOps \cup OfferOps)
        BY <2>1 DEF StepOf
      <4> QED
        BY <2>2, <3>1, <4>1, SalesKeep DEF Transfers
    <3>3. Spent' = Spent /\ HeldByApplications' = HeldByApplications
      BY <2>1, <3>1, NothingBought
    <3>4. InPools' = InPools /\ InPots' = InPots
      BY <2>2, PoolsSteady DEF InPots, potVars
    <3> QED
      BY <2>1, <2>2, <3>1, <3>2, <3>3, <3>4, Transferred
  <2>3. CASE ~(CreateOrJoin(r) \/ Withdraw(r) \/ Settle(r) \/ Deliver(r) \/ Claim(r) \/ Fail(r))
    <3>1. UNCHANGED offer
      BY <1>2, <2>3 DEF OfferActs, Stake, BackRefund, WithdrawRefund, PayOfferer, OfferDie, offerVars
    <3> QED
      BY <1>2, <2>2, <2>3, <3>1, BackerPurse
  <2>4. CASE Claim(r) \/ Fail(r)
    <3>1. ~(CreateOrJoin(r) \/ Withdraw(r) \/ Settle(r) \/ Deliver(r))
      BY <2>4 DEF Claim, Fail, CreateOrJoin, Withdraw, Settle, Deliver, At
    <3> QED
      BY <1>2, <2>2, <2>4, <3>1, BackerPurse, StakesKept
  <2>5. CASE Deliver(r)
    BY <2>2, <2>5, DeliverPurse, StakesKept
  <2>6. CASE CreateOrJoin(r)
    <3>1. CASE Goto(r, "refund") /\ UNCHANGED offer
      <4>1. call[r].pc = "charged" /\ UNCHANGED balance
        BY <2>6 DEF CreateOrJoin, At
      <4> QED
        BY <2>2, <3>1, <4>1, GotoPurse, GotoTransfers DEF Untaken, LedgerInv
    <3>2. CASE ~(Goto(r, "refund") /\ UNCHANGED offer)
      BY <2>1, <2>6, <3>2, CreateBooks
    <3> QED
      BY <3>1, <3>2
  <2>7. CASE Withdraw(r)
    <3>1. CASE Goto(r, "refused") /\ UNCHANGED offer
      <4>1. UNCHANGED balance
        BY <2>7 DEF Withdraw
      <4> QED
        BY <2>2, <3>1, <4>1, GotoPurse, GotoTransfers DEF Untaken, LedgerInv
    <3>2. CASE ~(Goto(r, "refused") /\ UNCHANGED offer)
      BY <2>1, <2>7, <3>2, WithdrawBooks
    <3> QED
      BY <3>1, <3>2
  <2>8. CASE Settle(r)
    <3>1. CASE UNCHANGED offer
      BY <2>2, <2>8, <3>1, SettleRests
    <3>2. CASE ~UNCHANGED offer
      BY <2>1, <2>8, <3>2, SettleBooks
    <3> QED
      BY <3>1, <3>2
  <2> QED
    BY <2>3, <2>4, <2>5, <2>6, <2>7, <2>8
<1> QED
  BY <1>1, <1>2 DEF OfferNext, OfferActs

---------------------------------------------------------------------------
(* The pot and charity.                                                     *)
LEMMA PotsKeep ==
    ASSUME Frame, LedgerInv, NEW r \in Req, StepOf(r, PotOps),
           UNCHANGED <<grantVars, dailyVars, application>>, Purse(r)', Giving(r)',
           balance' \in [Member -> Nat]
    PROVE  LedgerInv' /\ \A s \in Req : call'[s].hand \in Int
<1>1. MovesOnly(r) /\ StepOf(r, PlainOps) /\ call[r].op \notin {"join", "apply", "daily"}
  BY Plain DEF StepOf, PlainOps, PotOps
<1>2. \A s \in Req : Giving(s)'
  BY <1>1 DEF MovesOnly, LedgerInv, Giving, Who, Amt
<1> QED
  BY <1>1, <1>2, QuietRewards, QuietDays, QuietJoins, PursesKept DEF LedgerInv

(* Points move between the balance of a member, a hand and a pot.           *)
PotSet(c, p) == pot' = [pot EXCEPT ![c] = p]

LEMMA PotBooked ==
    ASSUME Known, Known', LedgerInv, Conserved, NEW r \in Req, StepOf(r, PotOps),
           Purse(r)', Giving(r)', balance' \in [Member -> Nat],
           UNCHANGED <<storeVars, paidVars, joinVars, offerVars, dailyVars, RecognitionVars>>,
           NEW m \in Member, NEW b \in Int, Credit(m, b), InPots' \in Int,
           b + (call'[r].hand - call[r].hand) + (InPots' - InPots) = 0
    PROVE  LedgerInv' /\ Conserved'
<1>1. /\ UNCHANGED <<grantVars, dailyVars, granted, medal, casts, boosts, application, minted, paidOut>>
      /\ MovesOnly(r) /\ call[r].op \notin Sales \cup {"join"}
  BY DEF RecognitionVars, grantVars, dailyVars, storeVars, paidVars, joinVars, StepOf, PotOps, Sales
<1>2. LedgerInv' /\ \A s \in Req : call'[s].hand \in Int
  BY <1>1, PotsKeep DEF Known
<1>3. Spent' = Spent /\ HeldByApplications' = HeldByApplications
  BY <1>1, NothingBought
<1>4. InPools' = InPools
  BY DEF InPools, Pool, offerVars
<1>5. Totals \subseteq Int
  BY TotalsInt
<1>6. /\ InPools \in Int /\ InPots \in Int /\ HeldByApplications \in Int /\ Spent \in Int
      /\ minted \in Int /\ paidOut \in Int
  BY <1>5 DEF Totals
<1>7. call[r].hand \in Int
  BY DEF LedgerInv, Purse
<1>8. /\ InPools' - InPools = 0 /\ HeldByApplications' - HeldByApplications = 0
      /\ Spent' - Spent = 0 /\ minted' - minted = 0 /\ paidOut' - paidOut = 0
  BY <1>1, <1>3, <1>4, <1>6
<1>9. call'[r].hand \in Int
  BY <1>2
<1>10. b + (call'[r].hand - call[r].hand) + (InPools' - InPools) + (InPots' - InPots)
             + (HeldByApplications' - HeldByApplications) + (Spent' - Spent)
             = (minted' - minted) + (paidOut' - paidOut)
  BY <1>6, <1>7, <1>8, <1>9
<1> QED
  BY <1>1, <1>2, <1>3, <1>4, <1>6, <1>10, Booked

LEMMA PotsSteady ==
    ASSUME \A c \in Cycle : pot'[c].total = pot[c].total /\ pot'[c].paid = pot[c].paid
    PROVE  InPots' = InPots
<1> DEFINE f == [c \in Cycle |-> pot[c].total - pot[c].paid]
           g == [c \in Cycle |-> pot'[c].total - pot'[c].paid]
<1>1. f = g
  OBVIOUS
<1>2. InPots = SumFunction(f) /\ InPots' = SumFunction(g)
  BY DEF InPots
<1> HIDE DEF f, g
<1> QED
  BY <1>1, <1>2

(* A donor's step that leaves the pots alone.                               *)
LEMMA PotRests ==
    ASSUME Known, Known', LedgerInv, Conserved, NEW r \in Req, StepOf(r, PotOps),
           Purse(r)', Giving(r)', Transfers(r),
           UNCHANGED <<storeVars, paidVars, joinVars, offerVars, dailyVars, RecognitionVars>>,
           \A c \in Cycle : pot'[c].total = pot[c].total /\ pot'[c].paid = pot[c].paid
    PROVE  LedgerInv' /\ Conserved'
<1>1. PICK b \in Int : Credit(Who(r), b) /\ call'[r].hand = call[r].hand - b
  BY DEF Transfers
<1>2. InPots' = InPots /\ InPots \in Int
  BY PotsSteady, TotalsInt DEF Totals
<1>3. call[r].hand \in Int /\ Who(r) \in Member /\ balance' \in [Member -> Nat]
  BY DEF LedgerInv, Purse, Who, Transfers
<1>4. b + (call'[r].hand - call[r].hand) + (InPots' - InPots) = 0
  BY <1>1, <1>2, <1>3
<1> QED
  BY <1>1, <1>2, <1>3, <1>4, PotBooked

SamePots == \A c \in Cycle : pot'[c].total = pot[c].total /\ pot'[c].paid = pot[c].paid

StatusSet(c, x)  == pot' = [pot EXCEPT ![c].status = x]
WinnerSet(c, x)  == pot' = [pot EXCEPT ![c].winner = x]
GaveSet(c, m, n) == pot' = [pot EXCEPT ![c].gave[m] = @ + n]
WinnerPaid(r, c, m) ==
    /\ balance' = [balance EXCEPT ![m] = @ + Winnings(r)]
    /\ pot' = [pot EXCEPT ![c].winner = m, ![c].paid = @ + Winnings(r)]

LEMMA PotColumns ==
    ASSUME Known, NEW r \in Req, PotInsert(r) \/ AddRow(r) \/ CloseCycle(r) \/ Draw(r)
    PROVE  \/ SamePots
           \/ Draw(r) /\ \E c \in Cycle, m \in Member : WinnerPaid(r, c, m)
<1> USE DEF Known
<1>0. pot = [c \in Cycle |-> pot[c]] /\ \A c \in Cycle : DOMAIN pot[c] = Columns
  BY DEF PotInv, PotShape
<1>1. ASSUME NEW c \in Cycle, NEW x, StatusSet(c, x) PROVE SamePots
  BY <1>0, <1>1 DEF Columns, StatusSet, SamePots
<1>2. ASSUME NEW c \in Cycle, NEW x, WinnerSet(c, x) PROVE SamePots
  BY <1>0, <1>2 DEF Columns, WinnerSet, SamePots
<1>3. ASSUME NEW c \in Cycle, NEW m, NEW n, GaveSet(c, m, n) PROVE SamePots
  BY <1>0, <1>3 DEF Columns, GaveSet, SamePots
<1>4. CASE UNCHANGED pot
  BY <1>4 DEF SamePots
<1>5. call[r].op = "donate" /\ call[r].pc \in {"charged", "full", "draw"} => call[r].arg \in Cycle
  BY DEF PotInv, Donating
<1>6. CASE PotInsert(r)
  <2>1. \E c \in Cycle : StatusSet(c, "open")
    BY <1>6 DEF PotInsert, StatusSet
  <2> QED
    BY <1>1, <2>1
<1>7. CASE AddRow(r)
  <2>1. UNCHANGED pot \/ GaveSet(call[r].arg, Who(r), Amt(r))
    BY <1>7 DEF AddRow, GaveSet
  <2> QED
    BY <1>3, <1>4, <1>5, <1>7, <2>1 DEF AddRow, At
<1>8. CASE CloseCycle(r)
  <2>1. UNCHANGED pot \/ StatusSet(call[r].arg, "closed")
    BY <1>8 DEF CloseCycle, StatusSet
  <2> QED
    BY <1>1, <1>4, <1>5, <1>8, <2>1 DEF CloseCycle, At
<1>9. CASE Draw(r)
  <2>1. \/ UNCHANGED pot \/ \E m : WinnerSet(call[r].arg, m)
        \/ \E m \in Member : WinnerPaid(r, call[r].arg, m)
    BY <1>9 DEF Draw, WinnerSet, WinnerPaid
  <2> QED
    BY <1>2, <1>4, <1>5, <1>9, <2>1 DEF Draw, At
<1> QED
  BY <1>6, <1>7, <1>8, <1>9

LEMMA DonorPurse ==
    ASSUME Frame, LedgerInv, NEW r \in Req, PotActs(r),
           ~(AddTotal(r) \/ Draw(r) \/ GiveShare(r) \/ GiveDeduct(r))
    PROVE  Purse(r)' /\ Giving(r)' /\ Transfers(r)
<1>1. Purse(r) /\ balance \in [Member -> Nat] /\ Giving(r) /\ call[r].op \in PotOps
      /\ call'[r].op = call[r].op /\ call[r].op \notin Handless
  BY PotStep DEF LedgerInv, Frame, StepOf, MovesOnly, PotOps, Handless, RewardOps, Job
<1>2. call[r].op = "donate" => Giving(r)'
  BY <1>1 DEF Giving
<1>3. CASE PotRead(r)
  <2>1. /\ call[r].op = "donate" /\ call[r].pc \in {"start", "reread"} /\ UNCHANGED balance
        /\ call[r].hand = 0
    BY <1>1, <1>3 DEF PotRead, At, Purse, Untaken
  <2>2. \/ \E x \in {"insert", "refused"} : Goto(r, x)
        \/ ArgSet(r, "found", Min(Open))
    BY <1>3 DEF PotRead, ArgSet
  <2>3. CASE ArgSet(r, "found", Min(Open))
    <3> DEFINE n == Min(Open)
    <3>0. ArgSet(r, "found", n)
      BY <2>3
    <3> HIDE DEF n
    <3>1. /\ call'[r].pc = "found" /\ call'[r].amt = call[r].amt
          /\ call'[r].who = call[r].who /\ call'[r].hand = call[r].hand
          /\ call'[r].op = call[r].op /\ call'[r].owed = call[r].owed
      BY <3>0, SetArg DEF Frame
    <3>2. Purse(r)'
      BY <1>1, <2>1, <3>1 DEF Purse
    <3>3. Transfers(r)
      <4>1. Credit(Who(r), 0) /\ call'[r].hand = call[r].hand - 0 /\ balance' \in [Member -> Nat]
        BY <1>1, <2>1, <3>1, Stays
      <4> QED
        BY <4>1 DEF Transfers
    <3> QED
      BY <1>2, <2>1, <3>2, <3>3
  <2>4. CASE \E x \in {"insert", "refused"} : Goto(r, x)
    BY <1>1, <1>2, <2>1, <2>4, GotoPurse, GotoTransfers
  <2> QED
    BY <2>2, <2>3, <2>4
<1>4. CASE PotInsert(r) \/ WithinLimit(r)
  <2>1. PICK x \in {"reread", "allowed", "refused"} : Goto(r, x)
    BY <1>4 DEF PotInsert, WithinLimit
  <2>2. /\ call[r].op = "donate" /\ call[r].pc \in {"insert", "found"} /\ UNCHANGED balance
        /\ call[r].hand = 0
    BY <1>1, <1>4 DEF PotInsert, WithinLimit, At, Purse, Untaken
  <2> QED
    BY <1>1, <1>2, <2>1, <2>2, GotoPurse, GotoTransfers
<1>5. CASE PotDeduct(r)
  <2>1. /\ call[r].pc = "allowed" /\ Deduct(r, Amt(r), "charged", "refused")
        /\ call[r].op = "donate" /\ call[r].hand = 0 /\ Amt(r) \in Nat
    BY <1>1, <1>5 DEF PotDeduct, Purse, Untaken, At, Amt
  <2> QED
    BY <1>1, <1>2, <2>1, DeductPurse, DeductTransfers
<1>6. CASE AddRow(r)
  <2>1. call[r].op = "donate" /\ call[r].pc = "charged" /\ UNCHANGED balance
    BY <1>6 DEF AddRow, At
  <2>2. CASE Goto(r, "inserted")
    <3>1. /\ call'[r].pc = "inserted" /\ call'[r].amt = call[r].amt
          /\ call'[r].who = call[r].who /\ call'[r].hand = call[r].hand
          /\ call'[r].owed = call[r].owed
      BY <2>2, GotoMoves DEF Frame
    <3>2. Purse(r)'
      BY <1>1, <2>1, <3>1 DEF Purse, Untaken
    <3> QED
      BY <1>2, <2>1, <2>2, <3>2, GotoTransfers
  <2>3. CASE Goto(r, "refund")
    BY <1>1, <1>2, <2>1, <2>3, GotoPurse, GotoTransfers DEF Untaken
  <2> QED
    BY <1>6, <2>2, <2>3 DEF AddRow
<1>7. CASE DonateRefund(r)
  <2>1. Refund(r, "refused") /\ call[r].op = "donate"
    BY <1>7 DEF DonateRefund, At
  <2> QED
    BY <1>1, <1>2, <2>1, RefundPurse, RefundTransfers DEF Untaken
<1>8. CASE CloseCycle(r) \/ Console(r)
  <2>1. PICK x \in {"draw", "done"} : Goto(r, x)
    BY <1>8 DEF CloseCycle, Console
  <2>2. call[r].op = "donate" /\ UNCHANGED balance
    BY <1>8 DEF CloseCycle, Console, At
  <2> QED
    BY <1>1, <1>2, <2>1, <2>2, GotoPurse, GotoTransfers DEF Untaken
<1>9. CASE PotDie(r)
  <2>1. Goto(r, "dead") /\ UNCHANGED balance
    BY <1>9 DEF PotDie, Die, Cut
  <2>2. call'[r].pc = "dead"
    BY <2>1, GotoMoves DEF Frame
  <2> QED
    BY <1>1, <2>1, <2>2, GotoPurse, GotoTransfers DEF Untaken, Giving
<1> QED
  BY <1>3, <1>4, <1>5, <1>6, <1>7, <1>8, <1>9 DEF PotActs

(* The pot's own total takes what was in a hand.                            *)
TotalSet(r, n, x) == call' = [call EXCEPT ![r].hand = 0, ![r].amt = n, ![r].pc = x]

LEMMA SetTotal ==
    ASSUME Shaped, NEW r \in Req, NEW x, NEW n, TotalSet(r, n, x)
    PROVE  /\ call'[r].pc = x /\ call'[r].amt = n /\ call'[r].hand = 0
           /\ call'[r].who = call[r].who /\ call'[r].owed = call[r].owed
<1> DEFINE c == call[r]
           d == [[[c EXCEPT !.hand = 0] EXCEPT !.amt = n] EXCEPT !.pc = x]
<1>1. call'[r] = d
  BY DEF Shaped, TotalSet
<1>2. DOMAIN c = {"op", "who", "arg", "amt", "pc", "hand", "owed"}
  BY DEF Shaped, IsCall, Fields
<1>3. d.pc = x /\ d.amt = n /\ d.hand = 0
  <2> HIDE DEF c
  <2> QED
    BY <1>2
<1>4. d.who = c.who /\ d.owed = c.owed
  <2> HIDE DEF c
  <2> QED
    BY <1>2
<1> QED
  <2> HIDE DEF d
  <2> QED
    BY <1>1, <1>3, <1>4

TotalOf(c, n) == pot' = [pot EXCEPT ![c].total = n]

LEMMA PotEntry ==
    ASSUME Known, Known', LedgerInv, NEW c \in Cycle, NEW n \in Nat,
           TotalOf(c, pot[c].total + n)
           \/ \E m : pot' = [pot EXCEPT ![c].winner = m, ![c].paid = @ + n]
    PROVE  /\ InPots' = InPots + n \/ InPots' = InPots - n
           /\ TotalOf(c, pot[c].total + n) => InPots' = InPots + n
           /\ (\E m : pot' = [pot EXCEPT ![c].winner = m, ![c].paid = @ + n]) => InPots' = InPots - n
           /\ InPots \in Int
<1> USE DEF Known
<1>1. pot = [d \in Cycle |-> pot[d]] /\ \A d \in Cycle : PotShape(pot[d])
  BY DEF PotInv
<1>2. \A d \in Cycle \ {c} : pot'[d] = pot[d]
  BY <1>1 DEF TotalOf
<1>3. InPots' = InPots + (pot'[c].total - pot'[c].paid) - (pot[c].total - pot[c].paid)
  BY <1>2, PotsMove
<1>4. pot[c].total \in Nat /\ pot[c].paid \in Nat /\ DOMAIN pot[c] = Columns
  BY <1>1 DEF PotShape
<1>5. InPots \in Int
  BY TotalsInt DEF Totals
<1>6. ASSUME TotalOf(c, pot[c].total + n) PROVE InPots' = InPots + n
  <2>1. pot'[c] = [pot[c] EXCEPT !.total = pot[c].total + n]
    BY <1>1, <1>6 DEF TotalOf
  <2>2. pot'[c].total = pot[c].total + n /\ pot'[c].paid = pot[c].paid
    BY <1>4, <2>1 DEF Columns
  <2> QED
    BY <1>3, <1>4, <1>5, <2>2
<1>7. ASSUME NEW m, pot' = [pot EXCEPT ![c].winner = m, ![c].paid = @ + n] PROVE InPots' = InPots - n
  <2>1. pot'[c] = [[pot[c] EXCEPT !.winner = m] EXCEPT !.paid = pot[c].paid + n]
    BY <1>1, <1>4, <1>7 DEF Columns
  <2>2. pot'[c].total = pot[c].total /\ pot'[c].paid = pot[c].paid + n
    BY <1>4, <2>1 DEF Columns
  <2> QED
    BY <1>3, <1>4, <1>5, <2>2
<1> QED
  BY <1>5, <1>6, <1>7

LEMMA AddBooks ==
    ASSUME Known, Known', LedgerInv, Conserved, NEW r \in Req, AddTotal(r), StepOf(r, PotOps),
           UNCHANGED <<storeVars, paidVars, joinVars, offerVars, dailyVars, RecognitionVars>>
    PROVE  LedgerInv' /\ Conserved'
<1> USE DEF Known
<1>1. call[r].op = "donate" /\ call[r].pc = "inserted" /\ UNCHANGED balance
  BY DEF AddTotal, At
<1>2. Purse(r) /\ call[r].hand = Amt(r) /\ Amt(r) \in Nat /\ Who(r) \in Member
      /\ balance \in [Member -> Nat] /\ call'[r].op = call[r].op
  BY <1>1 DEF LedgerInv, Purse, Amt, Who, StepOf, MovesOnly
<1>3. Giving(r)'
  BY <1>1, <1>2 DEF Giving
<1>4. PICK c \in Cycle : c = call[r].arg
  BY <1>1 DEF PotInv, Donating
<1>5. CASE Goto(r, "refund") /\ UNCHANGED pot
  <2>1. Purse(r)' /\ Transfers(r)
    BY <1>1, <1>2, <1>5, GotoPurse, GotoTransfers DEF Untaken
  <2> QED
    BY <1>3, <1>5, <2>1, PotRests
<1>6. CASE \E n, x : /\ n = pot[c].total + Amt(r) /\ x \in {"done", "full"}
                     /\ TotalSet(r, n, x) /\ TotalOf(c, n)
  <2>1. PICK n, x : /\ n = pot[c].total + Amt(r) /\ x \in {"done", "full"}
                    /\ TotalSet(r, n, x) /\ TotalOf(c, n)
    BY <1>6
  <2>2. n \in Nat
    BY <1>2, <2>1 DEF PotInv, PotShape
  <2>3. /\ call'[r].pc = x /\ call'[r].amt = n /\ call'[r].hand = 0
        /\ call'[r].who = call[r].who /\ call'[r].owed = call[r].owed
    BY <2>1, SetTotal DEF Frame
  <2>4. Purse(r)'
    BY <1>2, <2>1, <2>2, <2>3 DEF Purse
  <2>5. InPots' = InPots + Amt(r) /\ InPots \in Int
    BY <1>2, <2>1, PotEntry
  <2>6. Credit(Who(r), 0) /\ balance' \in [Member -> Nat]
    BY <1>1, <1>2, Stays
  <2>7. 0 + (call'[r].hand - call[r].hand) + (InPots' - InPots) = 0 /\ InPots' \in Int
    BY <1>2, <2>3, <2>5
  <2> QED
    BY <1>2, <1>3, <2>4, <2>6, <2>7, PotBooked
<1>7. \/ Goto(r, "refund") /\ UNCHANGED pot
      \/ \E n, x : /\ n = pot[c].total + Amt(r) /\ x \in {"done", "full"}
                   /\ TotalSet(r, n, x) /\ TotalOf(c, n)
  <2> DEFINE n == pot[c].total + Amt(r)
             x == IF n < PotTarget THEN "done" ELSE "full"
  <2>1. \/ Goto(r, "refund") /\ UNCHANGED pot
        \/ TotalSet(r, n, x) /\ TotalOf(c, n)
    BY <1>4 DEF AddTotal, TotalSet, TotalOf
  <2>2. x \in {"done", "full"}
    OBVIOUS
  <2> HIDE DEF x
  <2> QED
    BY <2>1, <2>2
<1> QED
  BY <1>5, <1>6, <1>7

(* The draw pays out of the pot.                                            *)
LEMMA DrawBooks ==
    ASSUME Known, Known', LedgerInv, Conserved, NEW r \in Req, Draw(r), StepOf(r, PotOps),
           UNCHANGED <<storeVars, paidVars, joinVars, offerVars, dailyVars, RecognitionVars>>
    PROVE  LedgerInv' /\ Conserved'
<1> USE DEF Known
<1>1. call[r].op = "donate" /\ call[r].pc = "draw"
  BY DEF Draw, At
<1>2. Purse(r) /\ Who(r) \in Member /\ balance \in [Member -> Nat] /\ call'[r].op = call[r].op
      /\ Amt(r) \in Nat
  BY <1>1 DEF LedgerInv, Purse, Who, StepOf, MovesOnly, Amt
<1>3. Giving(r)'
  BY <1>1, <1>2 DEF Giving
<1>4. PICK c \in Cycle : c = call[r].arg
  BY <1>1 DEF PotInv, Donating
<1>5. CASE Goto(r, "done") /\ UNCHANGED <<balance, pot>>
  <2>1. Purse(r)' /\ Transfers(r)
    BY <1>1, <1>2, <1>5, GotoPurse, GotoTransfers DEF Untaken
  <2> QED
    BY <1>3, <1>5, <2>1, PotRests
<1>6. ASSUME NEW a, ArgSet(r, "drawn", a)
      PROVE  Purse(r)' /\ call'[r].hand = call[r].hand /\ call[r].hand \in Nat
  <2>1. /\ call'[r].pc = "drawn" /\ call'[r].amt = call[r].amt
        /\ call'[r].who = call[r].who /\ call'[r].hand = call[r].hand
        /\ call'[r].op = call[r].op /\ call'[r].owed = call[r].owed
    BY <1>6, SetArg DEF Frame
  <2>2. call[r].op \notin Handless
    BY <1>1 DEF Handless, RewardOps, Job
  <2> QED
    BY <1>1, <1>2, <2>1, <2>2 DEF Purse, Untaken
<1>7. ASSUME NEW m \in Member, NEW a, WinnerSet(c, m), UNCHANGED balance, ArgSet(r, "drawn", a)
      PROVE  LedgerInv' /\ Conserved'
  <2>1. SamePots
    <3>1. pot = [d \in Cycle |-> pot[d]] /\ \A d \in Cycle : DOMAIN pot[d] = Columns
      BY DEF PotInv, PotShape
    <3> QED
      BY <1>7, <3>1 DEF Columns, WinnerSet, SamePots
  <2>2. Credit(Who(r), 0) /\ call'[r].hand = call[r].hand - 0 /\ balance' \in [Member -> Nat]
    BY <1>2, <1>6, <1>7, Stays
  <2>3. Transfers(r)
    BY <2>2 DEF Transfers
  <2> QED
    BY <1>3, <1>6, <1>7, <2>1, <2>3, PotRests DEF SamePots
<1>8. ASSUME NEW m \in Member, NEW a, WinnerPaid(r, c, m), ArgSet(r, "drawn", a)
      PROVE  LedgerInv' /\ Conserved'
  <2>1. PICK w \in Nat : w = Winnings(r)
    <3>1. Amt(r) * PotWinPct \in Nat
      BY <1>2, PctNat
    <3> QED
      BY <3>1 DEF Winnings
  <2>2. pot' = [pot EXCEPT ![c].winner = m, ![c].paid = @ + w]
    BY <1>8, <2>1 DEF WinnerPaid
  <2>3. InPots' = InPots - w /\ InPots \in Int
    BY <2>2, PotEntry
  <2>4. balance' = [balance EXCEPT ![m] = @ + w]
    BY <1>8, <2>1 DEF WinnerPaid
  <2>5. Credit(m, w) /\ balance' \in [Member -> Nat]
    BY <1>2, <2>4 DEF Credit
  <2>6. Purse(r)' /\ call'[r].hand = call[r].hand /\ call[r].hand \in Nat
    BY <1>6, <1>8
  <2>7. w + (call'[r].hand - call[r].hand) + (InPots' - InPots) = 0 /\ InPots' \in Int
    BY <2>3, <2>6
  <2> QED
    BY <1>3, <2>5, <2>6, <2>7, PotBooked
<1>9. \/ Goto(r, "done") /\ UNCHANGED <<balance, pot>>
      \/ \E m \in Member : /\ ArgSet(r, "drawn", Earned(c))
                           /\ WinnerPaid(r, c, m) \/ (WinnerSet(c, m) /\ UNCHANGED balance)
  BY <1>4 DEF Draw, ArgSet, WinnerPaid, WinnerSet
<1> QED
  BY <1>5, <1>7, <1>8, <1>9

(* A gift is divided without a remainder.                                   *)
LEMMA RestParts ==
    ASSUME NEW a \in Nat, NEW n \in Nat \ {0}
    PROVE  /\ Rest(a, n, 1) = a
           /\ \A i \in 1..n : /\ SplitEven(a, n)[i] \in Nat
                              /\ Rest(a, n, i + 1) \in Nat
                              /\ Rest(a, n, i) = SplitEven(a, n)[i] + Rest(a, n, i + 1)
<1> DEFINE q == a \div n
           m == a % n
<1>1. q \in Nat /\ m \in 0..(n - 1) /\ a = n * q + m
  OBVIOUS
<1>2. Rest(a, n, 1) = (n - 1 + 1) * q + (IF 1 <= m THEN m - 1 + 1 ELSE 0)
  BY DEF Rest
<1>3. \A i \in 1..n :
        /\ Rest(a, n, i) = (n - i + 1) * q + (IF i <= m THEN m - i + 1 ELSE 0)
        /\ Rest(a, n, i + 1) = (n - (i + 1) + 1) * q + (IF i + 1 <= m THEN m - (i + 1) + 1 ELSE 0)
        /\ SplitEven(a, n)[i] = q + (IF i <= m THEN 1 ELSE 0)
  BY DEF Rest, SplitEven
<1> HIDE DEF q, m
<1>4. Rest(a, n, 1) = a
  <2>1. n - 1 + 1 = n
    OBVIOUS
  <2> QED
    BY <1>1, <1>2, <2>1
<1>5. ASSUME NEW i \in 1..n
      PROVE  /\ SplitEven(a, n)[i] \in Nat
             /\ Rest(a, n, i + 1) \in Nat
             /\ Rest(a, n, i) = SplitEven(a, n)[i] + Rest(a, n, i + 1)
  <2>1. PICK k \in Nat : k = n - i
    OBVIOUS
  <2>2. n - i + 1 = k + 1 /\ n - (i + 1) + 1 = k
    BY <2>1
  <2>3. (k + 1) * q = k * q + q /\ k * q \in Nat
    BY <1>1
  <2>4. /\ Rest(a, n, i) = k * q + q + (IF i <= m THEN m - i + 1 ELSE 0)
        /\ Rest(a, n, i + 1) = k * q + (IF i + 1 <= m THEN m - (i + 1) + 1 ELSE 0)
        /\ SplitEven(a, n)[i] = q + (IF i <= m THEN 1 ELSE 0)
    BY <1>3, <2>2, <2>3
  <2> QED
    BY <1>1, <2>3, <2>4
<1> QED
  BY <1>4, <1>5

(* A share goes from the giver's hand to one of the needy.                  *)
ShareSet(r, h, i, x) == call' = [call EXCEPT ![r].hand = h, ![r].arg = i, ![r].pc = x]
ShareOwed(r, i, x) == call' = [call EXCEPT ![r].owed = TRUE, ![r].arg = i, ![r].pc = x]

LEMMA SetShare ==
    ASSUME Shaped, NEW r \in Req, NEW h, NEW i, NEW x
    PROVE  /\ ShareSet(r, h, i, x) =>
                /\ call'[r].pc = x /\ call'[r].amt = call[r].amt /\ call'[r].hand = h
                /\ call'[r].who = call[r].who /\ call'[r].owed = call[r].owed
                /\ call'[r].arg = i
           /\ ShareOwed(r, i, x) =>
                /\ call'[r].pc = x /\ call'[r].amt = call[r].amt /\ call'[r].hand = call[r].hand
                /\ call'[r].who = call[r].who /\ call'[r].owed = TRUE
                /\ call'[r].arg = i
<1> DEFINE c == call[r]
           d == [[[c EXCEPT !.hand = h] EXCEPT !.arg = i] EXCEPT !.pc = x]
           e == [[[c EXCEPT !.owed = TRUE] EXCEPT !.arg = i] EXCEPT !.pc = x]
<1>1. ShareSet(r, h, i, x) => call'[r] = d
  BY DEF Shaped, ShareSet
<1>2. ShareOwed(r, i, x) => call'[r] = e
  BY DEF Shaped, ShareOwed
<1>3. DOMAIN c = {"op", "who", "arg", "amt", "pc", "hand", "owed"}
  BY DEF Shaped, IsCall, Fields
<1>4. d.pc = x /\ d.arg = i /\ d.hand = h
  <2> HIDE DEF c
  <2> QED
    BY <1>3
<1>5. d.who = c.who /\ d.owed = c.owed /\ d.amt = c.amt
  <2> HIDE DEF c
  <2> QED
    BY <1>3
<1>6. e.pc = x /\ e.arg = i /\ e.owed = TRUE
  <2> HIDE DEF c
  <2> QED
    BY <1>3
<1>7. e.who = c.who /\ e.hand = c.hand /\ e.amt = c.amt
  <2> HIDE DEF c
  <2> QED
    BY <1>3
<1> QED
  <2> HIDE DEF d, e
  <2> QED
    BY <1>1, <1>2, <1>4, <1>5, <1>6, <1>7

LEMMA GiveStarts ==
    ASSUME Known, LedgerInv, NEW r \in Req, GiveDeduct(r)
    PROVE  Purse(r)' /\ Giving(r)' /\ Transfers(r)
<1> USE DEF Known
<1>1. call[r].op = "give" /\ call[r].pc = "start"
  BY DEF GiveDeduct, At
<1>2. /\ Purse(r) /\ Giving(r) /\ Who(r) \in Member /\ Amt(r) \in Nat /\ call[r].hand = 0
      /\ call[r].arg = 1 /\ call[r].op \notin Handless
  BY <1>1 DEF LedgerInv, Purse, Untaken, Who, Amt, Giving, Handless, RewardOps, Job
<1>3. CASE Goto(r, "refused") /\ UNCHANGED balance
  <2>1. call'[r].pc = "refused"
    BY <1>3, GotoMoves DEF Frame
  <2> QED
    BY <1>2, <1>3, <2>1, GotoPurse, GotoTransfers DEF Untaken, Giving
<1>4. CASE Needy[Who(r)] # <<>> /\ Deduct(r, Amt(r), "charged", "refused")
  <2>1. Purse(r)' /\ Transfers(r)
    BY <1>2, <1>4, DeductPurse, DeductTransfers
  <2>2. /\ \/ call'[r].pc = "charged" /\ call'[r].amt = Amt(r) /\ call'[r].hand = Amt(r)
           \/ call'[r].pc = "refused"
        /\ call'[r].who = call[r].who /\ call'[r].arg = call[r].arg
    BY <1>4, DeductMoves DEF Frame
  <2>3. CASE call'[r].pc = "charged"
    <3>1. PICK n \in Nat : n = Len(Needy[Who(r)])
      BY <1>2, PotAssumption
    <3>2. n # 0
      BY <1>2, <1>4, <3>1, PotAssumption
    <3>3. Rest(Amt(r), n, 1) = Amt(r)
      BY <1>2, <3>1, <3>2, RestParts
    <3>4. 1 \in 1..n
      BY <3>1, <3>2
    <3>5. Who(r)' = Who(r) /\ Amt(r)' = Amt(r) /\ call'[r].hand = Amt(r) /\ call'[r].arg = 1
      BY <1>2, <2>2, <2>3 DEF Who, Amt
    <3>6. Rest(Amt(r)', Len(Needy[Who(r)']), call'[r].arg) <= call'[r].hand
      BY <1>2, <3>1, <3>3, <3>5
    <3>7. call'[r].arg \in 1..Len(Needy[Who(r)'])
      BY <3>1, <3>4, <3>5
    <3> QED
      BY <2>1, <2>3, <3>6, <3>7 DEF Giving
  <2>4. CASE call'[r].pc = "refused"
    BY <2>1, <2>4 DEF Giving
  <2> QED
    BY <2>1, <2>2, <2>3, <2>4
<1> QED
  BY <1>3, <1>4 DEF GiveDeduct

LEMMA GivenRecord ==
    ASSUME Shaped, NEW r \in Req, call[r].pc = "charged", NEW s, NEW i, NEW e \in BOOLEAN,
           NEW x, x = IF e THEN "done" ELSE "charged"
    PROVE  /\ call' = [call EXCEPT ![r].hand = @ - s, ![r].arg = i, ![r].pc = IF e THEN "done" ELSE @]
                => ShareSet(r, call[r].hand - s, i, x)
           /\ call' = [call EXCEPT ![r].owed = TRUE, ![r].arg = i, ![r].pc = IF e THEN "done" ELSE @]
                => ShareOwed(r, i, x)
BY DEF ShareSet, ShareOwed, Shaped, IsCall, Fields

LEMMA ShareBooks ==
    ASSUME Known, Known', LedgerInv, Conserved, NEW r \in Req, GiveShare(r), StepOf(r, PotOps),
           UNCHANGED <<storeVars, paidVars, joinVars, offerVars, dailyVars, RecognitionVars>>
    PROVE  LedgerInv' /\ Conserved'
<1> USE DEF Known
<1>1. /\ call[r].op = "give" /\ call[r].pc = "charged" /\ UNCHANGED pot
      /\ call'[r].op = "give"
  BY DEF GiveShare, potVars, StepOf, MovesOnly
<1>2. /\ Purse(r) /\ Giving(r) /\ Who(r) \in Member /\ Amt(r) \in Nat /\ call[r].hand \in Nat
      /\ balance \in [Member -> Nat]
  BY DEF LedgerInv, Purse, Who, Amt
<1>3. PICK n \in Nat : n = Len(Needy[Who(r)])
  <2>1. Needy[Who(r)] \in Seq(Member)
    BY <1>2, PotAssumption
  <2>2. Len(Needy[Who(r)]) \in Nat
    BY <2>1
  <2> QED
    BY <2>2
<1>4. PICK i \in 1..n : i = call[r].arg /\ Rest(Amt(r), n, i) <= call[r].hand
  BY <1>1, <1>2, <1>3 DEF Giving
<1>5. n # 0 /\ Needy[Who(r)][i] \in Member
  BY <1>2, <1>3, <1>4, PotAssumption
<1>0. /\ SplitEven(Amt(r), n)[i] \in Nat
      /\ Rest(Amt(r), n, i + 1) \in Nat
      /\ Rest(Amt(r), n, i) = SplitEven(Amt(r), n)[i] + Rest(Amt(r), n, i + 1)
  <2>1. Amt(r) \in Nat /\ n \in Nat \ {0} /\ i \in 1..n
    BY <1>2, <1>5
  <2> QED
    BY <2>1, RestParts
<1>6. PICK s \in Nat : s = Share(r, i) /\ s = SplitEven(Amt(r), n)[i]
  BY <1>0, <1>3 DEF Share
<1>7. PICK t \in Nat : t = Rest(Amt(r), n, i + 1) /\ Rest(Amt(r), n, i) = s + t
  BY <1>0, <1>6
<1>8. s + t <= call[r].hand
  BY <1>4, <1>7
<1>9. PICK x : x = IF i = n THEN "done" ELSE "charged"
  OBVIOUS
<1>10. ASSUME call'[r].pc = x, call'[r].arg = i + 1, call'[r].amt = call[r].amt,
              call'[r].who = call[r].who, call'[r].owed \in BOOLEAN,
              call'[r].hand \in {call[r].hand, call[r].hand - s}
       PROVE  Purse(r)' /\ Giving(r)'
  <2>1. call'[r].hand \in Nat /\ t <= call'[r].hand
    BY <1>2, <1>8, <1>10
  <2>2. Purse(r)'
    <3>1. call'[r].pc \notin Untaken \cup {"inserted"} /\ call'[r].op \notin Handless
      BY <1>1, <1>9, <1>10 DEF Untaken, Handless, RewardOps, Job
    <3> QED
      BY <1>1, <1>2, <1>10, <2>1, <3>1 DEF Purse
  <2>3. Giving(r)'
    <3>1. CASE i = n
      BY <1>9, <1>10, <3>1 DEF Giving
    <3>2. CASE i # n
      <4>1. i + 1 \in 1..n
        BY <3>2
      <4>2. Who(r)' = Who(r) /\ Amt(r)' = Amt(r)
        BY <1>10 DEF Who, Amt
      <4>3. call'[r].arg \in 1..Len(Needy[Who(r)'])
        BY <1>3, <1>10, <4>1, <4>2
      <4>4. Rest(Amt(r)', Len(Needy[Who(r)']), call'[r].arg) <= call'[r].hand
        BY <1>3, <1>7, <1>10, <2>1, <4>2
      <4>5. call'[r].pc = "charged"
        BY <1>9, <1>10, <3>2
      <4> QED
        BY <4>3, <4>4, <4>5 DEF Giving
    <3> QED
      BY <3>1, <3>2
  <2> QED
    BY <2>2, <2>3
<1>11. CASE /\ balance' = [balance EXCEPT ![Needy[Who(r)][i]] = @ + s]
            /\ ShareSet(r, call[r].hand - s, i + 1, x)
  <2>1. PICK m \in Member : m = Needy[Who(r)][i]
    BY <1>5
  <2>2. balance' = [balance EXCEPT ![m] = @ + s]
    BY <1>11, <2>1
  <2>3. Credit(m, s) /\ balance' \in [Member -> Nat]
    BY <1>2, <2>2 DEF Credit
  <2>4. PICK h : h = call[r].hand - s
    OBVIOUS
  <2>5. ShareSet(r, h, i + 1, x)
    BY <1>11, <2>4
  <2>6. /\ call'[r].pc = x /\ call'[r].amt = call[r].amt /\ call'[r].hand = h
        /\ call'[r].who = call[r].who /\ call'[r].owed = call[r].owed
        /\ call'[r].arg = i + 1
    BY <2>5, SetShare DEF Frame
  <2>7. Purse(r)' /\ Giving(r)'
    <3>1. call'[r].owed \in BOOLEAN
      BY <1>2, <2>6 DEF Purse
    <3> QED
      BY <1>10, <2>4, <2>6, <3>1
  <2>8. InPots' = InPots /\ InPots \in Int
    BY <1>1, TotalsInt DEF Totals, InPots
  <2>9. s + (call'[r].hand - call[r].hand) + (InPots' - InPots) = 0
    BY <1>2, <2>4, <2>6, <2>8
  <2> QED
    BY <2>3, <2>7, <2>8, <2>9, PotBooked
<1>12. CASE UNCHANGED balance /\ ShareOwed(r, i + 1, x)
  <2>1. /\ call'[r].pc = x /\ call'[r].amt = call[r].amt /\ call'[r].hand = call[r].hand
        /\ call'[r].who = call[r].who /\ call'[r].owed = TRUE
        /\ call'[r].arg = i + 1
    BY <1>12, SetShare DEF Frame
  <2>2. Purse(r)' /\ Giving(r)'
    <3>1. call'[r].owed \in BOOLEAN
      BY <2>1
    <3> QED
      BY <1>10, <2>1, <3>1
  <2>3. Credit(Who(r), 0) /\ call'[r].hand = call[r].hand - 0 /\ balance' \in [Member -> Nat]
    BY <1>2, <1>12, <2>1, Stays
  <2>4. Transfers(r)
    BY <2>3 DEF Transfers
  <2> QED
    BY <1>1, <2>2, <2>4, PotRests
<1>13. \/ /\ balance' = [balance EXCEPT ![Needy[Who(r)][i]] = @ + s]
          /\ ShareSet(r, call[r].hand - s, i + 1, x)
       \/ UNCHANGED balance /\ ShareOwed(r, i + 1, x)
  <2>1. \/ /\ balance' = [balance EXCEPT ![Needy[Who(r)][i]] = @ + Share(r, i)]
           /\ call' = [call EXCEPT ![r].hand = @ - Share(r, i), ![r].arg = i + 1,
                       ![r].pc = IF i = n THEN "done" ELSE @]
        \/ /\ UNCHANGED balance
           /\ call' = [call EXCEPT ![r].owed = TRUE, ![r].arg = i + 1,
                       ![r].pc = IF i = n THEN "done" ELSE @]
    BY <1>3, <1>4 DEF GiveShare
  <2> QED
    BY <1>1, <1>6, <1>9, <2>1, GivenRecord DEF Frame
<1> QED
  BY <1>11, <1>12, <1>13

LEMMA PotBooks ==
    ASSUME Known, Known', LedgerInv, Conserved, PotNext,
           UNCHANGED <<storeVars, paidVars, joinVars, offerVars, dailyVars, RecognitionVars>>
    PROVE  LedgerInv' /\ Conserved'
<1> USE DEF Known
<1>1. PICK r \in Req : PotActs(r)
  BY DEF PotNext, PotActs
<1>2. StepOf(r, PotOps)
  BY <1>1, PotStep DEF Frame
<1>3. CASE AddTotal(r) \/ Draw(r) \/ GiveShare(r)
  BY <1>2, <1>3, AddBooks, DrawBooks, ShareBooks
<1>4. CASE GiveDeduct(r)
  BY <1>2, <1>4, GiveStarts, PotRests DEF GiveDeduct, potVars
<1>5. CASE ~(AddTotal(r) \/ Draw(r) \/ GiveShare(r) \/ GiveDeduct(r))
  <2>1. Purse(r)' /\ Giving(r)' /\ Transfers(r)
    BY <1>1, <1>5, DonorPurse
  <2>2. SamePots
    <3>1. CASE PotInsert(r) \/ AddRow(r) \/ CloseCycle(r)
      BY <1>5, <3>1, PotColumns
    <3>2. CASE ~(PotInsert(r) \/ AddRow(r) \/ CloseCycle(r))
      <4>1. UNCHANGED pot
        BY <1>1, <1>5, <3>2 DEF PotActs, PotRead, WithinLimit, PotDeduct, DonateRefund, Console, PotDie,
           potVars
      <4> QED
        BY <4>1 DEF SamePots
    <3> QED
      BY <3>1, <3>2
  <2> QED
    BY <1>2, <2>1, <2>2, PotRests DEF SamePots
<1> QED
  BY <1>3, <1>4, <1>5

---------------------------------------------------------------------------
(* The daily reward.                                                        *)
LEMMA DayRow ==
    ASSUME DailyInv, LedgerInv, NEW m \in Member, NEW day \in FirstDay..today,
           NEW row, row = daily[m] \/ row = [last |-> 0, streak |-> 0]
    PROVE  /\ NextStreak(row, day) \in 1..(day - FirstDay + 2)
           /\ RewardFor[NextStreak(row, day)] \in Nat
<1> DEFINE k == NextStreak(row, day)
<1>1. FirstDay \in Nat /\ FirstDay >= 1 /\ LastDay \in Nat /\ today \in FirstDay..LastDay
  BY DailyAssumption DEF LedgerInv, DayTypes
<1>2. k \in 1..(day - FirstDay + 2)
  <2>1. CASE row = daily[m]
    <3>1. row.streak \in Nat /\ row.last \in Int
          /\ (row.streak > 0 => row.streak <= row.last - FirstDay + 2)
      BY <2>1 DEF DailyInv, RowShape, LedgerInv, DayTypes
    <3> QED
      BY <1>1, <3>1 DEF NextStreak
  <2>2. CASE row = [last |-> 0, streak |-> 0]
    <3>1. row.streak = 0 /\ row.last = 0
      BY <2>2
    <3> QED
      BY <1>1, <3>1 DEF NextStreak
  <2> QED
    BY <2>1, <2>2
<1> HIDE DEF k
<1>3. k \in 1..(LastDay - FirstDay + 2)
  BY <1>1, <1>2
<1>4. RewardFor[k] \in Nat
  BY <1>3, DailyAssumption
<1> QED
  BY <1>2, <1>4 DEF k

LEMMA DaysKeep ==
    ASSUME Known, Known', LedgerInv, Conserved, NEW r \in Req, StepOf(r, {"daily"}),
           UNCHANGED <<storeVars, paidVars, joinVars, offerVars, potVars, RecognitionVars>>,
           UNCHANGED today, DayTypes', Purse(r)', Dated(r)', balance' \in [Member -> Nat],
           NEW b \in Int, Credit(Who(r), b), b + (call'[r].hand - call[r].hand) = minted' - minted
    PROVE  LedgerInv' /\ Conserved'
<1> USE DEF Known
<1>1. /\ UNCHANGED <<grantVars, granted, medal, casts, boosts, application, paidOut>>
      /\ MovesOnly(r) /\ call[r].op = "daily"
  BY DEF RecognitionVars, grantVars, storeVars, paidVars, joinVars, StepOf
<1>2. StepOf(r, PlainOps) /\ call[r].op \notin {"join", "apply", "give"}
  BY <1>1 DEF StepOf, PlainOps
<1>3. \A s \in Req : Dated(s)'
  BY <1>1 DEF MovesOnly, LedgerInv, Dated
<1>4. LedgerInv' /\ \A s \in Req : call'[s].hand \in Int
  BY <1>1, <1>2, <1>3, QuietRewards, QuietJoins, QuietGives, PursesKept DEF LedgerInv
<1>5. call[r].op \notin Sales \cup {"join"}
  BY <1>1 DEF Sales
<1>6. Spent' = Spent /\ HeldByApplications' = HeldByApplications
  BY <1>1, <1>5, NothingBought
<1>7. InPools' = InPools /\ InPots' = InPots
  BY DEF InPools, Pool, offerVars, InPots, potVars
<1>8. Totals \subseteq Int
  BY TotalsInt
<1>9. /\ InPools \in Int /\ InPots \in Int /\ HeldByApplications \in Int /\ Spent \in Int
      /\ minted \in Int /\ paidOut \in Int
  BY <1>8 DEF Totals
<1>10. call[r].hand \in Int /\ call'[r].hand \in Int /\ minted' \in Int /\ Who(r) \in Member
  BY <1>4 DEF LedgerInv, Purse, DayTypes, Who
<1>11. /\ InPools' - InPools = 0 /\ HeldByApplications' - HeldByApplications = 0
       /\ Spent' - Spent = 0 /\ InPots' - InPots = 0 /\ paidOut' - paidOut = 0
  BY <1>1, <1>6, <1>7, <1>9
<1>12. b + (call'[r].hand - call[r].hand) + (InPools' - InPools) + (InPots' - InPots)
             + (HeldByApplications' - HeldByApplications) + (Spent' - Spent)
             = (minted' - minted) + (paidOut' - paidOut)
  BY <1>9, <1>10, <1>11
<1> QED
  BY <1>1, <1>4, <1>6, <1>7, <1>9, <1>10, <1>12, Booked

LEMMA TakenBooks ==
    ASSUME Known, Known', LedgerInv, Conserved, NEW r \in Req, StepOf(r, {"daily"}),
           UNCHANGED <<storeVars, paidVars, joinVars, offerVars, potVars, RecognitionVars>>,
           UNCHANGED <<today, balance, minted>>, call[r].pc \in {"dated", "unlocked"},
           NEW row, row = daily[Who(r)] \/ row = [last |-> 0, streak |-> 0],
           Taken(r, row, call[r].arg)
    PROVE  LedgerInv' /\ Conserved'
<1> USE DEF Known
<1>1. call[r].op = "daily" /\ call'[r].op = "daily"
  BY DEF StepOf, MovesOnly
<1>2. Purse(r) /\ Who(r) \in Member /\ balance \in [Member -> Nat] /\ call[r].hand = 0
  BY <1>1 DEF LedgerInv, Purse, Who, Handless
<1>3. PICK day \in FirstDay..today : day = call[r].arg
  BY <1>1 DEF LedgerInv, Dated
<1>4. PICK k : k = NextStreak(row, day)
  OBVIOUS
<1>5. k \in 1..(day - FirstDay + 2) /\ RewardFor[k] \in Nat
  BY <1>2, <1>3, <1>4, DayRow
<1>6. daily' = [daily EXCEPT ![Who(r)] = [last |-> day, streak |-> k]] /\ AmtSet(r, "taken", RewardFor[k])
  BY <1>3, <1>4 DEF Taken, AmtSet
<1>7. /\ call'[r].pc = "taken" /\ call'[r].amt = RewardFor[k] /\ call'[r].hand = call[r].hand
      /\ call'[r].who = call[r].who /\ call'[r].owed = call[r].owed
  BY <1>6, SetAmt DEF Frame
<1>8. Purse(r)' /\ Dated(r)'
  BY <1>1, <1>2, <1>5, <1>7 DEF Purse, Dated
<1>9. DayTypes'
  <2>1. FirstDay \in Nat /\ today \in FirstDay..LastDay /\ minted \in Nat /\ LastDay \in Nat
    BY DailyAssumption DEF LedgerInv, DayTypes
  <2>2. ASSUME NEW m \in Member, daily'[m].streak > 0
        PROVE  daily'[m].last <= today /\ daily'[m].streak <= daily'[m].last - FirstDay + 2
    <3>1. CASE m = Who(r)
      <4>1. daily'[m] = [last |-> day, streak |-> k]
        BY <1>6, <3>1 DEF DailyInv
      <4>2. daily'[m].last = day /\ daily'[m].streak = k
        BY <4>1
      <4> QED
        BY <1>3, <1>5, <2>1, <4>2
    <3>2. CASE m # Who(r)
      <4>1. daily'[m] = daily[m]
        BY <1>6, <3>2 DEF DailyInv
      <4> QED
        BY <2>2, <4>1 DEF LedgerInv, DayTypes
    <3> QED
      BY <3>1, <3>2
  <2> QED
    BY <2>1, <2>2 DEF DayTypes
<1>10. Credit(Who(r), 0) /\ balance' \in [Member -> Nat] /\ minted \in Int
  BY <1>2, <1>9, Stays DEF DayTypes
<1>11. 0 + (call'[r].hand - call[r].hand) = minted' - minted
  BY <1>2, <1>7, <1>10
<1> QED
  BY <1>8, <1>9, <1>10, <1>11, DaysKeep

LEMMA DayRests ==
    ASSUME Known, Known', LedgerInv, Conserved, NEW r \in Req, StepOf(r, {"daily"}),
           UNCHANGED <<storeVars, paidVars, joinVars, offerVars, potVars, RecognitionVars>>,
           UNCHANGED <<today, daily, minted, balance>>,
           call'[r].hand = call[r].hand, call'[r].amt = call[r].amt, call'[r].who = call[r].who,
           call'[r].owed \in BOOLEAN, call'[r].pc \notin {"charged", "inserted"}, Dated(r)'
    PROVE  LedgerInv' /\ Conserved'
<1> USE DEF Known
<1>1. call[r].op = "daily" /\ call'[r].op = "daily"
  BY DEF StepOf, MovesOnly
<1>2. Purse(r) /\ Who(r) \in Member /\ balance \in [Member -> Nat] /\ call[r].hand = 0 /\ DayTypes
  BY <1>1 DEF LedgerInv, Purse, Who, Handless
<1>3. Purse(r)'
  BY <1>1, <1>2 DEF Purse
<1>4. DayTypes'
  BY <1>2 DEF DayTypes
<1>5. Credit(Who(r), 0) /\ balance' \in [Member -> Nat] /\ minted \in Int
  BY <1>2, Stays DEF DayTypes
<1>6. 0 + (call'[r].hand - call[r].hand) = minted' - minted
  BY <1>2, <1>5
<1> QED
  BY <1>3, <1>4, <1>5, <1>6, DaysKeep

LEMMA DailyBooks ==
    ASSUME Known, Known', LedgerInv, Conserved, DailyNext,
           UNCHANGED <<storeVars, paidVars, joinVars, offerVars, potVars, RecognitionVars>>
    PROVE  LedgerInv' /\ Conserved'
<1> USE DEF Known
<1>1. CASE Midnight
  <2>1. UNCHANGED <<balance, call, application, daily, minted, grants, settling, counted, paidOut,
                    granted, medal, casts, boosts, pot, offer>> /\ today' = today + 1 /\ today < LastDay
    BY <1>1 DEF Midnight, pointsVars, storeVars, paidVars, joinVars, potVars, offerVars,
       RecognitionVars, grantVars
  <2>2. today' \in FirstDay..LastDay /\ FirstDay \in Nat /\ today \in Int
    BY <2>1, DailyAssumption DEF LedgerInv, DayTypes
  <2>3. DayTypes'
    <3>1. ASSUME NEW m \in Member, daily'[m].streak > 0
          PROVE  daily'[m].last <= today' /\ daily'[m].streak <= daily'[m].last - FirstDay + 2
      <4>1. daily[m].last <= today /\ daily[m].streak <= daily[m].last - FirstDay + 2
            /\ daily[m].last \in Int
        BY <2>1, <3>1 DEF LedgerInv, DayTypes, DailyInv, RowShape
      <4> QED
        BY <2>1, <2>2, <4>1
    <3> QED
      BY <2>1, <2>2, <3>1 DEF LedgerInv, DayTypes
  <2>4. GrantTypes'
    BY <2>1 DEF LedgerInv, GrantTypes, Rows, RowsIn
  <2>5. ASSUME NEW s \in Req
        PROVE  Purse(s)' /\ Applying(s)' /\ Joining(s)' /\ Giving(s)' /\ Dated(s)' /\ Scoring(s)' /\ Granting(s)'
    <3>1. Purse(s) /\ Applying(s) /\ Joining(s) /\ Giving(s) /\ Dated(s) /\ Scoring(s) /\ Granting(s)
      BY DEF LedgerInv
    <3>2. Purse(s)' /\ Applying(s)' /\ Joining(s)'
      BY <2>1, <3>1 DEF Purse, Applying, Joining
    <3>3. Giving(s)' /\ Scoring(s)'
      BY <2>1, <3>1 DEF Giving, Scoring, Who, Amt
    <3>4. Granting(s)'
      BY <2>1, <3>1 DEF Granting, Mine, LinesOf
    <3>5. Dated(s)'
      BY <2>1, <2>2, <3>1 DEF Dated
    <3> QED
      BY <3>2, <3>3, <3>4, <3>5
  <2>6. LedgerInv'
    BY <2>1, <2>3, <2>4, <2>5 DEF LedgerInv
  <2>7. /\ InBalances' = InBalances /\ InHand' = InHand /\ InPots' = InPots
        /\ HeldByApplications' = HeldByApplications
    BY <2>1 DEF InBalances, InHand, InPots, HeldByApplications
  <2>8. Spent' = Spent
    BY <2>1 DEF Spent, Bought, At, Amt, Who
  <2>9. InPools' = InPools
    BY <2>1 DEF InPools, Pool
  <2> QED
    BY <2>1, <2>6, <2>7, <2>8, <2>9 DEF Conserved
<1>2. ASSUME NEW r \in Req, DailyActs(r) PROVE LedgerInv' /\ Conserved'
  <2>1. StepOf(r, {"daily"}) /\ call[r].op = "daily" /\ call'[r].op = "daily"
    BY <1>2, DailyStep DEF Frame, StepOf, MovesOnly
  <2>2. Purse(r) /\ Who(r) \in Member /\ balance \in [Member -> Nat] /\ call[r].hand = 0
        /\ Dated(r) /\ DayTypes
    BY <2>1 DEF LedgerInv, Purse, Who, Handless
  <2>3. CASE DailyStart(r)
    <3>1. ArgSet(r, "dated", today) /\ UNCHANGED <<balance, today, daily, minted>>
      BY <2>3 DEF DailyStart, ArgSet, dailyVars
    <3>2. /\ call'[r].pc = "dated" /\ call'[r].arg = today /\ call'[r].amt = call[r].amt
          /\ call'[r].who = call[r].who /\ call'[r].hand = call[r].hand
          /\ call'[r].owed = call[r].owed
      BY <3>1, SetArg DEF Frame
    <3>3. Dated(r)'
      BY <2>2, <3>1, <3>2, DailyAssumption DEF Dated, DayTypes
    <3> QED
      BY <2>1, <2>2, <3>1, <3>2, <3>3, DayRests DEF Purse
  <2>4. ASSUME NEW x \in {"refused", "unlocked", "dead"}, Goto(r, x),
               UNCHANGED <<balance, today, daily, minted>>,
               x = "unlocked" => call[r].pc = "dated"
        PROVE  LedgerInv' /\ Conserved'
    <3>1. /\ call'[r].pc = x /\ call'[r].arg = call[r].arg /\ call'[r].amt = call[r].amt
          /\ call'[r].who = call[r].who /\ call'[r].hand = call[r].hand
          /\ call'[r].owed = call[r].owed
      BY <2>4, GotoMoves DEF Frame
    <3>2. Dated(r)'
      BY <2>1, <2>2, <2>4, <3>1 DEF Dated
    <3> QED
      BY <2>1, <2>2, <2>4, <3>1, <3>2, DayRests DEF Purse
  <2>5. CASE ClaimLocked(r)
    <3>1. call[r].pc = "dated" /\ UNCHANGED <<balance, today, minted>>
      BY <2>5 DEF ClaimLocked, At
    <3> QED
      BY <2>1, <2>4, <2>5, <3>1, TakenBooks DEF ClaimLocked
  <2>6. CASE ClaimUnlocked(r) \/ DailyDie(r)
    BY <2>4, <2>6 DEF ClaimUnlocked, DailyDie, Die, Cut, At, dailyVars
  <2>7. CASE Upsert(r)
    <3>1. call[r].pc = "unlocked" /\ UNCHANGED <<balance, today, minted>>
      BY <2>7 DEF Upsert, At
    <3> QED
      BY <2>1, <2>7, <3>1, TakenBooks DEF Upsert
  <2>8. CASE DailyAward(r)
    <3>1. UNCHANGED <<today, daily>>
      BY <2>8 DEF DailyAward
    <3>2. CASE Goto(r, "done") /\ Credit(Who(r), Amt(r)) /\ minted' = minted + Amt(r)
      <4>1. /\ call'[r].pc = "done" /\ call'[r].amt = call[r].amt
            /\ call'[r].who = call[r].who /\ call'[r].hand = call[r].hand
            /\ call'[r].owed = call[r].owed
        BY <3>2, GotoMoves DEF Frame
      <4>2. Purse(r)' /\ Dated(r)'
        BY <2>1, <2>2, <4>1 DEF Purse, Dated
      <4>3. Amt(r) \in Nat /\ minted \in Nat
        BY <2>2 DEF Purse, Amt, DayTypes
      <4>4. DayTypes'
        BY <2>2, <3>1, <3>2, <4>3 DEF DayTypes
      <4>5. balance' \in [Member -> Nat]
        BY <2>2, <3>2, <4>3 DEF Credit
      <4>6. Amt(r) + (call'[r].hand - call[r].hand) = minted' - minted
        BY <2>2, <3>2, <4>1, <4>3
      <4> QED
        BY <2>1, <3>1, <3>2, <4>2, <4>3, <4>4, <4>5, <4>6, DaysKeep
    <3>3. CASE OwedSet(r, "done", TRUE) /\ UNCHANGED <<balance, minted>>
      <4>1. /\ call'[r].pc = "done" /\ call'[r].owed = TRUE /\ call'[r].amt = call[r].amt
            /\ call'[r].who = call[r].who /\ call'[r].hand = call[r].hand
        BY <3>3, SetOwed DEF Frame
      <4>2. call'[r].owed \in BOOLEAN
        BY <4>1
      <4>3. Dated(r)'
        BY <4>1 DEF Dated
      <4> QED
        BY <2>1, <3>1, <3>3, <4>1, <4>2, <4>3, DayRests
    <3> QED
      BY <2>8, <3>2, <3>3 DEF DailyAward, Credit, OwedSet
  <2> QED
    BY <1>2, <2>3, <2>5, <2>6, <2>7, <2>8 DEF DailyActs
<1> QED
  BY <1>1, <1>2 DEF DailyNext, DailyActs

---------------------------------------------------------------------------
(* Grants: a row changes, or one is added; what it is for stays.            *)
RowSet(i, p) == grants' = [grants EXCEPT ![i] = p]

Stays1(g, h) ==
    h.reward = g.reward /\ h.who = g.who /\ h.ref = g.ref /\ h.mark = g.mark /\ h.units = g.units

GrowsTo(G, H) ==
    /\ DOMAIN G \subseteq DOMAIN H
    /\ \A g \in DOMAIN G : Stays1(G[g], H[g])
GrantsGrow == GrowsTo(grants, grants')

LEMMA KeptIn ==
    ASSUME NEW G, RowsIn(G), NEW i \in DOMAIN G, NEW p \in GrantRow, Stays1(G[i], p), Lined(p),
           NEW H, H = [G EXCEPT ![i] = p]
    PROVE  /\ RowsIn(H) /\ GrowsTo(G, H) /\ DOMAIN H = DOMAIN G /\ H[i] = p
           /\ \A g \in DOMAIN G \ {i} : H[g] = G[g]
<1>1. G \in Seq(GrantRow) /\ i \in 1..Len(G) /\ DOMAIN G = 1..Len(G)
  BY DEF RowsIn
<1>2. /\ H \in Seq(GrantRow) /\ Len(H) = Len(G)
      /\ \A j \in 1..Len(G) : H[j] = IF j = i THEN p ELSE G[j]
  BY <1>1, ExceptSeq
<1>3. DOMAIN H = DOMAIN G
  BY <1>1, <1>2
<1> QED
  BY <1>1, <1>2, <1>3 DEF RowsIn, GrowsTo, Stays1

Added(G, n, p, H) ==
    /\ H \in Seq(GrantRow) /\ DOMAIN H = DOMAIN G \cup {n} /\ n \notin DOMAIN G
    /\ H[n] = p /\ \A g \in DOMAIN G : H[g] = G[g]

LEMMA AppendAdds ==
    ASSUME NEW G, G \in Seq(GrantRow), NEW p \in GrantRow
    PROVE  Added(G, Len(G) + 1, p, Append(G, p))
<1>1. DOMAIN G = 1..Len(G) /\ Len(G) \in Nat
  OBVIOUS
<1>2. /\ Append(G, p) \in Seq(GrantRow) /\ Len(Append(G, p)) = Len(G) + 1
      /\ \A j \in 1..Len(G) : Append(G, p)[j] = G[j]
      /\ Append(G, p)[Len(G) + 1] = p
  BY AppendProperties
<1>3. DOMAIN Append(G, p) = 1..(Len(G) + 1)
  BY <1>2
<1> QED
  BY <1>1, <1>2, <1>3 DEF Added

LEMMA AddedTo ==
    ASSUME NEW G, RowsIn(G), NEW p \in GrantRow, Lined(p), NEW n, NEW H, Added(G, n, p, H)
    PROVE  RowsIn(H) /\ GrowsTo(G, H)
BY DEF Added, RowsIn, GrowsTo, Stays1

LEMMA RowKept ==
    ASSUME Rows, NEW i \in DOMAIN grants, NEW p \in GrantRow, Stays1(grants[i], p), Lined(p),
           RowSet(i, p)
    PROVE  /\ Rows' /\ GrantsGrow /\ DOMAIN grants' = DOMAIN grants /\ grants'[i] = p
           /\ \A g \in DOMAIN grants \ {i} : grants'[g] = grants[g]
BY KeptIn DEF Rows, GrantsGrow, RowSet

LEMMA RowAdded ==
    ASSUME Rows, NEW p \in GrantRow, Lined(p), grants' = Append(grants, p)
    PROVE  /\ Rows' /\ GrantsGrow /\ DOMAIN grants' = DOMAIN grants \cup {Len(grants) + 1}
           /\ Len(grants) + 1 \notin DOMAIN grants /\ grants'[Len(grants) + 1] = p
           /\ \A g \in DOMAIN grants : grants'[g] = grants[g]
<1>1. grants \in Seq(GrantRow) /\ DOMAIN grants = 1..Len(grants) /\ Len(grants) \in Nat
  BY DEF Rows, RowsIn
<1>2. /\ grants' \in Seq(GrantRow) /\ Len(grants') = Len(grants) + 1
      /\ \A j \in 1..Len(grants) : grants'[j] = grants[j]
      /\ grants'[Len(grants) + 1] = p
  BY <1>1, AppendProperties
<1>3. DOMAIN grants' = 1..(Len(grants) + 1)
  BY <1>2
<1> QED
  BY <1>1, <1>2, <1>3 DEF Rows, RowsIn, GrantsGrow, GrowsTo, Stays1

LEMMA NewRow ==
    ASSUME NEW slug \in DOMAIN Reward, NEW m \in Member, NEW ref \in Ref, NEW mark \in Nat,
           NEW units \in Nat
    PROVE  NewGrant(slug, m, ref, mark, units) \in GrantRow /\ Lined(NewGrant(slug, m, ref, mark, units))
<1>1. Reward[slug].lines \in Seq([points : Nat, box : SUBSET DOMAIN Reward])
  BY RewardAssumption
<1>2. [l \in DOMAIN Reward[slug].lines |-> 0] \in Seq(Nat)
  BY <1>1
<1> QED
  BY <1>2 DEF NewGrant, GrantRow, Lined

LEMMA Members ==
    ASSUME NEW S, NEW s \in Seq(S)
    PROVE  DOMAIN s \subseteq Nat /\ \A l \in DOMAIN s : s[l] \in S
OBVIOUS

LEMMA RowFacts ==
    ASSUME Rows, NEW i \in DOMAIN grants
    PROVE  /\ grants[i] \in GrantRow /\ Lined(grants[i])
           /\ grants[i].reward \in DOMAIN Reward /\ grants[i].who \in Member
           /\ grants[i].units \in Nat /\ grants[i].handed \in Seq(Nat)
           /\ grants[i].settled \subseteq Nat /\ i \in Nat
           /\ DOMAIN Reward[grants[i].reward].lines \subseteq Nat
           /\ \A l \in DOMAIN Reward[grants[i].reward].lines :
                 /\ Reward[grants[i].reward].lines[l].points \in Nat
                 /\ Reward[grants[i].reward].lines[l].box \subseteq DOMAIN Reward
<1>1. grants \in Seq(GrantRow) /\ DOMAIN grants = 1..Len(grants)
  BY DEF Rows, RowsIn
<1>2. grants[i] \in GrantRow /\ Lined(grants[i]) /\ i \in Nat
  BY <1>1 DEF Rows, RowsIn
<1>3. /\ grants[i].reward \in DOMAIN Reward /\ grants[i].who \in Member
      /\ grants[i].units \in Nat /\ grants[i].handed \in Seq(Nat) /\ grants[i].settled \subseteq Nat
  BY <1>2 DEF GrantRow
<1>4. Reward[grants[i].reward].lines \in Seq([points : Nat, box : SUBSET DOMAIN Reward])
  BY <1>3, RewardAssumption
<1> DEFINE L == Reward[grants[i].reward].lines
<1>5. L \in Seq([points : Nat, box : SUBSET DOMAIN Reward])
  BY <1>4
<1> HIDE DEF L
<1>6. DOMAIN L \subseteq Nat /\ \A l \in DOMAIN L : L[l] \in [points : Nat, box : SUBSET DOMAIN Reward]
  BY <1>5, Members
<1>7. \A l \in DOMAIN L : L[l].points \in Nat /\ L[l].box \subseteq DOMAIN Reward
  BY <1>6
<1> QED
  BY <1>2, <1>3, <1>6, <1>7 DEF L

(* A line is handed over, or marked; a grant gets another state.            *)
Handed1(g, l) == [g EXCEPT !.handed = [g.handed EXCEPT ![l] = @ + 1]]
Marked1(g, l) == [g EXCEPT !.settled = g.settled \cup {l}]
Stated1(g, s) == [g EXCEPT !.state = s]

LEMMA HandedRow ==
    ASSUME NEW g \in GrantRow, Lined(g), NEW l \in DOMAIN g.handed
    PROVE  /\ Handed1(g, l) \in GrantRow /\ Lined(Handed1(g, l)) /\ Stays1(g, Handed1(g, l))
           /\ Handed1(g, l).state = g.state /\ Handed1(g, l).settled = g.settled
           /\ Handed1(g, l).handed = [g.handed EXCEPT ![l] = @ + 1]
<1> DEFINE h == [g.handed EXCEPT ![l] = @ + 1]
<1>1. g.handed \in Seq(Nat) /\ l \in 1..Len(g.handed)
  BY DEF GrantRow
<1>2. g.handed[l] \in Nat /\ g.handed[l] + 1 \in Nat
  BY <1>1
<1>3. h \in Seq(Nat) /\ DOMAIN h = DOMAIN g.handed
  BY <1>1, <1>2, ExceptSeq
<1> HIDE DEF h
<1>4. Handed1(g, l) = [g EXCEPT !.handed = h]
  BY DEF Handed1, h
<1>5. /\ Handed1(g, l) \in GrantRow /\ Handed1(g, l).handed = h
      /\ Handed1(g, l).state = g.state /\ Handed1(g, l).settled = g.settled
      /\ Stays1(g, Handed1(g, l))
  BY <1>3, <1>4 DEF GrantRow, Stays1
<1>6. Lined(Handed1(g, l))
  BY <1>3, <1>5 DEF Lined, Stays1
<1> QED
  BY <1>5, <1>6 DEF h

LEMMA MarkedRow ==
    ASSUME NEW g \in GrantRow, Lined(g), NEW l \in DOMAIN g.handed
    PROVE  /\ Marked1(g, l) \in GrantRow /\ Lined(Marked1(g, l)) /\ Stays1(g, Marked1(g, l))
           /\ Marked1(g, l).state = g.state /\ Marked1(g, l).handed = g.handed
           /\ Marked1(g, l).settled = g.settled \cup {l}
<1>1. g.handed \in Seq(Nat) /\ l \in Nat /\ g.settled \cup {l} \subseteq Nat
  BY DEF GrantRow
<1>2. /\ Marked1(g, l) \in GrantRow /\ Stays1(g, Marked1(g, l))
      /\ Marked1(g, l).state = g.state /\ Marked1(g, l).handed = g.handed
      /\ Marked1(g, l).settled = g.settled \cup {l}
  BY <1>1 DEF Marked1, GrantRow, Stays1
<1>3. Lined(Marked1(g, l))
  BY <1>2 DEF Lined, Stays1
<1> QED
  BY <1>2, <1>3

LEMMA StatedRow ==
    ASSUME NEW g \in GrantRow, Lined(g), NEW s \in {"pending", "credited", "expired"}
    PROVE  /\ Stated1(g, s) \in GrantRow /\ Lined(Stated1(g, s)) /\ Stays1(g, Stated1(g, s))
           /\ Stated1(g, s).state = s /\ Stated1(g, s).handed = g.handed
           /\ Stated1(g, s).settled = g.settled
<1>1. /\ Stated1(g, s) \in GrantRow /\ Stays1(g, Stated1(g, s))
      /\ Stated1(g, s).state = s /\ Stated1(g, s).handed = g.handed
      /\ Stated1(g, s).settled = g.settled
  BY DEF Stated1, GrantRow, Stays1
<1>2. Lined(Stated1(g, s))
  BY <1>1 DEF Lined, Stays1
<1> QED
  BY <1>1, <1>2

---------------------------------------------------------------------------
(* What a request settles.                                                  *)
SettlingSet(r, i, L) == settling' = [settling EXCEPT ![r] = [grant |-> i, lines |-> L]]

LEMMA SetSettling ==
    ASSUME LedgerInv, NEW r \in Req, NEW i, NEW L, SettlingSet(r, i, L)
    PROVE  /\ settling' = [s \in Req |-> settling'[s]]
           /\ settling'[r] = [grant |-> i, lines |-> L]
           /\ \A s \in Req \ {r} : settling'[s] = settling[s]
BY DEF LedgerInv, GrantTypes, SettlingSet

(* A step of the reward engine or of achievements keeps the rest of the     *)
(* ledger, and credits what it says it paid.                                *)
LEMMA RewardKeep ==
    ASSUME Known, Known', LedgerInv, Conserved, NEW r \in Req, call[r].op \in RewardOps, MovesOnly(r),
           UNCHANGED <<storeVars, paidVars, joinVars, offerVars, potVars, dailyVars>>,
           Rows', GrantsGrow, counted' \in [Member -> Nat],
           settling' = [s \in Req |-> settling'[s]], \A s \in Req \ {r} : settling'[s] = settling[s],
           Granting(r)', Scoring(r)',
           call'[r].who \in Member, call'[r].amt \in Nat, call'[r].hand = 0, call'[r].owed \in BOOLEAN,
           call'[r].pc \notin {"charged", "inserted"},
           NEW m \in Member, NEW b \in Nat, Credit(m, b), paidOut' = paidOut + b
    PROVE  LedgerInv' /\ Conserved'
<1> USE DEF Known
<1>1. /\ UNCHANGED <<granted, medal, casts, boosts, application, minted, today, daily>>
      /\ call'[r].op = call[r].op
  BY DEF storeVars, paidVars, joinVars, dailyVars, MovesOnly
<1>2. call[r].op \notin {"join", "apply", "give", "daily"} \cup Sales
  BY DEF RewardOps, Job, Sales
<1>3. Purse(r)' /\ Purse(r) /\ call[r].hand = 0
  <2>1. call[r].op \in Handless
    BY DEF Handless
  <2> QED
    BY <1>1, <2>1 DEF LedgerInv, Purse
<1>4. paidOut \in Nat /\ paidOut' \in Nat /\ balance \in [Member -> Nat]
  BY DEF LedgerInv, GrantTypes
<1>5. GrantTypes'
  BY <1>4 DEF GrantTypes
<1>6. \A s \in Req : Granting(s)' /\ Scoring(s)'
  <2>1. ASSUME NEW s \in Req, s # r PROVE Granting(s)' /\ Scoring(s)'
    <3>1. call'[s] = call[s] /\ settling'[s] = settling[s] /\ Granting(s) /\ Scoring(s)
      BY <2>1 DEF MovesOnly, LedgerInv
    <3>2. Scoring(s)'
      BY <3>1 DEF Scoring
    <3>3. Mine(s)' = Mine(s)
      BY <3>1 DEF Mine
    <3>4. Mine(s) \in DOMAIN grants => Mine(s) \in DOMAIN grants' /\ LinesOf(Mine(s))' = LinesOf(Mine(s))
      BY <3>3 DEF GrantsGrow, GrowsTo, Stays1, LinesOf
    <3>5. call[s].pc \in {"lines", "mark"} => call[s].pc \in Settling
      BY DEF Settling
    <3>6. Granting(s)'
      BY <3>1, <3>3, <3>4, <3>5 DEF Granting
    <3> QED
      BY <3>2, <3>6
  <2> QED
    BY <2>1
<1>7. balance' \in [Member -> Nat]
  BY <1>4 DEF Credit
<1>8. LedgerInv' /\ \A s \in Req : call'[s].hand \in Int
  BY <1>1, <1>2, <1>3, <1>5, <1>6, <1>7, QuietDays, QuietJoins, QuietGives, PursesKept DEF LedgerInv
<1>9. Spent' = Spent /\ HeldByApplications' = HeldByApplications
  BY <1>1, <1>2, NothingBought
<1>10. InPools' = InPools /\ InPots' = InPots
  BY DEF InPools, Pool, offerVars, InPots, potVars
<1>11. Totals \subseteq Int
  BY TotalsInt
<1>12. /\ InPools \in Int /\ InPots \in Int /\ HeldByApplications \in Int /\ Spent \in Int
       /\ minted \in Int /\ paidOut \in Int
  BY <1>11 DEF Totals
<1>13. /\ InPools' - InPools = 0 /\ HeldByApplications' - HeldByApplications = 0
       /\ Spent' - Spent = 0 /\ InPots' - InPots = 0 /\ minted' - minted = 0
       /\ paidOut' - paidOut = b /\ call'[r].hand - call[r].hand = 0
  BY <1>1, <1>3, <1>4, <1>9, <1>10, <1>12
<1>14. b + (call'[r].hand - call[r].hand) + (InPools' - InPools) + (InPots' - InPots)
             + (HeldByApplications' - HeldByApplications) + (Spent' - Spent)
             = (minted' - minted) + (paidOut' - paidOut)
  BY <1>13
<1> QED
  BY <1>1, <1>4, <1>7, <1>8, <1>9, <1>10, <1>12, <1>14, Booked

(* A request of the reward engine goes on, with what it settles.            *)
Goes(r, x) ==
    /\ MovesOnly(r)
    /\ call'[r].pc = x /\ call'[r].op = call[r].op /\ call'[r].arg = call[r].arg
    /\ call'[r].who = call[r].who /\ call'[r].amt = call[r].amt /\ call'[r].hand = call[r].hand
    /\ call'[r].owed \in BOOLEAN

LEMMA GotoGoes ==
    ASSUME Frame, LedgerInv, NEW r \in Req, NEW x, Goto(r, x)
    PROVE  Goes(r, x) /\ call'[r].owed = call[r].owed
<1>1. call[r].owed \in BOOLEAN
  BY DEF LedgerInv, Purse
<1>2. /\ MovesOnly(r)
      /\ call'[r].pc = x /\ call'[r].op = call[r].op /\ call'[r].arg = call[r].arg
      /\ call'[r].who = call[r].who /\ call'[r].amt = call[r].amt /\ call'[r].hand = call[r].hand
      /\ call'[r].owed = call[r].owed
  BY GotoMoves DEF Frame, MovesOnly
<1> QED
  BY <1>1, <1>2 DEF Goes

LEMMA OwedGoes ==
    ASSUME Frame, NEW r \in Req, NEW x, OwedSet(r, x, TRUE)
    PROVE  Goes(r, x) /\ call'[r].owed = TRUE
<1>1. MovesOnly(r)
  BY DEF OwedSet, MovesOnly, Frame, Shaped, IsCall, Fields
<1>2. /\ call'[r].pc = x /\ call'[r].op = call[r].op /\ call'[r].arg = call[r].arg
      /\ call'[r].who = call[r].who /\ call'[r].amt = call[r].amt /\ call'[r].hand = call[r].hand
      /\ call'[r].owed = TRUE
  BY SetOwed DEF Frame
<1>3. call'[r].owed \in BOOLEAN
  BY <1>2
<1> QED
  BY <1>1, <1>2, <1>3 DEF Goes

Elsewhere == UNCHANGED <<storeVars, paidVars, joinVars, offerVars, potVars, dailyVars>>

LEMMA RewardGoes ==
    ASSUME Known, Known', LedgerInv, Conserved, NEW r \in Req, call[r].op \in RewardOps, Elsewhere,
           NEW x, Goes(r, x), x \notin {"charged", "inserted", "owed"},
           call[r].op = Job => call[r].pc # "start" \/ x = "start",
           Rows', GrantsGrow, counted' \in [Member -> Nat],
           NEW i, NEW L, settling' = [s \in Req |-> settling'[s]],
           settling'[r] = [grant |-> i, lines |-> L],
           \A s \in Req \ {r} : settling'[s] = settling[s],
           x \in Settling => i \in DOMAIN grants',
           x \in {"lines", "mark"} => L \subseteq LinesOf(i)',
           x = "mark" => L # {},
           NEW m \in Member, NEW b \in Nat, Credit(m, b), paidOut' = paidOut + b
    PROVE  LedgerInv' /\ Conserved'
<1>1. Purse(r) /\ Granting(r) /\ Scoring(r)
  BY DEF LedgerInv
<1>2. call[r].hand = 0 /\ call[r].who \in Member /\ call[r].amt \in Nat
  BY <1>1 DEF Purse, Handless
<1>3. /\ call'[r].who \in Member /\ call'[r].amt \in Nat /\ call'[r].hand = 0
      /\ call'[r].owed \in BOOLEAN /\ call'[r].pc \notin {"charged", "inserted"} /\ MovesOnly(r)
  BY <1>2 DEF Goes
<1>4. Scoring(r)'
  BY <1>1 DEF Scoring, Goes
<1>5. Mine(r)' = i /\ settling'[r].grant = i /\ settling'[r].lines = L
  BY DEF Mine
<1>6. Granting(r)'
  BY <1>1, <1>5 DEF Granting, Goes, LinesOf
<1> QED
  BY <1>3, <1>4, <1>6, RewardKeep DEF Elsewhere

LEMMA SameRows == ASSUME LedgerInv, UNCHANGED grants PROVE Rows /\ Rows' /\ GrantsGrow
BY DEF LedgerInv, GrantTypes, Rows, RowsIn, GrantsGrow, GrowsTo, Stays1

LEMMA SameSettling ==
    ASSUME LedgerInv, UNCHANGED settling
    PROVE  /\ settling' = [s \in Req |-> settling'[s]]
           /\ \A s \in Req : settling'[s] = [grant |-> settling[s].grant, lines |-> settling[s].lines]
           /\ \A s \in Req : settling'[s] = settling[s]
BY DEF LedgerInv, GrantTypes, Granting

LEMMA Credit0 == ASSUME LedgerInv, UNCHANGED <<balance, paidOut>>, NEW m PROVE Credit(m, 0) /\ paidOut' = paidOut + 0
BY Stays DEF LedgerInv, GrantTypes

(* A request goes on, and no grant changes.                                 *)
LEMMA RewardRests ==
    ASSUME Known, Known', LedgerInv, Conserved, NEW r \in Req, call[r].op \in RewardOps, Elsewhere,
           NEW x, Goes(r, x), x \notin {"charged", "inserted", "owed"} \cup Settling,
           call[r].op = Job => call[r].pc # "start" \/ x = "start",
           UNCHANGED <<balance, paidOut, grants, settling>>, counted' \in [Member -> Nat]
    PROVE  LedgerInv' /\ Conserved'
<1>1. Rows' /\ GrantsGrow
  BY SameRows
<1>2. /\ settling' = [s \in Req |-> settling'[s]]
      /\ settling'[r] = [grant |-> settling[r].grant, lines |-> settling[r].lines]
      /\ \A s \in Req \ {r} : settling'[s] = settling[s]
  BY SameSettling
<1>3. call[r].who \in Member /\ Credit(call[r].who, 0) /\ paidOut' = paidOut + 0
  BY Credit0 DEF LedgerInv, Purse
<1>4. x \notin {"lines", "mark"} /\ x # "mark"
  BY DEF Settling
<1> QED
  BY <1>1, <1>2, <1>3, <1>4, RewardGoes

LEMMA InsertRows ==
    ASSUME Known, LedgerInv, NEW r \in Req,
           NEW slug \in DOMAIN Reward, NEW ref \in Ref, NEW mark \in Nat, NEW units \in Nat,
           Insert(r, slug, ref, mark, units)
    PROVE  \/ /\ ~Held(slug, Who(r), ref)
              /\ grants' = Append(grants, NewGrant(slug, Who(r), ref, mark, units))
              /\ SettlingSet(r, Len(grants) + 1, {})
              /\ Goto(r, "read") \/ Goto(r, "granted")
              /\ Rows' /\ GrantsGrow /\ Len(grants) + 1 \in DOMAIN grants'
           \/ /\ Goto(r, "ungranted") \/ (Goto(r, "granted") /\ Held(slug, Who(r), ref))
              /\ UNCHANGED <<grants, settling>>
<1>1. Rows /\ Who(r) \in Member
  BY DEF LedgerInv, GrantTypes, Purse, Who
<1>2. CASE /\ ~Held(slug, Who(r), ref)
           /\ grants' = Append(grants, NewGrant(slug, Who(r), ref, mark, units))
           /\ settling' = [settling EXCEPT ![r] = [grant |-> Len(grants) + 1, lines |-> {}]]
           /\ Goto(r, IF Reward[slug].delivery = "auto" THEN "read" ELSE "granted")
  <2> DEFINE p == NewGrant(slug, Who(r), ref, mark, units)
  <2>1. p \in GrantRow /\ Lined(p)
    BY <1>1, NewRow
  <2>2. grants' = Append(grants, p)
    BY <1>2
  <2>3. Rows' /\ GrantsGrow /\ Len(grants) + 1 \in DOMAIN grants'
    <3> HIDE DEF p
    <3> QED
      BY <1>1, <2>1, <2>2, RowAdded
  <2>4. Goto(r, "read") \/ Goto(r, "granted")
    BY <1>2
  <2> QED
    BY <1>2, <2>3, <2>4 DEF SettlingSet
<1>3. CASE /\ \/ Held(slug, Who(r), ref) /\ NoFault /\ Goto(r, "granted")
              \/ Fault /\ Goto(r, "ungranted")
           /\ UNCHANGED <<grants, settling>>
  BY <1>3
<1> QED
  BY <1>2, <1>3 DEF Insert

LEMMA InsertBooks ==
    ASSUME Known, Known', LedgerInv, Conserved, NEW r \in Req, call[r].op \in RewardOps, Elsewhere,
           call[r].op = Job => call[r].pc # "start",
           NEW slug \in DOMAIN Reward, NEW ref \in Ref, NEW mark \in Nat, NEW units \in Nat,
           Insert(r, slug, ref, mark, units), UNCHANGED <<balance, counted, paidOut>>
    PROVE  LedgerInv' /\ Conserved'
<1>1. counted' \in [Member -> Nat]
  BY DEF LedgerInv, GrantTypes
<1>2. CASE /\ SettlingSet(r, Len(grants) + 1, {})
           /\ Goto(r, "read") \/ Goto(r, "granted")
           /\ Rows' /\ GrantsGrow /\ Len(grants) + 1 \in DOMAIN grants'
  <2> DEFINE i == Len(grants) + 1
  <2>1. /\ settling' = [s \in Req |-> settling'[s]]
        /\ settling'[r] = [grant |-> i, lines |-> {}]
        /\ \A s \in Req \ {r} : settling'[s] = settling[s]
    BY <1>2, SetSettling
  <2>2. PICK x \in {"read", "granted"} : Goes(r, x)
    BY <1>2, GotoGoes DEF Known
  <2>3. call[r].who \in Member /\ Credit(call[r].who, 0) /\ paidOut' = paidOut + 0
    BY Credit0 DEF LedgerInv, Purse
  <2>4. i \in DOMAIN grants'
    BY <1>2
  <2> HIDE DEF i
  <2>5. PICK j : j = i
    OBVIOUS
  <2> QED
    BY <1>1, <1>2, <2>1, <2>2, <2>3, <2>4, <2>5, RewardGoes
<1>3. CASE /\ Goto(r, "ungranted") \/ Goto(r, "granted")
           /\ UNCHANGED <<grants, settling>>
  <2>1. PICK x \in {"ungranted", "granted"} : Goes(r, x)
    BY <1>3, GotoGoes DEF Known
  <2>2. x \notin Settling
    BY DEF Settling
  <2> QED
    BY <1>1, <1>3, <2>1, <2>2, RewardRests
<1> QED
  BY <1>2, <1>3, InsertRows

---------------------------------------------------------------------------
(* Settling.                                                                *)
LEMMA MinIn == ASSUME NEW S, S \subseteq Nat, S # {} PROVE Min(S) \in S
BY LeastOf DEF Min

LEMMA HandedSet ==
    ASSUME NEW i, NEW l, grants' = [grants EXCEPT ![i].handed[l] = @ + 1]
    PROVE  RowSet(i, Handed1(grants[i], l))
BY DEF RowSet, Handed1

LEMMA MarkedSet ==
    ASSUME NEW i, NEW l, grants' = [grants EXCEPT ![i].settled = @ \cup {l}]
    PROVE  RowSet(i, Marked1(grants[i], l))
BY DEF RowSet, Marked1

LEMMA StatedSet ==
    ASSUME NEW i, grants' = [grants EXCEPT ![i].state = IF Creditable(@) THEN "credited" ELSE @]
    PROVE  RowSet(i, Stated1(grants[i], IF Creditable(grants[i].state) THEN "credited" ELSE grants[i].state))
BY DEF RowSet, Stated1

LEMMA LinesLeft ==
    ASSUME Rows, NEW i \in DOMAIN grants, NEW L \in SUBSET LinesOf(i), L # {}
    PROVE  Min(L) \in LinesOf(i) /\ Min(L) \in L /\ Min(L) \in DOMAIN grants[i].handed
<1>1. LinesOf(i) \subseteq Nat /\ DOMAIN grants[i].handed = LinesOf(i)
  BY RowFacts DEF LinesOf, Lined
<1>2. Min(L) \in L
  BY <1>1, MinIn
<1> QED
  BY <1>1, <1>2

(* What a request that settles has before it.                               *)
LEMMA AtSettling ==
    ASSUME LedgerInv, NEW r \in Req, call[r].pc \in Settling
    PROVE  /\ Rows /\ Mine(r) \in DOMAIN grants /\ Mine(r) = settling[r].grant
           /\ settling[r] = [grant |-> settling[r].grant, lines |-> settling[r].lines]
           /\ call[r].pc \in {"lines", "mark"} => settling[r].lines \in SUBSET LinesOf(Mine(r))
           /\ call[r].pc = "mark" => settling[r].lines # {}
           /\ settling = [s \in Req |-> settling[s]]
BY DEF LedgerInv, GrantTypes, Granting, Mine

(* What becomes of the settlement: another set of lines, or the same.       *)
LEMMA LinesSet ==
    ASSUME LedgerInv, NEW r \in Req, call[r].pc \in Settling, NEW L,
           settling' = [settling EXCEPT ![r].lines = L]
    PROVE  SettlingSet(r, Mine(r), L)
<1>1. /\ Mine(r) = settling[r].grant
      /\ settling[r] = [grant |-> settling[r].grant, lines |-> settling[r].lines]
  BY AtSettling
<1>2. [settling[r] EXCEPT !.lines = L] = [grant |-> settling[r].grant, lines |-> L]
  BY <1>1
<1> QED
  BY <1>1, <1>2 DEF SettlingSet

LEMMA ReadBooks ==
    ASSUME Known, Known', LedgerInv, Conserved, NEW r \in Req, Elsewhere, SettleRead(r)
    PROVE  LedgerInv' /\ Conserved'
<1>1. call[r].pc = "read" /\ UNCHANGED <<balance, grants, counted, paidOut>>
  BY DEF SettleRead
<1>2. call[r].pc \in Settling /\ call[r].op \in RewardOps
  BY <1>1 DEF Settling, Known, Frame, SettlersOnly
<1>3. PICK i : i = Mine(r)
  OBVIOUS
<1>4. Rows /\ i \in DOMAIN grants
  BY <1>2, <1>3, AtSettling
<1>5. Rows' /\ GrantsGrow /\ counted' \in [Member -> Nat]
  BY <1>1, SameRows DEF LedgerInv, GrantTypes
<1>6. call[r].who \in Member /\ Credit(call[r].who, 0) /\ paidOut' = paidOut + 0
  BY <1>1, Credit0 DEF LedgerInv, Purse
<1>7. ASSUME NEW x \in {"lines", "granted", "failed"}, Goto(r, x),
             settling' = [settling EXCEPT ![r].lines = DOMAIN grants[i].handed \ grants[i].settled]
      PROVE  LedgerInv' /\ Conserved'
  <2>1. PICK L : L = DOMAIN grants[i].handed \ grants[i].settled
    OBVIOUS
  <2>2. SettlingSet(r, i, L)
    BY <1>2, <1>3, <1>7, <2>1, LinesSet
  <2>3. /\ settling' = [s \in Req |-> settling'[s]]
        /\ settling'[r] = [grant |-> i, lines |-> L]
        /\ \A s \in Req \ {r} : settling'[s] = settling[s]
    BY <2>2, SetSettling
  <2>4. i \in DOMAIN grants' /\ L \subseteq LinesOf(i)'
    <3>1. LinesOf(i)' = LinesOf(i)
      BY <1>1 DEF LinesOf
    <3>2. DOMAIN grants[i].handed = LinesOf(i)
      BY <1>4, RowFacts DEF Lined, LinesOf
    <3> QED
      BY <1>1, <1>4, <2>1, <3>1, <3>2
  <2>5. Goes(r, x)
    BY <1>7, GotoGoes DEF Known
  <2> QED
    BY <1>1, <1>2, <1>5, <1>6, <2>3, <2>4, <2>5, RewardGoes
<1>8. CASE Goto(r, "failed") /\ UNCHANGED settling
  <2>1. Goes(r, "failed") /\ "failed" \notin Settling
    BY <1>8, GotoGoes DEF Known, Settling
  <2> QED
    BY <1>1, <1>2, <1>5, <1>8, <2>1, RewardRests
<1>9. \/ \E x \in {"lines", "granted", "failed"} :
            Goto(r, x) /\ settling' = [settling EXCEPT ![r].lines = DOMAIN grants[i].handed \ grants[i].settled]
      \/ Goto(r, "failed") /\ UNCHANGED settling
  BY <1>3 DEF SettleRead
<1> QED
  BY <1>7, <1>8, <1>9

(* A payout that is executed hands its line over; a lootbox may add a grant *)
(* of its prize.                                                            *)
PaidOver(r, i, l) ==
    /\ Rows' /\ GrantsGrow /\ grants'[i] = Handed1(grants[i], l)
    /\ \A g \in DOMAIN grants \ {i} : grants'[g] = grants[g]
    /\ \A g \in DOMAIN grants' \ DOMAIN grants : \E prize \in DOMAIN Reward :
          grants'[g] = NewGrant(prize, grants[i].who, <<"box", i, l>>, 0, 1)
    /\ Goto(r, "mark")
    /\ \E b \in Nat : Credit(grants[i].who, b) /\ paidOut' = paidOut + b

LEMMA PayRows ==
    ASSUME LedgerInv, NEW r \in Req, PayLine(r), NEW i, i = Mine(r), NEW l, l = Min(settling[r].lines)
    PROVE  /\ Rows /\ i \in DOMAIN grants /\ l \in settling[r].lines /\ l \in DOMAIN grants[i].handed
           /\ settling[r].lines \subseteq LinesOf(i)
           /\ \/ PaidOver(r, i, l)
              \/ UNCHANGED <<balance, paidOut, grants>> /\ OwedSet(r, "failed", TRUE)
<1>1. call[r].pc = "lines" /\ settling[r].lines # {}
  BY DEF PayLine
<1>2. call[r].pc \in Settling
  BY <1>1 DEF Settling
<1>3. Rows /\ i \in DOMAIN grants /\ settling[r].lines \in SUBSET LinesOf(i)
  BY <1>1, <1>2, AtSettling
<1>4. l \in LinesOf(i) /\ l \in settling[r].lines /\ l \in DOMAIN grants[i].handed
  BY <1>1, <1>3, LinesLeft
<1>5. PICK g : g = grants[i]
  OBVIOUS
<1>6. PICK line : line = Reward[g.reward].lines[l]
  OBVIOUS
<1>7. /\ g \in GrantRow /\ Lined(g) /\ g.who \in Member /\ g.units \in Nat /\ i \in Nat
      /\ line.points \in Nat /\ line.box \subseteq DOMAIN Reward /\ l \in Nat
  BY <1>3, <1>4, <1>5, <1>6, RowFacts DEF LinesOf
<1>8. PICK p : p = Handed1(g, l)
  OBVIOUS
<1>9. p \in GrantRow /\ Lined(p) /\ Stays1(g, p)
  BY <1>4, <1>5, <1>7, <1>8, HandedRow
<1>10. PICK G : G = [grants EXCEPT ![i] = p]
  OBVIOUS
<1>11. /\ RowsIn(G) /\ GrowsTo(grants, G) /\ DOMAIN G = DOMAIN grants /\ G[i] = p
       /\ \A h \in DOMAIN grants \ {i} : G[h] = grants[h]
  BY <1>3, <1>5, <1>9, <1>10, KeptIn DEF Rows
<1>12. [grants EXCEPT ![i].handed[l] = @ + 1] = G
  BY <1>5, <1>8, <1>10 DEF Handed1
<1>13. CASE /\ balance' = [balance EXCEPT ![g.who] = @ + line.points * g.units]
            /\ paidOut' = paidOut + line.points * g.units
            /\ grants' = G
            /\ Goto(r, "mark")
  <2>1. PICK b \in Nat : b = line.points * g.units
    BY <1>7
  <2>2. Credit(g.who, b) /\ paidOut' = paidOut + b
    BY <1>13, <2>1 DEF Credit
  <2>3. Rows' /\ GrantsGrow
    BY <1>11, <1>13 DEF Rows, GrantsGrow
  <2>4. DOMAIN grants' \ DOMAIN grants = {}
    BY <1>11, <1>13
  <2> QED
    BY <1>3, <1>4, <1>5, <1>8, <1>11, <1>13, <2>2, <2>3, <2>4 DEF PaidOver
<1>14. ASSUME NEW prize \in line.box,
              grants' = IF Held(prize, g.who, <<"box", i, l>>) THEN G
                        ELSE Append(G, NewGrant(prize, g.who, <<"box", i, l>>, 0, 1)),
              Goto(r, "mark"), UNCHANGED <<balance, paidOut>>
       PROVE  /\ Rows' /\ GrantsGrow /\ grants'[i] = p
              /\ \A h \in DOMAIN grants \ {i} : grants'[h] = grants[h]
              /\ \A h \in DOMAIN grants' \ DOMAIN grants :
                       grants'[h] = NewGrant(prize, g.who, <<"box", i, l>>, 0, 1)
  <2>1. CASE grants' = G
    BY <1>11, <2>1 DEF Rows, GrantsGrow
  <2>2. CASE grants' = Append(G, NewGrant(prize, g.who, <<"box", i, l>>, 0, 1))
    <3>1. PICK q : q = NewGrant(prize, g.who, <<"box", i, l>>, 0, 1)
      OBVIOUS
    <3>2. <<"box", i, l>> \in Ref /\ prize \in DOMAIN Reward
      BY <1>7 DEF Ref
    <3>3. q \in GrantRow /\ Lined(q)
      BY <1>7, <3>1, <3>2, NewRow
    <3>4. PICK H : H = grants'
      OBVIOUS
    <3>5. PICK n : Added(G, n, q, H)
      <4>1. H = Append(G, q) /\ G \in Seq(GrantRow)
        BY <1>11, <2>2, <3>1, <3>4 DEF RowsIn
      <4> QED
        BY <3>3, <4>1, AppendAdds
    <3>6. RowsIn(H) /\ GrowsTo(G, H)
      BY <1>11, <3>3, <3>5, AddedTo
    <3>7. GrowsTo(grants, H)
      BY <1>11, <3>6 DEF GrowsTo, Stays1
    <3>8. Rows' /\ GrantsGrow
      BY <3>4, <3>6, <3>7 DEF Rows, GrantsGrow
    <3>9. /\ H[i] = p /\ \A h \in DOMAIN grants \ {i} : H[h] = grants[h]
          /\ \A h \in DOMAIN H \ DOMAIN grants : H[h] = q
      BY <1>3, <1>11, <3>5 DEF Added
    <3> QED
      BY <3>1, <3>4, <3>8, <3>9
  <2> QED
    BY <1>14, <2>1, <2>2
<1>15. CASE \E prize \in line.box :
              /\ grants' = IF Held(prize, g.who, <<"box", i, l>>) THEN G
                           ELSE Append(G, NewGrant(prize, g.who, <<"box", i, l>>, 0, 1))
              /\ Goto(r, "mark") /\ UNCHANGED <<balance, paidOut>>
  <2>1. PICK prize \in line.box :
              /\ grants' = IF Held(prize, g.who, <<"box", i, l>>) THEN G
                           ELSE Append(G, NewGrant(prize, g.who, <<"box", i, l>>, 0, 1))
              /\ Goto(r, "mark") /\ UNCHANGED <<balance, paidOut>>
    BY <1>15
  <2>2. prize \in DOMAIN Reward /\ Credit(g.who, 0) /\ paidOut' = paidOut + 0 /\ 0 \in Nat
    BY <1>7, <2>1, Credit0
  <2>3. /\ Rows' /\ GrantsGrow /\ grants'[i] = p
        /\ \A h \in DOMAIN grants \ {i} : grants'[h] = grants[h]
        /\ \A h \in DOMAIN grants' \ DOMAIN grants :
                       grants'[h] = NewGrant(prize, g.who, <<"box", i, l>>, 0, 1)
    BY <1>14, <2>1
  <2> QED
    BY <1>3, <1>4, <1>5, <1>8, <2>1, <2>2, <2>3 DEF PaidOver
<1>16. CASE UNCHANGED <<balance, paidOut, grants>> /\ OwedSet(r, "failed", TRUE)
  BY <1>3, <1>4, <1>16
<1>17. \/ /\ balance' = [balance EXCEPT ![g.who] = @ + line.points * g.units]
          /\ paidOut' = paidOut + line.points * g.units
          /\ grants' = G
          /\ Goto(r, "mark")
       \/ \E prize \in line.box :
              /\ grants' = IF Held(prize, g.who, <<"box", i, l>>) THEN G
                           ELSE Append(G, NewGrant(prize, g.who, <<"box", i, l>>, 0, 1))
              /\ Goto(r, "mark") /\ UNCHANGED <<balance, paidOut>>
       \/ UNCHANGED <<balance, paidOut, grants>> /\ OwedSet(r, "failed", TRUE)
  BY <1>5, <1>6, <1>12 DEF PayLine, OwedSet, AfterFailure
<1> QED
  BY <1>13, <1>15, <1>16, <1>17

LEMMA PayBooks ==
    ASSUME Known, Known', LedgerInv, Conserved, NEW r \in Req, Elsewhere, PayLine(r)
    PROVE  LedgerInv' /\ Conserved'
<1>1. call[r].pc = "lines" /\ settling[r].lines # {} /\ UNCHANGED <<settling, counted>>
  BY DEF PayLine
<1>2. call[r].pc \in Settling /\ call[r].op \in RewardOps
  BY <1>1 DEF Settling, Known, Frame, SettlersOnly
<1>3. PICK i : i = Mine(r)
  OBVIOUS
<1>4. PICK l : l = Min(settling[r].lines)
  OBVIOUS
<1>5. PICK L : L = settling[r].lines
  OBVIOUS
<1>6. /\ Rows /\ i \in DOMAIN grants /\ L \subseteq LinesOf(i)
      /\ \/ /\ Rows' /\ GrantsGrow /\ Goto(r, "mark")
            /\ \E b \in Nat : Credit(grants[i].who, b) /\ paidOut' = paidOut + b
         \/ UNCHANGED <<balance, paidOut, grants>> /\ OwedSet(r, "failed", TRUE)
  BY <1>3, <1>4, <1>5, PayRows DEF PaidOver
<1>7. /\ settling' = [s \in Req |-> settling'[s]]
      /\ settling'[r] = [grant |-> i, lines |-> L]
      /\ \A s \in Req \ {r} : settling'[s] = settling[s]
  BY <1>1, <1>3, <1>5, SameSettling DEF Mine
<1>8. counted' \in [Member -> Nat]
  BY <1>1 DEF LedgerInv, GrantTypes
<1>9. CASE /\ Rows' /\ GrantsGrow /\ Goto(r, "mark")
           /\ \E b \in Nat : Credit(grants[i].who, b) /\ paidOut' = paidOut + b
  <2>1. Goes(r, "mark")
    BY <1>9, GotoGoes DEF Known
  <2>2. PICK b \in Nat : Credit(grants[i].who, b) /\ paidOut' = paidOut + b
    BY <1>9
  <2>3. i \in DOMAIN grants' /\ L \subseteq LinesOf(i)' /\ L # {}
    BY <1>1, <1>5, <1>6, <1>9 DEF GrantsGrow, GrowsTo, Stays1, LinesOf
  <2>4. PICK m \in Member : m = grants[i].who
    BY <1>6, RowFacts
  <2> QED
    BY <1>1, <1>2, <1>7, <1>8, <1>9, <2>1, <2>2, <2>3, <2>4, RewardGoes
<1>10. CASE UNCHANGED <<balance, paidOut, grants>> /\ OwedSet(r, "failed", TRUE)
  <2>1. Goes(r, "failed") /\ "failed" \notin Settling
    BY <1>10, OwedGoes DEF Known, Settling
  <2> QED
    BY <1>1, <1>2, <1>8, <1>10, <2>1, RewardRests
<1> QED
  BY <1>6, <1>9, <1>10

(* A line is marked, or the mark fails and is owed.                         *)
LEMMA MarkRows ==
    ASSUME LedgerInv, NEW r \in Req, MarkLine(r), NEW i, i = Mine(r), NEW L, L = settling[r].lines,
           NEW l, l = Min(L)
    PROVE  /\ Rows /\ i \in DOMAIN grants /\ L \subseteq LinesOf(i) /\ l \in L
           /\ l \in DOMAIN grants[i].handed /\ Rows' /\ GrantsGrow /\ DOMAIN grants' = DOMAIN grants
           /\ \/ /\ grants'[i] = Marked1(grants[i], l)
                 /\ \A g \in DOMAIN grants \ {i} : grants'[g] = grants[g]
                 /\ SettlingSet(r, i, L \ {l}) /\ Goto(r, "lines")
              \/ UNCHANGED <<grants, settling>> /\ OwedSet(r, "failed", TRUE)
<1>1. call[r].pc = "mark" /\ call[r].pc \in Settling
  BY DEF MarkLine, Settling
<1>2. Rows /\ i \in DOMAIN grants /\ L \in SUBSET LinesOf(i) /\ L # {}
  BY <1>1, AtSettling
<1>3. l \in LinesOf(i) /\ l \in L /\ l \in DOMAIN grants[i].handed
  BY <1>2, LinesLeft
<1>4. CASE /\ grants' = [grants EXCEPT ![i].settled = @ \cup {l}]
           /\ settling' = [settling EXCEPT ![r].lines = @ \ {l}]
           /\ Goto(r, "lines")
  <2>1. PICK p : p = Marked1(grants[i], l)
    OBVIOUS
  <2>2. grants[i] \in GrantRow /\ Lined(grants[i])
    BY <1>2, RowFacts
  <2>3. p \in GrantRow /\ Lined(p) /\ Stays1(grants[i], p)
    BY <1>3, <2>1, <2>2, MarkedRow
  <2>4. RowSet(i, p)
    BY <1>4, <2>1, MarkedSet
  <2>5. settling' = [settling EXCEPT ![r].lines = L \ {l}]
    BY <1>1, <1>4, AtSettling
  <2>6. SettlingSet(r, i, L \ {l})
    BY <1>1, <2>5, LinesSet
  <2> QED
    BY <1>2, <1>3, <1>4, <2>1, <2>3, <2>4, <2>6, RowKept
<1>5. CASE UNCHANGED <<grants, settling>> /\ OwedSet(r, "failed", TRUE)
  BY <1>2, <1>3, <1>5, SameRows
<1>6. \/ /\ grants' = [grants EXCEPT ![i].settled = @ \cup {l}]
         /\ settling' = [settling EXCEPT ![r].lines = @ \ {l}]
         /\ Goto(r, "lines")
      \/ UNCHANGED <<grants, settling>> /\ OwedSet(r, "failed", TRUE)
  BY DEF MarkLine, OwedSet
<1> QED
  BY <1>4, <1>5, <1>6

LEMMA MarkBooks ==
    ASSUME Known, Known', LedgerInv, Conserved, NEW r \in Req, Elsewhere, MarkLine(r)
    PROVE  LedgerInv' /\ Conserved'
<1>1. call[r].pc = "mark" /\ UNCHANGED <<balance, counted, paidOut>>
  BY DEF MarkLine
<1>2. call[r].pc \in Settling /\ call[r].op \in RewardOps
  BY <1>1 DEF Settling, Known, Frame, SettlersOnly
<1>3. PICK i : i = Mine(r)
  OBVIOUS
<1>4. PICK L : L = settling[r].lines
  OBVIOUS
<1>5. PICK l : l = Min(L)
  OBVIOUS
<1>6. /\ i \in DOMAIN grants /\ L \subseteq LinesOf(i) /\ Rows' /\ GrantsGrow /\ DOMAIN grants' = DOMAIN grants
      /\ \/ SettlingSet(r, i, L \ {l}) /\ Goto(r, "lines")
         \/ UNCHANGED <<grants, settling>> /\ OwedSet(r, "failed", TRUE)
  BY <1>3, <1>4, <1>5, MarkRows
<1>7. counted' \in [Member -> Nat]
  BY <1>1 DEF LedgerInv, GrantTypes
<1>8. CASE SettlingSet(r, i, L \ {l}) /\ Goto(r, "lines")
  <2>1. PICK M : M = L \ {l}
    OBVIOUS
  <2>2. /\ settling' = [s \in Req |-> settling'[s]]
        /\ settling'[r] = [grant |-> i, lines |-> M]
        /\ \A s \in Req \ {r} : settling'[s] = settling[s]
    BY <1>8, <2>1, SetSettling
  <2>3. Goes(r, "lines")
    BY <1>8, GotoGoes DEF Known
  <2>4. call[r].who \in Member /\ Credit(call[r].who, 0) /\ paidOut' = paidOut + 0
    BY <1>1, Credit0 DEF LedgerInv, Purse
  <2>5. i \in DOMAIN grants' /\ M \subseteq LinesOf(i)'
    BY <1>6, <2>1 DEF GrantsGrow, GrowsTo, Stays1, LinesOf
  <2> QED
    BY <1>1, <1>2, <1>6, <1>7, <2>2, <2>3, <2>4, <2>5, RewardGoes
<1>9. CASE UNCHANGED <<grants, settling>> /\ OwedSet(r, "failed", TRUE)
  <2>1. Goes(r, "failed") /\ "failed" \notin Settling
    BY <1>9, OwedGoes DEF Known, Settling
  <2> QED
    BY <1>1, <1>2, <1>7, <1>9, <2>1, RewardRests
<1> QED
  BY <1>6, <1>8, <1>9

(* When no line is left the grant is credited, whatever became of it.       *)
LEMMA CreditRows ==
    ASSUME LedgerInv, NEW r \in Req, SettleGrant(r), NEW i, i = Mine(r)
    PROVE  /\ Rows /\ i \in DOMAIN grants /\ Rows' /\ GrantsGrow /\ DOMAIN grants' = DOMAIN grants
           /\ settling[r].lines = {}
           /\ \/ /\ grants'[i] = Stated1(grants[i], "credited")
                 /\ \A g \in DOMAIN grants \ {i} : grants'[g] = grants[g]
                 /\ Goto(r, "granted")
              \/ UNCHANGED grants /\ OwedSet(r, "failed", TRUE)
<1>1. call[r].pc = "lines" /\ call[r].pc \in Settling /\ settling[r].lines = {}
  BY DEF SettleGrant, Settling
<1>2. Rows /\ i \in DOMAIN grants
  BY <1>1, AtSettling
<1>3. CASE /\ grants' = [grants EXCEPT ![i].state = IF Creditable(@) THEN "credited" ELSE @]
           /\ Goto(r, "granted")
  <2>1. PICK p : p = Stated1(grants[i], "credited")
    OBVIOUS
  <2>2. grants[i] \in GrantRow /\ Lined(grants[i])
    BY <1>2, RowFacts
  <2>3. p \in GrantRow /\ Lined(p) /\ Stays1(grants[i], p)
    BY <2>1, <2>2, StatedRow
  <2>4. (IF Creditable(grants[i].state) THEN "credited" ELSE grants[i].state) = "credited"
    BY DEF Creditable
  <2>5. RowSet(i, p)
    BY <1>3, <2>1, <2>4, StatedSet
  <2> QED
    BY <1>1, <1>2, <1>3, <2>1, <2>3, <2>5, RowKept
<1>4. CASE UNCHANGED grants /\ OwedSet(r, "failed", TRUE)
  BY <1>1, <1>2, <1>4, SameRows
<1>5. \/ /\ grants' = [grants EXCEPT ![i].state = IF Creditable(@) THEN "credited" ELSE @]
         /\ Goto(r, "granted")
      \/ UNCHANGED grants /\ OwedSet(r, "failed", TRUE)
  BY DEF SettleGrant, OwedSet
<1> QED
  BY <1>3, <1>4, <1>5

LEMMA CreditBooks ==
    ASSUME Known, Known', LedgerInv, Conserved, NEW r \in Req, Elsewhere, SettleGrant(r)
    PROVE  LedgerInv' /\ Conserved'
<1>1. call[r].pc = "lines" /\ UNCHANGED <<balance, settling, counted, paidOut>>
  BY DEF SettleGrant
<1>2. call[r].pc \in Settling /\ call[r].op \in RewardOps
  BY <1>1 DEF Settling, Known, Frame, SettlersOnly
<1>3. PICK i : i = Mine(r)
  OBVIOUS
<1>4. Rows' /\ GrantsGrow /\ (Goto(r, "granted") \/ OwedSet(r, "failed", TRUE))
  BY <1>3, CreditRows
<1>5. PICK x \in {"granted", "failed"} : Goes(r, x)
  BY <1>4, GotoGoes, OwedGoes DEF Known
<1>6. /\ settling' = [s \in Req |-> settling'[s]]
      /\ settling'[r] = [grant |-> settling[r].grant, lines |-> settling[r].lines]
      /\ \A s \in Req \ {r} : settling'[s] = settling[s]
  BY <1>1, SameSettling
<1>7. call[r].who \in Member /\ Credit(call[r].who, 0) /\ paidOut' = paidOut + 0
      /\ counted' \in [Member -> Nat]
  BY <1>1, Credit0 DEF LedgerInv, Purse, GrantTypes
<1>8. x \notin Settling
  BY DEF Settling
<1> QED
  BY <1>1, <1>2, <1>4, <1>5, <1>6, <1>7, <1>8, RewardGoes DEF Settling

(* Expiry takes grants of which nothing was marked.                         *)
LEMMA ExpireRows ==
    ASSUME Rows, NEW late \in SUBSET {g \in DOMAIN grants : Lapsed(grants[g])},
           grants' = [g \in DOMAIN grants |->
                       IF g \in late THEN [grants[g] EXCEPT !.state = "expired"] ELSE grants[g]]
    PROVE  /\ Rows' /\ GrantsGrow /\ DOMAIN grants' = DOMAIN grants
           /\ \A g \in DOMAIN grants :
                 grants'[g] = grants[g]
                 \/ (Lapsed(grants[g]) /\ grants'[g] = Stated1(grants[g], "expired"))
<1>1. grants \in Seq(GrantRow) /\ DOMAIN grants = 1..Len(grants) /\ Len(grants) \in Nat
  BY DEF Rows, RowsIn
<1>2. DOMAIN grants' = DOMAIN grants
  OBVIOUS
<1>3. ASSUME NEW g \in DOMAIN grants
      PROVE  /\ grants'[g] \in GrantRow /\ Lined(grants'[g]) /\ Stays1(grants[g], grants'[g])
             /\ \/ grants'[g] = grants[g]
                \/ Lapsed(grants[g]) /\ grants'[g] = Stated1(grants[g], "expired")
  <2>1. grants[g] \in GrantRow /\ Lined(grants[g])
    BY RowFacts
  <2>2. CASE g \in late
    <3>1. Lapsed(grants[g]) /\ grants'[g] = Stated1(grants[g], "expired")
      BY <2>2 DEF Stated1
    <3>2. PICK p : p = Stated1(grants[g], "expired")
      OBVIOUS
    <3>3. p \in GrantRow /\ Lined(p) /\ Stays1(grants[g], p)
      BY <2>1, <3>2, StatedRow
    <3> QED
      BY <3>1, <3>2, <3>3
  <2>3. CASE g \notin late
    <3>1. grants'[g] = grants[g]
      BY <2>3
    <3> QED
      BY <2>1, <3>1 DEF Stays1
  <2> QED
    BY <2>2, <2>3
<1>4. grants' = [g \in 1..Len(grants) |-> grants'[g]]
  BY <1>1
<1>5. grants' \in Seq(GrantRow)
  BY <1>1, <1>2, <1>3, <1>4
<1>6. Rows' /\ GrantsGrow
  BY <1>2, <1>3, <1>5 DEF Rows, RowsIn, GrantsGrow, GrowsTo
<1> QED
  BY <1>2, <1>3, <1>6

---------------------------------------------------------------------------
(* The furthest mark is a number.                                           *)
LEMMA MaxIn ==
    ASSUME NEW S, IsFiniteSet(S), S \subseteq Int, S # {}
    PROVE  Max(S) \in S /\ \A y \in S : Max(S) >= y
<1> DEFINE Good == {T \in SUBSET S : T = {} \/ \E x \in T : \A y \in T : x >= y}
<1>1. ASSUME NEW T \in SUBSET S, \A U \in SUBSET T : U # T => U \in Good
      PROVE  T \in Good
  <2>1. CASE T # {}
    <3>1. PICK a \in T : TRUE
      BY <2>1
    <3>2. PICK U : U = T \ {a}
      OBVIOUS
    <3>3. U \in SUBSET T /\ U # T /\ a \in Int /\ T \subseteq Int
      BY <3>1, <3>2
    <3>4. U = {} \/ \E x \in U : \A y \in U : x >= y
      BY <1>1, <3>3
    <3>5. CASE U = {}
      <4>1. \A y \in T : a >= y
        BY <3>2, <3>3, <3>5
      <4> QED
        BY <3>1, <4>1
    <3>6. CASE \E x \in U : \A y \in U : x >= y
      <4>1. PICK x \in U : \A y \in U : x >= y
        BY <3>6
      <4>2. x \in T /\ x \in Int
        BY <3>3, <4>1
      <4>3. CASE x >= a
        <5>1. \A y \in T : x >= y
          BY <3>2, <4>1, <4>3
        <5> QED
          BY <4>2, <5>1
      <4>4. CASE ~(x >= a)
        <5>1. \A y \in T : a >= y
          BY <3>2, <3>3, <4>1, <4>2, <4>4
        <5> QED
          BY <3>1, <5>1
      <4> QED
        BY <4>3, <4>4
    <3> QED
      BY <3>4, <3>5, <3>6
  <2> QED
    BY <2>1
<1>2. Good \in SUBSET (SUBSET S)
  OBVIOUS
<1>3. \A T \in SUBSET S : (\A U \in SUBSET T : U # T => U \in Good) => T \in Good
  BY <1>1
<1> HIDE DEF Good
<1>4. S \in Good
  BY <1>2, <1>3, SubsetInduction
<1>5. \E x \in S : \A y \in S : x >= y
  BY <1>4 DEF Good
<1> QED
  BY <1>5 DEF Max

Marks(m) == {grants[g].mark : g \in {h \in DOMAIN grants : grants[h].who = m}}

LEMMA MarksFinite ==
    ASSUME Rows, NEW m \in Member
    PROVE  IsFiniteSet({Baseline[m]} \cup Marks(m)) /\ {Baseline[m]} \cup Marks(m) \subseteq Nat
<1> DEFINE G == {h \in DOMAIN grants : grants[h].who = m}
<1>1. grants \in Seq(GrantRow) /\ DOMAIN grants = 1..Len(grants) /\ Len(grants) \in Nat
  BY DEF Rows, RowsIn
<1>2. IsFiniteSet(DOMAIN grants)
  BY <1>1, FS_Interval
<1>3. IsFiniteSet(G)
  BY <1>2, FS_Subset
<1>4. IsFiniteSet({grants[g].mark : g \in G})
  <2> DEFINE T == {grants[g].mark : g \in G}
             f == [g \in G |-> grants[g].mark]
  <2>1. f \in Surjection(G, T)
    BY DEF Surjection
  <2> HIDE DEF G, T, f
  <2>2. IsFiniteSet(T)
    BY <1>3, <2>1, FS_Surjection
  <2> QED
    BY <2>2 DEF T
<1>5. IsFiniteSet({Baseline[m]}) /\ Baseline[m] \in Nat
  BY FS_Singleton, RewardAssumption
<1>6. \A g \in DOMAIN grants : grants[g].mark \in Nat
  <2>1. \A g \in DOMAIN grants : grants[g] \in GrantRow
    BY <1>1
  <2> QED
    BY <2>1 DEF GrantRow
<1> QED
  BY <1>4, <1>5, <1>6, FS_Union DEF Marks

LEMMA PreviousNat ==
    ASSUME Rows, NEW m \in Member
    PROVE  PreviousMark(m) \in Nat /\ \A n \in {Baseline[m]} \cup Marks(m) : PreviousMark(m) >= n
<1> DEFINE S == {Baseline[m]} \cup Marks(m)
<1>1. IsFiniteSet(S) /\ S \subseteq Nat /\ S # {} /\ S \subseteq Int
  BY MarksFinite
<1>2. PreviousMark(m) = Max(S)
  BY DEF PreviousMark, Marks
<1> HIDE DEF S
<1>3. Max(S) \in S /\ \A y \in S : Max(S) >= y
  BY <1>1, MaxIn
<1> QED
  BY <1>1, <1>2, <1>3 DEF S

(* A request changes its argument or amount, and no grant changes.          *)
LEMMA RewardSteady ==
    ASSUME Known, Known', LedgerInv, Conserved, NEW r \in Req, call[r].op \in RewardOps, Elsewhere,
           MovesOnly(r), UNCHANGED <<balance, paidOut, grants, settling, counted>>,
           call'[r].pc \notin Settling, call'[r].pc \notin {"charged", "inserted"},
           call[r].op = "units" =>
              /\ call'[r].arg.slug \in DOMAIN Reward
              /\ call'[r].pc = "owed" => call'[r].arg.units \in Nat,
           call[r].op = "grant" => call'[r].arg \in DOMAIN Reward,
           Scoring(r)', call'[r].who \in Member, call'[r].amt \in Nat, call'[r].hand = 0,
           call'[r].owed \in BOOLEAN
    PROVE  LedgerInv' /\ Conserved'
<1>1. Rows' /\ GrantsGrow
  BY SameRows
<1>2. /\ settling' = [s \in Req |-> settling'[s]]
      /\ settling'[r] = [grant |-> settling[r].grant, lines |-> settling[r].lines]
      /\ \A s \in Req \ {r} : settling'[s] = settling[s]
  BY SameSettling
<1>3. Credit(call'[r].who, 0) /\ paidOut' = paidOut + 0 /\ counted' \in [Member -> Nat]
  BY Credit0 DEF LedgerInv, GrantTypes
<1>4. call'[r].op = call[r].op /\ call'[r].pc \notin {"lines", "mark"}
  BY DEF MovesOnly, Settling
<1>5. Granting(r)'
  <2>1. settling'[r] = [grant |-> settling'[r].grant, lines |-> settling'[r].lines]
    BY <1>2
  <2> QED
    BY <1>4, <2>1 DEF Granting
<1> QED
  BY <1>1, <1>2, <1>3, <1>5, RewardKeep DEF Elsewhere

UnitsSet(r, a) == call' = [call EXCEPT ![r].pc = "owed", ![r].hand = 0, ![r].arg = a]

LEMMA SetUnits ==
    ASSUME Shaped, NEW r \in Req, NEW a, UnitsSet(r, a)
    PROVE  /\ call'[r].pc = "owed" /\ call'[r].hand = 0 /\ call'[r].amt = call[r].amt
           /\ call'[r].who = call[r].who /\ call'[r].owed = call[r].owed
           /\ call'[r].op = call[r].op /\ call'[r].arg = a
<1> DEFINE c == call[r]
           d == [[[c EXCEPT !.pc = "owed"] EXCEPT !.hand = 0] EXCEPT !.arg = a]
<1>1. call'[r] = d
  BY DEF Shaped, UnitsSet
<1>2. DOMAIN c = {"op", "who", "arg", "amt", "pc", "hand", "owed"}
  BY DEF Shaped, IsCall, Fields
<1> HIDE DEF c
<1>3. /\ d.pc = "owed" /\ d.hand = 0 /\ d.amt = c.amt
      /\ d.who = c.who /\ d.owed = c.owed /\ d.op = c.op /\ d.arg = a
  BY <1>2
<1> HIDE DEF d
<1> QED
  BY <1>1, <1>3 DEF c

LEMMA GrantBooks ==
    ASSUME Known, Known', LedgerInv, Conserved, NEW r \in Req, Elsewhere, GrantActs(r)
    PROVE  LedgerInv' /\ Conserved'
<1> USE DEF Known
<1>1. call[r].op \in RewardOps /\ MovesOnly(r)
  BY GrantStep DEF Frame
<1>2. /\ Purse(r) /\ Granting(r) /\ Scoring(r) /\ Rows /\ counted \in [Member -> Nat]
      /\ balance \in [Member -> Nat]
  BY DEF LedgerInv, GrantTypes
<1>3. Who(r) \in Member /\ call[r].hand = 0
  BY <1>1, <1>2 DEF Purse, Who, Handless
<1>4. ASSUME NEW x \in {"granted", "done", "start", "refused", "dead", "ungranted"}, Goto(r, x),
             UNCHANGED <<balance, paidOut, grants, settling, counted>>, call[r].op # Job
      PROVE  LedgerInv' /\ Conserved'
  <2>1. Goes(r, x) /\ x \notin {"charged", "inserted", "owed"} \cup Settling
    BY <1>4, GotoGoes DEF Settling
  <2> QED
    BY <1>1, <1>2, <1>4, <2>1, RewardRests
<1>5. CASE GrantReturn(r) \/ GrantDie(r)
  BY <1>4, <1>5 DEF GrantReturn, GrantDie, Die, Cut, Job, grantVars
<1>6. CASE GrantOneOff(r)
  <2>1. call[r].op = "grant" /\ call[r].arg \in DOMAIN Reward
    BY <1>2, <1>6 DEF GrantOneOff, At, Granting
  <2>2. <<"once">> \in Ref /\ call[r].op # Job
    BY <2>1 DEF Ref, Job
  <2> QED
    BY <1>1, <1>6, <2>1, <2>2, InsertBooks DEF GrantOneOff
<1>7. CASE GrantPerUnit(r)
  <2>1. call[r].op = "units" /\ call[r].arg.slug \in DOMAIN Reward /\ call[r].arg.units \in Nat
    BY <1>2, <1>7 DEF GrantPerUnit, At, Granting
  <2>2. Amt(r) \in Nat
    BY <1>2 DEF Purse, Amt
  <2>3. <<"mark", Amt(r)>> \in Ref /\ call[r].op # Job
    BY <2>1, <2>2 DEF Ref, Job
  <2> QED
    BY <1>1, <1>7, <2>1, <2>2, <2>3, InsertBooks DEF GrantPerUnit
<1>8. CASE ClaimGrant(r)
  <2>1. PICK g \in DOMAIN grants : settling' = [settling EXCEPT ![r].grant = g]
    BY <1>8 DEF ClaimGrant
  <2>2. UNCHANGED <<balance, grants, counted, paidOut>> /\ Goto(r, "read") /\ call[r].op = "collect"
    BY <1>8 DEF ClaimGrant, At
  <2>3. SettlingSet(r, g, settling[r].lines)
    <3>1. settling[r] = [grant |-> settling[r].grant, lines |-> settling[r].lines]
      BY <1>2 DEF Granting
    <3>2. [settling[r] EXCEPT !.grant = g] = [grant |-> g, lines |-> settling[r].lines]
      BY <3>1
    <3> QED
      BY <2>1, <3>2 DEF SettlingSet
  <2>4. PICK L : L = settling[r].lines
    OBVIOUS
  <2>5. /\ settling' = [s \in Req |-> settling'[s]]
        /\ settling'[r] = [grant |-> g, lines |-> L]
        /\ \A s \in Req \ {r} : settling'[s] = settling[s]
    BY <2>3, <2>4, SetSettling
  <2>6. Goes(r, "read") /\ call[r].op # Job
    BY <2>2, GotoGoes DEF Job
  <2>7. Rows' /\ GrantsGrow /\ g \in DOMAIN grants'
    BY <2>2, SameRows
  <2>8. call[r].who \in Member /\ Credit(call[r].who, 0) /\ paidOut' = paidOut + 0
    BY <2>2, Credit0 DEF LedgerInv, Purse
  <2> QED
    BY <1>1, <1>2, <2>2, <2>5, <2>6, <2>7, <2>8, RewardGoes
<1>9. CASE UnitsRead(r)
  <2>1. PICK n : n = counted[Who(r)]
    OBVIOUS
  <2>2. AmtSet(r, "counted", n) /\ UNCHANGED <<balance, paidOut, grants, settling, counted>>
        /\ call[r].op = "units"
    BY <1>9, <2>1 DEF UnitsRead, AmtSet, At, grantVars
  <2>3. /\ call'[r].pc = "counted" /\ call'[r].amt = n /\ call'[r].hand = call[r].hand
        /\ call'[r].who = call[r].who /\ call'[r].owed = call[r].owed
        /\ call'[r].op = call[r].op /\ call'[r].arg = call[r].arg
    BY <2>2, SetAmt DEF Frame
  <2>4. Scoring(r)'
    BY <2>2, <2>3 DEF Scoring, Job
  <2>5. n \in Nat
    BY <1>2, <1>3, <2>1
  <2>6. call'[r].owed \in BOOLEAN
    BY <1>2, <2>3 DEF Purse
  <2>7. call'[r].who \in Member /\ call'[r].hand = 0 /\ call'[r].pc \notin Settling
    BY <1>2, <1>3, <2>3 DEF Purse, Settling
  <2>8. call[r].arg.slug \in DOMAIN Reward
    BY <1>2, <2>2 DEF Granting
  <2> QED
    BY <1>1, <2>2, <2>3, <2>4, <2>5, <2>6, <2>7, <2>8, RewardSteady
<1>10. CASE UnitsOwed(r)
  <2>1. UNCHANGED <<balance, paidOut, grants, settling, counted>> /\ call[r].op = "units"
    BY <1>10 DEF UnitsOwed, At, grantVars
  <2>2. CASE Goto(r, "granted")
    BY <1>4, <2>1, <2>2 DEF Job
  <2>3. ASSUME NEW n, n = Amt(r) - PreviousMark(Who(r)), n > 0,
               UnitsSet(r, [slug |-> call[r].arg.slug, units |-> n])
        PROVE  LedgerInv' /\ Conserved'
    <3>1. n \in Nat
      <4>1. PreviousMark(Who(r)) \in Nat /\ Amt(r) \in Nat
        BY <1>2, <1>3, PreviousNat DEF Purse, Amt
      <4> QED
        BY <2>3, <4>1
    <3>2. PICK a : a = [slug |-> call[r].arg.slug, units |-> n]
      OBVIOUS
    <3>3. /\ call'[r].pc = "owed" /\ call'[r].hand = 0 /\ call'[r].amt = call[r].amt
          /\ call'[r].who = call[r].who /\ call'[r].owed = call[r].owed
          /\ call'[r].op = call[r].op /\ call'[r].arg = a
      BY <2>3, <3>2, SetUnits DEF Frame
    <3>4. a.slug \in DOMAIN Reward /\ a.units \in Nat
      BY <1>2, <2>1, <3>1, <3>2 DEF Granting
    <3>5. Scoring(r)'
      BY <2>1, <3>3 DEF Scoring, Job
    <3>6. call'[r].owed \in BOOLEAN
      BY <1>2, <3>3 DEF Purse
    <3>7. call'[r].who \in Member /\ call'[r].amt \in Nat /\ call'[r].pc \notin Settling
      BY <1>2, <3>3 DEF Purse, Settling
    <3> QED
      BY <1>1, <2>1, <3>3, <3>4, <3>5, <3>6, <3>7, RewardSteady
  <2> QED
    BY <1>10, <2>2, <2>3 DEF UnitsOwed, UnitsSet
<1>11. CASE ExpireGrants(r)
  <2>1. UNCHANGED <<balance, settling, counted, paidOut>> /\ Goto(r, "done") /\ call[r].op = "expire"
    BY <1>11 DEF ExpireGrants, At
  <2>2. PICK late \in SUBSET {g \in DOMAIN grants : Lapsed(grants[g])} :
           grants' = [g \in DOMAIN grants |->
                       IF g \in late THEN [grants[g] EXCEPT !.state = "expired"] ELSE grants[g]]
    BY <1>11 DEF ExpireGrants
  <2>3. Rows' /\ GrantsGrow
    BY <1>2, <2>2, ExpireRows
  <2>4. Goes(r, "done") /\ call[r].op # Job
    BY <2>1, GotoGoes DEF Job
  <2>5. /\ settling' = [s \in Req |-> settling'[s]]
        /\ settling'[r] = [grant |-> settling[r].grant, lines |-> settling[r].lines]
        /\ \A s \in Req \ {r} : settling'[s] = settling[s]
    BY <2>1, SameSettling
  <2>6. call[r].who \in Member /\ Credit(call[r].who, 0) /\ paidOut' = paidOut + 0
        /\ counted' \in [Member -> Nat] /\ "done" \notin Settling
    BY <1>2, <2>1, Credit0 DEF LedgerInv, Purse, Settling
  <2> QED
    BY <1>1, <2>1, <2>3, <2>4, <2>5, <2>6, RewardGoes DEF Settling
<1> QED
  BY <1>5, <1>6, <1>7, <1>8, <1>9, <1>10, <1>11 DEF GrantActs

LEMMA CountBooks ==
    ASSUME Known, Known', LedgerInv, Conserved, Elsewhere, Count
    PROVE  LedgerInv' /\ Conserved'
<1>1. UNCHANGED <<balance, call, application, today, daily, minted, grants, settling, paidOut,
                  granted, medal, casts, boosts, pot, offer>>
  BY DEF Count, pointsVars, Elsewhere, storeVars, paidVars, joinVars, potVars, offerVars, dailyVars
<1>2. counted' \in [Member -> Nat]
  <2>1. PICK r \in Req : \E n \in 0..MaxCount : counted' = [counted EXCEPT ![Who(r)] = n]
    BY DEF Count
  <2>0. PICK n \in 0..MaxCount : counted' = [counted EXCEPT ![Who(r)] = n]
    BY <2>1
  <2>2. MaxCount \in Nat
    BY RewardAssumption
  <2>3. counted \in [Member -> Nat]
    BY DEF LedgerInv, GrantTypes
  <2>4. n \in Nat
    BY <2>2
  <2> QED
    BY <2>0, <2>3, <2>4
<1>3. GrantTypes' /\ DayTypes'
  BY <1>1, <1>2 DEF LedgerInv, GrantTypes, Rows, RowsIn, DayTypes
<1>4. ASSUME NEW s \in Req
      PROVE  Purse(s)' /\ Applying(s)' /\ Joining(s)' /\ Giving(s)' /\ Dated(s)' /\ Scoring(s)' /\ Granting(s)'
  <2>1. Purse(s) /\ Applying(s) /\ Joining(s) /\ Giving(s) /\ Dated(s) /\ Scoring(s) /\ Granting(s)
    BY DEF LedgerInv
  <2>2. Purse(s)' /\ Applying(s)' /\ Joining(s)'
    BY <1>1, <2>1 DEF Purse, Applying, Joining
  <2>3. Giving(s)' /\ Scoring(s)' /\ Dated(s)'
    BY <1>1, <2>1 DEF Giving, Scoring, Dated, Who, Amt
  <2>4. Granting(s)'
    BY <1>1, <2>1 DEF Granting, Mine, LinesOf
  <2> QED
    BY <2>2, <2>3, <2>4
<1>5. LedgerInv'
  BY <1>1, <1>3, <1>4 DEF LedgerInv
<1>6. /\ InBalances' = InBalances /\ InHand' = InHand /\ InPots' = InPots
      /\ HeldByApplications' = HeldByApplications
  BY <1>1 DEF InBalances, InHand, InPots, HeldByApplications
<1>7. Spent' = Spent
  BY <1>1 DEF Spent, Bought, At, Amt, Who
<1>8. InPools' = InPools
  BY <1>1 DEF InPools, Pool
<1> QED
  BY <1>1, <1>5, <1>6, <1>7, <1>8 DEF Conserved

---------------------------------------------------------------------------
(* Achievements.                                                            *)
TodoSet(r, m, x) == call' = [call EXCEPT ![r].who = m, ![r].arg.todo = @ \ {m}, ![r].pc = x]

(* A handler of the job turns to one member of those it has yet to do.       *)
Scores(r)         == call[r].arg = [f \in ToScore |-> call[r].arg[f]]
TurnsTo(r, m, x)  ==
    /\ call'[r].pc = x /\ call'[r].hand = call[r].hand /\ call'[r].amt = call[r].amt
    /\ call'[r].who = m /\ call'[r].owed = call[r].owed /\ call'[r].op = call[r].op
    /\ call'[r].arg = [f \in ToScore |-> call'[r].arg[f]]
    /\ call'[r].arg.todo = call[r].arg.todo \ {m} /\ call'[r].arg.phase = call[r].arg.phase
    /\ call'[r].arg.values = call[r].arg.values /\ call'[r].arg.silent = call[r].arg.silent

LEMMA TodoTurns ==
    ASSUME Shaped, NEW r \in Req, Scores(r), NEW m, NEW x, TodoSet(r, m, x)
    PROVE  TurnsTo(r, m, x)
<1>0. call[r].arg = [f \in ToScore |-> call[r].arg[f]]
  BY DEF Scores
<1> DEFINE c == call[r]
           a == [c.arg EXCEPT !.todo = @ \ {m}]
           d == [[[c EXCEPT !.who = m] EXCEPT !.arg = a] EXCEPT !.pc = x]
<1>1. DOMAIN c = {"op", "who", "arg", "amt", "pc", "hand", "owed"}
  BY DEF Shaped, IsCall, Fields
<1>2. call'[r] = d
  BY <1>1 DEF Shaped, TodoSet
<1>3. /\ a = [f \in ToScore |-> a[f]]
      /\ a.todo = c.arg.todo \ {m} /\ a.phase = c.arg.phase
      /\ a.values = c.arg.values /\ a.silent = c.arg.silent
  BY <1>0 DEF ToScore
<1> HIDE DEF c, a
<1>4. /\ d.pc = x /\ d.hand = c.hand /\ d.amt = c.amt /\ d.who = m /\ d.owed = c.owed
      /\ d.op = c.op /\ d.arg = a
  BY <1>1
<1> HIDE DEF d
<1>5. /\ call'[r].pc = x /\ call'[r].hand = c.hand /\ call'[r].amt = c.amt /\ call'[r].who = m
      /\ call'[r].owed = c.owed /\ call'[r].op = c.op /\ call'[r].arg = a
  BY <1>2, <1>4
<1> QED
  BY <1>3, <1>5 DEF c, TurnsTo

LEMMA ArgScores ==
    ASSUME NEW phase, NEW todo, NEW values, NEW silent, NEW a, a = Arg(phase, todo, values, silent)
    PROVE  a = [f \in ToScore |-> a[f]] /\ a.todo = todo /\ a.phase = phase /\ a.silent = silent
BY DEF Arg, ToScore

LEMMA AchBooks ==
    ASSUME Known, Known', LedgerInv, Conserved, NEW r \in Req, Elsewhere, AchActs(r)
    PROVE  LedgerInv' /\ Conserved'
<1> USE DEF Known
<1>1. call[r].op \in RewardOps /\ MovesOnly(r) /\ call'[r].op = call[r].op
  BY AchStep DEF Frame, MovesOnly
<1>2. /\ Purse(r) /\ Granting(r) /\ Scoring(r) /\ Rows /\ counted \in [Member -> Nat]
      /\ balance \in [Member -> Nat]
  BY DEF LedgerInv, GrantTypes
<1>3. Who(r) \in Member /\ call[r].hand = 0 /\ Amt(r) \in Nat /\ call[r].owed \in BOOLEAN
      /\ call[r].who \in Member /\ call[r].amt \in Nat
  BY <1>1, <1>2 DEF Purse, Who, Handless, Amt
<1>4. ASSUME NEW x \in {"event", "done", "start", "refused", "dead", "scoring", "repairing",
                        "unpaid", "pay"},
             Goto(r, x), UNCHANGED <<balance, paidOut, grants, settling>>,
             counted' \in [Member -> Nat], call[r].op = Job => call[r].pc # "start" \/ x = "start"
      PROVE  LedgerInv' /\ Conserved'
  <2>1. Goes(r, x) /\ x \notin {"charged", "inserted", "owed"} \cup Settling
    BY <1>4, GotoGoes DEF Settling
  <2> QED
    BY <1>1, <1>4, <2>1, RewardRests
<1>5. ASSUME NEW x \in {"complete", "done", "scoring", "repairing", "start"}, NEW a, ArgSet(r, x, a),
             UNCHANGED <<balance, paidOut, grants, settling, counted>>, call[r].op \in {"post", Job},
             a = [f \in ToScore |-> a[f]], a.todo \subseteq Member
      PROVE  LedgerInv' /\ Conserved'
  <2>1. /\ call'[r].pc = x /\ call'[r].arg = a /\ call'[r].amt = call[r].amt
        /\ call'[r].who = call[r].who /\ call'[r].hand = call[r].hand
        /\ call'[r].owed = call[r].owed
    BY <1>5, SetArg DEF Frame
  <2>2. Scoring(r)'
    BY <1>5, <2>1 DEF Scoring
  <2>3. call'[r].owed \in BOOLEAN
    BY <1>3, <2>1
  <2>4. call'[r].who \in Member /\ call'[r].amt \in Nat /\ call'[r].hand = 0
        /\ call'[r].pc \notin Settling /\ call'[r].pc \notin {"charged", "inserted"}
    BY <1>3, <2>1 DEF Settling
  <2>5. call[r].op \notin {"units", "grant"}
    BY <1>5 DEF Job
  <2> QED
    BY <1>1, <1>5, <2>2, <2>3, <2>4, <2>5, RewardSteady
<1>6. ASSUME NEW m \in call[r].arg.todo, NEW x \in {"complete", "scoring", "pay"}, TodoSet(r, m, x),
             UNCHANGED <<balance, paidOut, grants, settling, counted>>,
             call[r].op = Job, call[r].pc # "start"
      PROVE  LedgerInv' /\ Conserved'
  <2>1. call[r].arg = [f \in ToScore |-> call[r].arg[f]] /\ call[r].arg.todo \subseteq Member
    BY <1>2, <1>6 DEF Scoring
  <2>2. /\ call'[r].pc = x /\ call'[r].hand = call[r].hand /\ call'[r].amt = call[r].amt
        /\ call'[r].who = m /\ call'[r].owed = call[r].owed
        /\ call'[r].arg = [f \in ToScore |-> call'[r].arg[f]]
        /\ call'[r].arg.todo = call[r].arg.todo \ {m}
    <3>1. Shaped /\ Scores(r)
      BY <2>1 DEF Frame, Scores
    <3>2. TurnsTo(r, m, x)
      BY <1>6, <3>1, TodoTurns
    <3> QED
      BY <3>2 DEF TurnsTo
  <2>3. Scoring(r)'
    BY <2>1, <2>2 DEF Scoring
  <2>4. call'[r].owed \in BOOLEAN
    BY <1>3, <2>2
  <2>5. call'[r].who \in Member /\ call'[r].amt \in Nat /\ call'[r].hand = 0
        /\ call'[r].pc \notin Settling /\ call'[r].pc \notin {"charged", "inserted"}
    BY <1>3, <1>6, <2>1, <2>2 DEF Settling
  <2>6. call[r].op \notin {"units", "grant"}
    BY <1>6 DEF Job
  <2> QED
    BY <1>1, <1>6, <2>3, <2>4, <2>5, <2>6, RewardSteady
<1>7. CASE Post(r)
  <2>1. Goto(r, "event") /\ UNCHANGED <<balance, paidOut, grants, settling>> /\ call[r].op # Job
        /\ counted' = [counted EXCEPT ![Who(r)] = @ + 1]
    BY <1>7 DEF Post, At, Job
  <2>2. counted' \in [Member -> Nat]
    BY <1>2, <1>3, <2>1
  <2> QED
    BY <1>4, <2>1, <2>2
<1>8. CASE Increment(r)
  <2>1. UNCHANGED <<balance, paidOut, grants, settling, counted>> /\ call[r].op = "post"
    BY <1>8 DEF Increment, At, grantVars
  <2>2. CASE Goto(r, "done")
    BY <1>2, <1>4, <2>1, <2>2 DEF Job
  <2>3. ASSUME NEW x \in {"complete", "done"},
               call' = [call EXCEPT ![r].pc = x, ![r].arg = Arg("event", {}, <<>>, ~backfilled)]
        PROVE  LedgerInv' /\ Conserved'
    <3>1. PICK a : a = Arg("event", {}, <<>>, ~backfilled)
      OBVIOUS
    <3>2. ArgSet(r, x, a) /\ a = [f \in ToScore |-> a[f]] /\ a.todo = {}
      BY <2>3, <3>1, ArgScores DEF ArgSet
    <3> QED
      BY <1>5, <2>1, <3>2
  <2> QED
    BY <1>8, <2>2, <2>3 DEF Increment
<1>9. CASE ScoreRead(r)
  <2>1. PICK a : a = Arg("score", {m \in Member : counted[m] > 0}, counted, ~backfilled)
    OBVIOUS
  <2>2. a = [f \in ToScore |-> a[f]] /\ a.todo = {m \in Member : counted[m] > 0}
    BY <2>1, ArgScores
  <2>3. /\ ArgSet(r, "scoring", a) /\ call[r].op = Job
        /\ UNCHANGED <<balance, paidOut, grants, settling, counted>>
    BY <1>9, <2>1 DEF ScoreRead, ArgSet, At, grantVars
  <2> QED
    BY <1>5, <2>2, <2>3
<1>10. CASE ScoreOne(r)
  <2>1. /\ call[r].op = Job /\ call[r].pc # "start"
        /\ UNCHANGED <<balance, paidOut, grants, settling, counted>>
    BY <1>10 DEF ScoreOne, At, grantVars
  <2>2. PICK m \in call[r].arg.todo :
           \/ \E x \in {"complete", "scoring"} : TodoSet(r, m, x)
           \/ Goto(r, "unpaid")
    BY <1>10 DEF ScoreOne, TodoSet
  <2> QED
    BY <1>2, <1>4, <1>6, <2>1, <2>2
<1>11. CASE MarkBackfilled(r)
  <2>1. /\ Goto(r, "unpaid") /\ UNCHANGED <<balance, paidOut, grants, settling, counted>>
        /\ call[r].pc # "start"
    BY <1>11 DEF MarkBackfilled, grantVars, At
  <2> QED
    BY <1>2, <1>4, <2>1
<1>12. CASE Complete(r) \/ Stamp(r)
  <2>1. /\ Goto(r, Back(r)) \/ Goto(r, "pay")
        /\ UNCHANGED <<balance, paidOut, grants, settling, counted>> /\ call[r].pc # "start"
    BY <1>12 DEF Complete, Stamp, grantVars
  <2>2. Back(r) \in {"done", "scoring", "repairing"}
    BY DEF Back
  <2>3. PICK x \in {"done", "scoring", "repairing", "pay"} : Goto(r, x)
    BY <2>1, <2>2
  <2> QED
    BY <1>2, <1>4, <2>1, <2>3
<1>13. CASE PayBadge(r)
  <2>1. BadgeRef \in Ref /\ Badge \in DOMAIN Reward /\ call[r].pc # "start"
    BY <1>13, AchievementAssumption DEF Ref, PayBadge
  <2> QED
    BY <1>1, <1>13, <2>1, InsertBooks DEF PayBadge
<1>14. CASE Unpaid(r)
  <2>1. PICK a : a = Arg("repair", {m \in Member : ach[m].completed /\ ~ach[m].paid}, <<>>, TRUE)
    OBVIOUS
  <2>2. a = [f \in ToScore |-> a[f]] /\ a.todo = {m \in Member : ach[m].completed /\ ~ach[m].paid}
    BY <2>1 DEF Arg, ToScore
  <2>3. /\ ArgSet(r, "repairing", a) /\ call[r].op = Job
        /\ UNCHANGED <<balance, paidOut, grants, settling, counted>>
    BY <1>14, <2>1 DEF Unpaid, ArgSet, At, grantVars
  <2> QED
    BY <1>5, <2>2, <2>3
<1>15. CASE Repair(r)
  <2>1. /\ call[r].op = Job /\ call[r].pc # "start"
        /\ UNCHANGED <<balance, paidOut, grants, settling, counted>>
    BY <1>15 DEF Repair, At, grantVars
  <2>2. \/ \E m \in call[r].arg.todo : TodoSet(r, m, "pay")
        \/ ArgSet(r, "start", Arg("repair", {}, <<>>, TRUE))
    BY <1>15 DEF Repair, TodoSet, ArgSet
  <2>3. PICK a : a = Arg("repair", {}, <<>>, TRUE)
    OBVIOUS
  <2>4. a = [f \in ToScore |-> a[f]] /\ a.todo = {}
    BY <2>3 DEF Arg, ToScore
  <2> QED
    BY <1>5, <1>6, <2>1, <2>2, <2>3, <2>4
<1>16. CASE AchDie(r)
  <2>1. /\ UNCHANGED <<balance, paidOut, grants, settling, counted>>
        /\ \/ Goto(r, "dead") /\ call[r].op = "post"
           \/ Goto(r, "start") /\ call[r].op = Job
    BY <1>16 DEF AchDie, Die, Cut, grantVars
  <2> QED
    BY <1>2, <1>4, <2>1 DEF Job
<1> QED
  BY <1>7, <1>8, <1>9, <1>10, <1>11, <1>12, <1>13, <1>14, <1>15, <1>16 DEF AchActs

---------------------------------------------------------------------------
(* The books as they are opened.                                            *)
LEMMA KnownInit == ASSUME Init PROVE Known
BY InitFrame, SaleInit, EndsInit, OfferInit0, DailyInit0, PotInit0 DEF Known

LEMMA LedgerInit == ASSUME Init PROVE LedgerInv
<1>1. PICK p \in Plans : call = p
  BY DEF Init, PointsInit, HandlersInit
<1>2. call = [r \in Req |-> Request(p[r].op, p[r].who, p[r].arg, p[r].amt)]
  BY <1>1, PointsAssumption
<1>3. \A r \in Req : /\ call[r].pc = "start" /\ call[r].hand = 0 /\ call[r].owed = FALSE
                     /\ call[r].who \in Member /\ call[r].amt \in Nat
  BY <1>1, <1>2, PointsAssumption DEF Request
<1>4. balance \in [Member -> Nat]
  BY PointsAssumption DEF Init, PointsInit
<1>5. application = [r \in Req |-> NoApplication] /\ grants = <<>>
      /\ settling = [r \in Req |-> [grant |-> 0, lines |-> {}]]
      /\ counted = Baseline /\ paidOut = 0 /\ minted = 0 /\ today = FirstDay
  BY DEF Init, JoinsInit, GrantsInit, DailyInit
<1>6. DayTypes
  <2>1. daily = [m \in Member |-> IF m \in Claimed
                                 THEN [last |-> FirstDay - 1, streak |-> 1]
                                 ELSE [last |-> 0, streak |-> 0]]
    BY DEF Init, DailyInit
  <2>2. FirstDay \in Nat /\ LastDay \in Nat /\ FirstDay <= LastDay
    BY DailyAssumption
  <2>3. ASSUME NEW m \in Member, daily[m].streak > 0
        PROVE  daily[m].last <= today /\ daily[m].streak <= daily[m].last - FirstDay + 2
    <3>1. daily[m] = [last |-> FirstDay - 1, streak |-> 1]
      BY <2>1, <2>3
    <3> QED
      BY <3>1, <1>5, <2>2
  <2> QED
    BY <1>5, <2>2, <2>3 DEF DayTypes
<1>7. GrantTypes
  <2>1. Rows
    BY <1>5 DEF Rows, RowsIn
  <2>2. counted \in [Member -> Nat]
    BY <1>5, RewardAssumption
  <2> QED
    BY <1>5, <2>1, <2>2 DEF GrantTypes
<1>8. ASSUME NEW r \in Req
      PROVE  Purse(r) /\ Applying(r) /\ Joining(r) /\ Giving(r) /\ Dated(r)
             /\ Scoring(r) /\ Granting(r)
  <2>1. Purse(r)
    <3>1. call[r].owed \in BOOLEAN
      BY <1>3, ZenonT(20)
    <3>2. call[r].who \in Member /\ call[r].amt \in Nat /\ call[r].hand = 0 /\ call[r].pc = "start"
      BY <1>3
    <3> QED
      BY <3>1, <3>2 DEF Purse
  <2>2. Applying(r)
    BY <1>5 DEF Applying, NoApplication
  <2>3. Joining(r)
    BY <1>1, <1>3, JoinsAssumption DEF Joining
  <2>4. Giving(r)
    BY <1>1, <1>3, PotAssumption DEF Giving
  <2>5. Dated(r) /\ Scoring(r)
    BY <1>3 DEF Dated, Scoring
  <2>6. /\ call[r].op = "grant" => call[r].arg \in DOMAIN Reward
        /\ call[r].op = "units" => call[r].arg.slug \in DOMAIN Reward
    BY <1>1, RewardAssumption
  <2>7. settling[r] = [grant |-> settling[r].grant, lines |-> settling[r].lines]
    BY <1>5
  <2>8. Granting(r)
    BY <1>3, <2>6, <2>7 DEF Granting, Settling
  <2> QED
    BY <2>1, <2>2, <2>3, <2>4, <2>5, <2>8
<1> QED
  BY <1>4, <1>5, <1>6, <1>7, <1>8 DEF LedgerInv

LEMMA BooksOpen == ASSUME Init PROVE Conserved
<1>1. PICK p \in Plans : call = p
  BY DEF Init, PointsInit, HandlersInit
<1>2. call = [r \in Req |-> Request(p[r].op, p[r].who, p[r].arg, p[r].amt)]
  BY <1>1, PointsAssumption
<1>3. \A r \in Req : call[r].pc = "start" /\ call[r].hand = 0
  BY <1>2 DEF Request
<1>4. InBalances = SumFunction(InitBalance) /\ SumFunction(InitBalance) \in Int
  BY SumInt, PointsAssumption DEF Init, PointsInit, InBalances, SumFunction
<1>5. InHand = 0
  <2> DEFINE f == [r \in Req |-> call[r].hand]
  <2>1. (\A r \in Req : f[r] = 0) /\ DOMAIN f = Req
    BY <1>3
  <2>2. InHand = SumFunctionOnSet(f, Req)
    BY DEF InHand, SumFunction
  <2> HIDE DEF f
  <2> QED
    BY <2>1, <2>2, SumZeros, PointsAssumption
<1>6. InPools = 0
  <2> DEFINE f == [q \in Rid |-> Unpaid1(q)]
             g == [m \in Member |-> 0]
  <2>1. \A q \in Rid : offer[q].stake = g
    BY DEF Init, OfferInit, Unfiled
  <2>2. DOMAIN g = Member /\ \A m \in Member : g[m] = 0
    OBVIOUS
  <2> HIDE DEF g
  <2>3. SumFunction(g) = 0
    BY <2>2, SumZeros, PointsAssumption DEF SumFunction
  <2>4. (\A q \in Rid : f[q] = 0) /\ DOMAIN f = Rid
    BY <2>1, <2>3 DEF Unpaid1, Pool
  <2>5. InPools = SumFunctionOnSet(f, Rid)
    BY DEF InPools, SumFunction, Unpaid1
  <2> HIDE DEF f
  <2> QED
    BY <2>4, <2>5, SumZeros, RidAssumption
<1>7. InPots = 0
  <2> DEFINE f == [d \in Cycle |-> pot[d].total - pot[d].paid]
  <2>1. (\A d \in Cycle : f[d] = 0) /\ DOMAIN f = Cycle
    BY DEF Init, PotInit, NoCycle
  <2>2. InPots = SumFunctionOnSet(f, Cycle)
    BY DEF InPots, SumFunction
  <2> HIDE DEF f
  <2> QED
    BY <2>1, <2>2, SumZeros, CyclesFinite
<1>8. \A r \in Req : application[r].status = "none"
  BY DEF Init, JoinsInit, NoApplication
<1>9. HeldByApplications = 0
  <2> DEFINE f == [s \in Req |-> Waits(s)]
  <2>1. (\A s \in Req : f[s] = 0) /\ DOMAIN f = Req
    BY <1>8 DEF Waits
  <2>2. HeldByApplications = SumFunctionOnSet(f, Req)
    BY DEF HeldByApplications, SumFunction, Waits
  <2> HIDE DEF f
  <2> QED
    BY <2>1, <2>2, SumZeros, PointsAssumption
<1>10. Spent = 0
  <2> DEFINE f == [s \in Req |-> Price(s) + Filed(s)]
  <2>1. \A s \in Req : ~Bought(s)
    BY <1>3 DEF Bought, At, Init, StoreInit, PaidActionsInit
  <2>2. (\A s \in Req : f[s] = 0) /\ DOMAIN f = Req
    BY <1>8, <2>1 DEF Price, Filed
  <2>3. Spent = SumFunctionOnSet(f, Req)
    BY DEF Spent, SumFunction, Price, Filed
  <2> HIDE DEF f
  <2> QED
    BY <2>2, <2>3, SumZeros, PointsAssumption
<1>11. minted = 0 /\ paidOut = 0
  BY DEF Init, DailyInit, GrantsInit
<1> QED
  BY <1>4, <1>5, <1>6, <1>7, <1>9, <1>10, <1>11 DEF Conserved

(* Every step of every component keeps the books.                           *)
LEMMA KnownNext == ASSUME Known, [Next]_vars PROVE Known'
BY NextFrame, SaleNext, EndsNext, OfferInvNext, DailyInvNext, PotInvNext DEF Known

LEMMA BooksRest ==
    ASSUME LedgerInv, Conserved, UNCHANGED vars
    PROVE  LedgerInv' /\ Conserved'
<1>1. UNCHANGED <<balance, call, application, today, daily, minted, grants, settling, counted,
                  paidOut, granted, medal, casts, boosts, pot, offer>>
  BY DEF vars, pointsVars, storeVars, paidVars, joinVars, potVars, offerVars, dailyVars, grantVars
<1>2. LedgerInv'
  <2>1. UNCHANGED <<DayTypes, GrantTypes>>
    BY <1>1 DEF DayTypes, GrantTypes, Rows
  <2>2. ASSUME NEW r \in Req
        PROVE UNCHANGED <<Purse(r), Applying(r), Joining(r), Giving(r), Dated(r), Scoring(r), Granting(r)>>
    BY <1>1 DEF Purse, Applying, Joining, Giving, Dated, Scoring, Granting, Who, Amt, Mine, LinesOf
  <2> QED
    BY <1>1, <2>1, <2>2 DEF LedgerInv
<1>3. UNCHANGED <<InBalances, InHand, InPools, InPots, HeldByApplications>>
  BY <1>1 DEF InBalances, InHand, InPools, Pool, InPots, HeldByApplications
<1>4. UNCHANGED Spent
  BY <1>1 DEF Spent, Bought, At, Amt, Who
<1> QED
  BY <1>1, <1>2, <1>3, <1>4 DEF Conserved

LEMMA SettleBooks1 ==
    ASSUME Known, Known', LedgerInv, Conserved, NEW r \in Req, Elsewhere, SettleStep(r)
    PROVE  LedgerInv' /\ Conserved'
BY ReadBooks, PayBooks, MarkBooks, CreditBooks DEF SettleStep

LEMMA BooksNext ==
    ASSUME Known, LedgerInv, Conserved, [Next]_vars
    PROVE  LedgerInv' /\ Conserved'
<1>1. Known'
  BY KnownNext
<1>2. CASE StoreNext /\ UNCHANGED <<paidVars, joinVars, offerVars, potVars, dailyVars, RecognitionVars>>
  BY <1>1, <1>2, StoreBooks
<1>3. CASE PaidActionsNext /\ UNCHANGED <<storeVars, joinVars, offerVars, potVars, dailyVars, RecognitionVars>>
  BY <1>1, <1>3, PaidBooks
<1>4. CASE JoinsNext /\ UNCHANGED <<storeVars, paidVars, offerVars, potVars, dailyVars, RecognitionVars>>
  BY <1>1, <1>4, JoinBooks
<1>5. CASE OfferNext /\ UNCHANGED <<storeVars, paidVars, joinVars, potVars, dailyVars, RecognitionVars>>
  BY <1>1, <1>5, OfferBooks
<1>6. CASE PotNext /\ UNCHANGED <<storeVars, paidVars, joinVars, offerVars, dailyVars, RecognitionVars>>
  BY <1>1, <1>6, PotBooks
<1>7. CASE DailyNext /\ UNCHANGED <<storeVars, paidVars, joinVars, offerVars, potVars, RecognitionVars>>
  BY <1>1, <1>7, DailyBooks
<1>8. CASE Count /\ Elsewhere
  BY <1>1, <1>8, CountBooks
<1>9. ASSUME NEW r \in Req, GrantActs(r), Elsewhere PROVE LedgerInv' /\ Conserved'
  BY <1>1, <1>9, GrantBooks
<1>10. ASSUME NEW r \in Req, SettleStep(r), Elsewhere PROVE LedgerInv' /\ Conserved'
  BY <1>1, <1>10, SettleBooks1
<1>11. ASSUME NEW r \in Req, AchActs(r), Elsewhere PROVE LedgerInv' /\ Conserved'
  BY <1>1, <1>11, AchBooks
<1>12. CASE UNCHANGED vars
  BY <1>12, BooksRest
<1>13. (GrantsNext /\ Elsewhere) => LedgerInv' /\ Conserved'
  BY <1>8, <1>9 DEF GrantsNext, GrantActs
<1>14. (AchievementsNext /\ Elsewhere) => LedgerInv' /\ Conserved'
  BY <1>11 DEF AchievementsNext, AchActs
<1>15. CASE Next
  <2>1. \/ StoreNext /\ UNCHANGED <<paidVars, joinVars, offerVars, potVars, dailyVars, RecognitionVars>>
        \/ PaidActionsNext /\ UNCHANGED <<storeVars, joinVars, offerVars, potVars, dailyVars, RecognitionVars>>
        \/ JoinsNext /\ UNCHANGED <<storeVars, paidVars, offerVars, potVars, dailyVars, RecognitionVars>>
        \/ OfferNext /\ UNCHANGED <<storeVars, paidVars, joinVars, potVars, dailyVars, RecognitionVars>>
        \/ PotNext /\ UNCHANGED <<storeVars, paidVars, joinVars, offerVars, dailyVars, RecognitionVars>>
        \/ DailyNext /\ UNCHANGED <<storeVars, paidVars, joinVars, offerVars, potVars, RecognitionVars>>
        \/ GrantsNext /\ Elsewhere
        \/ (\E r \in Req : SettleStep(r)) /\ Elsewhere
        \/ AchievementsNext /\ Elsewhere
    BY <1>15 DEF Next, Elsewhere
  <2> QED
    BY <2>1, <1>2, <1>3, <1>4, <1>5, <1>6, <1>7, <1>10, <1>13, <1>14
<1> QED
  BY <1>12, <1>15

(* Whatever the interleaving and whatever fails, points are neither made    *)
(* nor lost: the balances, what handlers hold, the pools, the pots, the     *)
(* applications and what was spent are what there was and what was awarded. *)
THEOREM PointsAreConserved == Spec => []Conserved
<1>1. Init => Known /\ LedgerInv /\ Conserved
  BY KnownInit, LedgerInit, BooksOpen
<1>2. Known /\ LedgerInv /\ Conserved /\ [Next]_vars => (Known /\ LedgerInv /\ Conserved)'
  BY KnownNext, BooksNext
<1> QED
  BY <1>1, <1>2, PTL DEF Spec

---------------------------------------------------------------------------
(* A step fails at most once.                                               *)
LEMMA FaultsFall == ASSUME [Next]_vars PROVE NoFault \/ Fault
<1> USE DEF NoFault, Fault
<1>1. CASE StoreNext
  <2>1. PICK r \in Req : StoreActs(r)
    BY <1>1 DEF StoreNext, StoreActs
  <2> QED
    BY <2>1 DEF StoreActs, BuyRead, ClaimStock, BuyDeduct, Deduct, Grant, BuyRefund, Refund, RestoreStock,
       RecordPurchase, EditOpen, EditSave, DeleteItem, StoreDie, Die, Cut
<1>2. CASE PaidActionsNext
  <2>1. PICK r \in Req : PaidActs(r)
    BY <1>2 DEF PaidActionsNext, PaidActs
  <2> QED
    BY <2>1 DEF PaidActs, MedalRead, MedalDeduct, MedalGrant, CastRead, CastDeduct, CastWrite, AddXP,
       BoostDeduct, BoostWrite, BoostPriority, PaidRefund, PaidDie, Deduct, Refund, Die, Cut
<1>3. CASE JoinsNext
  <2>1. PICK r \in Req : JoinActs(r)
    BY <1>3 DEF JoinsNext, JoinActs
  <2> QED
    BY <2>1 DEF JoinActs, JoinRead, JoinDeduct, Subscribe, CreateJoinRequest, ApplyRefund, Approve, Deny,
       DenyRefund, Redeem, JoinDie, Deduct, Refund, Die, Cut
<1>4. CASE OfferNext
  <2>1. CASE Sweep
    BY <2>1 DEF Sweep, pointsVars
  <2>2. ASSUME NEW r \in Req, OfferActs(r) PROVE NoFault \/ Fault
    BY <2>2 DEF OfferActs, Stake, CreateOrJoin, BackRefund, Withdraw, WithdrawRefund, Claim, Deliver, Settle,
       PayOfferer, Fail, OfferDie, Deduct, Refund, Die, Cut
  <2> QED
    BY <1>4, <2>1, <2>2 DEF OfferNext, OfferActs
<1>5. CASE PotNext
  <2>1. PICK r \in Req : PotActs(r)
    BY <1>5 DEF PotNext, PotActs
  <2> QED
    BY <2>1 DEF PotActs, PotRead, PotInsert, WithinLimit, PotDeduct, AddRow, AddTotal, DonateRefund,
       CloseCycle, Draw, Console, GiveDeduct, GiveShare, PotDie, Deduct, Refund, Die, Cut
<1>6. CASE DailyNext
  <2>1. CASE Midnight
    BY <2>1 DEF Midnight, pointsVars
  <2>2. ASSUME NEW r \in Req, DailyActs(r) PROVE NoFault \/ Fault
    BY <2>2 DEF DailyActs, DailyStart, ClaimLocked, ClaimUnlocked, Upsert, DailyAward, DailyDie, Die, Cut
  <2> QED
    BY <1>6, <2>1, <2>2 DEF DailyNext, DailyActs
<1>7. CASE GrantsNext
  <2>1. CASE Count
    BY <2>1 DEF Count, pointsVars
  <2>2. ASSUME NEW r \in Req, GrantActs(r) PROVE NoFault \/ Fault
    BY <2>2 DEF GrantActs, ClaimGrant, GrantOneOff, UnitsRead, UnitsOwed, GrantPerUnit, GrantReturn,
       ExpireGrants, GrantDie, Insert, Die, Cut
  <2> QED
    BY <1>7, <2>1, <2>2 DEF GrantsNext, GrantActs
<1>8. ASSUME NEW r \in Req, SettleStep(r) PROVE NoFault \/ Fault
  BY <1>8 DEF SettleStep, SettleRead, PayLine, MarkLine, SettleGrant
<1>9. CASE AchievementsNext
  <2>1. PICK r \in Req : AchActs(r)
    BY <1>9 DEF AchievementsNext, AchActs
  <2> QED
    BY <2>1 DEF AchActs, Post, Increment, ScoreRead, ScoreOne, MarkBackfilled, Complete, PayBadge, Stamp,
       Unpaid, Repair, AchDie, Insert, Die, Cut
<1>10. CASE UNCHANGED vars
  BY <1>10 DEF vars, pointsVars
<1> QED
  BY <1>1, <1>2, <1>3, <1>4, <1>5, <1>6, <1>7, <1>8, <1>9, <1>10 DEF Next

(* What members gave to a pot only grows.                                   *)
GiftsIn(P) == \A c \in Cycle : P[c].gave \in [Member -> Nat]

LEMMA GiftsNext ==
    ASSUME Known, GiftsIn(pot), \A r \in Req : Who(r) \in Member /\ Amt(r) \in Nat, [Next]_vars
    PROVE  GiftsIn(pot')
<1> USE DEF Known
<1>0. pot = [c \in Cycle |-> pot[c]] /\ \A c \in Cycle : DOMAIN pot[c] = Columns
  BY DEF PotInv, PotShape
<1>1. CASE UNCHANGED potVars
  BY <1>1 DEF potVars, GiftsIn
<1>2. CASE PotNext
  <2>1. PICK r \in Req : PotActs(r)
    BY <1>2 DEF PotNext, PotActs
  <2>2. CASE UNCHANGED pot
    BY <2>2 DEF GiftsIn
  <2>3. ASSUME NEW c \in Cycle, NEW x, StatusSet(c, x) \/ WinnerSet(c, x) \/ TotalOf(c, x)
        PROVE  GiftsIn(pot')
    BY <1>0, <2>3 DEF GiftsIn, StatusSet, WinnerSet, TotalOf, Columns
  <2>4. ASSUME NEW c \in Cycle, NEW m \in Member, WinnerPaid(r, c, m)
        PROVE  GiftsIn(pot')
    <3>1. \A d \in Cycle \ {c} : pot'[d] = pot[d]
      BY <1>0, <2>4 DEF WinnerPaid
    <3>2. pot'[c] = [[pot[c] EXCEPT !.winner = m] EXCEPT !.paid = pot[c].paid + Winnings(r)]
      BY <1>0, <2>4 DEF WinnerPaid, Columns
    <3>3. pot'[c].gave = pot[c].gave
      BY <1>0, <3>2 DEF Columns
    <3> QED
      BY <3>1, <3>3 DEF GiftsIn
  <2>5. ASSUME NEW c \in Cycle, NEW m \in Member, NEW n \in Nat, GaveSet(c, m, n)
        PROVE  GiftsIn(pot')
    <3>1. \A d \in Cycle \ {c} : pot'[d] = pot[d]
      BY <1>0, <2>5 DEF GaveSet
    <3>2. pot'[c] = [pot[c] EXCEPT !.gave = [pot[c].gave EXCEPT ![m] = @ + n]]
      BY <1>0, <2>5 DEF GaveSet, Columns
    <3>3. pot'[c].gave = [pot[c].gave EXCEPT ![m] = @ + n]
      BY <1>0, <3>2 DEF Columns
    <3>4. pot'[c].gave \in [Member -> Nat]
      BY <3>3 DEF GiftsIn
    <3> QED
      BY <3>1, <3>4 DEF GiftsIn
  <2>6. call[r].op = "donate" /\ call[r].pc \in {"charged", "inserted", "full", "draw"}
          => call[r].arg \in Cycle
    BY DEF PotInv, Donating
  <2>7. CASE PotInsert(r)
    <3>1. \E c \in Cycle : StatusSet(c, "open")
      BY <2>7 DEF PotInsert, StatusSet
    <3> QED
      BY <2>3, <3>1
  <2>8. CASE AddRow(r)
    <3>1. UNCHANGED pot \/ GaveSet(call[r].arg, Who(r), Amt(r))
      BY <2>8 DEF AddRow, GaveSet
    <3> QED
      BY <2>2, <2>5, <2>6, <2>8, <3>1 DEF AddRow, At
  <2>9. CASE AddTotal(r)
    <3>1. UNCHANGED pot \/ TotalOf(call[r].arg, pot[call[r].arg].total + Amt(r))
      BY <2>9 DEF AddTotal, TotalOf
    <3> QED
      BY <2>2, <2>3, <2>6, <2>9, <3>1 DEF AddTotal, At
  <2>10. CASE CloseCycle(r)
    <3>1. UNCHANGED pot \/ StatusSet(call[r].arg, "closed")
      BY <2>10 DEF CloseCycle, StatusSet
    <3> QED
      BY <2>2, <2>3, <2>6, <2>10, <3>1 DEF CloseCycle, At
  <2>11. CASE Draw(r)
    <3>1. \/ UNCHANGED pot \/ \E m : WinnerSet(call[r].arg, m)
          \/ \E m \in Member : WinnerPaid(r, call[r].arg, m)
      BY <2>11 DEF Draw, WinnerSet, WinnerPaid
    <3> QED
      BY <2>2, <2>3, <2>4, <2>6, <2>11, <3>1 DEF Draw, At
  <2>12. CASE PotRead(r) \/ WithinLimit(r) \/ PotDeduct(r) \/ DonateRefund(r) \/ Console(r)
              \/ GiveDeduct(r) \/ GiveShare(r) \/ PotDie(r)
    BY <2>2, <2>12 DEF PotRead, WithinLimit, PotDeduct, DonateRefund, Console, GiveDeduct, GiveShare,
       PotDie, potVars
  <2> QED
    BY <2>1, <2>7, <2>8, <2>9, <2>10, <2>11, <2>12 DEF PotActs
<1> QED
  BY <1>1, <1>2 DEF Next, vars

(* The columns no other invariant is about.                                 *)
ColumnsInv ==
    /\ faults \in Nat
    /\ medal \subseteq Member /\ xp \in [Member -> Nat]
    /\ subscribed \subseteq Member /\ inviteUsed \in 0..InviteUses
    /\ GiftsIn(pot)

LEMMA ColumnsInit == ASSUME Init PROVE ColumnsInv
<1>1. faults \in Nat
  BY PointsAssumption DEF Init, PointsInit, HandlersInit
<1>2. medal \subseteq Member /\ xp \in [Member -> Nat] /\ subscribed \subseteq Member /\ inviteUsed = 0
  BY DEF Init, PaidActionsInit, JoinsInit
<1>3. GiftsIn(pot)
  BY DEF Init, PotInit, NoCycle, GiftsIn
<1> QED
  BY <1>1, <1>2, <1>3, JoinsAssumption DEF ColumnsInv

LEMMA ColumnsNext == ASSUME Known, LedgerInv, ColumnsInv, [Next]_vars PROVE ColumnsInv'
<1>1. faults' \in Nat
  BY FaultsFall DEF ColumnsInv, NoFault, Fault
<1>2. \A r \in Req : Who(r) \in Member /\ Amt(r) \in Nat
  BY DEF LedgerInv, Purse, Who, Amt
<1>3. (medal \subseteq Member /\ xp \in [Member -> Nat])'
  <2>1. CASE UNCHANGED paidVars
    BY <2>1 DEF ColumnsInv, paidVars
  <2>2. CASE PaidActionsNext
    <3>1. PICK r \in Req : PaidActs(r)
      BY <2>2 DEF PaidActionsNext, PaidActs
    <3>2. CASE medal' = medal \cup {Who(r)} /\ xp' = xp
      BY <1>2, <3>2 DEF ColumnsInv
    <3>3. CASE medal' = medal /\ xp' = [xp EXCEPT ![Who(r)] = @ + Amt(r)]
      BY <1>2, <3>3 DEF ColumnsInv
    <3>4. CASE medal' = medal /\ xp' = xp
      BY <3>4 DEF ColumnsInv
    <3>5. \/ medal' = medal \cup {Who(r)} /\ xp' = xp
          \/ medal' = medal /\ xp' = [xp EXCEPT ![Who(r)] = @ + Amt(r)]
          \/ medal' = medal /\ xp' = xp
      BY <3>1 DEF PaidActs, paidVars, MedalRead, MedalDeduct, MedalGrant, CastRead, CastDeduct, CastWrite,
         AddXP, BoostDeduct, BoostWrite, BoostPriority, PaidRefund, PaidDie
    <3> QED
      BY <3>2, <3>3, <3>4, <3>5
  <2> QED
    BY <2>1, <2>2 DEF Next, vars
<1>4. (subscribed \subseteq Member /\ inviteUsed \in 0..InviteUses)'
  <2>1. CASE UNCHANGED joinVars
    BY <2>1 DEF ColumnsInv, joinVars
  <2>2. CASE JoinsNext
    <3>1. PICK r \in Req : JoinActs(r)
      BY <2>2 DEF JoinsNext, JoinActs
    <3>2. /\ \/ inviteUsed' = inviteUsed
             \/ inviteUsed < InviteUses /\ inviteUsed' = inviteUsed + 1
          /\ \/ subscribed' \subseteq subscribed
             \/ \E a \in Req : subscribed' = subscribed \cup {Who(a)}
      BY <3>1 DEF JoinActs, joinVars, JoinRead, JoinDeduct, Subscribe, CreateJoinRequest, ApplyRefund,
         Approve, Deny, DenyRefund, Redeem, JoinDie
    <3>3. subscribed' \subseteq Member
      BY <1>2, <3>2 DEF ColumnsInv
    <3>4. inviteUsed' \in 0..InviteUses
      BY <3>2, JoinsAssumption DEF ColumnsInv
    <3> QED
      BY <3>3, <3>4
  <2> QED
    BY <2>1, <2>2 DEF Next, vars
<1>5. GiftsIn(pot')
  BY <1>2, GiftsNext DEF ColumnsInv
<1> QED
  BY <1>1, <1>3, <1>4, <1>5 DEF ColumnsInv

LEMMA TypesHold == ASSUME Known, LedgerInv, ColumnsInv PROVE TypeOK
<1>1. \A r \in Req : call[r].hand \in Nat /\ call[r].owed \in BOOLEAN
  <2>1. \A r \in Req : call[r].hand \in Nat
    BY DEF LedgerInv, Purse
  <2>2. \A r \in Req : call[r].owed \in BOOLEAN
    BY DEF LedgerInv, Purse
  <2> QED
    BY <2>1, <2>2
<1>2. item.stock \in Int
  BY ShelfInt DEF Known
<1>3. unit \subseteq Req /\ granted \subseteq Req
  BY DEF Known, SaleInv
<1>4. \A q \in Rid : offer[q].stake \in [Member -> Nat]
  BY DEF Known, OfferInv, OfferShape
<1>5. \A c \in Cycle : pot[c].total \in Nat /\ pot[c].gave \in [Member -> Nat]
  BY DEF Known, PotInv, PotShape, ColumnsInv, GiftsIn
<1>6. balance \in [Member -> Nat] /\ today \in FirstDay..LastDay /\ minted \in Nat
  BY DEF LedgerInv, DayTypes
<1> QED
  BY <1>1, <1>2, <1>3, <1>4, <1>5, <1>6 DEF TypeOK, ColumnsInv

(* The types, among them that no balance, no hand of a handler and no stake *)
(* ever goes below zero, and that an invite is not used beyond its limit.   *)
THEOREM PointsTypes == Spec => []TypeOK
<1>1. Init => Known /\ LedgerInv /\ Conserved /\ ColumnsInv
  BY KnownInit, LedgerInit, BooksOpen, ColumnsInit
<1>2. Known /\ LedgerInv /\ Conserved /\ ColumnsInv /\ [Next]_vars
        => (Known /\ LedgerInv /\ Conserved /\ ColumnsInv)'
  BY KnownNext, BooksNext, ColumnsNext
<1>3. Known /\ LedgerInv /\ Conserved /\ ColumnsInv => TypeOK
  BY TypesHold
<1> QED
  BY <1>1, <1>2, <1>3, PTL DEF Spec

---------------------------------------------------------------------------
(* The reward engine and the achievements that pay through it, on these    *)
(* books: a credited grant was paid in full, and of the events and the job *)
(* that see an achievement met one completes and announces it, and it is   *)
(* stamped paid when its grant is there.                                   *)
---------------------------------------------------------------------------
(* What a step does to the grants: nothing, or one of the steps below.      *)
AddActs(r) == GrantOneOff(r) \/ GrantPerUnit(r) \/ PayBadge(r)

Quiet1 ==
    /\ UNCHANGED <<grants, settling>>
    /\ UNCHANGED call \/ \E r \in Req : MovesOnly(r) /\ call'[r].pc \notin Settling

LEMMA QuietActs ==
    ASSUME Known, NEW r \in Req, GrantActs(r) \/ AchActs(r),
           ~AddActs(r), ~ClaimGrant(r), ~ExpireGrants(r)
    PROVE  Quiet1
<1> USE DEF Known
<1>1. MovesOnly(r)
  BY GrantStep, AchStep DEF Frame
<1>2. UNCHANGED <<grants, settling>>
  BY DEF GrantActs, AchActs, AddActs, UnitsRead, UnitsOwed, GrantReturn, GrantDie, Post, Increment,
     ScoreRead, ScoreOne, MarkBackfilled, Complete, Stamp, Unpaid, Repair, AchDie, grantVars
<1> SUFFICES call'[r].pc \notin Settling
  BY <1>1, <1>2 DEF Quiet1
<1>3. ASSUME NEW x, x \notin Settling, Goto(r, x) PROVE call'[r].pc \notin Settling
  BY <1>3, GotoMoves DEF Frame
<1>4. Back(r) \notin Settling
  BY DEF Back, Settling
<1>5. CASE GrantReturn(r) \/ GrantDie(r) \/ Post(r) \/ MarkBackfilled(r) \/ Complete(r) \/ Stamp(r)
           \/ AchDie(r)
  <2>1. \E x : x \notin Settling /\ Goto(r, x)
    BY <1>4, <1>5 DEF GrantReturn, GrantDie, Post, MarkBackfilled, Complete, Stamp, AchDie, Die, Cut, Settling
  <2> QED
    BY <1>3, <2>1
<1>6. call = [s \in Req |-> call[s]] /\ IsCall(call[r])
  BY DEF Frame, Shaped
<1>7. CASE UnitsRead(r)
  BY <1>6, <1>7 DEF UnitsRead, Settling, IsCall, Fields
<1>8. CASE UnitsOwed(r)
  <2>1. CASE Goto(r, "granted")
    BY <1>3, <2>1 DEF Settling
  <2>2. ASSUME NEW a, UnitsSet(r, a) PROVE call'[r].pc \notin Settling
    BY <2>2, SetUnits DEF Settling, Frame
  <2> QED
    BY <1>8, <2>1, <2>2 DEF UnitsOwed, UnitsSet
<1>9. ASSUME NEW x, NEW a, ArgSet(r, x, a), x \notin Settling PROVE call'[r].pc \notin Settling
  BY <1>9, SetArg DEF Frame
<1>10. CASE Increment(r) \/ ScoreRead(r) \/ Unpaid(r)
  <2>1. (\E x : x \notin Settling /\ Goto(r, x)) \/ (\E x, a : x \notin Settling /\ ArgSet(r, x, a))
    <3>1. CASE Increment(r)
      BY <3>1 DEF Increment, ArgSet, Settling
    <3>2. CASE ScoreRead(r) \/ Unpaid(r)
      BY <3>2 DEF ScoreRead, Unpaid, ArgSet, Settling
    <3> QED
      BY <1>10, <3>1, <3>2
  <2> QED
    BY <1>3, <1>9, <2>1
<1>11. ASSUME NEW m, NEW x, TodoSet(r, m, x), x \notin Settling PROVE call'[r].pc \notin Settling
  BY <1>6, <1>11 DEF TodoSet, IsCall, Fields
<1>12. CASE ScoreOne(r)
  <2>1. (\E x : x \notin Settling /\ Goto(r, x)) \/ (\E m, x : x \notin Settling /\ TodoSet(r, m, x))
    <3>1. PICK m : Goto(r, "unpaid") \/ \E x \in {"complete", "scoring"} : TodoSet(r, m, x)
      BY <1>12 DEF ScoreOne, TodoSet
    <3> QED
      BY <3>1 DEF Settling
  <2> QED
    BY <1>3, <1>11, <2>1
<1>13. CASE Repair(r)
  <2>1. (\E x, a : x \notin Settling /\ ArgSet(r, x, a)) \/ (\E m, x : x \notin Settling /\ TodoSet(r, m, x))
    BY <1>13 DEF Repair, TodoSet, ArgSet, Settling
  <2> QED
    BY <1>9, <1>11, <2>1
<1> QED
  BY <1>5, <1>7, <1>8, <1>10, <1>12, <1>13 DEF GrantActs, AchActs, AddActs

LEMMA GrantsMove ==
    ASSUME Known, [Next]_vars
    PROVE  \/ Quiet1
           \/ \E r \in Req : AddActs(r) \/ ClaimGrant(r) \/ ExpireGrants(r) \/ SettleStep(r)
<1> USE DEF Known
<1>1. CASE UNCHANGED vars \/ Count
  BY <1>1 DEF vars, Count, pointsVars, grantVars, Quiet1
<1>2. CASE UNCHANGED grantVars /\ (StoreNext \/ PaidActionsNext \/ JoinsNext \/ OfferNext \/ PotNext \/ DailyNext)
  <2>1. UNCHANGED call \/ \E r \in Req : MovesOnly(r) /\ call'[r].pc \notin Settling
    BY <1>2, StoreSteps, PaidSteps, JoinSteps, OfferSteps, PotSteps, DailySteps DEF StepOf, Frame
  <2> QED
    BY <1>2, <2>1 DEF Quiet1, grantVars
<1>3. ASSUME NEW r \in Req, GrantActs(r) \/ AchActs(r)
      PROVE  Quiet1 \/ AddActs(r) \/ ClaimGrant(r) \/ ExpireGrants(r)
  BY <1>3, QuietActs
<1>4. CASE Next
  <2>1. \/ UNCHANGED grantVars /\ (StoreNext \/ PaidActionsNext \/ JoinsNext \/ OfferNext \/ PotNext \/ DailyNext)
        \/ Count \/ (\E r \in Req : GrantActs(r)) \/ (\E r \in Req : SettleStep(r))
        \/ \E r \in Req : AchActs(r)
    BY <1>4 DEF Next, GrantsNext, GrantActs, AchievementsNext, AchActs, RecognitionVars
  <2> QED
    BY <1>1, <1>2, <1>3, <2>1
<1> QED
  BY <1>1, <1>4

---------------------------------------------------------------------------
(* A line is marked only when it was handed over, a grant credited only     *)
(* when every line was, and a request that settles has handed over what it  *)
(* no longer has before it.                                                 *)
HandedOver(g, l) == grants[g].handed[l] > 0

PaidRow(g) ==
    /\ \A l \in grants[g].settled : HandedOver(g, l)
    /\ grants[g].state = "credited" => \A l \in LinesOf(g) : HandedOver(g, l)

PaidUp(r) == call[r].pc \in {"lines", "mark"} =>
    /\ \A l \in LinesOf(Mine(r)) \ settling[r].lines : HandedOver(Mine(r), l)
    /\ call[r].pc = "mark" => HandedOver(Mine(r), Min(settling[r].lines))

PayInv == (\A g \in DOMAIN grants : PaidRow(g)) /\ \A r \in Req : PaidUp(r)

(* What was handed over stays so.                                           *)
HandsGrow == \A g \in DOMAIN grants : \A l \in LinesOf(g) :
    HandedOver(g, l) => HandedOver(g, l)'

LEMMA UpKept ==
    ASSUME LedgerInv, GrantsGrow, HandsGrow, NEW s \in Req, PaidUp(s),
           call'[s] = call[s], settling'[s] = settling[s]
    PROVE  PaidUp(s)'
<1> SUFFICES ASSUME call[s].pc \in {"lines", "mark"} PROVE PaidUp(s)'
  BY DEF PaidUp
<1>1. PICK i \in DOMAIN grants : i = Mine(s)
  BY AtSettling DEF Settling
<1>2. Mine(s)' = i /\ LinesOf(i)' = LinesOf(i)
  BY <1>1 DEF Mine, GrantsGrow, GrowsTo, Stays1, LinesOf
<1>3. PICK L \in SUBSET LinesOf(i) : L = settling[s].lines
  BY <1>1, AtSettling DEF Settling
<1>4. \A l \in LinesOf(i) \ L : HandedOver(i, l)'
  BY <1>1, <1>3 DEF PaidUp, HandsGrow
<1>5. call[s].pc = "mark" => HandedOver(i, Min(L))'
  <2>1. call[s].pc = "mark" => Min(L) \in LinesOf(i)
    BY <1>1, <1>3, AtSettling, LinesLeft DEF Settling
  <2> QED
    BY <1>1, <1>3, <2>1 DEF PaidUp, HandsGrow
<1> QED
  BY <1>2, <1>3, <1>4, <1>5 DEF PaidUp

(* Rows whose payouts a step leaves alone, and new ones.                    *)
Untouched(g) ==
    /\ grants'[g].handed = grants[g].handed /\ grants'[g].settled = grants[g].settled
    /\ grants'[g].state = "credited" => grants[g].state = "credited"
Fresh(g) == grants'[g].settled = {} /\ grants'[g].state = "pending"

LEMMA RowUntouched ==
    ASSUME GrantsGrow, NEW g \in DOMAIN grants, Untouched(g), PaidRow(g)
    PROVE  PaidRow(g)' /\ \A l \in LinesOf(g) : HandedOver(g, l) => HandedOver(g, l)'
<1>1. LinesOf(g)' = LinesOf(g)
  BY DEF GrantsGrow, GrowsTo, Stays1, LinesOf
<1> QED
  BY <1>1 DEF Untouched, PaidRow, HandedOver

LEMMA PayRests ==
    ASSUME LedgerInv, PayInv, NEW r \in Req, MovesOnly(r), call'[r].pc \notin {"lines", "mark"},
           \A s \in Req \ {r} : settling'[s] = settling[s], GrantsGrow,
           \A g \in DOMAIN grants : Untouched(g),
           \A g \in DOMAIN grants' \ DOMAIN grants : Fresh(g)
    PROVE  PayInv'
<1>1. \A g \in DOMAIN grants : PaidRow(g)'
  BY RowUntouched DEF PayInv
<1>2. HandsGrow
  BY RowUntouched DEF PayInv, HandsGrow
<1>3. \A g \in DOMAIN grants' \ DOMAIN grants : PaidRow(g)'
  BY DEF Fresh, PaidRow
<1>4. \A s \in Req \ {r} : PaidUp(s)'
  BY <1>2, UpKept DEF PayInv, MovesOnly
<1>5. PaidUp(r)'
  BY DEF PaidUp
<1> QED
  BY <1>1, <1>3, <1>4, <1>5 DEF PayInv

LEMMA QuietPays == ASSUME LedgerInv, PayInv, Quiet1 PROVE PayInv'
<1>1. GrantsGrow /\ \A g \in DOMAIN grants : Untouched(g)
  BY SameRows DEF Quiet1, Untouched
<1>2. CASE UNCHANGED call
  <2>1. HandsGrow
    BY DEF Quiet1, HandsGrow, HandedOver
  <2>2. \A s \in Req : PaidUp(s)'
    BY <1>1, <1>2, <2>1, UpKept DEF Quiet1, PayInv
  <2>3. \A g \in DOMAIN grants : PaidRow(g)'
    BY <1>1, RowUntouched DEF PayInv
  <2> QED
    BY <2>2, <2>3 DEF PayInv, Quiet1
<1>3. ASSUME NEW r \in Req, MovesOnly(r), call'[r].pc \notin Settling PROVE PayInv'
  <2>1. call'[r].pc \notin {"lines", "mark"}
    BY <1>3 DEF Settling
  <2>2. /\ \A s \in Req \ {r} : settling'[s] = settling[s]
        /\ \A g \in DOMAIN grants' \ DOMAIN grants : Fresh(g)
    BY DEF Quiet1
  <2> QED
    BY <1>1, <1>3, <2>1, <2>2, PayRests
<1> QED
  BY <1>2, <1>3 DEF Quiet1

(* A new row, whoever adds it.                                              *)
LEMMA AddRowsOnly ==
    ASSUME Known, LedgerInv, NEW r \in Req, AddActs(r)
    PROVE  \E slug \in DOMAIN Reward, ref \in Ref, mark \in Nat, units \in Nat :
              Insert(r, slug, ref, mark, units)
<1>1. CASE GrantOneOff(r)
  <2>1. call[r].arg \in DOMAIN Reward
    BY <1>1 DEF GrantOneOff, At, LedgerInv, Granting
  <2>2. <<"once">> \in Ref
    BY DEF Ref
  <2> QED
    BY <1>1, <2>1, <2>2 DEF GrantOneOff
<1>2. CASE GrantPerUnit(r)
  <2>1. call[r].arg.slug \in DOMAIN Reward /\ call[r].arg.units \in Nat /\ Amt(r) \in Nat
    BY <1>2 DEF GrantPerUnit, At, LedgerInv, Granting, Purse, Amt
  <2>2. <<"mark", Amt(r)>> \in Ref
    BY <2>1 DEF Ref
  <2> QED
    BY <1>2, <2>1, <2>2 DEF GrantPerUnit
<1>3. CASE PayBadge(r)
  BY <1>3, AchievementAssumption DEF PayBadge, Ref
<1> QED
  BY <1>1, <1>2, <1>3 DEF AddActs

LEMMA NewIsFresh ==
    ASSUME Rows, NEW slug \in DOMAIN Reward, NEW m \in Member, NEW ref \in Ref, NEW mark \in Nat,
           NEW units \in Nat, grants' = Append(grants, NewGrant(slug, m, ref, mark, units))
    PROVE  /\ GrantsGrow /\ \A g \in DOMAIN grants : grants'[g] = grants[g]
           /\ \A g \in DOMAIN grants' \ DOMAIN grants :
                 /\ g = Len(grants) + 1
                 /\ grants'[g] = NewGrant(slug, m, ref, mark, units)
<1>1. PICK p \in GrantRow : p = NewGrant(slug, m, ref, mark, units)
  BY NewRow
<1>2. Lined(p)
  BY <1>1, NewRow
<1> QED
  BY <1>1, <1>2, RowAdded

LEMMA AddPays ==
    ASSUME Known, LedgerInv, PayInv, NEW r \in Req, AddActs(r)
    PROVE  PayInv'
<1>1. PICK slug \in DOMAIN Reward, ref \in Ref, mark \in Nat, units \in Nat :
         Insert(r, slug, ref, mark, units)
  BY AddRowsOnly
<1>2. ASSUME NEW x \in {"read", "granted", "ungranted"}, Goto(r, x)
      PROVE  MovesOnly(r) /\ call'[r].pc \notin {"lines", "mark"}
  BY <1>2, GotoMoves DEF Known, Frame
<1>3. Rows /\ Who(r) \in Member
  BY DEF LedgerInv, GrantTypes, Purse, Who
<1>4. CASE /\ grants' = Append(grants, NewGrant(slug, Who(r), ref, mark, units))
           /\ SettlingSet(r, Len(grants) + 1, {})
           /\ Goto(r, "read") \/ Goto(r, "granted")
  <2>1. /\ GrantsGrow /\ \A g \in DOMAIN grants : grants'[g] = grants[g]
        /\ \A g \in DOMAIN grants' \ DOMAIN grants :
              grants'[g] = NewGrant(slug, Who(r), ref, mark, units)
    BY <1>3, <1>4, NewIsFresh
  <2>2. /\ \A g \in DOMAIN grants : Untouched(g)
        /\ \A g \in DOMAIN grants' \ DOMAIN grants : Fresh(g)
    BY <2>1 DEF Untouched, Fresh, NewGrant
  <2>3. \A s \in Req \ {r} : settling'[s] = settling[s]
    BY <1>4, SetSettling
  <2> QED
    BY <1>2, <1>4, <2>1, <2>2, <2>3, PayRests
<1>5. CASE (Goto(r, "ungranted") \/ Goto(r, "granted")) /\ UNCHANGED <<grants, settling>>
  <2>1. Quiet1
    <3>1. MovesOnly(r) /\ call'[r].pc \notin Settling
      BY <1>5, GotoMoves DEF Known, Frame, Settling
    <3> QED
      BY <1>5, <3>1 DEF Quiet1
  <2> QED
    BY <2>1, QuietPays
<1> QED
  BY <1>1, <1>4, <1>5, InsertRows

LEMMA ClaimPays ==
    ASSUME Known, LedgerInv, PayInv, NEW r \in Req, ClaimGrant(r)
    PROVE  PayInv'
<1>1. UNCHANGED grants /\ Goto(r, "read")
  BY DEF ClaimGrant
<1>2. GrantsGrow /\ \A g \in DOMAIN grants : Untouched(g)
  BY <1>1, SameRows DEF Untouched
<1>3. PICK g : settling' = [settling EXCEPT ![r].grant = g]
  BY DEF ClaimGrant
<1>4. \A s \in Req \ {r} : settling'[s] = settling[s]
  BY <1>3 DEF LedgerInv, GrantTypes
<1>5. MovesOnly(r) /\ call'[r].pc \notin {"lines", "mark"}
  BY <1>1, GotoMoves DEF Known, Frame
<1> QED
  BY <1>1, <1>2, <1>4, <1>5, PayRests

LEMMA ExpirePays ==
    ASSUME Known, LedgerInv, PayInv, NEW r \in Req, ExpireGrants(r)
    PROVE  PayInv'
<1>1. UNCHANGED settling /\ Goto(r, "done")
  BY DEF ExpireGrants
<1>2. PICK late \in SUBSET {g \in DOMAIN grants : Lapsed(grants[g])} :
         grants' = [g \in DOMAIN grants |->
                     IF g \in late THEN [grants[g] EXCEPT !.state = "expired"] ELSE grants[g]]
  BY DEF ExpireGrants
<1>3. Rows
  BY DEF LedgerInv, GrantTypes
<1>4. /\ GrantsGrow /\ DOMAIN grants' = DOMAIN grants
      /\ \A g \in DOMAIN grants :
            grants'[g] = grants[g] \/ grants'[g] = Stated1(grants[g], "expired")
  BY <1>2, <1>3, ExpireRows
<1>5. \A g \in DOMAIN grants : Untouched(g)
  <2>1. \A g \in DOMAIN grants : grants[g] \in GrantRow /\ Lined(grants[g])
    BY <1>3, RowFacts
  <2> QED
    BY <1>4, <2>1, StatedRow DEF Untouched
<1>6. MovesOnly(r) /\ call'[r].pc \notin {"lines", "mark"}
  BY <1>1, GotoMoves DEF Known, Frame
<1> QED
  BY <1>1, <1>4, <1>5, <1>6, PayRests

(* A settlement that failed leaves things as they are.                      *)
LEMMA FailsQuietly ==
    ASSUME Known, NEW r \in Req, NEW x, x \notin Settling,
           Goto(r, x) \/ OwedSet(r, x, TRUE), UNCHANGED <<grants, settling>>
    PROVE  Quiet1
<1>1. MovesOnly(r) /\ call'[r].pc = x
  <2>1. CASE Goto(r, x)
    BY <2>1, GotoMoves DEF Known, Frame
  <2>2. CASE OwedSet(r, x, TRUE)
    BY <2>2, OwedGoes DEF Known, Goes
  <2> QED
    BY <2>1, <2>2
<1> QED
  BY <1>1 DEF Quiet1

LEMMA ReadPays ==
    ASSUME Known, LedgerInv, PayInv, NEW r \in Req, SettleRead(r)
    PROVE  PayInv'
<1>1. call[r].pc = "read" /\ UNCHANGED grants
  BY DEF SettleRead
<1>2. call[r].pc \in Settling
  BY <1>1 DEF Settling
<1>3. PICK i : i = Mine(r)
  OBVIOUS
<1>4. Rows /\ i \in DOMAIN grants
  BY <1>2, <1>3, AtSettling
<1>5. GrantsGrow /\ \A g \in DOMAIN grants : Untouched(g)
  BY <1>1, SameRows DEF Untouched
<1>6. ASSUME NEW x \in {"lines", "granted", "failed"}, Goto(r, x),
             settling' = [settling EXCEPT ![r].lines = DOMAIN grants[i].handed \ grants[i].settled]
      PROVE  PayInv'
  <2>1. PICK L : L = DOMAIN grants[i].handed \ grants[i].settled
    OBVIOUS
  <2>2. SettlingSet(r, i, L)
    BY <1>2, <1>3, <1>6, <2>1, LinesSet
  <2>3. /\ settling'[r] = [grant |-> i, lines |-> L]
        /\ \A s \in Req \ {r} : settling'[s] = settling[s]
    BY <2>2, SetSettling
  <2>4. MovesOnly(r) /\ call'[r].pc = x
    BY <1>6, GotoMoves DEF Known, Frame
  <2>5. \A g \in DOMAIN grants : PaidRow(g)' /\ PaidRow(g)
    BY <1>1, <1>5, RowUntouched DEF PayInv
  <2>6. HandsGrow
    BY <1>1 DEF HandsGrow, HandedOver
  <2>7. \A s \in Req \ {r} : PaidUp(s)'
    BY <1>5, <2>3, <2>4, <2>6, UpKept DEF PayInv, MovesOnly
  <2>8. PaidUp(r)'
    <3>1. Mine(r)' = i /\ settling'[r].lines = L /\ LinesOf(i)' = LinesOf(i)
      BY <1>1, <2>3 DEF Mine, LinesOf
    <3>2. DOMAIN grants[i].handed = LinesOf(i)
      BY <1>4, RowFacts DEF Lined, LinesOf
    <3>3. \A l \in LinesOf(i) \ L : HandedOver(i, l)'
      BY <1>1, <1>4, <2>1, <2>5, <3>2 DEF PaidRow, HandedOver
    <3>4. call'[r].pc # "mark"
      BY <1>6, <2>4
    <3> QED
      BY <3>1, <3>3, <3>4 DEF PaidUp
  <2> QED
    BY <1>1, <2>5, <2>7, <2>8 DEF PayInv
<1>7. CASE Goto(r, "failed") /\ UNCHANGED settling
  <2>1. Quiet1
    BY <1>1, <1>7, FailsQuietly DEF Settling
  <2> QED
    BY <2>1, QuietPays
<1>8. \/ \E x \in {"lines", "granted", "failed"} :
            Goto(r, x) /\ settling' = [settling EXCEPT ![r].lines = DOMAIN grants[i].handed \ grants[i].settled]
      \/ Goto(r, "failed") /\ UNCHANGED settling
  BY <1>3 DEF SettleRead
<1> QED
  BY <1>6, <1>7, <1>8

LEMMA PayPays ==
    ASSUME Known, LedgerInv, PayInv, NEW r \in Req, PayLine(r)
    PROVE  PayInv'
<1>1. call[r].pc = "lines" /\ UNCHANGED settling
  BY DEF PayLine
<1>2. PICK i : i = Mine(r)
  OBVIOUS
<1>3. PICK l : l = Min(settling[r].lines)
  OBVIOUS
<1>4. /\ Rows /\ i \in DOMAIN grants /\ l \in settling[r].lines /\ l \in DOMAIN grants[i].handed
      /\ settling[r].lines \subseteq LinesOf(i)
      /\ \/ PaidOver(r, i, l)
         \/ UNCHANGED <<balance, paidOut, grants>> /\ OwedSet(r, "failed", TRUE)
  BY <1>2, <1>3, PayRows
<1>5. CASE UNCHANGED grants /\ OwedSet(r, "failed", TRUE)
  <2>1. Quiet1
    BY <1>1, <1>5, FailsQuietly DEF Settling
  <2> QED
    BY <2>1, QuietPays
<1>6. CASE PaidOver(r, i, l)
  <2> USE <1>6 DEF PaidOver
  <2>1. grants[i] \in GrantRow /\ Lined(grants[i]) /\ grants[i].handed \in Seq(Nat)
    BY <1>4, RowFacts
  <2>2. /\ grants'[i].state = grants[i].state /\ grants'[i].settled = grants[i].settled
        /\ grants'[i].handed = [grants[i].handed EXCEPT ![l] = @ + 1]
    BY <1>4, <1>6, <2>1, HandedRow
  <2>3. LinesOf(i)' = LinesOf(i) /\ LinesOf(i) = DOMAIN grants[i].handed
    BY <1>4, <1>6, <2>1 DEF LinesOf, Lined, GrantsGrow, GrowsTo, Stays1
  <2>4. \A k \in LinesOf(i) : (HandedOver(i, k) \/ k = l) => HandedOver(i, k)'
    BY <1>4, <2>1, <2>2, <2>3 DEF HandedOver
  <2>5. PaidRow(i)'
    <3>1. PaidRow(i) /\ grants[i].settled \subseteq LinesOf(i)
      BY <1>4, <2>1 DEF PayInv, Lined, LinesOf
    <3> QED
      BY <2>2, <2>3, <2>4, <3>1 DEF PaidRow
  <2>6. \A g \in DOMAIN grants \ {i} : PaidRow(g)' /\ \A k \in LinesOf(g) : HandedOver(g, k) => HandedOver(g, k)'
    <3>1. \A g \in DOMAIN grants \ {i} : Untouched(g)
      BY <1>6 DEF Untouched
    <3> QED
      BY <1>6, <3>1, RowUntouched DEF PayInv
  <2>7. HandsGrow
    BY <2>4, <2>6 DEF HandsGrow
  <2>8. \A g \in DOMAIN grants' \ DOMAIN grants : PaidRow(g)'
    <3>1. \A g \in DOMAIN grants' \ DOMAIN grants : Fresh(g)
      BY <1>6 DEF Fresh, NewGrant
    <3> QED
      BY <3>1 DEF Fresh, PaidRow
  <2>9. MovesOnly(r) /\ call'[r].pc = "mark"
    BY <1>6, GotoMoves DEF Known, Frame
  <2>10. \A s \in Req \ {r} : PaidUp(s)'
    BY <1>1, <1>6, <2>7, <2>9, UpKept DEF PayInv, MovesOnly
  <2>11. PaidUp(r)'
    <3>1. Mine(r)' = i /\ settling' = settling
      BY <1>1, <1>2 DEF Mine
    <3>2. \A k \in LinesOf(i) \ settling[r].lines : HandedOver(i, k)
      BY <1>1, <1>2 DEF PayInv, PaidUp
    <3>3. \A k \in LinesOf(i) \ settling[r].lines : HandedOver(i, k)'
      BY <2>4, <3>2
    <3>4. HandedOver(i, l)'
      BY <1>4, <2>3, <2>4
    <3>5. PICK L : L = settling[r].lines
      OBVIOUS
    <3>6. (\A k \in LinesOf(i)' \ settling'[r].lines : HandedOver(i, k)') /\ l = Min(settling'[r].lines)
      BY <1>3, <2>3, <3>1, <3>3
    <3> QED
      BY <3>1, <3>4, <3>6 DEF PaidUp
  <2> QED
    BY <2>5, <2>6, <2>8, <2>10, <2>11 DEF PayInv
<1> QED
  BY <1>4, <1>5, <1>6

LEMMA MarkPays ==
    ASSUME Known, LedgerInv, PayInv, NEW r \in Req, MarkLine(r)
    PROVE  PayInv'
<1>1. call[r].pc = "mark"
  BY DEF MarkLine
<1>2. PICK i : i = Mine(r)
  OBVIOUS
<1>3. PICK L : L = settling[r].lines
  OBVIOUS
<1>4. PICK l : l = Min(L)
  OBVIOUS
<1>5. /\ Rows /\ i \in DOMAIN grants /\ L \subseteq LinesOf(i) /\ l \in L
      /\ l \in DOMAIN grants[i].handed /\ Rows' /\ GrantsGrow /\ DOMAIN grants' = DOMAIN grants
      /\ \/ /\ grants'[i] = Marked1(grants[i], l)
            /\ \A g \in DOMAIN grants \ {i} : grants'[g] = grants[g]
            /\ SettlingSet(r, i, L \ {l}) /\ Goto(r, "lines")
         \/ UNCHANGED <<grants, settling>> /\ OwedSet(r, "failed", TRUE)
  BY <1>2, <1>3, <1>4, MarkRows
<1>6. CASE UNCHANGED <<grants, settling>> /\ OwedSet(r, "failed", TRUE)
  <2>1. Quiet1
    BY <1>6, FailsQuietly DEF Settling
  <2> QED
    BY <2>1, QuietPays
<1>7. CASE /\ grants'[i] = Marked1(grants[i], l)
           /\ \A g \in DOMAIN grants \ {i} : grants'[g] = grants[g]
           /\ SettlingSet(r, i, L \ {l}) /\ Goto(r, "lines")
  <2>1. grants[i] \in GrantRow /\ Lined(grants[i])
    BY <1>5, RowFacts
  <2>2. /\ grants'[i].state = grants[i].state /\ grants'[i].handed = grants[i].handed
        /\ grants'[i].settled = grants[i].settled \cup {l}
    BY <1>5, <1>7, <2>1, MarkedRow
  <2>3. LinesOf(i)' = LinesOf(i)
    BY <1>5 DEF LinesOf, GrantsGrow, GrowsTo, Stays1
  <2>4. /\ \A k \in LinesOf(i) \ L : HandedOver(i, k)
        /\ HandedOver(i, l)
    BY <1>1, <1>2, <1>3, <1>4 DEF PayInv, PaidUp
  <2>5. PaidRow(i)'
    BY <1>5, <2>2, <2>3, <2>4 DEF PayInv, PaidRow, HandedOver
  <2>6. \A g \in DOMAIN grants \ {i} : PaidRow(g)' /\ \A k \in LinesOf(g) : HandedOver(g, k) => HandedOver(g, k)'
    <3>1. \A g \in DOMAIN grants \ {i} : Untouched(g)
      BY <1>7 DEF Untouched
    <3> QED
      BY <1>5, <3>1, RowUntouched DEF PayInv
  <2>7. HandsGrow
    BY <2>2, <2>6 DEF HandsGrow, HandedOver
  <2>8. MovesOnly(r) /\ call'[r].pc = "lines"
    BY <1>7, GotoMoves DEF Known, Frame
  <2>9. PICK M : M = L \ {l}
    OBVIOUS
  <2>10. /\ settling'[r] = [grant |-> i, lines |-> M]
         /\ \A s \in Req \ {r} : settling'[s] = settling[s]
    BY <1>7, <2>9, SetSettling
  <2>11. \A s \in Req \ {r} : PaidUp(s)'
    BY <1>5, <2>7, <2>8, <2>10, UpKept DEF PayInv, MovesOnly
  <2>12. PaidUp(r)'
    <3>1. Mine(r)' = i /\ settling'[r].lines = M
      BY <2>10 DEF Mine
    <3>2. \A k \in LinesOf(i) \ M : HandedOver(i, k)'
      BY <2>2, <2>4, <2>9 DEF HandedOver
    <3> QED
      BY <2>3, <2>8, <3>1, <3>2 DEF PaidUp
  <2> QED
    BY <1>5, <2>5, <2>6, <2>11, <2>12 DEF PayInv
<1> QED
  BY <1>5, <1>6, <1>7

LEMMA CreditPays ==
    ASSUME Known, LedgerInv, PayInv, NEW r \in Req, SettleGrant(r)
    PROVE  PayInv'
<1>1. call[r].pc = "lines" /\ settling[r].lines = {} /\ UNCHANGED settling
  BY DEF SettleGrant
<1>2. PICK i : i = Mine(r)
  OBVIOUS
<1>3. /\ Rows /\ i \in DOMAIN grants /\ Rows' /\ GrantsGrow /\ DOMAIN grants' = DOMAIN grants
      /\ \/ /\ grants'[i] = Stated1(grants[i], "credited")
            /\ \A g \in DOMAIN grants \ {i} : grants'[g] = grants[g]
            /\ Goto(r, "granted")
         \/ UNCHANGED grants /\ OwedSet(r, "failed", TRUE)
  BY <1>2, CreditRows
<1>4. CASE UNCHANGED grants /\ OwedSet(r, "failed", TRUE)
  <2>1. Quiet1
    BY <1>1, <1>4, FailsQuietly DEF Settling
  <2> QED
    BY <2>1, QuietPays
<1>5. CASE /\ grants'[i] = Stated1(grants[i], "credited")
           /\ \A g \in DOMAIN grants \ {i} : grants'[g] = grants[g]
           /\ Goto(r, "granted")
  <2>1. grants[i] \in GrantRow /\ Lined(grants[i])
    BY <1>3, RowFacts
  <2>2. grants'[i].handed = grants[i].handed /\ grants'[i].settled = grants[i].settled
    BY <1>5, <2>1, StatedRow
  <2>3. LinesOf(i)' = LinesOf(i)
    BY <1>3 DEF LinesOf, GrantsGrow, GrowsTo, Stays1
  <2>4. \A k \in LinesOf(i) : HandedOver(i, k)
    BY <1>1, <1>2 DEF PayInv, PaidUp
  <2>5. PaidRow(i)'
    BY <1>3, <2>2, <2>3, <2>4 DEF PayInv, PaidRow, HandedOver
  <2>6. \A g \in DOMAIN grants \ {i} : PaidRow(g)' /\ \A k \in LinesOf(g) : HandedOver(g, k) => HandedOver(g, k)'
    <3>1. \A g \in DOMAIN grants \ {i} : Untouched(g)
      BY <1>5 DEF Untouched
    <3> QED
      BY <1>3, <3>1, RowUntouched DEF PayInv
  <2>7. HandsGrow
    BY <2>2, <2>6 DEF HandsGrow, HandedOver
  <2>8. MovesOnly(r) /\ call'[r].pc = "granted"
    BY <1>5, GotoMoves DEF Known, Frame
  <2>9. \A s \in Req \ {r} : PaidUp(s)'
    BY <1>1, <1>3, <2>7, <2>8, UpKept DEF PayInv, MovesOnly
  <2>10. PaidUp(r)'
    BY <2>8 DEF PaidUp
  <2> QED
    BY <1>3, <2>5, <2>6, <2>9, <2>10 DEF PayInv
<1> QED
  BY <1>3, <1>4, <1>5

LEMMA PayInit == ASSUME Init PROVE PayInv
<1>1. PICK p \in Plans : call = p
  BY DEF Init, PointsInit, HandlersInit
<1>2. call = [r \in Req |-> Request(p[r].op, p[r].who, p[r].arg, p[r].amt)]
  BY <1>1, PointsAssumption
<1>3. \A r \in Req : call[r].pc = "start"
  BY <1>2 DEF Request
<1>4. grants = <<>>
  BY DEF Init, GrantsInit
<1> QED
  BY <1>3, <1>4 DEF PayInv, PaidUp

LEMMA PayNext == ASSUME Known, LedgerInv, PayInv, [Next]_vars PROVE PayInv'
<1>1. CASE Quiet1
  BY <1>1, QuietPays
<1>2. ASSUME NEW r \in Req, SettleStep(r) PROVE PayInv'
  BY <1>2, ReadPays, PayPays, MarkPays, CreditPays DEF SettleStep
<1>3. ASSUME NEW r \in Req, AddActs(r) \/ ClaimGrant(r) \/ ExpireGrants(r) PROVE PayInv'
  BY <1>3, AddPays, ClaimPays, ExpirePays
<1> QED
  BY <1>1, <1>2, <1>3, GrantsMove

Books == Known /\ LedgerInv /\ Conserved

LEMMA BooksKept ==
    /\ Init => Books
    /\ Books /\ [Next]_vars => Books'
BY KnownInit, LedgerInit, BooksOpen, KnownNext, BooksNext DEF Books

(* "A grant that dies partway resumes from where it stopped": a grant that  *)
(* is credited had every one of its lines handed over, whoever settled it,  *)
(* died on it, expired it meanwhile or raced for it.                        *)
THEOREM CreditedInFull == Spec => []PaidInFull
<1>1. Init => Books /\ PayInv
  BY BooksKept, PayInit
<1>2. Books /\ PayInv /\ [Next]_vars => (Books /\ PayInv)'
  BY BooksKept, PayNext DEF Books
<1>3. Books /\ PayInv => PaidInFull
  <2>1. SUFFICES ASSUME Books, PayInv, NEW g \in DOMAIN grants, grants[g].state = "credited",
                        NEW l \in DOMAIN grants[g].handed
                 PROVE  grants[g].handed[l] > 0
    BY DEF PaidInFull
  <2>2. DOMAIN grants[g].handed = LinesOf(g)
    BY <2>1, RowFacts DEF Books, LedgerInv, GrantTypes, LinesOf, Lined
  <2> QED
    BY <2>1, <2>2 DEF PayInv, PaidRow, HandedOver
<1> QED
  BY <1>1, <1>2, <1>3, PTL DEF Spec

---------------------------------------------------------------------------
(* A grant once held stays held: rows are changed and added, never removed. *)
HeldKept == \A slug, m, ref : Held(slug, m, ref) => Held(slug, m, ref)'

LEMMA GrewHeld == ASSUME GrantsGrow PROVE HeldKept
BY DEF GrantsGrow, GrowsTo, Stays1, HeldKept, Held

LEMMA AddedGrow ==
    ASSUME Known, LedgerInv, NEW r \in Req, AddActs(r) PROVE GrantsGrow
<1>1. PICK slug \in DOMAIN Reward, ref \in Ref, mark \in Nat, units \in Nat :
         Insert(r, slug, ref, mark, units)
  BY AddRowsOnly
<1>2. GrantsGrow \/ UNCHANGED grants
  BY <1>1, InsertRows
<1> QED
  BY <1>2, SameRows

LEMMA SettledGrow ==
    ASSUME Known, LedgerInv, NEW r \in Req, SettleStep(r) PROVE GrantsGrow
<1>1. CASE SettleRead(r)
  BY <1>1, SameRows DEF SettleRead
<1>2. CASE PayLine(r)
  <2>1. PICK i, l : i = Mine(r) /\ l = Min(settling[r].lines)
    OBVIOUS
  <2>2. PaidOver(r, i, l) \/ UNCHANGED grants
    BY <1>2, <2>1, PayRows
  <2> QED
    BY <2>2, SameRows DEF PaidOver
<1>3. CASE MarkLine(r)
  <2>1. PICK i, L : i = Mine(r) /\ L = settling[r].lines
    OBVIOUS
  <2>2. PICK l : l = Min(L)
    OBVIOUS
  <2> QED
    BY <1>3, <2>1, <2>2, MarkRows
<1>4. CASE SettleGrant(r)
  <2>1. PICK i : i = Mine(r)
    OBVIOUS
  <2> QED
    BY <1>4, <2>1, CreditRows
<1> QED
  BY <1>1, <1>2, <1>3, <1>4 DEF SettleStep

LEMMA HeldForever ==
    ASSUME Known, LedgerInv, [Next]_vars PROVE HeldKept
<1>1. CASE Quiet1
  BY <1>1, SameRows, GrewHeld DEF Quiet1
<1>2. ASSUME NEW r \in Req, AddActs(r) \/ SettleStep(r) PROVE HeldKept
  BY <1>2, AddedGrow, SettledGrow, GrewHeld
<1>3. ASSUME NEW r \in Req, ClaimGrant(r) PROVE HeldKept
  BY <1>3, SameRows, GrewHeld DEF ClaimGrant
<1>4. ASSUME NEW r \in Req, ExpireGrants(r) PROVE HeldKept
  <2>1. PICK late \in SUBSET {g \in DOMAIN grants : Lapsed(grants[g])} :
           grants' = [g \in DOMAIN grants |->
                       IF g \in late THEN [grants[g] EXCEPT !.state = "expired"] ELSE grants[g]]
    BY <1>4 DEF ExpireGrants
  <2>2. Rows
    BY DEF LedgerInv, GrantTypes
  <2> QED
    BY <2>1, <2>2, ExpireRows, GrewHeld
<1> QED
  BY <1>1, <1>2, <1>3, <1>4, GrantsMove

---------------------------------------------------------------------------
(* Completions under way.  A request pays for a completion from the latch   *)
(* on; only one that set the latch, and not the repair, announces it, so no *)
(* two announce the same member's, and none announces one that was told.    *)
AwardOps == {"post", Job}
PayPcs == Settling \cup {"pay", "granted", "failed", "ungranted"}

Paying(r) == call[r].op \in AwardOps /\ call[r].pc \in PayPcs
Announces(r) == Paying(r) /\ call[r].arg.phase # "repair"

(* The phases of the scoring job: what it pays while repairing is complete. *)
Phased(r) == call[r].op = Job =>
    /\ call[r].pc \in {"scoring", "complete"} => call[r].arg.phase = "score"
    /\ call[r].pc \in PayPcs => call[r].arg.phase \in {"score", "repair"}
    /\ call[r].pc = "repairing" => call[r].arg.phase = "repair"
    /\ call[r].pc \in PayPcs \cup {"repairing"} /\ call[r].arg.phase = "repair" =>
          \A m \in call[r].arg.todo \cap Member : ach[m].completed

Awarding(r) ==
    /\ Paying(r) => ach[Who(r)].completed
    /\ Paying(r) /\ call[r].pc \notin {"pay", "ungranted"} => Held(Badge, Who(r), BadgeRef)
    /\ Announces(r) => ach[Who(r)].told = 0
    /\ Phased(r)

AchFields == {"progress", "completed", "paid", "told"}
AchRows ==
    /\ ach = [m \in Member |-> ach[m]]
    /\ \A m \in Member : ach[m] = [f \in AchFields |-> ach[m][f]]

Award(m) ==
    /\ ach[m].completed \in BOOLEAN /\ ach[m].paid \in BOOLEAN /\ ach[m].told \in 0..1
    /\ ach[m].told = 1 => ach[m].completed
    /\ ach[m].paid => ach[m].completed /\ Held(Badge, m, BadgeRef)

Apart == \A r, s \in Req : r # s /\ Announces(r) /\ Announces(s) => Who(r) # Who(s)

AwardInv ==
    /\ AchRows /\ Apart
    /\ \A m \in Member : Award(m)
    /\ \A r \in Req : Awarding(r)

(* What a step does to the rows of others' completions: nothing.            *)
AchGrows == \A m \in Member : ach[m].completed => ach'[m].completed

LEMMA OthersAward ==
    ASSUME HeldKept, AchGrows, NEW s \in Req, Awarding(s), Who(s) \in Member,
           Phased(s), call'[s] = call[s],
           Announces(s) => ach'[Who(s)].told = 0
    PROVE  Awarding(s)'
<1>1. Paying(s)' = Paying(s) /\ Announces(s)' = Announces(s) /\ Who(s)' = Who(s)
  BY DEF Paying, Announces, Who
<1>2. Phased(s)'
  BY DEF Phased, AchGrows
<1>3. Paying(s) => ach'[Who(s)].completed
  BY DEF Awarding, AchGrows
<1>4. call'[s].pc = call[s].pc
  OBVIOUS
<1> QED
  BY <1>1, <1>2, <1>3, <1>4 DEF Awarding, HeldKept

LEMMA AwardMoves ==
    ASSUME AwardInv, LedgerInv, HeldKept, AchGrows, NEW r \in Req, MovesOnly(r), AchRows',
           \A m \in Member : Award(m)', Awarding(r)',
           \A s \in Req \ {r} : Announces(s) => ach'[Who(s)].told = 0,
           Announces(r)' => \A s \in Req \ {r} : Announces(s) => Who(s) # Who(r)'
    PROVE  AwardInv'
<1>1. \A s \in Req \ {r} : call'[s] = call[s] /\ Who(s) \in Member
  BY DEF MovesOnly, LedgerInv, Purse, Who
<1>2. \A s \in Req \ {r} : Awarding(s)'
  BY <1>1, OthersAward DEF AwardInv, Awarding
<1>3. \A s \in Req \ {r} : Announces(s)' = Announces(s) /\ Who(s)' = Who(s)
  BY <1>1 DEF Announces, Paying, Who
<1>4. Apart'
  BY <1>3 DEF AwardInv, Apart
<1> QED
  BY <1>2, <1>4 DEF AwardInv

LEMMA AwardStays ==
    ASSUME AwardInv, HeldKept, UNCHANGED ach
    PROVE  AchRows' /\ AchGrows /\ \A m \in Member : Award(m)'
<1>1. AchRows' /\ AchGrows
  BY DEF AwardInv, AchRows, AchGrows
<1>2. \A m \in Member : Award(m)'
  BY DEF AwardInv, Award, HeldKept
<1> QED
  BY <1>1, <1>2

(* A step of another component.                                             *)
LEMMA AwardRests ==
    ASSUME AwardInv, LedgerInv, HeldKept, UNCHANGED ach,
           UNCHANGED call \/ \E r \in Req : MovesOnly(r) /\ call[r].op \notin AwardOps
    PROVE  AwardInv'
<1>1. AchRows' /\ AchGrows /\ \A m \in Member : Award(m)'
  BY AwardStays
<1>2. CASE UNCHANGED call
  <2>1. \A s \in Req : Awarding(s)'
    <3>1. \A s \in Req : Announces(s) => ach'[Who(s)].told = 0
      BY DEF AwardInv, Awarding
    <3>2. \A s \in Req : Who(s) \in Member
      BY DEF LedgerInv, Purse, Who
    <3> QED
      BY <1>1, <1>2, <3>1, <3>2, OthersAward DEF AwardInv, Awarding
  <2>2. Apart'
    BY <1>2 DEF AwardInv, Apart, Announces, Paying, Who
  <2> QED
    BY <1>1, <2>1, <2>2 DEF AwardInv
<1>3. ASSUME NEW r \in Req, MovesOnly(r), call[r].op \notin AwardOps PROVE AwardInv'
  <2>1. Awarding(r)' /\ ~Announces(r)'
    BY <1>3 DEF Awarding, Announces, Paying, Phased, MovesOnly, AwardOps
  <2>2. \A s \in Req \ {r} : Announces(s) => ach'[Who(s)].told = 0
    BY DEF AwardInv, Awarding
  <2> QED
    BY <1>1, <1>3, <2>1, <2>2, AwardMoves
<1> QED
  BY <1>2, <1>3

---------------------------------------------------------------------------
(* Settling pays for a completion that stays under way.                     *)
LEMMA SettleGoes ==
    ASSUME Known, LedgerInv, NEW r \in Req, SettleStep(r)
    PROVE  call[r].pc \in Settling /\ \E x \in PayPcs \ {"pay", "ungranted"} : Goes(r, x)
<1>1. call[r].pc \in Settling
  BY SettleSteps DEF Known, Frame
<1>2. \E x \in {"read", "lines", "mark", "granted", "failed"} : Goto(r, x) \/ OwedSet(r, x, TRUE)
  <2>1. CASE SettleRead(r)
    BY <2>1 DEF SettleRead
  <2>2. CASE PayLine(r)
    BY <2>2 DEF PayLine, OwedSet, AfterFailure
  <2>3. CASE MarkLine(r) \/ SettleGrant(r)
    BY <2>3 DEF MarkLine, SettleGrant, OwedSet
  <2> QED
    BY <2>1, <2>2, <2>3 DEF SettleStep
<1>3. PICK x \in {"read", "lines", "mark", "granted", "failed"} : Goto(r, x) \/ OwedSet(r, x, TRUE)
  BY <1>2
<1>4. Goes(r, x)
  BY <1>3, GotoGoes, OwedGoes DEF Known
<1>5. x \in PayPcs \ {"pay", "ungranted"}
  BY <1>3 DEF PayPcs, Settling
<1> QED
  BY <1>1, <1>4, <1>5

(* Whoever goes on paying keeps what it owes the member.                    *)
LEMMA PaysOn ==
    ASSUME AwardInv, HeldKept, UNCHANGED ach, NEW r \in Req, NEW x, Goes(r, x), Paying(r),
           x \in PayPcs \ {"pay", "ungranted"} => Held(Badge, Who(r), BadgeRef)',
           x \in PayPcs
    PROVE  Awarding(r)' /\ (Announces(r)' => Announces(r)) /\ Who(r)' = Who(r)
<1>1. /\ Paying(r)' /\ Who(r)' = Who(r) /\ call'[r].arg = call[r].arg
      /\ call'[r].pc = x /\ call'[r].op = call[r].op
  BY DEF Paying, Goes, Who
<1>2. Awarding(r) /\ Phased(r)
  BY DEF AwardInv, Awarding
<1>3. Phased(r)'
  <2>1. x \notin {"scoring", "complete", "repairing"} /\ call[r].pc \in PayPcs
    BY DEF PayPcs, Settling, Paying
  <2> QED
    BY <1>1, <1>2, <2>1 DEF Phased
<1>4. Announces(r)' => Announces(r)
  BY <1>1 DEF Announces
<1> QED
  BY <1>1, <1>2, <1>3, <1>4 DEF Awarding

LEMMA SettleAwards ==
    ASSUME Known, LedgerInv, AwardInv, HeldKept, UNCHANGED ach, NEW r \in Req, SettleStep(r)
    PROVE  AwardInv'
<1>1. PICK x \in PayPcs \ {"pay", "ungranted"} : Goes(r, x)
  BY SettleGoes
<1>2. MovesOnly(r) /\ call[r].pc \in Settling
  BY <1>1, SettleGoes DEF Goes
<1>3. CASE call[r].op \notin AwardOps
  BY <1>2, <1>3, AwardRests
<1>4. CASE call[r].op \in AwardOps
  <2>1. Paying(r) /\ Held(Badge, Who(r), BadgeRef)
    BY <1>2, <1>4 DEF Paying, PayPcs, AwardInv, Awarding, Settling
  <2>2. Held(Badge, Who(r), BadgeRef)'
    <3>1. PICK m : m = Who(r)
      OBVIOUS
    <3>2. Who(r)' = m
      BY <1>1, <3>1 DEF Who, Goes
    <3>3. Held(Badge, m, BadgeRef)'
      BY <2>1, <3>1 DEF HeldKept
    <3> QED
      BY <3>2, <3>3
  <2>3. Awarding(r)' /\ (Announces(r)' => Announces(r)) /\ Who(r)' = Who(r)
    BY <1>1, <2>1, <2>2, PaysOn
  <2>4. AchRows' /\ AchGrows /\ \A m \in Member : Award(m)'
    BY AwardStays
  <2>5. \A s \in Req \ {r} : Announces(s) => ach'[Who(s)].told = 0
    BY DEF AwardInv, Awarding
  <2>6. Announces(r)' => \A s \in Req \ {r} : Announces(s) => Who(s) # Who(r)'
    BY <2>3 DEF AwardInv, Apart
  <2> QED
    BY <1>2, <2>3, <2>4, <2>5, <2>6, AwardMoves
<1> QED
  BY <1>3, <1>4

---------------------------------------------------------------------------
(* Rows of user_achievements.                                               *)
Became(m, c, p, t) ==
    /\ AchRows'
    /\ \A k \in Member \ {m} : ach'[k] = ach[k]
    /\ ach'[m].completed = c /\ ach'[m].paid = p /\ ach'[m].told = t

RowSetTo(m, row) == ach' = [ach EXCEPT ![m] = row]

LEMMA RowBecomes ==
    ASSUME AchRows, NEW m \in Member, NEW row, row = [f \in AchFields |-> row[f]], RowSetTo(m, row)
    PROVE  Became(m, row.completed, row.paid, row.told)
<1>1. ach' = [k \in Member |-> ach'[k]] /\ ach'[m] = row /\ \A k \in Member \ {m} : ach'[k] = ach[k]
  BY DEF AchRows, RowSetTo
<1>2. \A k \in Member : ach'[k] = [f \in AchFields |-> ach'[k][f]]
  BY <1>1 DEF AchRows
<1> QED
  BY <1>1, <1>2 DEF Became, AchRows

ProgressSet(m, n) == ach' = [ach EXCEPT ![m].progress = n]

LEMMA SetProgress ==
    ASSUME AchRows, NEW m \in Member, NEW n, ProgressSet(m, n)
    PROVE  Became(m, ach[m].completed, ach[m].paid, ach[m].told)
<1> DEFINE c == ach[m]
           d == [c EXCEPT !.progress = n]
<1>1. c = [f \in AchFields |-> c[f]]
  BY DEF AchRows
<1>2. RowSetTo(m, d)
  BY DEF ProgressSet, RowSetTo, AchRows
<1> HIDE DEF c
<1>3. /\ d = [f \in AchFields |-> d[f]]
      /\ d.completed = c.completed /\ d.paid = c.paid /\ d.told = c.told
  BY <1>1 DEF AchFields
<1> HIDE DEF d
<1>4. Became(m, d.completed, d.paid, d.told)
  BY <1>2, <1>3, RowBecomes
<1> QED
  BY <1>3, <1>4 DEF c

CompletedSet(m) == ach' = [ach EXCEPT ![m].completed = TRUE]

LEMMA SetCompleted ==
    ASSUME AchRows, NEW m \in Member, CompletedSet(m)
    PROVE  Became(m, TRUE, ach[m].paid, ach[m].told)
<1> DEFINE c == ach[m]
           d == [c EXCEPT !.completed = TRUE]
<1>1. c = [f \in AchFields |-> c[f]]
  BY DEF AchRows
<1>2. RowSetTo(m, d)
  BY DEF CompletedSet, RowSetTo, AchRows
<1> HIDE DEF c
<1>3. /\ d = [f \in AchFields |-> d[f]]
      /\ d.completed = TRUE /\ d.paid = c.paid /\ d.told = c.told
  BY <1>1 DEF AchFields
<1> HIDE DEF d
<1>4. Became(m, d.completed, d.paid, d.told)
  BY <1>2, <1>3, RowBecomes
<1> QED
  BY <1>3, <1>4 DEF c

StampSet(m, p, t) == ach' = [ach EXCEPT ![m].paid = p, ![m].told = @ + t]

LEMMA SetStamp ==
    ASSUME AchRows, NEW m \in Member, NEW p, NEW t, StampSet(m, p, t)
    PROVE  Became(m, ach[m].completed, p, ach[m].told + t)
<1> DEFINE c == ach[m]
           d == [[c EXCEPT !.paid = p] EXCEPT !.told = @ + t]
<1>1. c = [f \in AchFields |-> c[f]]
  BY DEF AchRows
<1>2. RowSetTo(m, d)
  BY <1>1 DEF StampSet, RowSetTo, AchRows, AchFields
<1> HIDE DEF c
<1>3. /\ d = [f \in AchFields |-> d[f]]
      /\ d.completed = c.completed /\ d.paid = p /\ d.told = c.told + t
  BY <1>1 DEF AchFields
<1> HIDE DEF d
<1>4. Became(m, d.completed, d.paid, d.told)
  BY <1>2, <1>3, RowBecomes
<1> QED
  BY <1>3, <1>4 DEF c

TellSet(m, t) == ach' = [ach EXCEPT ![m].told = @ + t]

LEMMA SetTell ==
    ASSUME AchRows, NEW m \in Member, NEW t, TellSet(m, t)
    PROVE  Became(m, ach[m].completed, ach[m].paid, ach[m].told + t)
<1> DEFINE c == ach[m]
           d == [c EXCEPT !.told = @ + t]
<1>1. c = [f \in AchFields |-> c[f]]
  BY DEF AchRows
<1>2. RowSetTo(m, d)
  BY <1>1 DEF TellSet, RowSetTo, AchRows, AchFields
<1> HIDE DEF c
<1>3. /\ d = [f \in AchFields |-> d[f]]
      /\ d.completed = c.completed /\ d.paid = c.paid /\ d.told = c.told + t
  BY <1>1 DEF AchFields
<1> HIDE DEF d
<1>4. Became(m, d.completed, d.paid, d.told)
  BY <1>2, <1>3, RowBecomes
<1> QED
  BY <1>3, <1>4 DEF c

---------------------------------------------------------------------------
(* The steps of achievements.                                               *)
LEMMA BecameAwards ==
    ASSUME AwardInv, HeldKept, NEW m \in Member, NEW c \in BOOLEAN, NEW p \in BOOLEAN,
           NEW t \in 0..1, Became(m, c, p, t), ach[m].completed => c, t = 1 => c,
           p => c /\ Held(Badge, m, BadgeRef)'
    PROVE  AchRows' /\ AchGrows /\ \A k \in Member : Award(k)'
<1>1. AchRows' /\ \A k \in Member \ {m} : ach'[k] = ach[k]
  BY DEF Became
<1>2. \A k \in Member \ {m} : Award(k)'
  BY <1>1 DEF AwardInv, Award, HeldKept
<1>3. Award(m)'
  BY DEF Became, Award
<1>4. AchGrows
  BY <1>1 DEF AchGrows, Became
<1> QED
  BY <1>1, <1>2, <1>3, <1>4

LEMMA IdleAwards ==
    ASSUME AwardInv, LedgerInv, HeldKept, AchGrows, AchRows', NEW r \in Req, MovesOnly(r),
           \A m \in Member : Award(m)', call'[r].pc \notin PayPcs, Phased(r)',
           \A s \in Req \ {r} : Announces(s) => ach'[Who(s)].told = 0
    PROVE  AwardInv'
<1>1. ~Paying(r)' /\ ~Announces(r)'
  BY DEF Paying, Announces
<1>2. Awarding(r)'
  BY <1>1 DEF Awarding
<1> QED
  BY <1>1, <1>2, AwardMoves

LEMMA IdleRests ==
    ASSUME AwardInv, LedgerInv, HeldKept, UNCHANGED ach, NEW r \in Req, MovesOnly(r),
           call'[r].pc \notin PayPcs, Phased(r)'
    PROVE  AwardInv'
<1>1. AchRows' /\ AchGrows /\ \A m \in Member : Award(m)'
  BY AwardStays
<1>2. \A s \in Req \ {r} : Announces(s) => ach'[Who(s)].told = 0
  BY DEF AwardInv, Awarding
<1> QED
  BY <1>1, <1>2, IdleAwards

LEMMA GotoRests ==
    ASSUME Known, AwardInv, LedgerInv, HeldKept, UNCHANGED ach, NEW r \in Req, NEW x, Goto(r, x),
           x \in {"start", "event", "done", "refused", "dead", "unpaid"}
    PROVE  AwardInv'
<1>1. MovesOnly(r) /\ call'[r].pc = x
  BY GotoMoves DEF Known, Frame
<1>2. call'[r].pc \notin PayPcs /\ Phased(r)'
  BY <1>1 DEF PayPcs, Settling, Phased
<1> QED
  BY <1>1, <1>2, IdleRests

(* The progress of a row changes, and nobody pays for it yet.               *)
LEMMA ProgressAwards ==
    ASSUME AwardInv, LedgerInv, HeldKept, NEW m \in Member, NEW n, ProgressSet(m, n),
           NEW r \in Req, MovesOnly(r), call'[r].pc \notin PayPcs, Phased(r)'
    PROVE  AwardInv'
<1>1. AchRows /\ Award(m)
  BY DEF AwardInv
<1>2. Became(m, ach[m].completed, ach[m].paid, ach[m].told)
  BY <1>1, SetProgress
<1>3. /\ ach[m].completed \in BOOLEAN /\ ach[m].paid \in BOOLEAN /\ ach[m].told \in 0..1
      /\ ach[m].told = 1 => ach[m].completed
      /\ ach[m].paid => ach[m].completed /\ Held(Badge, m, BadgeRef)'
  BY <1>1 DEF Award, HeldKept
<1>4. AchRows' /\ AchGrows /\ \A k \in Member : Award(k)'
  BY <1>2, <1>3, BecameAwards
<1>5. \A s \in Req \ {r} : Announces(s) => ach'[Who(s)].told = 0
  <2>1. \A s \in Req : Who(s) \in Member
    BY DEF LedgerInv, Purse, Who
  <2>2. \A k \in Member : ach'[k].told = ach[k].told
    BY <1>2 DEF Became
  <2> QED
    BY <2>1, <2>2 DEF AwardInv, Awarding
<1> QED
  BY <1>4, <1>5, IdleAwards

LEMMA EventAwards ==
    ASSUME Known, LedgerInv, AwardInv, HeldKept, NEW r \in Req, Increment(r)
    PROVE  AwardInv'
<1>1. call[r].op = "post" /\ Who(r) \in Member
  BY DEF Increment, At, LedgerInv, Purse, Who
<1>2. CASE Goto(r, "done") /\ UNCHANGED ach
  BY <1>2, GotoRests
<1>3. ASSUME NEW x \in {"complete", "done"}, NEW a, ArgSet(r, x, a), NEW n, ProgressSet(Who(r), n)
      PROVE  AwardInv'
  <2>1. MovesOnly(r)
    BY <1>3 DEF ArgSet, MovesOnly, Shaped, IsCall, Fields, Known, Frame
  <2>2. call'[r].pc = x /\ call'[r].op = "post"
    BY <1>1, <1>3, <2>1, SetArg DEF Known, Frame, MovesOnly
  <2>3. call'[r].pc \notin PayPcs /\ Phased(r)'
    BY <2>2 DEF PayPcs, Settling, Phased, Job
  <2> QED
    BY <1>1, <1>3, <2>1, <2>3, ProgressAwards
<1>4. \/ Goto(r, "done") /\ UNCHANGED ach
      \/ \E x \in {"complete", "done"} : \E a : \E n : ArgSet(r, x, a) /\ ProgressSet(Who(r), n)
  <2>1. CASE /\ ach' = [ach EXCEPT ![Who(r)].progress = @ + 1]
             /\ call' = [call EXCEPT
                   ![r].pc = IF Met(Who(r), ach[Who(r)].progress + 1) THEN "complete" ELSE "done",
                   ![r].arg = Arg("event", {}, <<>>, ~backfilled)]
    <3>1. ProgressSet(Who(r), ach[Who(r)].progress + 1)
      BY <1>1, <2>1 DEF ProgressSet, AwardInv, AchRows
    <3>2. PICK x \in {"complete", "done"} :
             x = IF Met(Who(r), ach[Who(r)].progress + 1) THEN "complete" ELSE "done"
      OBVIOUS
    <3>3. ArgSet(r, x, Arg("event", {}, <<>>, ~backfilled))
      BY <2>1, <3>2 DEF ArgSet
    <3> QED
      BY <3>1, <3>3
  <2> QED
    BY <2>1 DEF Increment
<1> QED
  BY <1>2, <1>3, <1>4

LEMMA ScoreAwards ==
    ASSUME Known, LedgerInv, AwardInv, HeldKept, NEW r \in Req, ScoreOne(r)
    PROVE  AwardInv'
<1>1. call[r].op = Job /\ call[r].pc = "scoring"
  BY DEF ScoreOne, At
<1>2. /\ call[r].arg = [f \in ToScore |-> call[r].arg[f]] /\ call[r].arg.todo \subseteq Member
      /\ call[r].arg.phase = "score"
  BY <1>1 DEF LedgerInv, Scoring, AwardInv, Awarding, Phased
<1>3. PICK m \in call[r].arg.todo :
         \/ Goto(r, "unpaid") /\ UNCHANGED ach
         \/ /\ ach' = [ach EXCEPT ![m].progress = call[r].arg.values[m]]
            /\ \E x \in {"complete", "scoring"} : TodoSet(r, m, x)
  BY DEF ScoreOne, TodoSet
<1>4. CASE Goto(r, "unpaid") /\ UNCHANGED ach
  BY <1>4, GotoRests
<1>5. ASSUME NEW x \in {"complete", "scoring"}, TodoSet(r, m, x),
             ach' = [ach EXCEPT ![m].progress = call[r].arg.values[m]]
      PROVE  AwardInv'
  <2>1. MovesOnly(r)
    BY <1>5, TodoMoves DEF TodoSet, Known, Frame
  <2>2. call'[r].pc = x /\ call'[r].arg.phase = "score"
    <3>1. Shaped /\ Scores(r)
      BY <1>2 DEF Known, Frame, Scores
    <3>2. TurnsTo(r, m, x)
      BY <1>5, <3>1, TodoTurns
    <3> QED
      BY <1>2, <3>2 DEF TurnsTo
  <2>3. call'[r].pc \notin PayPcs /\ Phased(r)'
    BY <2>2 DEF PayPcs, Settling, Phased
  <2>4. ProgressSet(m, call[r].arg.values[m]) /\ m \in Member
    BY <1>2, <1>5 DEF ProgressSet
  <2> QED
    BY <2>1, <2>3, <2>4, ProgressAwards
<1> QED
  BY <1>3, <1>4, <1>5

(* The scoring job reads whom to score, and later whom to pay again.        *)
LEMMA ReadAwards ==
    ASSUME Known, LedgerInv, AwardInv, HeldKept, NEW r \in Req, ScoreRead(r) \/ Unpaid(r)
    PROVE  AwardInv'
<1>1. UNCHANGED ach /\ MovesOnly(r)
  BY AchStep DEF AchActs, ScoreRead, Unpaid, achVars, Known, Frame
<1>2. CASE ScoreRead(r)
  <2>1. PICK todo, values, silent : ArgSet(r, "scoring", Arg("score", todo, values, silent))
    BY <1>2 DEF ScoreRead, ArgSet
  <2>2. call'[r].pc = "scoring" /\ call'[r].arg = Arg("score", todo, values, silent)
    BY <2>1, SetArg DEF Known, Frame
  <2>3. call'[r].arg.phase = "score"
    BY <2>2, ArgScores
  <2>4. call'[r].pc \notin PayPcs /\ Phased(r)'
    BY <2>2, <2>3 DEF PayPcs, Settling, Phased
  <2> QED
    BY <1>1, <2>4, IdleRests
<1>3. CASE Unpaid(r)
  <2>1. PICK todo : todo = {m \in Member : ach[m].completed /\ ~ach[m].paid}
    OBVIOUS
  <2>2. PICK values, silent : ArgSet(r, "repairing", Arg("repair", todo, values, silent))
    BY <1>3, <2>1 DEF Unpaid, ArgSet
  <2>3. call'[r].pc = "repairing" /\ call'[r].arg = Arg("repair", todo, values, silent)
    BY <2>2, SetArg DEF Known, Frame
  <2>4. call'[r].arg.phase = "repair" /\ call'[r].arg.todo = todo
    BY <2>3, ArgScores
  <2>5. \A m \in todo \cap Member : ach'[m].completed
    BY <1>1, <2>1
  <2>6. call'[r].pc \notin PayPcs /\ Phased(r)'
    BY <2>3, <2>4, <2>5 DEF PayPcs, Settling, Phased
  <2> QED
    BY <1>1, <2>6, IdleRests
<1> QED
  BY <1>2, <1>3

(* The latch is set by one of those who saw the threshold met; whoever did  *)
(* not set it goes on with the next member.                                 *)
LEMMA CompleteAwards ==
    ASSUME Known, LedgerInv, AwardInv, HeldKept, NEW r \in Req, Complete(r)
    PROVE  AwardInv'
<1>1. call[r].op \in AwardOps /\ call[r].pc = "complete"
  BY DEF Complete, AwardOps
<1>2. PICK m \in Member : m = Who(r)
  BY DEF LedgerInv, Purse, Who
<1>3. AchRows /\ Award(m) /\ Phased(r) /\ call[r].pc \notin PayPcs
  BY <1>1 DEF AwardInv, Awarding, PayPcs, Settling
<1>4. CASE Goto(r, Back(r)) /\ UNCHANGED ach
  <2>1. MovesOnly(r) /\ call'[r].pc = Back(r) /\ call'[r].arg = call[r].arg
    BY <1>4, GotoMoves DEF Known, Frame
  <2>2. call'[r].pc \notin PayPcs /\ Phased(r)'
    BY <1>1, <1>3, <2>1 DEF Back, PayPcs, Settling, Phased, MovesOnly, Job
  <2> QED
    BY <1>4, <2>1, <2>2, IdleRests
<1>5. CASE Latch(m) /\ CompletedSet(m) /\ Goto(r, "pay")
  <2>1. /\ MovesOnly(r) /\ call'[r].pc = "pay" /\ call'[r].arg = call[r].arg
        /\ call'[r].who = call[r].who
    BY <1>5, GotoMoves DEF Known, Frame
  <2>2. ~ach[m].completed /\ ach[m].told = 0 /\ ~ach[m].paid
    BY <1>3, <1>5 DEF Latch, Award
  <2>3. Became(m, TRUE, ach[m].paid, ach[m].told)
    BY <1>3, <1>5, SetCompleted
  <2>4. AchRows' /\ AchGrows /\ \A k \in Member : Award(k)'
    <3>1. ach[m].paid \in BOOLEAN /\ ach[m].told \in 0..1
      BY <1>3 DEF Award
    <3> QED
      BY <2>2, <2>3, <3>1, BecameAwards
  <2>5. Awarding(r)'
    <3>1. Who(r)' = m /\ ach'[m].completed /\ ach'[m].told = 0
      BY <1>2, <2>1, <2>2, <2>3 DEF Who, Became
    <3>2. call'[r].op = Job => call'[r].arg.phase = "score"
      BY <1>1, <1>3, <2>1 DEF Phased, MovesOnly
    <3>3. Phased(r)'
      BY <2>1, <3>2 DEF Phased
    <3> QED
      BY <2>1, <3>1, <3>3 DEF Awarding, Announces
  <2>6. \A s \in Req \ {r} : Announces(s) => Who(s) # m
    BY <2>2 DEF AwardInv, Awarding, Announces
  <2>7. \A s \in Req \ {r} : Announces(s) => ach'[Who(s)].told = 0
    BY <2>2, <2>3, <2>6 DEF Became, AwardInv, Awarding, LedgerInv, Purse, Who
  <2>8. Who(r)' = m
    BY <1>2, <2>1 DEF Who
  <2> QED
    BY <2>1, <2>4, <2>5, <2>6, <2>7, <2>8, AwardMoves
<1>6. \/ Goto(r, Back(r)) /\ UNCHANGED ach
      \/ Latch(m) /\ CompletedSet(m) /\ Goto(r, "pay")
  BY <1>2 DEF Complete, CompletedSet
<1> QED
  BY <1>4, <1>5, <1>6

(* The reward's grant is there when the payment returns, whoever made it.   *)
LEMMA BadgeAwards ==
    ASSUME Known, LedgerInv, AwardInv, HeldKept, NEW r \in Req, PayBadge(r)
    PROVE  AwardInv'
<1>1. call[r].op \in AwardOps /\ call[r].pc = "pay" /\ UNCHANGED ach
  BY DEF PayBadge, AwardOps, achVars
<1>2. PICK m \in Member : m = Who(r)
  BY DEF LedgerInv, Purse, Who
<1>3. Paying(r)
  BY <1>1 DEF Paying, PayPcs
<1>4. \/ /\ grants' = Append(grants, NewGrant(Badge, m, BadgeRef, 0, 1))
         /\ Goto(r, "read") \/ Goto(r, "granted")
      \/ Goto(r, "granted") /\ Held(Badge, m, BadgeRef)
      \/ Goto(r, "ungranted")
  <2>1. Badge \in DOMAIN Reward /\ BadgeRef \in Ref
    BY AchievementAssumption DEF Ref
  <2>2. Insert(r, Badge, BadgeRef, 0, 1)
    BY DEF PayBadge
  <2> QED
    BY <1>2, <2>1, <2>2, InsertRows
<1>5. ASSUME NEW x \in {"read", "granted", "ungranted"}, Goto(r, x),
             x # "ungranted" => Held(Badge, m, BadgeRef)'
      PROVE  AwardInv'
  <2>1. Goes(r, x) /\ x \in PayPcs /\ MovesOnly(r)
    BY <1>5, GotoGoes DEF PayPcs, Settling, Known, Goes
  <2>2. Who(r)' = m
    BY <1>2, <2>1 DEF Goes, Who
  <2>3. x # "ungranted" => Held(Badge, Who(r), BadgeRef)'
    BY <1>5, <2>2
  <2>4. Awarding(r)' /\ (Announces(r)' => Announces(r)) /\ Who(r)' = Who(r)
    BY <1>1, <1>3, <2>1, <2>3, PaysOn
  <2>5. AchRows' /\ AchGrows /\ \A k \in Member : Award(k)'
    BY <1>1, AwardStays
  <2>6. \A s \in Req \ {r} : Announces(s) => ach'[Who(s)].told = 0
    BY <1>1 DEF AwardInv, Awarding
  <2>7. Announces(r)' => \A s \in Req \ {r} : Announces(s) => Who(s) # Who(r)'
    BY <2>4 DEF AwardInv, Apart
  <2> QED
    BY <2>1, <2>4, <2>5, <2>6, <2>7, AwardMoves
<1>6. ASSUME grants' = Append(grants, NewGrant(Badge, m, BadgeRef, 0, 1))
      PROVE  Held(Badge, m, BadgeRef)'
  <2>1. PICK p : p = NewGrant(Badge, m, BadgeRef, 0, 1)
    OBVIOUS
  <2>2. p \in GrantRow /\ Lined(p) /\ Rows
    <3>1. Badge \in DOMAIN Reward /\ BadgeRef \in Ref
      BY AchievementAssumption DEF Ref
    <3>2. p \in GrantRow /\ Lined(p)
      BY <2>1, <3>1, NewRow
    <3> QED
      BY <3>2 DEF LedgerInv, GrantTypes
  <2>3. Len(grants) + 1 \in DOMAIN grants' /\ grants'[Len(grants) + 1] = p
    BY <1>6, <2>1, <2>2, RowAdded
  <2>4. p.reward = Badge /\ p.who = m /\ p.ref = BadgeRef
    BY <2>1 DEF NewGrant
  <2> QED
    BY <2>3, <2>4 DEF Held
<1>7. Held(Badge, m, BadgeRef) => Held(Badge, m, BadgeRef)'
  BY DEF HeldKept
<1> QED
  BY <1>4, <1>5, <1>6, <1>7

(* The stamp, and the announcement, which only who completed it makes.      *)
LEMMA StampAwards ==
    ASSUME Known, LedgerInv, AwardInv, HeldKept, NEW r \in Req, Stamp(r)
    PROVE  AwardInv'
<1>1. call[r].op \in AwardOps /\ call[r].pc \in {"granted", "failed", "ungranted"} /\ Goto(r, Back(r))
  BY DEF Stamp, AwardOps
<1>2. PICK m \in Member : m = Who(r)
  BY DEF LedgerInv, Purse, Who
<1>3. Paying(r) /\ call[r].pc \in PayPcs
  BY <1>1 DEF Paying, PayPcs
<1>4. AchRows /\ Award(m) /\ Awarding(r) /\ Phased(r) /\ ach[m].completed
  BY <1>2, <1>3 DEF AwardInv, Awarding
<1>5. PICK t \in {0, 1} : t = IF call[r].arg.phase = "repair" \/ call[r].arg.silent THEN 0 ELSE 1
  OBVIOUS
<1>6. t = 1 => Announces(r)
  BY <1>3, <1>5 DEF Announces
<1>7. ach[m].told + t \in 0..1 /\ ach[m].told \in Nat
  <2>1. ach[m].told \in 0..1 /\ (t = 1 => ach[m].told = 0)
    BY <1>2, <1>4, <1>6 DEF Award, Awarding
  <2> QED
    BY <2>1
<1>8. /\ MovesOnly(r) /\ call'[r].pc = Back(r) /\ call'[r].arg = call[r].arg
  BY <1>1, GotoMoves DEF Known, Frame
<1>9. ASSUME NEW p \in BOOLEAN, Became(m, ach[m].completed, p, ach[m].told + t),
             p => Held(Badge, m, BadgeRef)'
      PROVE  AwardInv'
  <2>1. AchRows' /\ AchGrows /\ \A k \in Member : Award(k)'
    <3>1. ach[m].completed \in BOOLEAN
      BY <1>4 DEF Award
    <3> QED
      BY <1>4, <1>7, <1>9, <3>1, BecameAwards
  <2>2. \A s \in Req \ {r} : Announces(s) => ach'[Who(s)].told = 0
    <3>1. SUFFICES ASSUME NEW s \in Req \ {r}, Announces(s) PROVE ach'[Who(s)].told = 0
      OBVIOUS
    <3>2. Who(s) \in Member /\ ach[Who(s)].told = 0
      BY <3>1 DEF LedgerInv, Purse, Who, AwardInv, Awarding
    <3>3. CASE Who(s) = m
      <4>1. t = 0
        BY <1>2, <1>5, <1>6, <3>1, <3>3 DEF AwardInv, Apart
      <4> QED
        BY <1>9, <3>2, <3>3, <4>1 DEF Became
    <3>4. CASE Who(s) # m
      BY <1>9, <3>2, <3>4 DEF Became
    <3> QED
      BY <3>3, <3>4
  <2>3. Back(r) \notin PayPcs
    BY DEF Back, PayPcs, Settling
  <2>4. Phased(r)'
    <3>1. CASE call[r].op # Job
      BY <1>8, <3>1 DEF Phased, MovesOnly
    <3>2. CASE call[r].op = Job
      <4>1. call[r].arg.phase \in {"score", "repair"}
        BY <1>3, <1>4, <3>2 DEF Phased
      <4>2. Back(r) = IF call[r].arg.phase = "score" THEN "scoring" ELSE "repairing"
        BY <3>2 DEF Back, Job
      <4>3. call[r].arg.phase = "repair" => \A k \in call[r].arg.todo \cap Member : ach'[k].completed
        BY <1>3, <1>4, <2>1, <3>2 DEF Phased, AchGrows
      <4> QED
        BY <1>8, <2>3, <4>1, <4>2, <4>3 DEF Phased
    <3> QED
      BY <3>1, <3>2
  <2> QED
    BY <1>8, <2>1, <2>2, <2>3, <2>4, IdleAwards
<1>10. /\ ach[m].paid \in BOOLEAN /\ (ach[m].paid => Held(Badge, m, BadgeRef)')
       /\ Stamps(r) \in BOOLEAN /\ (Stamps(r) => Held(Badge, m, BadgeRef)')
  <2>1. ach[m].paid \in BOOLEAN /\ Stamps(r) \in BOOLEAN
    BY <1>4 DEF Award, Stamps
  <2>2. ach[m].paid => Held(Badge, m, BadgeRef)'
    BY <1>4 DEF Award, HeldKept
  <2>3. Stamps(r) => Held(Badge, m, BadgeRef)'
    <3>1. Stamps(r) => Held(Badge, m, BadgeRef)
      BY <1>1, <1>2, <1>3, <1>4 DEF Stamps, Awarding
    <3> QED
      BY <3>1 DEF HeldKept
  <2> QED
    BY <2>1, <2>2, <2>3
<1>11. CASE TellSet(m, t)
  <2>1. Became(m, ach[m].completed, ach[m].paid, ach[m].told + t)
    BY <1>4, <1>11, SetTell
  <2> QED
    BY <1>9, <1>10, <2>1
<1>12. CASE StampSet(m, ach[m].paid \/ Stamps(r), t)
  <2>1. PICK p \in BOOLEAN : p = (ach[m].paid \/ Stamps(r))
    BY <1>10
  <2>2. Became(m, ach[m].completed, p, ach[m].told + t)
    BY <1>4, <1>12, <2>1, SetStamp
  <2>3. p => Held(Badge, m, BadgeRef)'
    BY <1>10, <2>1
  <2> QED
    BY <1>9, <2>2, <2>3
<1>13. TellSet(m, t) \/ StampSet(m, ach[m].paid \/ Stamps(r), t)
  <2>1. \/ ach' = [ach EXCEPT ![m].paid = @ \/ Stamps(r), ![m].told = @ + t]
        \/ ach' = [ach EXCEPT ![m].told = @ + t]
    BY <1>2, <1>5 DEF Stamp
  <2>2. CASE ach' = [ach EXCEPT ![m].told = @ + t]
    BY <2>2 DEF TellSet
  <2>3. CASE ach' = [ach EXCEPT ![m].paid = @ \/ Stamps(r), ![m].told = @ + t]
    BY <1>4, <2>3 DEF StampSet, AchRows
  <2> QED
    BY <2>1, <2>2, <2>3
<1> QED
  BY <1>11, <1>12, <1>13

LEMMA RepairAwards ==
    ASSUME Known, LedgerInv, AwardInv, HeldKept, NEW r \in Req, Repair(r)
    PROVE  AwardInv'
<1>1. call[r].op = Job /\ call[r].pc = "repairing" /\ UNCHANGED ach
  BY DEF Repair, At, achVars
<1>2. /\ call[r].arg = [f \in ToScore |-> call[r].arg[f]] /\ call[r].arg.todo \subseteq Member
      /\ Phased(r)
  BY <1>1 DEF LedgerInv, Scoring, AwardInv, Awarding
<1>3. MovesOnly(r)
  BY AchStep DEF AchActs, Known, Frame
<1>4. CASE \E a : ArgSet(r, "start", a)
  <2>1. call'[r].pc = "start"
    BY <1>4, SetArg DEF Known, Frame
  <2>2. call'[r].pc \notin PayPcs /\ Phased(r)'
    BY <2>1 DEF PayPcs, Settling, Phased
  <2> QED
    BY <1>1, <1>3, <2>2, IdleRests
<1>5. ASSUME NEW m \in call[r].arg.todo, TodoSet(r, m, "pay") PROVE AwardInv'
  <2>1. Shaped /\ Scores(r)
    BY <1>2 DEF Known, Frame, Scores
  <2>2. /\ call'[r].pc = "pay" /\ call'[r].arg.phase = call[r].arg.phase /\ call'[r].who = m
        /\ call'[r].arg.todo = call[r].arg.todo \ {m}
    <3>1. TurnsTo(r, m, "pay")
      BY <1>5, <2>1, TodoTurns
    <3> QED
      BY <3>1 DEF TurnsTo
  <2>3. call[r].arg.phase = "repair" /\ \A k \in call[r].arg.todo : ach'[k].completed
    BY <1>1, <1>2 DEF Phased
  <2>4. Phased(r)'
    BY <2>2, <2>3 DEF Phased
  <2>5. Awarding(r)' /\ ~Announces(r)'
    <3>1. ~Announces(r)'
      BY <2>2, <2>3 DEF Announces
    <3>2. Who(r)' = m /\ ach'[m].completed
      BY <2>2, <2>3 DEF Who
    <3> QED
      BY <2>2, <2>4, <3>1, <3>2 DEF Awarding
  <2>6. AchRows' /\ AchGrows /\ \A k \in Member : Award(k)'
    BY <1>1, AwardStays
  <2>7. \A s \in Req \ {r} : Announces(s) => ach'[Who(s)].told = 0
    BY <1>1 DEF AwardInv, Awarding
  <2> QED
    BY <1>3, <2>5, <2>6, <2>7, AwardMoves
<1>6. (\E a : ArgSet(r, "start", a)) \/ \E m \in call[r].arg.todo : TodoSet(r, m, "pay")
  BY DEF Repair, ArgSet, TodoSet
<1> QED
  BY <1>4, <1>5, <1>6

LEMMA AwardNext ==
    ASSUME Known, LedgerInv, AwardInv, [Next]_vars PROVE AwardInv'
<1>1. HeldKept
  BY HeldForever
<1>2. ASSUME NEW r \in Req, AchActs(r) PROVE AwardInv'
  <2>1. CASE Post(r) \/ MarkBackfilled(r) \/ AchDie(r)
    <3>1. UNCHANGED ach
      BY <2>1 DEF Post, MarkBackfilled, AchDie, achVars
    <3>2. \E x \in {"start", "event", "done", "refused", "dead", "unpaid"} : Goto(r, x)
      BY <2>1 DEF Post, MarkBackfilled, AchDie, Die, Cut
    <3> QED
      BY <1>1, <3>1, <3>2, GotoRests
  <2> QED
    BY <1>1, <1>2, <2>1, EventAwards, ReadAwards, ScoreAwards, CompleteAwards, BadgeAwards,
       StampAwards, RepairAwards DEF AchActs
<1>3. ASSUME NEW r \in Req, SettleStep(r), UNCHANGED ach PROVE AwardInv'
  BY <1>1, <1>3, SettleAwards
<1>4. CASE /\ UNCHANGED ach
           /\ UNCHANGED call \/ \E r \in Req : MovesOnly(r) /\ call[r].op \notin AwardOps
  BY <1>1, <1>4, AwardRests
<1>5. CASE UNCHANGED vars
  BY <1>4, <1>5 DEF vars, pointsVars, achVars
<1>6. CASE /\ UNCHANGED achVars
           /\ StoreNext \/ PaidActionsNext \/ JoinsNext \/ OfferNext \/ PotNext \/ DailyNext
  <2>1. ASSUME NEW r \in Req, NEW ops, StepOf(r, ops), ops \cap AwardOps = {}
        PROVE  MovesOnly(r) /\ call[r].op \notin AwardOps
    BY <2>1 DEF StepOf
  <2>2. /\ SaleOps \cap AwardOps = {} /\ PaidOps \cap AwardOps = {} /\ JoinOps \cap AwardOps = {}
        /\ OfferOps \cap AwardOps = {} /\ PotOps \cap AwardOps = {} /\ {"daily"} \cap AwardOps = {}
    BY DEF AwardOps, Job, SaleOps, PaidOps, JoinOps, OfferOps, PotOps
  <2>3. \/ UNCHANGED call
        \/ \E r \in Req : \/ StepOf(r, SaleOps) \/ StepOf(r, PaidOps) \/ StepOf(r, JoinOps)
                          \/ StepOf(r, OfferOps) \/ StepOf(r, PotOps) \/ StepOf(r, {"daily"})
    BY <1>6, StoreSteps, PaidSteps, JoinSteps, OfferSteps, PotSteps, DailySteps DEF Known, Frame
  <2>4. UNCHANGED call \/ \E r \in Req : MovesOnly(r) /\ call[r].op \notin AwardOps
    BY <2>1, <2>2, <2>3
  <2> QED
    BY <1>4, <1>6, <2>4 DEF achVars
<1>7. CASE GrantsNext /\ UNCHANGED achVars
  <2>1. ASSUME NEW r \in Req, GrantActs(r) PROVE MovesOnly(r) /\ call[r].op \notin AwardOps
    <3>1. call[r].op \in {"collect", "grant", "units", "expire"}
      BY <2>1 DEF GrantActs, At, ClaimGrant, GrantOneOff, UnitsRead, UnitsOwed, GrantPerUnit,
         GrantReturn, ExpireGrants, GrantDie
    <3> QED
      BY <2>1, <3>1, GrantStep DEF Known, Frame, AwardOps, Job
  <2>2. UNCHANGED call \/ \E r \in Req : MovesOnly(r) /\ call[r].op \notin AwardOps
    BY <1>7, <2>1 DEF GrantsNext, GrantActs, Count, pointsVars
  <2> QED
    BY <1>4, <1>7, <2>2 DEF achVars
<1>8. CASE Next
  <2>1. \/ UNCHANGED achVars /\ (StoreNext \/ PaidActionsNext \/ JoinsNext \/ OfferNext \/ PotNext \/ DailyNext)
        \/ UNCHANGED achVars /\ GrantsNext
        \/ UNCHANGED achVars /\ (\E r \in Req : SettleStep(r))
        \/ \E r \in Req : AchActs(r)
    BY <1>8 DEF Next, AchievementsNext, AchActs, RecognitionVars
  <2> QED
    BY <1>2, <1>3, <1>6, <1>7, <2>1 DEF achVars
<1> QED
  BY <1>5, <1>8

LEMMA AwardInit == ASSUME Init PROVE AwardInv
<1>1. Known
  BY KnownInit
<1>2. \A r \in Req : call[r].pc = "start"
  <2>1. PICK p \in Plans : call = p
    BY DEF Init, PointsInit, HandlersInit
  <2> QED
    BY <2>1, PointsAssumption DEF Request
<1>3. \A r \in Req : ~Paying(r) /\ ~Announces(r) /\ Phased(r)
  BY <1>2 DEF Paying, Announces, Phased, PayPcs, Settling
<1>4. AchRows /\ \A m \in Member : Award(m)
  <2>1. ach = [m \in Member |-> [progress |-> 0, completed |-> FALSE, paid |-> FALSE, told |-> 0]]
    BY DEF Init, AchInit
  <2>2. AchRows
    BY <2>1 DEF AchRows, AchFields
  <2>3. \A m \in Member : ~ach[m].completed /\ ~ach[m].paid /\ ach[m].told = 0
    BY <2>1
  <2>4. \A m \in Member : ach[m].completed \in BOOLEAN /\ ach[m].paid \in BOOLEAN
    BY <2>1
  <2> QED
    BY <2>2, <2>3, <2>4 DEF Award
<1> QED
  BY <1>3, <1>4 DEF AwardInv, Awarding, Apart

(* An achievement is announced at most once, and a row stamped paid has its *)
(* grant: of the events and the job that see the threshold met one sets the *)
(* latch and announces; the repair pays without announcing.                 *)
THEOREM AwardsAreOnce == Spec => []AwardedOnce
<1>1. Init => Books /\ AwardInv
  BY BooksKept, AwardInit
<1>2. Books /\ AwardInv /\ [Next]_vars => (Books /\ AwardInv)'
  BY BooksKept, AwardNext DEF Books
<1>3. AwardInv => AwardedOnce
  BY DEF AwardInv, Award, AwardedOnce
<1> QED
  BY <1>1, <1>2, <1>3, PTL DEF Spec

---------------------------------------------------------------------------
(* The job that pays a counter by the unit.  Its mark is the furthest that  *)
(* was granted; the units of the grants add up to what lies between the     *)
(* baseline and that mark, and a job that is about to grant carries just    *)
(* what is missing, since no other job counts for its member meanwhile.     *)
(* How far a member was paid by the unit, over any table of grants.         *)
MarksIn(G, m) == {G[g].mark : g \in {h \in DOMAIN G : G[h].who = m}}
HighIn(G, m) == Max({Baseline[m]} \cup MarksIn(G, m))
MarkedIn(G, m) == {g \in DOMAIN G : G[g].who = m /\ G[g].mark > 0}
UnitsIn(G, m) == SumFunctionOnSet([g \in MarkedIn(G, m) |-> G[g].units], MarkedIn(G, m))

LEMMA MarksFacts ==
    ASSUME NEW G, RowsIn(G), NEW m \in Member
    PROVE  /\ IsFiniteSet({Baseline[m]} \cup MarksIn(G, m))
           /\ {Baseline[m]} \cup MarksIn(G, m) \subseteq Nat
           /\ IsFiniteSet(MarkedIn(G, m))
           /\ \A g \in DOMAIN G : G[g].mark \in Nat /\ G[g].units \in Nat
<1> DEFINE W == {h \in DOMAIN G : G[h].who = m}
<1>1. G \in Seq(GrantRow) /\ DOMAIN G = 1..Len(G) /\ Len(G) \in Nat
  BY DEF RowsIn
<1>2. IsFiniteSet(DOMAIN G)
  BY <1>1, FS_Interval
<1>3. IsFiniteSet(W) /\ IsFiniteSet(MarkedIn(G, m))
  BY <1>2, FS_Subset DEF MarkedIn
<1>4. IsFiniteSet({G[g].mark : g \in W})
  <2> DEFINE T == {G[g].mark : g \in W}
             f == [g \in W |-> G[g].mark]
  <2>1. f \in Surjection(W, T)
    BY DEF Surjection
  <2> HIDE DEF W, T, f
  <2>2. IsFiniteSet(T)
    BY <1>3, <2>1, FS_Surjection
  <2> QED
    BY <2>2 DEF T
<1>5. IsFiniteSet({Baseline[m]}) /\ Baseline[m] \in Nat
  BY FS_Singleton, RewardAssumption
<1>6. \A g \in DOMAIN G : G[g].mark \in Nat /\ G[g].units \in Nat
  <2>1. \A g \in DOMAIN G : G[g] \in GrantRow
    BY <1>1
  <2> QED
    BY <2>1 DEF GrantRow
<1>7. MarksIn(G, m) = {G[g].mark : g \in W}
  BY DEF MarksIn
<1>8. MarksIn(G, m) \subseteq Nat
  BY <1>6 DEF MarksIn
<1> HIDE DEF W
<1> QED
  BY <1>3, <1>4, <1>5, <1>6, <1>7, <1>8, FS_Union

(* The furthest mark is one of them, the baseline included, and no other is *)
(* further.                                                                 *)
LEMMA HighFacts ==
    ASSUME NEW G, RowsIn(G), NEW m \in Member
    PROVE  /\ HighIn(G, m) \in Nat /\ HighIn(G, m) \in {Baseline[m]} \cup MarksIn(G, m)
           /\ \A n \in {Baseline[m]} \cup MarksIn(G, m) : HighIn(G, m) >= n
<1> DEFINE S == {Baseline[m]} \cup MarksIn(G, m)
<1>1. IsFiniteSet(S) /\ S \subseteq Nat /\ S # {} /\ S \subseteq Int
  BY MarksFacts
<1>2. HighIn(G, m) = Max(S)
  BY DEF HighIn
<1> HIDE DEF S
<1>3. Max(S) \in S /\ \A y \in S : Max(S) >= y
  BY <1>1, MaxIn
<1> QED
  BY <1>1, <1>2, <1>3 DEF S

LEMMA HighestIs ==
    ASSUME NEW G, RowsIn(G), NEW m \in Member,
           NEW n \in {Baseline[m]} \cup MarksIn(G, m),
           \A k \in {Baseline[m]} \cup MarksIn(G, m) : n >= k
    PROVE  HighIn(G, m) = n
<1>1. PICK h : h = HighIn(G, m)
  OBVIOUS
<1>2. h \in Nat /\ n \in Nat /\ h >= n /\ n >= h
  BY <1>1, HighFacts, MarksFacts
<1> QED
  BY <1>1, <1>2

(* Rows without a mark do not move it, nor the units that were paid for.    *)
LEMMA MarksStay ==
    ASSUME NEW G, RowsIn(G), NEW H, RowsIn(H), GrowsTo(G, H), NEW m \in Member,
           \A g \in DOMAIN H \ DOMAIN G : H[g].who = m => H[g].mark = 0
    PROVE  HighIn(H, m) = HighIn(G, m) /\ UnitsIn(H, m) = UnitsIn(G, m)
<1>1. /\ DOMAIN G \subseteq DOMAIN H
      /\ \A g \in DOMAIN G : H[g].who = G[g].who /\ H[g].mark = G[g].mark /\ H[g].units = G[g].units
  BY DEF GrowsTo, Stays1
<1>2. MarksIn(G, m) \subseteq MarksIn(H, m) /\ MarksIn(H, m) \subseteq MarksIn(G, m) \cup {0}
  BY <1>1 DEF MarksIn
<1>3. PICK n : n = HighIn(G, m)
  OBVIOUS
<1>4. n \in Nat /\ n \in {Baseline[m]} \cup MarksIn(G, m)
      /\ \A k \in {Baseline[m]} \cup MarksIn(G, m) : n >= k
  BY <1>3, HighFacts
<1>5. n \in {Baseline[m]} \cup MarksIn(H, m) /\ \A k \in {Baseline[m]} \cup MarksIn(H, m) : n >= k
  BY <1>2, <1>4
<1>6. HighIn(H, m) = n
  BY <1>5, HighestIs
<1>7. MarkedIn(H, m) = MarkedIn(G, m)
  BY <1>1 DEF MarkedIn
<1>8. UnitsIn(H, m) = UnitsIn(G, m)
  <2> DEFINE S == MarkedIn(G, m)
             f == [g \in S |-> G[g].units]
             k == [g \in S |-> H[g].units]
  <2>1. f = k
    BY <1>1 DEF MarkedIn
  <2>2. UnitsIn(G, m) = SumFunctionOnSet(f, S) /\ UnitsIn(H, m) = SumFunctionOnSet(k, S)
    BY <1>7 DEF UnitsIn
  <2> QED
    BY <2>1, <2>2
<1> QED
  BY <1>3, <1>6, <1>8

(* A row under a mark beyond it moves it there, and adds its units.         *)
LEMMA MarkAdded ==
    ASSUME NEW G, RowsIn(G), NEW H, RowsIn(H), NEW i, NEW p \in GrantRow, Added(G, i, p, H),
           NEW m \in Member, p.who = m, p.mark > HighIn(G, m)
    PROVE  HighIn(H, m) = p.mark /\ UnitsIn(H, m) = UnitsIn(G, m) + p.units
<1>1. /\ DOMAIN H = DOMAIN G \cup {i} /\ i \notin DOMAIN G /\ H[i] = p
      /\ \A g \in DOMAIN G : H[g] = G[g]
  BY DEF Added
<1>2. PICK n : n = p.mark
  OBVIOUS
<1>3. PICK h : h = HighIn(G, m)
  OBVIOUS
<1>4. n \in Nat /\ p.units \in Nat /\ h \in Nat /\ n > h
      /\ \A k \in {Baseline[m]} \cup MarksIn(G, m) : k \in Nat /\ h >= k
  BY <1>2, <1>3, HighFacts, MarksFacts DEF GrantRow
<1>5. MarksIn(H, m) = MarksIn(G, m) \cup {n}
  BY <1>1, <1>2 DEF MarksIn
<1>6. n \in {Baseline[m]} \cup MarksIn(H, m) /\ \A k \in {Baseline[m]} \cup MarksIn(H, m) : n >= k
  BY <1>4, <1>5
<1>7. HighIn(H, m) = n
  BY <1>6, HighestIs
<1> DEFINE S == MarkedIn(G, m)
           T == MarkedIn(H, m)
           f == [g \in S |-> G[g].units]
           k == [g \in T |-> H[g].units]
<1>8. T = S \cup {i} /\ i \notin S /\ i \in T /\ T \ {i} = S
  <2>1. n > 0
    BY <1>4
  <2> QED
    BY <1>1, <1>2, <2>1 DEF MarkedIn
<1>9. IsFiniteSet(S) /\ IsFiniteSet(T) /\ (\A g \in T : k[g] \in Int) /\ k[i] = p.units
  <2>1. IsFiniteSet(S) /\ IsFiniteSet(T)
    BY MarksFacts
  <2>2. \A g \in T : H[g].units \in Nat
    BY MarksFacts DEF MarkedIn
  <2> QED
    BY <1>1, <1>8, <2>1, <2>2
<1>10. \A g \in S : f[g] = k[g]
  BY <1>1, <1>8 DEF MarkedIn
<1>11. UnitsIn(G, m) = SumFunctionOnSet(f, S) /\ UnitsIn(H, m) = SumFunctionOnSet(k, T)
  BY DEF UnitsIn
<1>12. SumFunctionOnSet(k, T) = SumFunctionOnSet(f, S) + p.units
  <2> HIDE DEF S, T, f, k
  <2>1. SumFunctionOnSet(k, T) = k[i] + SumFunctionOnSet(k, T \ {i})
    BY <1>8, <1>9, SumTake
  <2>2. SumFunctionOnSet(f, S) = SumFunctionOnSet(k, S)
    BY <1>9, <1>10, SumSame
  <2>3. \A g \in S : k[g] \in Int
    BY <1>8, <1>9
  <2>4. SumFunctionOnSet(k, S) \in Int
    BY <1>9, <2>3, SumInt
  <2> QED
    BY <1>4, <1>8, <1>9, <2>1, <2>2, <2>4
<1> QED
  BY <1>2, <1>7, <1>11, <1>12

---------------------------------------------------------------------------
(* One job counts for a member at a time, as the single loop of the job     *)
(* does.                                                                    *)
OneCounter == \A p \in Plans : \A r, s \in Req :
    r # s /\ p[r].op = "units" /\ p[s].op = "units" => p[r].who # p[s].who

(* What was granted by the unit is what lies between the baseline and the   *)
(* furthest mark, and a job about to grant has the rest exactly.            *)
Counting(r) == call[r].op = "units" /\ call[r].pc = "owed" =>
    /\ call[r].arg.units > 0
    /\ call[r].arg.units = Amt(r) - HighIn(grants, Who(r))

Alone == \A r, s \in Req :
    r # s /\ call[r].op = "units" /\ call[s].op = "units" => Who(r) # Who(s)

UnitInv ==
    /\ Alone
    /\ \A m \in Member : UnitsIn(grants, m) = HighIn(grants, m) - Baseline[m]
    /\ \A r \in Req : Counting(r)

LEMMA UnitInit == ASSUME OneCounter, Init PROVE UnitInv
<1>1. PICK p \in Plans : call = p
  BY DEF Init, PointsInit, HandlersInit
<1>2. call = [r \in Req |-> Request(p[r].op, p[r].who, p[r].arg, p[r].amt)]
  BY <1>1, PointsAssumption
<1>3. Alone
  BY <1>1 DEF OneCounter, Alone, Who
<1>4. \A r \in Req : Counting(r)
  BY <1>2 DEF Counting, Request
<1>5. grants = <<>>
  BY DEF Init, GrantsInit
<1>6. ASSUME NEW m \in Member PROVE UnitsIn(grants, m) = HighIn(grants, m) - Baseline[m]
  <2>1. MarkedIn(grants, m) = {} /\ MarksIn(grants, m) = {}
    BY <1>5 DEF MarkedIn, MarksIn
  <2>2. UnitsIn(grants, m) = 0
    BY <2>1, SumOfNone DEF UnitsIn
  <2>3. Rows
    BY LedgerInit DEF LedgerInv, GrantTypes
  <2>4. HighIn(grants, m) = Baseline[m]
    BY <2>1, <2>3, HighFacts DEF Rows
  <2>5. Baseline[m] \in Nat
    BY RewardAssumption
  <2> QED
    BY <2>2, <2>4, <2>5
<1> QED
  BY <1>3, <1>4, <1>6 DEF UnitInv

(* A request that counts stays its member's, and has something to grant     *)
(* only from where it looked how much.                                      *)
Counts(r) ==
    /\ MovesOnly(r)
    /\ call[r].op = "units" => call'[r].who = call[r].who /\ (call'[r].pc # "owed" \/ UnitsOwed(r))

LEMMA CountActs ==
    ASSUME Known, LedgerInv, NEW r \in Req, GrantActs(r)
    PROVE  Counts(r)
<1>1. MovesOnly(r)
  BY GrantStep DEF Known, Frame
<1>2. ASSUME NEW x, x # "owed", Goto(r, x) PROVE Counts(r)
  BY <1>1, <1>2, GotoMoves DEF Known, Frame, Counts
<1>3. CASE GrantReturn(r) \/ GrantDie(r)
  <2>1. \E x : x # "owed" /\ Goto(r, x)
    BY <1>3 DEF GrantReturn, GrantDie, Die, Cut
  <2> QED
    BY <1>2, <2>1
<1>4. CASE ClaimGrant(r) \/ GrantOneOff(r) \/ ExpireGrants(r)
  <2>1. call[r].op # "units"
    BY <1>4 DEF ClaimGrant, GrantOneOff, ExpireGrants, At
  <2> QED
    BY <1>1, <2>1 DEF Counts
<1>5. CASE GrantPerUnit(r)
  <2>1. \E x : x # "owed" /\ Goto(r, x)
    <3>1. PICK slug, ref, mark, units : Insert(r, slug, ref, mark, units)
      BY <1>5 DEF GrantPerUnit
    <3>2. Goto(r, "read") \/ Goto(r, "granted") \/ Goto(r, "ungranted")
      BY <3>1 DEF Insert
    <3> QED
      BY <3>2
  <2> QED
    BY <1>2, <2>1
<1>6. CASE UnitsRead(r)
  <2>1. PICK n : AmtSet(r, "counted", n)
    BY <1>6 DEF UnitsRead, AmtSet
  <2>2. call'[r].pc = "counted" /\ call'[r].who = call[r].who
    BY <2>1, SetAmt DEF Known, Frame
  <2> QED
    BY <1>1, <2>2 DEF Counts
<1>7. CASE UnitsOwed(r)
  <2>1. call'[r].who = call[r].who
    <3>1. CASE Goto(r, "granted")
      BY <3>1, GotoMoves DEF Known, Frame
    <3>2. ASSUME NEW a, UnitsSet(r, a) PROVE call'[r].who = call[r].who
      BY <3>2, SetUnits DEF Known, Frame
    <3> QED
      BY <1>7, <3>1, <3>2 DEF UnitsOwed, UnitsSet
  <2> QED
    BY <1>1, <1>7, <2>1 DEF Counts
<1> QED
  BY <1>3, <1>4, <1>5, <1>6, <1>7 DEF GrantActs

LEMMA CountsMove ==
    ASSUME Known, LedgerInv, [Next]_vars
    PROVE  UNCHANGED call \/ \E r \in Req : Counts(r)
<1>1. CASE UNCHANGED vars \/ Count
  BY <1>1 DEF vars, Count, pointsVars
<1>2. CASE StoreNext \/ PaidActionsNext \/ JoinsNext \/ OfferNext \/ PotNext \/ DailyNext
  <2>1. ASSUME NEW r \in Req, NEW ops, StepOf(r, ops), "units" \notin ops
        PROVE  Counts(r)
    BY <2>1 DEF StepOf, Counts
  <2>2. /\ "units" \notin SaleOps /\ "units" \notin PaidOps /\ "units" \notin JoinOps
        /\ "units" \notin OfferOps /\ "units" \notin PotOps /\ "units" \notin {"daily"}
    BY DEF SaleOps, PaidOps, JoinOps, OfferOps, PotOps
  <2>3. \/ UNCHANGED call
        \/ \E r \in Req : \/ StepOf(r, SaleOps) \/ StepOf(r, PaidOps) \/ StepOf(r, JoinOps)
                          \/ StepOf(r, OfferOps) \/ StepOf(r, PotOps) \/ StepOf(r, {"daily"})
    BY <1>2, StoreSteps, PaidSteps, JoinSteps, OfferSteps, PotSteps, DailySteps DEF Known, Frame
  <2> QED
    BY <2>1, <2>2, <2>3
<1>3. ASSUME NEW r \in Req, SettleStep(r) PROVE Counts(r)
  <2>1. PICK x \in PayPcs \ {"pay", "ungranted"} : Goes(r, x)
    BY <1>3, SettleGoes
  <2>2. x # "owed"
    BY DEF PayPcs, Settling
  <2> QED
    BY <2>1, <2>2 DEF Goes, Counts
<1>4. ASSUME NEW r \in Req, AchActs(r) PROVE Counts(r)
  <2>1. MovesOnly(r) /\ call[r].op # "units"
    <3>1. MovesOnly(r)
      BY <1>4, AchStep DEF Known, Frame
    <3>2. call[r].op \in {"post", Job}
      BY <1>4 DEF AchActs, At, Post, Increment, ScoreRead, ScoreOne, MarkBackfilled, Complete, PayBadge,
         Stamp, Unpaid, Repair, AchDie
    <3> QED
      BY <3>1, <3>2 DEF Job
  <2> QED
    BY <2>1 DEF Counts
<1>5. CASE Next
  <2>1. \/ StoreNext \/ PaidActionsNext \/ JoinsNext \/ OfferNext \/ PotNext \/ DailyNext
        \/ Count \/ (\E r \in Req : GrantActs(r)) \/ (\E r \in Req : SettleStep(r))
        \/ \E r \in Req : AchActs(r)
    BY <1>5 DEF Next, GrantsNext, GrantActs, AchievementsNext, AchActs
  <2> QED
    BY <1>1, <1>2, <1>3, <1>4, <2>1, CountActs
<1> QED
  BY <1>1, <1>5

(* Rows are added without a mark, but for the job that counts.              *)
MarkGranted(r) ==
    /\ call[r].op = "units" /\ call[r].pc = "owed" /\ call[r].arg.slug \in DOMAIN Reward
    /\ call'[r].pc # "owed"
    /\ MovesOnly(r)
    /\ grants' = Append(grants, NewGrant(call[r].arg.slug, Who(r), <<"mark", Amt(r)>>, Amt(r),
                                         call[r].arg.units))

Markless == GrantsGrow /\ \A g \in DOMAIN grants' \ DOMAIN grants : grants'[g].mark = 0

LEMMA MarklessInsert ==
    ASSUME Known, LedgerInv, NEW r \in Req, NEW slug \in DOMAIN Reward, NEW ref \in Ref,
           NEW units \in Nat, Insert(r, slug, ref, 0, units)
    PROVE  Markless
<1>1. Rows /\ Who(r) \in Member
  BY DEF LedgerInv, GrantTypes, Purse, Who
<1>2. CASE grants' = Append(grants, NewGrant(slug, Who(r), ref, 0, units))
  <2>1. /\ GrantsGrow
        /\ \A g \in DOMAIN grants' \ DOMAIN grants : grants'[g] = NewGrant(slug, Who(r), ref, 0, units)
    BY <1>1, <1>2, NewIsFresh
  <2> QED
    BY <2>1 DEF NewGrant, Markless
<1>3. CASE UNCHANGED grants
  BY <1>3, SameRows DEF Markless
<1> QED
  BY <1>2, <1>3, InsertRows

LEMMA AddMarks ==
    ASSUME Known, LedgerInv, NEW r \in Req, AddActs(r)
    PROVE  Markless \/ MarkGranted(r)
<1>1. CASE GrantOneOff(r)
  <2>1. call[r].arg \in DOMAIN Reward
    BY <1>1 DEF GrantOneOff, At, LedgerInv, Granting
  <2>2. <<"once">> \in Ref
    BY DEF Ref
  <2> QED
    BY <1>1, <2>1, <2>2, MarklessInsert DEF GrantOneOff
<1>2. CASE PayBadge(r)
  <2>1. Badge \in DOMAIN Reward /\ BadgeRef \in Ref
    BY AchievementAssumption DEF Ref
  <2> QED
    BY <1>2, <2>1, MarklessInsert DEF PayBadge
<1>3. CASE GrantPerUnit(r)
  <2>1. /\ call[r].op = "units" /\ call[r].pc = "owed" /\ call[r].arg.slug \in DOMAIN Reward
        /\ call[r].arg.units \in Nat /\ Amt(r) \in Nat
    BY <1>3 DEF GrantPerUnit, At, LedgerInv, Granting, Purse, Amt
  <2>2. <<"mark", Amt(r)>> \in Ref
    BY <2>1 DEF Ref
  <2>3. Insert(r, call[r].arg.slug, <<"mark", Amt(r)>>, Amt(r), call[r].arg.units)
    BY <1>3 DEF GrantPerUnit
  <2>4. ASSUME NEW x \in {"read", "granted"}, Goto(r, x)
        PROVE  MovesOnly(r) /\ call'[r].pc # "owed"
    BY <2>4, GotoMoves DEF Known, Frame
  <2>5. CASE UNCHANGED grants
    BY <2>5, SameRows DEF Markless
  <2>6. CASE /\ grants' = Append(grants, NewGrant(call[r].arg.slug, Who(r), <<"mark", Amt(r)>>, Amt(r),
                                                  call[r].arg.units))
             /\ Goto(r, "read") \/ Goto(r, "granted")
    BY <2>1, <2>4, <2>6 DEF MarkGranted
  <2> QED
    BY <2>1, <2>2, <2>3, <2>5, <2>6, InsertRows
<1> QED
  BY <1>1, <1>2, <1>3 DEF AddActs

LEMMA SettleMarks ==
    ASSUME Known, LedgerInv, NEW r \in Req, SettleStep(r)
    PROVE  Markless
<1>1. GrantsGrow
  BY SettledGrow
<1>2. CASE SettleRead(r)
  BY <1>1, <1>2 DEF SettleRead, Markless
<1>3. CASE PayLine(r)
  <2>1. PICK i, l : i = Mine(r) /\ l = Min(settling[r].lines)
    OBVIOUS
  <2>2. PaidOver(r, i, l) \/ UNCHANGED grants
    BY <1>3, <2>1, PayRows
  <2>3. CASE PaidOver(r, i, l)
    BY <1>1, <2>3 DEF PaidOver, Markless, NewGrant
  <2> QED
    BY <1>1, <2>2, <2>3 DEF Markless
<1>4. CASE MarkLine(r)
  <2>1. PICK i, L : i = Mine(r) /\ L = settling[r].lines
    OBVIOUS
  <2>2. PICK l : l = Min(L)
    OBVIOUS
  <2>3. DOMAIN grants' = DOMAIN grants
    BY <1>4, <2>1, <2>2, MarkRows
  <2> QED
    BY <1>1, <2>3 DEF Markless
<1>5. CASE SettleGrant(r)
  <2>1. PICK i : i = Mine(r)
    OBVIOUS
  <2>2. DOMAIN grants' = DOMAIN grants
    BY <1>5, <2>1, CreditRows
  <2> QED
    BY <1>1, <2>2 DEF Markless
<1> QED
  BY <1>2, <1>3, <1>4, <1>5 DEF SettleStep

LEMMA MarksMove ==
    ASSUME Known, LedgerInv, [Next]_vars
    PROVE  Markless \/ \E r \in Req : MarkGranted(r)
<1>1. ASSUME UNCHANGED grants PROVE Markless
  BY <1>1, SameRows DEF Markless
<1>2. ASSUME NEW r \in Req, ExpireGrants(r) PROVE Markless
  <2>1. PICK late \in SUBSET {g \in DOMAIN grants : Lapsed(grants[g])} :
           grants' = [g \in DOMAIN grants |->
                       IF g \in late THEN [grants[g] EXCEPT !.state = "expired"] ELSE grants[g]]
    BY <1>2 DEF ExpireGrants
  <2>2. Rows
    BY DEF LedgerInv, GrantTypes
  <2>3. GrantsGrow /\ DOMAIN grants' = DOMAIN grants
    BY <2>1, <2>2, ExpireRows
  <2> QED
    BY <2>3 DEF Markless
<1>3. ASSUME Quiet1 PROVE Markless
  BY <1>1, <1>3 DEF Quiet1
<1>4. ASSUME NEW r \in Req, ClaimGrant(r) PROVE Markless
  <2>1. UNCHANGED grants
    BY <1>4 DEF ClaimGrant
  <2> QED
    BY <1>1, <2>1
<1>5. ASSUME NEW r \in Req, AddActs(r) \/ SettleStep(r) PROVE Markless \/ MarkGranted(r)
  BY <1>5, AddMarks, SettleMarks
<1> QED
  BY <1>2, <1>3, <1>4, <1>5, GrantsMove

LEMMA AloneKept ==
    ASSUME Alone, NEW r \in Req, Counts(r) PROVE Alone'
<1>1. \A s \in Req : call'[s].op = call[s].op /\ (call[s].op = "units" => call'[s].who = call[s].who)
  BY DEF Counts, MovesOnly
<1> QED
  BY <1>1 DEF Alone, Who

(* Without a new mark.                                                      *)
LEMMA MarklessUnits ==
    ASSUME Known, LedgerInv, LedgerInv', UnitInv, [Next]_vars, Markless
    PROVE  UnitInv'
<1>1. Rows /\ Rows' /\ \A r \in Req : Who(r) \in Member
  BY DEF LedgerInv, GrantTypes, Purse, Who
<1>2. ASSUME NEW m \in Member
      PROVE  HighIn(grants', m) = HighIn(grants, m) /\ UnitsIn(grants', m) = UnitsIn(grants, m)
  BY <1>1, MarksStay DEF Markless, Rows, GrantsGrow
<1>3. \A m \in Member : UnitsIn(grants', m) = HighIn(grants', m) - Baseline[m]
  BY <1>2 DEF UnitInv
<1>4. ASSUME NEW s \in Req, call'[s] = call[s] PROVE Counting(s)'
  <2>1. HighIn(grants', Who(s)) = HighIn(grants, Who(s)) /\ Counting(s)
    BY <1>1, <1>2 DEF UnitInv
  <2> QED
    BY <1>4, <2>1 DEF Counting, Who, Amt
<1>5. CASE UNCHANGED call
  <2>1. Alone'
    BY <1>5 DEF UnitInv, Alone, Who
  <2> QED
    BY <1>3, <1>4, <1>5, <2>1 DEF UnitInv
<1>6. ASSUME NEW r \in Req, Counts(r) PROVE UnitInv'
  <2>1. Alone'
    BY <1>6, AloneKept DEF UnitInv
  <2>2. \A s \in Req \ {r} : Counting(s)'
    BY <1>4, <1>6 DEF Counts, MovesOnly
  <2>3. CASE call[r].op # "units" \/ call'[r].pc # "owed"
    <3>1. Counting(r)'
      BY <1>6, <2>3 DEF Counts, MovesOnly, Counting
    <3> QED
      BY <1>3, <2>1, <2>2, <3>1 DEF UnitInv
  <2>4. CASE UnitsOwed(r)
    <3>1. CASE Goto(r, "granted")
      <4>1. call'[r].pc = "granted"
        BY <3>1, GotoMoves DEF Known, Frame
      <4> QED
        BY <2>3, <4>1
    <3>2. ASSUME NEW n, n = Amt(r) - PreviousMark(Who(r)), n > 0,
                 UnitsSet(r, [slug |-> call[r].arg.slug, units |-> n])
          PROVE  UnitInv'
      <4>1. PICK a : a = [slug |-> call[r].arg.slug, units |-> n]
        OBVIOUS
      <4>2. /\ call'[r].amt = call[r].amt /\ call'[r].who = call[r].who /\ call'[r].arg = a
        BY <3>2, <4>1, SetUnits DEF Known, Frame
      <4>3. call'[r].arg.units = n
        BY <4>1, <4>2
      <4>4. PreviousMark(Who(r)) = HighIn(grants, Who(r))
        BY DEF PreviousMark, HighIn, MarksIn
      <4>5. HighIn(grants', Who(r)) = HighIn(grants, Who(r))
        BY <1>1, <1>2
      <4>6. Counting(r)'
        BY <3>2, <4>2, <4>3, <4>4, <4>5 DEF Counting, Who, Amt
      <4> QED
        BY <1>3, <2>1, <2>2, <4>6 DEF UnitInv
    <3> QED
      BY <2>4, <3>1, <3>2 DEF UnitsOwed, UnitsSet
  <2> QED
    BY <1>6, <2>3, <2>4 DEF Counts
<1> QED
  BY <1>5, <1>6, CountsMove

(* Under a new mark.                                                        *)
LEMMA MarkedUnits ==
    ASSUME Known, LedgerInv, LedgerInv', UnitInv, [Next]_vars, NEW r \in Req, MarkGranted(r)
    PROVE  UnitInv'
<1>1. Rows /\ Rows' /\ \A s \in Req : Who(s) \in Member /\ Amt(s) \in Nat
  BY DEF LedgerInv, GrantTypes, Purse, Who, Amt
<1>2. PICK m \in Member : m = Who(r)
  BY <1>1
<1>3. PICK n \in Nat : n = Amt(r)
  BY <1>1
<1>4. PICK u \in Nat : u = call[r].arg.units
  BY DEF MarkGranted, LedgerInv, Granting
<1>5. PICK h \in Nat : h = HighIn(grants, m)
  BY <1>1, HighFacts DEF Rows
<1>6. u > 0 /\ u = n - h
  BY <1>2, <1>3, <1>4, <1>5 DEF MarkGranted, UnitInv, Counting
<1>7. PICK p : p = NewGrant(call[r].arg.slug, m, <<"mark", n>>, n, u)
  OBVIOUS
<1>8. p \in GrantRow /\ Lined(p) /\ p.who = m /\ p.mark = n /\ p.units = u
  <2>1. <<"mark", n>> \in Ref /\ call[r].arg.slug \in DOMAIN Reward
    BY DEF Ref, MarkGranted
  <2>2. p \in GrantRow /\ Lined(p)
    BY <1>7, <2>1, NewRow
  <2>3. p.who = m /\ p.mark = n /\ p.units = u
    BY <1>7 DEF NewGrant
  <2> QED
    BY <2>2, <2>3
<1>9. Added(grants, Len(grants) + 1, p, grants')
  <2>1. grants' = Append(grants, p)
    BY <1>2, <1>3, <1>4, <1>7 DEF MarkGranted
  <2>2. grants \in Seq(GrantRow)
    BY <1>1 DEF Rows, RowsIn
  <2> QED
    BY <1>8, <2>1, <2>2, AppendAdds
<1>10. GrowsTo(grants, grants')
  BY <1>1, <1>8, <1>9, AddedTo DEF Rows
<1>11. HighIn(grants', m) = n /\ UnitsIn(grants', m) = UnitsIn(grants, m) + u
  <2>1. p.mark > HighIn(grants, m)
    BY <1>5, <1>6, <1>8
  <2> QED
    BY <1>1, <1>8, <1>9, <2>1, MarkAdded DEF Rows
<1>12. ASSUME NEW k \in Member, k # m
       PROVE  HighIn(grants', k) = HighIn(grants, k) /\ UnitsIn(grants', k) = UnitsIn(grants, k)
  <2>1. \A g \in DOMAIN grants' \ DOMAIN grants : grants'[g].who = k => grants'[g].mark = 0
    BY <1>8, <1>9, <1>12 DEF Added
  <2> QED
    BY <1>1, <1>10, <2>1, MarksStay DEF Rows
<1>13. ASSUME NEW k \in Member PROVE UnitsIn(grants', k) = HighIn(grants', k) - Baseline[k]
  <2>1. CASE k = m
    <3>1. Baseline[m] \in Nat /\ UnitsIn(grants, m) = h - Baseline[m]
      BY <1>5, RewardAssumption DEF UnitInv
    <3> QED
      BY <1>6, <1>11, <2>1, <3>1
  <2>2. CASE k # m
    BY <1>12, <2>2 DEF UnitInv
  <2> QED
    BY <2>1, <2>2
<1>14. \A s \in Req \ {r} : call'[s] = call[s]
  BY DEF MarkGranted, MovesOnly
<1>15. ASSUME NEW s \in Req \ {r} PROVE Counting(s)'
  <2>1. CASE call[s].op = "units"
    <3>1. Who(s) # m
      BY <1>2, <2>1 DEF MarkGranted, UnitInv, Alone
    <3>2. HighIn(grants', Who(s)) = HighIn(grants, Who(s)) /\ Counting(s)
      BY <1>1, <1>12, <3>1 DEF UnitInv
    <3> QED
      BY <1>14, <3>2 DEF Counting, Who, Amt
  <2>2. CASE call[s].op # "units"
    BY <1>14, <2>2 DEF Counting
  <2> QED
    BY <2>1, <2>2
<1>16. Counting(r)'
  BY DEF MarkGranted, Counting
<1>17. Alone'
  <2>1. CASE UNCHANGED call
    BY <2>1 DEF UnitInv, Alone, Who
  <2>2. CASE \E s \in Req : Counts(s)
    BY <2>2, AloneKept DEF UnitInv
  <2> QED
    BY <2>1, <2>2, CountsMove
<1> QED
  BY <1>13, <1>15, <1>16, <1>17 DEF UnitInv

LEMMA UnitNext ==
    ASSUME Known, LedgerInv, LedgerInv', UnitInv, [Next]_vars PROVE UnitInv'
BY MarksMove, MarklessUnits, MarkedUnits

LEMMA UnitsMeant == ASSUME LedgerInv, UnitInv PROVE UnitsExact
<1>1. Rows
  BY DEF LedgerInv, GrantTypes
<1>2. SUFFICES ASSUME NEW m \in Member
               PROVE  SumFunctionOnSet([g \in MarkedIn(grants, m) |-> grants[g].units], MarkedIn(grants, m))
                        = Max({Baseline[m]} \cup {grants[g].mark : g \in MarkedIn(grants, m)}) - Baseline[m]
  BY DEF UnitsExact, MarkedIn
<1> DEFINE M == {grants[g].mark : g \in MarkedIn(grants, m)}
           S == {Baseline[m]} \cup M
<1>3. PICK h : h = HighIn(grants, m)
  OBVIOUS
<1>4. /\ h \in Nat /\ h \in {Baseline[m]} \cup MarksIn(grants, m)
      /\ \A n \in {Baseline[m]} \cup MarksIn(grants, m) : h >= n
  BY <1>1, <1>3, HighFacts DEF Rows
<1>5. Baseline[m] \in Nat /\ \A g \in DOMAIN grants : grants[g].mark \in Nat
  BY <1>1, MarksFacts, RewardAssumption DEF Rows
<1>6. M \subseteq MarksIn(grants, m) /\ MarksIn(grants, m) \subseteq M \cup {0}
  BY <1>5 DEF MarksIn, MarkedIn
<1>7. h \in S /\ \A n \in S : h >= n
  BY <1>4, <1>5, <1>6
<1>8. IsFiniteSet(S) /\ S \subseteq Int /\ S # {}
  <2>1. S \subseteq {Baseline[m]} \cup MarksIn(grants, m)
    BY <1>6
  <2>2. IsFiniteSet({Baseline[m]} \cup MarksIn(grants, m)) /\ {Baseline[m]} \cup MarksIn(grants, m) \subseteq Nat
    BY <1>1, MarksFacts DEF Rows
  <2> HIDE DEF S
  <2>3. IsFiniteSet(S)
    BY <2>1, <2>2, FS_Subset
  <2> QED
    BY <1>7, <2>1, <2>2, <2>3
<1>9. Max(S) = h
  <2> HIDE DEF S
  <2>1. Max(S) \in S /\ \A y \in S : Max(S) >= y
    BY <1>8, MaxIn
  <2>2. PICK x \in Int : x = Max(S)
    BY <1>8, <2>1
  <2>3. x >= h /\ h >= x
    BY <1>7, <2>1, <2>2
  <2> QED
    BY <1>4, <2>2, <2>3
<1>10. UnitsIn(grants, m) = h - Baseline[m]
  BY <1>3 DEF UnitInv
<1> QED
  BY <1>9, <1>10 DEF UnitsIn

(* No unit is paid twice, nor lost: with one job counting for a member, the *)
(* units of the grants are exactly those between the baseline and the       *)
(* furthest mark, however the counter moves, whatever fails and restarts.   *)
THEOREM UnitsAreExact == ASSUME OneCounter PROVE Spec => []UnitsExact
<1>1. Init => Books /\ UnitInv
  BY BooksKept, UnitInit
<1>2. Books /\ UnitInv /\ [Next]_vars => (Books /\ UnitInv)'
  BY BooksKept, UnitNext DEF Books
<1>3. Books /\ UnitInv => UnitsExact
  BY UnitsMeant DEF Books
<1> QED
  BY <1>1, <1>2, <1>3, PTL DEF Spec

---------------------------------------------------------------------------
(* Grants that lapse.  A line that was handed over and not marked is held   *)
(* by the one request that settles the grant, or that was cut off or failed *)
(* doing so; the sweep passes over a grant with a marked line, so whatever  *)
(* it takes with a line handed over has such a request.  A job starts again *)
(* and forgets which grant it was about: it settles what it pays by itself, *)
(* and the validator says of an expiry there that it "never applies".       *)
Lapsing(slug) == Reward[slug].expires /\ Reward[slug].delivery = "auto"

JobsNeverLapse ==
    /\ ~Lapsing(Badge)
    /\ \A p \in Plans : \A r \in Req : p[r].op = "units" => ~Lapsing(p[r].arg.slug)

Single(r) == call[r].op \in {"collect", "grant"}
Stuck(r) == call[r].pc = "dead" \/ call[r].owed

Holds(r, g, l) == /\ Single(r) /\ Mine(r) = g
                  /\ Stuck(r) \/ (call[r].pc = "mark" /\ l = Min(settling[r].lines))
Busy(r, g) == Single(r) /\ Mine(r) = g /\ (Stuck(r) \/ call[r].pc \in {"lines", "mark"})

Expiring(g) == Reward[grants[g].reward].expires
Unmarked(g, l) == grants[g].handed[l] > 0 /\ l \notin grants[g].settled
Begun(g) == \E l \in DOMAIN grants[g].handed : grants[g].handed[l] > 0

LapseRow(g) ==
    /\ grants[g].state = "expired" => Expiring(g) /\ (Begun(g) => \E r \in Req : Busy(r, g))
    /\ Expiring(g) => \A l \in DOMAIN grants[g].handed :
                         Unmarked(g, l) => \E r \in Req : Holds(r, g, l)

LapseReq(r) ==
    /\ call[r].op = "units" => ~Lapsing(call[r].arg.slug)
    /\ call[r].pc \in Settling /\ ~Single(r) => ~Expiring(Mine(r))
    /\ Single(r) /\ call[r].owed => call[r].pc \in {"failed", "refused", "dead"}

LapseInv == (\A g \in DOMAIN grants : LapseRow(g)) /\ \A r \in Req : LapseReq(r)

(* What a step of one request must see to.                                  *)
Keeps(r, g) ==
    /\ \A l \in DOMAIN grants[g].handed : Holds(r, g, l) => Holds(r, g, l)' \/ ~Unmarked(g, l)'
    /\ Busy(r, g) => Busy(r, g)' \/ grants'[g].state # "expired"

Takes(r, g) ==
    /\ \A l \in DOMAIN grants[g].handed :
          Unmarked(g, l)' => Unmarked(g, l) \/ ~Expiring(g) \/ Holds(r, g, l)'
    /\ grants'[g].state = "expired" =>
          \/ grants[g].state = "expired" /\ (Begun(g)' => Begun(g) \/ Busy(r, g)')
          \/ Expiring(g) /\ (Begun(g)' => \E s \in Req : Busy(s, g)')

NewRowIn(g) == grants'[g].state # "expired" /\ \A l \in DOMAIN grants'[g].handed : grants'[g].handed[l] = 0

OthersStay(r) == \A s \in Req \ {r} : call'[s] = call[s] /\ settling'[s] = settling[s]

LEMMA OthersHold ==
    ASSUME NEW r \in Req, OthersStay(r), NEW s \in Req \ {r}, NEW g, NEW l
    PROVE  (Holds(s, g, l)' <=> Holds(s, g, l)) /\ (Busy(s, g)' <=> Busy(s, g))
<1>1. call'[s] = call[s] /\ settling'[s] = settling[s]
  BY DEF OthersStay
<1>2. Mine(s)' = Mine(s) /\ (Single(s)' <=> Single(s)) /\ (Stuck(s)' <=> Stuck(s))
  BY <1>1 DEF Mine, Single, Stuck
<1> QED
  BY <1>1, <1>2 DEF Holds, Busy

LEMMA HandedAlike ==
    ASSUME LedgerInv, LedgerInv', GrantsGrow, NEW g \in DOMAIN grants
    PROVE  /\ DOMAIN grants'[g].handed = DOMAIN grants[g].handed
           /\ (Expiring(g)' <=> Expiring(g)) /\ g \in DOMAIN grants'
<1>1. grants'[g].reward = grants[g].reward /\ g \in DOMAIN grants'
  BY DEF GrantsGrow, GrowsTo, Stays1
<1>2. Lined(grants[g]) /\ Lined(grants'[g])
  BY <1>1 DEF LedgerInv, GrantTypes, Rows, RowsIn
<1> QED
  BY <1>1, <1>2 DEF Lined, Expiring

LEMMA LapseKeep ==
    ASSUME LedgerInv, LedgerInv', LapseInv, NEW r \in Req, OthersStay(r), GrantsGrow, LapseReq(r)',
           \A g \in DOMAIN grants : Keeps(r, g) /\ Takes(r, g),
           \A g \in DOMAIN grants' \ DOMAIN grants : NewRowIn(g)
    PROVE  LapseInv'
<1>1. ASSUME NEW g \in DOMAIN grants PROVE LapseRow(g)'
  <2>1. /\ DOMAIN grants'[g].handed = DOMAIN grants[g].handed
        /\ (Expiring(g)' <=> Expiring(g))
    BY HandedAlike
  <2>2. LapseRow(g) /\ Keeps(r, g) /\ Takes(r, g)
    BY DEF LapseInv
  <2>3. ASSUME NEW l \in DOMAIN grants[g].handed, Unmarked(g, l)', Expiring(g)
        PROVE  \E s \in Req : Holds(s, g, l)'
    <3>1. CASE Holds(r, g, l)'
      BY <3>1
    <3>2. CASE Unmarked(g, l)
      <4>1. PICK s \in Req : Holds(s, g, l)
        BY <2>2, <2>3, <3>2 DEF LapseRow
      <4>2. CASE s = r
        BY <2>2, <2>3, <4>1, <4>2 DEF Keeps
      <4>3. CASE s # r
        BY <4>1, <4>3, OthersHold
      <4> QED
        BY <4>2, <4>3
    <3> QED
      BY <2>2, <2>3, <3>1, <3>2 DEF Takes
  <2>4. ASSUME grants'[g].state = "expired", Begun(g)'
        PROVE  \E s \in Req : Busy(s, g)'
    <3>1. CASE Begun(g) /\ grants[g].state = "expired"
      <4>1. PICK s \in Req : Busy(s, g)
        BY <2>2, <3>1 DEF LapseRow
      <4>2. CASE s = r
        BY <2>2, <2>4, <4>1, <4>2 DEF Keeps
      <4>3. CASE s # r
        BY <4>1, <4>3, OthersHold
      <4> QED
        BY <4>2, <4>3
    <3> QED
      BY <2>2, <2>4, <3>1 DEF Takes
  <2>5. grants'[g].state = "expired" => Expiring(g)
    BY <2>2 DEF Takes, LapseRow
  <2> QED
    BY <2>1, <2>3, <2>4, <2>5 DEF LapseRow
<1>2. ASSUME NEW g \in DOMAIN grants' \ DOMAIN grants PROVE LapseRow(g)'
  BY <1>2 DEF NewRowIn, LapseRow, Unmarked
<1>3. ASSUME NEW s \in Req \ {r} PROVE LapseReq(s)'
  <2>1. call'[s] = call[s] /\ settling'[s] = settling[s] /\ LapseReq(s)
    BY DEF OthersStay, LapseInv
  <2>2. (Single(s)' <=> Single(s)) /\ Mine(s)' = Mine(s)
    BY <2>1 DEF Single, Mine
  <2>3. call[s].pc \in Settling => (Expiring(Mine(s))' <=> Expiring(Mine(s)))
    <3>1. ASSUME call[s].pc \in Settling PROVE Expiring(Mine(s))' <=> Expiring(Mine(s))
      <4>1. Mine(s) \in DOMAIN grants
        BY <3>1, AtSettling
      <4> QED
        BY <2>2, <4>1 DEF GrantsGrow, GrowsTo, Stays1, Expiring
    <3> QED
      BY <3>1
  <2> QED
    BY <2>1, <2>2, <2>3 DEF LapseReq
<1> QED
  BY <1>1, <1>2, <1>3 DEF LapseInv

(* Most steps leave the rows as they are, and whoever held a line stays cut *)
(* off, or is from now on.                                                  *)
Rests(r) == Single(r) /\ (Stuck(r) \/ call[r].pc \in {"lines", "mark"})
               => Single(r)' /\ Stuck(r)' /\ Mine(r)' = Mine(r)

LEMMA LapseRests ==
    ASSUME LedgerInv, LedgerInv', LapseInv, NEW r \in Req, OthersStay(r), GrantsGrow, LapseReq(r)',
           Rests(r), \A g \in DOMAIN grants : grants'[g] = grants[g],
           \A g \in DOMAIN grants' \ DOMAIN grants : NewRowIn(g)
    PROVE  LapseInv'
<1>1. ASSUME NEW g \in DOMAIN grants PROVE Keeps(r, g)
  <2>1. \A l : Holds(r, g, l) => Holds(r, g, l)'
    BY DEF Rests, Holds
  <2>2. Busy(r, g) => Busy(r, g)'
    BY DEF Rests, Busy
  <2> QED
    BY <2>1, <2>2 DEF Keeps
<1>2. ASSUME NEW g \in DOMAIN grants PROVE Takes(r, g)
  BY DEF Takes, Unmarked, Begun
<1> QED
  BY <1>1, <1>2, LapseKeep

(* Nothing happens to the grants.                                           *)
LEMMA LapseQuiet ==
    ASSUME LedgerInv, LedgerInv', LapseInv, UNCHANGED <<grants, settling>>,
           NEW r \in Req, MovesOnly(r), LapseReq(r)', Rests(r)
    PROVE  LapseInv'
<1>1. OthersStay(r)
  BY DEF OthersStay, MovesOnly
<1>2. GrantsGrow
  BY SameRows
<1> QED
  BY <1>1, <1>2, LapseRests

LEMMA LapseStill ==
    ASSUME LapseInv, UNCHANGED <<call, grants, settling>> PROVE LapseInv'
BY DEF LapseInv, LapseRow, LapseReq, Expiring, Begun, Busy, Holds, Unmarked, Single, Stuck, Mine

(* Another request than these, that settles nothing.                        *)
LEMMA LapseElse ==
    ASSUME LedgerInv, LedgerInv', LapseInv, UNCHANGED <<grants, settling>>,
           NEW r \in Req, MovesOnly(r), ~Single(r),
           call[r].op = "units" => call'[r].arg.slug = call[r].arg.slug,
           call'[r].pc \notin Settling
    PROVE  LapseInv'
<1>1. call'[r].op = call[r].op /\ ~Single(r)'
  BY DEF MovesOnly, Single
<1>2. LapseReq(r)'
  BY <1>1 DEF LapseReq, LapseInv
<1>3. Rests(r)
  BY DEF Rests
<1> QED
  BY <1>2, <1>3, LapseQuiet

(* A claim or a trigger that fails, is answered or cut off.                 *)
LEMMA LapseEnds ==
    ASSUME Known, LedgerInv, LedgerInv', LapseInv, UNCHANGED <<grants, settling>>,
           NEW r \in Req, Single(r), NEW x, Goes(r, x),
           \/ x \in {"failed", "refused", "dead"} /\ call'[r].owed
           \/ x = "dead"
           \/ /\ x \notin Settling /\ call[r].pc \notin {"dead", "lines", "mark"}
              /\ call'[r].owed = call[r].owed
              /\ call[r].owed => x \in {"failed", "refused", "dead"}
    PROVE  LapseInv'
<1>1. /\ MovesOnly(r) /\ call'[r].pc = x /\ call'[r].op = call[r].op
  BY DEF Goes
<1>2. Single(r)' /\ Mine(r)' = Mine(r) /\ call[r].op # "units"
  BY <1>1 DEF Single, Mine
<1>3. LapseReq(r)'
  BY <1>1, <1>2 DEF LapseReq
<1>4. Rests(r)
  BY <1>1, <1>2 DEF Rests, Stuck
<1> QED
  BY <1>1, <1>3, <1>4, LapseQuiet

(* A grant is added, and settled unless it waits to be collected.           *)
LEMMA LapseInsert ==
    ASSUME Known, LedgerInv, LedgerInv', LapseInv, NEW r \in Req,
           NEW slug \in DOMAIN Reward, NEW ref \in Ref, NEW mark \in Nat, NEW units \in Nat,
           Insert(r, slug, ref, mark, units),
           Single(r) => call[r].pc = "start", Single(r) \/ ~Lapsing(slug)
    PROVE  LapseInv'
<1>1. Rows /\ Who(r) \in Member /\ LapseReq(r)
  BY DEF LedgerInv, GrantTypes, Purse, Who, LapseInv
<1>2. \E x \in {"read", "granted", "ungranted"} : Goto(r, x) /\ (x = "read" => Reward[slug].delivery = "auto")
  BY DEF Insert
<1>3. PICK x \in {"read", "granted", "ungranted"} :
         Goto(r, x) /\ (x = "read" => Reward[slug].delivery = "auto")
  BY <1>2
<1>4. Goes(r, x) /\ call'[r].owed = call[r].owed /\ MovesOnly(r)
  BY <1>3, GotoGoes DEF Known, Goes
<1>5. /\ call'[r].pc = x /\ call'[r].op = call[r].op /\ call'[r].arg = call[r].arg
      /\ (Single(r)' <=> Single(r))
  BY <1>4 DEF Goes, Single
<1>6. Rests(r) /\ (Single(r) => ~call[r].owed)
  BY <1>1 DEF Rests, Stuck, LapseReq
<1>7. CASE /\ Goto(r, "ungranted") \/ Goto(r, "granted")
           /\ UNCHANGED <<grants, settling>>
  <2>1. call'[r].pc \in {"ungranted", "granted"}
    BY <1>7, GotoGoes DEF Known, Goes
  <2>2. x \notin Settling
    BY <1>5, <2>1 DEF Settling
  <2>3. LapseReq(r)'
    BY <1>1, <1>4, <1>5, <1>6, <2>2 DEF LapseReq
  <2> QED
    BY <1>4, <1>6, <1>7, <2>3, LapseQuiet
<1>8. CASE /\ grants' = Append(grants, NewGrant(slug, Who(r), ref, mark, units))
           /\ SettlingSet(r, Len(grants) + 1, {})
  <2>1. /\ GrantsGrow /\ \A g \in DOMAIN grants : grants'[g] = grants[g]
        /\ \A g \in DOMAIN grants' \ DOMAIN grants :
              /\ g = Len(grants) + 1
              /\ grants'[g] = NewGrant(slug, Who(r), ref, mark, units)
    BY <1>1, <1>8, NewIsFresh
  <2>2. PICK n : n = Len(grants) + 1
    OBVIOUS
  <2>3. settling'[r].grant = n /\ \A s \in Req \ {r} : settling'[s] = settling[s]
    <3>1. PICK none : none = {}
      OBVIOUS
    <3>2. SettlingSet(r, n, none)
      BY <1>8, <2>2, <3>1
    <3>3. /\ settling'[r] = [grant |-> n, lines |-> none]
          /\ \A s \in Req \ {r} : settling'[s] = settling[s]
      BY <3>2, SetSettling
    <3> QED
      BY <3>3
  <2>4. OthersStay(r)
    BY <1>4, <2>3 DEF OthersStay, MovesOnly
  <2>5. \A g \in DOMAIN grants' \ DOMAIN grants : NewRowIn(g)
    BY <2>1 DEF NewRowIn, NewGrant
  <2>6. Expiring(n)' <=> Reward[slug].expires
    <3>1. n \in DOMAIN grants' \ DOMAIN grants
      <4>1. PICK p \in GrantRow : p = NewGrant(slug, Who(r), ref, mark, units)
        BY <1>1, NewRow
      <4>2. Lined(p)
        BY <1>1, <4>1, NewRow
      <4> QED
        BY <1>1, <1>8, <2>2, <4>1, <4>2, RowAdded
    <3>2. grants'[n].reward = slug
      BY <2>1, <3>1 DEF NewGrant
    <3> QED
      BY <3>2 DEF Expiring
  <2>7. LapseReq(r)'
    <3>1. Mine(r)' = n
      BY <2>3 DEF Mine
    <3>2. x \in Settling => x = "read"
      BY DEF Settling
    <3> QED
      BY <1>1, <1>3, <1>4, <1>5, <1>6, <2>6, <3>1, <3>2 DEF LapseReq, Lapsing
  <2> QED
    BY <1>6, <2>1, <2>4, <2>5, <2>7, LapseRests
<1> QED
  BY <1>7, <1>8, InsertRows

LEMMA LapseAdds ==
    ASSUME JobsNeverLapse, Known, LedgerInv, LedgerInv', LapseInv, NEW r \in Req, AddActs(r)
    PROVE  LapseInv'
<1>1. CASE GrantOneOff(r)
  <2>1. call[r].op = "grant" /\ call[r].pc = "start" /\ call[r].arg \in DOMAIN Reward
    BY <1>1 DEF GrantOneOff, At, LedgerInv, Granting
  <2>2. <<"once">> \in Ref /\ Single(r)
    BY <2>1 DEF Ref, Single
  <2>3. Insert(r, call[r].arg, <<"once">>, 0, 1)
    BY <1>1 DEF GrantOneOff
  <2> QED
    BY <2>1, <2>2, <2>3, LapseInsert
<1>2. CASE GrantPerUnit(r)
  <2>1. /\ call[r].op = "units" /\ call[r].arg.slug \in DOMAIN Reward
        /\ call[r].arg.units \in Nat /\ Amt(r) \in Nat
    BY <1>2 DEF GrantPerUnit, At, LedgerInv, Granting, Purse, Amt
  <2>2. <<"mark", Amt(r)>> \in Ref /\ ~Single(r) /\ ~Lapsing(call[r].arg.slug)
    BY <2>1 DEF Ref, Single, LapseInv, LapseReq
  <2>3. Insert(r, call[r].arg.slug, <<"mark", Amt(r)>>, Amt(r), call[r].arg.units)
    BY <1>2 DEF GrantPerUnit
  <2> QED
    BY <2>1, <2>2, <2>3, LapseInsert
<1>3. CASE PayBadge(r)
  <2>1. Badge \in DOMAIN Reward /\ BadgeRef \in Ref /\ ~Lapsing(Badge)
    BY AchievementAssumption DEF Ref, JobsNeverLapse
  <2>2. ~Single(r)
    BY <1>3 DEF PayBadge, Single, Job
  <2>3. Insert(r, Badge, BadgeRef, 0, 1)
    BY <1>3 DEF PayBadge
  <2> QED
    BY <2>1, <2>2, <2>3, LapseInsert
<1> QED
  BY <1>1, <1>2, <1>3 DEF AddActs

LEMMA LapseClaims ==
    ASSUME Known, LedgerInv, LedgerInv', LapseInv, NEW r \in Req, ClaimGrant(r)
    PROVE  LapseInv'
<1>1. UNCHANGED grants /\ Goto(r, "read") /\ call[r].op = "collect" /\ call[r].pc = "start"
  BY DEF ClaimGrant, At
<1>2. PICK g : settling' = [settling EXCEPT ![r].grant = g]
  BY DEF ClaimGrant
<1>3. \A s \in Req \ {r} : settling'[s] = settling[s]
  BY <1>2 DEF LedgerInv, GrantTypes
<1>4. Goes(r, "read") /\ call'[r].owed = call[r].owed
  BY <1>1, GotoGoes DEF Known
<1>5. OthersStay(r) /\ GrantsGrow
  BY <1>1, <1>3, <1>4, SameRows DEF OthersStay, Goes, MovesOnly
<1>6. Single(r) /\ ~call[r].owed /\ ~Stuck(r)
  BY <1>1 DEF Single, Stuck, LapseInv, LapseReq
<1>7. LapseReq(r)'
  BY <1>1, <1>4, <1>6 DEF LapseReq, Goes, Single
<1>8. Rests(r)
  BY <1>1, <1>6 DEF Rests
<1> QED
  BY <1>1, <1>5, <1>7, <1>8, LapseRests

(* The sweep takes grants no line of which is marked.                       *)
LEMMA LapseSweeps ==
    ASSUME Known, LedgerInv, LedgerInv', LapseInv, NEW r \in Req, ExpireGrants(r)
    PROVE  LapseInv'
<1>1. UNCHANGED settling /\ Goto(r, "done") /\ call[r].op = "expire"
  BY DEF ExpireGrants, At
<1>2. PICK late \in SUBSET {g \in DOMAIN grants : Lapsed(grants[g])} :
         grants' = [g \in DOMAIN grants |->
                     IF g \in late THEN [grants[g] EXCEPT !.state = "expired"] ELSE grants[g]]
  BY DEF ExpireGrants
<1>3. Rows
  BY DEF LedgerInv, GrantTypes
<1>4. /\ GrantsGrow /\ DOMAIN grants' = DOMAIN grants
      /\ \A g \in DOMAIN grants :
            \/ grants'[g] = grants[g]
            \/ Lapsed(grants[g]) /\ grants'[g] = Stated1(grants[g], "expired")
  BY <1>2, <1>3, ExpireRows
<1>5. Goes(r, "done")
  BY <1>1, GotoGoes DEF Known
<1>6. ~Single(r) /\ OthersStay(r)
  BY <1>1, <1>5 DEF Single, OthersStay, Goes, MovesOnly
<1>7. LapseReq(r)'
  BY <1>1, <1>5 DEF LapseReq, Goes, Settling, Single
<1>8. ASSUME NEW g \in DOMAIN grants PROVE Keeps(r, g)
  BY <1>6 DEF Keeps, Holds, Busy
<1>9. ASSUME NEW g \in DOMAIN grants PROVE Takes(r, g)
  <2>1. CASE grants'[g] = grants[g]
    BY <2>1 DEF Takes, Unmarked, Begun
  <2>2. CASE Lapsed(grants[g]) /\ grants'[g] = Stated1(grants[g], "expired")
    <3>1. grants'[g].handed = grants[g].handed /\ grants'[g].settled = grants[g].settled
      BY <1>3, <2>2, RowFacts, StatedRow
    <3>2. Expiring(g) /\ grants[g].settled = {}
      BY <2>2 DEF Lapsed, Expiring
    <3>3. ASSUME Begun(g)' PROVE \E s \in Req : Busy(s, g)'
      <4>1. PICK l \in DOMAIN grants[g].handed : grants[g].handed[l] > 0
        BY <3>1, <3>3 DEF Begun
      <4>2. PICK s \in Req : Holds(s, g, l)
        BY <3>2, <4>1 DEF LapseInv, LapseRow, Unmarked
      <4>3. s # r /\ Busy(s, g)
        BY <1>6, <4>2 DEF Holds, Busy
      <4> QED
        BY <1>6, <4>3, OthersHold
    <3>4. \A l \in DOMAIN grants[g].handed : Unmarked(g, l)' => Unmarked(g, l)
      BY <3>1 DEF Unmarked
    <3> QED
      BY <3>2, <3>3, <3>4 DEF Takes
  <2> QED
    BY <1>4, <2>1, <2>2
<1> QED
  BY <1>4, <1>6, <1>7, <1>8, <1>9, LapseKeep

---------------------------------------------------------------------------
(* Settling.  A request that fails at it is owed something.                 *)
LEMMA LapseFails ==
    ASSUME Known, LedgerInv, LedgerInv', LapseInv, UNCHANGED <<grants, settling>>,
           NEW r \in Req, OwedSet(r, "failed", TRUE), call[r].pc \in Settling
    PROVE  LapseInv'
<1>1. Goes(r, "failed") /\ call'[r].owed = TRUE /\ "failed" \notin Settling
  BY OwedGoes DEF Known, Settling
<1>2. CASE Single(r)
  BY <1>1, <1>2, LapseEnds
<1>3. CASE ~Single(r)
  BY <1>1, <1>3, LapseElse DEF Goes
<1> QED
  BY <1>2, <1>3

LEMMA LapseReads ==
    ASSUME Known, LedgerInv, LedgerInv', LapseInv, NEW r \in Req, SettleRead(r)
    PROVE  LapseInv'
<1>1. call[r].pc = "read" /\ UNCHANGED grants /\ call[r].pc \in Settling
  BY DEF SettleRead, Settling
<1>2. PICK i : i = Mine(r)
  OBVIOUS
<1>3. Rows /\ i \in DOMAIN grants /\ settling = [s \in Req |-> settling[s]]
  BY <1>1, <1>2, AtSettling
<1>4. \E x \in {"lines", "granted", "failed"} : Goto(r, x)
  BY DEF SettleRead
<1>5. PICK x \in {"lines", "granted", "failed"} : Goto(r, x)
  BY <1>4
<1>6. Goes(r, x) /\ call'[r].owed = call[r].owed
  BY <1>5, GotoGoes DEF Known
<1>7. Mine(r)' = i /\ \A s \in Req \ {r} : settling'[s] = settling[s]
  <2>1. CASE UNCHANGED settling
    BY <1>2, <2>1 DEF Mine
  <2>2. ASSUME NEW L, settling' = [settling EXCEPT ![r].lines = L]
        PROVE  Mine(r)' = i /\ \A s \in Req \ {r} : settling'[s] = settling[s]
    <3>1. SettlingSet(r, i, L)
      BY <1>1, <1>2, <2>2, LinesSet
    <3>2. /\ settling'[r] = [grant |-> i, lines |-> L]
          /\ \A s \in Req \ {r} : settling'[s] = settling[s]
      BY <3>1, SetSettling
    <3> QED
      BY <3>2 DEF Mine
  <2> QED
    BY <2>1, <2>2 DEF SettleRead
<1>8. OthersStay(r) /\ GrantsGrow
  BY <1>1, <1>6, <1>7, SameRows DEF OthersStay, Goes, MovesOnly
<1>9. LapseReq(r) /\ (Single(r) => ~call[r].owed)
  BY <1>1 DEF LapseInv, LapseReq
<1>10. LapseReq(r)'
  <2>1. (Single(r)' <=> Single(r)) /\ (Expiring(i)' <=> Expiring(i))
    BY <1>1, <1>6 DEF Single, Goes, Expiring
  <2>2. call[r].op = "units" => ~Lapsing(call'[r].arg.slug)
    BY <1>6, <1>9 DEF LapseReq, Goes
  <2>3. ~Single(r) => ~Expiring(i)
    BY <1>1, <1>2, <1>9 DEF LapseReq
  <2> QED
    BY <1>6, <1>7, <1>9, <2>1, <2>2, <2>3 DEF LapseReq, Goes
<1>11. Rests(r)
  BY <1>1, <1>9 DEF Rests, Stuck
<1> QED
  BY <1>1, <1>8, <1>10, <1>11, LapseRests

(* What a step of a settlement leaves to show: it goes on with its grant.   *)
LEMMA LapseGoesOn ==
    ASSUME Known, LedgerInv, LedgerInv', LapseInv, NEW r \in Req, NEW x, Goto(r, x),
           call[r].pc \in Settling, GrantsGrow, Mine(r)' = Mine(r)
    PROVE  /\ LapseReq(r)' /\ call'[r].pc = x /\ (Single(r)' <=> Single(r))
           /\ Expiring(Mine(r)) => Single(r)
           /\ Single(r) => ~Stuck(r) /\ (~Stuck(r)' \/ x = "dead")
           /\ MovesOnly(r)
<1>1. Goes(r, x) /\ call'[r].owed = call[r].owed
  BY GotoGoes DEF Known
<1>2. LapseReq(r) /\ Mine(r) \in DOMAIN grants
  BY AtSettling DEF LapseInv
<1>3. Single(r)' <=> Single(r)
  BY <1>1 DEF Single, Goes
<1>4. Expiring(Mine(r))' <=> Expiring(Mine(r))
  BY <1>2 DEF GrantsGrow, GrowsTo, Stays1, Expiring
<1>5. Single(r) => ~call[r].owed /\ call[r].pc # "dead"
  BY <1>2 DEF LapseReq, Settling
<1>6. call[r].op = "units" => ~Lapsing(call'[r].arg.slug)
  BY <1>1, <1>2 DEF LapseReq, Goes
<1>7. ~Single(r) => ~Expiring(Mine(r))
  BY <1>2 DEF LapseReq
<1>8. LapseReq(r)'
  BY <1>1, <1>3, <1>4, <1>5, <1>6, <1>7 DEF LapseReq, Goes
<1>9. Single(r) => ~Stuck(r) /\ (~Stuck(r)' \/ x = "dead")
  BY <1>1, <1>5 DEF Stuck, Goes
<1> QED
  BY <1>1, <1>3, <1>7, <1>8, <1>9 DEF Goes

LEMMA LapsePays ==
    ASSUME Known, LedgerInv, LedgerInv', LapseInv, NEW r \in Req, PayLine(r)
    PROVE  LapseInv'
<1>1. call[r].pc = "lines" /\ UNCHANGED settling /\ call[r].pc \in Settling
  BY DEF PayLine, Settling
<1>2. PICK i : i = Mine(r)
  OBVIOUS
<1>3. PICK l : l = Min(settling[r].lines)
  OBVIOUS
<1>4. /\ Rows /\ i \in DOMAIN grants /\ l \in DOMAIN grants[i].handed
      /\ PaidOver(r, i, l) \/ (UNCHANGED grants /\ OwedSet(r, "failed", TRUE))
  BY <1>2, <1>3, PayRows
<1>5. CASE UNCHANGED grants /\ OwedSet(r, "failed", TRUE)
  BY <1>1, <1>5, LapseFails
<1>6. CASE PaidOver(r, i, l)
  <2>1. /\ GrantsGrow /\ grants'[i] = Handed1(grants[i], l) /\ Goto(r, "mark")
        /\ \A g \in DOMAIN grants \ {i} : grants'[g] = grants[g]
        /\ \A g \in DOMAIN grants' \ DOMAIN grants : \E prize \in DOMAIN Reward :
              grants'[g] = NewGrant(prize, grants[i].who, <<"box", i, l>>, 0, 1)
    BY <1>6 DEF PaidOver
  <2>2. /\ grants'[i].state = grants[i].state /\ grants'[i].settled = grants[i].settled
        /\ grants'[i].handed = [grants[i].handed EXCEPT ![l] = @ + 1]
    BY <1>4, <2>1, RowFacts, HandedRow
  <2>3. Mine(r)' = i
    BY <1>1, <1>2 DEF Mine
  <2>4. /\ LapseReq(r)' /\ call'[r].pc = "mark" /\ (Single(r)' <=> Single(r))
        /\ (Expiring(i) => Single(r)) /\ (Single(r) => ~Stuck(r)) /\ MovesOnly(r)
    BY <1>1, <1>2, <2>1, <2>3, LapseGoesOn
  <2>5. OthersStay(r)
    BY <1>1, <2>4 DEF OthersStay, MovesOnly
  <2>6. \A g \in DOMAIN grants' \ DOMAIN grants : NewRowIn(g)
    BY <2>1 DEF NewRowIn, NewGrant
  <2>7. Expiring(i) => Holds(r, i, l)' /\ Busy(r, i)'
    <3>1. l = Min(settling'[r].lines)
      BY <1>1, <1>3
    <3> QED
      BY <2>3, <2>4, <3>1 DEF Holds, Busy
  <2>8. ASSUME NEW g \in DOMAIN grants PROVE Keeps(r, g)
    <3>1. \A k : ~Holds(r, g, k)
      BY <1>1, <2>4 DEF Holds
    <3>2. Busy(r, g) => Busy(r, g)'
      BY <1>2, <2>3, <2>4 DEF Busy
    <3> QED
      BY <3>1, <3>2 DEF Keeps
  <2>9. ASSUME NEW g \in DOMAIN grants PROVE Takes(r, g)
    <3>1. CASE g # i
      BY <2>1, <3>1 DEF Takes, Unmarked, Begun
    <3>2. CASE g = i
      <4>1. \A k \in DOMAIN grants[i].handed : k # l => (Unmarked(i, k)' <=> Unmarked(i, k))
        BY <2>2 DEF Unmarked
      <4>2. grants[i].state = "expired" => Expiring(i)
        BY <1>4 DEF LapseInv, LapseRow
      <4> QED
        BY <2>2, <2>7, <3>2, <4>1, <4>2 DEF Takes
    <3> QED
      BY <3>1, <3>2
  <2> QED
    BY <2>1, <2>4, <2>5, <2>6, <2>8, <2>9, LapseKeep
<1> QED
  BY <1>4, <1>5, <1>6

LEMMA LapseMarks ==
    ASSUME Known, LedgerInv, LedgerInv', LapseInv, NEW r \in Req, MarkLine(r)
    PROVE  LapseInv'
<1>1. call[r].pc = "mark" /\ call[r].pc \in Settling
  BY DEF MarkLine, Settling
<1>2. PICK i : i = Mine(r)
  OBVIOUS
<1>3. PICK L : L = settling[r].lines
  OBVIOUS
<1>4. PICK l : l = Min(L)
  OBVIOUS
<1>5. /\ Rows /\ i \in DOMAIN grants /\ GrantsGrow /\ DOMAIN grants' = DOMAIN grants
      /\ l \in DOMAIN grants[i].handed
      /\ \/ /\ grants'[i] = Marked1(grants[i], l)
            /\ \A g \in DOMAIN grants \ {i} : grants'[g] = grants[g]
            /\ SettlingSet(r, i, L \ {l}) /\ Goto(r, "lines")
         \/ UNCHANGED <<grants, settling>> /\ OwedSet(r, "failed", TRUE)
  BY <1>2, <1>3, <1>4, MarkRows
<1>6. CASE UNCHANGED <<grants, settling>> /\ OwedSet(r, "failed", TRUE)
  BY <1>1, <1>6, LapseFails
<1>7. CASE /\ grants'[i] = Marked1(grants[i], l)
           /\ \A g \in DOMAIN grants \ {i} : grants'[g] = grants[g]
           /\ SettlingSet(r, i, L \ {l}) /\ Goto(r, "lines")
  <2>1. /\ grants'[i].state = grants[i].state /\ grants'[i].handed = grants[i].handed
        /\ grants'[i].settled = grants[i].settled \cup {l}
    BY <1>5, <1>7, RowFacts, MarkedRow
  <2>2. Mine(r)' = i /\ \A s \in Req \ {r} : settling'[s] = settling[s]
    <3>1. PICK M : M = L \ {l}
      OBVIOUS
    <3>2. SettlingSet(r, i, M)
      BY <1>7, <3>1
    <3>3. /\ settling'[r] = [grant |-> i, lines |-> M]
          /\ \A s \in Req \ {r} : settling'[s] = settling[s]
      BY <3>2, SetSettling
    <3> QED
      BY <3>3 DEF Mine
  <2>3. /\ LapseReq(r)' /\ call'[r].pc = "lines" /\ (Single(r)' <=> Single(r))
        /\ (Single(r) => ~Stuck(r)) /\ MovesOnly(r)
    BY <1>1, <1>2, <1>5, <1>7, <2>2, LapseGoesOn
  <2>4. OthersStay(r)
    BY <2>2, <2>3 DEF OthersStay, MovesOnly
  <2>5. ASSUME NEW g \in DOMAIN grants PROVE Keeps(r, g)
    <3>1. Busy(r, g) => Busy(r, g)'
      BY <1>2, <2>2, <2>3 DEF Busy
    <3>2. ASSUME NEW k, Holds(r, g, k) PROVE ~Unmarked(g, k)'
      <4>1. g = i /\ k = l
        BY <1>2, <1>3, <1>4, <2>3, <3>2 DEF Holds
      <4> QED
        BY <2>1, <4>1 DEF Unmarked
    <3> QED
      BY <3>1, <3>2 DEF Keeps
  <2>6. ASSUME NEW g \in DOMAIN grants PROVE Takes(r, g)
    <3>1. CASE g # i
      BY <1>7, <3>1 DEF Takes, Unmarked, Begun
    <3>2. CASE g = i
      BY <2>1, <3>2 DEF Takes, Unmarked, Begun
    <3> QED
      BY <3>1, <3>2
  <2> QED
    BY <1>5, <2>3, <2>4, <2>5, <2>6, LapseKeep
<1> QED
  BY <1>5, <1>6, <1>7

LEMMA LapseCredits ==
    ASSUME Known, LedgerInv, LedgerInv', LapseInv, NEW r \in Req, SettleGrant(r)
    PROVE  LapseInv'
<1>1. call[r].pc = "lines" /\ UNCHANGED settling /\ call[r].pc \in Settling
  BY DEF SettleGrant, Settling
<1>2. PICK i : i = Mine(r)
  OBVIOUS
<1>3. /\ Rows /\ i \in DOMAIN grants /\ GrantsGrow /\ DOMAIN grants' = DOMAIN grants
      /\ \/ /\ grants'[i] = Stated1(grants[i], "credited")
            /\ \A g \in DOMAIN grants \ {i} : grants'[g] = grants[g]
            /\ Goto(r, "granted")
         \/ UNCHANGED grants /\ OwedSet(r, "failed", TRUE)
  BY <1>2, CreditRows
<1>4. CASE UNCHANGED grants /\ OwedSet(r, "failed", TRUE)
  BY <1>1, <1>4, LapseFails
<1>5. CASE /\ grants'[i] = Stated1(grants[i], "credited")
           /\ \A g \in DOMAIN grants \ {i} : grants'[g] = grants[g]
           /\ Goto(r, "granted")
  <2>1. /\ grants'[i].state = "credited" /\ grants'[i].handed = grants[i].handed
        /\ grants'[i].settled = grants[i].settled
    BY <1>3, <1>5, RowFacts, StatedRow
  <2>2. Mine(r)' = i
    BY <1>1, <1>2 DEF Mine
  <2>3. LapseReq(r)' /\ (Single(r) => ~Stuck(r)) /\ MovesOnly(r)
    BY <1>1, <1>2, <1>3, <1>5, <2>2, LapseGoesOn
  <2>4. OthersStay(r)
    BY <1>1, <2>3 DEF OthersStay, MovesOnly
  <2>5. ASSUME NEW g \in DOMAIN grants PROVE Keeps(r, g)
    <3>1. \A k : ~Holds(r, g, k)
      BY <1>1, <2>3 DEF Holds
    <3>2. Busy(r, g) => g = i
      BY <1>2 DEF Busy
    <3> QED
      BY <2>1, <3>1, <3>2 DEF Keeps
  <2>6. ASSUME NEW g \in DOMAIN grants PROVE Takes(r, g)
    <3>1. CASE g # i
      BY <1>5, <3>1 DEF Takes, Unmarked, Begun
    <3>2. CASE g = i
      BY <2>1, <3>2 DEF Takes, Unmarked, Begun
    <3> QED
      BY <3>1, <3>2
  <2> QED
    BY <1>3, <2>3, <2>4, <2>5, <2>6, LapseKeep
<1> QED
  BY <1>3, <1>4, <1>5

(* The other steps of the engine and of the achievements.                   *)
LEMMA LapseActs ==
    ASSUME Known, LedgerInv, LedgerInv', LapseInv, NEW r \in Req, GrantActs(r) \/ AchActs(r),
           ~AddActs(r), ~ClaimGrant(r), ~ExpireGrants(r)
    PROVE  LapseInv'
<1>1. Quiet1 /\ UNCHANGED <<grants, settling>> /\ MovesOnly(r) /\ LapseReq(r)
  BY QuietActs, GrantStep, AchStep DEF Quiet1, Known, Frame, LapseInv
<1>2. CASE UNCHANGED call
  BY <1>1, <1>2, LapseStill
<1>3. ASSUME NEW s \in Req, MovesOnly(s), call'[s].pc \notin Settling PROVE LapseInv'
  <2>1. CASE s # r
    <3>1. call' = call
      BY <1>1, <1>3, <2>1 DEF MovesOnly, Known, Frame, Shaped
    <3> QED
      BY <1>2, <3>1
  <2>2. CASE s = r
    <3>1. call'[r].pc \notin Settling
      BY <1>3, <2>2
    <3>2. CASE AchActs(r)
      <4>1. call[r].op \in {"post", Job}
        BY <3>2 DEF AchActs, At, Post, Increment, ScoreRead, ScoreOne, MarkBackfilled, Complete,
           PayBadge, Stamp, Unpaid, Repair, AchDie
      <4>2. ~Single(r) /\ call[r].op # "units"
        BY <4>1 DEF Single, Job
      <4> QED
        BY <1>1, <3>1, <4>2, LapseElse
    <3>3. CASE UnitsRead(r)
      <4>1. PICK n : AmtSet(r, "counted", n)
        BY <3>3 DEF UnitsRead, AmtSet
      <4>2. call'[r].arg = call[r].arg /\ ~Single(r)
        BY <3>3, <4>1, SetAmt DEF Known, Frame, UnitsRead, At, Single
      <4> QED
        BY <1>1, <3>1, <4>2, LapseElse
    <3>4. CASE UnitsOwed(r)
      <4>1. ~Single(r)
        BY <3>4 DEF UnitsOwed, At, Single
      <4>2. call'[r].arg.slug = call[r].arg.slug
        <5>1. CASE Goto(r, "granted")
          BY <5>1, GotoMoves DEF Known, Frame
        <5>2. ASSUME NEW n, UnitsSet(r, [slug |-> call[r].arg.slug, units |-> n])
              PROVE  call'[r].arg.slug = call[r].arg.slug
          <6>1. PICK a : a = [slug |-> call[r].arg.slug, units |-> n]
            OBVIOUS
          <6>2. call'[r].arg = a
            BY <5>2, <6>1, SetUnits DEF Known, Frame
          <6> QED
            BY <6>1, <6>2
        <5> QED
          BY <3>4, <5>1, <5>2 DEF UnitsOwed, UnitsSet
      <4> QED
        BY <1>1, <3>1, <4>1, <4>2, LapseElse
    <3>5. CASE GrantReturn(r) \/ GrantDie(r)
      <4>1. PICK x : /\ Goto(r, x) /\ x \notin Settling
                     /\ Single(r) => x = "dead" \/ /\ call[r].pc \in {"granted", "failed", "ungranted"}
                                                   /\ call[r].pc # "granted" => x = "refused"
        BY <3>5 DEF GrantReturn, GrantDie, Die, Cut, Single, Settling
      <4>2. Goes(r, x) /\ call'[r].owed = call[r].owed
        BY <4>1, GotoGoes DEF Known
      <4>3. CASE Single(r)
        <5>1. call[r].owed => call[r].pc \in {"failed", "refused", "dead"}
          BY <1>1, <4>3 DEF LapseReq
        <5> QED
          BY <1>1, <4>1, <4>2, <4>3, <5>1, LapseEnds
      <4>4. CASE ~Single(r)
        BY <1>1, <3>1, <4>2, <4>4, LapseElse DEF Goes
      <4> QED
        BY <4>3, <4>4
    <3> QED
      BY <3>2, <3>3, <3>4, <3>5 DEF GrantActs, AddActs
  <2> QED
    BY <2>1, <2>2
<1> QED
  BY <1>1, <1>2, <1>3 DEF Quiet1

LEMMA LapseNext ==
    ASSUME JobsNeverLapse, Known, LedgerInv, LedgerInv', LapseInv, [Next]_vars
    PROVE  LapseInv'
<1>1. CASE UNCHANGED vars \/ Count
  <2>1. UNCHANGED <<call, grants, settling>>
    BY <1>1 DEF vars, Count, pointsVars, grantVars
  <2> QED
    BY <2>1, LapseStill
<1>2. CASE /\ UNCHANGED <<grants, settling>>
           /\ StoreNext \/ PaidActionsNext \/ JoinsNext \/ OfferNext \/ PotNext \/ DailyNext
  <2>1. ASSUME NEW r \in Req, NEW ops, StepOf(r, ops), ops \cap {"units", "collect", "grant"} = {}
        PROVE  LapseInv'
    <3>1. MovesOnly(r) /\ call'[r].pc \notin Settling /\ ~Single(r) /\ call[r].op # "units"
      BY <2>1 DEF StepOf, Single
    <3> QED
      BY <1>2, <3>1, LapseElse
  <2>2. \A ops \in {SaleOps, PaidOps, JoinOps, OfferOps, PotOps, {"daily"}} :
           ops \cap {"units", "collect", "grant"} = {}
    BY DEF SaleOps, PaidOps, JoinOps, OfferOps, PotOps
  <2>3. \/ UNCHANGED call
        \/ \E r \in Req : \/ StepOf(r, SaleOps) \/ StepOf(r, PaidOps) \/ StepOf(r, JoinOps)
                          \/ StepOf(r, OfferOps) \/ StepOf(r, PotOps) \/ StepOf(r, {"daily"})
    BY <1>2, StoreSteps, PaidSteps, JoinSteps, OfferSteps, PotSteps, DailySteps DEF Known, Frame
  <2>4. CASE UNCHANGED call
    BY <1>2, <2>4, LapseStill
  <2> QED
    BY <2>1, <2>2, <2>3, <2>4
<1>3. ASSUME NEW r \in Req, SettleStep(r) PROVE LapseInv'
  BY <1>3, LapseReads, LapsePays, LapseMarks, LapseCredits DEF SettleStep
<1>4. ASSUME NEW r \in Req, GrantActs(r) \/ AchActs(r) PROVE LapseInv'
  BY <1>4, LapseAdds, LapseClaims, LapseSweeps, LapseActs
<1>5. CASE Next
  <2>1. \/ /\ UNCHANGED <<grants, settling>>
           /\ StoreNext \/ PaidActionsNext \/ JoinsNext \/ OfferNext \/ PotNext \/ DailyNext
        \/ Count \/ (\E r \in Req : GrantActs(r)) \/ (\E r \in Req : SettleStep(r))
        \/ \E r \in Req : AchActs(r)
    BY <1>5 DEF Next, GrantsNext, GrantActs, AchievementsNext, AchActs, RecognitionVars, grantVars
  <2> QED
    BY <1>1, <1>2, <1>3, <1>4, <2>1
<1> QED
  BY <1>1, <1>5

LEMMA LapseInit == ASSUME JobsNeverLapse, Init PROVE LapseInv
<1>1. PICK p \in Plans : call = p
  BY DEF Init, PointsInit, HandlersInit
<1>2. call = [r \in Req |-> Request(p[r].op, p[r].who, p[r].arg, p[r].amt)]
  BY <1>1, PointsAssumption
<1>3. \A r \in Req : call[r].pc = "start" /\ call[r].owed = FALSE
  BY <1>2 DEF Request
<1>4. grants = <<>>
  BY DEF Init, GrantsInit
<1>5. \A r \in Req : call[r].op = "units" => ~Lapsing(call[r].arg.slug)
  BY <1>1 DEF JobsNeverLapse
<1> QED
  BY <1>3, <1>4, <1>5 DEF LapseInv, LapseReq, Settling

(* The sweep takes nothing that was paid: of a grant it expired a line was  *)
(* handed over only if a request is settling it still, or failed or was cut *)
(* off at it, where jobs by themselves settle only what does not expire.    *)
THEOREM LapsedUnpaid == ASSUME JobsNeverLapse PROVE Spec => []ExpiredUnpaid
<1>1. Init => Books /\ LapseInv
  BY BooksKept, LapseInit
<1>2. Books /\ LapseInv /\ [Next]_vars => (Books /\ LapseInv)'
  BY BooksKept, LapseNext DEF Books
<1>3. LapseInv => ExpiredUnpaid
  <2>1. SUFFICES ASSUME LapseInv, NEW g \in DOMAIN grants, grants[g].state = "expired", Begun(g)
                 PROVE  \E r \in Req : /\ Mine(r) = g
                                       /\ call[r].pc \in {"lines", "mark", "dead"} \/ call[r].owed
    BY DEF ExpiredUnpaid, Begun
  <2> QED
    BY <2>1 DEF LapseInv, LapseRow, Busy, Stuck
<1> QED
  BY <1>1, <1>2, <1>3, PTL DEF Spec
=============================================================================
