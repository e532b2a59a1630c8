------------------------- MODULE PointsEconomyProofs ------------------------
(***************************************************************************)
(* Proofs about the components of PointsEconomy, for every set of members, *)
(* requests and plans, and any number of faults.  First what every step    *)
(* leaves alone: it moves the record of one request at most, and a         *)
(* component's tables change by that component's steps only.  Then the     *)
(* shop: the last unit is never sold twice, PointStore implements          *)
(* AtomicSale, and the handlers that sell charge for what they hand over   *)
(* and for nothing else.  Then the points members put together: stakes     *)
(* behind a request, the pot and its draw, the days behind a streak.       *)
(***************************************************************************)
EXTENDS PointsEconomy, FiniteSetTheorems, WellFoundedInduction, TLAPS

(* A handler's record, and the requests of a state.                         *)
Fields == {"op", "who", "arg", "amt", "pc", "hand", "owed"}

IsCall(c) == c = [f \in Fields |-> c[f]]

Shaped ==
    /\ call = [r \in Req |-> call[r]]
    /\ \A r \in Req : IsCall(call[r])

(* A step of r and of no other request.                                     *)
MovesOnly(r) ==
    /\ call' = [s \in Req |-> call'[s]]
    /\ \A s \in Req \ {r} : call'[s] = call[s]
    /\ IsCall(call'[r])
    /\ call'[r].op = call[r].op

LEMMA MovedShaped ==
    ASSUME Shaped, NEW r \in Req, MovesOnly(r) PROVE Shaped'
BY DEF Shaped, MovesOnly

LEMMA GotoMoves ==
    ASSUME Shaped, NEW r \in Req, NEW x, Goto(r, x)
    PROVE  /\ MovesOnly(r)
           /\ call'[r].pc = x /\ call'[r].amt = call[r].amt /\ call'[r].who = call[r].who
           /\ call'[r].arg = call[r].arg
           /\ call'[r].hand = call[r].hand /\ call'[r].owed = call[r].owed
BY DEF Shaped, MovesOnly, IsCall, Goto, Fields

LEMMA DeductMoves ==
    ASSUME Shaped, NEW r \in Req, NEW n, NEW x, NEW y, Deduct(r, n, x, y)
    PROVE  /\ MovesOnly(r)
           /\ \/ call'[r].pc = x /\ call'[r].amt = n /\ call'[r].hand = n
              \/ call'[r].pc = y /\ call'[r].amt = call[r].amt /\ call'[r].hand = call[r].hand
           /\ call'[r].who = call[r].who /\ call'[r].arg = call[r].arg
           /\ call'[r].owed = call[r].owed
<1>1. CASE Goto(r, y)
  BY <1>1, GotoMoves
<1>2. CASE call' = [call EXCEPT ![r].pc = x, ![r].amt = n, ![r].hand = n]
  <2>1. MovesOnly(r)
    BY <1>2 DEF Shaped, MovesOnly, IsCall, Fields
  <2>2. call'[r].pc = x /\ call'[r].amt = n /\ call'[r].hand = n
    BY <1>2 DEF Shaped, IsCall, Fields
  <2>3. /\ call'[r].who = call[r].who /\ call'[r].arg = call[r].arg
        /\ call'[r].owed = call[r].owed
    BY <1>2 DEF Shaped, IsCall, Fields
  <2> QED
    BY <2>1, <2>2, <2>3
<1> QED
  BY <1>1, <1>2 DEF Deduct

LEMMA RefundMoves ==
    ASSUME Shaped, NEW r \in Req, NEW x, Refund(r, x)
    PROVE  /\ MovesOnly(r)
           /\ call'[r].pc = x /\ call'[r].amt = call[r].amt /\ call'[r].who = call[r].who
           /\ call'[r].arg = call[r].arg
           /\ \/ call'[r].hand = 0 /\ call'[r].owed = call[r].owed
              \/ call'[r].hand = call[r].hand /\ call'[r].owed = TRUE
<1>1. CASE call' = [call EXCEPT ![r].pc = x, ![r].hand = 0]
  BY <1>1 DEF Shaped, MovesOnly, IsCall, Fields
<1>2. CASE call' = [call EXCEPT ![r].pc = x, ![r].owed = TRUE]
  BY <1>2 DEF Shaped, MovesOnly, IsCall, Fields
<1> QED
  BY <1>1, <1>2 DEF Refund


(* The steps of settling a grant belong to whatever request granted it; a   *)
(* step of one of the other operations does not lead there.                 *)
Settling == {"read", "lines", "mark"}

StepOf(r, ops) ==
    /\ call[r].op \in ops
    /\ MovesOnly(r)
    /\ call'[r].pc \notin Settling

Leads(r) ==
    \/ \E x : x \notin Settling /\ Goto(r, x)
    \/ \E n, x, y : {x, y} \cap Settling = {} /\ Deduct(r, n, x, y)
    \/ \E x : x \notin Settling /\ Refund(r, x)

LEMMA LeadsMoves ==
    ASSUME Shaped, NEW r \in Req, Leads(r)
    PROVE  MovesOnly(r) /\ call'[r].pc \notin Settling
<1>1. CASE \E x : x \notin Settling /\ Goto(r, x)
  BY <1>1, GotoMoves
<1>2. CASE \E n, x, y : {x, y} \cap Settling = {} /\ Deduct(r, n, x, y)
  <2>1. PICK n, x, y : {x, y} \cap Settling = {} /\ Deduct(r, n, x, y)
    BY <1>2
  <2>2. MovesOnly(r) /\ call'[r].pc \in {x, y}
    BY <2>1, DeductMoves
  <2> QED
    BY <2>1, <2>2
<1>3. CASE \E x : x \notin Settling /\ Refund(r, x)
  BY <1>3, RefundMoves
<1> QED
  BY <1>1, <1>2, <1>3 DEF Leads

PaidActs(r) ==
    \/ MedalRead(r) \/ MedalDeduct(r) \/ MedalGrant(r)
    \/ CastRead(r) \/ CastDeduct(r) \/ CastWrite(r) \/ AddXP(r)
    \/ BoostDeduct(r) \/ BoostWrite(r) \/ BoostPriority(r)
    \/ PaidRefund(r) \/ PaidDie(r)

LEMMA PaidStep ==
    ASSUME Shaped, NEW r \in Req, PaidActs(r)
    PROVE  StepOf(r, PaidOps)
<1>1. call[r].op \in PaidOps
  BY DEF PaidActs, PaidOps, At, MedalRead, MedalDeduct, MedalGrant, CastRead, CastDeduct, CastWrite,
     AddXP, BoostDeduct, BoostWrite, BoostPriority, PaidRefund, PaidDie
<1>2. CASE MedalGrant(r) \/ CastWrite(r) \/ BoostWrite(r)
  <2>1. \E x : x \notin Settling /\ (Placed(r, x) \/ Goto(r, x))
    BY <1>2 DEF MedalGrant, CastWrite, BoostWrite, Settling
  <2>2. ASSUME NEW x, x \notin Settling, Placed(r, x) PROVE StepOf(r, PaidOps)
    <3>1. /\ call' = [s \in Req |-> call'[s]]
          /\ \A s \in Req \ {r} : call'[s] = call[s]
          /\ call'[r] = [call[r] EXCEPT !.pc = x, !.hand = 0]
      BY <2>2 DEF Placed, Shaped
    <3>2. IsCall(call'[r]) /\ call'[r].op = call[r].op /\ call'[r].pc = x
      BY <3>1 DEF Shaped, IsCall, Fields
    <3> QED
      BY <1>1, <2>2, <3>1, <3>2 DEF StepOf, MovesOnly
  <2> QED
    BY <1>1, <2>1, <2>2, GotoMoves DEF StepOf
<1>3. CASE CastRead(r)
  <2>1. PICK n : call' = [call EXCEPT ![r].pc = "priced", ![r].amt = n]
    BY <1>3 DEF CastRead, Priced
  <2>2. /\ call' = [s \in Req |-> call'[s]]
        /\ \A s \in Req \ {r} : call'[s] = call[s]
        /\ call'[r] = [call[r] EXCEPT !.pc = "priced", !.amt = n]
    BY <2>1 DEF Shaped
  <2>3. IsCall(call'[r]) /\ call'[r].op = call[r].op /\ call'[r].pc = "priced"
    BY <2>2 DEF Shaped, IsCall, Fields
  <2> QED
    BY <1>1, <2>2, <2>3 DEF StepOf, MovesOnly, Settling
<1>4. CASE ~(MedalGrant(r) \/ CastRead(r) \/ CastWrite(r) \/ BoostWrite(r))
  <2>1. Leads(r)
    BY <1>4 DEF PaidActs, Leads, Settling, MedalRead, MedalDeduct, CastDeduct, AddXP, BoostDeduct,
       BoostPriority, PaidRefund, PaidDie, Die, Cut
  <2> QED
    BY <1>1, <2>1, LeadsMoves DEF StepOf
<1> QED
  BY <1>2, <1>3, <1>4

LEMMA PaidSteps ==
    ASSUME Shaped, PaidActionsNext
    PROVE  \E r \in Req : StepOf(r, PaidOps)
<1>1. ASSUME NEW r \in Req, PaidActs(r) PROVE StepOf(r, PaidOps)
  BY <1>1, PaidStep
<1> QED
  BY <1>1 DEF PaidActionsNext, PaidActs

JoinOps == {"join", "apply", "approve", "deny", "redeem"}

JoinActs(r) ==
    \/ JoinRead(r) \/ JoinDeduct(r) \/ Subscribe(r) \/ CreateJoinRequest(r)
    \/ ApplyRefund(r) \/ Approve(r) \/ Deny(r) \/ DenyRefund(r) \/ Redeem(r)
    \/ JoinDie(r)

LEMMA JoinStep ==
    ASSUME Shaped, NEW r \in Req, JoinActs(r)
    PROVE  StepOf(r, JoinOps)
<1>1. call[r].op \in JoinOps
  BY DEF JoinActs, JoinOps, At, JoinRead, JoinDeduct, Subscribe, CreateJoinRequest, ApplyRefund,
     Approve, Deny, DenyRefund, Redeem, JoinDie
<1>2. CASE Subscribe(r) \/ CreateJoinRequest(r) \/ Deny(r)
  <2>1. \/ Leads(r)
        \/ call' = [call EXCEPT ![r].pc = "done", ![r].hand = 0]
        \/ \E m, n : call' = [call EXCEPT ![r].pc = "refund", ![r].who = m, ![r].hand = n]
    BY <1>2 DEF Leads, Settling, Subscribe, CreateJoinRequest, Deny
  <2>2. CASE call' = [call EXCEPT ![r].pc = "done", ![r].hand = 0]
    <3>1. /\ call' = [s \in Req |-> call'[s]]
          /\ \A s \in Req \ {r} : call'[s] = call[s]
          /\ call'[r] = [call[r] EXCEPT !.pc = "done", !.hand = 0]
      BY <2>2 DEF Shaped
    <3>2. IsCall(call'[r]) /\ call'[r].op = call[r].op /\ call'[r].pc = "done"
      BY <3>1 DEF Shaped, IsCall, Fields
    <3> QED
      BY <1>1, <3>1, <3>2 DEF StepOf, MovesOnly, Settling
  <2>3. CASE \E m, n : call' = [call EXCEPT ![r].pc = "refund", ![r].who = m, ![r].hand = n]
    <3>1. PICK m, n : call' = [call EXCEPT ![r].pc = "refund", ![r].who = m, ![r].hand = n]
      BY <2>3
    <3>2. /\ call' = [s \in Req |-> call'[s]]
          /\ \A s \in Req \ {r} : call'[s] = call[s]
          /\ call'[r] = [call[r] EXCEPT !.pc = "refund", !.who = m, !.hand = n]
      BY <3>1 DEF Shaped
    <3>3. IsCall(call'[r]) /\ call'[r].op = call[r].op /\ call'[r].pc = "refund"
      BY <3>2 DEF Shaped, IsCall, Fields
    <3> QED
      BY <1>1, <3>2, <3>3 DEF StepOf, MovesOnly, Settling
  <2> QED
    BY <1>1, <2>1, <2>2, <2>3, LeadsMoves DEF StepOf
<1>3. CASE ~(Subscribe(r) \/ CreateJoinRequest(r) \/ Deny(r))
  <2>1. Leads(r)
    BY <1>3 DEF JoinActs, Leads, Settling, JoinRead, JoinDeduct, ApplyRefund, Approve, DenyRefund,
       Redeem, JoinDie, Die, Cut
  <2> QED
    BY <1>1, <2>1, LeadsMoves DEF StepOf
<1> QED
  BY <1>2, <1>3

LEMMA JoinSteps ==
    ASSUME Shaped, JoinsNext
    PROVE  \E r \in Req : StepOf(r, JoinOps)
<1>1. ASSUME NEW r \in Req, JoinActs(r) PROVE StepOf(r, JoinOps)
  BY <1>1, JoinStep
<1> QED
  BY <1>1 DEF JoinsNext, JoinActs

OfferOps == {"back", "withdraw", "claim", "deliver", "fail"}

OfferActs(r) ==
    \/ Stake(r) \/ CreateOrJoin(r) \/ BackRefund(r)
    \/ Withdraw(r) \/ WithdrawRefund(r) \/ Claim(r)
    \/ Deliver(r) \/ Settle(r) \/ PayOfferer(r) \/ Fail(r) \/ OfferDie(r)

LEMMA OfferStep ==
    ASSUME Shaped, NEW r \in Req, OfferActs(r)
    PROVE  StepOf(r, OfferOps)
<1>1. call[r].op \in OfferOps
  BY DEF OfferActs, OfferOps, At, Stake, CreateOrJoin, BackRefund, Withdraw, WithdrawRefund, Claim,
     Deliver, Settle, PayOfferer, Fail, OfferDie
<1>2. CASE CreateOrJoin(r) \/ Withdraw(r) \/ Deliver(r) \/ Settle(r)
  <2>1. \/ Leads(r)
        \/ \E x, n : x \notin Settling /\ call' = [call EXCEPT ![r].pc = x, ![r].hand = n]
        \/ \E q : call' = [call EXCEPT ![r].pc = "settle", ![r].arg = q]
        \/ call' = [call EXCEPT ![r].pc = "done", ![r].owed = TRUE]
    BY <1>2 DEF Leads, Settling, CreateOrJoin, Withdraw, Deliver, Settle
  <2>2. CASE \E x, n : x \notin Settling /\ call' = [call EXCEPT ![r].pc = x, ![r].hand = n]
    <3>1. PICK x, n : /\ x \notin Settling
                      /\ call' = [call EXCEPT ![r].pc = x, ![r].hand = n]
      BY <2>2
    <3>2. /\ call' = [s \in Req |-> call'[s]]
          /\ \A s \in Req \ {r} : call'[s] = call[s]
          /\ call'[r] = [call[r] EXCEPT !.pc = x, !.hand = n]
      BY <3>1 DEF Shaped
    <3>3. IsCall(call'[r]) /\ call'[r].op = call[r].op /\ call'[r].pc = x
      BY <3>2 DEF Shaped, IsCall, Fields
    <3> QED
      BY <1>1, <3>1, <3>2, <3>3 DEF StepOf, MovesOnly
  <2>3. CASE \E q : call' = [call EXCEPT ![r].pc = "settle", ![r].arg = q]
    <3>1. PICK q : call' = [call EXCEPT ![r].pc = "settle", ![r].arg = q]
      BY <2>3
    <3>2. /\ call' = [s \in Req |-> call'[s]]
          /\ \A s \in Req \ {r} : call'[s] = call[s]
          /\ call'[r] = [call[r] EXCEPT !.pc = "settle", !.arg = q]
      BY <3>1 DEF Shaped
    <3>3. IsCall(call'[r]) /\ call'[r].op = call[r].op /\ call'[r].pc = "settle"
      BY <3>2 DEF Shaped, IsCall, Fields
    <3> QED
      BY <1>1, <3>2, <3>3 DEF StepOf, MovesOnly, Settling
  <2>4. CASE call' = [call EXCEPT ![r].pc = "done", ![r].owed = TRUE]
    <3>1. /\ call' = [s \in Req |-> call'[s]]
          /\ \A s \in Req \ {r} : call'[s] = call[s]
          /\ call'[r] = [call[r] EXCEPT !.pc = "done", !.owed = TRUE]
      BY <2>4 DEF Shaped
    <3>2. IsCall(call'[r]) /\ call'[r].op = call[r].op /\ call'[r].pc = "done"
      BY <3>1 DEF Shaped, IsCall, Fields
    <3> QED
      BY <1>1, <3>1, <3>2 DEF StepOf, MovesOnly, Settling
  <2> QED
    BY <1>1, <2>1, <2>2, <2>3, <2>4, LeadsMoves DEF StepOf
<1>3. CASE ~(CreateOrJoin(r) \/ Withdraw(r) \/ Deliver(r) \/ Settle(r))
  <2>1. Leads(r)
    BY <1>3 DEF OfferActs, Leads, Settling, Stake, BackRefund, WithdrawRefund, Claim, PayOfferer,
       Fail, OfferDie, Die, Cut
  <2> QED
    BY <1>1, <2>1, LeadsMoves DEF StepOf
<1> QED
  BY <1>2, <1>3

LEMMA OfferSteps ==
    ASSUME Shaped, OfferNext
    PROVE  UNCHANGED call \/ \E r \in Req : StepOf(r, OfferOps)
<1>1. CASE Sweep
  BY <1>1 DEF Sweep, pointsVars
<1>2. ASSUME NEW r \in Req, OfferActs(r) PROVE StepOf(r, OfferOps)
  BY <1>2, OfferStep
<1> QED
  BY <1>1, <1>2 DEF OfferNext, OfferActs

PotOps == {"donate", "give"}

LEMMA GiveSteps ==
    ASSUME Shaped, NEW r \in Req, GiveShare(r)
    PROVE  StepOf(r, PotOps)
<1> DEFINE i  == call[r].arg
           sh == Share(r, i)
           e  == i = Len(Needy[Who(r)])
<1>1. call[r].op = "give" /\ call[r].pc = "charged"
  BY DEF GiveShare
<1>2. \/ call' = [call EXCEPT ![r].hand = @ - sh, ![r].arg = i + 1,
                              ![r].pc = IF e THEN "done" ELSE @]
      \/ call' = [call EXCEPT ![r].owed = TRUE, ![r].arg = i + 1,
                              ![r].pc = IF e THEN "done" ELSE @]
  BY DEF GiveShare
<1> HIDE DEF i, sh, e
<1>3. CASE call' = [call EXCEPT ![r].hand = @ - sh, ![r].arg = i + 1,
                              ![r].pc = IF e THEN "done" ELSE @]
  <2>1. /\ call' = [q \in Req |-> call'[q]]
        /\ \A q \in Req \ {r} : call'[q] = call[q]
    BY <1>3 DEF Shaped
  <2>2. call'[r].op = call[r].op
    BY <1>3 DEF Shaped, IsCall, Fields
  <2>3. IsCall(call'[r])
    BY <1>3 DEF Shaped, IsCall, Fields
  <2>4. call'[r].pc \in {"done", call[r].pc}
    BY <1>3 DEF Shaped, IsCall, Fields
  <2> QED
    BY <1>1, <2>1, <2>2, <2>3, <2>4 DEF StepOf, MovesOnly, PotOps, Settling
<1>4. CASE call' = [call EXCEPT ![r].owed = TRUE, ![r].arg = i + 1,
                              ![r].pc = IF e THEN "done" ELSE @]
  <2>1. /\ call' = [q \in Req |-> call'[q]]
        /\ \A q \in Req \ {r} : call'[q] = call[q]
    BY <1>4 DEF Shaped
  <2>2. call'[r].op = call[r].op
    BY <1>4 DEF Shaped, IsCall, Fields
  <2>3. IsCall(call'[r])
    BY <1>4 DEF Shaped, IsCall, Fields
  <2>4. call'[r].pc \in {"done", call[r].pc}
    BY <1>4 DEF Shaped, IsCall, Fields
  <2> QED
    BY <1>1, <2>1, <2>2, <2>3, <2>4 DEF StepOf, MovesOnly, PotOps, Settling
<1> QED
  BY <1>2, <1>3, <1>4

PotActs(r) ==
    \/ PotRead(r) \/ PotInsert(r) \/ WithinLimit(r) \/ PotDeduct(r)
    \/ AddRow(r) \/ AddTotal(r) \/ DonateRefund(r) \/ CloseCycle(r)
    \/ Draw(r) \/ Console(r) \/ GiveDeduct(r) \/ GiveShare(r) \/ PotDie(r)

LEMMA PotStep ==
    ASSUME Shaped, NEW r \in Req, PotActs(r)
    PROVE  StepOf(r, PotOps)
<1>1. call[r].op \in PotOps
  BY DEF PotActs, PotOps, At, PotRead, PotInsert, WithinLimit, PotDeduct, AddRow, AddTotal,
     DonateRefund, CloseCycle, Draw, Console, GiveDeduct, GiveShare, PotDie
<1>2. CASE PotRead(r) \/ AddTotal(r) \/ Draw(r)
  <2>1. \/ Leads(r)
        \/ \E x, a : x \notin Settling /\ call' = [call EXCEPT ![r].pc = x, ![r].arg = a]
        \/ \E x, n : /\ x \notin Settling
                     /\ call' = [call EXCEPT ![r].hand = 0, ![r].amt = n, ![r].pc = x]
    <3>1. CASE PotRead(r)
      BY <3>1 DEF PotRead, Leads, Settling
    <3>2. CASE AddTotal(r)
      <4> DEFINE n == pot[call[r].arg].total + Amt(r)
                 x == IF n < PotTarget THEN "done" ELSE "full"
      <4>1. \/ Leads(r)
            \/ call' = [call EXCEPT ![r].hand = 0, ![r].amt = n, ![r].pc = x]
        BY <3>2 DEF AddTotal, Leads, Settling
      <4>2. x \notin Settling
        BY DEF Settling
      <4> HIDE DEF n, x
      <4> QED
        BY <4>1, <4>2
    <3>3. CASE Draw(r)
      BY <3>3 DEF Draw, Leads, Settling
    <3> QED
      BY <1>2, <3>1, <3>2, <3>3
  <2>2. CASE \E x, a : x \notin Settling /\ call' = [call EXCEPT ![r].pc = x, ![r].arg = a]
    <3>1. PICK x, a : /\ x \notin Settling
                      /\ call' = [call EXCEPT ![r].pc = x, ![r].arg = a]
      BY <2>2
    <3>2. /\ call' = [s \in Req |-> call'[s]]
          /\ \A s \in Req \ {r} : call'[s] = call[s]
          /\ call'[r] = [call[r] EXCEPT !.pc = x, !.arg = a]
      BY <3>1 DEF Shaped
    <3>3. IsCall(call'[r]) /\ call'[r].op = call[r].op /\ call'[r].pc = x
      BY <3>2 DEF Shaped, IsCall, Fields
    <3> QED
      BY <1>1, <3>1, <3>2, <3>3 DEF StepOf, MovesOnly
  <2>3. CASE \E x, n : /\ x \notin Settling
                       /\ call' = [call EXCEPT ![r].hand = 0, ![r].amt = n, ![r].pc = x]
    <3>1. PICK x, n : /\ x \notin Settling
                      /\ call' = [call EXCEPT ![r].hand = 0, ![r].amt = n, ![r].pc = x]
      BY <2>3
    <3>2. /\ call' = [s \in Req |-> call'[s]]
          /\ \A s \in Req \ {r} : call'[s] = call[s]
          /\ call'[r] = [call[r] EXCEPT !.hand = 0, !.amt = n, !.pc = x]
      BY <3>1 DEF Shaped
    <3>3. IsCall(call'[r]) /\ call'[r].op = call[r].op /\ call'[r].pc = x
      BY <3>2 DEF Shaped, IsCall, Fields
    <3> QED
      BY <1>1, <3>1, <3>2, <3>3 DEF StepOf, MovesOnly
  <2> QED
    BY <1>1, <2>1, <2>2, <2>3, LeadsMoves DEF StepOf
<1>3. CASE GiveShare(r)
  BY <1>3, GiveSteps
<1>4. CASE ~(PotRead(r) \/ AddTotal(r) \/ Draw(r) \/ GiveShare(r))
  <2>1. Leads(r)
    BY <1>4 DEF PotActs, Leads, Settling, PotInsert, WithinLimit, PotDeduct, AddRow, DonateRefund,
       CloseCycle, Console, GiveDeduct, PotDie, Die, Cut
  <2> QED
    BY <1>1, <2>1, LeadsMoves DEF StepOf
<1> QED
  BY <1>2, <1>3, <1>4

LEMMA PotSteps ==
    ASSUME Shaped, PotNext
    PROVE  \E r \in Req : StepOf(r, PotOps)
<1>1. ASSUME NEW r \in Req, PotActs(r) PROVE StepOf(r, PotOps)
  BY <1>1, PotStep
<1> QED
  BY <1>1 DEF PotNext, PotActs

DailyActs(r) ==
    \/ DailyStart(r) \/ ClaimLocked(r) \/ ClaimUnlocked(r)
    \/ Upsert(r) \/ DailyAward(r) \/ DailyDie(r)

LEMMA DailyStep ==
    ASSUME Shaped, NEW r \in Req, DailyActs(r)
    PROVE  StepOf(r, {"daily"})
<1>1. call[r].op = "daily"
  BY DEF DailyActs, At, DailyStart, ClaimLocked, ClaimUnlocked, Upsert, DailyAward, DailyDie
<1>2. \/ Leads(r)
      \/ \E x, a : x \notin Settling /\ call' = [call EXCEPT ![r].pc = x, ![r].arg = a]
      \/ \E x, n : x \notin Settling /\ call' = [call EXCEPT ![r].pc = x, ![r].amt = n]
      \/ call' = [call EXCEPT ![r].pc = "done", ![r].owed = TRUE]
  <2>1. CASE DailyStart(r) \/ ClaimLocked(r) \/ Upsert(r)
    BY <2>1 DEF DailyStart, ClaimLocked, Upsert, Taken, Leads, Settling
  <2>2. CASE ClaimUnlocked(r) \/ DailyAward(r) \/ DailyDie(r)
    BY <2>2 DEF ClaimUnlocked, DailyAward, DailyDie, Die, Cut, Leads, Settling
  <2> QED
    BY <2>1, <2>2 DEF DailyActs
<1>3. CASE \E x, a : x \notin Settling /\ call' = [call EXCEPT ![r].pc = x, ![r].arg = a]
  <2>1. PICK x, a : /\ x \notin Settling
                    /\ call' = [call EXCEPT ![r].pc = x, ![r].arg = a]
    BY <1>3
  <2>2. /\ call' = [s \in Req |-> call'[s]]
        /\ \A s \in Req \ {r} : call'[s] = call[s]
        /\ call'[r] = [call[r] EXCEPT !.pc = x, !.arg = a]
    BY <2>1 DEF Shaped
  <2>3. IsCall(call'[r]) /\ call'[r].op = call[r].op /\ call'[r].pc = x
    BY <2>2 DEF Shaped, IsCall, Fields
  <2> QED
    BY <1>1, <2>1, <2>2, <2>3 DEF StepOf, MovesOnly
<1>4. CASE \E x, n : x \notin Settling /\ call' = [call EXCEPT ![r].pc = x, ![r].amt = n]
  <2>1. PICK x, n : /\ x \notin Settling
                    /\ call' = [call EXCEPT ![r].pc = x, ![r].amt = n]
    BY <1>4
  <2>2. /\ call' = [s \in Req |-> call'[s]]
        /\ \A s \in Req \ {r} : call'[s] = call[s]
        /\ call'[r] = [call[r] EXCEPT !.pc = x, !.amt = n]
    BY <2>1 DEF Shaped
  <2>3. IsCall(call'[r]) /\ call'[r].op = call[r].op /\ call'[r].pc = x
    BY <2>2 DEF Shaped, IsCall, Fields
  <2> QED
    BY <1>1, <2>1, <2>2, <2>3 DEF StepOf, MovesOnly
<1>5. CASE call' = [call EXCEPT ![r].pc = "done", ![r].owed = TRUE]
  <2>1. /\ call' = [s \in Req |-> call'[s]]
        /\ \A s \in Req \ {r} : call'[s] = call[s]
        /\ call'[r] = [call[r] EXCEPT !.pc = "done", !.owed = TRUE]
    BY <1>5 DEF Shaped
  <2>2. IsCall(call'[r]) /\ call'[r].op = call[r].op /\ call'[r].pc = "done"
    BY <2>1 DEF Shaped, IsCall, Fields
  <2> QED
    BY <1>1, <2>1, <2>2 DEF StepOf, MovesOnly, Settling
<1> QED
  BY <1>1, <1>2, <1>3, <1>4, <1>5, LeadsMoves DEF StepOf

LEMMA DailySteps ==
    ASSUME Shaped, DailyNext
    PROVE  UNCHANGED call \/ \E r \in Req : StepOf(r, {"daily"})
<1>1. CASE Midnight
  BY <1>1 DEF Midnight, pointsVars
<1>2. ASSUME NEW r \in Req, DailyActs(r) PROVE StepOf(r, {"daily"})
  BY <1>2, DailyStep
<1> QED
  BY <1>1, <1>2 DEF DailyNext, DailyActs

(* Requests of the reward engine and of achievements; they settle.          *)
RewardOps == {"collect", "grant", "units", "expire", "post", Job}

LEMMA InsertMoves ==
    ASSUME Shaped, NEW r \in Req, NEW slug, NEW ref, NEW mark, NEW units,
           Insert(r, slug, ref, mark, units)
    PROVE  MovesOnly(r)
<1>1. \E x : Goto(r, x)
  BY DEF Insert
<1> QED
  BY <1>1, GotoMoves

LEMMA SettleSteps ==
    ASSUME Shaped, NEW r \in Req, SettleStep(r)
    PROVE  call[r].pc \in Settling /\ MovesOnly(r)
<1>1. call[r].pc \in Settling
  BY DEF SettleStep, SettleRead, PayLine, MarkLine, SettleGrant, Settling
<1>2. \/ \E x : Goto(r, x)
      \/ \E x : call' = [call EXCEPT ![r].pc = x, ![r].owed = TRUE]
  <2>1. CASE SettleRead(r)
    BY <2>1 DEF SettleRead
  <2>2. CASE PayLine(r)
    BY <2>2 DEF PayLine
  <2>3. CASE MarkLine(r) \/ SettleGrant(r)
    BY <2>3 DEF MarkLine, SettleGrant
  <2> QED
    BY <2>1, <2>2, <2>3 DEF SettleStep
<1>3. ASSUME NEW x, call' = [call EXCEPT ![r].pc = x, ![r].owed = TRUE] PROVE MovesOnly(r)
  BY <1>3 DEF MovesOnly, Shaped, IsCall, Fields
<1>4. ASSUME NEW x, Goto(r, x) PROVE MovesOnly(r)
  BY <1>4, GotoMoves
<1> QED
  BY <1>1, <1>2, <1>3, <1>4

GrantActs(r) ==
    \/ ClaimGrant(r) \/ GrantOneOff(r) \/ UnitsRead(r) \/ UnitsOwed(r)
    \/ GrantPerUnit(r) \/ GrantReturn(r) \/ ExpireGrants(r) \/ GrantDie(r)

LEMMA GrantStep ==
    ASSUME Shaped, NEW r \in Req, GrantActs(r)
    PROVE  call[r].op \in RewardOps /\ MovesOnly(r)
<1>1. call[r].op \in RewardOps
  BY DEF GrantActs, RewardOps, At, ClaimGrant, GrantOneOff, UnitsRead, UnitsOwed, GrantPerUnit,
     GrantReturn, ExpireGrants, GrantDie
<1>2. CASE GrantOneOff(r) \/ GrantPerUnit(r)
  BY <1>2, <1>1, InsertMoves DEF GrantOneOff, GrantPerUnit
<1>3. CASE UnitsRead(r)
  BY <1>3, <1>1 DEF UnitsRead, MovesOnly, Shaped, IsCall, Fields
<1>4. CASE UnitsOwed(r)
  <2>1. \/ \E x : Goto(r, x)
        \/ \E a : call' = [call EXCEPT ![r].pc = "owed", ![r].hand = 0, ![r].arg = a]
    BY <1>4 DEF UnitsOwed
  <2>2. ASSUME NEW a, call' = [call EXCEPT ![r].pc = "owed", ![r].hand = 0, ![r].arg = a]
        PROVE MovesOnly(r)
    BY <2>2 DEF MovesOnly, Shaped, IsCall, Fields
  <2>3. ASSUME NEW x, Goto(r, x) PROVE MovesOnly(r)
    BY <2>3, GotoMoves
  <2> QED
    BY <1>1, <2>1, <2>2, <2>3
<1>5. CASE ClaimGrant(r) \/ GrantReturn(r) \/ ExpireGrants(r) \/ GrantDie(r)
  <2>1. \E x : Goto(r, x)
    BY <1>5 DEF ClaimGrant, GrantReturn, ExpireGrants, GrantDie, Die, Cut
  <2> QED
    BY <1>1, <2>1, GotoMoves
<1> QED
  BY <1>2, <1>3, <1>4, <1>5 DEF GrantActs

LEMMA GrantSteps ==
    ASSUME Shaped, GrantsNext
    PROVE  UNCHANGED call \/ \E r \in Req : call[r].op \in RewardOps /\ MovesOnly(r)
<1>1. CASE Count
  BY <1>1 DEF Count, pointsVars
<1>2. ASSUME NEW r \in Req, GrantActs(r) PROVE call[r].op \in RewardOps /\ MovesOnly(r)
  BY <1>2, GrantStep
<1> QED
  BY <1>1, <1>2 DEF GrantsNext, GrantActs

LEMMA TodoMoves ==
    ASSUME Shaped, NEW r \in Req, NEW m, NEW x,
           call' = [call EXCEPT ![r].who = m, ![r].arg.todo = @ \ {m}, ![r].pc = x]
    PROVE  MovesOnly(r)
<1>1. /\ call' = [s \in Req |-> call'[s]]
      /\ \A s \in Req \ {r} : call'[s] = call[s]
  BY DEF Shaped
<1>2. call'[r].op = call[r].op
  BY DEF Shaped, IsCall, Fields
<1>3. IsCall(call'[r])
  BY DEF Shaped, IsCall, Fields
<1> QED
  BY <1>1, <1>2, <1>3 DEF MovesOnly

AchActs(r) ==
    \/ Post(r) \/ Increment(r) \/ ScoreRead(r) \/ ScoreOne(r) \/ MarkBackfilled(r)
    \/ Complete(r) \/ PayBadge(r) \/ Stamp(r) \/ Unpaid(r) \/ Repair(r) \/ AchDie(r)

LEMMA AchStep ==
    ASSUME Shaped, NEW r \in Req, AchActs(r)
    PROVE  call[r].op \in RewardOps /\ MovesOnly(r)
<1>1. call[r].op \in RewardOps
  BY DEF AchActs, RewardOps, At, Job, Post, Increment, ScoreRead, ScoreOne, MarkBackfilled,
     Complete, PayBadge, Stamp, Unpaid, Repair, AchDie
<1>2. CASE PayBadge(r)
  BY <1>1, <1>2, InsertMoves DEF PayBadge
<1>3. CASE Increment(r) \/ ScoreRead(r) \/ Unpaid(r)
  <2>1. \/ \E x : Goto(r, x)
        \/ \E x, a : call' = [call EXCEPT ![r].pc = x, ![r].arg = a]
    BY <1>3 DEF Increment, ScoreRead, Unpaid
  <2>2. ASSUME NEW x, NEW a, call' = [call EXCEPT ![r].pc = x, ![r].arg = a]
        PROVE MovesOnly(r)
    BY <2>2 DEF MovesOnly, Shaped, IsCall, Fields
  <2>3. ASSUME NEW x, Goto(r, x) PROVE MovesOnly(r)
    BY <2>3, GotoMoves
  <2> QED
    BY <1>1, <2>1, <2>2, <2>3
<1>4. CASE ScoreOne(r)
  <2>1. CASE \E x : Goto(r, x)
    BY <1>1, <2>1, GotoMoves
  <2>2. ASSUME NEW m, NEW x,
               call' = [call EXCEPT ![r].who = m, ![r].arg.todo = @ \ {m}, ![r].pc = x]
        PROVE MovesOnly(r)
    BY <2>2, TodoMoves
  <2> QED
    BY <1>1, <1>4, <2>1, <2>2 DEF ScoreOne
<1>5. CASE Repair(r)
  <2>1. ASSUME NEW m,
               call' = [call EXCEPT ![r].who = m, ![r].arg.todo = @ \ {m}, ![r].pc = "pay"]
        PROVE MovesOnly(r)
    BY <2>1, TodoMoves
  <2>2. ASSUME NEW a, call' = [call EXCEPT ![r].pc = "start", ![r].arg = a]
        PROVE MovesOnly(r)
    BY <2>2 DEF MovesOnly, Shaped, IsCall, Fields
  <2> QED
    BY <1>1, <1>5, <2>1, <2>2 DEF Repair
<1>6. CASE Post(r) \/ MarkBackfilled(r) \/ Complete(r) \/ Stamp(r) \/ AchDie(r)
  <2>1. \E x : Goto(r, x)
    BY <1>6 DEF Post, MarkBackfilled, Complete, Stamp, AchDie, Die, Cut
  <2> QED
    BY <1>1, <2>1, GotoMoves
<1> QED
  BY <1>2, <1>3, <1>4, <1>5, <1>6 DEF AchActs

LEMMA AchSteps ==
    ASSUME Shaped, AchievementsNext
    PROVE  \E r \in Req : call[r].op \in RewardOps /\ MovesOnly(r)
<1>1. ASSUME NEW r \in Req, AchActs(r) PROVE call[r].op \in RewardOps /\ MovesOnly(r)
  BY <1>1, AchStep
<1> QED
  BY <1>1 DEF AchievementsNext, AchActs

SaleOps == {"buy", "edit", "delete"}

StoreActs(r) ==
    \/ BuyRead(r) \/ ClaimStock(r) \/ BuyDeduct(r) \/ Grant(r)
    \/ BuyRefund(r) \/ RestoreStock(r) \/ RecordPurchase(r)
    \/ EditOpen(r) \/ EditSave(r) \/ DeleteItem(r) \/ StoreDie(r)

LEMMA StoreStep ==
    ASSUME Shaped, NEW r \in Req, StoreActs(r)
    PROVE  StepOf(r, SaleOps)
<1>1. call[r].op \in SaleOps
  BY DEF StoreActs, SaleOps, At, BuyRead, ClaimStock, BuyDeduct, Grant, BuyRefund, RestoreStock,
     RecordPurchase, EditOpen, EditSave, DeleteItem, StoreDie
<1>2. CASE BuyRead(r) \/ Grant(r) \/ RestoreStock(r)
  <2>1. \/ Leads(r)
        \/ \E n : call' = [call EXCEPT ![r].pc = "priced", ![r].amt = n]
        \/ call' = [call EXCEPT ![r].pc = "granted", ![r].hand = 0]
        \/ call' = [call EXCEPT ![r].pc = "refused", ![r].owed = TRUE]
    BY <1>2 DEF BuyRead, Grant, RestoreStock, Leads, Settling
  <2>2. CASE \E n : call' = [call EXCEPT ![r].pc = "priced", ![r].amt = n]
    <3>1. PICK n : call' = [call EXCEPT ![r].pc = "priced", ![r].amt = n]
      BY <2>2
    <3>2. /\ call' = [s \in Req |-> call'[s]]
          /\ \A s \in Req \ {r} : call'[s] = call[s]
          /\ call'[r] = [call[r] EXCEPT !.pc = "priced", !.amt = n]
      BY <3>1 DEF Shaped
    <3>3. IsCall(call'[r]) /\ call'[r].op = call[r].op /\ call'[r].pc = "priced"
      BY <3>2 DEF Shaped, IsCall, Fields
    <3> QED
      BY <1>1, <3>2, <3>3 DEF StepOf, MovesOnly, Settling
  <2>3. CASE call' = [call EXCEPT ![r].pc = "granted", ![r].hand = 0]
    <3>1. /\ call' = [s \in Req |-> call'[s]]
          /\ \A s \in Req \ {r} : call'[s] = call[s]
          /\ call'[r] = [call[r] EXCEPT !.pc = "granted", !.hand = 0]
      BY <2>3 DEF Shaped
    <3>2. IsCall(call'[r]) /\ call'[r].op = call[r].op /\ call'[r].pc = "granted"
      BY <3>1 DEF Shaped, IsCall, Fields
    <3> QED
      BY <1>1, <3>1, <3>2 DEF StepOf, MovesOnly, Settling
  <2>4. CASE call' = [call EXCEPT ![r].pc = "refused", ![r].owed = TRUE]
    <3>1. /\ call' = [s \in Req |-> call'[s]]
          /\ \A s \in Req \ {r} : call'[s] = call[s]
          /\ call'[r] = [call[r] EXCEPT !.pc = "refused", !.owed = TRUE]
      BY <2>4 DEF Shaped
    <3>2. IsCall(call'[r]) /\ call'[r].op = call[r].op /\ call'[r].pc = "refused"
      BY <3>1 DEF Shaped, IsCall, Fields
    <3> QED
      BY <1>1, <3>1, <3>2 DEF StepOf, MovesOnly, Settling
  <2> QED
    BY <1>1, <2>1, <2>2, <2>3, <2>4, LeadsMoves DEF StepOf
<1>3. CASE EditOpen(r)
  <2> DEFINE a == [c \in DOMAIN item |->
                     IF c \in DOMAIN call[r].arg THEN call[r].arg[c] ELSE item[c]]
  <2>1. call' = [call EXCEPT ![r].pc = "form", ![r].arg = a]
    BY <1>3 DEF EditOpen, Shaped, IsCall, Fields
  <2> HIDE DEF a
  <2> QED
    BY <1>1, <2>1 DEF StepOf, MovesOnly, Shaped, IsCall, Fields, Settling
<1>4. CASE ~(BuyRead(r) \/ Grant(r) \/ RestoreStock(r) \/ EditOpen(r))
  <2>1. Leads(r)
    BY <1>4 DEF StoreActs, Leads, Settling, ClaimStock, BuyDeduct, BuyRefund, RecordPurchase,
       EditSave, DeleteItem, StoreDie, Die, Cut
  <2> QED
    BY <1>1, <2>1, LeadsMoves DEF StepOf
<1> QED
  BY <1>2, <1>3, <1>4 DEF StoreActs

LEMMA StoreSteps ==
    ASSUME Shaped, StoreNext
    PROVE  \E r \in Req : StepOf(r, SaleOps)
<1>1. ASSUME NEW r \in Req, StoreActs(r) PROVE StepOf(r, SaleOps)
  BY <1>1, StoreStep
<1> QED
  BY <1>1 DEF StoreNext, StoreActs

---------------------------------------------------------------------------
(* The frame: what every step leaves alone.                                 *)
SettlersOnly == \A r \in Req : call[r].pc \in Settling => call[r].op \in RewardOps

Frame == Shaped /\ SettlersOnly

LEMMA InitFrame == ASSUME Init PROVE Frame
<1>1. PICK p \in Plans : call = p
  BY DEF Init, PointsInit, HandlersInit
<1>2. call = [r \in Req |-> Request(p[r].op, p[r].who, p[r].arg, p[r].amt)]
  BY <1>1, PointsAssumption
<1>3. \A r \in Req : IsCall(call[r]) /\ call[r].pc = "start"
  BY <1>2 DEF Request, IsCall, Fields
<1>4. call = [r \in Req |-> call[r]]
  BY <1>2
<1> QED
  BY <1>3, <1>4 DEF Frame, Shaped, SettlersOnly, Settling

LEMMA SomeStep ==
    ASSUME Frame, [Next]_vars
    PROVE  \/ UNCHANGED call
           \/ \E r \in Req : StepOf(r, SaleOps \cup PaidOps \cup JoinOps \cup OfferOps \cup PotOps \cup {"daily"})
           \/ \E r \in Req : call[r].op \in RewardOps /\ MovesOnly(r)
<1> USE DEF Frame
<1> DEFINE Ops == SaleOps \cup PaidOps \cup JoinOps \cup OfferOps \cup PotOps \cup {"daily"}
<1>1. CASE StoreNext
  BY <1>1, StoreSteps DEF StepOf
<1>2. CASE PaidActionsNext
  BY <1>2, PaidSteps DEF StepOf
<1>3. CASE JoinsNext
  BY <1>3, JoinSteps DEF StepOf
<1>4. CASE OfferNext
  BY <1>4, OfferSteps DEF StepOf
<1>5. CASE PotNext
  BY <1>5, PotSteps DEF StepOf
<1>6. CASE DailyNext
  BY <1>6, DailySteps DEF StepOf
<1>7. CASE GrantsNext
  BY <1>7, GrantSteps
<1>8. CASE \E r \in Req : SettleStep(r)
  BY <1>8, SettleSteps DEF SettlersOnly
<1>9. CASE AchievementsNext
  BY <1>9, AchSteps
<1>10. CASE UNCHANGED vars
  BY <1>10 DEF vars, pointsVars
<1> QED
  BY <1>1, <1>2, <1>3, <1>4, <1>5, <1>6, <1>7, <1>8, <1>9, <1>10 DEF Next

LEMMA NextFrame == ASSUME Frame, [Next]_vars PROVE Frame'
<1> USE DEF Frame
<1>1. CASE UNCHANGED call
  BY <1>1 DEF Shaped, SettlersOnly
<1>2. ASSUME NEW r \in Req,
             StepOf(r, SaleOps \cup PaidOps \cup JoinOps \cup OfferOps \cup PotOps \cup {"daily"})
      PROVE  Frame'
  <2>1. Shaped'
    BY <1>2, MovedShaped DEF StepOf
  <2>2. SettlersOnly'
    BY <1>2 DEF StepOf, MovesOnly, SettlersOnly
  <2> QED
    BY <2>1, <2>2
<1>3. ASSUME NEW r \in Req, call[r].op \in RewardOps /\ MovesOnly(r)
      PROVE  Frame'
  <2>1. Shaped'
    BY <1>3, MovedShaped
  <2>2. SettlersOnly'
    BY <1>3 DEF MovesOnly, SettlersOnly
  <2> QED
    BY <2>1, <2>2
<1> QED
  BY <1>1, <1>2, <1>3, SomeStep

(* Every state has one record per request, and only requests of the reward  *)
(* engine and of achievements are ever at the steps that settle a grant.    *)
THEOREM Framed == Spec => []Frame
<1>1. Init => Frame
  BY InitFrame
<1>2. Frame /\ [Next]_vars => Frame'
  BY NextFrame
<1> QED
  BY <1>1, <1>2, PTL DEF Spec

Others(ops) == \A s \in Req : call[s].op \in ops => call'[s] = call[s]

(* A component's tables and requests change by its own steps only.          *)
LEMMA Foreign ==
    ASSUME Frame, [Next]_vars
    PROVE  /\ \A s \in Req : call'[s].op = call[s].op
           /\ StoreNext \/ (UNCHANGED storeVars /\ Others(SaleOps))
           /\ OfferNext \/ (UNCHANGED offerVars /\ Others(OfferOps))
           /\ DailyNext \/ (UNCHANGED dailyVars /\ Others({"daily"}))
           /\ PotNext \/ (UNCHANGED potVars /\ Others(PotOps))
           /\ PaidActionsNext \/ (UNCHANGED paidVars /\ Others(PaidOps))
<1> USE DEF Frame
<1>1. \A s \in Req : call'[s].op = call[s].op
  <2>1. \A r \in Req : MovesOnly(r) => \A s \in Req : call'[s].op = call[s].op
    BY DEF MovesOnly
  <2> QED
    BY <2>1, SomeStep DEF StepOf
<1>2. ASSUME NEW r \in Req, NEW ops, MovesOnly(r), call[r].op \notin ops
      PROVE  Others(ops)
  BY <1>2 DEF MovesOnly, Others
<1>3. ASSUME NEW ops, UNCHANGED call PROVE Others(ops)
  BY <1>3 DEF Others
<1>4. ASSUME NEW r \in Req, call[r].op \in RewardOps /\ MovesOnly(r)
      PROVE  /\ Others(SaleOps) /\ Others(OfferOps) /\ Others({"daily"}) /\ Others(PotOps)
             /\ Others(PaidOps)
  BY <1>2, <1>4 DEF RewardOps, Job, SaleOps, OfferOps, PotOps, PaidOps
<1>5. CASE StoreNext /\ UNCHANGED <<paidVars, joinVars, offerVars, potVars, dailyVars, RecognitionVars>>
  <2>1. Others(OfferOps) /\ Others({"daily"}) /\ Others(PotOps) /\ Others(PaidOps)
    BY <1>2, <1>5, StoreSteps DEF StepOf, SaleOps, OfferOps, PotOps, PaidOps
  <2> QED
    BY <1>1, <1>5, <2>1
<1>6. CASE PaidActionsNext /\ UNCHANGED <<storeVars, joinVars, offerVars, potVars, dailyVars, RecognitionVars>>
  <2>1. Others(SaleOps) /\ Others(OfferOps) /\ Others({"daily"}) /\ Others(PotOps)
    BY <1>2, <1>6, PaidSteps DEF StepOf, PaidOps, SaleOps, OfferOps, PotOps
  <2> QED
    BY <1>1, <1>6, <2>1
<1>7. CASE JoinsNext /\ UNCHANGED <<storeVars, paidVars, offerVars, potVars, dailyVars, RecognitionVars>>
  <2>1. /\ Others(SaleOps) /\ Others(OfferOps) /\ Others({"daily"}) /\ Others(PotOps)
        /\ Others(PaidOps)
    BY <1>2, <1>7, JoinSteps DEF StepOf, JoinOps, SaleOps, OfferOps, PotOps, PaidOps
  <2> QED
    BY <1>1, <1>7, <2>1
<1>8. CASE OfferNext /\ UNCHANGED <<storeVars, paidVars, joinVars, potVars, dailyVars, RecognitionVars>>
  <2>1. Others(SaleOps) /\ Others({"daily"}) /\ Others(PotOps) /\ Others(PaidOps)
    BY <1>2, <1>3, <1>8, OfferSteps DEF StepOf, SaleOps, OfferOps, PotOps, PaidOps
  <2> QED
    BY <1>1, <1>8, <2>1
<1>9. CASE PotNext /\ UNCHANGED <<storeVars, paidVars, joinVars, offerVars, dailyVars, RecognitionVars>>
  <2>1. Others(SaleOps) /\ Others(OfferOps) /\ Others({"daily"}) /\ Others(PaidOps)
    BY <1>2, <1>9, PotSteps DEF StepOf, SaleOps, OfferOps, PotOps, PaidOps
  <2> QED
    BY <1>1, <1>9, <2>1
<1>10. CASE DailyNext /\ UNCHANGED <<storeVars, paidVars, joinVars, offerVars, potVars, RecognitionVars>>
  <2>1. Others(SaleOps) /\ Others(OfferOps) /\ Others(PotOps) /\ Others(PaidOps)
    BY <1>2, <1>3, <1>10, DailySteps DEF StepOf, SaleOps, OfferOps, PotOps, PaidOps
  <2> QED
    BY <1>1, <1>10, <2>1
<1>11. CASE \/ /\ (GrantsNext \/ \E r \in Req : SettleStep(r)) /\ UNCHANGED achVars
               /\ UNCHANGED <<storeVars, paidVars, joinVars, offerVars, potVars, dailyVars>>
            \/ AchievementsNext /\ UNCHANGED <<storeVars, paidVars, joinVars, offerVars, potVars, dailyVars>>
  <2>1. UNCHANGED call \/ \E r \in Req : call[r].op \in RewardOps /\ MovesOnly(r)
    BY <1>11, GrantSteps, SettleSteps, AchSteps DEF SettlersOnly
  <2>2. /\ Others(SaleOps) /\ Others(OfferOps) /\ Others({"daily"}) /\ Others(PotOps)
        /\ Others(PaidOps)
    BY <1>3, <1>4, <2>1
  <2> QED
    BY <1>1, <1>11, <2>2
<1>12. CASE UNCHANGED vars
  BY <1>1, <1>3, <1>12 DEF vars, pointsVars
<1> QED
  BY <1>5, <1>6, <1>7, <1>8, <1>9, <1>10, <1>11, <1>12 DEF Next

---------------------------------------------------------------------------
(* The shop.  Where a purchase stands, by its pc: what it holds of the shelf *)
(* (unit), of the buyer (hand) and of the promise (granted).                *)
ItemShape(i) ==
    /\ i = [c \in {"stock", "active", "cost"} |-> i[c]]
    /\ i.stock \in Int /\ i.active \in BOOLEAN /\ i.cost \in Nat \ {0}

ItemOK == item = Gone \/ ItemShape(item)

EditOK(r) == call[r].op = "edit" =>
    /\ call[r].pc \in {"start", "form", "done"}
    /\ call[r].pc = "start" => \A c \in DOMAIN call[r].arg :
                                 c \in DOMAIN Column /\ call[r].arg[c] \in Column[c]
    /\ call[r].pc = "form" => ItemShape(call[r].arg)

DeleteOK(r) == call[r].op = "delete" => call[r].pc \in {"start", "done"}

BuyOK(r) == call[r].op = "buy" =>
    /\ call[r].pc \in {"start", "priced", "claimed", "charged", "refund", "unclaim", "granted",
                       "refused", "done", "dead"}
    /\ call[r].hand \in Nat /\ call[r].owed \in BOOLEAN
    /\ call[r].pc \in {"start", "priced"} =>
          r \notin unit /\ call[r].hand = 0 /\ ~call[r].owed
    /\ call[r].pc = "claimed" => call[r].hand = 0 /\ ~call[r].owed
    /\ call[r].pc \in {"charged", "refund"} => ~call[r].owed
    /\ call[r].pc \in {"claimed", "charged", "refund", "unclaim"} => r \in unit \ granted
    /\ call[r].pc \in {"priced", "claimed", "charged"} => call[r].amt \in Nat \ {0}
    /\ call[r].pc = "unclaim" => call[r].owed \/ call[r].hand = 0
    /\ call[r].pc = "granted" => r \in granted
    /\ r \in granted => /\ call[r].amt \in Nat \ {0}
                        /\ call[r].pc \in {"granted", "done", "dead"}

SaleInv ==
    /\ ItemOK
    /\ unit \subseteq {r \in Req : call[r].op = "buy"} /\ granted \subseteq unit
    /\ \A r \in Req : EditOK(r) /\ DeleteOK(r) /\ BuyOK(r)

LEMMA SaleInit == ASSUME Init PROVE SaleInv
<1>1. PICK p \in Plans : call = p
  BY DEF Init, PointsInit, HandlersInit
<1>2. call = [r \in Req |-> Request(p[r].op, p[r].who, p[r].arg, p[r].amt)]
  BY <1>1, PointsAssumption
<1>3. \A r \in Req : call[r].pc = "start" /\ call[r].hand = 0 /\ call[r].owed = FALSE
  BY <1>2 DEF Request
<1>4. \A r \in Req : call[r].op = "edit" => \A c \in DOMAIN call[r].arg :
                        c \in DOMAIN Column /\ call[r].arg[c] \in Column[c]
  BY <1>1, StoreAssumption
<1>5. ItemOK /\ unit = {} /\ granted = {}
  <2>1. PICK s \in InitStock : item = [stock |-> s, active |-> TRUE, cost |-> InitCost]
    BY DEF Init, StoreInit
  <2>2. ItemShape(item)
    BY <2>1, StoreAssumption DEF ItemShape
  <2> QED
    BY <2>2 DEF ItemOK, Init, StoreInit
<1>6. ASSUME NEW r \in Req PROVE EditOK(r) /\ DeleteOK(r)
  BY <1>3, <1>4 DEF EditOK, DeleteOK
<1>7. ASSUME NEW r \in Req PROVE BuyOK(r)
  <2>1. call[r].pc = "start" /\ call[r].hand \in Nat /\ call[r].hand = 0
    BY <1>3
  <2>2. call[r].owed \in BOOLEAN /\ ~call[r].owed
    BY <1>3
  <2>3. r \notin unit /\ r \notin granted
    BY <1>5
  <2> QED
    BY <2>1, <2>2, <2>3 DEF BuyOK
<1> QED
  BY <1>5, <1>6, <1>7 DEF SaleInv

(* What a request of the shop knows of itself depends on nothing of others.  *)
LEMMA SaleLocal ==
    ASSUME NEW s \in Req, call'[s] = call[s], s \in unit' <=> s \in unit,
           s \in granted' <=> s \in granted, EditOK(s), DeleteOK(s), BuyOK(s)
    PROVE  EditOK(s)' /\ DeleteOK(s)' /\ BuyOK(s)'
BY DEF EditOK, DeleteOK, BuyOK

(* A purchase that moves keeps unit and granted among the purchases.        *)
LEMMA SaleKept ==
    ASSUME Frame, SaleInv, NEW r \in Req, MovesOnly(r), ItemOK',
           EditOK(r)', DeleteOK(r)', BuyOK(r)',
           \/ UNCHANGED <<unit, granted>>
           \/ call[r].op = "buy" /\ unit' \in {unit, unit \cup {r}} /\ UNCHANGED granted
           \/ call[r].op = "buy" /\ r \notin granted /\ unit' = unit \ {r} /\ UNCHANGED granted
           \/ r \in unit /\ granted' = granted \cup {r} /\ UNCHANGED unit
    PROVE  SaleInv'
<1>1. \A s \in Req : call'[s].op = call[s].op
  BY DEF MovesOnly
<1>2. (unit' \subseteq {s \in Req : call'[s].op = "buy"}) /\ granted' \subseteq unit'
  BY <1>1 DEF SaleInv
<1>3. ASSUME NEW s \in Req, s # r PROVE EditOK(s)' /\ DeleteOK(s)' /\ BuyOK(s)'
  <2>1. call'[s] = call[s] /\ (s \in unit' <=> s \in unit) /\ (s \in granted' <=> s \in granted)
    BY <1>3 DEF MovesOnly
  <2> QED
    BY <2>1, SaleLocal DEF SaleInv
<1> QED
  BY <1>2, <1>3 DEF SaleInv

LEMMA SaleBuys ==
    ASSUME Frame, SaleInv, NEW r \in Req,
           BuyRead(r) \/ ClaimStock(r) \/ BuyDeduct(r) \/ Grant(r) \/ BuyRefund(r)
             \/ RestoreStock(r) \/ RecordPurchase(r) \/ StoreDie(r)
    PROVE  SaleInv'
<1> USE DEF Frame
<1>0. BuyOK(r) /\ ItemOK /\ call[r].op = "buy"
  BY DEF SaleInv, At, BuyRead, ClaimStock, BuyDeduct, Grant, BuyRefund, RestoreStock,
     RecordPurchase, StoreDie
<1> SUFFICES
      /\ MovesOnly(r) /\ ItemOK' /\ BuyOK(r)'
      /\ \/ UNCHANGED <<unit, granted>>
         \/ unit' \in {unit, unit \cup {r}} /\ UNCHANGED granted
         \/ r \notin granted /\ unit' = unit \ {r} /\ UNCHANGED granted
         \/ r \in unit /\ granted' = granted \cup {r} /\ UNCHANGED unit
  <2>1. ASSUME MovesOnly(r) PROVE EditOK(r)' /\ DeleteOK(r)'
    BY <1>0, <2>1 DEF MovesOnly, EditOK, DeleteOK
  <2> QED
    BY <1>0, <2>1, SaleKept
<1>1. CASE BuyRead(r)
  <2>1. call[r].pc = "start" /\ UNCHANGED <<item, unit, granted>>
    BY <1>1 DEF BuyRead, At, storeVars
  <2>2. CASE item.active /\ call' = [call EXCEPT ![r].pc = "priced", ![r].amt = item.cost]
    <3>1. MovesOnly(r)
      BY <2>2 DEF MovesOnly, Shaped, IsCall, Fields
    <3>2. /\ call'[r].pc = "priced" /\ call'[r].amt = item.cost
          /\ call'[r].hand = call[r].hand /\ call'[r].owed = call[r].owed
      BY <2>2 DEF Shaped, IsCall, Fields
    <3>3. item.cost \in Nat \ {0}
      BY <1>0, <2>2 DEF ItemOK, ItemShape, Gone
    <3> QED
      BY <1>0, <2>1, <3>1, <3>2, <3>3 DEF BuyOK, MovesOnly, ItemOK, SaleInv
  <2>3. CASE Goto(r, "refused")
    BY <1>0, <2>1, <2>3, GotoMoves DEF BuyOK, MovesOnly, ItemOK, SaleInv
  <2> QED
    BY <1>1, <2>2, <2>3 DEF BuyRead
<1>2. CASE ClaimStock(r)
  <2>1. call[r].pc = "priced" /\ UNCHANGED granted
    BY <1>2 DEF ClaimStock, At
  <2>2. CASE Claimable /\ item' = [item EXCEPT !.stock = @ - 1] /\ unit' = unit \cup {r}
             /\ Goto(r, "claimed")
    <3>1. ItemShape(item)
      BY <1>0, <2>2 DEF ItemOK, Claimable, Gone
    <3>2. ItemShape(item')
      BY <2>2, <3>1 DEF ItemShape
    <3> QED
      BY <1>0, <2>1, <2>2, <3>2, GotoMoves DEF BuyOK, MovesOnly, ItemOK, SaleInv
  <2>3. CASE Goto(r, "refused") /\ UNCHANGED <<item, unit>>
    BY <1>0, <2>1, <2>3, GotoMoves DEF BuyOK, MovesOnly, ItemOK, SaleInv
  <2> QED
    BY <1>2, <2>2, <2>3 DEF ClaimStock
<1>3. CASE BuyDeduct(r)
  <2>1. call[r].pc = "claimed" /\ UNCHANGED <<item, unit, granted>>
        /\ Deduct(r, call[r].amt, "charged", "unclaim")
    BY <1>3 DEF BuyDeduct, At, storeVars, Amt
  <2> QED
    BY <1>0, <2>1, DeductMoves DEF BuyOK, MovesOnly, ItemOK, SaleInv
<1>4. CASE Grant(r)
  <2>1. call[r].pc = "charged" /\ UNCHANGED <<item, unit>>
    BY <1>4 DEF Grant, At
  <2>2. CASE granted' = granted \cup {r}
             /\ call' = [call EXCEPT ![r].pc = "granted", ![r].hand = 0]
    <3>1. MovesOnly(r)
      BY <2>2 DEF MovesOnly, Shaped, IsCall, Fields
    <3>2. /\ call'[r].pc = "granted" /\ call'[r].hand = 0
          /\ call'[r].amt = call[r].amt /\ call'[r].owed = call[r].owed
      BY <2>2 DEF Shaped, IsCall, Fields
    <3>3. call[r].amt \in Nat \ {0} /\ call[r].owed \in BOOLEAN /\ r \in unit
      BY <1>0, <2>1 DEF BuyOK
    <3>4. BuyOK(r)'
      BY <2>2, <3>2, <3>3 DEF BuyOK
    <3>5. ItemOK'
      BY <1>0, <2>1 DEF ItemOK
    <3> QED
      BY <2>1, <2>2, <3>1, <3>3, <3>4, <3>5
  <2>3. CASE Goto(r, "refund") /\ UNCHANGED granted
    BY <1>0, <2>1, <2>3, GotoMoves DEF BuyOK, MovesOnly, ItemOK, SaleInv
  <2> QED
    BY <1>4, <2>2, <2>3 DEF Grant
<1>5. CASE BuyRefund(r)
  <2>1. call[r].pc = "refund" /\ UNCHANGED <<item, unit, granted>> /\ Refund(r, "unclaim")
    BY <1>5 DEF BuyRefund, At, storeVars
  <2>2. MovesOnly(r) /\ call'[r].pc = "unclaim"
        /\ \/ call'[r].hand = 0 /\ call'[r].owed = call[r].owed
           \/ call'[r].hand = call[r].hand /\ call'[r].owed = TRUE
    BY <2>1, RefundMoves
  <2>3. call[r].hand \in Nat /\ call[r].owed \in BOOLEAN /\ r \in unit /\ r \notin granted
    BY <1>0, <2>1 DEF BuyOK
  <2>6. call'[r].hand \in Nat /\ call'[r].owed \in BOOLEAN
        /\ (call'[r].owed \/ call'[r].hand = 0)
    <3>1. CASE call'[r].hand = 0 /\ call'[r].owed = call[r].owed
      BY <2>3, <3>1
    <3>2. CASE call'[r].hand = call[r].hand /\ call'[r].owed = TRUE
      BY <2>3, <3>2
    <3> QED
      BY <2>2, <3>1, <3>2
  <2>7. r \in unit' /\ r \notin granted'
    BY <2>1, <2>3
  <2>4. BuyOK(r)'
    BY <2>2, <2>6, <2>7 DEF BuyOK
  <2>5. ItemOK'
    BY <1>0, <2>1 DEF ItemOK
  <2> QED
    BY <2>1, <2>2, <2>4, <2>5
<1>6. CASE RestoreStock(r)
  <2>1. call[r].pc = "unclaim" /\ UNCHANGED granted /\ r \notin granted
    <3>1. call[r].pc = "unclaim" /\ UNCHANGED granted
      BY <1>6 DEF RestoreStock, At
    <3> QED
      BY <1>0, <3>1 DEF BuyOK
  <2>2. CASE item' = Restored /\ Goto(r, "refused")
             /\ unit' = IF item = Gone THEN unit ELSE unit \ {r}
    <3>1. ItemOK'
      <4>1. CASE item' = item
        BY <1>0, <4>1 DEF ItemOK
      <4>2. CASE item # Gone /\ item' = [item EXCEPT !.stock = @ + 1]
        BY <1>0, <4>2 DEF ItemOK, ItemShape
      <4> QED
        BY <2>2, <4>1, <4>2 DEF Restored
    <3>2. MovesOnly(r) /\ call'[r].pc = "refused" /\ call'[r].amt = call[r].amt
          /\ call'[r].hand = call[r].hand /\ call'[r].owed = call[r].owed
      BY <2>2, GotoMoves
    <3>3. BuyOK(r)'
      BY <1>0, <2>1, <3>2 DEF BuyOK, MovesOnly
    <3>4. CASE unit' = unit
      BY <2>1, <3>1, <3>2, <3>3, <3>4
    <3>5. CASE unit' = unit \ {r}
      BY <2>1, <3>1, <3>2, <3>3, <3>5
    <3> QED
      BY <2>2, <3>4, <3>5
  <2>3. CASE /\ call' = [call EXCEPT ![r].pc = "refused", ![r].owed = TRUE]
              /\ UNCHANGED <<item, unit>>
    <3>1. MovesOnly(r)
      BY <2>3 DEF MovesOnly, Shaped, IsCall, Fields
    <3>2. /\ call'[r].pc = "refused" /\ call'[r].hand = call[r].hand
          /\ call'[r].amt = call[r].amt /\ call'[r].owed = TRUE
      BY <2>3 DEF Shaped, IsCall, Fields
    <3>3. BuyOK(r)'
      <4>1. call[r].hand \in Nat
        BY <1>0, <2>1 DEF BuyOK
      <4> QED
        BY <2>1, <3>2, <4>1 DEF BuyOK
    <3>4. ItemOK'
      BY <1>0, <2>3 DEF ItemOK
    <3> QED
      BY <2>1, <2>3, <3>1, <3>3, <3>4
  <2> QED
    BY <1>6, <2>2, <2>3 DEF RestoreStock
<1>7. CASE RecordPurchase(r)
  <2>1. call[r].pc = "granted" /\ UNCHANGED <<item, unit, granted>> /\ Goto(r, "done")
    BY <1>7 DEF RecordPurchase, At, storeVars
  <2> QED
    BY <1>0, <2>1, GotoMoves DEF BuyOK, MovesOnly, ItemOK, SaleInv
<1>8. CASE StoreDie(r)
  <2>1. Goto(r, "dead") /\ UNCHANGED <<item, unit, granted>>
        /\ call[r].pc \notin Ended \cup {"start"}
    BY <1>8 DEF StoreDie, Die, Cut, storeVars
  <2> QED
    BY <1>0, <2>1, GotoMoves DEF BuyOK, MovesOnly, ItemOK, SaleInv, Ended
<1> QED
  BY <1>1, <1>2, <1>3, <1>4, <1>5, <1>6, <1>7, <1>8

LEMMA SaleEdits ==
    ASSUME Frame, SaleInv, NEW r \in Req, EditOpen(r) \/ EditSave(r) \/ DeleteItem(r)
    PROVE  SaleInv'
<1> USE DEF Frame
<1>0. EditOK(r) /\ DeleteOK(r) /\ ItemOK
  BY DEF SaleInv
<1> SUFFICES
      MovesOnly(r) /\ ItemOK' /\ EditOK(r)' /\ DeleteOK(r)' /\ UNCHANGED <<unit, granted>>
  <2>1. call[r].op \in {"edit", "delete"}
    BY DEF EditOpen, EditSave, DeleteItem, At
  <2>2. ASSUME MovesOnly(r) PROVE BuyOK(r)'
    BY <2>1, <2>2 DEF MovesOnly, BuyOK
  <2> QED
    BY <2>2, SaleKept
<1>1. CASE EditOpen(r)
  <2> DEFINE a == [c \in DOMAIN item |->
                     IF c \in DOMAIN call[r].arg THEN call[r].arg[c] ELSE item[c]]
  <2>1. call[r].op = "edit" /\ call[r].pc = "start" /\ UNCHANGED <<item, unit, granted>>
    BY <1>1 DEF EditOpen, At, storeVars
  <2>2. call' = [call EXCEPT ![r].pc = "form", ![r].arg = a]
    BY <1>1 DEF EditOpen, Shaped, IsCall, Fields
  <2>3. ItemShape(a)
    <3>1. ItemShape(item)
      BY <1>0, <1>1 DEF EditOpen, ItemOK
    <3>2. \A c \in DOMAIN call[r].arg : c \in DOMAIN Column /\ call[r].arg[c] \in Column[c]
      BY <1>0, <2>1 DEF EditOK
    <3>3. DOMAIN item = {"stock", "active", "cost"}
      BY <3>1 DEF ItemShape
    <3>4. a = [c \in {"stock", "active", "cost"} |-> a[c]]
      BY <3>3
    <3>5. a.stock \in Int /\ a.active \in BOOLEAN /\ a.cost \in Nat \ {0}
      BY <3>1, <3>2, <3>3 DEF ItemShape, Column
    <3> QED
      BY <3>4, <3>5 DEF ItemShape
  <2> HIDE DEF a
  <2>4. MovesOnly(r)
    BY <2>2 DEF MovesOnly, Shaped, IsCall, Fields
  <2>5. call'[r].pc = "form" /\ call'[r].arg = a
    BY <2>2 DEF Shaped, IsCall, Fields
  <2> QED
    BY <1>0, <2>1, <2>3, <2>4, <2>5 DEF MovesOnly, ItemOK, EditOK, DeleteOK
<1>2. CASE EditSave(r)
  <2>1. /\ call[r].op = "edit" /\ call[r].pc = "form" /\ UNCHANGED <<unit, granted>>
        /\ Goto(r, "done") /\ item' \in {Gone, call[r].arg}
    BY <1>2 DEF EditSave, At
  <2> QED
    BY <1>0, <2>1, GotoMoves DEF MovesOnly, ItemOK, EditOK, DeleteOK
<1>3. CASE DeleteItem(r)
  <2>1. /\ call[r].op = "delete" /\ UNCHANGED <<unit, granted>>
        /\ Goto(r, "done") /\ item' = Gone
    BY <1>3 DEF DeleteItem, At
  <2> QED
    BY <1>0, <2>1, GotoMoves DEF MovesOnly, ItemOK, EditOK, DeleteOK
<1> QED
  BY <1>1, <1>2, <1>3

LEMMA SaleNext == ASSUME Frame, SaleInv, [Next]_vars PROVE SaleInv'
<1>1. CASE StoreNext
  <2>1. ASSUME NEW r \in Req,
          \/ BuyRead(r) \/ ClaimStock(r) \/ BuyDeduct(r) \/ Grant(r)
          \/ BuyRefund(r) \/ RestoreStock(r) \/ RecordPurchase(r)
          \/ EditOpen(r) \/ EditSave(r) \/ DeleteItem(r) \/ StoreDie(r)
        PROVE SaleInv'
    BY <2>1, SaleBuys, SaleEdits
  <2> QED
    BY <1>1, <2>1 DEF StoreNext
<1>2. CASE ~StoreNext
  <2>1. UNCHANGED <<item, unit, granted>>
    BY <1>2, Foreign DEF storeVars
  <2>2. Others(SaleOps)
    BY <1>2, Foreign
  <2>3. \A s \in Req : call'[s].op = call[s].op
    BY Foreign
  <2>4. ASSUME NEW s \in Req PROVE EditOK(s)' /\ DeleteOK(s)' /\ BuyOK(s)'
    <3>1. CASE call[s].op \in SaleOps
      BY <2>1, <2>2, <3>1, SaleLocal DEF Others, SaleInv
    <3>2. CASE call[s].op \notin SaleOps
      BY <2>3, <3>2 DEF SaleOps, EditOK, DeleteOK, BuyOK
    <3> QED
      BY <3>1, <3>2
  <2> QED
    BY <2>1, <2>3, <2>4 DEF SaleInv, ItemOK
<1> QED
  BY <1>1, <1>2

(* The inductive invariant of the shop: where a purchase stands, by its pc. *)
THEOREM SaleInvariant == Spec => []SaleInv
<1>1. Init => SaleInv
  BY SaleInit
<1>2. Frame /\ SaleInv /\ [Next]_vars => SaleInv'
  BY SaleNext
<1> QED
  BY <1>1, <1>2, Framed, PTL DEF Spec

---------------------------------------------------------------------------
(* No edit and a counted shelf: then the item is on sale, and stock and      *)
(* claimed units are what there was.                                        *)
StockInv ==
    (InitStock \subseteq Nat /\ \A r \in Req : call[r].op \notin {"edit", "delete"}) =>
        /\ item.active = TRUE /\ item.stock \in Nat
        /\ item.stock + Cardinality(unit) \in InitStock

LEMMA UnitFinite == ASSUME SaleInv PROVE IsFiniteSet(unit)
BY PointsAssumption, FS_Subset DEF SaleInv

LEMMA StockInit == ASSUME Init PROVE StockInv
<1>1. PICK s \in InitStock : item = [stock |-> s, active |-> TRUE, cost |-> InitCost]
  BY DEF Init, StoreInit
<1>2. unit = {} /\ Cardinality(unit) = 0
  BY FS_EmptySet DEF Init, StoreInit
<1> QED
  BY <1>1, <1>2, StoreAssumption DEF StockInv

LEMMA StockNext == ASSUME Frame, SaleInv, StockInv, [Next]_vars PROVE StockInv'
<1>1. \A s \in Req : call'[s].op = call[s].op
  BY Foreign
<1> SUFFICES ASSUME InitStock \subseteq Nat, \A s \in Req : call[s].op \notin {"edit", "delete"}
             PROVE  /\ item'.active = TRUE /\ item'.stock \in Nat
                    /\ item'.stock + Cardinality(unit') \in InitStock
  BY <1>1 DEF StockInv
<1>2. /\ item.active = TRUE /\ item.stock \in Nat
      /\ item.stock + Cardinality(unit) \in InitStock
  BY DEF StockInv
<1>3. ItemShape(item)
  BY <1>2 DEF SaleInv, ItemOK, Gone
<1>4. IsFiniteSet(unit) /\ Cardinality(unit) \in Nat
  BY UnitFinite, FS_CardinalityType
<1>5. CASE UNCHANGED <<item, unit>>
  BY <1>2, <1>5
<1>6. ASSUME NEW r \in Req, ClaimStock(r), ~UNCHANGED <<item, unit>>
      PROVE  /\ item'.active = TRUE /\ item'.stock \in Nat
             /\ item'.stock + Cardinality(unit') \in InitStock
  <2>1. Claimable /\ item' = [item EXCEPT !.stock = @ - 1] /\ unit' = unit \cup {r}
    BY <1>6 DEF ClaimStock
  <2>2. r \notin unit
    BY <1>6 DEF ClaimStock, At, SaleInv, BuyOK
  <2>3. Cardinality(unit') = Cardinality(unit) + 1
    BY <1>4, <2>1, <2>2, FS_AddElement
  <2>4. item'.active = TRUE /\ item'.stock = item.stock - 1
    BY <1>2, <1>3, <2>1 DEF ItemShape
  <2>5. item.stock # 0
    BY <2>1 DEF Claimable
  <2> QED
    BY <1>2, <1>4, <2>3, <2>4, <2>5
<1>7. ASSUME NEW r \in Req, RestoreStock(r), ~UNCHANGED <<item, unit>>
      PROVE  /\ item'.active = TRUE /\ item'.stock \in Nat
             /\ item'.stock + Cardinality(unit') \in InitStock
  <2>1. item # Gone /\ item' = [item EXCEPT !.stock = @ + 1] /\ unit' = unit \ {r}
    BY <1>2, <1>7 DEF RestoreStock, Restored, Gone
  <2>2. r \in unit
    BY <1>7 DEF RestoreStock, At, SaleInv, BuyOK
  <2>3. Cardinality(unit') = Cardinality(unit) - 1
    BY <1>4, <2>1, <2>2, FS_RemoveElement
  <2>4. item'.active = TRUE /\ item'.stock = item.stock + 1
    BY <1>2, <1>3, <2>1 DEF ItemShape
  <2> QED
    BY <1>2, <1>4, <2>3, <2>4
<1>8. CASE StoreNext
  <2>1. PICK r \in Req :
          \/ BuyRead(r) \/ ClaimStock(r) \/ BuyDeduct(r) \/ Grant(r)
          \/ BuyRefund(r) \/ RestoreStock(r) \/ RecordPurchase(r)
          \/ EditOpen(r) \/ EditSave(r) \/ DeleteItem(r) \/ StoreDie(r)
    BY <1>8 DEF StoreNext
  <2>2. CASE ClaimStock(r) \/ RestoreStock(r)
    BY <1>5, <1>6, <1>7, <2>2
  <2>3. CASE EditOpen(r) \/ EditSave(r) \/ DeleteItem(r)
    BY <2>3 DEF EditOpen, EditSave, DeleteItem, At
  <2>4. CASE BuyRead(r) \/ BuyDeduct(r) \/ Grant(r) \/ BuyRefund(r) \/ RecordPurchase(r)
               \/ StoreDie(r)
    BY <1>5, <2>4 DEF BuyRead, BuyDeduct, Grant, BuyRefund, RecordPurchase, StoreDie, storeVars
  <2> QED
    BY <2>1, <2>2, <2>3, <2>4
<1>9. CASE ~StoreNext
  BY <1>5, <1>9, Foreign DEF storeVars
<1> QED
  BY <1>8, <1>9

(* "two concurrent buyers can't both claim the last one": without an edit   *)
(* in between the stock never goes below zero, units claimed and on the     *)
(* shelf are what was put there and no reward is granted without a unit,    *)
(* however many buyers run and whatever of them fails or dies.              *)
THEOREM NeverOversold == Spec => []NoOversell
<1>1. Init => StockInv
  BY StockInit
<1>2. Frame /\ SaleInv /\ StockInv /\ [Next]_vars => StockInv'
  BY StockNext
<1>3. SaleInv /\ StockInv => NoOversell
  BY DEF SaleInv, StockInv, NoOversell
<1> QED
  BY <1>1, <1>2, <1>3, Framed, SaleInvariant, PTL DEF Spec

---------------------------------------------------------------------------
(* The refinement.  What one step of r does to the abstract sale is read off *)
(* r's own record and off the shelf.                                        *)
Only(r) ==
    /\ MovesOnly(r)
    /\ \A s \in Req \ {r} : /\ s \in unit' <=> s \in unit
                            /\ s \in granted' <=> s \in granted

Unfinished == [state |-> "open", paid |-> 0]

LEMMA OnlySale ==
    ASSUME NEW r \in Req, Only(r)
    PROVE  /\ \A s \in Req : RoleOf(s)' = RoleOf(s)
           /\ \A s \in Req \ {r} : SaleOf(s)' = SaleOf(s) /\ (s \in InFlight' <=> s \in InFlight)
<1>1. \A s \in Req \ {r} : call'[s] = call[s] /\ (s \in unit' <=> s \in unit)
                              /\ (s \in granted' <=> s \in granted)
  BY DEF Only, MovesOnly
<1>2. \A s \in Req : call'[s].op = call[s].op
  BY <1>1 DEF Only, MovesOnly
<1>3. \A s \in Req : RoleOf(s)' = RoleOf(s)
  BY <1>2 DEF RoleOf
<1>4. ASSUME NEW s \in Req \ {r}
      PROVE  SaleOf(s)' = SaleOf(s) /\ (s \in InFlight' <=> s \in InFlight)
  <2>1. /\ call'[s] = call[s] /\ (s \in unit' <=> s \in unit)
        /\ (s \in granted' <=> s \in granted) /\ RoleOf(s)' = RoleOf(s)
    BY <1>1, <1>3
  <2>2. Ungranted(s)' = Ungranted(s)
    BY <2>1 DEF Ungranted, Torn
  <2>3. SaleOf(s)' = SaleOf(s)
    BY <2>1, <2>2 DEF SaleOf, Amt
  <2>4. s \in InFlight' <=> s \in InFlight
    BY <2>1 DEF InFlight
  <2> QED
    BY <2>3, <2>4
<1> QED
  BY <1>3, <1>4

LEMMA FlightFinite ==
    ASSUME SaleInv PROVE IsFiniteSet(InFlight) /\ Cardinality(InFlight) \in Nat
<1>1. IsFiniteSet(InFlight)
  BY UnitFinite, FS_Subset DEF InFlight
<1> QED
  BY <1>1, FS_CardinalityType

(* The purchases in flight, before and after a step of r.                   *)
LEMMA FlightMoves ==
    ASSUME SaleInv, SaleInv', NEW r \in Req, Only(r)
    PROVE  /\ (r \in InFlight <=> r \in InFlight') => InFlight' = InFlight
           /\ r \notin InFlight /\ r \in InFlight' =>
                 Cardinality(InFlight') = Cardinality(InFlight) + 1
           /\ r \in InFlight /\ r \notin InFlight' =>
                 /\ Cardinality(InFlight') = Cardinality(InFlight) - 1
                 /\ Cardinality(InFlight) > 0
<1>1. InFlight \subseteq Req /\ InFlight' \subseteq Req
  BY DEF InFlight, SaleInv
<1>2. \A s \in Req \ {r} : s \in InFlight' <=> s \in InFlight
  BY OnlySale
<1>3. IsFiniteSet(InFlight) /\ Cardinality(InFlight) \in Nat
  BY FlightFinite
<1>4. (r \in InFlight <=> r \in InFlight') => InFlight' = InFlight
  BY <1>1, <1>2
<1>5. ASSUME r \notin InFlight, r \in InFlight'
      PROVE  Cardinality(InFlight') = Cardinality(InFlight) + 1
  <2>1. InFlight' = InFlight \cup {r}
    BY <1>1, <1>2, <1>5
  <2> QED
    BY <1>3, <1>5, <2>1, FS_AddElement
<1>6. ASSUME r \in InFlight, r \notin InFlight'
      PROVE  /\ Cardinality(InFlight') = Cardinality(InFlight) - 1
             /\ Cardinality(InFlight) > 0
  <2>1. InFlight' = InFlight \ {r}
    BY <1>1, <1>2, <1>6
  <2>2. Cardinality(InFlight') = Cardinality(InFlight) - 1
    BY <1>3, <1>6, <2>1, FS_RemoveElement
  <2>3. Cardinality(InFlight) # 0
    BY <1>3, <1>6, FS_EmptySet
  <2> QED
    BY <1>3, <2>2, <2>3
<1> QED
  BY <1>4, <1>5, <1>6

(* An abstract step of r: its record goes from open to the one given.       *)
LEMMA EndsAbstractly ==
    ASSUME NEW r \in Req, Only(r), NEW kind, NEW state, NEW paid,
           RoleOf(r) = kind, SaleOf(r) = Unfinished,
           SaleOf(r)' = [state |-> state, paid |-> paid]
    PROVE  /\ Sale!Ends(r, kind, state)
           /\ SaleState'[r].paid = paid
           /\ UNCHANGED Roles
<1>1. /\ \A s \in Req : RoleOf(s)' = RoleOf(s)
      /\ \A s \in Req \ {r} : SaleOf(s)' = SaleOf(s)
  BY OnlySale
<1>2. SaleState'[r].paid = paid
  BY DEF SaleState
<1>3. SaleState' = [SaleState EXCEPT ![r] = [state |-> state, paid |-> paid]]
  BY <1>1 DEF SaleState
<1>4. Roles[r] = kind /\ SaleState[r] = Unfinished /\ UNCHANGED Roles
  BY <1>1 DEF Roles, SaleState
<1> QED
  BY <1>2, <1>3, <1>4 DEF Sale!Ends, Sale!Open, Unfinished

(* What the mapping shows, and that it did not change.                      *)
Mapped == <<Roles, Shelf, SaleState>>

Quiet == UNCHANGED Mapped

LEMMA QuietStep ==
    ASSUME NEW r \in Req, Only(r), SaleOf(r)' = SaleOf(r), Shelf' = Shelf
    PROVE  Quiet
<1>1. /\ \A s \in Req : RoleOf(s)' = RoleOf(s)
      /\ \A s \in Req : SaleOf(s)' = SaleOf(s)
  BY OnlySale
<1> QED
  BY <1>1 DEF Quiet, Mapped, Roles, SaleState

LEMMA ShelfKept ==
    ASSUME SaleInv, SaleInv', NEW r \in Req, Only(r), UNCHANGED item,
           r \in InFlight' <=> r \in InFlight
    PROVE  Shelf' = Shelf
<1>1. InFlight' = InFlight
  BY FlightMoves
<1> QED
  BY <1>1 DEF Shelf

LEMMA ShelfInt == ASSUME SaleInv PROVE Shelf \in Int /\ item.stock \in Int
<1>1. item.stock \in Int
  BY DEF SaleInv, ItemOK, ItemShape, Gone
<1> QED
  BY <1>1, FlightFinite DEF Shelf

(* A purchase that leaves the flight with its unit takes one off the shelf. *)
LEMMA ShelfTaken ==
    ASSUME SaleInv, SaleInv', NEW r \in Req, Only(r), UNCHANGED item,
           r \in InFlight, r \notin InFlight'
    PROVE  Shelf # 0 /\ Shelf' = Sale!Taken1
<1>1. /\ Cardinality(InFlight') = Cardinality(InFlight) - 1
      /\ Cardinality(InFlight) > 0
  BY FlightMoves
<1>2. item.stock \in Int /\ Cardinality(InFlight) \in Nat
  BY ShelfInt, FlightFinite
<1> QED
  BY <1>1, <1>2 DEF Shelf, Sale!Taken1

LEMMA BuyOpen ==
    ASSUME NEW r \in Req, BuyOK(r), call[r].op = "buy", call[r].pc \notin Ended, r \notin granted
    PROVE  RoleOf(r) = "buy" /\ SaleOf(r) = Unfinished
BY DEF RoleOf, SaleOf, Ungranted, Unfinished

(* One lemma for each way a purchase's step shows.                          *)
LEMMA BuyGoesOn ==
    ASSUME Frame, SaleInv, SaleInv', NEW r \in Req, Only(r), UNCHANGED item,
           call[r].op = "buy", call[r].pc \notin Ended, call'[r].pc \notin Ended,
           r \notin granted, r \notin granted', r \in unit' <=> r \in unit
    PROVE  Quiet
<1>1. BuyOK(r) /\ BuyOK(r)' /\ call'[r].op = "buy"
  BY DEF SaleInv, Only, MovesOnly
<1>2. SaleOf(r) = Unfinished /\ SaleOf(r)' = Unfinished
  BY <1>1 DEF RoleOf, SaleOf, Ungranted, Unfinished
<1>3. r \in InFlight' <=> r \in InFlight
  BY DEF InFlight
<1> QED
  BY <1>2, <1>3, ShelfKept, QuietStep

LEMMA BuyLost ==
    ASSUME Frame, SaleInv, SaleInv', NEW r \in Req, Only(r), UNCHANGED item,
           call[r].op = "buy", call[r].pc \notin Ended, call'[r].pc \in Ended,
           r \notin granted, r \notin granted', r \in unit' <=> r \in unit,
           call'[r].pc = "dead" \/ call'[r].owed
    PROVE  Sale!Lose(r) /\ UNCHANGED Roles
<1>1. BuyOK(r) /\ BuyOK(r)' /\ call'[r].op = "buy"
  BY DEF SaleInv, Only, MovesOnly
<1>2. RoleOf(r) = "buy" /\ SaleOf(r) = Unfinished
  BY <1>1, BuyOpen
<1>3. SaleOf(r)' = [state |-> "lost", paid |-> call'[r].hand] /\ call'[r].hand \in Nat
  BY <1>1 DEF RoleOf, SaleOf, Ungranted, Torn, BuyOK
<1>4. /\ Sale!Ends(r, "buy", "lost")
      /\ SaleState'[r].paid \in Nat
      /\ UNCHANGED Roles
  BY <1>2, <1>3, EndsAbstractly
<1>5. Shelf' \in {Shelf, Sale!Taken1}
  <2>1. CASE r \in unit
    <3>1. r \in InFlight /\ r \notin InFlight'
      BY <2>1 DEF InFlight
    <3> QED
      BY <3>1, ShelfTaken
  <2>2. CASE r \notin unit
    <3>1. r \in InFlight' <=> r \in InFlight
      BY <2>2 DEF InFlight
    <3> QED
      BY <3>1, ShelfKept
  <2> QED
    BY <2>1, <2>2
<1> QED
  BY <1>4, <1>5 DEF Sale!Lose

LEMMA BuyRefused ==
    ASSUME Frame, SaleInv, SaleInv', NEW r \in Req, Only(r), Shelf' = Shelf,
           call[r].op = "buy", call[r].pc \notin Ended, call'[r].pc = "refused",
           r \notin granted, r \notin granted', r \notin unit', ~call'[r].owed,
           call'[r].hand = 0
    PROVE  Sale!Refuse(r) /\ UNCHANGED Roles
<1>1. BuyOK(r) /\ BuyOK(r)' /\ call'[r].op = "buy"
  BY DEF SaleInv, Only, MovesOnly
<1>2. RoleOf(r) = "buy" /\ SaleOf(r) = Unfinished
  BY <1>1, BuyOpen
<1>3. SaleOf(r)' = [state |-> "refused", paid |-> 0]
  BY <1>1 DEF RoleOf, SaleOf, Ungranted, Torn, Ended
<1>4. /\ Sale!Ends(r, "buy", "refused")
      /\ SaleState'[r].paid = 0
      /\ UNCHANGED Roles
  BY <1>2, <1>3, EndsAbstractly
<1> QED
  BY <1>4 DEF Sale!Refuse

LEMMA OnlyOnes ==
    ASSUME NEW r \in Req, MovesOnly(r),
           unit' \in {unit, unit \cup {r}, unit \ {r}}, granted' \in {granted, granted \cup {r}}
    PROVE  Only(r)
BY DEF Only

(* A step of the abstract shop, or none.                                    *)
SaleMoves == Quiet \/ Sale!Next

LEMMA ShowsAs ==
    ASSUME NEW r \in Req,
           \/ Quiet
           \/ /\ Sale!Sell(r) \/ Sale!Refuse(r) \/ Sale!Lose(r) \/ Sale!Stock(r)
              /\ UNCHANGED Roles
    PROVE  SaleMoves
BY DEF SaleMoves, Sale!Next

LEMMA ClaimShows ==
    ASSUME Frame, SaleInv, SaleInv', NEW r \in Req, ClaimStock(r) PROVE SaleMoves
<1> USE DEF Frame
<1>1. /\ call[r].op = "buy" /\ call[r].pc = "priced" /\ UNCHANGED granted
      /\ BuyOK(r) /\ BuyOK(r)'
  BY DEF ClaimStock, At, SaleInv
<1>2. r \notin unit /\ r \notin granted /\ call[r].hand = 0 /\ ~call[r].owed
  BY <1>1 DEF BuyOK, SaleInv
<1>3. CASE Claimable /\ item' = [item EXCEPT !.stock = @ - 1] /\ unit' = unit \cup {r}
             /\ Goto(r, "claimed")
  <2>1. MovesOnly(r) /\ call'[r].pc = "claimed"
    BY <1>3, GotoMoves
  <2>2. Only(r)
    BY <1>1, <1>3, <2>1, OnlyOnes
  <2>3. r \notin InFlight /\ r \in InFlight'
    BY <1>1, <1>2, <1>3, <2>1 DEF InFlight, Ended
  <2>4. Cardinality(InFlight') = Cardinality(InFlight) + 1
    BY <2>2, <2>3, FlightMoves
  <2>5. ItemShape(item)
    BY <1>3 DEF SaleInv, ItemOK, Claimable, Gone
  <2>6. item'.stock = item.stock - 1 /\ item.stock # 0 /\ item.stock \in Int
    BY <1>3, <2>5 DEF ItemShape, Claimable
  <2>7. Shelf' = Shelf
    BY <2>4, <2>6, FlightFinite DEF Shelf
  <2>8. SaleOf(r) = Unfinished /\ SaleOf(r)' = Unfinished
    <3>1. call'[r].op = "buy"
      BY <1>1, <2>1 DEF MovesOnly
    <3> QED
      BY <1>1, <1>2, <2>1, <3>1 DEF RoleOf, SaleOf, Ungranted, Unfinished, Ended
  <2> QED
    BY <2>2, <2>7, <2>8, QuietStep, ShowsAs
<1>4. CASE Goto(r, "refused") /\ UNCHANGED <<item, unit>>
  <2>1. MovesOnly(r) /\ call'[r].pc = "refused" /\ call'[r].hand = 0 /\ ~call'[r].owed
    BY <1>2, <1>4, GotoMoves
  <2>2. Only(r)
    BY <1>1, <1>4, <2>1, OnlyOnes
  <2>3. r \in InFlight' <=> r \in InFlight
    BY <1>2, <1>4 DEF InFlight
  <2>4. Shelf' = Shelf
    BY <1>4, <2>2, <2>3, ShelfKept
  <2>5. call[r].pc \notin Ended
    BY <1>1 DEF Ended
  <2> QED
    BY <1>1, <1>2, <1>4, <2>1, <2>2, <2>4, <2>5, BuyRefused, ShowsAs
<1> QED
  BY <1>3, <1>4 DEF ClaimStock

LEMMA ReadShows ==
    ASSUME Frame, SaleInv, SaleInv', NEW r \in Req, BuyRead(r) PROVE SaleMoves
<1> USE DEF Frame
<1>1. /\ call[r].op = "buy" /\ call[r].pc = "start" /\ UNCHANGED <<item, unit, granted>>
      /\ BuyOK(r)
  BY DEF BuyRead, At, SaleInv, storeVars
<1>2. r \notin unit /\ r \notin granted /\ call[r].hand = 0 /\ ~call[r].owed
  BY <1>1 DEF BuyOK, SaleInv
<1>3. call[r].pc \notin Ended
  BY <1>1 DEF Ended
<1>4. CASE call' = [call EXCEPT ![r].pc = "priced", ![r].amt = item.cost]
  <2>1. MovesOnly(r)
    BY <1>4 DEF MovesOnly, Shaped, IsCall, Fields
  <2>2. call'[r].pc = "priced"
    BY <1>4 DEF Shaped, IsCall, Fields
  <2>3. Only(r) /\ call'[r].pc \notin Ended
    BY <1>1, <2>1, <2>2, OnlyOnes DEF Ended
  <2> QED
    BY <1>1, <1>2, <1>3, <2>3, BuyGoesOn, ShowsAs
<1>5. CASE Goto(r, "refused")
  <2>1. MovesOnly(r) /\ call'[r].pc = "refused" /\ call'[r].hand = 0 /\ ~call'[r].owed
    BY <1>2, <1>5, GotoMoves
  <2>2. Only(r)
    BY <1>1, <2>1, OnlyOnes
  <2>3. r \in InFlight' <=> r \in InFlight
    BY <1>1, <1>2 DEF InFlight
  <2>4. Shelf' = Shelf
    BY <1>1, <2>2, <2>3, ShelfKept
  <2> QED
    BY <1>1, <1>2, <1>3, <2>1, <2>2, <2>4, BuyRefused, ShowsAs
<1> QED
  BY <1>4, <1>5 DEF BuyRead

LEMMA PayShows ==
    ASSUME Frame, SaleInv, SaleInv', NEW r \in Req, BuyDeduct(r) \/ BuyRefund(r)
    PROVE  SaleMoves
<1> USE DEF Frame
<1>1. /\ call[r].op = "buy" /\ call[r].pc \in {"claimed", "refund"}
      /\ UNCHANGED <<item, unit, granted>> /\ BuyOK(r)
  BY DEF BuyDeduct, BuyRefund, At, SaleInv, storeVars
<1>2. MovesOnly(r) /\ call'[r].pc \in {"charged", "unclaim"}
  <2>1. CASE BuyDeduct(r)
    BY <2>1, DeductMoves DEF BuyDeduct
  <2>2. CASE BuyRefund(r)
    BY <2>2, RefundMoves DEF BuyRefund
  <2> QED
    BY <2>1, <2>2
<1>3. Only(r)
  BY <1>1, <1>2, OnlyOnes
<1>4. call[r].pc \notin Ended /\ call'[r].pc \notin Ended /\ r \notin granted
  BY <1>1, <1>2 DEF Ended, BuyOK
<1> QED
  BY <1>1, <1>3, <1>4, BuyGoesOn, ShowsAs

LEMMA GrantShows ==
    ASSUME Frame, SaleInv, SaleInv', NEW r \in Req, Grant(r) PROVE SaleMoves
<1> USE DEF Frame
<1>1. /\ call[r].op = "buy" /\ call[r].pc = "charged" /\ UNCHANGED <<item, unit>>
      /\ BuyOK(r) /\ BuyOK(r)' /\ call[r].pc \notin Ended
  BY DEF Grant, At, SaleInv, Ended
<1>2. r \in unit /\ r \notin granted
  BY <1>1 DEF BuyOK
<1>3. CASE granted' = granted \cup {r}
             /\ call' = [call EXCEPT ![r].pc = "granted", ![r].hand = 0]
  <2>1. MovesOnly(r)
    BY <1>3 DEF MovesOnly, Shaped, IsCall, Fields
  <2>2. Only(r)
    BY <1>1, <1>3, <2>1, OnlyOnes
  <2>3. RoleOf(r) = "buy" /\ SaleOf(r) = Unfinished
    BY <1>1, <1>2, BuyOpen
  <2>4. SaleOf(r)' = [state |-> "sold", paid |-> call'[r].amt] /\ call'[r].amt \in Nat \ {0}
    BY <1>1, <1>3, <2>1 DEF SaleOf, RoleOf, Amt, BuyOK, MovesOnly
  <2>5. /\ Sale!Ends(r, "buy", "sold")
        /\ SaleState'[r].paid \in Nat \ {0}
        /\ UNCHANGED Roles
    BY <2>2, <2>3, <2>4, EndsAbstractly
  <2>6. r \in InFlight /\ r \notin InFlight'
    BY <1>1, <1>2, <1>3 DEF InFlight
  <2>7. Shelf # 0 /\ Shelf' = Sale!Taken1
    BY <1>1, <2>2, <2>6, ShelfTaken
  <2>8. Sale!Sell(r)
    BY <2>5, <2>7 DEF Sale!Sell
  <2> QED
    BY <2>5, <2>8, ShowsAs
<1>4. CASE Goto(r, "refund") /\ UNCHANGED granted
  <2>1. MovesOnly(r) /\ call'[r].pc = "refund"
    BY <1>4, GotoMoves
  <2>2. Only(r) /\ call'[r].pc \notin Ended
    BY <1>1, <1>4, <2>1, OnlyOnes DEF Ended
  <2> QED
    BY <1>1, <1>2, <1>4, <2>2, BuyGoesOn, ShowsAs
<1> QED
  BY <1>3, <1>4 DEF Grant

LEMMA UnwindShows ==
    ASSUME Frame, SaleInv, SaleInv', NEW r \in Req, RestoreStock(r) PROVE SaleMoves
<1> USE DEF Frame
<1>1. /\ call[r].op = "buy" /\ call[r].pc = "unclaim" /\ UNCHANGED granted
      /\ BuyOK(r) /\ call[r].pc \notin Ended
  BY DEF RestoreStock, At, SaleInv, Ended
<1>2. /\ r \in unit /\ r \notin granted /\ call[r].owed \in BOOLEAN
      /\ call[r].owed \/ call[r].hand = 0
  BY <1>1 DEF BuyOK
<1>3. CASE item' = Restored /\ Goto(r, "refused")
             /\ unit' = IF item = Gone THEN unit ELSE unit \ {r}
  <2>1. MovesOnly(r) /\ call'[r].pc = "refused" /\ call'[r].hand = call[r].hand
        /\ call'[r].owed = call[r].owed
    BY <1>3, GotoMoves
  <2>2. Only(r)
    <3>1. CASE unit' = unit
      BY <1>1, <2>1, <3>1, OnlyOnes
    <3>2. CASE unit' = unit \ {r}
      BY <1>1, <2>1, <3>2, OnlyOnes
    <3> QED
      BY <1>3, <3>1, <3>2
  <2>3. r \in InFlight /\ r \notin InFlight'
    BY <1>1, <1>2, <2>1 DEF InFlight, Ended
  <2>4. CASE item = Gone
    <3>1. UNCHANGED item /\ unit' = unit
      BY <1>3, <2>4 DEF Restored
    <3>2. SaleOf(r)' = [state |-> "lost", paid |-> call'[r].hand] /\ call'[r].hand \in Nat
      <4>1. BuyOK(r)' /\ call'[r].op = "buy"
        BY <1>1, <2>1 DEF SaleInv, MovesOnly
      <4>2. r \in unit' /\ r \notin granted'
        BY <1>1, <1>2, <3>1
      <4> QED
        BY <2>1, <4>1, <4>2 DEF RoleOf, SaleOf, Ungranted, Torn, BuyOK, Ended
    <3>3. RoleOf(r) = "buy" /\ SaleOf(r) = Unfinished
      BY <1>1, <1>2, BuyOpen
    <3>4. /\ Sale!Ends(r, "buy", "lost")
          /\ SaleState'[r].paid \in Nat
          /\ UNCHANGED Roles
      BY <2>2, <3>2, <3>3, EndsAbstractly
    <3>5. Shelf' = Sale!Taken1
      BY <2>2, <2>3, <3>1, ShelfTaken
    <3> QED
      BY <3>4, <3>5, ShowsAs DEF Sale!Lose
  <2>5. CASE item # Gone
    <3>1. unit' = unit \ {r} /\ ItemShape(item)
      BY <1>3, <2>5 DEF SaleInv, ItemOK
    <3>2. /\ Cardinality(InFlight') = Cardinality(InFlight) - 1
          /\ Cardinality(InFlight) > 0
      BY <2>2, <2>3, FlightMoves
    <3>3. item.stock \in Int /\ item'.stock = IF item.stock >= 0 THEN item.stock + 1 ELSE item.stock
      BY <1>3, <2>5, <3>1 DEF ItemShape, Restored
    <3>4. Shelf' = Shelf
      BY <3>2, <3>3, FlightFinite DEF Shelf
    <3>5. CASE call[r].owed
      <4>1. SaleOf(r)' = [state |-> "lost", paid |-> call'[r].hand] /\ call'[r].hand \in Nat
        <5>1. BuyOK(r)' /\ call'[r].op = "buy" /\ call'[r].owed
          BY <1>1, <2>1, <3>5 DEF SaleInv, MovesOnly
        <5>2. r \notin granted'
          BY <1>1, <1>2
        <5> QED
          BY <2>1, <5>1, <5>2 DEF RoleOf, SaleOf, Ungranted, Torn, BuyOK, Ended
      <4>2. RoleOf(r) = "buy" /\ SaleOf(r) = Unfinished
        BY <1>1, <1>2, BuyOpen
      <4>3. /\ Sale!Ends(r, "buy", "lost")
            /\ SaleState'[r].paid \in Nat
            /\ UNCHANGED Roles
        BY <2>2, <4>1, <4>2, EndsAbstractly
      <4> QED
        BY <3>4, <4>3, ShowsAs DEF Sale!Lose
    <3>6. CASE ~call[r].owed
      <4>1. call'[r].hand = 0 /\ ~call'[r].owed /\ r \notin unit' /\ r \notin granted'
        BY <1>1, <1>2, <2>1, <3>1, <3>6
      <4> QED
        BY <1>1, <1>2, <2>1, <2>2, <3>4, <4>1, BuyRefused, ShowsAs
    <3> QED
      BY <3>5, <3>6
  <2> QED
    BY <2>4, <2>5
<1>4. CASE /\ call' = [call EXCEPT ![r].pc = "refused", ![r].owed = TRUE]
           /\ UNCHANGED <<item, unit>>
  <2>1. MovesOnly(r)
    BY <1>4 DEF MovesOnly, Shaped, IsCall, Fields
  <2>2. call'[r].pc = "refused" /\ call'[r].owed = TRUE
    BY <1>4 DEF Shaped, IsCall, Fields
  <2>3. Only(r) /\ call'[r].pc \in Ended
    BY <1>1, <1>4, <2>1, <2>2, OnlyOnes DEF Ended
  <2> QED
    BY <1>1, <1>2, <1>4, <2>2, <2>3, BuyLost, ShowsAs
<1> QED
  BY <1>3, <1>4 DEF RestoreStock

LEMMA RestShows ==
    ASSUME Frame, SaleInv, SaleInv', NEW r \in Req, RecordPurchase(r) \/ StoreDie(r)
    PROVE  SaleMoves
<1> USE DEF Frame
<1>1. /\ call[r].op = "buy" /\ call[r].pc \notin Ended /\ UNCHANGED <<item, unit, granted>>
      /\ BuyOK(r)
  BY DEF RecordPurchase, StoreDie, Die, Cut, At, SaleInv, storeVars, Ended
<1>2. \/ call[r].pc = "granted" /\ Goto(r, "done")
      \/ Goto(r, "dead")
  BY DEF RecordPurchase, StoreDie, Die, Cut, At
<1>3. MovesOnly(r) /\ call'[r].pc \in Ended /\ call'[r].amt = call[r].amt
  BY <1>2, GotoMoves DEF Ended
<1>4. Only(r)
  BY <1>1, <1>3, OnlyOnes
<1>5. CASE r \in granted
  <2>1. SaleOf(r)' = SaleOf(r)
    BY <1>1, <1>3, <1>5 DEF SaleOf, RoleOf, Amt, MovesOnly
  <2>2. r \in InFlight' <=> r \in InFlight
    BY <1>1, <1>5 DEF InFlight
  <2> QED
    BY <1>1, <1>4, <2>1, <2>2, ShelfKept, QuietStep, ShowsAs
<1>6. CASE r \notin granted
  <2>1. call'[r].pc = "dead"
    BY <1>1, <1>2, <1>6, GotoMoves DEF BuyOK
  <2> QED
    BY <1>1, <1>3, <1>4, <1>6, <2>1, BuyLost, ShowsAs
<1> QED
  BY <1>5, <1>6

LEMMA EditShows ==
    ASSUME Frame, SaleInv, SaleInv', NEW r \in Req,
           EditOpen(r) \/ EditSave(r) \/ DeleteItem(r)
    PROVE  SaleMoves
<1> USE DEF Frame
<1>1. /\ call[r].op \in {"edit", "delete"} /\ UNCHANGED <<unit, granted>>
      /\ call[r].pc # "done"
  BY DEF EditOpen, EditSave, DeleteItem, At, storeVars
<1>2. r \notin unit
  BY <1>1 DEF SaleInv
<1>3. RoleOf(r) = "edit" /\ SaleOf(r) = Unfinished
  BY <1>1 DEF RoleOf, SaleOf, Unfinished
<1>4. CASE EditOpen(r)
  <2> DEFINE a == [c \in DOMAIN item |->
                     IF c \in DOMAIN call[r].arg THEN call[r].arg[c] ELSE item[c]]
  <2>1. call' = [call EXCEPT ![r].pc = "form", ![r].arg = a]
    BY <1>4 DEF EditOpen, Shaped, IsCall, Fields
  <2> HIDE DEF a
  <2>2. MovesOnly(r)
    BY <2>1 DEF MovesOnly, Shaped, IsCall, Fields
  <2>3. call'[r].pc = "form"
    BY <2>1 DEF Shaped, IsCall, Fields
  <2>4. Only(r) /\ UNCHANGED item
    BY <1>1, <1>4, <2>2, OnlyOnes DEF EditOpen, storeVars
  <2>5. SaleOf(r)' = SaleOf(r)
    BY <1>1, <2>2, <2>3 DEF MovesOnly, RoleOf, SaleOf
  <2>6. r \in InFlight' <=> r \in InFlight
    BY <1>1, <1>2 DEF InFlight
  <2> QED
    BY <2>4, <2>5, <2>6, ShelfKept, QuietStep, ShowsAs
<1>5. CASE EditSave(r) \/ DeleteItem(r)
  <2>1. MovesOnly(r) /\ call'[r].pc = "done"
    BY <1>5, GotoMoves DEF EditSave, DeleteItem
  <2>2. Only(r)
    BY <1>1, <2>1, OnlyOnes
  <2>3. SaleOf(r)' = [state |-> "saved", paid |-> 0]
    BY <1>1, <2>1 DEF MovesOnly, RoleOf, SaleOf
  <2>4. /\ Sale!Ends(r, "edit", "saved")
        /\ SaleState'[r].paid = 0
        /\ UNCHANGED Roles
    BY <1>3, <2>2, <2>3, EndsAbstractly
  <2>5. Shelf' \in Int
    <3>1. item'.stock \in Int
      BY DEF SaleInv, ItemOK, ItemShape, Gone
    <3>2. InFlight' = InFlight
      <4>1. r \in InFlight' <=> r \in InFlight
        BY <1>1, <1>2 DEF InFlight
      <4> QED
        BY <2>2, <4>1, FlightMoves
    <3> QED
      BY <3>1, <3>2, FlightFinite DEF Shelf
  <2> QED
    BY <2>4, <2>5, ShowsAs DEF Sale!Stock
<1> QED
  BY <1>4, <1>5

(* The requests of the other plugins, and the moves between them, show      *)
(* nothing.                                                                 *)
LEMMA OthersShow ==
    ASSUME Frame, SaleInv, [Next]_vars, ~StoreNext
    PROVE  Quiet
<1>1. UNCHANGED <<item, unit, granted>> /\ Others(SaleOps)
      /\ \A s \in Req : call'[s].op = call[s].op
  BY Foreign DEF storeVars
<1>2. \A s \in unit : s \in Req /\ call'[s] = call[s]
  BY <1>1 DEF SaleInv, Others, SaleOps
<1>3. InFlight' = InFlight
  BY <1>1, <1>2 DEF InFlight
<1>4. Shelf' = Shelf
  BY <1>1, <1>3 DEF Shelf
<1>5. ASSUME NEW s \in Req PROVE RoleOf(s)' = RoleOf(s) /\ SaleOf(s)' = SaleOf(s)
  <2>1. RoleOf(s)' = RoleOf(s)
    BY <1>1 DEF RoleOf
  <2>2. CASE call[s].op \in SaleOps
    <3>1. call'[s] = call[s]
      BY <1>1, <2>2 DEF Others
    <3> QED
      BY <1>1, <2>1, <3>1 DEF SaleOf, Ungranted, Torn, Amt
  <2>3. CASE call[s].op \notin SaleOps
    BY <1>1, <2>3 DEF RoleOf, SaleOf, SaleOps
  <2> QED
    BY <2>1, <2>2, <2>3
<1> QED
  BY <1>4, <1>5 DEF Quiet, Mapped, Roles, SaleState

LEMMA SaleBegins == ASSUME Init PROVE Sale!Init
<1>1. Frame /\ SaleInv
  BY InitFrame, SaleInit
<1>2. unit = {} /\ granted = {}
  BY DEF Init, StoreInit
<1>3. \A r \in Req : call[r].pc = "start"
  <2>1. PICK p \in Plans : call = p
    BY DEF Init, PointsInit, HandlersInit
  <2>2. call = [r \in Req |-> Request(p[r].op, p[r].who, p[r].arg, p[r].amt)]
    BY <2>1, PointsAssumption
  <2> QED
    BY <2>2 DEF Request
<1>4. \A r \in Req : RoleOf(r) \in {"buy", "edit", "none"}
  BY DEF RoleOf
<1>5. \A r \in Req : SaleOf(r) = Unfinished
  BY <1>2, <1>3 DEF SaleOf, Ungranted, Unfinished, Ended
<1>6. Shelf \in Int
  BY <1>1, ShelfInt
<1> QED
  BY <1>4, <1>5, <1>6 DEF Sale!Init, Sale!Open, Unfinished, Roles, SaleState

LEMMA SaleStep ==
    ASSUME Frame, SaleInv, SaleInv', [Next]_vars
    PROVE  Sale!Next \/ UNCHANGED Mapped
<1>1. SaleMoves
  <2>1. CASE StoreNext
    <3>1. PICK r \in Req :
            \/ BuyRead(r) \/ ClaimStock(r) \/ BuyDeduct(r) \/ Grant(r)
            \/ BuyRefund(r) \/ RestoreStock(r) \/ RecordPurchase(r)
            \/ EditOpen(r) \/ EditSave(r) \/ DeleteItem(r) \/ StoreDie(r)
      BY <2>1 DEF StoreNext
    <3> QED
      BY <3>1, ReadShows, ClaimShows, PayShows, GrantShows, UnwindShows, RestShows, EditShows
  <2>2. CASE ~StoreNext
    BY <2>2, OthersShow DEF SaleMoves
  <2> QED
    BY <2>1, <2>2
<1> QED
  BY <1>1 DEF SaleMoves, Quiet

(* The shop implements AtomicSale: a purchase shows as one step that sells, *)
(* refuses or, torn by a fault, loses, and nothing else shows at all.       *)
THEOREM SalesAreAtomic == Spec => SaleIsAtomic
<1>1. Init => Sale!Init
  BY SaleBegins
<1>2. Frame /\ SaleInv /\ SaleInv' /\ [Next]_vars =>
        [Sale!Next]_<<Roles, Shelf, SaleState>>
  BY SaleStep DEF Mapped
<1>3. Spec => Sale!Spec
  BY <1>1, <1>2, Framed, SaleInvariant, PTL DEF Spec, Sale!Spec
<1> QED
  BY <1>3, PTL DEF SaleIsAtomic

---------------------------------------------------------------------------
(* How the purchases of the shop end.                                       *)
BuyEnds(r) == call[r].op = "buy" =>
    /\ call[r].pc \in {"granted", "done"} => r \in granted /\ call[r].hand = 0
    /\ call[r].pc = "refused" /\ ~call[r].owed =>
          call[r].hand = 0 /\ (r \notin unit \/ item = Gone)

(* Where the other sales stand: what was taken is in hand until the row is  *)
(* written, and the row is written once.                                    *)
PaidOK(r) == call[r].op \in PaidOps =>
    /\ call[r].pc \in {"start", "priced", "charged", "refund", "cast", "boosted", "refused",
                       "done", "dead"}
    /\ call[r].owed \in BOOLEAN
    /\ call[r].pc \in {"start", "priced"} => call[r].hand = 0
    /\ call[r].pc \in {"start", "priced", "charged", "refund", "refused"} =>
          r \notin casts \cup boosts
    /\ call[r].pc = "refused" /\ ~call[r].owed => call[r].hand = 0
    /\ call[r].pc = "cast" => call[r].op = "cast"
    /\ call[r].pc = "boosted" => call[r].op = "boost"
    /\ call[r].pc \in {"cast", "boosted", "done"} =>
          /\ call[r].hand = 0
          /\ call[r].op = "medal" => Who(r) \in medal
          /\ call[r].op = "cast" => r \in casts
          /\ call[r].op = "boost" => r \in boosts

EndsInv ==
    /\ casts \subseteq {r \in Req : call[r].op = "cast"}
    /\ boosts \subseteq {r \in Req : call[r].op = "boost"}
    /\ \A r \in Req : BuyEnds(r) /\ PaidOK(r)

LEMMA EndsInit == ASSUME Init PROVE EndsInv
<1>1. PICK p \in Plans : call = p
  BY DEF Init, PointsInit, HandlersInit
<1>2. call = [r \in Req |-> Request(p[r].op, p[r].who, p[r].arg, p[r].amt)]
  BY <1>1, PointsAssumption
<1>3. \A r \in Req : call[r].pc = "start" /\ call[r].hand = 0 /\ call[r].owed = FALSE
  BY <1>2 DEF Request
<1>4. casts = {} /\ boosts = {}
  BY DEF Init, PaidActionsInit
<1>5. ASSUME NEW r \in Req PROVE PaidOK(r)
  <2>1. call[r].pc = "start" /\ call[r].hand = 0
    BY <1>3
  <2>2. call[r].owed \in BOOLEAN
    BY <1>3
  <2>3. r \notin casts \cup boosts
    BY <1>4
  <2> QED
    BY <2>1, <2>2, <2>3 DEF PaidOK
<1>6. ASSUME NEW r \in Req PROVE BuyEnds(r)
  BY <1>3 DEF BuyEnds
<1> QED
  BY <1>4, <1>5, <1>6 DEF EndsInv

(* The shop's steps.                                                        *)
LEMMA GoneStays == ASSUME Frame, SaleInv, [Next]_vars, item = Gone PROVE item' = Gone
<1>1. CASE StoreNext
  <2>1. PICK r \in Req :
          \/ BuyRead(r) \/ ClaimStock(r) \/ BuyDeduct(r) \/ Grant(r)
          \/ BuyRefund(r) \/ RestoreStock(r) \/ RecordPurchase(r)
          \/ EditOpen(r) \/ EditSave(r) \/ DeleteItem(r) \/ StoreDie(r)
    BY <1>1 DEF StoreNext
  <2>2. item.stock = 0
    BY DEF Gone
  <2>3. CASE ClaimStock(r) \/ RestoreStock(r)
    BY <2>2, <2>3 DEF ClaimStock, RestoreStock, Restored, Claimable
  <2>4. CASE EditOpen(r) \/ EditSave(r) \/ DeleteItem(r)
    BY <2>4 DEF EditOpen, EditSave, DeleteItem
  <2>5. CASE BuyRead(r) \/ BuyDeduct(r) \/ Grant(r) \/ BuyRefund(r) \/ RecordPurchase(r)
               \/ StoreDie(r)
    BY <2>5 DEF BuyRead, BuyDeduct, Grant, BuyRefund, RecordPurchase, StoreDie, storeVars
  <2> QED
    BY <2>1, <2>3, <2>4, <2>5
<1>2. CASE ~StoreNext
  BY <1>2, Foreign DEF storeVars
<1> QED
  BY <1>1, <1>2

LEMMA BuyerEnds ==
    ASSUME Frame, SaleInv, EndsInv, NEW r \in Req,
           BuyRead(r) \/ ClaimStock(r) \/ BuyDeduct(r) \/ Grant(r) \/ BuyRefund(r)
             \/ RestoreStock(r) \/ RecordPurchase(r) \/ StoreDie(r)
    PROVE  BuyEnds(r)' /\ MovesOnly(r) /\ (\A s \in Req \ {r} : s \in unit' <=> s \in unit)
           /\ (\A s \in Req \ {r} : s \in granted => s \in granted')
<1> USE DEF Frame
<1>1. BuyOK(r) /\ BuyEnds(r) /\ call[r].op = "buy"
  BY DEF SaleInv, EndsInv, At, BuyRead, ClaimStock, BuyDeduct, Grant, BuyRefund, RestoreStock,
     RecordPurchase, StoreDie
<1>2. ASSUME MovesOnly(r), call'[r].pc \notin {"granted", "done", "refused"}
      PROVE  BuyEnds(r)'
  BY <1>2 DEF BuyEnds
<1>3. ASSUME MovesOnly(r), call'[r].pc = "refused", r \notin unit' \/ item' = Gone,
             call'[r].hand = 0
      PROVE  BuyEnds(r)'
  BY <1>3 DEF BuyEnds
<1>4. CASE BuyRead(r)
  <2>1. call[r].pc = "start" /\ UNCHANGED <<unit, granted>>
    BY <1>4 DEF BuyRead, At, storeVars
  <2>2. CASE Goto(r, "refused")
    BY <1>1, <1>3, <2>1, <2>2, GotoMoves DEF BuyOK
  <2>3. CASE call' = [call EXCEPT ![r].pc = "priced", ![r].amt = item.cost]
    <3>1. MovesOnly(r)
      BY <2>3 DEF MovesOnly, Shaped, IsCall, Fields
    <3>2. call'[r].pc = "priced"
      BY <2>3 DEF Shaped, IsCall, Fields
    <3> QED
      BY <1>2, <2>1, <3>1, <3>2
  <2> QED
    BY <1>4, <2>2, <2>3 DEF BuyRead
<1>5. CASE ClaimStock(r)
  <2>1. call[r].pc = "priced" /\ UNCHANGED granted
    BY <1>5 DEF ClaimStock, At
  <2>2. CASE Goto(r, "refused") /\ UNCHANGED unit
    BY <1>1, <1>3, <2>1, <2>2, GotoMoves DEF BuyOK
  <2>3. CASE Goto(r, "claimed") /\ unit' = unit \cup {r}
    <3>1. MovesOnly(r) /\ call'[r].pc = "claimed"
      BY <2>3, GotoMoves
    <3> QED
      BY <1>2, <2>1, <2>3, <3>1
  <2> QED
    BY <1>5, <2>2, <2>3 DEF ClaimStock
<1>6. CASE BuyDeduct(r)
  <2>1. UNCHANGED <<unit, granted>>
    BY <1>6 DEF BuyDeduct, storeVars
  <2>2. MovesOnly(r) /\ call'[r].pc \in {"charged", "unclaim"}
    BY <1>6, DeductMoves DEF BuyDeduct
  <2> QED
    BY <1>2, <2>1, <2>2
<1>7. CASE Grant(r)
  <2>1. call[r].pc = "charged" /\ UNCHANGED unit
    BY <1>7 DEF Grant, At
  <2>2. CASE Goto(r, "refund") /\ UNCHANGED granted
    <3>1. MovesOnly(r) /\ call'[r].pc = "refund"
      BY <2>2, GotoMoves
    <3> QED
      BY <1>2, <2>1, <2>2, <3>1
  <2>3. CASE granted' = granted \cup {r}
             /\ call' = [call EXCEPT ![r].pc = "granted", ![r].hand = 0]
    <3>1. MovesOnly(r)
      BY <2>3 DEF MovesOnly, Shaped, IsCall, Fields
    <3>2. call'[r].pc = "granted" /\ call'[r].hand = 0
      BY <2>3 DEF Shaped, IsCall, Fields
    <3>3. BuyEnds(r)'
      BY <2>3, <3>2 DEF BuyEnds
    <3> QED
      BY <2>1, <2>3, <3>1, <3>3
  <2> QED
    BY <1>7, <2>2, <2>3 DEF Grant
<1>8. CASE BuyRefund(r)
  <2>1. UNCHANGED <<unit, granted>>
    BY <1>8 DEF BuyRefund, storeVars
  <2>2. MovesOnly(r) /\ call'[r].pc = "unclaim"
    BY <1>8, RefundMoves DEF BuyRefund
  <2> QED
    BY <1>2, <2>1, <2>2
<1>9. CASE RestoreStock(r)
  <2>1. call[r].pc = "unclaim" /\ UNCHANGED granted
    BY <1>9 DEF RestoreStock, At
  <2>2. call[r].owed \in BOOLEAN /\ (call[r].owed \/ call[r].hand = 0)
    BY <1>1, <2>1 DEF BuyOK
  <2>3. CASE item' = Restored /\ Goto(r, "refused")
             /\ unit' = IF item = Gone THEN unit ELSE unit \ {r}
    <3>1. MovesOnly(r) /\ call'[r].pc = "refused" /\ call'[r].hand = call[r].hand
          /\ call'[r].owed = call[r].owed
      BY <2>3, GotoMoves
    <3>2. r \notin unit' \/ item' = Gone
      BY <2>3 DEF Restored
    <3>3. \A s \in Req \ {r} : s \in unit' <=> s \in unit
      BY <2>3
    <3>4. BuyEnds(r)'
      <4>1. CASE call[r].owed
        BY <3>1, <4>1 DEF BuyEnds
      <4>2. CASE call[r].hand = 0
        BY <1>3, <3>1, <3>2, <4>2
      <4> QED
        BY <2>2, <4>1, <4>2
    <3> QED
      BY <2>1, <3>1, <3>3, <3>4
  <2>4. CASE call' = [call EXCEPT ![r].pc = "refused", ![r].owed = TRUE] /\ UNCHANGED unit
    <3>1. MovesOnly(r)
      BY <2>4 DEF MovesOnly, Shaped, IsCall, Fields
    <3>2. call'[r].pc = "refused" /\ call'[r].owed = TRUE
      BY <2>4 DEF Shaped, IsCall, Fields
    <3>3. BuyEnds(r)'
      BY <3>2 DEF BuyEnds
    <3> QED
      BY <2>1, <2>4, <3>1, <3>3
  <2> QED
    BY <1>9, <2>3, <2>4 DEF RestoreStock
<1>10. CASE RecordPurchase(r)
  <2>1. call[r].pc = "granted" /\ Goto(r, "done") /\ UNCHANGED <<unit, granted>>
    BY <1>10 DEF RecordPurchase, At, storeVars
  <2>2. MovesOnly(r) /\ call'[r].pc = "done" /\ call'[r].hand = call[r].hand
    BY <2>1, GotoMoves
  <2>3. BuyEnds(r)'
    BY <1>1, <2>1, <2>2 DEF BuyEnds
  <2> QED
    BY <2>1, <2>2, <2>3
<1>11. CASE StoreDie(r)
  <2>1. Goto(r, "dead") /\ UNCHANGED <<unit, granted>>
    BY <1>11 DEF StoreDie, Die, Cut, storeVars
  <2>2. MovesOnly(r) /\ call'[r].pc = "dead"
    BY <2>1, GotoMoves
  <2> QED
    BY <1>2, <2>1, <2>2
<1> QED
  BY <1>4, <1>5, <1>6, <1>7, <1>8, <1>9, <1>10, <1>11

(* The paid actions' steps.                                                 *)
LEMMA PayerEnds ==
    ASSUME Frame, EndsInv, NEW r \in Req,
           \/ MedalRead(r) \/ MedalDeduct(r) \/ MedalGrant(r)
           \/ CastRead(r) \/ CastDeduct(r) \/ CastWrite(r) \/ AddXP(r)
           \/ BoostDeduct(r) \/ BoostWrite(r) \/ BoostPriority(r)
           \/ PaidRefund(r) \/ PaidDie(r)
    PROVE  /\ MovesOnly(r) /\ PaidOK(r)' /\ call[r].op \in PaidOps
           /\ medal \subseteq medal'
           /\ (casts' = casts \/ (call[r].op = "cast" /\ casts' = casts \cup {r}))
           /\ (boosts' = boosts \/ (call[r].op = "boost" /\ boosts' = boosts \cup {r}))
<1> USE DEF Frame
<1>1. PaidOK(r) /\ call[r].op \in PaidOps
  BY DEF EndsInv, PaidOps, At, MedalRead, MedalDeduct, MedalGrant, CastRead, CastDeduct,
     CastWrite, AddXP, BoostDeduct, BoostWrite, BoostPriority, PaidRefund, PaidDie
<1>2. call[r].owed \in BOOLEAN
  BY <1>1 DEF PaidOK
(* Nothing is written, nothing is in hand that was not.                     *)
<1>3. ASSUME UNCHANGED paidVars, MovesOnly(r), r \notin casts \cup boosts,
             call'[r].owed \in BOOLEAN,
             \/ call'[r].pc \in {"priced", "refused"} /\ call'[r].hand = 0
             \/ call'[r].pc \in {"charged", "refund", "dead"}
             \/ call'[r].pc = "refused" /\ call'[r].owed
      PROVE  PaidOK(r)'
  <2>1. r \notin casts' \cup boosts'
    BY <1>3 DEF paidVars
  <2> QED
    BY <1>3, <2>1 DEF PaidOK
<1>4. ASSUME call[r].pc \in {"start", "priced", "charged", "refund"}
      PROVE  r \notin casts \cup boosts
  BY <1>1, <1>4 DEF PaidOK
<1>5. CASE MedalRead(r) \/ CastRead(r)
  <2>1. call[r].pc = "start" /\ UNCHANGED paidVars
    BY <1>5 DEF MedalRead, CastRead, At
  <2>2. call[r].hand = 0
    BY <1>1, <2>1 DEF PaidOK
  <2>3. MovesOnly(r) /\ call'[r].pc \in {"priced", "refused"} /\ call'[r].hand = call[r].hand
        /\ call'[r].owed = call[r].owed
    <3>1. CASE MedalRead(r)
      <4>1. Goto(r, "refused") \/ Goto(r, "priced")
        BY <3>1 DEF MedalRead
      <4> QED
        BY <4>1, GotoMoves
    <3>2. CASE CastRead(r)
      <4>1. PICK n \in {CastCost[Level(Who(r))], CastCost[0]} :
               call' = [call EXCEPT ![r].pc = "priced", ![r].amt = n]
        BY <3>2 DEF CastRead, Priced
      <4>2. MovesOnly(r)
        BY <4>1 DEF MovesOnly, Shaped, IsCall, Fields
      <4>3. call'[r].pc = "priced" /\ call'[r].hand = call[r].hand /\ call'[r].owed = call[r].owed
        BY <4>1 DEF Shaped, IsCall, Fields
      <4> QED
        BY <4>2, <4>3
    <3> QED
      BY <1>5, <3>1, <3>2
  <2>4. PaidOK(r)'
    BY <1>2, <1>3, <1>4, <2>1, <2>2, <2>3
  <2> QED
    BY <1>1, <2>1, <2>3, <2>4 DEF paidVars
<1>6. CASE MedalDeduct(r) \/ CastDeduct(r) \/ BoostDeduct(r)
  <2>1. call[r].pc \in {"start", "priced"} /\ UNCHANGED paidVars
    BY <1>6 DEF MedalDeduct, CastDeduct, BoostDeduct, At
  <2>2. call[r].hand = 0
    BY <1>1, <2>1 DEF PaidOK
  <2>3. PICK n : Deduct(r, n, "charged", "refused")
    BY <1>6 DEF MedalDeduct, CastDeduct, BoostDeduct
  <2>4. /\ MovesOnly(r) /\ call'[r].owed = call[r].owed
        /\ call'[r].pc = "charged" \/ (call'[r].pc = "refused" /\ call'[r].hand = call[r].hand)
    BY <2>3, DeductMoves
  <2>5. PaidOK(r)'
    BY <1>2, <1>3, <1>4, <2>1, <2>2, <2>4
  <2> QED
    BY <1>1, <2>1, <2>4, <2>5 DEF paidVars
<1>7. CASE MedalGrant(r) \/ CastWrite(r) \/ BoostWrite(r)
  <2>1. call[r].pc = "charged"
    BY <1>7 DEF MedalGrant, CastWrite, BoostWrite, At
  <2>2. CASE Goto(r, "refund") /\ UNCHANGED paidVars
    <3>1. MovesOnly(r) /\ call'[r].pc = "refund" /\ call'[r].owed = call[r].owed
      BY <2>2, GotoMoves
    <3>2. PaidOK(r)'
      BY <1>2, <1>3, <1>4, <2>1, <2>2, <3>1
    <3> QED
      BY <1>1, <2>2, <3>1, <3>2 DEF paidVars
  <2>3. ASSUME NEW x, Placed(r, x)
        PROVE  /\ MovesOnly(r) /\ call'[r].pc = x /\ call'[r].hand = 0
               /\ call'[r].owed = call[r].owed /\ call'[r].who = call[r].who
    <3>1. MovesOnly(r)
      BY <2>3 DEF Placed, MovesOnly, Shaped, IsCall, Fields
    <3>2. /\ call'[r].pc = x /\ call'[r].hand = 0
          /\ call'[r].owed = call[r].owed /\ call'[r].who = call[r].who
      BY <2>3 DEF Placed, Shaped, IsCall, Fields
    <3> QED
      BY <3>1, <3>2
  <2>4. CASE /\ call[r].op = "medal" /\ medal' = medal \cup {Who(r)} /\ Placed(r, "done")
             /\ UNCHANGED <<casts, boosts>>
    <3>1. /\ MovesOnly(r) /\ call'[r].pc = "done" /\ call'[r].hand = 0
          /\ call'[r].owed = call[r].owed /\ call'[r].who = call[r].who
      BY <2>3, <2>4
    <3>2. call'[r].op = "medal"
      BY <2>4, <3>1 DEF MovesOnly
    <3>3. PaidOK(r)'
      BY <1>2, <2>4, <3>1, <3>2 DEF PaidOK, Who
    <3> QED
      BY <1>1, <2>4, <3>1, <3>3
  <2>5. CASE /\ call[r].op = "cast" /\ casts' = casts \cup {r} /\ Placed(r, "cast")
             /\ UNCHANGED <<medal, boosts>>
    <3>1. /\ MovesOnly(r) /\ call'[r].pc = "cast" /\ call'[r].hand = 0
          /\ call'[r].owed = call[r].owed
      BY <2>3, <2>5
    <3>2. call'[r].op = "cast"
      BY <2>5, <3>1 DEF MovesOnly
    <3>3. PaidOK(r)'
      BY <1>2, <2>5, <3>1, <3>2 DEF PaidOK
    <3> QED
      BY <1>1, <2>5, <3>1, <3>3
  <2>6. CASE /\ call[r].op = "boost" /\ boosts' = boosts \cup {r} /\ Placed(r, "boosted")
             /\ UNCHANGED <<medal, casts>>
    <3>1. /\ MovesOnly(r) /\ call'[r].pc = "boosted" /\ call'[r].hand = 0
          /\ call'[r].owed = call[r].owed
      BY <2>3, <2>6
    <3>2. call'[r].op = "boost"
      BY <2>6, <3>1 DEF MovesOnly
    <3>3. PaidOK(r)'
      BY <1>2, <2>6, <3>1, <3>2 DEF PaidOK
    <3> QED
      BY <1>1, <2>6, <3>1, <3>3
  <2>7. CASE MedalGrant(r)
    BY <2>2, <2>4, <2>7 DEF MedalGrant, At, paidVars
  <2>8. CASE CastWrite(r)
    BY <2>2, <2>5, <2>8 DEF CastWrite, At, paidVars
  <2>9. CASE BoostWrite(r)
    BY <2>2, <2>6, <2>9 DEF BoostWrite, At, paidVars
  <2> QED
    BY <1>7, <2>7, <2>8, <2>9
<1>8. CASE AddXP(r) \/ BoostPriority(r)
  <2>1. /\ call[r].pc \in {"cast", "boosted"} /\ Goto(r, "done")
        /\ UNCHANGED <<medal, casts, boosts>>
    BY <1>8 DEF AddXP, BoostPriority, At, paidVars
  <2>2. /\ MovesOnly(r) /\ call'[r].pc = "done" /\ call'[r].hand = call[r].hand
        /\ call'[r].owed = call[r].owed /\ call'[r].who = call[r].who
    BY <2>1, GotoMoves
  <2>3. call'[r].op = call[r].op
    BY <2>2 DEF MovesOnly
  <2>4. PaidOK(r)'
    BY <1>1, <1>2, <2>1, <2>2, <2>3 DEF PaidOK, Who
  <2> QED
    BY <1>1, <2>1, <2>2, <2>4
<1>9. CASE PaidRefund(r)
  <2>1. call[r].pc = "refund" /\ Refund(r, "refused") /\ UNCHANGED paidVars
    BY <1>9 DEF PaidRefund
  <2>2. /\ MovesOnly(r) /\ call'[r].pc = "refused"
        /\ \/ call'[r].hand = 0 /\ call'[r].owed = call[r].owed
           \/ call'[r].hand = call[r].hand /\ call'[r].owed = TRUE
    BY <2>1, RefundMoves
  <2>3. PaidOK(r)'
    <3>1. CASE call'[r].hand = 0 /\ call'[r].owed = call[r].owed
      BY <1>2, <1>3, <1>4, <2>1, <2>2, <3>1
    <3>2. CASE call'[r].owed = TRUE
      BY <1>3, <1>4, <2>1, <2>2, <3>2
    <3> QED
      BY <2>2, <3>1, <3>2
  <2> QED
    BY <1>1, <2>1, <2>2, <2>3 DEF paidVars
<1>10. CASE PaidDie(r)
  <2>1. Goto(r, "dead") /\ UNCHANGED paidVars
    BY <1>10 DEF PaidDie, Die, Cut
  <2>2. MovesOnly(r) /\ call'[r].pc = "dead" /\ call'[r].owed = call[r].owed
    BY <2>1, GotoMoves
  <2>3. PaidOK(r)'
    BY <1>2, <2>2 DEF PaidOK
  <2> QED
    BY <1>1, <2>1, <2>2, <2>3 DEF paidVars
<1> QED
  BY <1>5, <1>6, <1>7, <1>8, <1>9, <1>10

LEMMA EndsNext == ASSUME Frame, SaleInv, EndsInv, [Next]_vars PROVE EndsInv'
<1>1. \A s \in Req : call'[s].op = call[s].op
  BY Foreign
<1>2. ASSUME NEW s \in Req PROVE BuyEnds(s)'
  <2>1. BuyEnds(s)
    BY DEF EndsInv
  <2>2. ASSUME call[s].op = "buy" => call'[s] = call[s],
               s \in unit' <=> s \in unit, s \in granted => s \in granted'
        PROVE  BuyEnds(s)'
    <3>1. item = Gone => item' = Gone
      BY GoneStays
    <3> QED
      BY <1>1, <2>1, <2>2, <3>1 DEF BuyEnds
  <2>3. CASE ~StoreNext
    BY <2>2, <2>3, Foreign DEF Others, SaleOps, storeVars
  <2>4. ASSUME NEW r \in Req,
               BuyRead(r) \/ ClaimStock(r) \/ BuyDeduct(r) \/ Grant(r) \/ BuyRefund(r)
                 \/ RestoreStock(r) \/ RecordPurchase(r) \/ StoreDie(r)
        PROVE  BuyEnds(s)'
    <3>1. BuyEnds(r)' /\ MovesOnly(r) /\ (\A x \in Req \ {r} : x \in unit' <=> x \in unit)
          /\ (\A x \in Req \ {r} : x \in granted => x \in granted')
      BY <2>4, BuyerEnds
    <3>2. CASE s = r
      BY <3>1, <3>2
    <3>3. CASE s # r
      BY <2>2, <3>1, <3>3 DEF MovesOnly
    <3> QED
      BY <3>2, <3>3
  <2>5. ASSUME NEW r \in Req, EditOpen(r) \/ EditSave(r) \/ DeleteItem(r)
        PROVE  BuyEnds(s)'
    <3>1. call[r].op \in {"edit", "delete"} /\ UNCHANGED <<unit, granted>>
      BY <2>5 DEF EditOpen, EditSave, DeleteItem, At, storeVars
    <3>2. \E x \in Req : MovesOnly(x) /\ \A y \in Req : call'[y] # call[y] => y = r
      BY <2>5, StoreSteps DEF Frame, StepOf, StoreNext, Goto, EditOpen, EditSave, DeleteItem,
         Shaped
    <3> QED
      BY <2>2, <3>1, <3>2
  <2> QED
    BY <2>3, <2>4, <2>5 DEF StoreNext
<1>3. CASE PaidActionsNext
  <2>1. PICK r \in Req :
           \/ MedalRead(r) \/ MedalDeduct(r) \/ MedalGrant(r)
           \/ CastRead(r) \/ CastDeduct(r) \/ CastWrite(r) \/ AddXP(r)
           \/ BoostDeduct(r) \/ BoostWrite(r) \/ BoostPriority(r)
           \/ PaidRefund(r) \/ PaidDie(r)
    BY <1>3 DEF PaidActionsNext
  <2>2. /\ MovesOnly(r) /\ PaidOK(r)' /\ call[r].op \in PaidOps
        /\ medal \subseteq medal'
        /\ (casts' = casts \/ (call[r].op = "cast" /\ casts' = casts \cup {r}))
        /\ (boosts' = boosts \/ (call[r].op = "boost" /\ boosts' = boosts \cup {r}))
    BY <2>1, PayerEnds
  <2>3. ASSUME NEW s \in Req, s # r PROVE PaidOK(s)'
    <3>1. call'[s] = call[s] /\ (s \in casts' <=> s \in casts) /\ (s \in boosts' <=> s \in boosts)
          /\ medal \subseteq medal'
      BY <2>2, <2>3 DEF MovesOnly
    <3> QED
      BY <3>1 DEF PaidOK, EndsInv, Who
  <2>4. /\ casts' \subseteq {s \in Req : call'[s].op = "cast"}
        /\ boosts' \subseteq {s \in Req : call'[s].op = "boost"}
    BY <1>1, <2>2 DEF EndsInv
  <2> QED
    BY <1>2, <2>2, <2>3, <2>4 DEF EndsInv
<1>4. CASE ~PaidActionsNext
  <2>1. UNCHANGED <<medal, casts, boosts>> /\ Others(PaidOps)
    BY <1>4, Foreign DEF paidVars
  <2>2. ASSUME NEW s \in Req PROVE PaidOK(s)'
    <3>1. CASE call[s].op \in PaidOps
      <4>1. call'[s] = call[s]
        BY <2>1, <3>1 DEF Others
      <4> QED
        BY <2>1, <4>1 DEF PaidOK, EndsInv, Who
    <3>2. CASE call[s].op \notin PaidOps
      BY <1>1, <3>2 DEF PaidOK
    <3> QED
      BY <3>1, <3>2
  <2>3. /\ casts' \subseteq {s \in Req : call'[s].op = "cast"}
        /\ boosts' \subseteq {s \in Req : call'[s].op = "boost"}
    BY <1>1, <2>1 DEF EndsInv
  <2> QED
    BY <1>2, <2>2, <2>3 DEF EndsInv
<1> QED
  BY <1>3, <1>4

LEMMA EndsHold == ASSUME SaleInv, EndsInv PROVE AllOrNothing
<1> SUFFICES ASSUME NEW r \in Req, call[r].op \in Sales, ~call[r].owed
             PROVE  /\ call[r].pc = "refused" =>
                          /\ call[r].hand = 0
                          /\ r \notin granted \cup casts \cup boosts
                          /\ r \notin unit \/ item = Gone
                    /\ call[r].pc = "done" => Bought(r) /\ call[r].hand = 0
  BY DEF AllOrNothing
<1>1. CASE call[r].op = "buy"
  <2>1. BuyEnds(r) /\ BuyOK(r) /\ r \notin casts \cup boosts
    BY <1>1 DEF SaleInv, EndsInv
  <2>2. call[r].pc = "refused" => r \notin granted
    BY <1>1, <2>1 DEF BuyOK
  <2> QED
    BY <1>1, <2>1, <2>2 DEF BuyEnds, Bought
<1>2. CASE call[r].op \in PaidOps
  <2>1. PaidOK(r) /\ r \notin unit /\ r \notin granted
    BY <1>2 DEF SaleInv, EndsInv, PaidOps
  <2> QED
    BY <1>2, <2>1 DEF PaidOK, PaidOps, Bought, At
<1> QED
  BY <1>1, <1>2 DEF Sales, PaidOps

(* A sale that was refused cost nothing and gave nothing, one that went     *)
(* through gave what was paid for, unless an unwinding call itself failed.  *)
THEOREM SalesAllOrNothing == Spec => []AllOrNothing
<1>1. Init => EndsInv
  BY EndsInit
<1>2. Frame /\ SaleInv /\ EndsInv /\ [Next]_vars => EndsInv'
  BY EndsNext
<1>3. SaleInv /\ EndsInv => AllOrNothing
  BY EndsHold
<1> QED
  BY <1>1, <1>2, <1>3, Framed, SaleInvariant, PTL DEF Spec

---------------------------------------------------------------------------
(* Pools of offers.  How a request on an offer may change in one step.       *)
Facts == {"status", "claimer", "settled", "stake"}

OfferShape(o) ==
    /\ o = [f \in Facts |-> o[f]]
    /\ o.stake \in [Member -> Nat]
    /\ o.settled \in BOOLEAN
    /\ o.settled => o.status = "delivered"

Evolves(o, p) ==
    /\ OfferShape(p)
    /\ o.status = "delivered" => p.status = "delivered"

OffersMove ==
    /\ offer' = [q \in Rid |-> offer'[q]]
    /\ \A q \in Rid : Evolves(offer[q], offer'[q])

(* A deliverer holds points only of a request it delivered.                 *)
Delivering(r) == call[r].op = "deliver" =>
    \/ call[r].hand = 0 /\ call[r].pc \notin {"settle", "refund"}
    \/ call[r].arg \in Rid /\ offer[call[r].arg].status = "delivered"

Backing(r) == call[r].op = "back" => call[r].amt \in Nat

OfferInv ==
    /\ offer = [q \in Rid |-> offer[q]]
    /\ \A q \in Rid : OfferShape(offer[q])
    /\ \A r \in Req : Delivering(r) /\ Backing(r)

LEMMA StaysSame == ASSUME NEW o, OfferShape(o) PROVE Evolves(o, o)
BY DEF Evolves, OfferShape

LEMMA NoneMoves == ASSUME OfferInv, UNCHANGED offer PROVE OffersMove
BY StaysSame DEF OfferInv, OffersMove

(* One request on an offer changes.                                         *)
LEMMA OneMoves ==
    ASSUME OfferInv, NEW q \in Rid, NEW p, offer' = [offer EXCEPT ![q] = p],
           Evolves(offer[q], p)
    PROVE  OffersMove
<1>1. offer' = [x \in Rid |-> offer'[x]]
  BY DEF OfferInv
<1>2. ASSUME NEW x \in Rid PROVE Evolves(offer[x], offer'[x])
  <2>1. CASE x = q
    BY <2>1 DEF OfferInv
  <2>2. CASE x # q
    BY <2>2, StaysSame DEF OfferInv
  <2> QED
    BY <2>1, <2>2
<1> QED
  BY <1>1, <1>2 DEF OffersMove

LEMMA OfferInit0 == ASSUME Init PROVE OfferInv
<1>1. offer = [q \in Rid |-> Unfiled]
  BY DEF Init, OfferInit
<1>2. OfferShape(Unfiled)
  BY DEF OfferShape, Unfiled, Facts
<1>3. PICK p \in Plans : call = p
  BY DEF Init, PointsInit, HandlersInit
<1>4. call = [r \in Req |-> Request(p[r].op, p[r].who, p[r].arg, p[r].amt)]
      /\ \A r \in Req : p[r].amt \in Nat
  BY <1>3, PointsAssumption
<1>5. \A r \in Req : call[r].pc = "start" /\ call[r].hand = 0 /\ call[r].amt \in Nat
  BY <1>4 DEF Request
<1> QED
  BY <1>1, <1>2, <1>5 DEF OfferInv, Delivering, Backing

(* A stake added.                                                           *)
LEMMA StakeAdded ==
    ASSUME NEW S \in [Member -> Nat], NEW m, NEW n \in Nat
    PROVE  [S EXCEPT ![m] = @ + n] \in [Member -> Nat]
<1> DEFINE T == [S EXCEPT ![m] = @ + n]
<1>1. T = [x \in Member |-> IF x = m THEN S[m] + n ELSE S[x]]
  OBVIOUS
<1> HIDE DEF T
<1>2. ASSUME NEW x \in Member PROVE T[x] \in Nat
  <2>1. S[x] \in Nat /\ S[x] + n \in Nat
    OBVIOUS
  <2>2. T[x] = S[x] + n \/ T[x] = S[x]
    BY <1>1
  <2> QED
    BY <2>1, <2>2
<1>3. T \in [Member -> Nat]
  BY <1>1, <1>2
<1> QED
  BY <1>3 DEF T

LEMMA BackedEvolves ==
    ASSUME NEW o, OfferShape(o), NEW m, NEW n \in Nat, NEW st,
           (st = "open" /\ o.status = "none") \/ st = o.status
    PROVE  /\ Evolves(o, [[o EXCEPT !.stake[m] = @ + n] EXCEPT !.status = st])
<1> DEFINE p == [[o EXCEPT !.stake[m] = @ + n] EXCEPT !.status = st]
<1>1. p = [f \in Facts |-> p[f]]
  BY DEF OfferShape, Facts
<1>2. p.status = st /\ p.settled = o.settled /\ p.stake = [o.stake EXCEPT ![m] = @ + n]
  BY DEF OfferShape, Facts
<1>3. p.stake \in [Member -> Nat]
  <2> DEFINE t == [o.stake EXCEPT ![m] = @ + n]
  <2>1. t \in [Member -> Nat]
    BY StakeAdded DEF OfferShape
  <2> HIDE DEF t
  <2>2. p.stake = t
    BY <1>2 DEF t
  <2> HIDE DEF p
  <2> QED
    BY <2>1, <2>2
<1>4. p.settled \in BOOLEAN /\ (p.settled => p.status = "delivered")
  BY <1>2 DEF OfferShape
<1> HIDE DEF p
<1>5. Evolves(o, p)
  BY <1>1, <1>2, <1>3, <1>4 DEF Evolves, OfferShape
<1> QED
  BY <1>5 DEF p

LEMMA CreateMoves ==
    ASSUME Frame, OfferInv, NEW r \in Req, CreateOrJoin(r) PROVE OffersMove
<1>1. Amt(r) \in Nat
  BY DEF CreateOrJoin, At, OfferInv, Backing, Amt
<1>2. ASSUME NEW q \in Rid, offer' = Backed(q, Who(r), Amt(r)) PROVE OffersMove
  <2> DEFINE p == [[offer[q] EXCEPT !.stake[Who(r)] = @ + Amt(r)]
                     EXCEPT !.status = offer[q].status]
  <2>1. Evolves(offer[q], p)
    BY <1>1, BackedEvolves DEF OfferInv
  <2>2. offer' = [offer EXCEPT ![q] = p]
    BY <1>2 DEF Backed, OfferInv, OfferShape, Facts
  <2> HIDE DEF p
  <2> QED
    BY <2>1, <2>2, OneMoves
<1>3. ASSUME NEW q \in Rid, offer[q].status = "none",
             offer' = [Backed(q, Who(r), Amt(r)) EXCEPT ![q].status = "open"]
      PROVE  OffersMove
  <2> DEFINE p == [[offer[q] EXCEPT !.stake[Who(r)] = @ + Amt(r)] EXCEPT !.status = "open"]
  <2>1. Evolves(offer[q], p)
    BY <1>1, <1>3, BackedEvolves DEF OfferInv
  <2>2. offer' = [offer EXCEPT ![q] = p]
    BY <1>3 DEF Backed, OfferInv
  <2> HIDE DEF p
  <2> QED
    BY <2>1, <2>2, OneMoves
<1> QED
  BY <1>2, <1>3, NoneMoves DEF CreateOrJoin

(* Any other change of a request's columns that keeps its shape.            *)
LEMMA WithdrawMoves ==
    ASSUME Frame, OfferInv, NEW r \in Req, Withdraw(r) PROVE OffersMove
<1>1. ASSUME NEW q \in Rid, NEW c, offer[q].status = "open",
             offer' = [offer EXCEPT ![q].stake[Who(r)] = 0,
                                    ![q].status = IF c THEN "cancelled" ELSE @]
      PROVE  OffersMove
  <2> DEFINE st == IF c THEN "cancelled" ELSE offer[q].status
             p  == [[offer[q] EXCEPT !.stake[Who(r)] = 0] EXCEPT !.status = st]
  <2>1. OfferShape(offer[q])
    BY DEF OfferInv
  <2>2. offer' = [offer EXCEPT ![q] = p]
    BY <1>1, <2>1 DEF OfferInv, OfferShape, Facts
  <2>3. p = [f \in Facts |-> p[f]]
    BY <2>1 DEF OfferShape, Facts
  <2>4. p.status = st /\ p.settled = offer[q].settled
        /\ p.stake = [offer[q].stake EXCEPT ![Who(r)] = 0]
    BY <2>1 DEF OfferShape, Facts
  <2>5. p.stake \in [Member -> Nat]
    <3>1. [offer[q].stake EXCEPT ![Who(r)] = 0] \in [Member -> Nat]
      BY <2>1 DEF OfferShape
    <3> QED
      BY <2>4, <3>1
  <2>6. ~p.settled /\ p.settled \in BOOLEAN
    BY <1>1, <2>1, <2>4 DEF OfferShape
  <2> HIDE DEF p, st
  <2>7. Evolves(offer[q], p)
    BY <1>1, <2>3, <2>5, <2>6 DEF Evolves, OfferShape
  <2> QED
    BY <2>2, <2>7, OneMoves
<1> QED
  BY <1>1, NoneMoves DEF Withdraw, Withdrawable

LEMMA StatusEvolves ==
    ASSUME NEW o, OfferShape(o), NEW p, o.status \in {"open", "claimed"},
           p = [f \in Facts |-> p[f]], p.settled = o.settled, p.stake = o.stake
    PROVE  Evolves(o, p)
<1>1. p = [f \in Facts |-> p[f]]
  OBVIOUS
<1>2. p.settled = o.settled /\ p.stake = o.stake
  OBVIOUS
<1>3. ~o.settled /\ o.settled \in BOOLEAN /\ o.stake \in [Member -> Nat]
  BY DEF OfferShape
<1> QED
  BY <1>1, <1>2, <1>3 DEF Evolves, OfferShape

LEMMA StatusMoves ==
    ASSUME Frame, OfferInv,
           Sweep \/ \E r \in Req : Claim(r) \/ Deliver(r) \/ Fail(r)
    PROVE  OffersMove
<1>1. ASSUME NEW q \in Rid, NEW st, NEW c, offer[q].status \in {"open", "claimed"},
             offer' = [offer EXCEPT ![q].status = st, ![q].claimer = c]
      PROVE  OffersMove
  <2> DEFINE p == [[offer[q] EXCEPT !.status = st] EXCEPT !.claimer = c]
  <2>1. offer' = [offer EXCEPT ![q] = p]
    BY <1>1 DEF OfferInv
  <2>2. /\ p = [f \in Facts |-> p[f]]
        /\ p.settled = offer[q].settled /\ p.stake = offer[q].stake
    BY DEF OfferInv, OfferShape, Facts
  <2> HIDE DEF p
  <2>3. Evolves(offer[q], p)
    BY <1>1, <2>2, StatusEvolves DEF OfferInv
  <2> QED
    BY <2>1, <2>3, OneMoves
<1>2. ASSUME NEW q \in Rid, NEW st, offer[q].status \in {"open", "claimed"},
             offer' = [offer EXCEPT ![q].status = st]
      PROVE  OffersMove
  <2> DEFINE p == [offer[q] EXCEPT !.status = st]
  <2>1. offer' = [offer EXCEPT ![q] = p]
    BY <1>2 DEF OfferInv
  <2>2. /\ p = [f \in Facts |-> p[f]]
        /\ p.settled = offer[q].settled /\ p.stake = offer[q].stake
    BY DEF OfferInv, OfferShape, Facts
  <2> HIDE DEF p
  <2>3. Evolves(offer[q], p)
    BY <1>2, <2>2, StatusEvolves DEF OfferInv
  <2> QED
    BY <2>1, <2>3, OneMoves
<1>3. CASE Sweep
  <2>1. PICK q \in Rid :
          /\ offer[q].status = "claimed"
          /\ offer' = [offer EXCEPT ![q].status = "open", ![q].claimer = Nobody]
    BY <1>3 DEF Sweep
  <2> DEFINE p == [[offer[q] EXCEPT !.status = "open"] EXCEPT !.claimer = Nobody]
  <2>2. offer' = [offer EXCEPT ![q] = p]
    BY <2>1 DEF OfferInv
  <2>3. /\ p = [f \in Facts |-> p[f]]
        /\ p.settled = offer[q].settled /\ p.stake = offer[q].stake
    BY DEF OfferInv, OfferShape, Facts
  <2> HIDE DEF p
  <2>4. OfferShape(offer[q]) /\ offer[q].status \in {"open", "claimed"}
    BY <2>1 DEF OfferInv
  <2>5. Evolves(offer[q], p)
    BY <2>3, <2>4, StatusEvolves
  <2> QED
    BY <2>2, <2>5, OneMoves
<1>4. ASSUME NEW r \in Req, Claim(r) PROVE OffersMove
  BY <1>1, <1>4, NoneMoves DEF Claim
<1>5. ASSUME NEW r \in Req, Deliver(r) PROVE OffersMove
  BY <1>2, <1>5, NoneMoves DEF Deliver, MayDeliver
<1>6. ASSUME NEW r \in Req, Fail(r) PROVE OffersMove
  BY <1>1, <1>6, NoneMoves DEF Fail, MayDeliver
<1> QED
  BY <1>3, <1>4, <1>5, <1>6

LEMMA SettleMoves ==
    ASSUME Frame, OfferInv, NEW r \in Req, Settle(r) PROVE OffersMove
<1> DEFINE q == call[r].arg
<1>1. q \in Rid /\ offer[q].status = "delivered"
  BY DEF Settle, At, OfferInv, Delivering
<1>2. UNCHANGED offer \/ offer' = [offer EXCEPT ![q].settled = TRUE]
  BY DEF Settle
<1> HIDE DEF q
<1>3. ASSUME offer' = [offer EXCEPT ![q].settled = TRUE] PROVE OffersMove
  <2> DEFINE p == [offer[q] EXCEPT !.settled = TRUE]
  <2>1. OfferShape(offer[q])
    BY <1>1 DEF OfferInv
  <2>2. p = [f \in Facts |-> p[f]]
    BY <2>1 DEF OfferShape, Facts
  <2>3. p.status = "delivered" /\ p.settled = TRUE /\ p.stake = offer[q].stake
    BY <1>1, <2>1 DEF OfferShape, Facts
  <2>4. offer' = [offer EXCEPT ![q] = p]
    BY <1>3 DEF OfferInv
  <2> HIDE DEF p
  <2>5. Evolves(offer[q], p)
    BY <1>1, <2>1, <2>2, <2>3 DEF Evolves, OfferShape
  <2> QED
    BY <1>1, <2>4, <2>5, OneMoves
<1> QED
  BY <1>2, <1>3, NoneMoves

LEMMA OffersNext == ASSUME Frame, OfferInv, [Next]_vars PROVE OffersMove
<1>1. CASE OfferNext
  <2>1. CASE Sweep
    BY <2>1, StatusMoves
  <2>2. ASSUME NEW r \in Req,
          \/ Stake(r) \/ CreateOrJoin(r) \/ BackRefund(r)
          \/ Withdraw(r) \/ WithdrawRefund(r) \/ Claim(r)
          \/ Deliver(r) \/ Settle(r) \/ PayOfferer(r) \/ Fail(r) \/ OfferDie(r)
        PROVE OffersMove
    <3>1. CASE Claim(r) \/ Deliver(r) \/ Fail(r)
      BY <3>1, StatusMoves
    <3>2. CASE CreateOrJoin(r) \/ Withdraw(r) \/ Settle(r)
      BY <3>2, CreateMoves, WithdrawMoves, SettleMoves
    <3>3. CASE Stake(r) \/ BackRefund(r) \/ WithdrawRefund(r) \/ PayOfferer(r) \/ OfferDie(r)
      BY <3>3, NoneMoves DEF Stake, BackRefund, WithdrawRefund, PayOfferer, OfferDie, offerVars
    <3> QED
      BY <2>2, <3>1, <3>2, <3>3
  <2> QED
    BY <1>1, <2>1, <2>2 DEF OfferNext
<1>2. CASE ~OfferNext
  BY <1>2, Foreign, NoneMoves DEF offerVars
<1> QED
  BY <1>1, <1>2

(* The handlers' side.                                                      *)
LEMMA HoldersKept ==
    ASSUME OfferInv, OffersMove, NEW s \in Req, call'[s] = call[s]
    PROVE  Delivering(s)' /\ Backing(s)'
<1>1. \A q \in Rid : offer[q].status = "delivered" => offer'[q].status = "delivered"
  BY DEF OffersMove, Evolves
<1>2. Delivering(s) /\ Backing(s)
  BY DEF OfferInv
<1> QED
  BY <1>1, <1>2 DEF Delivering, Backing

LEMMA HoldersMove ==
    ASSUME Frame, OfferInv, OffersMove, NEW r \in Req,
          \/ Stake(r) \/ CreateOrJoin(r) \/ BackRefund(r)
          \/ Withdraw(r) \/ WithdrawRefund(r) \/ Claim(r)
          \/ Deliver(r) \/ Settle(r) \/ PayOfferer(r) \/ Fail(r) \/ OfferDie(r)
    PROVE  MovesOnly(r) /\ Delivering(r)' /\ Backing(r)'
<1> USE DEF Frame
<1>1. \A q \in Rid : offer[q].status = "delivered" => offer'[q].status = "delivered"
  BY DEF OffersMove, Evolves
<1>2. Delivering(r) /\ Backing(r)
  BY DEF OfferInv
<1>3. CASE Stake(r)
  <2>1. call[r].op = "back" /\ Deduct(r, call[r].amt, "charged", "refused")
    BY <1>3 DEF Stake, At, Amt
  <2> QED
    BY <1>2, <2>1, DeductMoves DEF MovesOnly, Delivering, Backing
<1>4. CASE CreateOrJoin(r)
  <2>1. call[r].op = "back"
    BY <1>4 DEF CreateOrJoin, At
  <2>2. CASE call' = [call EXCEPT ![r].pc = "done", ![r].hand = 0]
    <3>1. MovesOnly(r)
      BY <2>2 DEF MovesOnly, Shaped, IsCall, Fields
    <3>2. call'[r].amt = call[r].amt
      BY <2>2 DEF Shaped, IsCall, Fields
    <3> QED
      BY <1>2, <2>1, <3>1, <3>2 DEF MovesOnly, Delivering, Backing
  <2>3. CASE Goto(r, "refund")
    BY <1>2, <2>1, <2>3, GotoMoves DEF MovesOnly, Delivering, Backing
  <2> QED
    BY <1>4, <2>2, <2>3 DEF CreateOrJoin
<1>5. CASE BackRefund(r)
  <2>1. call[r].op = "back" /\ Refund(r, "refused")
    BY <1>5 DEF BackRefund, At
  <2> QED
    BY <1>2, <2>1, RefundMoves DEF MovesOnly, Delivering, Backing
<1>6. CASE Withdraw(r) \/ WithdrawRefund(r) \/ Claim(r) \/ Fail(r)
  <2>1. call[r].op \in {"withdraw", "claim", "fail"}
    BY <1>6 DEF Withdraw, WithdrawRefund, Claim, Fail, At
  <2>2. MovesOnly(r)
    <3>1. CASE WithdrawRefund(r)
      BY <3>1, RefundMoves DEF WithdrawRefund
    <3>2. CASE Claim(r) \/ Fail(r)
      BY <3>2, GotoMoves DEF Claim, Fail
    <3>3. CASE Withdraw(r)
      <4>1. \/ Goto(r, "refused")
            \/ \E n : call' = [call EXCEPT ![r].pc = "refund", ![r].hand = n]
        BY <3>3 DEF Withdraw
      <4>2. ASSUME NEW n, call' = [call EXCEPT ![r].pc = "refund", ![r].hand = n]
            PROVE MovesOnly(r)
        BY <4>2 DEF MovesOnly, Shaped, IsCall, Fields
      <4> QED
        BY <4>1, <4>2, GotoMoves
    <3> QED
      BY <1>6, <3>1, <3>2, <3>3
  <2> QED
    BY <2>1, <2>2 DEF MovesOnly, Delivering, Backing
<1>7. CASE Deliver(r)
  <2>1. call[r].op = "deliver" /\ call[r].pc = "start"
    BY <1>7 DEF Deliver, At
  <2>2. CASE Goto(r, "refused")
    <3>1. MovesOnly(r) /\ call'[r].pc = "refused" /\ call'[r].hand = call[r].hand
          /\ call'[r].arg = call[r].arg
      BY <2>2, GotoMoves
    <3> QED
      BY <1>1, <1>2, <2>1, <3>1 DEF MovesOnly, Delivering, Backing
  <2>3. ASSUME NEW q \in Rid, MayDeliver(q, Who(r)),
               offer' = [offer EXCEPT ![q].status = "delivered"],
               call' = [call EXCEPT ![r].pc = "settle", ![r].arg = q]
        PROVE  MovesOnly(r) /\ Delivering(r)' /\ Backing(r)'
    <3>1. MovesOnly(r)
      BY <2>3 DEF MovesOnly, Shaped, IsCall, Fields
    <3>2. call'[r].arg = q
      BY <2>3 DEF Shaped, IsCall, Fields
    <3>3. offer'[q].status = "delivered"
      BY <2>3 DEF OfferInv, OfferShape, Facts
    <3> QED
      BY <2>1, <3>1, <3>2, <3>3 DEF MovesOnly, Delivering, Backing
  <2> QED
    BY <1>7, <2>2, <2>3 DEF Deliver
<1>8. CASE Settle(r)
  <2>1. call[r].op = "deliver" /\ call[r].arg \in Rid
        /\ offer[call[r].arg].status = "delivered"
    BY <1>2, <1>8 DEF Settle, At, Delivering
  <2>2. MovesOnly(r) /\ call'[r].arg = call[r].arg
    <3>1. \/ Goto(r, "done")
          \/ \E n : call' = [call EXCEPT ![r].pc = "refund", ![r].hand = n]
          \/ call' = [call EXCEPT ![r].pc = "done", ![r].owed = TRUE]
      BY <1>8 DEF Settle
    <3>2. ASSUME NEW n, call' = [call EXCEPT ![r].pc = "refund", ![r].hand = n]
          PROVE MovesOnly(r) /\ call'[r].arg = call[r].arg
      BY <3>2 DEF MovesOnly, Shaped, IsCall, Fields
    <3>3. ASSUME call' = [call EXCEPT ![r].pc = "done", ![r].owed = TRUE]
          PROVE MovesOnly(r) /\ call'[r].arg = call[r].arg
      BY <3>3 DEF MovesOnly, Shaped, IsCall, Fields
    <3> QED
      BY <3>1, <3>2, <3>3, GotoMoves
  <2> QED
    BY <1>1, <2>1, <2>2 DEF MovesOnly, Delivering, Backing
<1>9. CASE PayOfferer(r)
  <2>1. call[r].op = "deliver" /\ call[r].pc = "refund" /\ Refund(r, "done")
    BY <1>9 DEF PayOfferer, At
  <2>2. call[r].arg \in Rid /\ offer[call[r].arg].status = "delivered"
    BY <1>2, <2>1 DEF Delivering
  <2> QED
    BY <1>1, <2>1, <2>2, RefundMoves DEF MovesOnly, Delivering, Backing
<1>10. CASE OfferDie(r)
  <2>1. Goto(r, "dead")
    BY <1>10 DEF OfferDie, Die, Cut
  <2>2. MovesOnly(r) /\ call'[r].pc = "dead" /\ call'[r].arg = call[r].arg
        /\ call'[r].hand = call[r].hand /\ call'[r].amt = call[r].amt
    BY <2>1, GotoMoves
  <2>3. call'[r].op = call[r].op
    BY <2>2 DEF MovesOnly
  <2> QED
    BY <1>1, <1>2, <2>2, <2>3 DEF Delivering, Backing
<1> QED
  BY <1>3, <1>4, <1>5, <1>6, <1>7, <1>8, <1>9, <1>10

LEMMA OfferInvNext == ASSUME Frame, OfferInv, [Next]_vars PROVE OfferInv'
<1>1. OffersMove
  BY OffersNext
<1>2. offer' = [q \in Rid |-> offer'[q]] /\ \A q \in Rid : OfferShape(offer[q])'
  BY <1>1 DEF OffersMove, Evolves, OfferShape
<1>3. ASSUME NEW s \in Req PROVE Delivering(s)' /\ Backing(s)'
  <2>1. CASE UNCHANGED call
    BY <1>1, <2>1, HoldersKept
  <2>2. CASE OfferNext /\ ~UNCHANGED call
    <3>1. PICK r \in Req :
            \/ Stake(r) \/ CreateOrJoin(r) \/ BackRefund(r)
            \/ Withdraw(r) \/ WithdrawRefund(r) \/ Claim(r)
            \/ Deliver(r) \/ Settle(r) \/ PayOfferer(r) \/ Fail(r) \/ OfferDie(r)
      BY <2>2 DEF OfferNext, Sweep, pointsVars
    <3>2. MovesOnly(r) /\ Delivering(r)' /\ Backing(r)'
      BY <1>1, <3>1, HoldersMove
    <3>3. CASE s = r
      BY <3>2, <3>3
    <3>4. CASE s # r
      BY <1>1, <3>2, <3>4, HoldersKept DEF MovesOnly
    <3> QED
      BY <3>3, <3>4
  <2>3. CASE ~OfferNext
    <3>1. CASE call[s].op \in OfferOps
      BY <1>1, <2>3, <3>1, Foreign, HoldersKept DEF Others
    <3>2. CASE call[s].op \notin OfferOps
      BY <3>2, Foreign DEF OfferOps, Delivering, Backing
    <3> QED
      BY <3>1, <3>2
  <2> QED
    BY <2>1, <2>2, <2>3
<1> QED
  BY <1>2, <1>3 DEF OfferInv

(* Who pays for a delivered request: what PaidForDelivery says of one.       *)
PaidOnce(q) ==
    /\ offer[q].status # "delivered" => Deliverers(q) = {}
    /\ offer[q].status = "delivered" => \E r \in Req :
          Deliverers(q) = {r} /\ Who(r) = offer[q].claimer /\ PoolWith(r, q)

(* Where a call of /deliver may be; before it asks it holds nothing.         *)
Phase(r) == call[r].op = "deliver" =>
    /\ call[r].pc \in {"start", "settle", "refund", "done", "dead", "refused"}
    /\ call[r].pc = "start" => call[r].hand = 0

PoolInv ==
    /\ \A q \in Rid : PaidOnce(q)
    /\ \A r \in Req : Phase(r)

(* Most steps touch no delivered request, and deliver none.                  *)
NoDelivery == \A q \in Rid :
    IF offer[q].status = "delivered" THEN offer'[q] = offer[q]
    ELSE offer'[q].status # "delivered"

LEMMA OneOther ==
    ASSUME NEW q \in Rid, offer[q].status # "delivered", offer'[q].status # "delivered",
           \A x \in Rid \ {q} : offer'[x] = offer[x]
    PROVE  NoDelivery
BY DEF NoDelivery

LEMMA MostDeliverNone ==
    ASSUME OfferInv,
           \/ UNCHANGED offer \/ Sweep
           \/ \E r \in Req : CreateOrJoin(r) \/ Withdraw(r) \/ Claim(r) \/ Fail(r)
    PROVE  NoDelivery
<1>1. offer = [q \in Rid |-> offer[q]] /\ \A q \in Rid : OfferShape(offer[q])
  BY DEF OfferInv
<1>2. CASE UNCHANGED offer
  BY <1>2 DEF NoDelivery
<1>3. ASSUME NEW q \in Rid, NEW st, NEW c, offer[q].status # "delivered", st # "delivered",
             offer' = [offer EXCEPT ![q].status = st, ![q].claimer = c]
      PROVE  NoDelivery
  <2>1. offer'[q].status = st /\ \A x \in Rid \ {q} : offer'[x] = offer[x]
    BY <1>1, <1>3 DEF OfferShape, Facts
  <2> QED
    BY <1>3, <2>1, OneOther
<1>4. ASSUME NEW r \in Req, CreateOrJoin(r) PROVE NoDelivery
  <2>1. ASSUME NEW q \in Rid, Live(q), offer' = Backed(q, Who(r), Amt(r))
        PROVE  NoDelivery
    <3>1. offer'[q].status = offer[q].status /\ \A x \in Rid \ {q} : offer'[x] = offer[x]
      BY <1>1, <2>1 DEF Backed, OfferShape, Facts
    <3> QED
      BY <2>1, <3>1, OneOther DEF Live
  <2>2. ASSUME NEW q \in Rid, offer[q].status = "none",
               offer' = [Backed(q, Who(r), Amt(r)) EXCEPT ![q].status = "open"]
        PROVE  NoDelivery
    <3>1. offer'[q].status = "open" /\ \A x \in Rid \ {q} : offer'[x] = offer[x]
      BY <1>1, <2>2 DEF Backed, OfferShape, Facts
    <3> QED
      BY <2>2, <3>1, OneOther
  <2> QED
    BY <1>2, <1>4, <2>1, <2>2 DEF CreateOrJoin
<1>5. ASSUME NEW r \in Req, Withdraw(r) PROVE NoDelivery
  <2>1. ASSUME NEW q \in Rid, NEW c, offer[q].status = "open",
               offer' = [offer EXCEPT ![q].stake[Who(r)] = 0,
                                      ![q].status = IF c THEN "cancelled" ELSE @]
        PROVE  NoDelivery
    <3>1. offer'[q].status \in {"open", "cancelled"}
          /\ \A x \in Rid \ {q} : offer'[x] = offer[x]
      BY <1>1, <2>1 DEF OfferShape, Facts
    <3> QED
      BY <2>1, <3>1, OneOther
  <2> QED
    BY <1>2, <1>5, <2>1 DEF Withdraw, Withdrawable
<1>6. ASSUME NEW r \in Req, Claim(r) PROVE NoDelivery
  BY <1>2, <1>3, <1>6 DEF Claim
<1>7. ASSUME NEW r \in Req, Fail(r) PROVE NoDelivery
  BY <1>2, <1>3, <1>7 DEF Fail, MayDeliver
<1>8. CASE Sweep
  BY <1>3, <1>8 DEF Sweep
<1> QED
  BY <1>2, <1>4, <1>5, <1>6, <1>7, <1>8

(* A step that delivers nothing and moves no call of /deliver.               *)
LEMMA PayKept ==
    ASSUME PoolInv, NoDelivery, \A s \in Req : call'[s].op = call[s].op, Others({"deliver"})
    PROVE  PoolInv'
<1>1. ASSUME NEW q \in Rid PROVE PaidOnce(q)'
  <2>1. PaidOnce(q)
    BY DEF PoolInv
  <2>2. Deliverers(q)' = Deliverers(q)
    BY DEF Deliverers, Others
  <2>3. CASE offer[q].status # "delivered"
    BY <2>1, <2>2, <2>3 DEF PaidOnce, NoDelivery
  <2>4. CASE offer[q].status = "delivered"
    <3>1. offer'[q] = offer[q]
      BY <2>4 DEF NoDelivery
    <3>2. PICK r \in Req :
            Deliverers(q) = {r} /\ Who(r) = offer[q].claimer /\ PoolWith(r, q)
      BY <2>1, <2>4 DEF PaidOnce
    <3>3. call'[r] = call[r]
      BY <3>2 DEF Deliverers, Others
    <3>4. Who(r)' = offer'[q].claimer /\ PoolWith(r, q)'
      BY <3>1, <3>2, <3>3 DEF Who, PoolWith, Pool
    <3> QED
      BY <2>2, <2>4, <3>1, <3>2, <3>4 DEF PaidOnce
  <2> QED
    BY <2>3, <2>4
<1>2. \A r \in Req : Phase(r)'
  BY DEF PoolInv, Phase, Others
<1> QED
  BY <1>1, <1>2 DEF PoolInv

(* A delivery: the one who held the claim, and nobody else, goes on to pay.  *)
LEMMA DeliverPays ==
    ASSUME Frame, OfferInv, PoolInv, NEW r \in Req, Deliver(r) PROVE PoolInv'
<1> USE DEF Frame
<1>1. call[r].op = "deliver" /\ call[r].pc = "start" /\ call[r].hand = 0
  BY DEF Deliver, At, PoolInv, Phase
<1>2. CASE Goto(r, "refused") /\ UNCHANGED offer
  <2>1. MovesOnly(r) /\ call'[r].pc = "refused"
    BY <1>2, GotoMoves
  <2>2. ASSUME NEW q \in Rid PROVE PaidOnce(q)'
    <3>1. PaidOnce(q) /\ r \notin Deliverers(q) /\ Deliverers(q)' = Deliverers(q)
      BY <1>1, <2>1 DEF PoolInv, Deliverers, MovesOnly
    <3>2. ASSUME NEW s \in Req, Deliverers(q) = {s} PROVE call'[s] = call[s]
      BY <2>1, <3>1, <3>2 DEF MovesOnly
    <3> QED
      BY <1>2, <3>1, <3>2 DEF PaidOnce, PoolWith, Pool, Who
  <2>3. \A s \in Req : Phase(s)'
    BY <2>1 DEF PoolInv, Phase, MovesOnly
  <2> QED
    BY <2>2, <2>3 DEF PoolInv
<1>3. ASSUME NEW p \in Rid, MayDeliver(p, Who(r)),
             offer' = [offer EXCEPT ![p].status = "delivered"],
             call' = [call EXCEPT ![r].pc = "settle", ![r].arg = p]
      PROVE  PoolInv'
  <2>1. MovesOnly(r)
    BY <1>3 DEF MovesOnly, Shaped, IsCall, Fields
  <2>2. /\ call'[r].op = "deliver" /\ call'[r].pc = "settle" /\ call'[r].arg = p
        /\ call'[r].who = call[r].who /\ call'[r].hand = 0
    BY <1>1, <1>3 DEF Shaped, IsCall, Fields
  <2>3. /\ offer'[p].status = "delivered" /\ offer'[p].claimer = offer[p].claimer
        /\ offer'[p].settled = offer[p].settled
        /\ \A x \in Rid \ {p} : offer'[x] = offer[x]
    BY <1>3 DEF OfferInv, OfferShape, Facts
  <2>4. offer[p].status = "claimed" /\ offer[p].claimer = Who(r) /\ offer[p].settled = FALSE
    BY <1>3 DEF MayDeliver, OfferInv, OfferShape
  <2>5. ASSUME NEW q \in Rid, q # p PROVE PaidOnce(q)'
    <3>1. PaidOnce(q) /\ offer'[q] = offer[q]
      BY <2>3, <2>5 DEF PoolInv
    <3>2. r \notin Deliverers(q) /\ Deliverers(q)' = Deliverers(q)
      BY <1>1, <2>1, <2>2, <2>5 DEF Deliverers, MovesOnly
    <3>3. ASSUME NEW s \in Req, Deliverers(q) = {s} PROVE call'[s] = call[s]
      BY <2>1, <3>2, <3>3 DEF MovesOnly
    <3> QED
      BY <3>1, <3>2, <3>3 DEF PaidOnce, PoolWith, Pool, Who
  <2>6. PaidOnce(p)'
    <3>1. Deliverers(p) = {}
      BY <2>4 DEF PoolInv, PaidOnce
    <3>2. Deliverers(p)' = {r}
      BY <2>1, <2>2, <3>1 DEF Deliverers, MovesOnly
    <3>3. Who(r)' = offer'[p].claimer /\ PoolWith(r, p)'
      BY <2>2, <2>3, <2>4 DEF Who, PoolWith
    <3> QED
      BY <2>3, <3>2, <3>3 DEF PaidOnce
  <2>7. \A s \in Req : Phase(s)'
    BY <2>1, <2>2 DEF PoolInv, Phase, MovesOnly
  <2> QED
    BY <2>5, <2>6, <2>7 DEF PoolInv
<1> QED
  BY <1>2, <1>3 DEF Deliver

(* The calls that follow a delivery: they are of the one call that pays.     *)
LEMMA PayStep ==
    ASSUME OfferInv, PoolInv, NEW r \in Req, NEW q \in Rid, r \in Deliverers(q),
           MovesOnly(r), call'[r].arg = q, call'[r].who = call[r].who,
           call'[r].pc \in {"settle", "refund", "done", "dead"},
           \A x \in Rid \ {q} : offer'[x] = offer[x],
           offer'[q].status = offer[q].status, offer'[q].claimer = offer[q].claimer,
           PoolWith(r, q)'
    PROVE  PoolInv'
<1>1. call[r].op = "deliver" /\ call[r].arg = q
  BY DEF Deliverers
<1>2. ASSUME NEW x \in Rid PROVE Deliverers(x)' = Deliverers(x)
  BY <1>1 DEF Deliverers, MovesOnly
<1>3. ASSUME NEW x \in Rid, x # q PROVE PaidOnce(x)'
  <2>1. PaidOnce(x) /\ offer'[x] = offer[x] /\ r \notin Deliverers(x)
    BY <1>1, <1>3 DEF PoolInv, Deliverers
  <2>2. ASSUME NEW s \in Req, Deliverers(x) = {s} PROVE call'[s] = call[s]
    BY <2>1, <2>2 DEF MovesOnly
  <2> QED
    BY <1>2, <2>1, <2>2 DEF PaidOnce, PoolWith, Pool, Who
<1>4. PaidOnce(q)'
  <2>1. offer[q].status = "delivered" /\ Deliverers(q) = {r} /\ Who(r) = offer[q].claimer
    BY DEF PoolInv, PaidOnce
  <2> QED
    BY <1>2, <2>1 DEF PaidOnce, Who
<1>5. \A s \in Req : Phase(s)'
  BY DEF PoolInv, Phase, MovesOnly
<1> QED
  BY <1>3, <1>4, <1>5 DEF PoolInv

LEMMA SettlePays ==
    ASSUME Frame, OfferInv, PoolInv, NEW r \in Req, Settle(r) PROVE PoolInv'
<1> USE DEF Frame
<1>1. PICK q \in Rid : /\ q = call[r].arg /\ r \in Deliverers(q)
                       /\ call[r].op = "deliver" /\ call[r].pc = "settle"
  BY DEF Settle, At, OfferInv, Delivering, Deliverers
<1>2. /\ Deliverers(q) = {r} /\ PoolWith(r, q)
  BY <1>1 DEF PoolInv, PaidOnce
<1>3. ~call[r].owed => ~offer[q].settled /\ call[r].hand = 0
  BY <1>1, <1>2 DEF PoolWith
<1>4. /\ offer = [x \in Rid |-> offer[x]] /\ OfferShape(offer[q])
  BY <1>1 DEF OfferInv
<1>5. CASE Goto(r, "done") /\ UNCHANGED offer /\ (offer[q].settled \/ Pool(q) = 0)
  <2>1. /\ MovesOnly(r) /\ call'[r].pc = "done" /\ call'[r].arg = q
        /\ call'[r].who = call[r].who
        /\ call'[r].hand = call[r].hand /\ call'[r].owed = call[r].owed
    BY <1>1, <1>5, GotoMoves
  <2>2. PoolWith(r, q)'
    BY <1>3, <1>5, <2>1 DEF PoolWith, Pool
  <2> QED
    BY <1>1, <1>5, <2>1, <2>2, PayStep
<1>6. CASE /\ offer' = [offer EXCEPT ![q].settled = TRUE]
           /\ call' = [call EXCEPT ![r].pc = "refund", ![r].hand = Pool(q)]
  <2>1. MovesOnly(r)
    BY <1>6 DEF MovesOnly, Shaped, IsCall, Fields
  <2>2. /\ call'[r].pc = "refund" /\ call'[r].arg = q /\ call'[r].who = call[r].who
        /\ call'[r].hand = Pool(q)
    BY <1>1, <1>6 DEF Shaped, IsCall, Fields
  <2>3. /\ offer'[q].settled = TRUE /\ offer'[q].stake = offer[q].stake
        /\ offer'[q].status = offer[q].status /\ offer'[q].claimer = offer[q].claimer
        /\ \A x \in Rid \ {q} : offer'[x] = offer[x]
    BY <1>1, <1>4, <1>6 DEF OfferShape, Facts
  <2>4. PoolWith(r, q)'
    BY <2>2, <2>3 DEF PoolWith, Pool
  <2> QED
    BY <1>1, <2>1, <2>2, <2>3, <2>4, PayStep
<1>7. CASE call' = [call EXCEPT ![r].pc = "done", ![r].owed = TRUE] /\ UNCHANGED offer
  <2>1. MovesOnly(r)
    BY <1>7 DEF MovesOnly, Shaped, IsCall, Fields
  <2>2. /\ call'[r].pc = "done" /\ call'[r].arg = q /\ call'[r].who = call[r].who
        /\ call'[r].owed
    BY <1>1, <1>7 DEF Shaped, IsCall, Fields
  <2>3. PoolWith(r, q)'
    BY <2>2 DEF PoolWith
  <2> QED
    BY <1>1, <1>7, <2>1, <2>2, <2>3, PayStep
<1> QED
  BY <1>1, <1>5, <1>6, <1>7 DEF Settle

LEMMA PayoutPays ==
    ASSUME Frame, OfferInv, PoolInv, NEW r \in Req,
           PayOfferer(r) \/ (OfferDie(r) /\ call[r].op = "deliver")
    PROVE  PoolInv'
<1> USE DEF Frame
<1>1. /\ call[r].op = "deliver" /\ call[r].pc \in {"settle", "refund"}
      /\ UNCHANGED offer
  BY DEF PayOfferer, OfferDie, Die, Cut, At, Ended, offerVars, PoolInv, Phase
<1>2. PICK q \in Rid : q = call[r].arg /\ r \in Deliverers(q)
  BY <1>1 DEF OfferInv, Delivering, Deliverers
<1>3. /\ MovesOnly(r) /\ call'[r].arg = q /\ call'[r].who = call[r].who
      /\ call'[r].pc \in {"done", "dead"} /\ PoolWith(r, q)'
  <2>1. CASE PayOfferer(r)
    <3>1. call[r].pc = "refund" /\ Refund(r, "done")
      BY <2>1 DEF PayOfferer, At
    <3>2. PoolWith(r, q) /\ Pool(q)' = Pool(q)
      <4>1. PoolWith(r, q)
        BY <1>2 DEF PoolInv, PaidOnce
      <4> QED
        BY <1>1, <4>1 DEF Pool
    <3> QED
      BY <1>1, <1>2, <3>1, <3>2, RefundMoves DEF PoolWith
  <2>2. CASE OfferDie(r)
    <3>1. Goto(r, "dead")
      BY <2>2 DEF OfferDie, Die, Cut
    <3> QED
      BY <1>2, <3>1, GotoMoves DEF PoolWith
  <2> QED
    BY <2>1, <2>2
<1> QED
  BY <1>1, <1>2, <1>3, PayStep

LEMMA PoolInvNext == ASSUME Frame, OfferInv, PoolInv, [Next]_vars PROVE PoolInv'
<1> USE DEF Frame
<1>1. \A s \in Req : call'[s].op = call[s].op
  BY Foreign
<1>2. CASE OfferNext
  <2>1. CASE Sweep
    <3>1. Others({"deliver"})
      BY <2>1 DEF Sweep, pointsVars, Others
    <3> QED
      BY <1>1, <2>1, <3>1, MostDeliverNone, PayKept
  <2>2. ASSUME NEW r \in Req,
          \/ Stake(r) \/ CreateOrJoin(r) \/ BackRefund(r)
          \/ Withdraw(r) \/ WithdrawRefund(r) \/ Claim(r)
          \/ Deliver(r) \/ Settle(r) \/ PayOfferer(r) \/ Fail(r) \/ OfferDie(r)
        PROVE PoolInv'
    <3>1. CASE Deliver(r)
      BY <3>1, DeliverPays
    <3>2. CASE Settle(r)
      BY <3>2, SettlePays
    <3>3. CASE PayOfferer(r) \/ (OfferDie(r) /\ call[r].op = "deliver")
      BY <3>3, PayoutPays
    <3>4. CASE \/ Stake(r) \/ CreateOrJoin(r) \/ BackRefund(r) \/ Withdraw(r)
               \/ WithdrawRefund(r) \/ Claim(r) \/ Fail(r)
               \/ (OfferDie(r) /\ call[r].op # "deliver")
      <4>1. call[r].op # "deliver"
        BY <3>4 DEF Stake, CreateOrJoin, BackRefund, Withdraw, WithdrawRefund, Claim, Fail, At
      <4>2. MovesOnly(r)
        <5>1. OffersMove
          BY OffersNext
        <5> QED
          BY <2>2, <5>1, HoldersMove
      <4>3. Others({"deliver"})
        BY <4>1, <4>2 DEF Others, MovesOnly
      <4>4. NoDelivery
        <5>1. \/ UNCHANGED offer
              \/ CreateOrJoin(r) \/ Withdraw(r) \/ Claim(r) \/ Fail(r)
          BY <3>4 DEF Stake, BackRefund, WithdrawRefund, OfferDie, offerVars
        <5> QED
          BY <5>1, MostDeliverNone
      <4> QED
        BY <1>1, <4>3, <4>4, PayKept
    <3> QED
      BY <2>2, <3>1, <3>2, <3>3, <3>4
  <2> QED
    BY <1>2, <2>1, <2>2 DEF OfferNext
<1>3. CASE ~OfferNext
  <2>1. UNCHANGED offer /\ Others({"deliver"})
    BY <1>3, Foreign DEF offerVars, Others, OfferOps
  <2> QED
    BY <1>1, <2>1, MostDeliverNone, PayKept
<1> QED
  BY <1>2, <1>3

LEMMA PoolInvInit == ASSUME Init PROVE PoolInv
<1>1. offer = [q \in Rid |-> Unfiled]
  BY DEF Init, OfferInit
<1>2. PICK p \in Plans : call = p
  BY DEF Init, PointsInit, HandlersInit
<1>3. call = [r \in Req |-> Request(p[r].op, p[r].who, p[r].arg, p[r].amt)]
  BY <1>2, PointsAssumption
<1>4. \A r \in Req : call[r].pc = "start" /\ call[r].hand = 0
  BY <1>3 DEF Request
<1> QED
  BY <1>1, <1>4 DEF PoolInv, PaidOnce, Deliverers, Phase, Unfiled

(* One call of /deliver pays for a delivered request, of the member who held *)
(* its claim, the whole pool, and none pays for any other; whatever claims   *)
(* run out, change hands or are retried, and wherever calls fail or end.     *)
THEOREM PoolsPaidForDelivery == Spec => []PaidForDelivery
<1>1. Init => OfferInv /\ PoolInv
  BY OfferInit0, PoolInvInit
<1>2. Frame /\ OfferInv /\ PoolInv /\ [Next]_vars => OfferInv' /\ PoolInv'
  BY OfferInvNext, PoolInvNext
<1>3. OfferInv /\ PoolInv => PaidForDelivery
  BY DEF OfferInv, OfferShape, PoolInv, PaidOnce, PaidForDelivery
<1> QED
  BY <1>1, <1>2, <1>3, Framed, PTL DEF Spec

---------------------------------------------------------------------------
(* The daily streak.                                                        *)
RowShape(d) ==
    /\ d = [f \in {"last", "streak"} |-> d[f]]
    /\ d.last \in Int /\ d.streak \in Nat

(* Each of the k days behind a streak has its claim.                        *)
Backed1(m, d, taken) ==
    \A k \in 1..d.streak : \E a \in taken : a[1] = m /\ a[2] = d.last - k + 1

Claiming(r) == call[r].op = "daily" =>
    /\ call[r].who \in Member
    /\ call[r].pc \in {"dated", "unlocked"} => call[r].arg \in Int

DailyInv ==
    /\ daily = [m \in Member |-> daily[m]] /\ today \in Int
    /\ \A m \in Member : RowShape(daily[m]) /\ Backed1(m, daily[m], awards)
    /\ \A r \in Req : Claiming(r)

LEMMA DailyInit0 == ASSUME Init PROVE DailyInv
<1>1. /\ daily = [m \in Member |-> IF m \in Claimed
                                 THEN [last |-> FirstDay - 1, streak |-> 1]
                                 ELSE [last |-> 0, streak |-> 0]]
      /\ awards = {<<m, FirstDay - 1, "before">> : m \in Claimed}
      /\ today = FirstDay
  BY DEF Init, DailyInit
<1>2. FirstDay \in Int
  BY DailyAssumption
<1>3. ASSUME NEW m \in Member PROVE RowShape(daily[m]) /\ Backed1(m, daily[m], awards)
  <2>1. CASE m \in Claimed
    <3>1. daily[m] = [last |-> FirstDay - 1, streak |-> 1]
      BY <1>1, <2>1
    <3>2. daily[m].last = FirstDay - 1 /\ daily[m].streak = 1
      BY <3>1
    <3>3. RowShape(daily[m])
      BY <1>2, <3>1 DEF RowShape
    <3>4. <<m, FirstDay - 1, "before">> \in awards
      BY <1>1, <2>1
    <3>5. ASSUME NEW k \in 1..daily[m].streak
          PROVE  \E a \in awards : a[1] = m /\ a[2] = daily[m].last - k + 1
      <4>1. k = 1 /\ daily[m].last - k + 1 = FirstDay - 1
        BY <1>2, <3>2, <3>5
      <4> QED
        BY <3>4, <4>1
    <3> QED
      BY <3>3, <3>5 DEF Backed1
  <2>2. CASE m \notin Claimed
    <3>1. daily[m] = [last |-> 0, streak |-> 0]
      BY <1>1, <2>2
    <3> QED
      BY <3>1 DEF RowShape, Backed1
  <2> QED
    BY <2>1, <2>2
<1>4. ASSUME NEW r \in Req PROVE Claiming(r)
  <2>1. PICK p \in Plans : call = p
    BY DEF Init, PointsInit, HandlersInit
  <2>2. call = [x \in Req |-> Request(p[x].op, p[x].who, p[x].arg, p[x].amt)]
        /\ p[r].who \in Member
    BY <2>1, PointsAssumption
  <2>3. call[r].pc = "start" /\ call[r].who \in Member
    BY <2>2 DEF Request
  <2> QED
    BY <2>3 DEF Claiming
<1> QED
  BY <1>1, <1>2, <1>3, <1>4 DEF DailyInv

(* A claim that is taken: a new row, and its award.                         *)
LEMMA ClaimBacked ==
    ASSUME NEW m, NEW taken, NEW row, RowShape(row), Backed1(m, row, taken),
           NEW day \in Int, NEW r,
           NEW d, d = [last |-> day, streak |-> NextStreak(row, day)]
    PROVE  RowShape(d) /\ Backed1(m, d, taken \cup {<<m, day, r>>})
<1>1. d.last = day /\ d.streak = NextStreak(row, day)
  OBVIOUS
<1>2. row.last \in Int /\ row.streak \in Nat
  BY DEF RowShape
<1>3. d.streak \in Nat
  BY <1>1, <1>2 DEF NextStreak
<1>4. RowShape(d)
  BY <1>1, <1>3 DEF RowShape
<1>5. ASSUME NEW k \in 1..d.streak
      PROVE  \E a \in taken \cup {<<m, day, r>>} : a[1] = m /\ a[2] = d.last - k + 1
  <2>0. k \in Int /\ k >= 1 /\ k <= d.streak
    BY <1>3, <1>5
  <2>1. CASE k = 1
    <3>1. d.last - k + 1 = day
      BY <1>1, <2>1
    <3>2. <<m, day, r>>[1] = m /\ <<m, day, r>>[2] = d.last - k + 1
      BY <3>1
    <3> QED
      BY <3>2, Zenon
  <2>2. CASE k # 1
    <3>1. row.last = day - 1 /\ d.streak = row.streak + 1
      BY <1>1, <1>2, <2>0, <2>2 DEF NextStreak
    <3>2. k - 1 \in 1..row.streak
      BY <1>2, <2>0, <2>2, <3>1
    <3>3. PICK a \in taken : a[1] = m /\ a[2] = row.last - (k - 1) + 1
      BY <3>2 DEF Backed1
    <3>4. row.last - (k - 1) + 1 = d.last - k + 1
      BY <1>1, <2>0, <3>1
    <3> QED
      BY <3>3, <3>4
  <2> QED
    BY <2>1, <2>2
<1> QED
  BY <1>4, <1>5 DEF Backed1

(* A member whose row stays keeps his awards.                               *)
LEMMA StillBacked ==
    ASSUME NEW m, NEW d, NEW taken, NEW more, taken \subseteq more, Backed1(m, d, taken)
    PROVE  Backed1(m, d, more)
BY DEF Backed1

LEMMA TakenKeeps ==
    ASSUME Frame, DailyInv, NEW r \in Req, call[r].op = "daily",
           NEW row, row = daily[Who(r)] \/ row = [last |-> 0, streak |-> 0],
           NEW day \in Int, Taken(r, row, day)
    PROVE  /\ MovesOnly(r) /\ Claiming(r)' /\ daily' = [m \in Member |-> daily'[m]]
           /\ \A m \in Member : RowShape(daily'[m]) /\ Backed1(m, daily'[m], awards')
<1> USE DEF Frame
<1> DEFINE k == NextStreak(row, day)
           d == [last |-> day, streak |-> k]
           x == RewardFor[k]
<1>1. /\ daily' = [daily EXCEPT ![Who(r)] = d]
      /\ awards' = awards \cup {<<Who(r), day, r>>}
      /\ call' = [call EXCEPT ![r].pc = "taken", ![r].amt = x]
  BY DEF Taken
<1>2. Who(r) \in Member
  BY DEF Who, DailyInv, Claiming
<1>3. RowShape(row) /\ Backed1(Who(r), row, awards)
  <2>1. CASE row = daily[Who(r)]
    BY <1>2, <2>1 DEF DailyInv
  <2>2. CASE row = [last |-> 0, streak |-> 0]
    BY <2>2 DEF RowShape, Backed1
  <2> QED
    BY <2>1, <2>2
<1>4. RowShape(d) /\ Backed1(Who(r), d, awards')
  BY <1>1, <1>3, ClaimBacked
<1> HIDE DEF k, d, x
<1>5. MovesOnly(r)
  BY <1>1 DEF MovesOnly, Shaped, IsCall, Fields
<1>6. call'[r].pc = "taken" /\ call'[r].who = call[r].who
  BY <1>1 DEF Shaped, IsCall, Fields
<1>7. Claiming(r)'
  BY <1>2, <1>6 DEF Claiming, Who
<1>8. ASSUME NEW m \in Member PROVE RowShape(daily'[m]) /\ Backed1(m, daily'[m], awards')
  <2>1. CASE m = Who(r)
    <3>1. daily'[m] = d
      BY <1>1, <1>2, <2>1 DEF DailyInv
    <3> QED
      BY <1>4, <2>1, <3>1
  <2>2. CASE m # Who(r)
    <3>1. daily'[m] = daily[m] /\ awards \subseteq awards'
      BY <1>1, <2>2 DEF DailyInv
    <3> QED
      BY <3>1, StillBacked DEF DailyInv
  <2> QED
    BY <2>1, <2>2
<1>9. daily' = [m \in Member |-> daily'[m]]
  BY <1>1 DEF DailyInv
<1> QED
  BY <1>5, <1>7, <1>8, <1>9

LEMMA DailyMoves ==
    ASSUME Frame, DailyInv, NEW r \in Req,
           \/ DailyStart(r) \/ ClaimLocked(r) \/ ClaimUnlocked(r)
           \/ Upsert(r) \/ DailyAward(r) \/ DailyDie(r)
    PROVE  /\ MovesOnly(r) /\ Claiming(r)' /\ daily' = [m \in Member |-> daily'[m]]
           /\ today' = today
           /\ \A m \in Member : RowShape(daily'[m]) /\ Backed1(m, daily'[m], awards')
<1> USE DEF Frame
<1>1. call[r].op = "daily" /\ Claiming(r) /\ call[r].who \in Member
  BY DEF DailyStart, ClaimLocked, ClaimUnlocked, Upsert, DailyAward, DailyDie, At, DailyInv,
     Claiming
<1>2. ASSUME UNCHANGED <<today, daily, awards>>, MovesOnly(r),
             call'[r].who = call[r].who,
             call'[r].pc \in {"dated", "unlocked"} => call'[r].arg \in Int
      PROVE  /\ MovesOnly(r) /\ Claiming(r)' /\ daily' = [m \in Member |-> daily'[m]]
             /\ today' = today
             /\ \A m \in Member : RowShape(daily'[m]) /\ Backed1(m, daily'[m], awards')
  <2>1. Claiming(r)'
    BY <1>1, <1>2 DEF Claiming
  <2> QED
    BY <1>2, <2>1 DEF DailyInv
<1>3. CASE DailyStart(r)
  <2>1. call' = [call EXCEPT ![r].pc = "dated", ![r].arg = today]
        /\ UNCHANGED <<today, daily, awards>>
    BY <1>3 DEF DailyStart, dailyVars
  <2>2. MovesOnly(r)
    BY <2>1 DEF MovesOnly, Shaped, IsCall, Fields
  <2>3. call'[r].who = call[r].who /\ call'[r].arg = today
    BY <2>1 DEF Shaped, IsCall, Fields
  <2> QED
    BY <1>2, <2>1, <2>2, <2>3 DEF DailyInv
<1>4. CASE ClaimUnlocked(r)
  <2>1. Goto(r, "unlocked") /\ UNCHANGED <<today, daily, awards>> /\ call[r].pc = "dated"
    BY <1>4 DEF ClaimUnlocked, dailyVars, At
  <2>2. call[r].arg \in Int
    BY <1>1, <2>1 DEF Claiming
  <2> QED
    BY <1>2, <2>1, <2>2, GotoMoves
<1>5. CASE ClaimLocked(r)
  <2>1. call[r].pc = "dated" /\ UNCHANGED today
    BY <1>5 DEF ClaimLocked, At
  <2>2. call[r].arg \in Int
    BY <1>1, <2>1 DEF Claiming
  <2>3. CASE Goto(r, "refused") /\ UNCHANGED <<daily, awards>>
    BY <1>2, <2>1, <2>3, GotoMoves
  <2>4. CASE Taken(r, daily[Who(r)], call[r].arg)
    BY <1>1, <2>1, <2>2, <2>4, TakenKeeps
  <2> QED
    BY <1>5, <2>3, <2>4 DEF ClaimLocked
<1>6. CASE Upsert(r)
  <2>1. call[r].pc = "unlocked" /\ UNCHANGED today
        /\ Taken(r, [last |-> 0, streak |-> 0], call[r].arg)
    BY <1>6 DEF Upsert, At
  <2>2. call[r].arg \in Int
    BY <1>1, <2>1 DEF Claiming
  <2> QED
    BY <1>1, <2>1, <2>2, TakenKeeps
<1>7. CASE DailyAward(r)
  <2>1. UNCHANGED <<today, daily, awards>>
    BY <1>7 DEF DailyAward
  <2>2. CASE Goto(r, "done")
    BY <1>2, <2>1, <2>2, GotoMoves
  <2>3. CASE call' = [call EXCEPT ![r].pc = "done", ![r].owed = TRUE]
    <3>1. MovesOnly(r)
      BY <2>3 DEF MovesOnly, Shaped, IsCall, Fields
    <3>2. call'[r].who = call[r].who /\ call'[r].pc = "done"
      BY <2>3 DEF Shaped, IsCall, Fields
    <3> QED
      BY <1>2, <2>1, <3>1, <3>2
  <2> QED
    BY <1>7, <2>2, <2>3 DEF DailyAward
<1>8. CASE DailyDie(r)
  <2>1. Goto(r, "dead") /\ UNCHANGED <<today, daily, awards>>
    BY <1>8 DEF DailyDie, Die, Cut, dailyVars
  <2> QED
    BY <1>2, <2>1, GotoMoves
<1> QED
  BY <1>3, <1>4, <1>5, <1>6, <1>7, <1>8

LEMMA DailyInvNext == ASSUME Frame, DailyInv, [Next]_vars PROVE DailyInv'
<1>1. CASE UNCHANGED <<daily, awards, call>> /\ today' \in {today, today + 1}
  BY <1>1 DEF DailyInv, Claiming
<1>2. ASSUME NEW r \in Req,
             \/ DailyStart(r) \/ ClaimLocked(r) \/ ClaimUnlocked(r)
             \/ Upsert(r) \/ DailyAward(r) \/ DailyDie(r)
      PROVE  DailyInv'
  <2>1. /\ MovesOnly(r) /\ Claiming(r)' /\ daily' = [m \in Member |-> daily'[m]]
        /\ today' = today
        /\ \A m \in Member : RowShape(daily'[m]) /\ Backed1(m, daily'[m], awards')
    BY <1>2, DailyMoves
  <2>2. \A s \in Req \ {r} : Claiming(s)'
    BY <2>1 DEF MovesOnly, Claiming, DailyInv
  <2> QED
    BY <2>1, <2>2 DEF DailyInv
<1>3. CASE ~DailyNext
  <2>1. UNCHANGED <<today, daily, awards>>
    BY <1>3, Foreign DEF dailyVars
  <2>2. ASSUME NEW s \in Req PROVE Claiming(s)'
    <3>1. CASE call[s].op = "daily"
      BY <1>3, <3>1, Foreign DEF Others, Claiming, DailyInv
    <3>2. CASE call[s].op # "daily"
      BY <3>2, Foreign DEF Claiming
    <3> QED
      BY <3>1, <3>2
  <2> QED
    BY <2>1, <2>2 DEF DailyInv
<1>4. CASE Midnight
  BY <1>1, <1>4 DEF Midnight, pointsVars
<1> QED
  BY <1>2, <1>3, <1>4 DEF DailyNext

(* A streak of k stands for k claims on k days in a row, however requests   *)
(* cross midnight, race or repeat.                                          *)
THEOREM StreaksAreHonest == Spec => []StreakHonest
<1>1. Init => DailyInv
  BY DailyInit0
<1>2. Frame /\ DailyInv /\ [Next]_vars => DailyInv'
  BY DailyInvNext
<1>3. DailyInv => StreakHonest
  BY DEF DailyInv, Backed1, StreakHonest
<1> QED
  BY <1>1, <1>2, <1>3, Framed, PTL DEF Spec

---------------------------------------------------------------------------
(* The pot.  A pot's row may only go from open to closed, its total only up, *)
(* and points leave it only for the one who closed it.                      *)
LEMMA MinIsMember == ASSUME NEW S \in SUBSET Nat, S # {} PROVE Min(S) \in S
<1>1. IsWellFoundedOn(OpToRel(<, Nat), Nat)
  BY NatLessThanWellFounded
<1>2. PICK x \in S : \A y \in S : <<y, x>> \notin OpToRel(<, Nat)
  BY <1>1, WFMin
<1>3. \A y \in S : x <= y
  <2> SUFFICES ASSUME NEW y \in S, y < x PROVE FALSE
    OBVIOUS
  <2>1. <<y, x>> \in OpToRel(<, Nat)
    BY DEF OpToRel
  <2> QED
    BY <2>1, <1>2
<1> QED
  BY <1>3 DEF Min

Columns == {"status", "total", "gave", "winner", "paid"}

PotShape(p) ==
    /\ p = [f \in Columns |-> p[f]]
    /\ p.total \in Nat /\ p.paid \in Nat
    /\ p.paid * 100 <= p.total * PotWinPct
    /\ p.status \in {"none", "open"} => p.paid = 0

(* A donor knows a pot, has seen at most its total, and draws of a pot that *)
(* is closed and unpaid.                                                    *)
Donating(r) == call[r].op = "donate" =>
    /\ call[r].amt \in Nat
    /\ call[r].pc \in {"found", "allowed", "charged", "inserted", "full", "draw"} =>
          call[r].arg \in Cycle
    /\ call[r].pc \in {"full", "draw"} => call[r].amt <= pot[call[r].arg].total
    /\ call[r].pc = "draw" => /\ pot[call[r].arg].status = "closed"
                              /\ pot[call[r].arg].paid = 0

Draws(r) == call[r].op = "donate" /\ call[r].pc = "draw"

PotInv ==
    /\ pot = [c \in Cycle |-> pot[c]]
    /\ \A c \in Cycle : PotShape(pot[c])
    /\ \A r \in Req : Donating(r)
    /\ \A r, s \in Req : r # s /\ Draws(r) /\ Draws(s) => call[r].arg # call[s].arg

LEMMA PotInit0 == ASSUME Init PROVE PotInv
<1>1. pot = [c \in Cycle |-> NoCycle]
  BY DEF Init, PotInit
<1>2. PotShape(NoCycle)
  <2>1. NoCycle = [f \in Columns |-> NoCycle[f]]
    BY DEF NoCycle, Columns
  <2>2. NoCycle.total = 0 /\ NoCycle.paid = 0
    BY DEF NoCycle
  <2>3. 0 * 100 <= 0 * PotWinPct
    BY PotAssumption
  <2> QED
    BY <2>1, <2>2, <2>3 DEF PotShape
<1>3. \A r \in Req : call[r].pc = "start" /\ call[r].amt \in Nat
  <2>1. PICK p \in Plans : call = p
    BY DEF Init, PointsInit, HandlersInit
  <2>2. call = [r \in Req |-> Request(p[r].op, p[r].who, p[r].arg, p[r].amt)]
        /\ \A r \in Req : p[r].amt \in Nat
    BY <2>1, PointsAssumption
  <2> QED
    BY <2>2 DEF Request
<1>4. ASSUME NEW r \in Req PROVE Donating(r) /\ ~Draws(r)
  BY <1>3 DEF Donating, Draws
<1> QED
  BY <1>1, <1>2, <1>4 DEF PotInv

(* How one pot may change under the donors that do not draw of it.          *)
Grows(p, q) ==
    /\ PotShape(q)
    /\ q.total >= p.total
    /\ p.status = "closed" => q.status = "closed" /\ q.paid = p.paid

LEMMA GrowsSame == ASSUME NEW p, PotShape(p) PROVE Grows(p, p)
BY DEF Grows, PotShape

(* A step of r that leaves every pot growing keeps the others' knowledge.   *)
LEMMA PotKept ==
    ASSUME PotInv, NEW r \in Req, MovesOnly(r),
           pot' = [c \in Cycle |-> pot'[c]],
           \A c \in Cycle : PotShape(pot'[c]),
           \A c \in Cycle : Grows(pot[c], pot'[c]) \/ (Draws(r) /\ c = call[r].arg
                                                        /\ pot'[c].total >= pot[c].total),
           Donating(r)',
           Draws(r)' => call[r].pc = "full" /\ call'[r].arg = call[r].arg
                        /\ pot[call[r].arg].status = "open"
    PROVE  PotInv'
<1>1. \A s \in Req \ {r} : call'[s] = call[s]
  BY DEF MovesOnly
<1>2. ASSUME NEW s \in Req, s # r PROVE Donating(s)'
  <2> SUFFICES ASSUME call[s].op = "donate" PROVE Donating(s)'
    BY <1>1, <1>2 DEF Donating
  <2>1. Donating(s)
    BY DEF PotInv
  <2>2. /\ call[s].amt \in Nat
        /\ call[s].pc \in {"found", "allowed", "charged", "inserted", "full", "draw"} =>
              call[s].arg \in Cycle
    BY <2>1 DEF Donating
  <2>3. ASSUME call[s].pc \in {"full", "draw"}
        PROVE  call[s].amt <= pot'[call[s].arg].total
    <3> DEFINE c == call[s].arg
    <3>1. c \in Cycle /\ call[s].amt <= pot[c].total
      BY <2>1, <2>3 DEF Donating
    <3>2. pot'[c].total >= pot[c].total /\ pot'[c].total \in Nat /\ pot[c].total \in Nat
      BY <3>1 DEF Grows, PotShape, PotInv
    <3> HIDE DEF c
    <3>3. call[s].amt <= pot'[c].total
      BY <2>2, <3>1, <3>2
    <3> QED
      BY <3>3 DEF c
  <2>4. ASSUME call[s].pc = "draw"
        PROVE  pot'[call[s].arg].status = "closed" /\ pot'[call[s].arg].paid = 0
    <3> DEFINE c == call[s].arg
    <3>1. c \in Cycle /\ pot[c].status = "closed" /\ pot[c].paid = 0
      BY <2>1, <2>4 DEF Donating
    <3>2. ~(Draws(r) /\ c = call[r].arg)
      BY <1>2, <2>4 DEF PotInv, Draws
    <3>3. Grows(pot[c], pot'[c])
      BY <3>1, <3>2
    <3> QED
      BY <3>1, <3>3 DEF Grows
  <2> QED
    BY <1>1, <1>2, <2>2, <2>3, <2>4 DEF Donating
<1>3. ASSUME NEW s \in Req, NEW t \in Req, s # t, Draws(s)', Draws(t)'
      PROVE  call'[s].arg # call'[t].arg
  <2>1. ASSUME NEW x \in Req, x # r, Draws(x)', Draws(r)'
        PROVE  call'[x].arg # call'[r].arg
    <3>1. Draws(x) /\ call'[x] = call[x]
      BY <1>1, <2>1 DEF Draws
    <3>2. pot[call[x].arg].status = "closed"
      BY <3>1 DEF Draws, Donating, PotInv
    <3> QED
      BY <2>1, <3>1, <3>2
  <2>2. CASE s # r /\ t # r
    BY <1>1, <1>3, <2>2 DEF PotInv, Draws
  <2> QED
    BY <1>3, <2>1, <2>2
<1>4. \A s \in Req : Donating(s)'
  BY <1>2
<1> QED
  BY <1>3, <1>4 DEF PotInv

(* No pot changes.                                                          *)
LEMMA PotSame ==
    ASSUME PotInv, NEW r \in Req, MovesOnly(r), UNCHANGED pot, Donating(r)', ~Draws(r)'
    PROVE  PotInv'
<1>1. pot' = [c \in Cycle |-> pot'[c]] /\ \A c \in Cycle : PotShape(pot'[c])
  BY DEF PotInv
<1>2. \A c \in Cycle : Grows(pot[c], pot'[c])
  BY GrowsSame DEF PotInv
<1> QED
  BY <1>1, <1>2, PotKept

(* One pot changes.                                                         *)
LEMMA PotOne ==
    ASSUME PotInv, NEW c \in Cycle, NEW p, pot' = [pot EXCEPT ![c] = p], PotShape(p),
           p.total >= pot[c].total, NEW B, Grows(pot[c], p) \/ B
    PROVE  /\ pot' = [d \in Cycle |-> pot'[d]]
           /\ \A d \in Cycle : PotShape(pot'[d]) /\ pot'[d].total >= pot[d].total
           /\ \A d \in Cycle : Grows(pot[d], pot'[d]) \/ (B /\ d = c)
<1>1. pot' = [d \in Cycle |-> pot'[d]]
  BY DEF PotInv
<1>2. ASSUME NEW d \in Cycle
      PROVE  /\ PotShape(pot'[d]) /\ pot'[d].total >= pot[d].total
             /\ Grows(pot[d], pot'[d]) \/ (B /\ d = c)
  <2>1. CASE d = c
    BY <2>1 DEF PotInv
  <2>2. CASE d # c
    <3>1. pot'[d] = pot[d] /\ PotShape(pot[d])
      BY <2>2 DEF PotInv
    <3> QED
      BY <3>1, GrowsSame DEF Grows
  <2> QED
    BY <2>1, <2>2
<1> QED
  BY <1>1, <1>2

LEMMA CycleNat == Cycle \in SUBSET Nat
BY PotAssumption DEF Cycle

(* Donors that neither write a pot nor become the one who draws.            *)
LEMMA DonorReads ==
    ASSUME Frame, PotInv, NEW r \in Req,
           PotRead(r) \/ WithinLimit(r) \/ PotDeduct(r) \/ DonateRefund(r) \/ Console(r)
    PROVE  PotInv'
<1> USE DEF Frame
<1>1. call[r].op = "donate" /\ UNCHANGED pot /\ Donating(r)
  BY DEF PotRead, WithinLimit, PotDeduct, DonateRefund, Console, At, potVars, PotInv
<1>2. ASSUME MovesOnly(r), call'[r].amt \in Nat, call'[r].pc \notin {"full", "draw"},
             call'[r].pc \in {"found", "allowed", "charged", "inserted"} => call'[r].arg \in Cycle
      PROVE  PotInv'
  <2>1. Donating(r)' /\ ~Draws(r)'
    BY <1>2 DEF Donating, Draws
  <2> QED
    BY <1>1, <1>2, <2>1, PotSame
<1>3. call[r].amt \in Nat
  BY <1>1 DEF Donating
<1>4. CASE PotRead(r)
  <2>1. CASE Open # {} /\ call' = [call EXCEPT ![r].pc = "found", ![r].arg = Min(Open)]
    <3>1. Open \subseteq Cycle
      BY DEF Open
    <3>2. Min(Open) \in Cycle
      BY <2>1, <3>1, CycleNat, MinIsMember
    <3>3. MovesOnly(r)
      BY <2>1 DEF MovesOnly, Shaped, IsCall, Fields
    <3>4. call'[r].pc = "found" /\ call'[r].arg = Min(Open) /\ call'[r].amt = call[r].amt
      BY <2>1 DEF Shaped, IsCall, Fields
    <3> QED
      BY <1>2, <1>3, <3>2, <3>3, <3>4
  <2>2. ASSUME NEW x \in {"insert", "refused"}, Goto(r, x) PROVE PotInv'
    BY <1>2, <1>3, <2>2, GotoMoves
  <2> QED
    BY <1>4, <2>1, <2>2 DEF PotRead
<1>5. CASE WithinLimit(r)
  <2>1. call[r].arg \in Cycle
    BY <1>1, <1>5 DEF WithinLimit, At, Donating
  <2>2. ASSUME NEW x \in {"allowed", "refused"}, Goto(r, x) PROVE PotInv'
    BY <1>2, <1>3, <2>1, <2>2, GotoMoves
  <2> QED
    BY <1>5, <2>2 DEF WithinLimit
<1>6. CASE PotDeduct(r)
  <2>1. call[r].pc = "allowed" /\ Deduct(r, call[r].amt, "charged", "refused")
    BY <1>6 DEF PotDeduct, At, Amt
  <2>2. call[r].arg \in Cycle
    BY <1>1, <2>1 DEF Donating
  <2> QED
    BY <1>2, <1>3, <2>1, <2>2, DeductMoves
<1>7. CASE DonateRefund(r)
  <2>1. MovesOnly(r) /\ call'[r].pc = "refused" /\ call'[r].amt = call[r].amt
    BY <1>7, RefundMoves DEF DonateRefund
  <2> QED
    BY <1>2, <1>3, <2>1
<1>8. CASE Console(r)
  <2>1. MovesOnly(r) /\ call'[r].pc = "done" /\ call'[r].amt = call[r].amt
    BY <1>8, GotoMoves DEF Console
  <2> QED
    BY <1>2, <1>3, <2>1
<1> QED
  BY <1>4, <1>5, <1>6, <1>7, <1>8

(* Writes of an open or a closed pot that pay nobody.                       *)
LEMMA DonorWrites ==
    ASSUME Frame, PotInv, NEW r \in Req, PotInsert(r) \/ AddRow(r)
    PROVE  PotInv'
<1> USE DEF Frame
<1>1. call[r].op = "donate" /\ Donating(r) /\ call[r].amt \in Nat
  BY DEF PotInsert, AddRow, At, PotInv, Donating
<1>2. CASE PotInsert(r)
  <2>1. PICK c \in Cycle : pot[c].status = "none" /\ pot' = [pot EXCEPT ![c].status = "open"]
    BY <1>2 DEF PotInsert
  <2> DEFINE p == [pot[c] EXCEPT !.status = "open"]
  <2>2. pot' = [pot EXCEPT ![c] = p]
    BY <2>1 DEF PotInv
  <2>3. PotShape(pot[c])
    BY DEF PotInv
  <2>4. p = [f \in Columns |-> p[f]]
    BY <2>3 DEF PotShape, Columns
  <2>5. p.total = pot[c].total /\ p.paid = pot[c].paid /\ p.status = "open"
    BY <2>3 DEF PotShape, Columns
  <2> HIDE DEF p
  <2>6. PotShape(p) /\ p.total >= pot[c].total
    BY <2>1, <2>3, <2>4, <2>5 DEF PotShape
  <2>7. Grows(pot[c], p)
    BY <2>1, <2>6 DEF Grows
  <2>8. /\ pot' = [d \in Cycle |-> pot'[d]]
        /\ \A d \in Cycle : PotShape(pot'[d])
        /\ \A d \in Cycle : Grows(pot[d], pot'[d])
    BY <2>2, <2>6, <2>7, PotOne
  <2>9. MovesOnly(r) /\ call'[r].pc = "reread" /\ call'[r].amt = call[r].amt
    BY <1>2, GotoMoves DEF PotInsert
  <2>10. Donating(r)' /\ ~Draws(r)'
    BY <1>1, <2>9 DEF Donating, Draws
  <2> QED
    BY <2>8, <2>9, <2>10, PotKept
<1>3. CASE AddRow(r)
  <2>1. call[r].arg \in Cycle
    BY <1>1, <1>3 DEF AddRow, At, Donating
  <2>2. CASE Goto(r, "refund") /\ UNCHANGED pot
    <3>1. MovesOnly(r) /\ call'[r].pc = "refund" /\ call'[r].amt = call[r].amt
      BY <2>2, GotoMoves
    <3>2. Donating(r)' /\ ~Draws(r)'
      BY <1>1, <3>1 DEF Donating, Draws
    <3> QED
      BY <2>2, <3>1, <3>2, PotSame
  <2>3. CASE pot' = [pot EXCEPT ![call[r].arg].gave[Who(r)] = @ + Amt(r)] /\ Goto(r, "inserted")
    <3> DEFINE c == call[r].arg
               g == [pot[c].gave EXCEPT ![Who(r)] = @ + Amt(r)]
               p == [pot[c] EXCEPT !.gave = g]
    <3>1. PotShape(pot[c])
      BY <2>1 DEF PotInv
    <3>2. pot' = [pot EXCEPT ![c] = p]
      BY <2>3, <3>1 DEF PotInv, PotShape, Columns
    <3> HIDE DEF g
    <3>3. p = [f \in Columns |-> p[f]]
      BY <3>1 DEF PotShape, Columns
    <3>4. p.total = pot[c].total /\ p.paid = pot[c].paid /\ p.status = pot[c].status
      BY <3>1 DEF PotShape, Columns
    <3> HIDE DEF p
    <3>5. PotShape(p) /\ p.total >= pot[c].total
      BY <3>1, <3>3, <3>4 DEF PotShape
    <3>6. Grows(pot[c], p)
      BY <3>4, <3>5 DEF Grows
    <3>7. c \in Cycle
      BY <2>1
    <3>8. MovesOnly(r) /\ call'[r].pc = "inserted" /\ call'[r].amt = call[r].amt
          /\ call'[r].arg = c
      BY <2>3, GotoMoves
    <3> HIDE DEF c
    <3>9. /\ pot' = [d \in Cycle |-> pot'[d]]
          /\ \A d \in Cycle : PotShape(pot'[d])
          /\ \A d \in Cycle : Grows(pot[d], pot'[d])
      BY <3>2, <3>5, <3>6, <3>7, PotOne
    <3>10. Donating(r)' /\ ~Draws(r)'
      BY <1>1, <3>7, <3>8 DEF Donating, Draws
    <3> QED
      BY <3>8, <3>9, <3>10, PotKept
  <2> QED
    BY <1>3, <2>2, <2>3 DEF AddRow
<1> QED
  BY <1>2, <1>3

LEMMA MorePaid ==
    ASSUME NEW a \in Nat, NEW b \in Nat, a <= b, NEW x \in Nat, NEW w \in Nat,
           x * 100 <= a * w
    PROVE  x * 100 <= b * w
<1>1. a * w <= b * w
  <2>1. PICK k \in Nat : b = a + k
    <3>1. b - a \in Nat /\ b = a + (b - a)
      OBVIOUS
    <3> QED
      BY <3>1
  <2> QED
    BY <2>1
<1> QED
  BY <1>1

LEMMA PctNat == PotWinPct \in Nat
<1>1. PotWinPct \in 0..100
  BY PotAssumption
<1> QED
  BY <1>1

LEMMA DonorAdds ==
    ASSUME Frame, PotInv, NEW r \in Req, AddTotal(r) PROVE PotInv'
<1> USE DEF Frame
<1> DEFINE c == call[r].arg
           t == pot[c].total + Amt(r)
           x == IF t < PotTarget THEN "done" ELSE "full"
<1>1. call[r].op = "donate" /\ c \in Cycle /\ Amt(r) \in Nat
  BY DEF AddTotal, At, PotInv, Donating, Amt
<1>2. PotShape(pot[c]) /\ pot[c].total \in Nat
  BY <1>1 DEF PotInv, PotShape
<1>3. t \in Nat /\ t >= pot[c].total
  BY <1>1, <1>2
<1>4. x \in {"done", "full"}
  OBVIOUS
<1>5. \/ /\ pot' = [pot EXCEPT ![c].total = t]
         /\ call' = [call EXCEPT ![r].hand = 0, ![r].amt = t, ![r].pc = x]
      \/ Goto(r, "refund") /\ UNCHANGED pot
  BY DEF AddTotal
<1> HIDE DEF x, t
<1>6. CASE Goto(r, "refund") /\ UNCHANGED pot
  <2>1. MovesOnly(r) /\ call'[r].pc = "refund" /\ call'[r].amt = call[r].amt
    BY <1>6, GotoMoves
  <2>2. Donating(r)' /\ ~Draws(r)'
    BY <1>1, <2>1 DEF Donating, Draws, Amt
  <2> QED
    BY <1>6, <2>1, <2>2, PotSame
<1>7. CASE /\ pot' = [pot EXCEPT ![c].total = t]
           /\ call' = [call EXCEPT ![r].hand = 0, ![r].amt = t, ![r].pc = x]
  <2> DEFINE p == [pot[c] EXCEPT !.total = t]
  <2>1. pot' = [pot EXCEPT ![c] = p]
    BY <1>7 DEF PotInv
  <2>2. p = [f \in Columns |-> p[f]]
    BY <1>2 DEF PotShape, Columns
  <2>3. p.total = t /\ p.paid = pot[c].paid /\ p.status = pot[c].status
    BY <1>2 DEF PotShape, Columns
  <2> HIDE DEF p
  <2>4. p.paid * 100 <= t * PotWinPct
    <3>1. PotWinPct \in Nat
      BY PctNat
    <3>2. pot[c].paid \in Nat /\ pot[c].paid * 100 <= pot[c].total * PotWinPct
      BY <1>2 DEF PotShape
    <3> QED
      BY <1>2, <1>3, <2>3, <3>1, <3>2, MorePaid
  <2>5. PotShape(p) /\ p.total >= pot[c].total
    BY <1>2, <1>3, <2>2, <2>3, <2>4 DEF PotShape
  <2>6. Grows(pot[c], p)
    BY <2>3, <2>5 DEF Grows
  <2>7. MovesOnly(r)
    BY <1>7 DEF MovesOnly, Shaped, IsCall, Fields
  <2>8. call'[r].pc = x /\ call'[r].arg = c /\ call'[r].amt = t
    <3>1. call'[r].pc = x
      BY <1>7 DEF Shaped, IsCall, Fields
    <3>2. call'[r].arg = c
      BY <1>7 DEF Shaped, IsCall, Fields
    <3>3. call'[r].amt = t
      BY <1>7 DEF Shaped, IsCall, Fields
    <3> QED
      BY <3>1, <3>2, <3>3
  <2> HIDE DEF c
  <2>9. pot'[c].total = t
    BY <1>1, <2>1, <2>3 DEF PotInv
  <2>10. Donating(r)' /\ ~Draws(r)'
    BY <1>1, <1>3, <1>4, <2>8, <2>9 DEF Donating, Draws
  <2>11. /\ pot' = [d \in Cycle |-> pot'[d]]
         /\ \A d \in Cycle : PotShape(pot'[d])
         /\ \A d \in Cycle : Grows(pot[d], pot'[d])
    BY <1>1, <2>1, <2>5, <2>6, PotOne
  <2> QED
    BY <2>7, <2>10, <2>11, PotKept
<1> QED
  BY <1>5, <1>6, <1>7

LEMMA DonorCloses ==
    ASSUME Frame, PotInv, NEW r \in Req, CloseCycle(r) PROVE PotInv'
<1> USE DEF Frame
<1> DEFINE c == call[r].arg
<1>1. call[r].op = "donate" /\ call[r].pc = "full" /\ Donating(r)
  BY DEF CloseCycle, At, PotInv
<1>2. c \in Cycle /\ call[r].amt \in Nat /\ call[r].amt <= pot[c].total
  BY <1>1 DEF Donating
<1>3. CASE Goto(r, "done") /\ UNCHANGED pot
  <2>1. MovesOnly(r) /\ call'[r].pc = "done" /\ call'[r].amt = call[r].amt
    BY <1>3, GotoMoves
  <2>2. Donating(r)' /\ ~Draws(r)'
    BY <1>2, <2>1 DEF Donating, Draws
  <2> QED
    BY <1>3, <2>1, <2>2, PotSame
<1>4. CASE Elected(c) /\ pot' = [pot EXCEPT ![c].status = "closed"] /\ Goto(r, "draw")
  <2> DEFINE p == [pot[c] EXCEPT !.status = "closed"]
  <2>1. PotShape(pot[c]) /\ pot[c].status = "open"
    BY <1>2, <1>4 DEF PotInv, Elected
  <2>2. pot' = [pot EXCEPT ![c] = p]
    BY <1>4 DEF PotInv
  <2>3. p = [f \in Columns |-> p[f]]
    BY <2>1 DEF PotShape, Columns
  <2>4. p.total = pot[c].total /\ p.paid = pot[c].paid /\ p.status = "closed"
    BY <2>1 DEF PotShape, Columns
  <2> HIDE DEF p
  <2>5. PotShape(p) /\ p.total >= pot[c].total
    BY <2>1, <2>3, <2>4 DEF PotShape
  <2>6. Grows(pot[c], p)
    BY <2>1, <2>5 DEF Grows
  <2>7. MovesOnly(r) /\ call'[r].pc = "draw" /\ call'[r].amt = call[r].amt /\ call'[r].arg = c
    BY <1>4, GotoMoves
  <2>8. p.paid = 0
    BY <2>1, <2>4 DEF PotShape
  <2> HIDE DEF c
  <2>9. pot'[c] = p
    BY <1>2, <2>2 DEF PotInv
  <2>10. Donating(r)'
    BY <1>2, <2>4, <2>7, <2>8, <2>9 DEF Donating
  <2>11. /\ pot' = [d \in Cycle |-> pot'[d]]
         /\ \A d \in Cycle : PotShape(pot'[d])
         /\ \A d \in Cycle : Grows(pot[d], pot'[d])
    BY <1>2, <2>2, <2>5, <2>6, PotOne
  <2> QED
    BY <1>1, <2>1, <2>7, <2>10, <2>11, PotKept DEF c
<1> QED
  BY <1>3, <1>4 DEF CloseCycle

LEMMA ShareOf ==
    ASSUME NEW a \in Nat, NEW t \in Nat, a <= t, NEW w \in Nat, NEW x,
           x = (a * w) \div 100
    PROVE  x \in Nat /\ x * 100 <= t * w
<1> DEFINE y == a * w
<1>1. y \in Nat /\ y <= t * w /\ t * w \in Nat
  <2>1. t = a + (t - a) /\ t - a \in Nat
    OBVIOUS
  <2> QED
    BY <2>1
<1> HIDE DEF y
<1>2. x = y \div 100
  BY DEF y
<1>3. y \div 100 \in Nat /\ (y \div 100) * 100 <= y
  BY <1>1
<1> QED
  BY <1>1, <1>2, <1>3

LEMMA DonorDraws ==
    ASSUME Frame, PotInv, NEW r \in Req, Draw(r) PROVE PotInv'
<1> USE DEF Frame
<1> DEFINE c == call[r].arg
<1>1. call[r].op = "donate" /\ call[r].pc = "draw" /\ Donating(r) /\ Draws(r)
  BY DEF Draw, At, PotInv, Draws
<1>2. /\ c \in Cycle /\ call[r].amt \in Nat /\ call[r].amt <= pot[c].total
      /\ pot[c].status = "closed" /\ pot[c].paid = 0
  BY <1>1 DEF Donating
<1>3. PotShape(pot[c]) /\ pot[c].total \in Nat
  BY <1>2 DEF PotInv, PotShape
<1>4. CASE Goto(r, "done") /\ UNCHANGED pot
  <2>1. MovesOnly(r) /\ call'[r].pc = "done" /\ call'[r].amt = call[r].amt
    BY <1>4, GotoMoves
  <2>2. Donating(r)' /\ ~Draws(r)'
    BY <1>2, <2>1 DEF Donating, Draws
  <2> QED
    BY <1>4, <2>1, <2>2, PotSame
<1>5. ASSUME NEW m, NEW n \in {0, Winnings(r)}, NEW e,
             \/ n = Winnings(r) /\ pot' = [pot EXCEPT ![c].winner = m, ![c].paid = @ + Winnings(r)]
             \/ n = 0 /\ pot' = [pot EXCEPT ![c].winner = m],
             call' = [call EXCEPT ![r].pc = "drawn", ![r].arg = e]
      PROVE  PotInv'
  <2> DEFINE p == IF n = 0 /\ pot' = [pot EXCEPT ![c].winner = m]
                  THEN [pot[c] EXCEPT !.winner = m]
                  ELSE [[pot[c] EXCEPT !.winner = m] EXCEPT !.paid = @ + Winnings(r)]
  <2>1. pot' = [pot EXCEPT ![c] = p]
    <3>1. CASE n = 0 /\ pot' = [pot EXCEPT ![c].winner = m]
      BY <3>1 DEF PotInv
    <3>2. CASE ~(n = 0 /\ pot' = [pot EXCEPT ![c].winner = m])
      <4>1. pot' = [pot EXCEPT ![c].winner = m, ![c].paid = @ + Winnings(r)]
        BY <1>5, <3>2
      <4> QED
        BY <3>2, <4>1 DEF PotInv
    <3> QED
      BY <3>1, <3>2
  <2>2. p = [f \in Columns |-> p[f]] /\ p.total = pot[c].total /\ p.status = "closed"
        /\ p.paid \in {0, 0 + Winnings(r)}
    <3> DEFINE q == [pot[c] EXCEPT !.winner = m]
    <3>1. q = [f \in Columns |-> q[f]] /\ q.total = pot[c].total /\ q.status = "closed"
          /\ q.paid = 0
      BY <1>2, <1>3 DEF PotShape, Columns
    <3> HIDE DEF q
    <3> DEFINE o == [q EXCEPT !.paid = @ + Winnings(r)]
    <3>2. o = [f \in Columns |-> o[f]] /\ o.total = pot[c].total /\ o.status = "closed"
          /\ o.paid = 0 + Winnings(r)
      BY <3>1 DEF Columns
    <3>3. p = q \/ p = o
      BY DEF q
    <3> HIDE DEF o, p
    <3> QED
      BY <3>1, <3>2, <3>3
  <2> HIDE DEF p
  <2>3. p.paid \in Nat /\ p.paid * 100 <= p.total * PotWinPct
    <3>1. PotWinPct \in Nat
      BY PctNat
    <3>2. Winnings(r) \in Nat /\ Winnings(r) * 100 <= pot[c].total * PotWinPct
      BY <1>2, <1>3, <3>1, ShareOf DEF Winnings, Amt
    <3>3. 0 * 100 <= pot[c].total * PotWinPct
      BY <1>3, <3>1
    <3> QED
      BY <2>2, <3>2, <3>3
  <2>4. PotShape(p) /\ p.total >= pot[c].total
    BY <1>3, <2>2, <2>3 DEF PotShape
  <2>5. MovesOnly(r)
    <3>1. call' = [call EXCEPT ![r].pc = "drawn", ![r].arg = e]
      BY <1>5
    <3>2. /\ call' = [s \in Req |-> call'[s]]
          /\ \A s \in Req \ {r} : call'[s] = call[s]
      BY <3>1 DEF Shaped
    <3>3. IsCall(call'[r]) /\ call'[r].op = call[r].op
      BY <3>1 DEF Shaped, IsCall, Fields
    <3> QED
      BY <3>2, <3>3 DEF MovesOnly
  <2>6. call'[r].pc = "drawn" /\ call'[r].amt = call[r].amt
    BY <1>5 DEF Shaped, IsCall, Fields
  <2>7. Donating(r)' /\ ~Draws(r)'
    BY <1>2, <2>6 DEF Donating, Draws
  <2> HIDE DEF c
  <2>8. /\ pot' = [d \in Cycle |-> pot'[d]]
        /\ \A d \in Cycle : PotShape(pot'[d]) /\ pot'[d].total >= pot[d].total
        /\ \A d \in Cycle : Grows(pot[d], pot'[d]) \/ (TRUE /\ d = c)
    BY <1>2, <2>1, <2>4, PotOne
  <2> QED
    BY <1>1, <2>5, <2>7, <2>8, PotKept DEF c
<1>6. CASE ~(Goto(r, "done") /\ UNCHANGED pot)
  <2>1. PICK m \in Member :
          /\ \/ pot' = [pot EXCEPT ![c].winner = m, ![c].paid = @ + Winnings(r)]
             \/ pot' = [pot EXCEPT ![c].winner = m]
          /\ call' = [call EXCEPT ![r].pc = "drawn", ![r].arg = Earned(c)]
    BY <1>6 DEF Draw
  <2> DEFINE e == Earned(c)
  <2>2. call' = [call EXCEPT ![r].pc = "drawn", ![r].arg = e]
    BY <2>1
  <2> HIDE DEF e
  <2> QED
    BY <1>5, <2>1, <2>2
<1> QED
  BY <1>4, <1>6

(* Charity and a donor's end do not touch the pot.                          *)
LEMMA GiversAside ==
    ASSUME Frame, PotInv, NEW r \in Req, GiveDeduct(r) \/ GiveShare(r) \/ PotDie(r)
    PROVE  PotInv'
<1> USE DEF Frame
<1>1. UNCHANGED pot /\ Donating(r)
  BY DEF GiveDeduct, GiveShare, PotDie, potVars, PotInv
<1>2. CASE call[r].op = "give"
  <2>2. MovesOnly(r)
    <3>1. CASE GiveDeduct(r)
      <4>1. Goto(r, "refused") \/ Deduct(r, Amt(r), "charged", "refused")
        BY <3>1 DEF GiveDeduct
      <4>2. ASSUME Goto(r, "refused") PROVE MovesOnly(r)
        BY <4>2, GotoMoves
      <4>3. ASSUME Deduct(r, Amt(r), "charged", "refused") PROVE MovesOnly(r)
        BY <4>3, DeductMoves
      <4> QED
        BY <4>1, <4>2, <4>3
    <3>2. CASE PotDie(r)
      <4>1. Goto(r, "dead")
        BY <3>2 DEF PotDie, Die, Cut
      <4> QED
        BY <4>1, GotoMoves
    <3>3. CASE GiveShare(r)
      BY <3>3, GiveSteps DEF StepOf
    <3> QED
      BY <3>1, <3>2, <3>3
  <2>3. Donating(r)' /\ ~Draws(r)'
    BY <1>2, <2>2 DEF MovesOnly, Donating, Draws
  <2> QED
    BY <1>1, <2>2, <2>3, PotSame
<1>3. CASE call[r].op # "give"
  <2>1. Goto(r, "dead") /\ call[r].op = "donate"
    BY <1>3 DEF GiveDeduct, GiveShare, PotDie, Die, Cut, At
  <2>2. MovesOnly(r) /\ call'[r].pc = "dead" /\ call'[r].amt = call[r].amt
    BY <2>1, GotoMoves
  <2>3. Donating(r)' /\ ~Draws(r)'
    BY <1>1, <2>1, <2>2 DEF Donating, Draws
  <2> QED
    BY <1>1, <2>2, <2>3, PotSame
<1> QED
  BY <1>2, <1>3

LEMMA PotInvNext == ASSUME Frame, PotInv, [Next]_vars PROVE PotInv'
<1>1. CASE PotNext
  <2>1. PICK r \in Req :
          \/ PotRead(r) \/ PotInsert(r) \/ WithinLimit(r) \/ PotDeduct(r)
          \/ AddRow(r) \/ AddTotal(r) \/ DonateRefund(r) \/ CloseCycle(r)
          \/ Draw(r) \/ Console(r) \/ GiveDeduct(r) \/ GiveShare(r) \/ PotDie(r)
    BY <1>1 DEF PotNext
  <2> QED
    BY <2>1, DonorReads, DonorWrites, DonorAdds, DonorCloses, DonorDraws, GiversAside
<1>2. CASE ~PotNext
  <2>1. UNCHANGED pot /\ Others(PotOps) /\ \A s \in Req : call'[s].op = call[s].op
    BY <1>2, Foreign DEF potVars
  <2>2. ASSUME NEW s \in Req PROVE Donating(s)' /\ (Draws(s)' => Draws(s) /\ call'[s] = call[s])
    <3>1. CASE call[s].op \in PotOps
      <4>1. call'[s] = call[s]
        BY <2>1, <3>1 DEF Others
      <4> QED
        BY <2>1, <4>1 DEF Donating, Draws, PotInv
    <3>2. CASE call[s].op \notin PotOps
      BY <2>1, <3>2 DEF PotOps, Donating, Draws
    <3> QED
      BY <3>1, <3>2
  <2> QED
    BY <2>1, <2>2 DEF PotInv
<1> QED
  BY <1>1, <1>2

(* A pot is drawn by one closer and pays at most the winner's share.        *)
THEOREM PotsDrawnOnce == Spec => []DrawnOnce
<1>1. Init => PotInv
  BY PotInit0
<1>2. Frame /\ PotInv /\ [Next]_vars => PotInv'
  BY PotInvNext
<1>3. PotInv => DrawnOnce
  BY DEF PotInv, PotShape, Draws, DrawnOnce, At
<1> QED
  BY <1>1, <1>2, <1>3, Framed, PTL DEF Spec
=============================================================================
