---------------------------- MODULE OfferEscrow ----------------------------
(***************************************************************************)
(* Requests on an offer and the points staked behind them                   *)
(* (offers/handlers.go, offers/jobs.go).  Members back a request with       *)
(* points taken from their balance; an offerer's agent claims it, delivers  *)
(* or fails; a delivery pays the pool out, a withdrawal returns a stake.    *)
(* The rows are the host's: what its operations do is taken from their      *)
(* comments in offers/deps.go.                                              *)
(***************************************************************************)
EXTENDS Points

CONSTANTS
    Rid          \* offer requests of one bucket, numbered: each live in turn

ASSUME RidAssumption == IsFiniteSet(Rid) /\ Rid = 1..Cardinality(Rid)

VARIABLES
    offer        \* request -> status, who claimed it, stakes, settled

offerVars == <<offer>>

Nobody == "nobody"

Unfiled == [status |-> "none", claimer |-> Nobody, settled |-> FALSE,
            stake |-> [m \in Member |-> 0]]

OfferInit == offer = [q \in Rid |-> Unfiled]

Live(q) == offer[q].status \in {"open", "claimed"}
Pool(q) == SumFunction(offer[q].stake)

(* UserCreateRequest: the stake is taken before the row is written.         *)
Stake(r) ==
    /\ At(r, "back", "start")
    /\ Deduct(r, Amt(r), "charged", "refused")
    /\ UNCHANGED offerVars

(* CreateOrJoinRequest: a bucket has at most one live request, and whoever  *)
(* files a second one joins it as a backer.                                 *)
Backed(q, m, n) == [offer EXCEPT ![q].stake[m] = @ + n]

CreateOrJoin(r) ==
    /\ At(r, "back", "charged")
    /\ \/ /\ NoFault
          /\ call' = [call EXCEPT ![r].pc = "done", ![r].hand = 0]
          /\ \/ \E q \in Rid : Live(q) /\ offer' = Backed(q, Who(r), Amt(r))
             \/ /\ \A q \in Rid : ~Live(q)
                /\ \E q \in Rid :
                      /\ offer[q].status = "none"
                      /\ \A p \in Rid : p < q => offer[p].status # "none"
                      /\ offer' = [Backed(q, Who(r), Amt(r)) EXCEPT ![q].status = "open"]
       \/ Fault /\ Goto(r, "refund") /\ UNCHANGED offer
    /\ UNCHANGED balance

BackRefund(r) ==
    /\ At(r, "back", "refund")
    /\ Refund(r, "refused")
    /\ UNCHANGED offerVars

(* Which stakes WithdrawBacking, the host's, takes off the row: the handler *)
(* checks nothing itself and says "A CLAIMED request refuses".              *)
Withdrawable(q) == offer[q].status = "open"

(* The last backer's leaving cancels the request (WithdrawBacking).         *)
Cancelled(q, m) == \A n \in Member \ {m} : offer[q].stake[n] = 0

(* UserWithdrawRequest: the stake leaves the row in one call, the refund is *)
(* a step of its own.                                                       *)
Withdraw(r) ==
    /\ At(r, "withdraw", "start")
    /\ \E q \in Rid :
          /\ offer[q].status # "none"
          /\ IF Withdrawable(q) /\ offer[q].stake[Who(r)] > 0
             THEN /\ offer' = [offer EXCEPT
                        ![q].stake[Who(r)] = 0,
                        ![q].status = IF Cancelled(q, Who(r)) THEN "cancelled" ELSE @]
                  /\ call' = [call EXCEPT ![r].pc = "refund",
                                          ![r].hand = offer[q].stake[Who(r)]]
             ELSE Goto(r, "refused") /\ UNCHANGED offer
    /\ UNCHANGED <<balance, faults>>

WithdrawRefund(r) ==
    /\ At(r, "withdraw", "refund")
    /\ Refund(r, "done")
    /\ UNCHANGED offerVars

(* ClaimRequest, an optimistic lock: the first agent gets it.               *)
Claim(r) ==
    /\ At(r, "claim", "start")
    /\ \E q \in Rid :
          /\ offer[q].status # "none"
          /\ offer' = IF offer[q].status = "open"
                      THEN [offer EXCEPT ![q].status = "claimed", ![q].claimer = Who(r)]
                      ELSE offer
    /\ Goto(r, "done")
    /\ UNCHANGED <<balance, faults>>

(* DeliverRequest: only of a request the agent's member holds the claim of. *)
MayDeliver(q, m) == offer[q].status = "claimed" /\ offer[q].claimer = m

\* Mutant: the answer that the claim was served or released is not looked at.
DeliverUnchecked(r) ==
    /\ At(r, "deliver", "start")
    /\ \E q \in Rid :
          /\ offer' = IF MayDeliver(q, Who(r))
                      THEN [offer EXCEPT ![q].status = "delivered"] ELSE offer
          /\ call' = [call EXCEPT ![r].pc = "settle", ![r].arg = q]
    /\ UNCHANGED <<balance, faults>>
(* "Only on a real delivery" does the handler go on to pay.                 *)
Deliver(r) ==
    /\ At(r, "deliver", "start")
    /\ \E q \in Rid :
          IF MayDeliver(q, Who(r))
          THEN /\ offer' = [offer EXCEPT ![q].status = "delivered"]
               /\ call' = [call EXCEPT ![r].pc = "settle", ![r].arg = q]
          ELSE Goto(r, "refused") /\ UNCHANGED offer
    /\ UNCHANGED <<balance, faults>>

(* payEscrow: SettleEscrow closes the pool exactly once, then it is paid.   *)
Settle(r) ==
    /\ At(r, "deliver", "settle")
    /\ LET q == call[r].arg IN
       \/ /\ NoFault
          /\ IF offer[q].settled \/ Pool(q) = 0
             THEN Goto(r, "done") /\ UNCHANGED offer
             ELSE /\ offer' = [offer EXCEPT ![q].settled = TRUE]
                  /\ call' = [call EXCEPT ![r].pc = "refund", ![r].hand = Pool(q)]
       \/ Fault /\ call' = [call EXCEPT ![r].pc = "done", ![r].owed = TRUE]
                /\ UNCHANGED offer
    /\ UNCHANGED balance

(* Award to the offerer; a failure is reported, the points stay owed.       *)
PayOfferer(r) ==
    /\ At(r, "deliver", "refund")
    /\ Refund(r, "done")
    /\ UNCHANGED offerVars

(* FailRequest: the claimer gives the request back.                         *)
Fail(r) ==
    /\ At(r, "fail", "start")
    /\ \E q \in Rid :
          /\ offer[q].status # "none"
          /\ IF MayDeliver(q, Who(r))
             THEN offer' = [offer EXCEPT ![q].status = "open", ![q].claimer = Nobody]
             ELSE UNCHANGED offer
    /\ Goto(r, "done")
    /\ UNCHANGED <<balance, faults>>

(* The sweeper: a claim whose window (15 minutes) is over is opened again.  *)
Sweep ==
    /\ \E q \in Rid :
          /\ offer[q].status = "claimed"
          /\ offer' = [offer EXCEPT ![q].status = "open", ![q].claimer = Nobody]
    /\ UNCHANGED pointsVars

OfferDie(r) ==
    /\ call[r].op \in {"back", "withdraw", "deliver"}
    /\ Die(r)
    /\ UNCHANGED offerVars

OfferNext ==
    \/ Sweep
    \/ \E r \in Req :
          \/ Stake(r) \/ CreateOrJoin(r) \/ BackRefund(r)
          \/ Withdraw(r) \/ WithdrawRefund(r) \/ Claim(r)
          \/ Deliver(r) \/ Settle(r) \/ PayOfferer(r) \/ Fail(r) \/ OfferDie(r)

(* Points in the pools that were not settled.                               *)
InPools == SumFunction([q \in Rid |-> IF offer[q].settled THEN 0 ELSE Pool(q)])
=============================================================================
