--------------------------- MODULE PointsEconomy ---------------------------
(***************************************************************************)
(* The plugins that move points, on one ledger: the shop, the paid actions, *)
(* community joins, offers, the pot and charity, the daily reward, and the   *)
(* reward engine that achievements pay through.  They share little but the  *)
(* balances; what each takes, holds and pays must add up whatever the       *)
(* interleaving, and whatever fails.                                        *)
(***************************************************************************)
EXTENDS PointStore, PaidActions, CommunityJoins, OfferEscrow, PotGame, DailyReward,
        Achievements

vars == <<pointsVars, storeVars, paidVars, joinVars, offerVars, potVars, dailyVars,
          grantVars, achVars>>

RecognitionVars == <<grantVars, achVars>>

Init ==
    /\ PointsInit /\ StoreInit /\ PaidActionsInit /\ JoinsInit
    /\ OfferInit /\ PotInit /\ DailyInit /\ GrantsInit /\ AchInit

Next ==
    \/ StoreNext /\ UNCHANGED <<paidVars, joinVars, offerVars, potVars, dailyVars, RecognitionVars>>
    \/ PaidActionsNext /\ UNCHANGED <<storeVars, joinVars, offerVars, potVars, dailyVars, RecognitionVars>>
    \/ JoinsNext /\ UNCHANGED <<storeVars, paidVars, offerVars, potVars, dailyVars, RecognitionVars>>
    \/ OfferNext /\ UNCHANGED <<storeVars, paidVars, joinVars, potVars, dailyVars, RecognitionVars>>
    \/ PotNext /\ UNCHANGED <<storeVars, paidVars, joinVars, offerVars, dailyVars, RecognitionVars>>
    \/ DailyNext /\ UNCHANGED <<storeVars, paidVars, joinVars, offerVars, potVars, RecognitionVars>>
    \/ /\ (GrantsNext \/ \E r \in Req : SettleStep(r)) /\ UNCHANGED achVars
       /\ UNCHANGED <<storeVars, paidVars, joinVars, offerVars, potVars, dailyVars>>
    \/ AchievementsNext /\ UNCHANGED <<storeVars, paidVars, joinVars, offerVars, potVars, dailyVars>>

Spec == Init /\ [][Next]_vars

---------------------------------------------------------------------------
(* Types, and that no balance goes below zero.                              *)
TypeOK ==
    /\ balance \in [Member -> Nat]
    /\ faults \in Nat
    /\ \A r \in Req : call[r].hand \in Nat /\ call[r].owed \in BOOLEAN
    /\ item.stock \in Int /\ unit \subseteq Req /\ granted \subseteq Req
    /\ medal \subseteq Member /\ xp \in [Member -> Nat]
    /\ subscribed \subseteq Member /\ inviteUsed \in 0..InviteUses
    /\ \A q \in Rid : offer[q].stake \in [Member -> Nat]
    /\ \A c \in Cycle : pot[c].total \in Nat /\ pot[c].gave \in [Member -> Nat]
    /\ today \in FirstDay..LastDay /\ minted \in Nat

(* What a request has bought, for the price in amt.                         *)
Bought(r) ==
    \/ r \in granted \cup casts \cup boosts
    \/ At(r, "medal", "done") /\ Who(r) \in medal
    \/ At(r, "join", "done") /\ call[r].hand = 0

Spent == SumFunction([r \in Req |->
            (IF Bought(r) THEN Amt(r) ELSE 0)
            + (IF application[r].status = "approved" THEN application[r].held ELSE 0)])

(* Points are neither made nor lost: what members have, what handlers have  *)
(* taken and not yet placed, what is staked, in the pot, held with          *)
(* applications and spent add up to what there was and what was awarded.    *)
(* Nothing is paid twice by two deliveries, two moderators or two closers,  *)
(* and nothing refunded that was also spent.                                *)
Conserved ==
    InBalances + InHand + InPools + InPots + HeldByApplications + Spent
        = SumFunction(InitBalance) + minted + paidOut

(* "unwinding prior steps (restore stock, refund points) on any later       *)
(* failure" (purchase), and its likes: a request that was refused costs     *)
(* nothing and got nothing, one that went through got what it paid for,     *)
(* whatever call failed on the way, unless the unwinding itself failed.     *)
Sales == {"buy", "medal", "cast", "boost"}

AllOrNothing == \A r \in Req : call[r].op \in Sales /\ ~call[r].owed =>
    /\ call[r].pc = "refused" =>
          /\ call[r].hand = 0
          /\ r \notin granted \cup casts \cup boosts
          /\ r \notin unit \/ item = Gone
    /\ call[r].pc = "done" => Bought(r) /\ call[r].hand = 0

(* "two concurrent buyers can't both claim the last one" (ClaimStock):      *)
(* without an operator's edit in between the stock never goes below zero,   *)
(* what is on the shelf and what purchases claimed is what was put there,   *)
(* and no purchase got its reward without a unit of its own.                *)
NoOversell ==
    (InitStock \subseteq Nat /\ \A r \in Req : call[r].op \notin {"edit", "delete"}) =>
        /\ item.stock >= 0
        /\ item.stock + Cardinality(unit) \in InitStock
        /\ granted \subseteq unit

(* The calls of /deliver that went on to pay for request q, and where what  *)
(* was staked on q is, seen from such a call.                               *)
Deliverers(q) == {r \in Req : /\ call[r].op = "deliver" /\ call[r].arg = q
                              /\ call[r].pc \in {"settle", "refund", "done", "dead"}}

PoolWith(r, q) ==
    \/ call[r].pc = "settle" /\ ~offer[q].settled /\ call[r].hand = 0
    \/ call[r].pc = "refund" /\ offer[q].settled /\ call[r].hand = Pool(q)
    \/ call[r].pc = "done" /\ call[r].hand = 0 /\ (offer[q].settled \/ Pool(q) = 0)
    \/ call[r].pc = "dead" \/ call[r].owed

(* "the claim is what makes it exactly once: an agent that retries /deliver,*)
(* or two workers racing the same callback" (payEscrow): one call pays for  *)
(* a delivered request, of the member who held its claim, and pays the      *)
(* whole pool, unless a call fails or the process ends on the way; before   *)
(* a delivery no call pays, whatever claims ran out or changed hands.       *)
PaidForDelivery == \A q \in Rid :
    /\ offer[q].settled => offer[q].status = "delivered"
    /\ offer[q].status # "delivered" => Deliverers(q) = {}
    /\ offer[q].status = "delivered" => \E r \in Req :
          Deliverers(q) = {r} /\ Who(r) = offer[q].claimer /\ PoolWith(r, q)

(* "CloseCycle elects exactly one closer": a pot is drawn once, whoever     *)
(* fills it at the same moment, and pays the winner his share at most.      *)
DrawnOnce ==
    /\ \A c \in Cycle : pot[c].paid * 100 <= pot[c].total * PotWinPct
    /\ \A r, s \in Req : r # s /\ At(r, "donate", "draw") /\ At(s, "donate", "draw")
                         => call[r].arg # call[s].arg

(* A streak of k stands for k days in a row on which a claim was taken,     *)
(* ending with the last one: requests that cross midnight, race or repeat   *)
(* never lengthen it.                                                       *)
StreakHonest == \A m \in Member : \A k \in 1..daily[m].streak :
    \E a \in awards : a[1] = m /\ a[2] = daily[m].last - k + 1

(* "Two tabs clicking at once is the ordinary case" (dailyreward/README.md):*)
(* one claim a day is taken, the row lock makes the second see the first.   *)
OneClaimADay == \A a, b \in awards : a[1] = b[1] /\ a[2] = b[2] => a = b

(* "the honest record is credited" (SettleGrant): no line of a grant that   *)
(* stays expired was handed over, unless its settlement is under way or was *)
(* cut off by a fault.                                                      *)
ExpiredUnpaid == \A g \in DOMAIN grants :
    grants[g].state = "expired" /\ (\E l \in DOMAIN grants[g].handed : grants[g].handed[l] > 0)
    => \E r \in Req : Mine(r) = g /\ (call[r].pc \in {"lines", "mark", "dead"} \/ call[r].owed)

(* "A grant that dies partway resumes from where it stopped": whatever     *)
(* failed, raced or was resumed, a credited grant was paid in full.         *)
PaidInFull == \A g \in DOMAIN grants : grants[g].state = "credited" =>
    \A l \in DOMAIN grants[g].handed : grants[g].handed[l] > 0

(* "a double-settle is a no-op, not an error" (Settle): every line is       *)
(* handed over at most once.                                                *)
SettledOnce == \A g \in DOMAIN grants : \A l \in DOMAIN grants[g].handed :
    grants[g].handed[l] <= 1

(* The units granted to a member are what the highest mark is over the      *)
(* baseline: each unit is paid once, whatever the counter does and wherever *)
(* the one job that pays it (GrantPerUnit) was cut off.                     *)
UnitsExact == \A m \in Member :
    LET marked == {g \in DOMAIN grants : grants[g].who = m /\ grants[g].mark > 0}
        high   == Max({Baseline[m]} \cup {grants[g].mark : g \in marked})
    IN  SumFunctionOnSet([g \in marked |-> grants[g].units], marked) = high - Baseline[m]

(* An achievement is announced once and stamped paid only when its reward   *)
(* was granted, whoever of the events and the job completes it.             *)
AwardedOnce == \A m \in Member :
    /\ ach[m].told <= 1
    /\ ach[m].paid => ach[m].completed /\ Held(Badge, m, BadgeRef)

(* The shop sells in one step, as AtomicSale promises: an intermediate      *)
(* state is never one that an abstract purchase could not be in.            *)
SaleIsAtomic == Sale!Spec
=============================================================================
