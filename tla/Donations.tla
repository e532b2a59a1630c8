------------------------------ MODULE Donations ------------------------------
(***************************************************************************)
(* Donations (donations/claim.go, webhook.go, goalreward.go): a donor takes  *)
(* a package and pays its invoice, BTCPay reports the settlement until it is *)
(* answered with success, the donation is recorded once, and the one that    *)
(* meets the month's goal opens the site's free week.                        *)
(***************************************************************************)
EXTENDS EventWindows

CONSTANTS
    Invoice,     \* invoices of BTCPay
    Price,       \* usd of one package
    Stock,       \* packages on offer this year
    Goal,        \* the month's costs
    MonthLength  \* ticks

ASSUME DonationAssumption ==
    /\ {Price, Stock, Goal, MonthLength} \subseteq Nat \ {0}
    /\ \A p \in Plans : \A r \in Req :
          p[r].op \in {"claim", "webhook"} => p[r].arg.invoice \in Invoice

VARIABLES
    settled,     \* invoice -> when it was made and paid, or Unpaid
    donations,   \* rows: txid, asset, usd, received at
    fired,       \* donate_goal_reward_fired: the last month rewarded
    answered,    \* invoices whose settlement was answered with success
    unmarked     \* ghost: the marker was not read, not written, or an earlier
                 \* month's was written over it

donationVars == <<settled, donations, fired, answered, unmarked>>

Month(t) == t \div MonthLength
NoMonth  == -1

Unpaid   == -1

\* An invoice that no claim of the plan makes was made and paid before.
MadeHere ==
    {Arg(r).invoice : r \in {s \in Req : call[s].op = "claim"}}

DonationsInit ==
    /\ settled = [i \in Invoice |-> IF i \in MadeHere THEN Unpaid ELSE clock]
    /\ donations = {} /\ fired = NoMonth /\ answered = {} /\ unmarked = FALSE

(* ClaimPackage: the stock is counted from the donations recorded so far; a  *)
(* failing count is taken for zero.  Then BTCPay is asked for an invoice.    *)
ClaimRead(r) ==
    /\ At(r, "claim", "start")
    /\ \/ Cardinality(donations) >= Stock /\ NoFault /\ Goto(r, "refused")
       \/ /\ \/ Cardinality(donations) < Stock /\ NoFault
             \/ Fault
          /\ Goto(r, "ask")
    /\ UNCHANGED <<timeVars, windows, donationVars>>

ClaimInvoice(r) ==
    /\ At(r, "claim", "ask")
    /\ \/ NoFault /\ settled' = [settled EXCEPT ![Arg(r).invoice] = clock] /\ Goto(r, "done")
       \/ Fault /\ Goto(r, "refused") /\ UNCHANGED settled
    /\ UNCHANGED <<timeVars, windows, donations, fired, answered, unmarked>>

Recorded(i) == \E d \in donations : d.txid = i

Answer(r) == answered' = answered \cup {Arg(r).invoice} /\ Goto(r, "done")

(* BTCPayWebhook: the pre-check by txid; when it fails it finds nothing.     *)
WebhookRead(r) ==
    /\ At(r, "webhook", "start") /\ settled[Arg(r).invoice] # Unpaid
    /\ \/ Recorded(Arg(r).invoice) /\ NoFault /\ Answer(r)
       \/ /\ \/ ~Recorded(Arg(r).invoice) /\ NoFault
             \/ Fault
          /\ Goto(r, "fetch") /\ UNCHANGED answered
    /\ UNCHANGED <<timeVars, windows, settled, donations, fired, unmarked>>

(* fetchInvoiceTotals: nothing, in another asset, when BTCPay does not       *)
(* answer.                                                                   *)
WebhookFetch(r) ==
    /\ At(r, "webhook", "fetch")
    /\ \/ NoFault /\ Note(r, "create", [asset |-> "USD", usd |-> Price])
       \/ Fault /\ Note(r, "create", [asset |-> "BTC", usd |-> 0])
    /\ UNCHANGED <<timeVars, windows, donationVars>>

(* CreateDonation: one transaction under UNIQUE (asset, txid).  Its commit   *)
(* may be reported failed and have happened.                                 *)
CreateDonation(r) ==
    LET row   == [txid |-> Arg(r).invoice, asset |-> Seen(r).asset,
                  usd |-> Seen(r).usd, at |-> settled[Arg(r).invoice]]
        taken == \E d \in donations : d.txid = row.txid /\ d.asset = row.asset
    IN
    /\ At(r, "webhook", "create")
    /\ \/ NoFault /\ taken /\ Goto(r, "recheck") /\ UNCHANGED donations
       \/ NoFault /\ ~taken /\ donations' = donations \cup {row} /\ Goto(r, "goal")
       \/ /\ Fault /\ Goto(r, "recheck")
          /\ donations' \in {donations, IF taken THEN donations ELSE donations \cup {row}}
    /\ UNCHANGED <<timeVars, windows, settled, fired, answered, unmarked>>

\* Mutant: the answer is success whatever became of the donation.
AnswersRowOnly(r) == TRUE
(* Two failures told apart: a sibling recorded it, or nobody did.            *)
MayAnswer(r) == Recorded(Arg(r).invoice)

WebhookRecheck(r) ==
    /\ At(r, "webhook", "recheck")
    /\ \/ MayAnswer(r) /\ NoFault /\ Answer(r)
       \/ /\ \/ ~MayAnswer(r) /\ NoFault
             \/ Fault
          /\ Goto(r, "failed") /\ UNCHANGED answered
    /\ UNCHANGED <<timeVars, windows, settled, donations, fired, unmarked>>

Raised == MapThenSumSet(LAMBDA d : d.usd,
                        {d \in donations : Month(d.at) = Month(clock)})

\* Mutant: the month that was rewarded is not looked at.
GoalRewardDueAgain(last) == Raised >= Goal
(* goalRewardDue: the goal is met, and this month was not rewarded yet.      *)
GoalRewardDue(last) == Raised >= Goal /\ last # Month(clock)

(* maybeOpenGoalReward: any failing read ends it, but for the marker's, which *)
(* reads as never.                                                           *)
GoalRead(r) ==
    /\ At(r, "webhook", "goal")
    /\ \/ /\ NoFault /\ UNCHANGED unmarked
          /\ IF GoalRewardDue(fired)
             THEN Note(r, "open", [now |-> clock, month |-> Month(clock)])
             ELSE Goto(r, "emit")
       \/ Fault /\ Goto(r, "emit") /\ UNCHANGED unmarked
       \/ /\ Fault /\ GoalRewardDue(NoMonth) /\ unmarked' = TRUE
          /\ Note(r, "open", [now |-> clock, month |-> Month(clock)])
    /\ UNCHANGED <<timeVars, windows, settled, donations, fired, answered>>

GoalWindow(r) ==
    /\ At(r, "webhook", "open")
    /\ WindowRead(r, "mark", "insert", "emit")
    /\ UNCHANGED donationVars

(* An error is reported, and the month not marked; the window may be open    *)
(* all the same.                                                             *)
GoalInsert(r) ==
    /\ At(r, "webhook", "insert")
    /\ WindowInsert(r, "mark", "emit")
    /\ unmarked' = (unmarked \/ (call'[r].pc = "emit" /\ windows' # windows))
    /\ UNCHANGED <<settled, donations, fired, answered>>

(* The marker, whether this call opened the window or found it open.         *)
MarkFired(r) ==
    /\ At(r, "webhook", "mark")
    /\ \/ /\ NoFault /\ fired' = Seen(r).month
          /\ unmarked' = (unmarked \/ fired > Seen(r).month)
       \/ Fault /\ unmarked' = TRUE /\ UNCHANGED fired
    /\ Goto(r, "emit")
    /\ UNCHANGED <<timeVars, windows, settled, donations, answered>>

EmitAndAnswer(r) ==
    /\ At(r, "webhook", "emit")
    /\ Answer(r) /\ NoFault
    /\ UNCHANGED <<timeVars, windows, settled, donations, fired, unmarked>>

(* BTCPay delivers again whatever was not answered with success.             *)
Redeliver(r) ==
    /\ call[r].op = "webhook" /\ call[r].pc \in {"failed", "dead"}
    /\ Goto(r, "start")
    /\ UNCHANGED <<faults, timeVars, windows, donationVars>>

DonationDies(r) ==
    /\ call[r].op \in {"claim", "webhook"} /\ call[r].pc # "failed"
    /\ Cut(r)
    /\ unmarked' = (unmarked \/ call[r].pc = "mark")
    /\ UNCHANGED <<timeVars, windows, settled, donations, fired, answered>>

WebhookStep(r) ==
    \/ WebhookRead(r) \/ WebhookFetch(r) \/ CreateDonation(r) \/ WebhookRecheck(r)
    \/ GoalRead(r) \/ GoalWindow(r) \/ GoalInsert(r) \/ MarkFired(r)
    \/ EmitAndAnswer(r) \/ Redeliver(r)

DonationsNext == \E r \in Req :
    WebhookStep(r) \/ ClaimRead(r) \/ ClaimInvoice(r) \/ DonationDies(r)

(* A webhook is through with the window it opens within a tick.              *)
WindowSoon == \A r \in Req : call[r].op = "webhook" =>
    /\ call[r].pc \notin {"open", "mark"}
    /\ call[r].pc = "insert" => Seen(r).now = clock
=============================================================================
