---------------------------- MODULE TrackerSite ----------------------------
(***************************************************************************)
(* The tracker side of the site: a donation that meets the goal opens the    *)
(* free week (donations, events), the perk tables of the processes follow it *)
(* and the tokens members spend (perks), announces are admitted (seedlock)   *)
(* and credited by those tables (tracker), and the sweep judges what was     *)
(* credited (hitrun).                                                        *)
(***************************************************************************)
EXTENDS Donations, HitRun

vars == <<call, faults, timeVars, windows, donationVars, perkVars, claim, announceVars,
          hitrunVars>>

trackerVars == <<perkVars, claim, announceVars, hitrunVars>>

Init ==
    /\ SiteInit /\ WindowsInit /\ DonationsInit /\ PerksInit /\ SeedLockInit
    /\ AnnounceInit /\ HitRunInit

Next ==
    \/ DonationsNext /\ UNCHANGED trackerVars
    \/ PerksNext /\ UNCHANGED <<donationVars, claim, announceVars, hitrunVars>>
    \/ SeedLockNext /\ UNCHANGED <<windows, donationVars, perkVars, announceVars, hitrunVars>>
    \/ AnnounceNext /\ UNCHANGED <<donationVars, hitrunVars>>
    \/ HitRunNext /\ UNCHANGED <<windows, donationVars, perkVars, claim, announceVars>>
    \/ Tick /\ WindowSoon /\ UNCHANGED <<windows, donationVars, trackerVars>>

Spec == Init /\ [][Next]_vars

(* A handler that began goes on or dies, BTCPay delivers until it is         *)
(* answered, and the refresh of every process keeps ticking.                 *)
HandlerStep(r) ==
    \/ WebhookStep(r) /\ UNCHANGED trackerVars
    \/ TimerStep(r) /\ UNCHANGED <<donationVars, claim, announceVars, hitrunVars>>

Fairness == \A r \in Req : WF_vars(HandlerStep(r))

FairSpec == Spec /\ Fairness

---------------------------------------------------------------------------
(* Types.                                                                    *)
TypeOK ==
    /\ clock \in Nat /\ ticks \in Nat /\ faults \in Nat
    /\ \A w \in windows : w.from \in Nat /\ w.to = w.from + WindowLength
    /\ settled \in [Invoice -> {Unpaid} \cup 0..clock] /\ answered \subseteq Invoice
    /\ fired \in {NoMonth} \cup Nat
    /\ \A d \in donations : d.txid \in Invoice /\ d.usd \in Nat /\ d.at \in 0..clock
    /\ \A t \in tokens : t.who \in Member /\ t.torrent \in Torrent \cup {NoTorrent}
    /\ \A m \in Member : \A t \in Torrent :
          /\ stats[m][t].up \in Nat /\ stats[m][t].down \in Nat
          /\ stats[m][t].seen \in 0..clock
    /\ snatches \in [Torrent -> Nat]

(* "a member is never credited a byte they did not upload, and never charged *)
(* a byte they did not take" (Credit): over all the sessions of their        *)
(* clients, whatever was lost, restarted or expired, the row holds at most   *)
(* what moved, twice for upload once a token doubles it, unless a snapshot   *)
(* was not written.                                                          *)
Doubled(m, t) == \E k \in tokens : k.who = m /\ k.torrent = t /\ k.kind = "upload2x"

CreditHonest == ~lost => \A m \in Member : \A t \in Torrent :
    /\ stats[m][t].up <= (IF Doubled(m, t) THEN 2 ELSE 1) * moved[m][t].up
    /\ stats[m][t].down <= moved[m][t].down

(* Traffic that was not charged was free by a window or a token that was in  *)
(* force when it was credited, in the database and not only in a table that  *)
(* a process read before.                                                    *)
Granted(m, t) ==
    \/ OpenAt(clock) # {}
    \/ \E k \in tokens : k.who = m /\ k.torrent = t /\ k.kind = "freeleech" /\ clock <= k.until

FreeOnlyGranted == \A r \in Req :
    /\ At(r, "client", "credit") /\ call'[r].pc \in {"snatch", "list"}
    /\ Down(r) > 0 /\ stats'[Who(r)][Arg(r).torrent].down = stats[Who(r)][Arg(r).torrent].down
    => Granted(Who(r), Arg(r).torrent)

FreeWasGranted == [][FreeOnlyGranted]_vars

(* "a member with one token clicking twice must not spend it on two          *)
(* torrents" (Spend): every spend that succeeded has a token of its own on   *)
(* its torrent, for good.                                                    *)
Spent(r) == call[r].op = "spend" /\ call[r].pc \in {"reload", "install", "ask", "set", "done"}

SpendsMatch == \A r \in Req : Spent(r) =>
    \E t \in tokens : t.who = Who(r) /\ t.torrent = Arg(r).torrent /\ t.kind = Arg(r).kind

(* What a member spent comes into force in every process, however refreshes  *)
(* and spends overlap.                                                       *)
Refreshed(p) == \E r \in Req : call[r].op = "timer" /\ Arg(r).process = p

SpentApplies == \A p \in Process :
    []<>(Refreshed(p) => \A t \in tokens :
           \/ t.torrent = NoTorrent \/ t.until <= clock
           \/ Perk(t.who, t.torrent, t.kind, t.until) \in perks[p])

(* "5xx so BTCPay retries and the donation isn't lost" (BTCPayWebhook): what *)
(* was paid is recorded in the end, whatever failed or raced on the way.     *)
InvoiceRecorded == \A i \in Invoice :
    (settled[i] # Unpaid /\ \E r \in Req : call[r].op = "webhook" /\ Arg(r).invoice = i) ~> Recorded(i)

(* "a site permanently free from the day it first met its bills" must not be *)
(* (goalRewardDue): a month gets one free week, so far as its marker was     *)
(* read, written and not written over by that of an earlier month, and no    *)
(* window was opened by an insert that reported an error; two callers at     *)
(* once may only overlap.                                                    *)
OneRewardAMonth == ~unmarked => \A v, w \in windows :
    Month(v.from) = Month(w.from) /\ v.from <= w.from => w.from < v.to

(* Who is warned was told, and had the grace to come back from both the      *)
(* notice and the last announce the sweep had read.                          *)
ToldBeforeWarned == \A q \in Pairs : warning[q].issued # Never =>
    /\ notice[q] # Never /\ warning[q].issued - notice[q] >= Grace
    /\ told[q].notices >= 1 \/ broken

(* "a member is warned once per torrent, whatever the job schedule does"     *)
(* (IssueWarning).                                                           *)
WarnedOnce == \A q \in Pairs : told[q].warnings <= 1
=============================================================================
