------------------------- MODULE TrackerSiteProofs --------------------------
(***************************************************************************)
(* Proofs about the tracker site, for every set of members, torrents,      *)
(* processes and plans, any number of faults and any amount of time: a     *)
(* token spent is spent for good, traffic that was free was granted to be, *)
(* nobody is warned untold, nobody is credited or charged more than they   *)
(* moved, and a month gets one free week.                                  *)
(***************************************************************************)
EXTENDS TrackerSite, Sums, TLAPS, WellFoundedInduction

(* A visit's record.                                                        *)
Fields == {"op", "who", "arg", "todo", "pc", "seen"}

IsVisit(c) == c = [f \in Fields |-> c[f]]

Shaped ==
    /\ call = [r \in Req |-> call[r]]
    /\ \A r \in Req : IsVisit(call[r])

(* Who runs what for whom is the plan's.                                    *)
Given == \E p \in Plans : \A r \in Req :
    call[r].op = p[r].op /\ call[r].who = p[r].who /\ call[r].arg = p[r].arg

(* A step of r and of no other visit.                                       *)
MovesOnly(r) ==
    /\ call' = [s \in Req |-> call'[s]]
    /\ \A s \in Req \ {r} : call'[s] = call[s]
    /\ IsVisit(call'[r])
    /\ call'[r].op = call[r].op /\ call'[r].who = call[r].who /\ call'[r].arg = call[r].arg

LEMMA MovedShaped ==
    ASSUME Shaped, Given, NEW r \in Req, MovesOnly(r) PROVE Shaped' /\ Given'
<1>1. Shaped'
  BY DEF Shaped, MovesOnly
<1>2. PICK p \in Plans : \A s \in Req :
        call[s].op = p[s].op /\ call[s].who = p[s].who /\ call[s].arg = p[s].arg
  BY DEF Given
<1>3. \A s \in Req :
        call'[s].op = p[s].op /\ call'[s].who = p[s].who /\ call'[s].arg = p[s].arg
  BY <1>2 DEF MovesOnly
<1> QED
  BY <1>1, <1>3 DEF Given

LEMMA GotoMoves ==
    ASSUME Shaped, NEW r \in Req, NEW x, Goto(r, x)
    PROVE  MovesOnly(r) /\ call'[r].pc = x /\ call'[r].seen = call[r].seen
BY DEF Shaped, MovesOnly, IsVisit, Goto, Fields

LEMMA NoteMoves ==
    ASSUME Shaped, NEW r \in Req, NEW x, NEW s, Note(r, x, s)
    PROVE  MovesOnly(r) /\ call'[r].pc = x /\ call'[r].seen = s
BY DEF Shaped, MovesOnly, IsVisit, Note, Fields

LEMMA BeginMoves ==
    ASSUME Shaped, NEW r \in Req, NEW x, NEW s,
           call' = [call EXCEPT ![r].pc = x, ![r].todo = @ - 1, ![r].seen = s]
    PROVE  MovesOnly(r) /\ call'[r].pc = x /\ call'[r].seen = s
<1>1. call' = [q \in Req |-> call'[q]] /\ \A q \in Req \ {r} : call'[q] = call[q]
  BY DEF Shaped
<1>2. IsVisit(call'[r])
  BY DEF Shaped, IsVisit, Fields
<1>3. call'[r].op = call[r].op /\ call'[r].who = call[r].who /\ call'[r].arg = call[r].arg
  BY DEF Shaped, IsVisit, Fields
<1>4. call'[r].pc = x /\ call'[r].seen = s
  BY DEF Shaped, IsVisit, Fields
<1> QED
  BY <1>1, <1>2, <1>3, <1>4 DEF MovesOnly

Begins(r, x, s) ==
    call' = [call EXCEPT ![r].pc = x, ![r].todo = @ - 1, ![r].seen = s]

Moves(r) ==
    \/ \E x : Goto(r, x)
    \/ \E x, s : Note(r, x, s)
    \/ \E x, s : Begins(r, x, s)

LEMMA MovesMove == ASSUME Shaped, NEW r \in Req, Moves(r) PROVE MovesOnly(r)
<1>1. ASSUME NEW x, Goto(r, x) PROVE MovesOnly(r)
  BY <1>1, GotoMoves
<1>2. ASSUME NEW x, NEW s, Note(r, x, s) PROVE MovesOnly(r)
  BY <1>2, NoteMoves
<1>3. ASSUME NEW x, NEW s, Begins(r, x, s) PROVE MovesOnly(r)
  BY <1>3, BeginMoves DEF Begins
<1> QED
  BY <1>1, <1>2, <1>3 DEF Moves

---------------------------------------------------------------------------
(* Each component moves visits of its own.                                  *)
DonationOps == {"claim", "webhook"}
PerkOps     == {"spend", "timer"}
ClientOps   == {"client", "clear"}
HitRunOps   == {"sweep", "pardon"}

LEMMA DonationMoves ==
    ASSUME Shaped, NEW r \in Req,
           WebhookStep(r) \/ ClaimRead(r) \/ ClaimInvoice(r) \/ DonationDies(r)
    PROVE  call[r].op \in DonationOps /\ MovesOnly(r)
<1>1. call[r].op \in DonationOps
  BY DEF DonationOps, At, WebhookStep, WebhookRead, WebhookFetch, CreateDonation,
     WebhookRecheck, GoalRead, GoalWindow, GoalInsert, MarkFired, EmitAndAnswer, Redeliver,
     ClaimRead, ClaimInvoice, DonationDies
<1>2. ASSUME WebhookRead(r) \/ WebhookFetch(r) \/ CreateDonation(r) \/ WebhookRecheck(r) PROVE Moves(r)
  BY <1>2 DEF Moves, WebhookRead, WebhookFetch, CreateDonation, WebhookRecheck, Answer
<1>3. ASSUME GoalRead(r) \/ GoalWindow(r) \/ GoalInsert(r) PROVE Moves(r)
  BY <1>3 DEF Moves, GoalRead, GoalWindow, GoalInsert, WindowRead, WindowInsert
<1>4. ASSUME MarkFired(r) \/ EmitAndAnswer(r) \/ Redeliver(r) PROVE Moves(r)
  BY <1>4 DEF Moves, MarkFired, EmitAndAnswer, Redeliver, Answer
<1>5. ASSUME ClaimRead(r) \/ ClaimInvoice(r) \/ DonationDies(r) PROVE Moves(r)
  BY <1>5 DEF Moves, ClaimRead, ClaimInvoice, DonationDies, Cut
<1>6. Moves(r)
  BY <1>2, <1>3, <1>4, <1>5 DEF WebhookStep
<1> QED
  BY <1>1, <1>6, MovesMove

LEMMA DonationSteps ==
    ASSUME Shaped, DonationsNext
    PROVE  \E r \in Req : call[r].op \in DonationOps /\ MovesOnly(r)
BY DonationMoves DEF DonationsNext

LEMMA PerkMoves ==
    ASSUME Shaped, NEW r \in Req,
           \/ SpendCheck(r) \/ SpendTake(r) \/ ReloadRead(r) \/ ReloadInstall(r)
           \/ FreeleechRead(r) \/ FreeleechSet(r) \/ TimerAgain(r) \/ SpendDies(r)
    PROVE  call[r].op \in PerkOps /\ MovesOnly(r)
<1>1. call[r].op \in PerkOps
  BY DEF PerkOps, At, SpendCheck, SpendTake, ReloadRead, ReloadInstall, FreeleechRead,
     FreeleechSet, TimerAgain, SpendDies
<1>2. ASSUME SpendCheck(r) \/ SpendTake(r) \/ ReloadRead(r) \/ ReloadInstall(r) PROVE Moves(r)
  BY <1>2 DEF Moves, SpendCheck, SpendTake, ReloadRead, ReloadInstall
<1>3. ASSUME FreeleechRead(r) \/ FreeleechSet(r) \/ TimerAgain(r) \/ SpendDies(r) PROVE Moves(r)
  BY <1>3 DEF Moves, FreeleechRead, FreeleechSet, TimerAgain, SpendDies, Cut
<1>4. Moves(r)
  BY <1>2, <1>3
<1> QED
  BY <1>1, <1>4, MovesMove

LEMMA PerkSteps ==
    ASSUME Shaped, PerksNext
    PROVE  \E r \in Req : call[r].op \in PerkOps /\ MovesOnly(r)
BY PerkMoves DEF PerksNext

LEMMA LockMoves ==
    ASSUME Shaped, NEW r \in Req,
           \/ StopHeld(r) \/ StopRelease(r) \/ AcquireSet(r) \/ AcquireGet(r)
           \/ Decide(r) \/ Refresh(r) \/ ClearClaim(r)
    PROVE  call[r].op \in ClientOps /\ MovesOnly(r)
<1>1. call[r].op \in ClientOps
  BY DEF ClientOps, At, StopHeld, StopRelease, AcquireSet, AcquireGet, Decide, Refresh,
     ClearClaim
<1>2. Moves(r)
  BY DEF Moves, StopHeld, StopRelease, AcquireSet, AcquireGet, Decide, Refresh, ClearClaim
<1> QED
  BY <1>1, <1>2, MovesMove

LEMMA LockSteps ==
    ASSUME Shaped, SeedLockNext
    PROVE  \E r \in Req : call[r].op \in ClientOps /\ MovesOnly(r)
BY LockMoves DEF SeedLockNext

(* The session of a client after it moved m.                                *)
Took(r, m)  == IF m.down > client[Id(r)].left THEN client[Id(r)].left ELSE m.down
After(r, m) ==
    IF client[Id(r)].on
    THEN [on |-> ~m.stop, up |-> client[Id(r)].up + m.up, down |-> client[Id(r)].down + Took(r, m),
          left |-> client[Id(r)].left - Took(r, m)]
    ELSE [on |-> TRUE, up |-> 0, down |-> 0, left |-> client[Id(r)].left]

Told(r, m) == [stop |-> m.stop, up |-> After(r, m).up, down |-> After(r, m).down,
               left |-> After(r, m).left, prev |-> {}, host |-> NoHost]

LEMMA ReportSays ==
    ASSUME NEW r \in Req, Report(r)
    PROVE  \E m \in Arg(r).moves \cup {Nothing} :
              /\ client' = [client EXCEPT ![Id(r)] = After(r, m)]
              /\ Begins(r, "get", Told(r, m))
<1>1. PICK m \in IF client[Id(r)].on THEN Arg(r).moves ELSE {Nothing} :
         LET down == IF m.down > client[Id(r)].left THEN client[Id(r)].left ELSE m.down
             now  == IF client[Id(r)].on
                     THEN [on |-> ~m.stop, up |-> client[Id(r)].up + m.up,
                           down |-> client[Id(r)].down + down, left |-> client[Id(r)].left - down]
                     ELSE [on |-> TRUE, up |-> 0, down |-> 0, left |-> client[Id(r)].left]
         IN  /\ client' = [client EXCEPT ![Id(r)] = now]
             /\ call' = [call EXCEPT ![r].pc = "get", ![r].todo = @ - 1,
                            ![r].seen = [stop |-> m.stop, up |-> now.up, down |-> now.down,
                                         left |-> now.left, prev |-> {}, host |-> NoHost]]
  BY Zenon DEF Report
<1>2. m \in Arg(r).moves \cup {Nothing}
  BY <1>1
<1>3. /\ client' = [client EXCEPT ![Id(r)] = After(r, m)]
      /\ Begins(r, "get", Told(r, m))
  BY <1>1, Zenon DEF After, Took, Told, Begins
<1> QED
  BY <1>2, <1>3

LEMMA AnnounceMoves ==
    ASSUME Shaped, NEW r \in Req,
           \/ Report(r) \/ AnnounceGet(r) \/ AnnouncePut(r) \/ AnnounceCredit(r)
           \/ AnnounceSnatch(r) \/ AnnounceList(r) \/ AnnounceCount(r)
           \/ NextInterval(r) \/ AnnounceDies(r)
    PROVE  call[r].op = "client" /\ MovesOnly(r)
<1>1. call[r].op = "client"
  BY DEF At, Report, AnnounceGet, AnnouncePut, AnnounceCredit, AnnounceSnatch,
     AnnounceList, AnnounceCount, NextInterval, AnnounceDies
<1>2. ASSUME AnnounceGet(r) \/ AnnouncePut(r) \/ AnnounceCredit(r) PROVE Moves(r)
  BY <1>2 DEF Moves, AnnounceGet, AnnouncePut, AnnounceCredit
<1>3. ASSUME AnnounceSnatch(r) \/ AnnounceList(r) \/ AnnounceCount(r) PROVE Moves(r)
  BY <1>3 DEF Moves, AnnounceSnatch, AnnounceList, AnnounceCount
<1>4. ASSUME NextInterval(r) \/ AnnounceDies(r) PROVE Moves(r)
  BY <1>4 DEF Moves, NextInterval, AnnounceDies
<1>5. Moves(r)
  BY <1>2, <1>3, <1>4, ReportSays DEF Moves
<1> QED
  BY <1>1, <1>5, MovesMove

LEMMA AnnounceSteps ==
    ASSUME Shaped, AnnounceNext
    PROVE  \E r \in Req : call[r].op = "client" /\ MovesOnly(r)
BY AnnounceMoves DEF AnnounceNext

LEMMA HitRunMoves ==
    ASSUME Shaped, NEW r \in Req,
           \/ SweepStart(r) \/ SweepExpire(r) \/ SweepRead(r) \/ Judge(r) \/ Tell(r)
           \/ SweepLimit(r) \/ Pardon(r) \/ SweepDies(r)
    PROVE  call[r].op \in HitRunOps /\ MovesOnly(r)
<1>1. call[r].op \in HitRunOps
  BY DEF HitRunOps, At, SweepStart, SweepExpire, SweepRead, Judge, Tell, SweepLimit,
     Pardon, SweepDies
<1>2. ASSUME SweepStart(r) \/ SweepExpire(r) \/ SweepRead(r) \/ Tell(r) PROVE Moves(r)
  BY <1>2 DEF Moves, Begins, SweepStart, SweepExpire, SweepRead, Tell, SweepFails
<1>3. ASSUME Judge(r) PROVE Moves(r)
  BY <1>3 DEF Moves, Judge, SweepFails
<1>4. ASSUME SweepLimit(r) \/ Pardon(r) \/ SweepDies(r) PROVE Moves(r)
  BY <1>4 DEF Moves, SweepLimit, Pardon, SweepDies, SweepFails
<1>5. Moves(r)
  BY <1>2, <1>3, <1>4
<1> QED
  BY <1>1, <1>5, MovesMove

LEMMA HitRunSteps ==
    ASSUME Shaped, HitRunNext
    PROVE  \E r \in Req : call[r].op \in HitRunOps /\ MovesOnly(r)
BY HitRunMoves DEF HitRunNext

---------------------------------------------------------------------------
Frame == Shaped /\ Given

LEMMA InitFrame == ASSUME Init PROVE Frame
<1>1. PICK p \in Plans : call = p
  BY DEF Init, SiteInit, HandlersInit
<1>2. call = [r \in Req |-> Visit(p[r].op, p[r].who, p[r].arg, p[r].todo)]
  BY <1>1, SiteAssumption
<1>3. Shaped
  <2>1. \A r \in Req : IsVisit(call[r])
    BY <1>2 DEF Visit, IsVisit, Fields
  <2>2. call = [r \in Req |-> call[r]]
    BY <1>2
  <2> QED
    BY <2>1, <2>2 DEF Shaped
<1>4. Given
  BY <1>1 DEF Given
<1> QED
  BY <1>3, <1>4 DEF Frame

(* A visit of other operations is not touched.                              *)
Others(ops) == \A s \in Req : call[s].op \in ops => call'[s] = call[s]

(* A component's tables and visits change by its own steps only.            *)
LEMMA Foreign ==
    ASSUME Frame, [Next]_vars
    PROVE  /\ Frame'
           /\ DonationsNext \/ (UNCHANGED <<windows, donationVars>> /\ Others(DonationOps))
           /\ PerksNext \/ (UNCHANGED perkVars /\ Others(PerkOps))
           /\ AnnounceNext \/ (UNCHANGED announceVars
                               /\ (Others(ClientOps) \/ SeedLockNext))
           /\ HitRunNext \/ (UNCHANGED hitrunVars /\ Others(HitRunOps))
           /\ (Tick /\ WindowSoon) \/ UNCHANGED timeVars
<1> USE DEF Frame
<1>1. ASSUME NEW r \in Req, NEW ops, MovesOnly(r), call[r].op \notin ops
      PROVE  Others(ops)
  BY <1>1 DEF MovesOnly, Others
<1>2. ASSUME NEW ops, UNCHANGED call PROVE Others(ops)
  BY <1>2 DEF Others
<1>3. \A r \in Req : MovesOnly(r) => Frame'
  BY MovedShaped
<1>4. UNCHANGED call => Frame'
  BY DEF Shaped, Given
<1>5. CASE DonationsNext /\ UNCHANGED trackerVars
  <2>1. Others(PerkOps) /\ Others(ClientOps) /\ Others(HitRunOps) /\ Frame'
    BY <1>1, <1>3, <1>5, DonationSteps DEF DonationOps, PerkOps, ClientOps, HitRunOps
  <2>2. UNCHANGED timeVars
    BY <1>5 DEF DonationsNext, WebhookStep, WebhookRead, WebhookFetch, CreateDonation,
       WebhookRecheck, GoalRead, GoalWindow, GoalInsert, MarkFired, EmitAndAnswer, Redeliver,
       ClaimRead, ClaimInvoice, DonationDies, WindowRead, WindowInsert
  <2> QED
    BY <1>5, <2>1, <2>2 DEF trackerVars
<1>6. CASE PerksNext /\ UNCHANGED <<donationVars, claim, announceVars, hitrunVars>>
  <2>1. Others(DonationOps) /\ Others(ClientOps) /\ Others(HitRunOps) /\ Frame'
    BY <1>1, <1>3, <1>6, PerkSteps DEF DonationOps, PerkOps, ClientOps, HitRunOps
  <2>2. UNCHANGED <<timeVars, windows>>
    BY <1>6 DEF PerksNext, SpendCheck, SpendTake, ReloadRead, ReloadInstall, FreeleechRead,
       FreeleechSet, TimerAgain, SpendDies
  <2> QED
    BY <1>6, <2>1, <2>2
<1>7. CASE SeedLockNext /\ UNCHANGED <<windows, donationVars, perkVars, announceVars, hitrunVars>>
  <2>1. Others(DonationOps) /\ Others(PerkOps) /\ Others(HitRunOps) /\ Frame'
    BY <1>1, <1>3, <1>7, LockSteps DEF DonationOps, PerkOps, ClientOps, HitRunOps
  <2>2. UNCHANGED timeVars
    BY <1>7 DEF SeedLockNext, StopHeld, StopRelease, AcquireSet, AcquireGet, Decide, Refresh,
       ClearClaim
  <2> QED
    BY <1>7, <2>1, <2>2
<1>8. CASE AnnounceNext /\ UNCHANGED <<donationVars, hitrunVars>>
  <2>1. Others(DonationOps) /\ Others(PerkOps) /\ Others(HitRunOps) /\ Frame'
    BY <1>1, <1>3, <1>8, AnnounceSteps DEF DonationOps, PerkOps, ClientOps, HitRunOps
  <2>2. UNCHANGED <<timeVars, windows, perkVars>>
    BY <1>8 DEF AnnounceNext, Report, AnnounceGet, AnnouncePut, AnnounceCredit, AnnounceSnatch,
       AnnounceList, AnnounceCount, NextInterval, AnnounceDies
  <2> QED
    BY <1>8, <2>1, <2>2
<1>9. CASE HitRunNext /\ UNCHANGED <<windows, donationVars, perkVars, claim, announceVars>>
  <2>1. Others(DonationOps) /\ Others(PerkOps) /\ Others(ClientOps) /\ Frame'
    BY <1>1, <1>3, <1>9, HitRunSteps DEF DonationOps, PerkOps, ClientOps, HitRunOps
  <2>2. UNCHANGED timeVars
    BY <1>9 DEF HitRunNext, SweepStart, SweepExpire, SweepRead, Judge, Tell, SweepLimit, Pardon,
       SweepDies
  <2> QED
    BY <1>9, <2>1, <2>2
<1>10. CASE Tick /\ WindowSoon /\ UNCHANGED <<windows, donationVars, trackerVars>>
  BY <1>2, <1>4, <1>10 DEF Tick, trackerVars
<1>11. CASE UNCHANGED vars
  BY <1>2, <1>4, <1>11 DEF vars
<1> QED
  BY <1>5, <1>6, <1>7, <1>8, <1>9, <1>10, <1>11 DEF Next

LEMMA SameVisits ==
    ASSUME Frame, [Next]_vars
    PROVE  \A s \in Req : /\ call'[s].op = call[s].op /\ call'[s].who = call[s].who
                          /\ call'[s].arg = call[s].arg
<1> USE DEF Frame
<1>1. ASSUME NEW r \in Req, MovesOnly(r), NEW s \in Req
      PROVE  call'[s].op = call[s].op /\ call'[s].who = call[s].who /\ call'[s].arg = call[s].arg
  BY <1>1 DEF MovesOnly
<1>2. UNCHANGED call \/ \E r \in Req : MovesOnly(r)
  BY DonationSteps, PerkSteps, LockSteps, AnnounceSteps, HitRunSteps DEF Next, Tick, vars
<1> QED
  BY <1>1, <1>2

---------------------------------------------------------------------------
(* Time and tokens.                                                         *)
TimeOK == clock \in Nat /\ ticks \in Nat

LEMMA InitTime == ASSUME Init PROVE TimeOK
BY SiteAssumption DEF Init, SiteInit, HandlersInit, TimeOK

LEMMA NextTime ==
    ASSUME Frame, TimeOK, [Next]_vars
    PROVE  TimeOK' /\ clock <= clock'
<1>1. CASE Tick
  BY <1>1 DEF Tick, TimeOK
<1>2. CASE UNCHANGED timeVars
  BY <1>2 DEF timeVars, TimeOK
<1> QED
  BY <1>1, <1>2, Foreign

LEMMA LeastExists ==
    ASSUME NEW S \in SUBSET Nat, S # {} PROVE \E x \in S : \A y \in S : x <= y
<1>1. IsWellFoundedOn(OpToRel(<, Nat), Nat)
  BY NatLessThanWellFounded
<1>2. PICK x \in S : \A y \in S : <<y, x>> \notin OpToRel(<, Nat)
  BY <1>1, WFMin
<1>3. \A y \in S : x <= y
  <2> SUFFICES ASSUME NEW y \in S, y < x PROVE FALSE
    OBVIOUS
  <2>1. <<y, x>> \in OpToRel(<, Nat)
    BY DEF OpToRel
  <2> QED
    BY <2>1, <1>2
<1> QED
  BY <1>3

LEMMA OldestExists ==
    ASSUME NEW S, S # {}, \A t \in S : t.id \in Nat
    PROVE  (CHOOSE t \in S : \A u \in S : t.id <= u.id) \in S
<1> DEFINE I == {t.id : t \in S}
<1>1. I \in SUBSET Nat /\ I # {}
  OBVIOUS
<1>2. PICK x \in I : \A y \in I : x <= y
  BY <1>1, LeastExists
<1>3. \E t \in S : \A u \in S : t.id <= u.id
  BY <1>2
<1> QED
  BY <1>3

TokenFields == {"id", "who", "kind", "torrent", "until"}

IsToken(t) ==
    /\ t = [f \in TokenFields |-> t[f]]
    /\ t.id \in Nat /\ t.who \in Member /\ t.torrent \in Torrent \cup {NoTorrent}

(* Every spend that went through has its token.                             *)
TokenInv == (\A t \in tokens : IsToken(t)) /\ SpendsMatch

LEMMA InitTokensOK == ASSUME Init PROVE TokenInv
<1>1. tokens = {Unused(t) : t \in InitTokens}
  BY DEF Init, PerksInit
<1>2. \A t \in InitTokens : IsToken(Unused(t))
  BY PerkAssumption DEF Unused, IsToken, TokenFields
<1>3. PICK p \in Plans : call = p
  BY DEF Init, SiteInit, HandlersInit
<1>4. call = [r \in Req |-> Visit(p[r].op, p[r].who, p[r].arg, p[r].todo)]
  BY <1>3, SiteAssumption
<1>5. \A r \in Req : call[r].pc = "start"
  BY <1>4 DEF Visit
<1>6. SpendsMatch
  BY <1>5 DEF SpendsMatch, Spent
<1>7. \A t \in tokens : IsToken(t)
  BY <1>1, <1>2
<1> QED
  BY <1>6, <1>7 DEF TokenInv

LEMMA SpendsSomewhere ==
    ASSUME Frame, NEW r \in Req, call[r].op = "spend"
    PROVE  Arg(r).torrent \in Torrent /\ Arg(r).torrent # NoTorrent
<1>1. PICK p \in Plans : call[r].op = p[r].op /\ call[r].arg = p[r].arg
  BY DEF Frame, Given
<1>2. p[r].arg.torrent \in Torrent
  BY <1>1, PerkAssumption
<1> QED
  BY <1>1, <1>2, PerkAssumption DEF Arg

(* The one statement that writes tokens.                                    *)
Takes(r) ==
    /\ At(r, "spend", "take") /\ Goto(r, "reload")
    /\ ~OnTorrent(r)
    /\ \E o \in tokens :
         /\ o.who = Who(r) /\ o.kind = Arg(r).kind /\ o.torrent = NoTorrent
         /\ tokens' = (tokens \ {o}) \cup
                {[o EXCEPT !.torrent = Arg(r).torrent, !.until = clock + TokenLife]}

LEMMA TakeTakes ==
    ASSUME TokenInv, NEW r \in Req, SpendTake(r)
    PROVE  Takes(r) \/ (UNCHANGED tokens /\ Goto(r, "refused"))
<1> DEFINE held == {t \in tokens : t.who = Who(r) /\ t.kind = Arg(r).kind /\ Unspent(t)}
           o == CHOOSE t \in held : \A u \in held : t.id <= u.id
<1>1. At(r, "spend", "take")
  BY DEF SpendTake
<1>2. \/ /\ held # {} /\ ~OnTorrent(r) /\ Goto(r, "reload")
         /\ tokens' = (tokens \ {o}) \cup
                {[o EXCEPT !.torrent = Arg(r).torrent, !.until = clock + TokenLife]}
      \/ UNCHANGED tokens /\ Goto(r, "refused")
  BY DEF SpendTake
<1>3. ASSUME held # {} PROVE o \in held
  <2>1. \A t \in held : t.id \in Nat
    BY DEF TokenInv, IsToken
  <2> QED
    BY <1>3, <2>1, OldestExists
<1>4. ASSUME o \in held
      PROVE  o \in tokens /\ o.who = Who(r) /\ o.kind = Arg(r).kind /\ o.torrent = NoTorrent
  BY <1>4 DEF Unspent
<1> HIDE DEF held, o
<1> QED
  BY <1>1, <1>2, <1>3, <1>4 DEF Takes

LEMMA TakesKeeps ==
    ASSUME Frame, TokenInv, NEW r \in Req, Takes(r)
    PROVE  /\ \A k \in tokens : k.torrent # NoTorrent => k \in tokens'
           /\ TokenInv'
<1> USE DEF Frame
<1>1. PICK o \in tokens :
         /\ o.who = Who(r) /\ o.kind = Arg(r).kind /\ o.torrent = NoTorrent
         /\ tokens' = (tokens \ {o}) \cup
                {[o EXCEPT !.torrent = Arg(r).torrent, !.until = clock + TokenLife]}
  BY DEF Takes
<1> DEFINE n == [o EXCEPT !.torrent = Arg(r).torrent, !.until = clock + TokenLife]
<1>2. IsToken(o)
  BY DEF TokenInv
<1>3. Arg(r).torrent \in Torrent
  BY SpendsSomewhere DEF Takes, At
<1>4. IsToken(n) /\ n.who = o.who /\ n.kind = o.kind /\ n.torrent = Arg(r).torrent
  BY <1>2, <1>3 DEF IsToken, TokenFields
<1> HIDE DEF n
<1>5. tokens' = (tokens \ {o}) \cup {n}
  BY <1>1 DEF n
<1>6. \A k \in tokens : k.torrent # NoTorrent => k \in tokens'
  BY <1>1, <1>5
<1>7. MovesOnly(r) /\ call[r].op = "spend"
  BY GotoMoves DEF Takes, At
<1>8. ASSUME NEW s \in Req, Spent(s)'
      PROVE  \E t \in tokens' :
                t.who = Who(s)' /\ t.torrent = Arg(s)'.torrent /\ t.kind = Arg(s)'.kind
  <2>1. CASE s = r
    <3>1. Who(r)' = Who(r) /\ Arg(r)' = Arg(r)
      BY <1>7 DEF MovesOnly, Who, Arg
    <3> QED
      BY <2>1, <3>1, <1>1, <1>4, <1>5
  <2>2. CASE s # r
    <3>1. call'[s] = call[s]
      BY <2>2, <1>7 DEF MovesOnly
    <3>2. PICK t \in tokens :
             t.who = Who(s) /\ t.torrent = Arg(s).torrent /\ t.kind = Arg(s).kind
      BY <1>8, <3>1 DEF Spent, TokenInv, SpendsMatch
    <3>3. Arg(s).torrent # NoTorrent
      BY <1>8, <3>1, SpendsSomewhere DEF Spent
    <3>4. t \in tokens'
      BY <3>2, <3>3, <1>6
    <3> QED
      BY <3>1, <3>2, <3>4 DEF Who, Arg
  <2> QED
    BY <2>1, <2>2
<1>9. \A t \in tokens' : IsToken(t)
  BY <1>4, <1>5 DEF TokenInv
<1> QED
  BY <1>6, <1>8, <1>9 DEF TokenInv, SpendsMatch

(* Whatever else happens, no visit comes to have spent.                     *)
LEMMA SpendsStay ==
    ASSUME Frame, TokenInv, UNCHANGED tokens,
           Frame', \A s \in Req : /\ call'[s].op = call[s].op
                                  /\ call'[s].who = call[s].who /\ call'[s].arg = call[s].arg
                                  /\ Spent(s)' => Spent(s)
    PROVE  TokenInv'
<1>1. \A t \in tokens' : IsToken(t)
  BY DEF TokenInv
<1>2. ASSUME NEW s \in Req, Spent(s)'
      PROVE  \E t \in tokens' :
                t.who = Who(s)' /\ t.torrent = Arg(s)'.torrent /\ t.kind = Arg(s)'.kind
  BY <1>2 DEF TokenInv, SpendsMatch, Who, Arg
<1> QED
  BY <1>1, <1>2 DEF TokenInv, SpendsMatch

LEMMA NextTokens ==
    ASSUME Frame, TokenInv, [Next]_vars
    PROVE  /\ \A k \in tokens : k.torrent # NoTorrent => k \in tokens'
           /\ TokenInv'
<1> USE DEF Frame
<1>0. Frame' /\ \A s \in Req : /\ call'[s].op = call[s].op /\ call'[s].who = call[s].who
                               /\ call'[s].arg = call[s].arg
  BY Foreign, SameVisits
<1>1. CASE UNCHANGED perkVars /\ Others(PerkOps)
  <2>1. \A s \in Req : Spent(s)' => Spent(s)
    BY <1>0, <1>1 DEF Others, PerkOps, Spent
  <2> QED
    BY <1>0, <1>1, <2>1, SpendsStay DEF perkVars
<1>2. CASE PerksNext
  <2>1. PICK r \in Req :
             \/ SpendCheck(r) \/ SpendTake(r) \/ ReloadRead(r) \/ ReloadInstall(r)
             \/ FreeleechRead(r) \/ FreeleechSet(r) \/ TimerAgain(r) \/ SpendDies(r)
    BY <1>2 DEF PerksNext
  <2>2. CASE Takes(r)
    BY <2>2, TakesKeeps
  <2>3. CASE ~Takes(r)
    <3>1. UNCHANGED tokens
      BY <2>1, <2>3, TakeTakes DEF SpendCheck, ReloadRead, ReloadInstall, FreeleechRead,
         FreeleechSet, TimerAgain, SpendDies, perkVars
    <3>2. \/ Spent(r) \/ call[r].op = "timer"
          \/ Goto(r, "refused") \/ Goto(r, "take") \/ Goto(r, "dead")
      BY <2>1, <2>3, TakeTakes DEF SpendCheck, ReloadRead, ReloadInstall, FreeleechRead,
         FreeleechSet, TimerAgain, SpendDies, Cut, At, Spent
    <3>3. MovesOnly(r)
      BY <2>1, PerkMoves
    <3>4. ASSUME NEW s \in Req, Spent(s)' PROVE Spent(s)
      <4>1. CASE s # r
        BY <3>3, <3>4, <4>1 DEF MovesOnly, Spent
      <4>2. CASE Goto(r, "refused") \/ Goto(r, "take") \/ Goto(r, "dead")
        <5>1. call'[r].pc \in {"refused", "take", "dead"}
          BY <4>2, GotoMoves
        <5> QED
          BY <3>4, <4>1, <5>1 DEF Spent
      <4> QED
        BY <1>0, <3>2, <3>4, <4>1, <4>2 DEF Spent
    <3> QED
      BY <1>0, <3>1, <3>4, SpendsStay
  <2> QED
    BY <2>2, <2>3
<1> QED
  BY <1>1, <1>2, Foreign

(* "a member with one token clicking twice must not spend it on two         *)
(* torrents": a spend that went through has a token of its own, for good.   *)
THEOREM SpendsHaveTokens == Spec => []SpendsMatch
<1>1. Init => Frame /\ TokenInv
  BY InitFrame, InitTokensOK
<1>2. Frame /\ TokenInv /\ [Next]_vars => (Frame /\ TokenInv)'
  BY Foreign, NextTokens
<1>3. TokenInv => SpendsMatch
  BY DEF TokenInv
<1> QED
  BY <1>1, <1>2, <1>3, PTL DEF Spec

---------------------------------------------------------------------------
(* Windows, and what the handlers that open them have read.                 *)
IsWindow(w) == w.from \in Nat /\ w.to = w.from + WindowLength

GoalSeen(r) ==
    /\ call[r].pc \in {"open", "insert"} =>
          Seen(r) = [now |-> Seen(r).now, month |-> Seen(r).month]
    /\ call[r].pc \in {"open", "insert", "mark"} => Seen(r).month \in Nat
    /\ call[r].pc = "insert" => Seen(r).now \in Nat

WindowInv ==
    /\ \A w \in windows : IsWindow(w)
    /\ \A r \in Req : call[r].op = "webhook" => GoalSeen(r)

LEMMA InitStarts ==
    ASSUME Init PROVE \A r \in Req : call[r].pc = "start"
<1>1. PICK p \in Plans : call = p
  BY DEF Init, SiteInit, HandlersInit
<1>2. call = [r \in Req |-> Visit(p[r].op, p[r].who, p[r].arg, p[r].todo)]
  BY <1>1, SiteAssumption
<1> QED
  BY <1>2 DEF Visit

LEMMA InitWindowsOK == ASSUME Init PROVE WindowInv
<1>1. call \in Plans /\ windows = InitWindows[call]
  BY DEF Init, WindowsInit, SiteInit, HandlersInit
<1> QED
  BY <1>1, InitStarts, WindowAssumption DEF WindowInv, IsWindow, GoalSeen

LEMMA MonthIsNat == ASSUME TimeOK PROVE Month(clock) \in Nat
<1>1. clock \in Nat /\ MonthLength \in Nat \ {0}
  BY DonationAssumption DEF TimeOK
<1> QED
  BY <1>1 DEF Month

(* A step of the webhook: windows are added only, and what is seen is kept. *)
LEMMA WebhookWindows ==
    ASSUME Frame, TimeOK, WindowInv, NEW r \in Req,
           WebhookStep(r) \/ ClaimRead(r) \/ ClaimInvoice(r) \/ DonationDies(r)
    PROVE  /\ MovesOnly(r)
           /\ call[r].op = "webhook" => GoalSeen(r)'
           /\ windows \subseteq windows'
           /\ \A w \in windows' : IsWindow(w)
<1> USE DEF Frame
<1>1. MovesOnly(r)
  BY DonationMoves
<1>2. ASSUME NEW x, Goto(r, x), x \notin {"open", "insert", "mark"}
      PROVE GoalSeen(r)'
  <2>1. call'[r].pc = x
    BY <1>2, GotoMoves
  <2> QED
    BY <1>2, <2>1 DEF GoalSeen
<1>3. CASE GoalRead(r)
  <2>1. UNCHANGED windows
    BY <1>3 DEF GoalRead
  <2>2. Goto(r, "emit") \/ Note(r, "open", [now |-> clock, month |-> Month(clock)])
    BY <1>3 DEF GoalRead
  <2>3. CASE Note(r, "open", [now |-> clock, month |-> Month(clock)])
    <3>1. call'[r].pc = "open" /\ call'[r].seen = [now |-> clock, month |-> Month(clock)]
      BY <2>3, NoteMoves
    <3>2. GoalSeen(r)'
      BY <3>1, MonthIsNat DEF GoalSeen, Seen
    <3> QED
      BY <1>1, <2>1, <3>2 DEF WindowInv
  <2> QED
    BY <1>1, <1>2, <2>1, <2>2, <2>3 DEF WindowInv
<1>4. CASE GoalWindow(r)
  <2>1. UNCHANGED windows /\ call[r].op = "webhook" /\ call[r].pc = "open"
    BY <1>4 DEF GoalWindow, WindowRead, At
  <2>2. \/ Goto(r, "mark") \/ Goto(r, "emit")
        \/ Note(r, "insert", [Seen(r) EXCEPT !.now = clock])
    BY <1>4 DEF GoalWindow, WindowRead
  <2>3. GoalSeen(r)
    BY <2>1 DEF WindowInv
  <2>4. CASE Note(r, "insert", [Seen(r) EXCEPT !.now = clock])
    <3>1. call'[r].pc = "insert" /\ call'[r].seen = [Seen(r) EXCEPT !.now = clock]
      BY <2>4, NoteMoves
    <3>2. Seen(r) = [now |-> Seen(r).now, month |-> Seen(r).month] /\ Seen(r).month \in Nat
      BY <2>1, <2>3 DEF GoalSeen
    <3>3. [Seen(r) EXCEPT !.now = clock] = [now |-> clock, month |-> Seen(r).month]
      BY <3>2
    <3>4. GoalSeen(r)'
      BY <3>1, <3>2, <3>3 DEF GoalSeen, Seen, TimeOK
    <3> QED
      BY <1>1, <2>1, <3>4 DEF WindowInv
  <2>5. CASE Goto(r, "mark")
    <3>1. call'[r].pc = "mark" /\ call'[r].seen = call[r].seen
      BY <2>5, GotoMoves
    <3>2. GoalSeen(r)'
      BY <2>1, <2>3, <3>1 DEF GoalSeen, Seen
    <3> QED
      BY <1>1, <2>1, <3>2 DEF WindowInv
  <2>6. CASE Goto(r, "emit")
    BY <1>1, <1>2, <2>1, <2>6 DEF WindowInv
  <2> QED
    BY <2>2, <2>4, <2>5, <2>6
<1>5. CASE GoalInsert(r)
  <2>1. call[r].op = "webhook" /\ call[r].pc = "insert"
    BY <1>5 DEF GoalInsert, At
  <2>2. \/ UNCHANGED windows
        \/ windows' = windows \cup {Window(Seen(r).now)}
    BY <1>5 DEF GoalInsert, WindowInsert, Inserted
  <2>3. GoalSeen(r)
    BY <2>1 DEF WindowInv
  <2>4. Seen(r).now \in Nat
    BY <2>1, <2>3 DEF GoalSeen
  <2>5. IsWindow(Window(Seen(r).now))
    BY <2>4 DEF IsWindow, Window
  <2>6. windows \subseteq windows' /\ \A w \in windows' : IsWindow(w)
    BY <2>2, <2>5 DEF WindowInv
  <2>7. Goto(r, "mark") \/ Goto(r, "emit")
    BY <1>5 DEF GoalInsert, WindowInsert
  <2>8. CASE Goto(r, "mark")
    <3>1. call'[r].pc = "mark" /\ call'[r].seen = call[r].seen
      BY <2>8, GotoMoves
    <3>2. GoalSeen(r)'
      BY <2>1, <2>3, <3>1 DEF GoalSeen, Seen
    <3> QED
      BY <1>1, <2>6, <3>2
  <2>9. CASE Goto(r, "emit")
    BY <1>1, <1>2, <2>6, <2>9
  <2> QED
    BY <2>7, <2>8, <2>9
<1>6. CASE WebhookFetch(r)
  <2>1. UNCHANGED windows
    BY <1>6 DEF WebhookFetch
  <2>2. \E s : Note(r, "create", s)
    BY <1>6 DEF WebhookFetch
  <2>3. call'[r].pc = "create"
    BY <2>2, NoteMoves
  <2>4. GoalSeen(r)'
    BY <2>3 DEF GoalSeen
  <2> QED
    BY <1>1, <2>1, <2>4 DEF WindowInv
<1>7. CASE ~(GoalRead(r) \/ GoalWindow(r) \/ GoalInsert(r) \/ WebhookFetch(r))
  <2>1. UNCHANGED windows
    BY <1>7 DEF WebhookStep, WebhookRead, CreateDonation, WebhookRecheck, MarkFired,
       EmitAndAnswer, Redeliver, ClaimRead, ClaimInvoice, DonationDies
  <2>2. \E x : Goto(r, x) /\ x \notin {"open", "insert", "mark"}
    <3>1. CASE WebhookRead(r) \/ CreateDonation(r) \/ WebhookRecheck(r)
      BY <3>1 DEF WebhookRead, CreateDonation, WebhookRecheck, Answer
    <3>2. CASE MarkFired(r) \/ EmitAndAnswer(r) \/ Redeliver(r)
      BY <3>2 DEF MarkFired, EmitAndAnswer, Redeliver, Answer
    <3>3. CASE ClaimRead(r) \/ ClaimInvoice(r) \/ DonationDies(r)
      BY <3>3 DEF ClaimRead, ClaimInvoice, DonationDies, Cut
    <3> QED
      BY <1>7, <3>1, <3>2, <3>3 DEF WebhookStep
  <2>3. GoalSeen(r)'
    BY <1>2, <2>2
  <2> QED
    BY <1>1, <2>1, <2>3 DEF WindowInv
<1> QED
  BY <1>3, <1>4, <1>5, <1>6, <1>7

LEMMA NextWindows ==
    ASSUME Frame, TimeOK, WindowInv, [Next]_vars
    PROVE  WindowInv' /\ windows \subseteq windows'
<1>1. \A s \in Req : call'[s].op = call[s].op
  BY SameVisits
<1>2. CASE UNCHANGED <<windows, donationVars>> /\ Others(DonationOps)
  <2>1. ASSUME NEW s \in Req, call'[s].op = "webhook" PROVE GoalSeen(s)'
    <3>1. call'[s] = call[s] /\ GoalSeen(s)
      BY <1>1, <1>2, <2>1 DEF Others, DonationOps, WindowInv
    <3> QED
      BY <3>1 DEF GoalSeen, Seen
  <2> QED
    BY <1>2, <2>1 DEF WindowInv
<1>3. CASE DonationsNext
  <2>1. PICK r \in Req :
             WebhookStep(r) \/ ClaimRead(r) \/ ClaimInvoice(r) \/ DonationDies(r)
    BY <1>3 DEF DonationsNext
  <2>2. /\ MovesOnly(r)
        /\ call[r].op = "webhook" => GoalSeen(r)'
        /\ windows \subseteq windows'
        /\ \A w \in windows' : IsWindow(w)
    BY <2>1, WebhookWindows
  <2>3. ASSUME NEW s \in Req, call'[s].op = "webhook" PROVE GoalSeen(s)'
    <3>1. CASE s = r
      BY <1>1, <2>2, <2>3, <3>1
    <3>2. CASE s # r
      <4>1. call'[s] = call[s] /\ GoalSeen(s)
        BY <2>2, <2>3, <3>2 DEF MovesOnly, WindowInv
      <4> QED
        BY <4>1 DEF GoalSeen, Seen
    <3> QED
      BY <3>1, <3>2
  <2> QED
    BY <2>2, <2>3 DEF WindowInv
<1> QED
  BY <1>2, <1>3, Foreign


---------------------------------------------------------------------------
(* The tables of the processes: whatever they hold was granted.             *)
Backed(a) == \E k \in tokens :
    k.torrent # NoTorrent /\ a = Perk(k.who, k.torrent, k.kind, k.until)

Opened(u) == \E w \in windows : w.from <= clock /\ w.to = u

Carries(r) ==
    /\ call[r].pc = "install" => \A a \in Seen(r).perks : Backed(a)
    /\ call[r].pc = "set" => Seen(r).until = 0 \/ Opened(Seen(r).until)

TimeTold(p) == freeUntil[p] = 0 \/ Opened(freeUntil[p])

TableInv ==
    /\ perks = [p \in Process |-> perks[p]]
    /\ freeUntil = [p \in Process |-> freeUntil[p]]
    /\ \A p \in Process : \A a \in perks[p] : Backed(a)
    /\ \A p \in Process : TimeTold(p)
    /\ \A r \in Req : call[r].op \in PerkOps => Carries(r)

LEMMA InitTables == ASSUME Init PROVE TableInv
<1>1. perks = [p \in Process |-> {}] /\ freeUntil = [p \in Process |-> 0]
  BY DEF Init, PerksInit
<1> QED
  BY <1>1, InitStarts DEF TableInv, TimeTold, Carries

(* What was granted stays granted: tokens spent and windows are kept.       *)
Grows ==
    /\ \A k \in tokens : k.torrent # NoTorrent => k \in tokens'
    /\ windows \subseteq windows'
    /\ clock <= clock'

LEMMA GrantsStay ==
    ASSUME Grows, TimeOK, TimeOK', WindowInv
    PROVE  /\ \A a : Backed(a) => Backed(a)'
           /\ \A u : Opened(u) => Opened(u)'
<1>1. ASSUME NEW a, Backed(a) PROVE Backed(a)'
  BY <1>1 DEF Backed, Grows, Perk
<1>2. ASSUME NEW u, Opened(u) PROVE Opened(u)'
  <2>1. PICK w \in windows : w.from <= clock /\ w.to = u
    BY <1>2 DEF Opened
  <2>2. w \in windows' /\ w.from <= clock'
    BY <2>1 DEF Grows, TimeOK, WindowInv, IsWindow
  <2> QED
    BY <2>1, <2>2 DEF Opened
<1> QED
  BY <1>1, <1>2

LEMMA EndsIsOpen ==
    ASSUME TimeOK, WindowInv
    PROVE  Ends(clock) = 0 \/ Opened(Ends(clock))
<1>1. CASE OpenAt(clock) = {}
  BY <1>1 DEF Ends
<1>2. CASE OpenAt(clock) # {}
  <2> DEFINE S == {clock - w.from : w \in OpenAt(clock)}
             c == CHOOSE w \in OpenAt(clock) : \A v \in OpenAt(clock) : v.from <= w.from
  <2>1. \A w \in OpenAt(clock) : w \in windows /\ w.from \in Nat /\ w.from <= clock
    BY DEF OpenAt, WindowInv, IsWindow
  <2>2. S \in SUBSET Nat /\ S # {}
    BY <1>2, <2>1 DEF TimeOK
  <2>3. PICK x \in S : \A y \in S : x <= y
    BY <2>2, LeastExists
  <2>4. PICK w \in OpenAt(clock) : x = clock - w.from
    BY <2>3
  <2>5. ASSUME NEW v \in OpenAt(clock) PROVE v.from <= w.from
    <3>1. clock - w.from <= clock - v.from
      BY <2>3, <2>4
    <3> QED
      BY <2>1, <3>1 DEF TimeOK
  <2>6. c \in OpenAt(clock)
    BY <2>4, <2>5
  <2>7. Ends(clock) = c.to
    BY <1>2 DEF Ends
  <2> HIDE DEF c, S
  <2> QED
    BY <2>1, <2>6, <2>7 DEF Opened
<1> QED
  BY <1>1, <1>2

(* A step of a spend or of a timer.                                         *)
LEMMA PerkTables ==
    ASSUME Frame, TimeOK, TimeOK', WindowInv, TableInv, Grows, UNCHANGED <<timeVars, windows>>,
           NEW r \in Req,
           \/ SpendCheck(r) \/ SpendTake(r) \/ ReloadRead(r) \/ ReloadInstall(r)
           \/ FreeleechRead(r) \/ FreeleechSet(r) \/ TimerAgain(r) \/ SpendDies(r)
    PROVE  /\ Carries(r)'
           /\ perks' = [p \in Process |-> perks'[p]]
           /\ freeUntil' = [p \in Process |-> freeUntil'[p]]
           /\ \A p \in Process : \A a \in perks'[p] : Backed(a)'
           /\ \A p \in Process : TimeTold(p)'
<1> USE DEF Frame
<1>1. /\ \A a : Backed(a) => Backed(a)'
      /\ \A u : Opened(u) => Opened(u)'
  BY GrantsStay
<1>2. call[r].op \in PerkOps /\ MovesOnly(r)
  BY PerkMoves
<1>3. Carries(r)
  BY <1>2 DEF TableInv
<1>4. ASSUME UNCHANGED perks
      PROVE  /\ perks' = [p \in Process |-> perks'[p]]
             /\ \A p \in Process : \A a \in perks'[p] : Backed(a)'
  BY <1>1, <1>4 DEF TableInv
<1>5. ASSUME UNCHANGED freeUntil
      PROVE  /\ freeUntil' = [p \in Process |-> freeUntil'[p]]
             /\ \A p \in Process : TimeTold(p)'
  BY <1>1, <1>5 DEF TableInv, TimeTold, Opened
<1>6. ASSUME NEW x, Goto(r, x), x \notin {"install", "set"} PROVE Carries(r)'
  <2>1. call'[r].pc = x
    BY <1>6, GotoMoves
  <2> QED
    BY <1>6, <2>1 DEF Carries
<1>7. CASE ReloadInstall(r)
  <2>1. call[r].pc = "install" /\ Goto(r, "ask") /\ UNCHANGED freeUntil
    BY <1>7 DEF ReloadInstall
  <2>2. perks' = [perks EXCEPT ![Reloader(r)] = Seen(r).perks]
    BY <1>7 DEF ReloadInstall, Installed
  <2>3. \A a \in Seen(r).perks : Backed(a)
    BY <1>3, <2>1 DEF Carries
  <2>4. perks' = [p \in Process |-> IF p = Reloader(r) THEN Seen(r).perks ELSE perks[p]]
    BY <2>2 DEF TableInv
  <2>5. \A p \in Process : \A a \in perks'[p] : Backed(a)'
    BY <1>1, <2>3, <2>4 DEF TableInv
  <2>6. perks' = [p \in Process |-> perks'[p]]
    BY <2>4
  <2> QED
    BY <1>5, <1>6, <2>1, <2>5, <2>6
<1>8. CASE FreeleechSet(r)
  <2>1. call[r].pc = "set" /\ Goto(r, "done") /\ UNCHANGED perks
    BY <1>8 DEF FreeleechSet
  <2>2. freeUntil' = [freeUntil EXCEPT ![Reloader(r)] = Seen(r).until]
    BY <1>8 DEF FreeleechSet
  <2>3. Seen(r).until = 0 \/ Opened(Seen(r).until)
    BY <1>3, <2>1 DEF Carries
  <2>4. freeUntil' = [p \in Process |-> IF p = Reloader(r) THEN Seen(r).until ELSE freeUntil[p]]
    BY <2>2 DEF TableInv
  <2>5. ASSUME NEW p \in Process PROVE TimeTold(p)'
    <3>1. freeUntil'[p] \in {Seen(r).until, freeUntil[p]}
      BY <2>4
    <3>2. freeUntil[p] = 0 \/ Opened(freeUntil[p])
      BY DEF TableInv, TimeTold
    <3> QED
      BY <1>1, <2>3, <3>1, <3>2 DEF TimeTold, Opened
  <2>6. freeUntil' = [p \in Process |-> freeUntil'[p]]
    BY <2>4
  <2> QED
    BY <1>4, <1>6, <2>1, <2>5, <2>6
<1>9. CASE ReloadRead(r)
  <2>1. UNCHANGED <<perks, freeUntil, tokens>>
    BY <1>9 DEF ReloadRead, perkVars
  <2>2. Goto(r, "done") \/ Note(r, "install", [perks |-> InForce])
    BY <1>9 DEF ReloadRead
  <2>3. CASE Note(r, "install", [perks |-> InForce])
    <3>1. call'[r].pc = "install" /\ call'[r].seen = [perks |-> InForce]
      BY <2>3, NoteMoves
    <3>2. \A a \in InForce : Backed(a)
      BY DEF InForce, Backed
    <3>3. \A a \in InForce : Backed(a)'
      BY <1>1, <3>2
    <3>4. Seen(r)'.perks = InForce
      BY <3>1 DEF Seen
    <3>5. Carries(r)'
      BY <3>1, <3>3, <3>4 DEF Carries, Seen
    <3> QED
      BY <1>4, <1>5, <2>1, <3>5
  <2> QED
    BY <1>4, <1>5, <1>6, <2>1, <2>2, <2>3
<1>10. CASE FreeleechRead(r)
  <2>1. UNCHANGED <<perks, freeUntil>>
    BY <1>10 DEF FreeleechRead, perkVars
  <2>2. Goto(r, "done") \/ Note(r, "set", [until |-> Ends(clock)])
    BY <1>10 DEF FreeleechRead
  <2>3. CASE Note(r, "set", [until |-> Ends(clock)])
    <3>1. call'[r].pc = "set" /\ call'[r].seen = [until |-> Ends(clock)]
      BY <2>3, NoteMoves
    <3>2. Ends(clock) = 0 \/ Opened(Ends(clock))
      BY EndsIsOpen
    <3>3. Seen(r)'.until = Ends(clock)
      BY <3>1 DEF Seen
    <3>4. Carries(r)'
      BY <1>1, <3>1, <3>2, <3>3 DEF Carries, Opened
    <3> QED
      BY <1>4, <1>5, <2>1, <3>4
  <2> QED
    BY <1>4, <1>5, <1>6, <2>1, <2>2, <2>3
<1>11. CASE ~(ReloadRead(r) \/ ReloadInstall(r) \/ FreeleechRead(r) \/ FreeleechSet(r))
  <2>1. UNCHANGED <<perks, freeUntil>>
    BY <1>11 DEF SpendCheck, SpendTake, TimerAgain, SpendDies, perkVars
  <2>2. \E x : Goto(r, x) /\ x \notin {"install", "set"}
    <3>1. CASE SpendCheck(r) \/ SpendTake(r)
      <4>1. Goto(r, "refused") \/ Goto(r, "take") \/ Goto(r, "reload")
        BY <3>1 DEF SpendCheck, SpendTake
      <4> QED
        BY <4>1
    <3>2. CASE TimerAgain(r) \/ SpendDies(r)
      BY <3>2 DEF TimerAgain, SpendDies, Cut
    <3> QED
      BY <1>11, <3>1, <3>2
  <2> QED
    BY <1>4, <1>5, <1>6, <2>1, <2>2
<1> QED
  BY <1>7, <1>8, <1>9, <1>10, <1>11

LEMMA NextTables ==
    ASSUME Frame, TimeOK, TokenInv, WindowInv, TableInv, [Next]_vars
    PROVE  TableInv'
<1>1. TimeOK' /\ Grows
  BY NextTime, NextTokens, NextWindows DEF Grows
<1>2. /\ \A a : Backed(a) => Backed(a)'
      /\ \A u : Opened(u) => Opened(u)'
  BY <1>1, GrantsStay
<1>3. \A s \in Req : call'[s].op = call[s].op
  BY SameVisits
<1>4. ASSUME NEW s \in Req, call[s].op \in PerkOps, call'[s] = call[s] PROVE Carries(s)'
  <2>1. Carries(s) /\ Seen(s)' = Seen(s)
    BY <1>4 DEF TableInv, Seen
  <2> QED
    BY <1>2, <1>4, <2>1 DEF Carries
<1>5. CASE UNCHANGED perkVars /\ Others(PerkOps)
  <2>1. \A s \in Req : call'[s].op \in PerkOps => Carries(s)'
    BY <1>3, <1>4, <1>5 DEF Others
  <2>2. UNCHANGED <<perks, freeUntil>>
    BY <1>5 DEF perkVars
  <2>3. \A p \in Process : TimeTold(p)'
    BY <1>2, <2>2 DEF TableInv, TimeTold, Opened
  <2> QED
    BY <1>2, <2>1, <2>2, <2>3 DEF TableInv
<1>6. CASE PerksNext
  <2>1. PICK r \in Req :
             \/ SpendCheck(r) \/ SpendTake(r) \/ ReloadRead(r) \/ ReloadInstall(r)
             \/ FreeleechRead(r) \/ FreeleechSet(r) \/ TimerAgain(r) \/ SpendDies(r)
    BY <1>6 DEF PerksNext
  <2>2. UNCHANGED <<timeVars, windows>>
    BY <2>1 DEF SpendCheck, SpendTake, ReloadRead, ReloadInstall, FreeleechRead, FreeleechSet,
       TimerAgain, SpendDies
  <2>3. /\ Carries(r)'
        /\ perks' = [p \in Process |-> perks'[p]]
        /\ freeUntil' = [p \in Process |-> freeUntil'[p]]
        /\ \A p \in Process : \A a \in perks'[p] : Backed(a)'
        /\ \A p \in Process : TimeTold(p)'
    BY <1>1, <2>1, <2>2, PerkTables
  <2>4. MovesOnly(r)
    BY <2>1, PerkMoves DEF Frame
  <2>5. \A s \in Req : call'[s].op \in PerkOps => Carries(s)'
    BY <1>3, <1>4, <2>3, <2>4 DEF MovesOnly
  <2> QED
    BY <2>3, <2>5 DEF TableInv
<1> QED
  BY <1>5, <1>6, Foreign


---------------------------------------------------------------------------
(* The announce: totals are numbers, in a report, in the swarm, in the row. *)
StatRow == [up : Nat, down : Nat, completed : BOOLEAN, seen : Nat]
Session == [on : BOOLEAN, up : Nat, down : Nat, left : Nat]

IsPeer(p) == p.up \in Nat /\ p.down \in Nat /\ p.completed \in BOOLEAN

ReportFields == {"stop", "up", "down", "left", "prev", "host"}

IsReport(s) ==
    /\ s = [f \in ReportFields |-> s[f]]
    /\ s.stop \in BOOLEAN /\ s.up \in Nat /\ s.down \in Nat /\ s.left \in Nat
    /\ \A p \in s.prev : IsPeer(p)

Announcing == {"get", "held", "release", "acquire", "holder", "ttl", "refresh", "put", "credit"}

Reports(r) == call[r].pc \in Announcing => IsReport(Seen(r))

IsSwarm(w) ==
    /\ w = [peers |-> w.peers, until |-> w.until]
    /\ \A id \in DOMAIN w.peers : IsPeer(w.peers[id])

ClientsOK == \A r \in Req : call[r].op = "client" =>
    Id(r) \in DOMAIN client /\ client[Id(r)] \in Session

SwarmsOK == swarm = [t \in Torrent |-> swarm[t]] /\ \A t \in Torrent : IsSwarm(swarm[t])

RowsOK ==
    /\ stats \in [Member -> [Torrent -> StatRow]]
    /\ \A m \in Member : \A t \in Torrent : stats[m][t].seen <= clock

AnnounceInv ==
    /\ RowsOK /\ ClientsOK /\ SwarmsOK
    /\ snatches \in [Torrent -> Nat]
    /\ \A r \in Req : call[r].op = "client" => Reports(r)

LEMMA InitAnnounceOK == ASSUME Init PROVE AnnounceInv
<1>1. call \in Plans /\ clock = 0
  BY DEF Init, SiteInit, HandlersInit
<1>2. /\ stats = InitStats[call]
      /\ swarm = [t \in Torrent |-> [peers |-> NoPeers, until |-> 0]]
      /\ snatches = [t \in Torrent |-> 0]
      /\ client = [id \in Ids |-> [on |-> FALSE, up |-> 0, down |-> 0, left |-> 1]]
  BY DEF Init, AnnounceInit
<1>3. stats \in [Member -> [Torrent -> [up : Nat, down : Nat, completed : BOOLEAN, seen : {0}]]]
  BY <1>1, <1>2, AnnounceAssumption
<1>4. RowsOK
  <2>1. stats \in [Member -> [Torrent -> StatRow]]
    BY <1>3 DEF StatRow
  <2>2. \A m \in Member : \A t \in Torrent : stats[m][t].seen = 0
    BY <1>3
  <2> QED
    BY <1>1, <2>1, <2>2 DEF RowsOK
<1>5. ClientsOK
  <2> SUFFICES ASSUME NEW r \in Req, call[r].op = "client"
               PROVE  Id(r) \in DOMAIN client /\ client[Id(r)] \in Session
    BY DEF ClientsOK
  <2>1. Id(r) \in Ids
    BY DEF Ids
  <2> QED
    BY <1>2, <2>1 DEF Session
<1>6. SwarmsOK
  BY <1>2 DEF SwarmsOK, IsSwarm, NoPeers
<1>7. \A r \in Req : Reports(r)
  BY InitStarts DEF Reports, Announcing
<1> QED
  BY <1>2, <1>4, <1>5, <1>6, <1>7 DEF AnnounceInv

LEMMA ClientGiven ==
    ASSUME Frame, NEW r \in Req
    PROVE  /\ Who(r) \in Member
           /\ call[r].op = "client" =>
                 /\ Arg(r).torrent \in Torrent /\ Arg(r).process \in Process
                 /\ Arg(r).moves \subseteq [up : Nat, down : Nat, stop : BOOLEAN]
           /\ call[r].op = "webhook" => Arg(r).invoice \in Invoice
           /\ call[r].op = "claim" => Arg(r).invoice \in Invoice
<1>1. PICK p \in Plans :
        call[r].op = p[r].op /\ call[r].who = p[r].who /\ call[r].arg = p[r].arg
  BY DEF Frame, Given
<1> QED
  BY <1>1, SiteAssumption, AnnounceAssumption, DonationAssumption DEF Who, Arg

LEMMA ReportTypes ==
    ASSUME Frame, AnnounceInv, NEW r \in Req, Report(r)
    PROVE  Reports(r)' /\ ClientsOK'
<1>1. call[r].op = "client"
  BY DEF Report, At
<1>2. PICK m \in Arg(r).moves \cup {Nothing} :
         /\ client' = [client EXCEPT ![Id(r)] = After(r, m)]
         /\ Begins(r, "get", Told(r, m))
  BY ReportSays
<1>3. m \in [up : Nat, down : Nat, stop : BOOLEAN]
  <2>1. Nothing \in [up : Nat, down : Nat, stop : BOOLEAN]
    BY DEF Nothing
  <2>2. Arg(r).moves \subseteq [up : Nat, down : Nat, stop : BOOLEAN]
    BY <1>1, ClientGiven
  <2> QED
    BY <1>2, <2>1, <2>2
<1>4. Id(r) \in DOMAIN client /\ client[Id(r)] \in Session
  BY <1>1 DEF AnnounceInv, ClientsOK
<1>5. Took(r, m) \in Nat /\ client[Id(r)].left - Took(r, m) \in Nat
  BY <1>3, <1>4 DEF Took, Session
<1>6. After(r, m) \in Session
  <2>1. CASE client[Id(r)].on
    BY <1>3, <1>4, <1>5, <2>1 DEF After, Session
  <2>2. CASE ~client[Id(r)].on
    BY <1>4, <2>2 DEF After, Session
  <2> QED
    BY <2>1, <2>2
<1> DEFINE n == After(r, m)
<1>7. MovesOnly(r) /\ call'[r].pc = "get" /\ call'[r].seen = Told(r, m)
  BY <1>2, BeginMoves DEF Begins, Frame
<1>8. IsReport(Told(r, m))
  <2>1. Told(r, m) = [stop |-> m.stop, up |-> n.up, down |-> n.down, left |-> n.left,
                      prev |-> {}, host |-> NoHost]
    BY DEF Told
  <2> HIDE DEF n
  <2>2. n.up \in Nat /\ n.down \in Nat /\ n.left \in Nat /\ m.stop \in BOOLEAN
    BY <1>3, <1>6 DEF n, Session
  <2>3. Told(r, m) = [f \in ReportFields |-> Told(r, m)[f]]
    BY <2>1 DEF ReportFields
  <2> QED
    BY <2>1, <2>2, <2>3 DEF IsReport
<1>9. Reports(r)'
  BY <1>7, <1>8 DEF Reports, Seen
<1>10. ASSUME NEW s \in Req, call'[s].op = "client"
       PROVE  Id(s)' \in DOMAIN client' /\ client'[Id(s)'] \in Session
  <2>1. call[s].op = "client" /\ Id(s)' = Id(s)
    BY <1>7, <1>10 DEF MovesOnly, Id, Arg
  <2>2. Id(s) \in DOMAIN client /\ client[Id(s)] \in Session
    BY <2>1 DEF AnnounceInv, ClientsOK
  <2>3. DOMAIN client' = DOMAIN client
    BY <1>2
  <2>4. client'[Id(s)] = n \/ client'[Id(s)] = client[Id(s)]
    BY <1>2, <2>2
  <2> QED
    BY <1>6, <2>1, <2>2, <2>3, <2>4
<1> QED
  BY <1>9, <1>10 DEF ClientsOK

(* A step that moves r to x and leaves what it has seen.                    *)
LEMMA GotoReports ==
    ASSUME Shaped, NEW r \in Req, NEW x, Goto(r, x), Reports(r),
           call[r].pc \in Announcing \/ x \notin Announcing
    PROVE  Reports(r)'
<1>1. call'[r].pc = x /\ call'[r].seen = call[r].seen
  BY GotoMoves
<1> QED
  BY <1>1 DEF Reports, Seen

LEMMA PeersArePeers ==
    ASSUME AnnounceInv, NEW t \in Torrent
    PROVE  \A id \in DOMAIN Peers(t) : IsPeer(Peers(t)[id])
<1>1. IsSwarm(swarm[t])
  BY DEF AnnounceInv, SwarmsOK
<1> QED
  BY <1>1 DEF Peers, NoPeers, IsSwarm

LEMMA GetReports ==
    ASSUME Frame, AnnounceInv, NEW r \in Req, AnnounceGet(r)
    PROVE  Reports(r)'
<1> DEFINE peers == Peers(Arg(r).torrent)
           prev  == IF Id(r) \in DOMAIN peers THEN {peers[Id(r)]} ELSE {}
<1>1. call[r].op = "client" /\ call[r].pc = "get"
  BY DEF AnnounceGet, At
<1>2. IsReport(Seen(r)) /\ Reports(r)
  BY <1>1 DEF AnnounceInv, Reports, Announcing
<1>3. \/ Goto(r, "again")
      \/ \E x \in {"held", "acquire"} : Note(r, x, [Seen(r) EXCEPT !.prev = prev])
  BY DEF AnnounceGet
<1>4. \A p \in prev : IsPeer(p)
  BY <1>1, ClientGiven, PeersArePeers
<1> HIDE DEF prev
<1>5. IsReport([Seen(r) EXCEPT !.prev = prev])
  BY <1>2, <1>4 DEF IsReport, ReportFields
<1>6. ASSUME NEW x \in {"held", "acquire"}, Note(r, x, [Seen(r) EXCEPT !.prev = prev])
      PROVE  Reports(r)'
  <2>1. call'[r].seen = [Seen(r) EXCEPT !.prev = prev]
    BY <1>6, NoteMoves DEF Frame
  <2> QED
    BY <1>5, <2>1 DEF Reports, Seen
<1>7. CASE Goto(r, "again")
  BY <1>2, <1>7, GotoReports DEF Frame, Announcing
<1> QED
  BY <1>3, <1>6, <1>7

LEMMA LockReports ==
    ASSUME Frame, AnnounceInv, NEW r \in Req, call[r].op = "client",
           \/ StopHeld(r) \/ StopRelease(r) \/ AcquireSet(r) \/ AcquireGet(r)
           \/ Decide(r) \/ Refresh(r) \/ ClearClaim(r)
    PROVE  Reports(r)' /\ call[r].pc # "credit"
<1>1. call[r].pc \in Announcing \ {"credit"} /\ ~ClearClaim(r)
  BY DEF StopHeld, StopRelease, AcquireSet, AcquireGet, Decide, Refresh, ClearClaim, At, Announcing
<1>2. IsReport(Seen(r)) /\ Reports(r)
  BY <1>1 DEF AnnounceInv, Reports
<1>3. CASE \E x : Goto(r, x)
  BY <1>1, <1>2, <1>3, GotoReports DEF Frame
<1>4. CASE \E h : Note(r, "ttl", [Seen(r) EXCEPT !.host = h])
  <2>1. PICK h : Note(r, "ttl", [Seen(r) EXCEPT !.host = h])
    BY <1>4
  <2>2. call'[r].seen = [Seen(r) EXCEPT !.host = h]
    BY <2>1, NoteMoves DEF Frame
  <2>3. IsReport([Seen(r) EXCEPT !.host = h])
    BY <1>2 DEF IsReport, ReportFields
  <2> QED
    BY <1>1, <2>2, <2>3 DEF Reports, Seen
<1>5. (\E x : Goto(r, x)) \/ (\E h : Note(r, "ttl", [Seen(r) EXCEPT !.host = h]))
  BY <1>1 DEF StopHeld, StopRelease, AcquireSet, AcquireGet, Decide, Refresh
<1> QED
  BY <1>1, <1>3, <1>4, <1>5


LEMMA PutSwarm ==
    ASSUME Frame, AnnounceInv, NEW r \in Req, AnnouncePut(r)
    PROVE  Reports(r)' /\ SwarmsOK'
<1> DEFINE t == Arg(r).torrent
           w == IF Seen(r).stop
                THEN [peers |-> Without(Peers(t), Id(r)), until |-> swarm[t].until]
                ELSE [peers |-> With(Peers(t), Id(r), Snapshot(r)), until |-> clock + PeerTTL]
<1>1. call[r].op = "client" /\ call[r].pc = "put" /\ Goto(r, "credit")
  BY DEF AnnouncePut, At, Admitted
<1>2. IsReport(Seen(r)) /\ Reports(r)
  BY <1>1 DEF AnnounceInv, Reports, Announcing
<1>3. Reports(r)'
  BY <1>1, <1>2, GotoReports DEF Frame, Announcing
<1>4. t \in Torrent
  BY <1>1, ClientGiven
<1>5. \A id \in DOMAIN Peers(t) : IsPeer(Peers(t)[id])
  BY <1>4, PeersArePeers
<1>6. IsPeer(Snapshot(r))
  BY <1>2 DEF Snapshot, IsReport, IsPeer
<1>7. IsSwarm(w)
  <2>1. CASE Seen(r).stop
    <3>1. w.peers = [x \in DOMAIN Peers(t) \ {Id(r)} |-> Peers(t)[x]]
      BY <2>1 DEF Without
    <3>2. w = [peers |-> w.peers, until |-> w.until]
      BY <2>1
    <3> QED
      BY <1>5, <3>1, <3>2 DEF IsSwarm
  <2>2. CASE ~Seen(r).stop
    <3>1. w.peers = [x \in DOMAIN Peers(t) \cup {Id(r)} |->
                        IF x = Id(r) THEN Snapshot(r) ELSE Peers(t)[x]]
      BY <2>2 DEF With
    <3>2. w = [peers |-> w.peers, until |-> w.until]
      BY <2>2
    <3> QED
      BY <1>5, <1>6, <3>1, <3>2 DEF IsSwarm
  <2> QED
    BY <2>1, <2>2
<1>8. UNCHANGED swarm \/ swarm' = [swarm EXCEPT ![t] = w]
  BY DEF AnnouncePut
<1> HIDE DEF w
<1>9. SwarmsOK'
  BY <1>4, <1>7, <1>8 DEF AnnounceInv, SwarmsOK
<1> QED
  BY <1>3, <1>9

LEMMA ListSwarm ==
    ASSUME Frame, AnnounceInv, NEW r \in Req, AnnounceList(r)
    PROVE  Reports(r)' /\ SwarmsOK'
<1> DEFINE t == Arg(r).torrent
           fresh == {id \in DOMAIN Peers(t) : Peers(t)[id].seen + PeerTTL >= clock}
           f == [id \in fresh |-> Peers(t)[id]]
<1>1. call[r].op = "client"
  BY DEF AnnounceList, At
<1>2. t \in Torrent
  BY <1>1, ClientGiven
<1>3. \A id \in DOMAIN f : IsPeer(f[id])
  BY <1>2, PeersArePeers
<1>4. \E s : Note(r, "count", s)
  BY DEF AnnounceList
<1>5. call'[r].pc = "count"
  BY <1>4, NoteMoves DEF Frame
<1>6. Reports(r)'
  BY <1>5 DEF Reports, Announcing
<1>7. UNCHANGED swarm \/ swarm' = [swarm EXCEPT ![t].peers = f]
  BY DEF AnnounceList
<1> HIDE DEF f
<1>8. IsSwarm(swarm[t])
  BY <1>2 DEF AnnounceInv, SwarmsOK
<1>9. IsSwarm([swarm[t] EXCEPT !.peers = f])
  BY <1>3, <1>8 DEF IsSwarm
<1>10. SwarmsOK'
  BY <1>2, <1>7, <1>9 DEF AnnounceInv, SwarmsOK
<1> QED
  BY <1>6, <1>10

LEMMA CreditsAreNat ==
    ASSUME AnnounceInv, NEW r \in Req, IsReport(Seen(r))
    PROVE  Up(r) \in Nat /\ Down(r) \in Nat /\ Done(r) \in BOOLEAN
<1>1. ASSUME NEW n \in Nat, NEW B, \A b \in B : b \in Nat PROVE NewSince(n, B) \in Nat
  <2>1. CASE B = {}
    BY <2>1 DEF NewSince
  <2>2. CASE B # {}
    <3> DEFINE b == CHOOSE b \in B : TRUE
    <3>1. b \in Nat
      BY <1>1, <2>2
    <3>2. NewSince(n, B) = IF n >= b THEN n - b ELSE 0
      BY <2>2 DEF NewSince
    <3> HIDE DEF b
    <3> QED
      BY <3>1, <3>2
  <2> QED
    BY <2>1, <2>2
<1> DEFINE U == {p.up : p \in Seen(r).prev}
           D == {p.down : p \in Seen(r).prev}
<1>2. (\A b \in U : b \in Nat) /\ (\A b \in D : b \in Nat)
  BY DEF IsReport, IsPeer
<1>3. NewSince(Seen(r).up, U) \in Nat /\ NewSince(Seen(r).down, D) \in Nat
  BY <1>1, <1>2 DEF IsReport
<1> QED
  BY <1>3 DEF Up, Down, Done

(* What a credit writes.                                                    *)
LEMMA CreditRow ==
    ASSUME Frame, TimeOK, AnnounceInv, NEW r \in Req, AnnounceCredit(r)
    PROVE  /\ Reports(r)' /\ RowsOK'
           /\ call'[r].pc \in {"snatch", "list"} =>
                 stats'[Who(r)][Arg(r).torrent].down = stats[Who(r)][Arg(r).torrent].down +
                    (IF Free(Arg(r).process, Who(r), Arg(r).torrent) THEN 0 ELSE Down(r))
<1> DEFINE m == Who(r)
           t == Arg(r).torrent
           p == Arg(r).process
           d == IF Free(p, m, t) THEN 0 ELSE Down(r)
           row == [up        |-> stats[m][t].up + Up(r) * UpFactor(p, m, t),
                   down      |-> stats[m][t].down + d,
                   completed |-> stats[m][t].completed \/ Done(r),
                   seen      |-> clock]
<1>1. call[r].op = "client" /\ call[r].pc = "credit" /\ UNCHANGED timeVars
  BY DEF AnnounceCredit, At
<1>2. IsReport(Seen(r)) /\ Reports(r)
  BY <1>1 DEF AnnounceInv, Reports, Announcing
<1>3. m \in Member /\ t \in Torrent
  BY <1>1, ClientGiven
<1>4. Up(r) \in Nat /\ Down(r) \in Nat /\ Done(r) \in BOOLEAN
  BY <1>2, CreditsAreNat
<1>5. stats[m][t] \in StatRow
  BY <1>3 DEF AnnounceInv, RowsOK
<1>6. Up(r) * UpFactor(p, m, t) \in Nat
  <2>1. UpFactor(p, m, t) \in {1, 2}
    BY DEF UpFactor
  <2> QED
    BY <1>4, <2>1
<1>7. row \in StatRow /\ row.down = stats[m][t].down + d /\ row.seen = clock
  <2>1. stats[m][t].up + Up(r) * UpFactor(p, m, t) \in Nat
    BY <1>5, <1>6 DEF StatRow
  <2>2. stats[m][t].down + d \in Nat
    BY <1>4, <1>5 DEF StatRow
  <2>3. (stats[m][t].completed \/ Done(r)) \in BOOLEAN
    OBVIOUS
  <2> HIDE DEF d
  <2> QED
    BY <2>1, <2>2, <2>3 DEF StatRow, TimeOK
<1>8. \/ stats' = [stats EXCEPT ![m][t] = row] /\ Note(r, IF Done(r) THEN "snatch" ELSE "list", [now |-> 0])
      \/ UNCHANGED stats /\ Goto(r, "again")
  <2>1. \/ /\ stats' = [stats EXCEPT ![m][t] =
                [up        |-> @.up + Up(r) * UpFactor(p, m, t),
                 down      |-> @.down + (IF Free(p, m, t) THEN 0 ELSE Down(r)),
                 completed |-> @.completed \/ Done(r),
                 seen      |-> clock]]
           /\ Note(r, IF Done(r) THEN "snatch" ELSE "list", [now |-> 0])
        \/ UNCHANGED stats /\ Goto(r, "again")
    BY Zenon DEF AnnounceCredit
  <2> QED
    BY <1>3, <2>1 DEF AnnounceInv, RowsOK
<1> HIDE DEF row, d
<1>9. CASE UNCHANGED stats /\ Goto(r, "again")
  <2>1. Reports(r)' /\ call'[r].pc = "again"
    BY <1>2, <1>9, GotoMoves, GotoReports DEF Frame, Announcing
  <2> QED
    BY <1>1, <1>9, <2>1 DEF AnnounceInv, RowsOK, timeVars
<1>10. ASSUME stats' = [stats EXCEPT ![m][t] = row],
             Note(r, IF Done(r) THEN "snatch" ELSE "list", [now |-> 0])
       PROVE  Reports(r)' /\ RowsOK' /\ stats'[m][t] = row
  <2>1. call'[r].pc \in {"snatch", "list"}
    BY <1>10, NoteMoves DEF Frame
  <2>2. Reports(r)'
    BY <2>1 DEF Reports, Announcing
  <2>3. stats' \in [Member -> [Torrent -> StatRow]]
    BY <1>3, <1>7, <1>10 DEF AnnounceInv, RowsOK
  <2>4. ASSUME NEW n \in Member, NEW u \in Torrent PROVE stats'[n][u] = row \/ stats'[n][u] = stats[n][u]
    BY <1>10 DEF AnnounceInv, RowsOK
  <2>5. stats'[m][t] = row
    BY <1>3, <1>10 DEF AnnounceInv, RowsOK
  <2>6. \A n \in Member : \A u \in Torrent : stats'[n][u].seen <= clock
    BY <1>7, <2>4 DEF AnnounceInv, RowsOK, TimeOK
  <2> QED
    BY <1>1, <2>2, <2>3, <2>5, <2>6 DEF RowsOK, timeVars
<1> QED
  BY <1>7, <1>8, <1>9, <1>10 DEF d


LEMMA AnnounceTypes ==
    ASSUME Frame, TimeOK, AnnounceInv, NEW r \in Req, UNCHANGED timeVars,
           \/ Report(r) \/ AnnounceGet(r) \/ AnnouncePut(r) \/ AnnounceCredit(r)
           \/ AnnounceSnatch(r) \/ AnnounceList(r) \/ AnnounceCount(r)
           \/ NextInterval(r) \/ AnnounceDies(r)
    PROVE  Reports(r)' /\ RowsOK' /\ ClientsOK' /\ SwarmsOK' /\ snatches' \in [Torrent -> Nat]
<1>1. call[r].op = "client" /\ MovesOnly(r)
  BY AnnounceMoves DEF Frame
<1>2. Reports(r) /\ snatches \in [Torrent -> Nat]
  BY <1>1 DEF AnnounceInv
<1>3. UNCHANGED stats => RowsOK'
  BY DEF AnnounceInv, RowsOK, timeVars
<1>4. UNCHANGED swarm => SwarmsOK'
  BY DEF AnnounceInv, SwarmsOK
<1>5. ASSUME UNCHANGED client PROVE ClientsOK'
  <2>1. \A s \in Req : call'[s].op = call[s].op /\ call'[s].arg = call[s].arg
    BY <1>1 DEF MovesOnly
  <2> QED
    BY <1>5, <2>1 DEF AnnounceInv, ClientsOK, Id, Arg
<1>6. CASE Report(r)
  <2>1. UNCHANGED <<stats, swarm, snatches>>
    BY <1>6 DEF Report
  <2> QED
    BY <1>2, <1>3, <1>4, <1>6, <2>1, ReportTypes
<1>7. CASE AnnounceGet(r)
  <2>1. UNCHANGED <<stats, swarm, snatches, client>>
    BY <1>7 DEF AnnounceGet, announceVars
  <2> QED
    BY <1>2, <1>3, <1>4, <1>5, <1>7, <2>1, GetReports
<1>8. CASE AnnouncePut(r)
  <2>1. UNCHANGED <<stats, snatches, client>>
    BY <1>8 DEF AnnouncePut
  <2> QED
    BY <1>2, <1>3, <1>5, <1>8, <2>1, PutSwarm
<1>9. CASE AnnounceCredit(r)
  <2>1. UNCHANGED <<swarm, snatches, client>>
    BY <1>9 DEF AnnounceCredit
  <2> QED
    BY <1>2, <1>4, <1>5, <1>9, <2>1, CreditRow
<1>10. CASE AnnounceSnatch(r)
  <2>1. UNCHANGED <<stats, swarm, client>> /\ Goto(r, "list")
    BY <1>10 DEF AnnounceSnatch
  <2>2. snatches' = snatches \/ snatches' = [snatches EXCEPT ![Arg(r).torrent] = @ + 1]
    BY <1>10 DEF AnnounceSnatch
  <2>3. snatches' \in [Torrent -> Nat]
    BY <1>2, <2>2
  <2>4. Reports(r)'
    BY <1>2, <2>1, GotoReports DEF Frame, Announcing
  <2> QED
    BY <1>3, <1>4, <1>5, <2>1, <2>3, <2>4
<1>11. CASE AnnounceList(r)
  <2>1. UNCHANGED <<stats, snatches, client>>
    BY <1>11 DEF AnnounceList
  <2> QED
    BY <1>2, <1>3, <1>5, <1>11, <2>1, ListSwarm
<1>12. CASE AnnounceCount(r) \/ NextInterval(r) \/ AnnounceDies(r)
  <2>1. UNCHANGED <<stats, snatches, client, swarm>>
    BY <1>12 DEF AnnounceCount, NextInterval, AnnounceDies, announceVars
  <2>2. \/ Goto(r, "again")
        \/ \E x \in {"done", "start"} : Note(r, x, [now |-> 0])
    BY <1>12 DEF AnnounceCount, NextInterval, AnnounceDies
  <2>3. call'[r].pc \in {"again", "done", "start"}
    BY <2>2, GotoMoves, NoteMoves DEF Frame
  <2>4. Reports(r)'
    BY <2>3 DEF Reports, Announcing
  <2> QED
    BY <1>2, <1>3, <1>4, <1>5, <2>1, <2>4
<1> QED
  BY <1>6, <1>7, <1>8, <1>9, <1>10, <1>11, <1>12

LEMMA NextAnnounce ==
    ASSUME Frame, TimeOK, AnnounceInv, [Next]_vars
    PROVE  AnnounceInv'
<1>1. \A s \in Req : call'[s].op = call[s].op /\ call'[s].arg = call[s].arg
  BY SameVisits
<1>2. ASSUME NEW s \in Req, call'[s] = call[s], Reports(s) PROVE Reports(s)'
  BY <1>2 DEF Reports, Seen
<1>3. TimeOK' /\ clock <= clock'
  BY NextTime
<1>4. ASSUME UNCHANGED announceVars
      PROVE  RowsOK' /\ ClientsOK' /\ SwarmsOK' /\ snatches' \in [Torrent -> Nat]
  <2>1. UNCHANGED <<swarm, stats, snatches, client>>
    BY <1>4 DEF announceVars
  <2>2. RowsOK'
    BY <1>3, <2>1 DEF AnnounceInv, RowsOK, TimeOK, StatRow
  <2>3. ClientsOK'
    BY <1>1, <2>1 DEF AnnounceInv, ClientsOK, Id, Arg
  <2> QED
    BY <2>1, <2>2, <2>3 DEF AnnounceInv, SwarmsOK
<1>5. CASE UNCHANGED announceVars /\ Others(ClientOps)
  <2>1. \A s \in Req : call'[s].op = "client" => Reports(s)'
    BY <1>1, <1>2, <1>5 DEF Others, ClientOps, AnnounceInv
  <2> QED
    BY <1>4, <1>5, <2>1 DEF AnnounceInv
<1>6. CASE UNCHANGED announceVars /\ SeedLockNext
  <2>1. PICK r \in Req :
             \/ StopHeld(r) \/ StopRelease(r) \/ AcquireSet(r) \/ AcquireGet(r)
             \/ Decide(r) \/ Refresh(r) \/ ClearClaim(r)
    BY <1>6 DEF SeedLockNext
  <2>2. MovesOnly(r)
    BY <2>1, LockMoves DEF Frame
  <2>3. call[r].op = "client" => Reports(r)'
    BY <2>1, LockReports
  <2>4. \A s \in Req : call'[s].op = "client" => Reports(s)'
    BY <1>1, <1>2, <2>2, <2>3 DEF MovesOnly, AnnounceInv
  <2> QED
    BY <1>4, <1>6, <2>4 DEF AnnounceInv
<1>7. CASE AnnounceNext
  <2>1. PICK r \in Req :
             \/ Report(r) \/ AnnounceGet(r) \/ AnnouncePut(r) \/ AnnounceCredit(r)
             \/ AnnounceSnatch(r) \/ AnnounceList(r) \/ AnnounceCount(r)
             \/ NextInterval(r) \/ AnnounceDies(r)
    BY <1>7 DEF AnnounceNext
  <2>2. UNCHANGED timeVars
    BY <2>1 DEF Report, AnnounceGet, AnnouncePut, AnnounceCredit, AnnounceSnatch, AnnounceList,
       AnnounceCount, NextInterval, AnnounceDies
  <2>3. Reports(r)' /\ RowsOK' /\ ClientsOK' /\ SwarmsOK' /\ snatches' \in [Torrent -> Nat]
    BY <2>1, <2>2, AnnounceTypes
  <2>4. MovesOnly(r)
    BY <2>1, AnnounceMoves DEF Frame
  <2>5. \A s \in Req : call'[s].op = "client" => Reports(s)'
    BY <1>1, <1>2, <2>3, <2>4 DEF MovesOnly, AnnounceInv
  <2> QED
    BY <2>3, <2>5 DEF AnnounceInv
<1> QED
  BY <1>5, <1>6, <1>7, Foreign

---------------------------------------------------------------------------
SiteInv == Frame /\ TimeOK /\ TokenInv /\ WindowInv /\ TableInv /\ AnnounceInv

LEMMA InitSite == ASSUME Init PROVE SiteInv
BY InitFrame, InitTime, InitTokensOK, InitWindowsOK, InitTables, InitAnnounceOK DEF SiteInv

LEMMA NextSite == ASSUME SiteInv, [Next]_vars PROVE SiteInv'
BY Foreign, NextTime, NextTokens, NextWindows, NextTables, NextAnnounce DEF SiteInv

(* What a table calls free was granted to be.                               *)
LEMMA FreeIsGranted ==
    ASSUME TimeOK, WindowInv, TableInv, NEW p \in Process, NEW m, NEW t, Free(p, m, t)
    PROVE  Granted(m, t)
<1>1. CASE clock < freeUntil[p]
  <2>1. freeUntil[p] # 0
    BY <1>1 DEF TimeOK
  <2>2. PICK w \in windows : w.from <= clock /\ w.to = freeUntil[p]
    BY <2>1 DEF TableInv, TimeTold, Opened
  <2>3. w \in OpenAt(clock)
    BY <1>1, <2>2 DEF OpenAt
  <2> QED
    BY <2>3 DEF Granted
<1>2. CASE Lasting(p, m, t, "freeleech")
  <2>1. PICK a \in perks[p] : a.who = m /\ a.torrent = t /\ a.kind = "freeleech" /\ clock <= a.until
    BY <1>2 DEF Lasting
  <2>2. PICK k \in tokens : a = Perk(k.who, k.torrent, k.kind, k.until)
    BY DEF TableInv, Backed
  <2>3. k.who = m /\ k.torrent = t /\ k.kind = "freeleech" /\ clock <= k.until
    BY <2>1, <2>2 DEF Perk
  <2> QED
    BY <2>3 DEF Granted
<1> QED
  BY <1>1, <1>2 DEF Free

(* A step that credits r is r's own credit.                                 *)
LEMMA CreditsItself ==
    ASSUME SiteInv, [Next]_vars, NEW r \in Req, At(r, "client", "credit"),
           call'[r].pc \in {"snatch", "list"}
    PROVE  AnnounceCredit(r)
<1> USE DEF SiteInv
<1>1. call'[r] # call[r] /\ call[r].op = "client" /\ call[r].pc = "credit"
  BY DEF At
<1>2. CASE Others(ClientOps)
  BY <1>1, <1>2 DEF Others, ClientOps
<1>3. CASE SeedLockNext
  <2>1. PICK s \in Req :
             \/ StopHeld(s) \/ StopRelease(s) \/ AcquireSet(s) \/ AcquireGet(s)
             \/ Decide(s) \/ Refresh(s) \/ ClearClaim(s)
    BY <1>3 DEF SeedLockNext
  <2>2. s = r
    BY <1>1, <2>1, LockMoves DEF MovesOnly, Frame
  <2> QED
    BY <1>1, <2>1, <2>2, LockReports
<1>4. CASE AnnounceNext
  <2>1. PICK s \in Req :
             \/ Report(s) \/ AnnounceGet(s) \/ AnnouncePut(s) \/ AnnounceCredit(s)
             \/ AnnounceSnatch(s) \/ AnnounceList(s) \/ AnnounceCount(s)
             \/ NextInterval(s) \/ AnnounceDies(s)
    BY <1>4 DEF AnnounceNext
  <2>2. s = r
    BY <1>1, <2>1, AnnounceMoves DEF MovesOnly, Frame
  <2>3. ~AnnounceDies(r)
    <3>1. AnnounceDies(r) => call'[r].pc = "again"
      BY GotoMoves DEF AnnounceDies, Frame
    <3> QED
      BY <3>1
  <2> QED
    BY <1>1, <2>1, <2>2, <2>3 DEF Report, AnnounceGet, AnnouncePut, AnnounceSnatch, AnnounceList,
       AnnounceCount, NextInterval, At, Admitted
<1> QED
  BY <1>2, <1>3, <1>4, Foreign

LEMMA FreeStep ==
    ASSUME SiteInv, [Next]_vars, NEW r \in Req, At(r, "client", "credit"),
           call'[r].pc \in {"snatch", "list"}, Down(r) > 0,
           stats'[Who(r)][Arg(r).torrent].down = stats[Who(r)][Arg(r).torrent].down
    PROVE  Granted(Who(r), Arg(r).torrent)
<1> USE DEF SiteInv
<1>1. AnnounceCredit(r)
  BY CreditsItself
<1>2. stats'[Who(r)][Arg(r).torrent].down = stats[Who(r)][Arg(r).torrent].down +
         (IF Free(Arg(r).process, Who(r), Arg(r).torrent) THEN 0 ELSE Down(r))
  BY <1>1, CreditRow
<1>3. IsReport(Seen(r))
  BY DEF At, AnnounceInv, Reports, Announcing
<1>4. Down(r) \in Nat
  BY <1>3, CreditsAreNat
<1>5. Who(r) \in Member /\ Arg(r).torrent \in Torrent /\ Arg(r).process \in Process
  BY ClientGiven DEF At
<1>6. stats[Who(r)][Arg(r).torrent].down \in Nat
  BY <1>5 DEF AnnounceInv, RowsOK, StatRow
<1>7. Free(Arg(r).process, Who(r), Arg(r).torrent)
  BY <1>2, <1>4, <1>6
<1> QED
  BY <1>5, <1>7, FreeIsGranted

(* Traffic that was not charged was free by a window or by a token that was *)
(* in force, in the database, when it was credited, however long ago the    *)
(* process had read its table.                                              *)
THEOREM FreeTrafficWasGranted == Spec => FreeWasGranted
<1>1. Init => SiteInv
  BY InitSite
<1>2. SiteInv /\ [Next]_vars => SiteInv'
  BY NextSite
<1>3. SiteInv /\ [Next]_vars => [FreeOnlyGranted]_vars
  BY FreeStep DEF FreeOnlyGranted
<1> QED
  BY <1>1, <1>2, <1>3, PTL DEF Spec, FreeWasGranted


---------------------------------------------------------------------------
(* The sweep.  The host runs a job once at a time, so there is one.         *)
OneSweeper == \A p \in Plans : \A r, s \in Req :
    p[r].op = "sweep" /\ p[s].op = "sweep" => r = s

Sweeping == {"expire", "read", "judge", "notify", "warn"}

(* A candidate that was told when it was read was told then for good.       *)
IsCandidate(c) ==
    /\ Pair(c) \in Pairs
    /\ c.told \in {Never} \cup Nat
    /\ c.told # Never => notice[Pair(c)] = c.told

IsList(s) ==
    /\ s = [now |-> s.now, left |-> s.left, at |-> s.at, touched |-> s.touched]
    /\ s.now \in Nat
    /\ \A c \in s.left : IsCandidate(c)

Lists(r) == call[r].op = "sweep" /\ call[r].pc \in Sweeping => IsList(Seen(r))

(* A notice that is recorded was sent, is being sent, or was lost with the  *)
(* sweep that died.                                                         *)
Telling(q) == \E r \in Req : At(r, "sweep", "notify") /\ q \in Seen(r).at

Heard(q) == told[q].notices >= 1 \/ broken

IsWarning(w) == w = [issued |-> w.issued, until |-> w.until, cleared |-> w.cleared]

Fair(q) == warning[q].issued # Never =>
    notice[q] # Never /\ warning[q].issued - notice[q] >= Grace /\ Heard(q)

HitRunInv ==
    /\ notice \in [Pairs -> {Never} \cup Nat]
    /\ told \in [Pairs -> [notices : Nat, warnings : Nat]]
    /\ warning = [q \in Pairs |-> warning[q]]
    /\ \A q \in Pairs : IsWarning(warning[q]) /\ Fair(q)
    /\ \A q \in Pairs : notice[q] # Never => Heard(q) \/ Telling(q)
    /\ \A r \in Req : Lists(r)

LEMMA InitHitRun == ASSUME Init PROVE HitRunInv
<1>1. /\ notice  = [q \in Pairs |-> Never]
      /\ warning = [q \in Pairs |-> NoWarning]
      /\ told    = [q \in Pairs |-> [notices |-> 0, warnings |-> 0]]
  BY DEF Init, HitRunInit
<1>2. \A r \in Req : Lists(r)
  BY InitStarts DEF Lists, Sweeping
<1>3. \A q \in Pairs : IsWarning(warning[q]) /\ Fair(q)
  BY <1>1 DEF IsWarning, Fair, NoWarning
<1> QED
  BY <1>1, <1>2, <1>3 DEF HitRunInv

(* Notices are recorded once and what a member heard is not unheard.        *)
Forward ==
    /\ notice' \in [Pairs -> {Never} \cup Nat]
    /\ told' \in [Pairs -> [notices : Nat, warnings : Nat]]
    /\ \A q \in Pairs : notice[q] # Never => notice'[q] = notice[q]
    /\ \A q \in Pairs : Heard(q) => Heard(q)'

LEMMA KeptLists ==
    ASSUME Forward, HitRunInv, NEW s, IsList(s) PROVE IsList(s)'
BY DEF Forward, IsList, IsCandidate, Pair

LEMMA KeptWarnings ==
    ASSUME Forward, HitRunInv, UNCHANGED warning
    PROVE  \A q \in Pairs : IsWarning(warning'[q]) /\ Fair(q)'
BY DEF Forward, HitRunInv, Fair

(* What is left to show of a step of r, once it only moves forward.         *)
LEMMA Moved ==
    ASSUME Frame, HitRunInv, Forward, NEW r \in Req, MovesOnly(r), Lists(r)',
           warning' = [q \in Pairs |-> warning'[q]],
           \A q \in Pairs : IsWarning(warning'[q]) /\ Fair(q)',
           \A q \in Pairs : \/ notice'[q] = notice[q] /\ ~(At(r, "sweep", "notify") /\ q \in Seen(r).at)
                            \/ Heard(q)' \/ Telling(q)'
    PROVE  HitRunInv'
<1>1. ASSUME NEW s \in Req PROVE Lists(s)'
  <2>1. CASE s = r
    BY <2>1
  <2>2. CASE s # r
    <3>1. call'[s] = call[s] /\ Lists(s)
      BY <2>2 DEF MovesOnly, HitRunInv
    <3> QED
      BY <3>1, KeptLists DEF Lists, Seen
  <2> QED
    BY <2>1, <2>2
<1>2. ASSUME NEW q \in Pairs, notice'[q] # Never PROVE Heard(q)' \/ Telling(q)'
  <2>1. CASE notice'[q] = notice[q] /\ ~(At(r, "sweep", "notify") /\ q \in Seen(r).at)
    <3>1. CASE Heard(q)
      BY <3>1 DEF Forward
    <3>2. CASE Telling(q)
      <4>1. PICK s \in Req : At(s, "sweep", "notify") /\ q \in Seen(s).at
        BY <3>2 DEF Telling
      <4>2. call'[s] = call[s]
        BY <2>1, <4>1 DEF MovesOnly
      <4>3. At(s, "sweep", "notify")' /\ q \in Seen(s)'.at
        BY <4>1, <4>2 DEF At, Seen
      <4> QED
        BY <4>3 DEF Telling
    <3> QED
      BY <1>2, <2>1, <3>1, <3>2 DEF HitRunInv
  <2> QED
    BY <2>1
<1> QED
  BY <1>1, <1>2 DEF HitRunInv, Forward

(* A sweep that fails or dies.                                              *)
LEMMA FailsOK ==
    ASSUME Frame, HitRunInv, NEW r \in Req, MovesOnly(r), SweepFails(r),
           UNCHANGED <<notice, warning, told>>
    PROVE  HitRunInv'
<1>1. Forward
  BY DEF Forward, HitRunInv, Heard, SweepFails
<1>2. call'[r].pc = "start"
  BY GotoMoves DEF SweepFails, Frame
<1>3. Lists(r)'
  BY <1>2 DEF Lists, Sweeping
<1>4. \A q \in Pairs : Heard(q)'
  BY DEF Heard, SweepFails
<1>5. \A q \in Pairs : IsWarning(warning'[q]) /\ Fair(q)'
  BY <1>1, KeptWarnings
<1>6. warning' = [q \in Pairs |-> warning'[q]]
  BY DEF HitRunInv
<1> QED
  BY <1>1, <1>3, <1>4, <1>5, <1>6, Moved

LEMMA StandsStill ==
    ASSUME HitRunInv, UNCHANGED <<notice, told, broken>>
    PROVE  Forward
BY DEF Forward, HitRunInv, Heard

(* A step of a sweep at its list that only reads.                           *)
LEMMA ReadsOK ==
    ASSUME Frame, HitRunInv, NEW r \in Req, MovesOnly(r), Lists(r)',
           call[r].pc # "notify", UNCHANGED hitrunVars
    PROVE  HitRunInv'
<1>1. Forward
  BY StandsStill DEF hitrunVars
<1>2. \A q \in Pairs : IsWarning(warning'[q]) /\ Fair(q)'
  BY <1>1, KeptWarnings DEF hitrunVars
<1>3. warning' = [q \in Pairs |-> warning'[q]] /\ \A q \in Pairs : notice'[q] = notice[q]
  BY DEF HitRunInv, hitrunVars
<1> QED
  BY <1>1, <1>2, <1>3, Moved DEF At

LEMMA StartOK ==
    ASSUME Frame, TimeOK, HitRunInv, NEW r \in Req, SweepStart(r)
    PROVE  HitRunInv'
<1>1. PICK s : s = [now |-> clock, left |-> {}, at |-> {}, touched |-> {}]
  OBVIOUS
<1>2. Begins(r, "expire", s) /\ call[r].pc = "start" /\ UNCHANGED hitrunVars
  BY <1>1 DEF SweepStart, Begins, At
<1>3. MovesOnly(r) /\ call'[r].pc = "expire" /\ call'[r].seen = s
  BY <1>2, BeginMoves DEF Begins, Frame
<1>4. IsList(s)'
  BY <1>1 DEF IsList, TimeOK
<1>5. Lists(r)'
  BY <1>3, <1>4 DEF Lists, Seen
<1> QED
  BY <1>2, <1>3, <1>5, ReadsOK

LEMMA ReadOK ==
    ASSUME Frame, TimeOK, HitRunInv, NEW r \in Req, SweepRead(r)
    PROVE  HitRunInv'
<1>1. call[r].pc = "read" /\ call[r].op = "sweep" /\ MovesOnly(r)
  BY HitRunMoves DEF SweepRead, At, Frame
<1>2. CASE SweepFails(r) /\ UNCHANGED <<notice, warning, told>>
  BY <1>1, <1>2, FailsOK
<1>3. PICK l : l = {Candidate(q) : q \in {p \in Pairs : Row(p).down > 0 /\ ~Active(p)}}
  OBVIOUS
<1>4. PICK s : s = [Seen(r) EXCEPT !.left = l]
  OBVIOUS
<1>5. CASE Note(r, "judge", s) /\ UNCHANGED <<notice, warning, told, broken>>
  <2>1. IsList(Seen(r))
    BY <1>1 DEF HitRunInv, Lists, Sweeping
  <2>2. ASSUME NEW c \in l PROVE IsCandidate(c)'
    <3>1. PICK q \in Pairs : c = Candidate(q)
      BY <1>3
    <3>2. Pair(c) = q
      BY <3>1 DEF Pair, Candidate, Pairs
    <3>3. c.told = notice[q]
      BY <3>1 DEF Candidate
    <3>4. notice[q] \in {Never} \cup Nat /\ notice'[q] = notice[q]
      BY <1>5 DEF HitRunInv
    <3> QED
      BY <3>2, <3>3, <3>4 DEF IsCandidate, Pair
  <2>3. IsList(s)'
    BY <1>4, <2>1, <2>2 DEF IsList
  <2>4. call'[r].seen = s
    BY <1>5, NoteMoves DEF Frame
  <2>5. Lists(r)'
    BY <2>3, <2>4 DEF Lists, Seen
  <2> QED
    BY <1>1, <1>5, <2>5, ReadsOK DEF hitrunVars
<1>6. \/ SweepFails(r) /\ UNCHANGED <<notice, warning, told>>
      \/ Note(r, "judge", s) /\ UNCHANGED <<notice, warning, told, broken>>
  BY <1>3, <1>4 DEF SweepRead
<1> QED
  BY <1>2, <1>5, <1>6

LEMMA ExpireOK ==
    ASSUME Frame, HitRunInv, NEW r \in Req, SweepExpire(r)
    PROVE  HitRunInv'
<1>1. call[r].pc = "expire" /\ call[r].op = "sweep" /\ MovesOnly(r)
  BY HitRunMoves DEF SweepExpire, At, Frame
<1>2. CASE SweepFails(r) /\ UNCHANGED <<notice, warning, told>>
  BY <1>1, <1>2, FailsOK
<1>3. CASE /\ Goto(r, "read") /\ UNCHANGED <<notice, told, broken>>
           /\ warning' = [q \in Pairs |->
                [warning[q] EXCEPT !.cleared = @ \/ (warning[q].issued # Never
                                                     /\ warning[q].until <= Seen(r).now)]]
  <2>1. Forward
    BY <1>3, StandsStill
  <2>2. call'[r].seen = call[r].seen
    BY <1>3, GotoMoves DEF Frame
  <2>3. IsList(Seen(r))
    BY <1>1 DEF HitRunInv, Lists, Sweeping
  <2>4. IsList(Seen(r))'
    BY <1>3, <2>2, <2>3 DEF IsList, IsCandidate, Seen, Pair
  <2>5. Lists(r)'
    BY <2>4 DEF Lists
  <2>6. ASSUME NEW q \in Pairs PROVE IsWarning(warning'[q]) /\ Fair(q)'
    <3>1. IsWarning(warning[q]) /\ Fair(q)
      BY DEF HitRunInv
    <3>2. IsWarning(warning'[q]) /\ warning'[q].issued = warning[q].issued
      BY <1>3, <3>1 DEF IsWarning
    <3> QED
      BY <1>3, <3>1, <3>2 DEF Fair, Heard
  <2>7. warning' = [q \in Pairs |-> warning'[q]]
    BY <1>3
  <2> QED
    BY <1>1, <1>3, <2>1, <2>5, <2>6, <2>7, Moved DEF At
<1> QED
  BY <1>2, <1>3 DEF SweepExpire

LEMMA PardonOK ==
    ASSUME Frame, HitRunInv, NEW r \in Req, Pardon(r)
    PROVE  HitRunInv'
<1>1. call[r].op = "pardon" /\ MovesOnly(r) /\ UNCHANGED <<notice, told, broken>>
  BY HitRunMoves DEF Pardon, At, Frame
<1>2. Forward
  BY <1>1, StandsStill
<1>3. Lists(r)'
  BY <1>1 DEF Lists, MovesOnly
<1>4. PICK p : warning' = [warning EXCEPT ![p].cleared = TRUE]
  BY DEF Pardon
<1>5. warning' = [q \in Pairs |-> warning'[q]]
  BY <1>4 DEF HitRunInv
<1>6. ASSUME NEW q \in Pairs PROVE IsWarning(warning'[q]) /\ Fair(q)'
  <2>1. IsWarning(warning[q]) /\ Fair(q)
    BY DEF HitRunInv
  <2>2. warning'[q] \in {warning[q], [warning[q] EXCEPT !.cleared = TRUE]}
    BY <1>4 DEF HitRunInv
  <2>3. IsWarning(warning'[q]) /\ warning'[q].issued = warning[q].issued
    BY <2>1, <2>2 DEF IsWarning
  <2> QED
    BY <1>1, <2>1, <2>3 DEF Fair, Heard
<1> QED
  BY <1>1, <1>2, <1>3, <1>5, <1>6, Moved DEF At

LEMMA LimitOK ==
    ASSUME Frame, HitRunInv, NEW r \in Req, SweepLimit(r)
    PROVE  HitRunInv'
<1>1. call[r].pc = "judge" /\ call[r].op = "sweep" /\ MovesOnly(r)
  BY HitRunMoves DEF SweepLimit, At, Frame
<1>2. IsList(Seen(r))
  BY <1>1 DEF HitRunInv, Lists, Sweeping
<1>3. CASE SweepFails(r) /\ UNCHANGED <<notice, warning, told>>
  BY <1>1, <1>3, FailsOK
<1>4. CASE Note(r, "start", [now |-> 0]) /\ UNCHANGED hitrunVars
  <2>1. call'[r].pc = "start"
    BY <1>4, NoteMoves DEF Frame
  <2>2. Lists(r)'
    BY <2>1 DEF Lists, Sweeping
  <2> QED
    BY <1>1, <1>4, <2>2, ReadsOK
<1>5. ASSUME NEW m, Note(r, "judge", [Seen(r) EXCEPT !.touched = @ \ {m}]), UNCHANGED hitrunVars
      PROVE  HitRunInv'
  <2>1. PICK s : s = [Seen(r) EXCEPT !.touched = @ \ {m}]
    OBVIOUS
  <2>2. call'[r].seen = s
    BY <1>5, <2>1, NoteMoves DEF Frame
  <2>3. IsList(s)
    BY <1>2, <2>1 DEF IsList
  <2>4. IsList(s)'
    BY <1>5, <2>3 DEF IsList, IsCandidate, hitrunVars, Pair
  <2>5. Lists(r)'
    BY <2>2, <2>4 DEF Lists, Seen
  <2> QED
    BY <1>1, <1>5, <2>5, ReadsOK
<1> QED
  BY <1>3, <1>4, <1>5 DEF SweepLimit, hitrunVars

LEMMA TellOK ==
    ASSUME Frame, HitRunInv, NEW r \in Req, Tell(r)
    PROVE  HitRunInv'
<1>1. /\ call[r].pc \in {"notify", "warn"} /\ call[r].op = "sweep" /\ MovesOnly(r)
      /\ Goto(r, "judge") /\ UNCHANGED <<notice, warning, broken>>
  BY HitRunMoves DEF Tell, At, Frame
<1>2. told' = [q \in Pairs |-> IF q \notin Seen(r).at THEN told[q] ELSE
                  IF call[r].pc = "warn" THEN [told[q] EXCEPT !.warnings = @ + 1]
                  ELSE [told[q] EXCEPT !.notices = @ + 1]]
  BY DEF Tell
<1>3. ASSUME NEW q \in Pairs
      PROVE  /\ told'[q] \in [notices : Nat, warnings : Nat]
             /\ told'[q].notices >= told[q].notices
             /\ call[r].pc = "notify" /\ q \in Seen(r).at => told'[q].notices >= 1
  <2>1. told[q] \in [notices : Nat, warnings : Nat]
    BY DEF HitRunInv
  <2>2. CASE q \notin Seen(r).at
    BY <1>2, <2>1, <2>2
  <2>3. CASE q \in Seen(r).at /\ call[r].pc = "warn"
    BY <1>2, <2>1, <2>3
  <2>4. CASE q \in Seen(r).at /\ call[r].pc = "notify"
    BY <1>2, <2>1, <2>4
  <2> QED
    BY <1>1, <2>2, <2>3, <2>4
<1>4. told' \in [Pairs -> [notices : Nat, warnings : Nat]]
  BY <1>2, <1>3
<1>5. ASSUME NEW q \in Pairs, Heard(q) PROVE Heard(q)'
  <2>1. told[q].notices \in Nat /\ told'[q].notices \in Nat
    BY <1>3 DEF HitRunInv
  <2> QED
    BY <1>1, <1>3, <1>5, <2>1 DEF Heard
<1>6. Forward
  BY <1>1, <1>4, <1>5 DEF Forward, HitRunInv
<1>7. call'[r].seen = call[r].seen
  BY <1>1, GotoMoves DEF Frame
<1>8. IsList(Seen(r))
  BY <1>1 DEF HitRunInv, Lists, Sweeping
<1>9. IsList(Seen(r))'
  BY <1>1, <1>7, <1>8 DEF IsList, IsCandidate, Seen, Pair
<1>10. Lists(r)'
  BY <1>9 DEF Lists
<1>11. \A q \in Pairs : IsWarning(warning'[q]) /\ Fair(q)'
  BY <1>1, <1>6, KeptWarnings
<1>12. \A q \in Pairs : \/ notice'[q] = notice[q] /\ ~(At(r, "sweep", "notify") /\ q \in Seen(r).at)
                        \/ Heard(q)'
  BY <1>1, <1>3 DEF At, Heard
<1>13. warning' = [q \in Pairs |-> warning'[q]]
  BY <1>1 DEF HitRunInv
<1> QED
  BY <1>1, <1>6, <1>10, <1>11, <1>12, <1>13, Moved

LEMMA OneAtATime ==
    ASSUME OneSweeper, Frame, NEW r \in Req, NEW s \in Req,
           call[r].op = "sweep", call[s].op = "sweep"
    PROVE  r = s
<1>1. PICK p \in Plans : \A t \in Req : call[t].op = p[t].op
  BY DEF Frame, Given
<1> QED
  BY <1>1 DEF OneSweeper

(* What a judged candidate leaves behind.                                   *)
LEMMA RestIsList ==
    ASSUME NEW s, IsList(s), NEW c, NEW q,
           NEW rest, rest = [s EXCEPT !.left = @ \ {c}, !.at = {q}]
    PROVE  IsList(rest) /\ rest.at = {q}
BY DEF IsList

LEMMA SatisfiedOK ==
    ASSUME Frame, HitRunInv, NEW r \in Req, call[r].op = "sweep", call[r].pc = "judge",
           NEW s, IsList(s), Note(r, "judge", s), UNCHANGED hitrunVars
    PROVE  HitRunInv'
<1>1. MovesOnly(r) /\ call'[r].seen = s
  BY NoteMoves DEF Frame
<1>2. Forward
  BY StandsStill DEF hitrunVars
<1>3. IsList(s)'
  BY <1>2, KeptLists
<1>4. Lists(r)'
  BY <1>1, <1>3 DEF Lists, Seen
<1> QED
  BY <1>1, <1>4, ReadsOK

LEMMA PrewarnOK ==
    ASSUME Frame, TimeOK, HitRunInv, NEW r \in Req, call[r].op = "sweep", call[r].pc = "judge",
           NEW q \in Pairs, NEW s, IsList(s), s.at = {q}, Note(r, "notify", s),
           notice' = [notice EXCEPT ![q] = IF @ = Never THEN clock ELSE @],
           UNCHANGED <<warning, told, broken>>
    PROVE  HitRunInv'
<1>1. MovesOnly(r) /\ call'[r].seen = s /\ call'[r].pc = "notify"
  BY NoteMoves DEF Frame
<1>2. Forward
  BY DEF Forward, HitRunInv, Heard, TimeOK
<1>3. IsList(s)'
  BY <1>2, KeptLists
<1>4. Lists(r)'
  BY <1>1, <1>3 DEF Lists, Seen
<1>5. \A p \in Pairs : IsWarning(warning'[p]) /\ Fair(p)'
  BY <1>2, KeptWarnings
<1>6. Telling(q)'
  BY <1>1 DEF Telling, At, Seen, MovesOnly
<1>7. \A p \in Pairs : notice'[p] = notice[p] \/ Telling(p)'
  BY <1>6 DEF HitRunInv
<1>8. warning' = [p \in Pairs |-> warning'[p]]
  BY DEF HitRunInv
<1> QED
  BY <1>1, <1>2, <1>4, <1>5, <1>7, <1>8, Moved DEF At

LEMMA AWarning ==
    ASSUME NEW w, NEW a, NEW b, w = [issued |-> a, until |-> b, cleared |-> FALSE]
    PROVE  IsWarning(w) /\ w.issued = a
BY DEF IsWarning

(* The one warned was told, and by a sweep that ended: this one is past it. *)
LEMMA WarnOK ==
    ASSUME OneSweeper, Frame, HitRunInv, NEW r \in Req,
           call[r].op = "sweep", call[r].pc = "judge",
           NEW q \in Pairs, NEW s, IsList(s), Note(r, "warn", s),
           notice[q] # Never, s.now - notice[q] >= Grace,
           warning' = [warning EXCEPT ![q] = IF @ # NoWarning THEN @ ELSE
               [issued |-> s.now, until |-> s.now + WarnLife, cleared |-> FALSE]],
           UNCHANGED <<notice, told, broken>>
    PROVE  HitRunInv'
<1>1. MovesOnly(r) /\ call'[r].seen = s
  BY NoteMoves DEF Frame
<1>2. Forward
  BY StandsStill
<1>3. IsList(s)'
  BY <1>2, KeptLists
<1>4. Lists(r)'
  BY <1>1, <1>3 DEF Lists, Seen
<1>5. Heard(q)
  <2>1. ~Telling(q)
    <3>1. ASSUME NEW t \in Req, At(t, "sweep", "notify") PROVE FALSE
      BY <3>1, OneAtATime DEF At
    <3> QED
      BY <3>1 DEF Telling
  <2> QED
    BY <2>1 DEF HitRunInv
<1>6. ASSUME NEW p \in Pairs PROVE IsWarning(warning'[p]) /\ Fair(p)'
  <2>1. IsWarning(warning[p]) /\ Fair(p)
    BY DEF HitRunInv
  <2>2. CASE warning'[p] = warning[p]
    BY <2>1, <2>2 DEF Fair, Heard, IsWarning
  <2>3. CASE p = q /\ warning'[p] =
               [issued |-> s.now, until |-> s.now + WarnLife, cleared |-> FALSE]
    <3>1. IsWarning(warning'[p]) /\ warning'[p].issued = s.now
      BY <2>3, AWarning
    <3>2. notice'[p] # Never /\ s.now - notice'[p] >= Grace
      BY <2>3
    <3>3. Heard(p)'
      BY <1>5, <2>3 DEF Heard
    <3> QED
      BY <3>1, <3>2, <3>3 DEF Fair
  <2> QED
    BY <2>2, <2>3 DEF HitRunInv
<1>7. warning' = [p \in Pairs |-> warning'[p]]
  BY DEF HitRunInv
<1> QED
  BY <1>1, <1>2, <1>4, <1>6, <1>7, Moved DEF At

LEMMA JudgeOK ==
    ASSUME OneSweeper, Frame, TimeOK, HitRunInv, NEW r \in Req, Judge(r)
    PROVE  HitRunInv'
<1>1. call[r].op = "sweep" /\ call[r].pc = "judge" /\ UNCHANGED told /\ IsList(Seen(r))
  BY DEF Judge, At, HitRunInv, Lists, Sweeping
<1>2. PICK c \in Seen(r).left :
        LET q    == Pair(c)
            rest == [Seen(r) EXCEPT !.left = @ \ {c}, !.at = {q}]
        IN
        \/ /\ Verdict(c, Seen(r).now) = "satisfied"
           /\ Note(r, "judge", rest) /\ NoFault /\ UNCHANGED <<notice, warning, broken>>
        \/ /\ Verdict(c, Seen(r).now) = "prewarn"
           /\ notice' = [notice EXCEPT ![q] = IF @ = Never THEN clock ELSE @]
           /\ Note(r, "notify", rest) /\ NoFault /\ UNCHANGED <<warning, broken>>
        \/ /\ Verdict(c, Seen(r).now) = "warn"
           /\ warning' = [warning EXCEPT ![q] = IF @ # NoWarning THEN @ ELSE
                 [issued |-> Seen(r).now, until |-> Seen(r).now + WarnLife, cleared |-> FALSE]]
           /\ Note(r, "warn", [rest EXCEPT !.touched = @ \cup {c.who}])
           /\ NoFault /\ UNCHANGED <<notice, broken>>
        \/ /\ Verdict(c, Seen(r).now) # "satisfied"
           /\ SweepFails(r) /\ UNCHANGED <<notice, warning>>
  BY Zenon DEF Judge
<1>3. PICK q : q = Pair(c)
  OBVIOUS
<1>4. PICK rest : rest = [Seen(r) EXCEPT !.left = @ \ {c}, !.at = {q}]
  OBVIOUS
<1>5. q \in Pairs /\ (c.told # Never => notice[q] = c.told)
  BY <1>1, <1>2, <1>3 DEF IsList, IsCandidate
<1>6. IsList(rest) /\ rest.at = {q}
  <2>1. PICK s : s = Seen(r)
    OBVIOUS
  <2>2. IsList(s) /\ rest = [s EXCEPT !.left = @ \ {c}, !.at = {q}]
    BY <1>1, <1>4, <2>1
  <2> QED
    BY <2>2 DEF IsList
<1>7. CASE Note(r, "judge", rest) /\ UNCHANGED <<notice, warning, broken>>
  BY <1>1, <1>6, <1>7, SatisfiedOK DEF hitrunVars
<1>8. CASE /\ notice' = [notice EXCEPT ![q] = IF @ = Never THEN clock ELSE @]
           /\ Note(r, "notify", rest) /\ UNCHANGED <<warning, broken>>
  BY <1>1, <1>5, <1>6, <1>8, PrewarnOK
<1>9. CASE /\ Verdict(c, Seen(r).now) = "warn"
           /\ warning' = [warning EXCEPT ![q] = IF @ # NoWarning THEN @ ELSE
                 [issued |-> Seen(r).now, until |-> Seen(r).now + WarnLife, cleared |-> FALSE]]
           /\ Note(r, "warn", [rest EXCEPT !.touched = @ \cup {c.who}])
           /\ UNCHANGED <<notice, broken>>
  <2>1. PICK s : s = [rest EXCEPT !.touched = @ \cup {c.who}]
    OBVIOUS
  <2>2. IsList(s) /\ s.now = rest.now
    BY <1>6, <2>1 DEF IsList
  <2>3. s.now = Seen(r).now
    BY <1>1, <1>4, <2>2 DEF IsList
  <2>4. c.told # Never /\ ~(Seen(r).now - c.told < Grace)
    BY <1>9 DEF Verdict
  <2>5. notice[q] # Never /\ s.now - notice[q] >= Grace
    <3>1. notice[q] \in {Never} \cup Nat /\ Seen(r).now \in Nat /\ Grace \in Nat
      BY <1>1, <1>5, HitRunAssumption DEF HitRunInv, IsList
    <3> QED
      BY <1>5, <2>3, <2>4, <3>1 DEF Never
  <2>6. Note(r, "warn", s)
    BY <1>9, <2>1
  <2>7. warning' = [warning EXCEPT ![q] = IF @ # NoWarning THEN @ ELSE
               [issued |-> s.now, until |-> s.now + WarnLife, cleared |-> FALSE]]
    BY <1>9, <2>3
  <2> QED
    BY <1>1, <1>5, <1>9, <2>2, <2>5, <2>6, <2>7, WarnOK
<1>10. CASE SweepFails(r) /\ UNCHANGED <<notice, warning>>
  <2>1. MovesOnly(r)
    BY HitRunMoves DEF Frame
  <2> QED
    BY <1>1, <1>10, <2>1, FailsOK
<1> QED
  <2>1. \/ Note(r, "judge", rest) /\ UNCHANGED <<notice, warning, broken>>
        \/ /\ notice' = [notice EXCEPT ![q] = IF @ = Never THEN clock ELSE @]
           /\ Note(r, "notify", rest) /\ UNCHANGED <<warning, broken>>
        \/ /\ Verdict(c, Seen(r).now) = "warn"
           /\ warning' = [warning EXCEPT ![q] = IF @ # NoWarning THEN @ ELSE
                 [issued |-> Seen(r).now, until |-> Seen(r).now + WarnLife, cleared |-> FALSE]]
           /\ Note(r, "warn", [rest EXCEPT !.touched = @ \cup {c.who}])
           /\ UNCHANGED <<notice, broken>>
        \/ SweepFails(r) /\ UNCHANGED <<notice, warning>>
    BY <1>2, <1>3, <1>4, Zenon
  <2> QED
    BY <1>7, <1>8, <1>9, <1>10, <2>1

LEMMA DiesOK ==
    ASSUME Frame, HitRunInv, NEW r \in Req, SweepDies(r)
    PROVE  HitRunInv'
<1>1. MovesOnly(r) /\ SweepFails(r) /\ UNCHANGED <<notice, warning, told>>
  BY HitRunMoves DEF SweepDies, Frame
<1> QED
  BY <1>1, FailsOK

LEMMA NextHitRun ==
    ASSUME OneSweeper, Frame, TimeOK, HitRunInv, [Next]_vars PROVE HitRunInv'
<1>1. CASE HitRunNext
  BY <1>1, StartOK, ExpireOK, ReadOK, JudgeOK, TellOK, LimitOK, PardonOK, DiesOK DEF HitRunNext
<1>2. CASE UNCHANGED hitrunVars /\ Others(HitRunOps)
  <2>1. Forward
    BY <1>2, StandsStill DEF hitrunVars
  <2>2. \A q \in Pairs : IsWarning(warning'[q]) /\ Fair(q)'
    BY <1>2, <2>1, KeptWarnings DEF hitrunVars
  <2>3. ASSUME NEW r \in Req PROVE Lists(r)'
    <3>1. CASE call[r].op = "sweep"
      <4>1. call'[r] = call[r] /\ Lists(r)
        BY <1>2, <3>1 DEF Others, HitRunOps, HitRunInv
      <4> QED
        BY <2>1, <4>1, KeptLists DEF Lists, Seen
    <3>2. CASE call[r].op # "sweep"
      BY <3>2, SameVisits DEF Lists
    <3> QED
      BY <3>1, <3>2
  <2>4. ASSUME NEW q \in Pairs, notice'[q] # Never PROVE Heard(q)' \/ Telling(q)'
    <3>1. Heard(q) \/ Telling(q)
      BY <1>2, <2>4 DEF HitRunInv, hitrunVars
    <3>2. CASE Telling(q)
      <4>1. PICK s \in Req : At(s, "sweep", "notify") /\ q \in Seen(s).at
        BY <3>2 DEF Telling
      <4>2. call'[s] = call[s]
        BY <1>2, <4>1 DEF Others, HitRunOps, At
      <4>3. At(s, "sweep", "notify")' /\ q \in Seen(s)'.at
        BY <4>1, <4>2 DEF At, Seen
      <4> QED
        BY <4>3 DEF Telling
    <3> QED
      BY <2>1, <3>1, <3>2 DEF Forward
  <2>5. warning' = [q \in Pairs |-> warning'[q]]
    BY <1>2 DEF HitRunInv, hitrunVars
  <2> QED
    BY <2>1, <2>2, <2>3, <2>4, <2>5 DEF HitRunInv, Forward
<1> QED
  BY <1>1, <1>2, Foreign

(* Whoever is warned was told before, had the grace since, and heard of it  *)
(* unless a sweep died: with one sweep at a time, as the host's job loop    *)
(* runs it, a sweep is never judging while another still has a notice to    *)
(* send.                                                                    *)
THEOREM WarnedWereTold == ASSUME OneSweeper PROVE Spec => []ToldBeforeWarned
<1> DEFINE Inv == Frame /\ TimeOK /\ HitRunInv
<1>1. Init => Inv
  BY InitFrame, InitTime, InitHitRun
<1>2. Inv /\ [Next]_vars => Inv'
  BY Foreign, NextTime, NextHitRun
<1>3. Inv => ToldBeforeWarned
  BY DEF HitRunInv, Fair, Heard, ToldBeforeWarned
<1> QED
  BY <1>1, <1>2, <1>3, PTL DEF Spec


---------------------------------------------------------------------------
(* Types.                                                                   *)
LEMMA NextFaults == ASSUME faults \in Nat, [Next]_vars PROVE faults' \in Nat
<1> DEFINE Fewer == UNCHANGED faults \/ Fault
<1>1. ASSUME NEW r \in Req, WebhookStep(r) PROVE Fewer
  <2>1. ASSUME WebhookRead(r) \/ WebhookFetch(r) \/ CreateDonation(r) \/ WebhookRecheck(r) PROVE Fewer
    BY <2>1 DEF WebhookRead, WebhookFetch, CreateDonation, WebhookRecheck, NoFault
  <2>2. ASSUME GoalRead(r) \/ GoalWindow(r) \/ GoalInsert(r) PROVE Fewer
    BY <2>2 DEF GoalRead, GoalWindow, GoalInsert, WindowRead, WindowInsert, NoFault
  <2>3. ASSUME MarkFired(r) \/ EmitAndAnswer(r) \/ Redeliver(r) PROVE Fewer
    BY <2>3 DEF MarkFired, EmitAndAnswer, Redeliver, NoFault
  <2> QED
    BY <1>1, <2>1, <2>2, <2>3 DEF WebhookStep
<1>2. ASSUME DonationsNext PROVE Fewer
  <2>1. PICK r \in Req : WebhookStep(r) \/ ClaimRead(r) \/ ClaimInvoice(r) \/ DonationDies(r)
    BY <1>2 DEF DonationsNext
  <2> QED
    BY <1>1, <2>1 DEF ClaimRead, ClaimInvoice, DonationDies, Cut, NoFault
<1>3. ASSUME NEW r \in Req, SpendCheck(r) \/ SpendTake(r) \/ ReloadRead(r) \/ ReloadInstall(r)
      PROVE  Fewer
  BY <1>3 DEF SpendCheck, SpendTake, ReloadRead, ReloadInstall, NoFault
<1>4. ASSUME NEW r \in Req, FreeleechRead(r) \/ FreeleechSet(r) \/ TimerAgain(r) \/ SpendDies(r)
      PROVE  Fewer
  BY <1>4 DEF FreeleechRead, FreeleechSet, TimerAgain, SpendDies, Cut, NoFault
<1>5. ASSUME SeedLockNext PROVE Fewer
  <2>1. PICK r \in Req : \/ StopHeld(r) \/ StopRelease(r) \/ AcquireSet(r) \/ AcquireGet(r)
                         \/ Decide(r) \/ Refresh(r) \/ ClearClaim(r)
    BY <1>5 DEF SeedLockNext
  <2> QED
    BY <2>1 DEF StopHeld, StopRelease, AcquireSet, AcquireGet, Decide, Refresh, ClearClaim, NoFault
<1>6. ASSUME NEW r \in Req, Report(r) \/ AnnounceGet(r) \/ AnnouncePut(r) \/ AnnounceCredit(r)
      PROVE  Fewer
  BY <1>6 DEF Report, AnnounceGet, AnnouncePut, AnnounceCredit, NoFault
<1>7. ASSUME NEW r \in Req, \/ AnnounceSnatch(r) \/ AnnounceList(r) \/ AnnounceCount(r)
                            \/ NextInterval(r) \/ AnnounceDies(r)
      PROVE  Fewer
  BY <1>7 DEF AnnounceSnatch, AnnounceList, AnnounceCount, NextInterval, AnnounceDies, NoFault
<1>8. ASSUME NEW r \in Req, SweepStart(r) \/ SweepExpire(r) \/ SweepRead(r) \/ Judge(r)
      PROVE  Fewer
  BY <1>8 DEF SweepStart, SweepExpire, SweepRead, Judge, SweepFails, NoFault
<1>9. ASSUME NEW r \in Req, Tell(r) \/ SweepLimit(r) \/ Pardon(r) \/ SweepDies(r)
      PROVE  Fewer
  BY <1>9 DEF Tell, SweepLimit, Pardon, SweepDies, SweepFails, NoFault
<1>10. Fewer
  <2>1. ASSUME PerksNext PROVE Fewer
    BY <2>1, <1>3, <1>4 DEF PerksNext
  <2>2. ASSUME AnnounceNext PROVE Fewer
    BY <2>2, <1>6, <1>7 DEF AnnounceNext
  <2>3. ASSUME HitRunNext PROVE Fewer
    BY <2>3, <1>8, <1>9 DEF HitRunNext
  <2> QED
    BY <1>2, <1>5, <2>1, <2>2, <2>3 DEF Next, Tick, vars
<1> QED
  BY <1>10 DEF Fault

(* Donations, and what a webhook carries to its row.                        *)
Pays(r) == call[r].op = "webhook" =>
    /\ call[r].pc \in {"fetch", "create"} => settled[Arg(r).invoice] # Unpaid
    /\ call[r].pc = "create" => Seen(r) = [asset |-> Seen(r).asset, usd |-> Seen(r).usd]
                                /\ Seen(r).usd \in Nat

DonationsOK == \A d \in donations : d.txid \in Invoice /\ d.usd \in Nat /\ d.at \in 0..clock

DonationInv ==
    /\ settled \in [Invoice -> {Unpaid} \cup 0..clock]
    /\ answered \subseteq Invoice
    /\ fired \in {NoMonth} \cup Nat
    /\ DonationsOK
    /\ \A r \in Req : Pays(r)

LEMMA InitDonations == ASSUME Init PROVE DonationInv
<1>1. /\ settled = [i \in Invoice |-> IF i \in MadeHere THEN Unpaid ELSE clock] /\ clock = 0
      /\ donations = {} /\ fired = NoMonth /\ answered = {}
  BY DEF Init, DonationsInit, SiteInit
<1>2. \A r \in Req : Pays(r)
  BY InitStarts DEF Pays
<1>3. settled \in [Invoice -> {Unpaid} \cup 0..clock]
  BY <1>1
<1> QED
  BY <1>1, <1>2, <1>3 DEF DonationInv, DonationsOK

LEMMA InvoiceGiven ==
    ASSUME Frame, NEW r \in Req, call[r].op \in DonationOps PROVE Arg(r).invoice \in Invoice
<1>1. PICK p \in Plans : p[r].op = call[r].op /\ p[r].arg = call[r].arg
  BY DEF Frame, Given
<1> QED
  BY <1>1, DonationAssumption DEF DonationOps, Arg

(* A step of r after which the rows and its own state are right.            *)
LEMMA DonationMoved ==
    ASSUME Frame, TimeOK, clock' = clock, DonationInv, NEW r \in Req, MovesOnly(r),
           call[r].op \in DonationOps, Pays(r)',
           \/ settled' = settled
           \/ call[r].op = "claim" /\ settled' = [settled EXCEPT ![Arg(r).invoice] = clock],
           answered' = answered \/ answered' = answered \cup {Arg(r).invoice},
           fired' \in {NoMonth} \cup Nat, DonationsOK'
    PROVE  DonationInv'
<1>1. Arg(r).invoice \in Invoice
  BY InvoiceGiven
<1>2. settled' \in [Invoice -> {Unpaid} \cup 0..clock']
  BY <1>1 DEF DonationInv, TimeOK
<1>3. \A i \in Invoice : settled[i] # Unpaid => settled'[i] # Unpaid
  BY <1>1 DEF DonationInv, TimeOK, Unpaid
<1>4. ASSUME NEW s \in Req, s # r PROVE Pays(s)'
  <2>1. call'[s] = call[s] /\ Pays(s)
    BY <1>4 DEF MovesOnly, DonationInv
  <2>2. call[s].op = "webhook" => Arg(s).invoice \in Invoice
    BY InvoiceGiven DEF DonationOps
  <2> QED
    BY <1>3, <2>1, <2>2 DEF Pays, Arg, Seen
<1> QED
  BY <1>1, <1>2, <1>4 DEF DonationInv



(* A step of a donor or a delivery.                                         *)
LEMMA DonorOK ==
    ASSUME Frame, TimeOK, DonationInv, NEW r \in Req, ClaimRead(r) \/ ClaimInvoice(r)
    PROVE  DonationInv'
<1>1. /\ MovesOnly(r) /\ call[r].op = "claim" /\ clock' = clock
      /\ UNCHANGED <<donations, fired, answered>>
  BY DonationMoves DEF Frame, ClaimRead, ClaimInvoice, At, timeVars, donationVars
<1>2. Pays(r)'
  BY <1>1 DEF Pays, MovesOnly
<1>3. DonationsOK' /\ fired' \in {NoMonth} \cup Nat
  BY <1>1 DEF DonationInv, DonationsOK
<1>4. \/ settled' = settled
      \/ call[r].op = "claim" /\ settled' = [settled EXCEPT ![Arg(r).invoice] = clock]
  BY <1>1 DEF ClaimRead, ClaimInvoice, donationVars
<1> QED
  BY <1>1, <1>2, <1>3, <1>4, DonationMoved DEF DonationOps

LEMMA ReadsInvoice ==
    ASSUME Frame, TimeOK, DonationInv, NEW r \in Req, WebhookRead(r) \/ WebhookFetch(r)
    PROVE  DonationInv'
<1>1. /\ MovesOnly(r) /\ call[r].op = "webhook" /\ clock' = clock
      /\ UNCHANGED <<settled, donations, fired>>
  BY DonationMoves DEF Frame, WebhookStep, WebhookRead, WebhookFetch, At, timeVars, donationVars
<1>2. DonationsOK' /\ fired' \in {NoMonth} \cup Nat
  BY <1>1 DEF DonationInv, DonationsOK
<1>3. answered' = answered \/ answered' = answered \cup {Arg(r).invoice}
  BY DEF WebhookRead, WebhookFetch, Answer, donationVars
<1>4. settled[Arg(r).invoice] # Unpaid /\ Arg(r)' = Arg(r)
  BY <1>1 DEF WebhookRead, WebhookFetch, At, DonationInv, Pays, MovesOnly, Arg
<1>5. Pays(r)'
  <2>1. CASE WebhookRead(r)
    <3>1. call'[r].pc # "create"
      BY <2>1, GotoMoves DEF WebhookRead, Answer, Frame
    <3> QED
      BY <1>1, <1>4, <3>1 DEF Pays
  <2>2. CASE WebhookFetch(r)
    <3>1. PICK s : Note(r, "create", s) /\ s \in {[asset |-> "USD", usd |-> Price], [asset |-> "BTC", usd |-> 0]}
      BY <2>2 DEF WebhookFetch
    <3>2. call'[r].seen = s
      BY <3>1, NoteMoves DEF Frame
    <3>3. s = [asset |-> s.asset, usd |-> s.usd] /\ s.usd \in Nat
      BY <3>1, DonationAssumption
    <3> QED
      BY <1>1, <1>4, <3>2, <3>3 DEF Pays, Seen
  <2> QED
    BY <2>1, <2>2
<1> QED
  BY <1>1, <1>2, <1>3, <1>5, DonationMoved DEF DonationOps

LEMMA CreatesRow ==
    ASSUME Frame, TimeOK, DonationInv, NEW r \in Req, CreateDonation(r)
    PROVE  DonationInv'
<1>1. /\ MovesOnly(r) /\ call[r].op = "webhook" /\ call[r].pc = "create" /\ clock' = clock
      /\ UNCHANGED <<settled, fired, answered>>
  BY DonationMoves DEF Frame, WebhookStep, CreateDonation, At, timeVars
<1>2. PICK row : row = [txid |-> Arg(r).invoice, asset |-> Seen(r).asset,
                        usd |-> Seen(r).usd, at |-> settled[Arg(r).invoice]]
  OBVIOUS
<1>3. row.txid \in Invoice /\ row.usd \in Nat /\ row.at \in 0..clock
  BY <1>1, <1>2, InvoiceGiven DEF DonationInv, Pays, DonationOps
<1>4. donations' \in {donations, donations \cup {row}}
  BY <1>2, Zenon DEF CreateDonation
<1>5. DonationsOK'
  BY <1>1, <1>3, <1>4 DEF DonationInv, DonationsOK
<1>6. call'[r].pc \in {"recheck", "goal"}
  BY GotoMoves DEF CreateDonation, Frame
<1>7. Pays(r)'
  BY <1>6 DEF Pays
<1> QED
  BY <1>1, <1>5, <1>7, DonationMoved DEF DonationOps, DonationInv

LEMMA RewardsGoal ==
    ASSUME Frame, TimeOK, WindowInv, DonationInv, NEW r \in Req,
           \/ WebhookRecheck(r) \/ GoalRead(r) \/ GoalWindow(r) \/ GoalInsert(r)
           \/ MarkFired(r) \/ EmitAndAnswer(r)
    PROVE  DonationInv'
<1>1. MovesOnly(r)
  BY DonationMoves DEF Frame, WebhookStep
<1>2. call[r].op = "webhook" /\ clock' = clock /\ UNCHANGED <<settled, donations>>
  BY DEF WebhookRecheck, GoalRead, GoalWindow, GoalInsert, MarkFired, EmitAndAnswer, At,
     WindowRead, WindowInsert, timeVars, donationVars
<1>3. answered' = answered \/ answered' = answered \cup {Arg(r).invoice}
  BY DEF WebhookRecheck, GoalRead, GoalWindow, GoalInsert, MarkFired, EmitAndAnswer, Answer,
     donationVars
<1>4. fired' = fired \/ (fired' = Seen(r).month /\ call[r].pc = "mark")
  BY DEF WebhookRecheck, GoalRead, GoalWindow, GoalInsert, MarkFired, EmitAndAnswer, At, donationVars
<1>5. fired' \in {NoMonth} \cup Nat
  BY <1>2, <1>4 DEF DonationInv, WindowInv, GoalSeen
<1>6. call'[r].pc \notin {"fetch", "create"}
  BY GotoMoves, NoteMoves DEF Frame, WebhookRecheck, GoalRead, GoalWindow, GoalInsert, MarkFired,
     EmitAndAnswer, Answer, WindowRead, WindowInsert
<1>7. Pays(r)'
  BY <1>6 DEF Pays
<1>8. DonationsOK'
  BY <1>2 DEF DonationInv, DonationsOK
<1> QED
  BY <1>1, <1>2, <1>3, <1>5, <1>7, <1>8, DonationMoved DEF DonationOps

LEMMA EndsOrAgain ==
    ASSUME Frame, TimeOK, DonationInv, NEW r \in Req, Redeliver(r) \/ DonationDies(r)
    PROVE  DonationInv'
<1>1. MovesOnly(r) /\ call[r].op \in DonationOps
  BY DonationMoves DEF Frame, WebhookStep
<1>2. clock' = clock /\ UNCHANGED <<settled, donations, fired, answered>>
  BY DEF Redeliver, DonationDies, timeVars, donationVars
<1>3. call'[r].pc \in {"start", "dead"}
  BY GotoMoves DEF Redeliver, DonationDies, Cut, Frame
<1>4. Pays(r)'
  BY <1>3 DEF Pays
<1>5. DonationsOK' /\ fired' \in {NoMonth} \cup Nat
  BY <1>2 DEF DonationInv, DonationsOK
<1> QED
  BY <1>1, <1>2, <1>4, <1>5, DonationMoved

LEMMA NextDonations ==
    ASSUME Frame, TimeOK, WindowInv, DonationInv, [Next]_vars PROVE DonationInv'
<1>1. CASE DonationsNext
  BY <1>1, DonorOK, ReadsInvoice, CreatesRow, RewardsGoal, EndsOrAgain
     DEF DonationsNext, WebhookStep
<1>2. CASE UNCHANGED <<windows, donationVars>> /\ Others(DonationOps)
  <2>1. clock \in Nat /\ clock' \in Nat /\ clock <= clock'
    BY NextTime DEF TimeOK
  <2>2. settled' \in [Invoice -> {Unpaid} \cup 0..clock']
    BY <1>2, <2>1 DEF DonationInv, donationVars
  <2>3. DonationsOK'
    BY <1>2, <2>1 DEF DonationInv, DonationsOK, donationVars
  <2>4. ASSUME NEW s \in Req PROVE Pays(s)'
    <3>1. CASE call[s].op = "webhook"
      <4>1. call'[s] = call[s] /\ settled' = settled /\ Pays(s)
        BY <1>2, <3>1 DEF Others, DonationOps, DonationInv, donationVars
      <4> QED
        BY <4>1 DEF Pays, Arg, Seen
    <3>2. CASE call[s].op # "webhook"
      BY <3>2, SameVisits DEF Pays
    <3> QED
      BY <3>1, <3>2
  <2> QED
    BY <1>2, <2>2, <2>3, <2>4 DEF DonationInv, donationVars
<1> QED
  BY <1>1, <1>2, Foreign

(* Every reachable state is well typed: windows have their length, rows are *)
(* of the time that has passed, what a webhook carries to its row is a sum. *)
THEOREM TypeCorrect == Spec => []TypeOK
<1> DEFINE Inv == SiteInv /\ DonationInv /\ faults \in Nat
<1>1. Init => Inv
  <2>1. Init => faults \in Nat
    BY SiteAssumption DEF Init, SiteInit, HandlersInit
  <2> QED
    BY <2>1, InitSite, InitDonations
<1>2. Inv /\ [Next]_vars => Inv'
  BY NextSite, NextDonations, NextFaults DEF SiteInv
<1>3. Inv => TypeOK
  <2> SUFFICES ASSUME Inv PROVE TypeOK
    OBVIOUS
  <2>1. clock \in Nat /\ ticks \in Nat
    BY DEF SiteInv, TimeOK
  <2>2. \A w \in windows : w.from \in Nat /\ w.to = w.from + WindowLength
    BY DEF SiteInv, WindowInv, IsWindow
  <2>3. /\ settled \in [Invoice -> {Unpaid} \cup 0..clock] /\ answered \subseteq Invoice
        /\ fired \in {NoMonth} \cup Nat
        /\ \A d \in donations : d.txid \in Invoice /\ d.usd \in Nat /\ d.at \in 0..clock
    BY DEF DonationInv, DonationsOK
  <2>4. \A t \in tokens : t.who \in Member /\ t.torrent \in Torrent \cup {NoTorrent}
    BY DEF SiteInv, TokenInv, IsToken
  <2>5. \A m \in Member : \A t \in Torrent :
          /\ stats[m][t].up \in Nat /\ stats[m][t].down \in Nat
          /\ stats[m][t].seen \in 0..clock
    BY <2>1 DEF SiteInv, AnnounceInv, RowsOK, StatRow
  <2>6. snatches \in [Torrent -> Nat]
    BY DEF SiteInv, AnnounceInv
  <2> QED
    BY <2>1, <2>2, <2>3, <2>4, <2>5, <2>6 DEF TypeOK
<1> QED
  BY <1>1, <1>2, <1>3, PTL DEF Spec

---------------------------------------------------------------------------
(* Credit is honest.  What a report may still add to a row is what the       *)
(* client moved since the peer's snapshot in Redis, or what a report in      *)
(* flight found new when it read one; what is owed and what was credited     *)
(* are together no more than what moved.                                     *)
Minus(a, b) == IF a >= b THEN a - b ELSE 0

Last(r)     == swarm[Arg(r).torrent].peers
Entry(r, f) == IF Id(r) \in DOMAIN Last(r) THEN Minus(client[Id(r)][f], Last(r)[Id(r)][f]) ELSE 0
Hand(r, f)  == IF call[r].pc \in Announcing \ {"get"}
               THEN (IF f = "up" THEN Up(r) ELSE Down(r)) ELSE 0
Owing(r, f) == IF Entry(r, f) >= Hand(r, f) THEN Entry(r, f) ELSE Hand(r, f)

ClientOn(r, m, t) == call[r].op = "client" /\ Who(r) = m /\ Arg(r).torrent = t
Owed(m, t, f) == [r \in Req |-> IF ClientOn(r, m, t) THEN Owing(r, f) ELSE 0]
Room(m, t, f) == moved[m][t][f] - SumFunctionOnSet(Owed(m, t, f), Req)

MovedOK == moved \in [Member -> [Torrent -> [up : Nat, down : Nat]]]

(* A report carries the totals of its client, which waits for the answer.    *)
Carried(r) == call[r].pc \in Announcing =>
    Seen(r).up = client[Id(r)].up /\ Seen(r).down = client[Id(r)].down

Settled(r) == call[r].pc = "credit" /\ ~Seen(r).stop /\ ~lost =>
    Entry(r, "up") = 0 /\ Entry(r, "down") = 0

Factor(m, t) == IF Doubled(m, t) THEN 2 ELSE 1

Covered(m, t) ==
    /\ stats[m][t].down <= Room(m, t, "down")
    /\ stats[m][t].up <= Factor(m, t) * Room(m, t, "up")

CreditInv ==
    /\ MovedOK
    /\ \A r \in Req : call[r].op = "client" => Carried(r) /\ Settled(r)
    /\ ~lost => \A m \in Member : \A t \in Torrent : Covered(m, t)

(* A peer is one client, that announces one report after the other.          *)
OnePeer == \A p \in Plans : \A r, s \in Req :
    r # s /\ p[r].op = "client" /\ p[s].op = "client" => p[r].arg.peer # p[s].arg.peer

---------------------------------------------------------------------------
Kinds == {"up", "down"}

LEMMA MinusFacts ==
    ASSUME NEW a \in Nat, NEW b \in Nat
    PROVE  /\ Minus(a, b) \in Nat
           /\ Minus(a, a) = 0 /\ Minus(0, b) = 0
           /\ \A d \in Nat : Minus(a + d, b) <= Minus(a, b) + d
BY DEF Minus

LEMMA OwingIsNat ==
    ASSUME Frame, AnnounceInv, NEW r \in Req, call[r].op = "client", NEW f \in Kinds
    PROVE  /\ Entry(r, f) \in Nat /\ Hand(r, f) \in Nat /\ Owing(r, f) \in Nat
           /\ Entry(r, f) <= Owing(r, f) /\ Hand(r, f) <= Owing(r, f)
<1>1. Arg(r).torrent \in Torrent
  BY ClientGiven
<1>2. client[Id(r)][f] \in Nat
  BY DEF AnnounceInv, ClientsOK, Session, Kinds
<1>3. IsSwarm(swarm[Arg(r).torrent])
  BY <1>1 DEF AnnounceInv, SwarmsOK
<1>4. \A id \in DOMAIN Last(r) : Last(r)[id][f] \in Nat
  BY <1>3 DEF IsSwarm, IsPeer, Last, Kinds
<1>5. Entry(r, f) \in Nat
  BY <1>2, <1>4, MinusFacts DEF Entry
<1>6. Hand(r, f) \in Nat
  <2>1. CASE call[r].pc \in Announcing
    <3>1. IsReport(Seen(r))
      BY <2>1 DEF AnnounceInv, Reports
    <3>2. Up(r) \in Nat /\ Down(r) \in Nat
      BY <3>1, CreditsAreNat
    <3> QED
      BY <3>2 DEF Hand
  <2>2. CASE call[r].pc \notin Announcing
    BY <2>2 DEF Hand
  <2> QED
    BY <2>1, <2>2
<1> QED
  BY <1>5, <1>6 DEF Owing

LEMMA OwedIsNat ==
    ASSUME Frame, AnnounceInv, NEW m, NEW t, NEW f \in Kinds
    PROVE  \A r \in Req : Owed(m, t, f)[r] \in Nat
BY OwingIsNat DEF Owed, ClientOn

LEMMA OwedIsNatNext ==
    ASSUME NEW m, NEW t, NEW f \in Kinds
    PROVE  (Frame /\ AnnounceInv => \A r \in Req : Owed(m, t, f)[r] \in Nat)'
<1>1. Frame /\ AnnounceInv => \A r \in Req : Owed(m, t, f)[r] \in Nat
  BY OwedIsNat
<1> QED
  BY <1>1, PTL

LEMMA RoomIsInt ==
    ASSUME Frame, AnnounceInv, MovedOK, NEW m \in Member, NEW t \in Torrent, NEW f \in Kinds
    PROVE  Room(m, t, f) \in Int /\ Room(m, t, f) <= moved[m][t][f] /\ moved[m][t][f] \in Nat
<1> DEFINE o == Owed(m, t, f)
<1>1. \A r \in Req : o[r] \in Nat
  BY OwedIsNat
<1>2. moved[m][t][f] \in Nat
  BY DEF MovedOK, Kinds
<1>3. IsFiniteSet(Req)
  BY SiteAssumption
<1> HIDE DEF o
<1>4. SumFunctionOnSet(o, Req) \in Nat
  BY <1>1, <1>3, SumNat
<1> QED
  BY <1>2, <1>4 DEF Room, o

(* One visit moves d more and is credited gain of what it was owed.          *)
LEMMA RoomGrows ==
    ASSUME Frame, AnnounceInv, Frame', AnnounceInv', NEW f \in Kinds,
           NEW m \in Member, NEW t \in Torrent, moved[m][t][f] \in Int,
           NEW d \in Int, NEW gain \in Int, NEW r \in Req,
           \A s \in Req : s # r => Owed(m, t, f)'[s] <= Owed(m, t, f)[s],
           Owed(m, t, f)'[r] <= Owed(m, t, f)[r] + d - gain,
           moved'[m][t][f] = moved[m][t][f] + d
    PROVE  Room(m, t, f)' >= Room(m, t, f) + gain
<1> DEFINE o == Owed(m, t, f)
           p == Owed(m, t, f)'
           q == [s \in Req |-> IF s = r THEN o[r] + d - gain ELSE o[s]]
<1>1. /\ \A s \in Req : o[s] \in Int
      /\ \A s \in Req : p[s] \in Int
      /\ IsFiniteSet(Req)
  <2>1. \A s \in Req : o[s] \in Nat
    BY OwedIsNat
  <2>2. \A s \in Req : p[s] \in Nat
    BY OwedIsNatNext
  <2> QED
    BY <2>1, <2>2, SiteAssumption
<1>2. \A s \in Req : s # r => p[s] <= o[s]
  OBVIOUS
<1>3. p[r] <= o[r] + d - gain
  OBVIOUS
<1>4. /\ Room(m, t, f) = moved[m][t][f] - SumFunctionOnSet(o, Req)
      /\ Room(m, t, f)' = moved'[m][t][f] - SumFunctionOnSet(p, Req)
  BY DEF Room
<1> HIDE DEF o, p
<1>5. /\ \A s \in Req : q[s] \in Int
      /\ \A s \in Req : p[s] <= q[s]
      /\ q[r] = o[r] + d - gain
      /\ \A s \in Req : s # r => q[s] = o[s]
  BY <1>1, <1>2, <1>3
<1> HIDE DEF q
<1>6. SumFunctionOnSet(p, Req) <= SumFunctionOnSet(q, Req)
  BY <1>1, <1>5, SumLeq
<1>7. SumFunctionOnSet(q, Req) = SumFunctionOnSet(o, Req) + q[r] - o[r]
  BY <1>1, <1>5, SumChange
<1>8. SumFunctionOnSet(o, Req) \in Int
  BY <1>1, SumInt
<1>9. SumFunctionOnSet(p, Req) \in Int
  BY <1>1, SumInt
<1>10. o[r] \in Int
  BY <1>1
<1>11. SumFunctionOnSet(p, Req) <= SumFunctionOnSet(o, Req) + d - gain
  BY <1>5, <1>6, <1>7, <1>8, <1>9, <1>10
<1> QED
  BY <1>4, <1>8, <1>9, <1>11

---------------------------------------------------------------------------
OneHere == \A r, s \in Req :
    r # s /\ call[r].op = "client" /\ call[s].op = "client" => Id(r) # Id(s)

LEMMA PeersDiffer == ASSUME OnePeer, Frame PROVE OneHere
<1>1. PICK p \in Plans : \A r \in Req :
        call[r].op = p[r].op /\ call[r].who = p[r].who /\ call[r].arg = p[r].arg
  BY DEF Frame, Given
<1> QED
  BY <1>1 DEF OneHere, OnePeer, Id, Arg

ClientStep(r) ==
    \/ Report(r) \/ AnnounceGet(r) \/ AnnouncePut(r) \/ AnnounceCredit(r)
    \/ AnnounceSnatch(r) \/ AnnounceList(r) \/ AnnounceCount(r)
    \/ NextInterval(r) \/ AnnounceDies(r)

(* The snapshot of s in Redis is the one it was, or it is gone.              *)
EntryKept(s) == Id(s) \in DOMAIN Last(s)' =>
    Id(s) \in DOMAIN Last(s) /\ Last(s)'[Id(s)] = Last(s)[Id(s)]

LEMMA EntryStays ==
    ASSUME NEW s \in Req, NEW f \in Kinds,
           call'[s].arg = call[s].arg, client'[Id(s)] = client[Id(s)], EntryKept(s)
    PROVE  Entry(s, f)' = 0 \/ Entry(s, f)' = Entry(s, f)
<1>1. Id(s)' = Id(s)
  BY DEF Id, Arg
<1> QED
  BY <1>1 DEF Entry, EntryKept, Minus

LEMMA PeersKept ==
    ASSUME NEW t, NEW id, id \in DOMAIN Peers(t)
    PROVE  id \in DOMAIN swarm[t].peers /\ Peers(t)[id] = swarm[t].peers[id]
BY DEF Peers, NoPeers

(* A put of r writes the snapshot of r only.                                 *)
LEMMA PutKeeps ==
    ASSUME Frame, AnnounceInv, OneHere, NEW r \in Req, AnnouncePut(r),
           NEW s \in Req, s # r, call[s].op = "client"
    PROVE  EntryKept(s)
<1> DEFINE t == Arg(r).torrent
           w == IF Seen(r).stop
                THEN [peers |-> Without(Peers(t), Id(r)), until |-> swarm[t].until]
                ELSE [peers |-> With(Peers(t), Id(r), Snapshot(r)), until |-> clock + PeerTTL]
<1>1. call[r].op = "client" /\ MovesOnly(r)
  BY AnnounceMoves DEF Frame
<1>2. Id(s) # Id(r)
  BY <1>1 DEF OneHere
<1>3. t \in Torrent /\ Arg(s).torrent \in Torrent
  BY <1>1, ClientGiven
<1>4. Arg(s)' = Arg(s)
  BY <1>1 DEF MovesOnly, Arg
<1>5. UNCHANGED swarm \/ swarm' = [swarm EXCEPT ![t] = w]
  BY DEF AnnouncePut
<1>6. ASSUME Id(s) \in DOMAIN w.peers
      PROVE  Id(s) \in DOMAIN Peers(t) /\ w.peers[Id(s)] = Peers(t)[Id(s)]
  <2>1. CASE Seen(r).stop
    <3>1. w.peers = [x \in DOMAIN Peers(t) \ {Id(r)} |-> Peers(t)[x]]
      BY <2>1 DEF Without
    <3> HIDE DEF w
    <3> QED
      BY <1>2, <1>6, <3>1
  <2>2. CASE ~Seen(r).stop
    <3>1. w.peers = [x \in DOMAIN Peers(t) \cup {Id(r)} |->
                        IF x = Id(r) THEN Snapshot(r) ELSE Peers(t)[x]]
      BY <2>2 DEF With
    <3> HIDE DEF w
    <3> QED
      BY <1>2, <1>6, <3>1
  <2> QED
    BY <2>1, <2>2
<1> HIDE DEF w
<1>7. CASE UNCHANGED swarm \/ Arg(s).torrent # t
  <2>1. Last(s)' = Last(s)
    BY <1>3, <1>4, <1>5, <1>7 DEF Last, AnnounceInv, SwarmsOK
  <2> QED
    BY <2>1 DEF EntryKept
<1>8. CASE swarm' = [swarm EXCEPT ![t] = w] /\ Arg(s).torrent = t
  <2>1. Last(s)' = w.peers
    BY <1>3, <1>4, <1>8 DEF Last, AnnounceInv, SwarmsOK
  <2>2. Last(s) = swarm[t].peers
    BY <1>8 DEF Last
  <2> QED
    BY <1>6, <2>1, <2>2, PeersKept DEF EntryKept
<1> QED
  BY <1>5, <1>7, <1>8

(* A list of r drops snapshots and changes none.                             *)
LEMMA ListKeeps ==
    ASSUME Frame, AnnounceInv, NEW r \in Req, AnnounceList(r),
           NEW s \in Req, call[s].op = "client"
    PROVE  EntryKept(s)
<1> DEFINE t == Arg(r).torrent
           fresh == {id \in DOMAIN Peers(t) : Peers(t)[id].seen + PeerTTL >= clock}
           f == [id \in fresh |-> Peers(t)[id]]
<1>1. call[r].op = "client" /\ MovesOnly(r)
  BY AnnounceMoves DEF Frame
<1>2. t \in Torrent /\ Arg(s).torrent \in Torrent
  BY <1>1, ClientGiven
<1>3. Arg(s)' = Arg(s)
  BY <1>1 DEF MovesOnly, Arg
<1>4. UNCHANGED swarm \/ swarm' = [swarm EXCEPT ![t].peers = f]
  BY DEF AnnounceList
<1>5. \A id \in DOMAIN f : id \in DOMAIN Peers(t) /\ f[id] = Peers(t)[id]
  OBVIOUS
<1> HIDE DEF f
<1>6. CASE UNCHANGED swarm \/ Arg(s).torrent # t
  <2>1. Last(s)' = Last(s)
    BY <1>2, <1>3, <1>4, <1>6 DEF Last, AnnounceInv, SwarmsOK
  <2> QED
    BY <2>1 DEF EntryKept
<1>7. CASE swarm' = [swarm EXCEPT ![t].peers = f] /\ Arg(s).torrent = t
  <2>1. IsSwarm(swarm[t])
    BY <1>2 DEF AnnounceInv, SwarmsOK
  <2>2. swarm'[t].peers = f
    BY <1>2, <1>7, <2>1 DEF AnnounceInv, SwarmsOK, IsSwarm
  <2>3. Last(s)' = f
    BY <1>3, <1>7, <2>2 DEF Last
  <2>4. Last(s) = swarm[t].peers
    BY <1>7 DEF Last
  <2> QED
    BY <1>5, <2>3, <2>4, PeersKept DEF EntryKept
<1> QED
  BY <1>4, <1>6, <1>7

(* What r has put is what its client told.                                   *)
LEMMA PutClears ==
    ASSUME Frame, AnnounceInv, NEW r \in Req, AnnouncePut(r), Carried(r), ~lost'
    PROVE  \/ Entry(r, "up")' = 0 /\ Entry(r, "down")' = 0
           \/ UNCHANGED swarm /\ Seen(r).stop
<1> DEFINE t == Arg(r).torrent
<1>1. call[r].op = "client" /\ call[r].pc = "put" /\ Goto(r, "credit") /\ UNCHANGED client
  BY DEF AnnouncePut, At, Admitted
<1>2. Seen(r).up = client[Id(r)].up /\ Seen(r).down = client[Id(r)].down
  BY <1>1 DEF Carried, Announcing
<1>3. t \in Torrent
  BY <1>1, ClientGiven
<1>4. Id(r)' = Id(r) /\ Arg(r)' = Arg(r)
  BY <1>1, GotoMoves DEF Id, Arg, MovesOnly, Frame
<1>5. client[Id(r)].up \in Nat /\ client[Id(r)].down \in Nat
  BY <1>1 DEF AnnounceInv, ClientsOK, Session
<1> DEFINE w == IF Seen(r).stop
                THEN [peers |-> Without(Peers(t), Id(r)), until |-> swarm[t].until]
                ELSE [peers |-> With(Peers(t), Id(r), Snapshot(r)), until |-> clock + PeerTTL]
<1>6. \/ swarm' = [swarm EXCEPT ![t] = w]
      \/ UNCHANGED swarm /\ Seen(r).stop
  BY DEF AnnouncePut
<1>7. CASE swarm' = [swarm EXCEPT ![t] = w] /\ Seen(r).stop
  <2>1. w.peers = Without(Peers(t), Id(r))
    BY <1>7
  <2> HIDE DEF w
  <2>2. Last(r)' = Without(Peers(t), Id(r))
    BY <1>3, <1>4, <1>7, <2>1 DEF Last, AnnounceInv, SwarmsOK
  <2>3. Id(r) \notin DOMAIN Last(r)'
    BY <2>2 DEF Without
  <2> QED
    BY <1>4, <2>3 DEF Entry
<1>8. CASE swarm' = [swarm EXCEPT ![t] = w] /\ ~Seen(r).stop
  <2>1. w.peers = With(Peers(t), Id(r), Snapshot(r))
    BY <1>8
  <2> HIDE DEF w
  <2>2. Last(r)' = With(Peers(t), Id(r), Snapshot(r))
    BY <1>3, <1>4, <1>8, <2>1 DEF Last, AnnounceInv, SwarmsOK
  <2>3. Id(r) \in DOMAIN Last(r)' /\ Last(r)'[Id(r)] = Snapshot(r)
    BY <2>2 DEF With
  <2>4. Snapshot(r).up = client[Id(r)].up /\ Snapshot(r).down = client[Id(r)].down
    BY <1>2 DEF Snapshot
  <2>5. Entry(r, "up")' = Minus(client[Id(r)].up, client[Id(r)].up)
    BY <1>1, <1>4, <2>3, <2>4 DEF Entry, Minus
  <2>6. Entry(r, "down")' = Minus(client[Id(r)].down, client[Id(r)].down)
    BY <1>1, <1>4, <2>3, <2>4 DEF Entry, Minus
  <2> QED
    BY <1>5, <2>5, <2>6, MinusFacts
<1> QED
  BY <1>6, <1>7, <1>8

---------------------------------------------------------------------------
LEMMA OwingAtMost ==
    ASSUME NEW s \in Req, NEW f \in Kinds, NEW x \in Int, Entry(s, f)' <= x, Hand(s, f)' <= x
    PROVE  Owing(s, f)' <= x
BY DEF Owing

(* The session and the snapshot of a visit that does not move.               *)
LEMMA ClientsKept ==
    ASSUME Frame, AnnounceInv, OneHere, NEW r \in Req, ClientStep(r),
           NEW s \in Req, s # r, call[s].op = "client"
    PROVE  client'[Id(s)] = client[Id(s)] /\ EntryKept(s)
<1>1. call[r].op = "client" /\ MovesOnly(r)
  BY AnnounceMoves DEF ClientStep, Frame
<1>2. call'[s] = call[s]
  BY <1>1 DEF MovesOnly
<1>3. Id(s) # Id(r)
  BY <1>1 DEF OneHere
<1>4. client'[Id(s)] = client[Id(s)]
  <2>1. CASE Report(r)
    <3>1. PICK m : client' = [client EXCEPT ![Id(r)] = After(r, m)]
      BY <2>1, ReportSays
    <3>2. Id(s) \in DOMAIN client
      BY DEF AnnounceInv, ClientsOK
    <3> QED
      BY <1>3, <3>1, <3>2
  <2>2. CASE ~Report(r)
    BY <2>2 DEF ClientStep, AnnounceGet, AnnouncePut, AnnounceCredit, AnnounceSnatch, AnnounceList,
       AnnounceCount, NextInterval, AnnounceDies, announceVars
  <2> QED
    BY <2>1, <2>2
<1>5. EntryKept(s)
  <2>1. CASE AnnouncePut(r)
    BY <2>1, PutKeeps
  <2>2. CASE AnnounceList(r)
    BY <2>2, ListKeeps
  <2>3. CASE ~AnnouncePut(r) /\ ~AnnounceList(r)
    <3>1. UNCHANGED swarm
      BY <2>3 DEF ClientStep, Report, AnnounceGet, AnnounceCredit, AnnounceSnatch,
         AnnounceCount, NextInterval, AnnounceDies, announceVars
    <3>2. Last(s)' = Last(s)
      BY <1>2, <3>1 DEF Last, Arg
    <3> QED
      BY <3>2 DEF EntryKept
  <2> QED
    BY <2>1, <2>2, <2>3
<1> QED
  BY <1>4, <1>5

(* A visit that does not move is owed no more than it was.                   *)
LEMMA OthersOwe ==
    ASSUME Frame, AnnounceInv, OneHere, NEW r \in Req, ClientStep(r),
           NEW s \in Req, s # r, call[s].op = "client", NEW f \in Kinds
    PROVE  Owing(s, f)' <= Owing(s, f)
<1>2. call'[s] = call[s]
  BY AnnounceMoves DEF ClientStep, Frame, MovesOnly
<1>4. client'[Id(s)] = client[Id(s)] /\ EntryKept(s)
  BY ClientsKept
<1>6. Entry(s, f)' = 0 \/ Entry(s, f)' = Entry(s, f)
  BY <1>2, <1>4, EntryStays
<1>7. Hand(s, f)' = Hand(s, f)
  BY <1>2 DEF Hand, Up, Down, Seen
<1>8. Entry(s, f) \in Nat /\ Hand(s, f) \in Nat /\ Owing(s, f) \in Nat
      /\ Entry(s, f) <= Owing(s, f) /\ Hand(s, f) <= Owing(s, f)
  BY OwingIsNat
<1> QED
  BY <1>6, <1>7, <1>8, OwingAtMost

(* So does one that drops what it had in hand, and keeps its snapshot.       *)
LEMMA DropsHand ==
    ASSUME Frame, AnnounceInv, NEW r \in Req, call[r].op = "client", NEW f \in Kinds,
           call'[r].arg = call[r].arg, client'[Id(r)] = client[Id(r)], EntryKept(r),
           call'[r].pc \notin Announcing \ {"get"}
    PROVE  Owing(r, f)' <= Entry(r, f)
<1>1. Hand(r, f)' = 0
  BY DEF Hand
<1>2. Entry(r, f)' = 0 \/ Entry(r, f)' = Entry(r, f)
  BY EntryStays
<1>3. Entry(r, f) \in Nat
  BY OwingIsNat
<1> QED
  BY <1>1, <1>2, <1>3, OwingAtMost

LEMMA NewSinceOne ==
    ASSUME NEW n, NEW b
    PROVE  NewSince(n, {}) = 0 /\ NewSince(n, {b}) = Minus(n, b)
<1>1. (CHOOSE x \in {b} : TRUE) = b
  OBVIOUS
<1>2. {b} # {}
  OBVIOUS
<1> QED
  BY <1>1, <1>2 DEF NewSince, Minus

(* What is new since the snapshot is in hand once it is read.                *)
LEMMA GetOwes ==
    ASSUME Frame, AnnounceInv, NEW r \in Req, AnnounceGet(r), Carried(r)
    PROVE  /\ \A f \in Kinds : Owing(r, f)' <= Owing(r, f)
           /\ Carried(r)' /\ call'[r].pc # "credit"
<1> DEFINE peers == Peers(Arg(r).torrent)
           prev  == IF Id(r) \in DOMAIN peers THEN {peers[Id(r)]} ELSE {}
           seen  == [Seen(r) EXCEPT !.prev = prev]
<1>1. call[r].op = "client" /\ call[r].pc = "get" /\ UNCHANGED <<swarm, client>>
  BY DEF AnnounceGet, At, announceVars
<1>2. IsReport(Seen(r)) /\ Seen(r).up = client[Id(r)].up /\ Seen(r).down = client[Id(r)].down
  BY <1>1 DEF AnnounceInv, Reports, Announcing, Carried
<1>3. \/ Goto(r, "again")
      \/ \E x \in {"held", "acquire"} : Note(r, x, seen)
  BY DEF AnnounceGet
<1>4. MovesOnly(r) /\ Id(r)' = Id(r) /\ Arg(r)' = Arg(r)
  BY AnnounceMoves DEF Frame, MovesOnly, Id, Arg
<1>5. Last(r)' = Last(r)
  BY <1>1, <1>4 DEF Last
<1>6. EntryKept(r)
  BY <1>5 DEF EntryKept
<1>7. CASE Goto(r, "again")
  <2>1. call'[r].pc = "again"
    BY <1>7, GotoMoves DEF Frame
  <2>3. \A f \in Kinds : Owing(r, f)' = 0 \/ Owing(r, f)' = Entry(r, f)
    <3>1. \A f \in Kinds : Hand(r, f)' = 0
      BY <2>1 DEF Hand, Announcing
    <3>2. \A f \in Kinds : Entry(r, f)' = 0 \/ Entry(r, f)' = Entry(r, f)
      BY <1>1, <1>4, <1>6, EntryStays DEF MovesOnly
    <3> QED
      BY <3>1, <3>2 DEF Owing
  <2>4. \A f \in Kinds : Entry(r, f) \in Nat /\ Owing(r, f) \in Nat /\ Entry(r, f) <= Owing(r, f)
    BY <1>1, OwingIsNat
  <2>5. \A f \in Kinds : Owing(r, f)' <= Owing(r, f)
    BY <2>3, <2>4
  <2> QED
    BY <2>1, <2>5 DEF Carried, Announcing
<1>8. ASSUME NEW x \in {"held", "acquire"}, Note(r, x, seen)
      PROVE  /\ \A f \in Kinds : Owing(r, f)' <= Owing(r, f)
             /\ Carried(r)' /\ call'[r].pc # "credit"
  <2>1. call'[r].pc = x /\ Seen(r)' = seen
    BY <1>8, NoteMoves DEF Frame, Seen
  <2>2. /\ seen.up = Seen(r).up /\ seen.down = Seen(r).down /\ seen.stop = Seen(r).stop
        /\ seen.prev = prev
    BY <1>2 DEF IsReport, ReportFields
  <2>3. Up(r)' = (IF Seen(r).stop THEN 0 ELSE NewSince(client[Id(r)].up, {p.up : p \in prev}))
    BY <1>2, <2>1, <2>2 DEF Up
  <2>4. Down(r)' = (IF Seen(r).stop THEN 0 ELSE NewSince(client[Id(r)].down, {p.down : p \in prev}))
    BY <1>2, <2>1, <2>2 DEF Down
  <2>5. /\ Up(r)' = 0 \/ Up(r)' = Entry(r, "up")
        /\ Down(r)' = 0 \/ Down(r)' = Entry(r, "down")
    <3>1. CASE Id(r) \notin DOMAIN peers
      <4>1. {p.up : p \in prev} = {} /\ {p.down : p \in prev} = {}
        BY <3>1
      <4> QED
        BY <2>3, <2>4, <4>1, NewSinceOne
    <3>2. CASE Id(r) \in DOMAIN peers
      <4>1. Id(r) \in DOMAIN Last(r) /\ peers[Id(r)] = Last(r)[Id(r)]
        BY <3>2, PeersKept DEF Last
      <4>2. {p.up : p \in prev} = {Last(r)[Id(r)].up} /\ {p.down : p \in prev} = {Last(r)[Id(r)].down}
        BY <3>2, <4>1
      <4> HIDE DEF prev
      <4>3. /\ NewSince(client[Id(r)].up, {p.up : p \in prev}) = Entry(r, "up")
            /\ NewSince(client[Id(r)].down, {p.down : p \in prev}) = Entry(r, "down")
        BY <4>1, <4>2, NewSinceOne DEF Entry
      <4> QED
        BY <2>3, <2>4, <4>3
    <3> QED
      BY <3>1, <3>2
  <2> HIDE DEF seen, prev
  <2>6. \A f \in Kinds : Hand(r, f)' = 0 \/ Hand(r, f)' = Entry(r, f)
    BY <2>5 DEF Hand, Kinds
  <2>7. \A f \in Kinds : Entry(r, f)' = 0 \/ Entry(r, f)' = Entry(r, f)
    BY <1>1, <1>4, <1>6, EntryStays DEF MovesOnly
  <2>8. \A f \in Kinds : Entry(r, f) \in Nat /\ Owing(r, f) \in Nat /\ Entry(r, f) <= Owing(r, f)
    BY <1>1, OwingIsNat
  <2>9. \A f \in Kinds : Owing(r, f)' <= Owing(r, f)
    <3> SUFFICES ASSUME NEW f \in Kinds PROVE Owing(r, f)' <= Owing(r, f)
      OBVIOUS
    <3> QED
      BY <2>6, <2>7, <2>8, OwingAtMost
  <2>10. Carried(r)'
    BY <1>1, <1>2, <1>4, <2>1, <2>2 DEF Carried
  <2> QED
    BY <2>1, <2>9, <2>10
<1> QED
  BY <1>3, <1>7, <1>8

(* The guard takes nothing out of hand, but when it refuses.                 *)
LEMMA LockOwes ==
    ASSUME Frame, AnnounceInv, NEW r \in Req, call[r].op = "client", Carried(r),
           \/ StopHeld(r) \/ StopRelease(r) \/ AcquireSet(r) \/ AcquireGet(r)
           \/ Decide(r) \/ Refresh(r) \/ ClearClaim(r),
           UNCHANGED announceVars
    PROVE  /\ \A f \in Kinds : Owing(r, f)' <= Owing(r, f)
           /\ Carried(r)' /\ call'[r].pc # "credit"
<1>1. call[r].pc \in Announcing \ {"credit", "get"} /\ ~ClearClaim(r)
  BY DEF StopHeld, StopRelease, AcquireSet, AcquireGet, Decide, Refresh, ClearClaim, At, Announcing
<1>2. IsReport(Seen(r))
  BY <1>1 DEF AnnounceInv, Reports
<1>3. MovesOnly(r) /\ Id(r)' = Id(r) /\ Arg(r)' = Arg(r)
  BY LockMoves DEF Frame, MovesOnly, Id, Arg
<1>4. UNCHANGED <<swarm, client>>
  BY DEF announceVars
<1>5. \A f \in Kinds : Entry(r, f)' = Entry(r, f)
  BY <1>3, <1>4 DEF Entry, Last, Minus
<1>6. \/ \E x \in (Announcing \ {"credit"}) \cup {"again"} : Goto(r, x)
      \/ \E h : Note(r, "ttl", [Seen(r) EXCEPT !.host = h])
  BY <1>1 DEF StopHeld, StopRelease, AcquireSet, AcquireGet, Decide, Refresh, Admitted, Announcing
<1>7. /\ call'[r].pc # "credit"
      /\ Seen(r)'.up = Seen(r).up /\ Seen(r)'.down = Seen(r).down
      /\ Seen(r)'.stop = Seen(r).stop /\ Seen(r)'.prev = Seen(r).prev
  <2>1. ASSUME NEW x \in (Announcing \ {"credit"}) \cup {"again"}, Goto(r, x)
        PROVE  call'[r].pc # "credit" /\ Seen(r)' = Seen(r)
    BY <2>1, GotoMoves DEF Frame, Seen
  <2>2. ASSUME NEW h, Note(r, "ttl", [Seen(r) EXCEPT !.host = h])
        PROVE  /\ call'[r].pc # "credit"
               /\ Seen(r)'.up = Seen(r).up /\ Seen(r)'.down = Seen(r).down
               /\ Seen(r)'.stop = Seen(r).stop /\ Seen(r)'.prev = Seen(r).prev
    <3>1. call'[r].pc = "ttl" /\ Seen(r)' = [Seen(r) EXCEPT !.host = h]
      BY <2>2, NoteMoves DEF Frame, Seen
    <3> QED
      BY <1>2, <3>1 DEF IsReport, ReportFields
  <2> QED
    BY <1>6, <2>1, <2>2
<1>8. Up(r)' = Up(r) /\ Down(r)' = Down(r)
  BY <1>7 DEF Up, Down
<1>9. \A f \in Kinds : Hand(r, f)' = 0 \/ Hand(r, f)' = Hand(r, f)
  BY <1>1, <1>8 DEF Hand
<1>10. \A f \in Kinds : /\ Entry(r, f) \in Nat /\ Hand(r, f) \in Nat /\ Owing(r, f) \in Nat
                        /\ Entry(r, f) <= Owing(r, f) /\ Hand(r, f) <= Owing(r, f)
  BY OwingIsNat
<1>11. \A f \in Kinds : Owing(r, f)' <= Owing(r, f)
  <2> SUFFICES ASSUME NEW f \in Kinds PROVE Owing(r, f)' <= Owing(r, f)
    OBVIOUS
  <2> QED
    BY <1>5, <1>9, <1>10, OwingAtMost
<1>12. Carried(r)'
  BY <1>1, <1>3, <1>4, <1>7 DEF Carried
<1> QED
  BY <1>7, <1>11, <1>12

LEMMA PutOwes ==
    ASSUME Frame, AnnounceInv, NEW r \in Req, AnnouncePut(r), Carried(r)
    PROVE  /\ ~lost' => (\A f \in Kinds : Owing(r, f)' <= Owing(r, f))
           /\ Carried(r)' /\ Settled(r)'
<1>1. call[r].op = "client" /\ call[r].pc = "put" /\ Goto(r, "credit") /\ UNCHANGED client
  BY DEF AnnouncePut, At, Admitted
<1>2. MovesOnly(r) /\ call'[r].pc = "credit" /\ Seen(r)' = Seen(r) /\ Id(r)' = Id(r) /\ Arg(r)' = Arg(r)
  BY <1>1, GotoMoves DEF Frame, MovesOnly, Id, Arg, Seen
<1>3. Carried(r)'
  BY <1>1, <1>2 DEF Carried, Announcing
<1>4. \A f \in Kinds : Hand(r, f)' = Hand(r, f)
  BY <1>1, <1>2 DEF Hand, Announcing, Up, Down
<1>5. \A f \in Kinds : /\ Entry(r, f) \in Nat /\ Hand(r, f) \in Nat /\ Owing(r, f) \in Nat
                       /\ Entry(r, f) <= Owing(r, f) /\ Hand(r, f) <= Owing(r, f)
  BY <1>1, OwingIsNat
<1>6. CASE lost'
  BY <1>3, <1>6 DEF Settled
<1>7. CASE ~lost' /\ Entry(r, "up")' = 0 /\ Entry(r, "down")' = 0
  <2>1. \A f \in Kinds : Entry(r, f)' = 0
    BY <1>7 DEF Kinds
  <2>2. ASSUME NEW f \in Kinds PROVE Owing(r, f)' <= Owing(r, f)
    BY <1>4, <1>5, <2>1, OwingAtMost
  <2> QED
    BY <1>3, <1>7, <2>2 DEF Settled
<1>8. CASE ~lost' /\ UNCHANGED swarm /\ Seen(r).stop
  <2>1. \A f \in Kinds : Entry(r, f)' = Entry(r, f)
    BY <1>1, <1>2, <1>8 DEF Entry, Last, Minus
  <2>2. ASSUME NEW f \in Kinds PROVE Owing(r, f)' <= Owing(r, f)
    BY <1>4, <1>5, <2>1, OwingAtMost
  <2> QED
    BY <1>2, <1>3, <1>8, <2>2 DEF Settled
<1> QED
  BY <1>6, <1>7, <1>8, PutClears

(* What a credit adds leaves the hand, and the snapshot has it already.      *)
LEMMA CreditOwes ==
    ASSUME Frame, AnnounceInv, NEW r \in Req, AnnounceCredit(r), Settled(r), ~lost
    PROVE  \A f \in Kinds : Owing(r, f)' <= Owing(r, f) - Hand(r, f)
<1>1. call[r].op = "client" /\ call[r].pc = "credit" /\ UNCHANGED <<swarm, client>>
  BY DEF AnnounceCredit, At
<1>2. call'[r].pc \in {"snatch", "list", "again"}
  BY GotoMoves, NoteMoves DEF AnnounceCredit, Frame
<1>3. MovesOnly(r) /\ Id(r)' = Id(r) /\ Arg(r)' = Arg(r)
  BY AnnounceMoves DEF Frame, MovesOnly, Id, Arg
<1>4. EntryKept(r)
  BY <1>1, <1>3 DEF EntryKept, Last
<1>5. \A f \in Kinds : /\ Entry(r, f) \in Nat /\ Hand(r, f) \in Nat /\ Owing(r, f) \in Nat
                       /\ Entry(r, f) <= Owing(r, f) /\ Hand(r, f) <= Owing(r, f)
  BY <1>1, OwingIsNat
<1>6. \A f \in Kinds : Hand(r, f) = 0 \/ Entry(r, f) = 0
  <2>1. CASE Seen(r).stop
    BY <1>1, <2>1 DEF Hand, Up, Down
  <2>2. CASE ~Seen(r).stop
    BY <1>1, <2>2 DEF Settled, Kinds
  <2> QED
    BY <2>1, <2>2
<1>7. \A f \in Kinds : Owing(r, f)' <= Entry(r, f)
  BY <1>1, <1>2, <1>3, <1>4, DropsHand DEF MovesOnly, Announcing
<1>8. \A f \in Kinds : Owing(r, f)' \in Int
  <2>1. \A f \in Kinds : Hand(r, f)' = 0
    BY <1>2 DEF Hand, Announcing
  <2>2. \A f \in Kinds : Entry(r, f)' = 0 \/ Entry(r, f)' = Entry(r, f)
    BY <1>1, <1>3, <1>4, EntryStays DEF MovesOnly
  <2> QED
    BY <1>5, <2>1, <2>2 DEF Owing
<1> SUFFICES ASSUME NEW f \in Kinds PROVE Owing(r, f)' <= Owing(r, f) - Hand(r, f)
  OBVIOUS
<1>9. Owing(r, f)' <= Entry(r, f) /\ (Hand(r, f) = 0 \/ Entry(r, f) = 0)
  BY <1>6, <1>7
<1> HIDE <1>6, <1>7
<1> QED
  BY <1>5, <1>8, <1>9

(* The rest of an announce, and its end.                                     *)
LEMMA EndOwes ==
    ASSUME Frame, AnnounceInv, NEW r \in Req, call[r].op = "client",
           \/ AnnounceCredit(r) \/ AnnounceSnatch(r) \/ AnnounceList(r) \/ AnnounceCount(r)
           \/ NextInterval(r) \/ AnnounceDies(r)
    PROVE  /\ \A f \in Kinds : Owing(r, f)' <= Owing(r, f)
           /\ call'[r].pc \notin Announcing
<1>1. MovesOnly(r) /\ Id(r)' = Id(r) /\ Arg(r)' = Arg(r)
  BY AnnounceMoves DEF Frame, MovesOnly, Id, Arg
<1>2. UNCHANGED client
  BY DEF AnnounceCredit, AnnounceSnatch, AnnounceList, AnnounceCount, NextInterval, AnnounceDies,
     announceVars
<1>3. call'[r].pc \in {"snatch", "list", "count", "again", "done", "start"}
  BY GotoMoves, NoteMoves DEF Frame, AnnounceCredit, AnnounceSnatch, AnnounceList, AnnounceCount,
     NextInterval, AnnounceDies
<1>4. EntryKept(r)
  <2>1. CASE AnnounceList(r)
    BY <2>1, ListKeeps
  <2>2. CASE ~AnnounceList(r)
    <3>1. UNCHANGED swarm
      BY <2>2 DEF AnnounceCredit, AnnounceSnatch, AnnounceCount, NextInterval, AnnounceDies, announceVars
    <3> QED
      BY <1>1, <3>1 DEF EntryKept, Last
  <2> QED
    BY <2>1, <2>2
<1>5. \A f \in Kinds : /\ Entry(r, f) \in Nat /\ Owing(r, f) \in Nat
                       /\ Entry(r, f) <= Owing(r, f)
  BY OwingIsNat
<1>6. call'[r].pc \notin Announcing
  BY <1>3 DEF Announcing
<1>7. \A f \in Kinds : Hand(r, f)' = 0
  BY <1>6 DEF Hand
<1>8. \A f \in Kinds : Entry(r, f)' = 0 \/ Entry(r, f)' = Entry(r, f)
  BY <1>1, <1>2, <1>4, EntryStays DEF MovesOnly
<1>9. ASSUME NEW f \in Kinds PROVE Owing(r, f)' <= Owing(r, f)
  BY <1>5, <1>7, <1>8, OwingAtMost
<1> QED
  BY <1>6, <1>9

---------------------------------------------------------------------------
(* What a client moves before it tells is owed at most.                      *)
Move == [up : Nat, down : Nat, stop : BOOLEAN]

MovedBy(r, m) == moved' = [moved EXCEPT ![Who(r)][Arg(r).torrent] =
                              [up |-> @.up + m.up, down |-> @.down + Took(r, m)]]

LEMMA ReportMoved ==
    ASSUME Frame, AnnounceInv, NEW r \in Req, Report(r)
    PROVE  \E m \in Move :
              /\ client' = [client EXCEPT ![Id(r)] = After(r, m)]
              /\ Begins(r, "get", Told(r, m)) /\ MovedBy(r, m)
              /\ Took(r, m) \in Nat
<1>1. PICK m \in IF client[Id(r)].on THEN Arg(r).moves ELSE {Nothing} :
         LET down == IF m.down > client[Id(r)].left THEN client[Id(r)].left ELSE m.down
             now  == IF client[Id(r)].on
                     THEN [on |-> ~m.stop, up |-> client[Id(r)].up + m.up,
                           down |-> client[Id(r)].down + down, left |-> client[Id(r)].left - down]
                     ELSE [on |-> TRUE, up |-> 0, down |-> 0, left |-> client[Id(r)].left]
         IN  /\ client' = [client EXCEPT ![Id(r)] = now]
             /\ moved' = [moved EXCEPT ![Who(r)][Arg(r).torrent] =
                              [up |-> @.up + m.up, down |-> @.down + down]]
             /\ call' = [call EXCEPT ![r].pc = "get", ![r].todo = @ - 1,
                            ![r].seen = [stop |-> m.stop, up |-> now.up, down |-> now.down,
                                         left |-> now.left, prev |-> {}, host |-> NoHost]]
  BY Zenon DEF Report
<1>2. call[r].op = "client"
  BY DEF Report, At
<1>3. m \in Move
  <2>1. m \in Arg(r).moves \cup {Nothing}
    BY <1>1
  <2>2. Nothing \in Move
    BY DEF Move, Nothing
  <2>3. Arg(r).moves \subseteq Move
    BY <1>2, ClientGiven DEF Move
  <2> QED
    BY <2>1, <2>2, <2>3
<1>4. client[Id(r)].left \in Nat
  BY <1>2 DEF AnnounceInv, ClientsOK, Session
<1>5. Took(r, m) \in Nat
  BY <1>3, <1>4 DEF Took, Move
<1>6. /\ client' = [client EXCEPT ![Id(r)] = After(r, m)]
      /\ Begins(r, "get", Told(r, m))
  BY <1>1, Zenon DEF After, Took, Told, Begins
<1>7. MovedBy(r, m)
  BY <1>1, Zenon DEF MovedBy, Took
<1> QED
  BY <1>3, <1>5, <1>6, <1>7

LEMMA ReportOwes ==
    ASSUME Frame, AnnounceInv, NEW r \in Req, Report(r), NEW m \in Move, Took(r, m) \in Nat,
           client' = [client EXCEPT ![Id(r)] = After(r, m)], Begins(r, "get", Told(r, m))
    PROVE  /\ Owing(r, "up")' <= Owing(r, "up") + m.up
           /\ Owing(r, "down")' <= Owing(r, "down") + Took(r, m)
           /\ Carried(r)' /\ Settled(r)'
<1> DEFINE c == client[Id(r)]
           n == After(r, m)
<1>1. call[r].op = "client" /\ UNCHANGED swarm
  BY DEF Report, At
<1>2. MovesOnly(r) /\ call'[r].pc = "get" /\ Seen(r)' = Told(r, m)
  BY BeginMoves DEF Begins, Frame, Seen
<1>3. Id(r)' = Id(r) /\ Arg(r)' = Arg(r)
  BY <1>2 DEF MovesOnly, Id, Arg
<1>4. Id(r) \in DOMAIN client /\ c \in Session
  BY <1>1 DEF AnnounceInv, ClientsOK
<1>5. client'[Id(r)] = n
  BY <1>4
<1>6. \/ n.up = c.up + m.up /\ n.down = c.down + Took(r, m)
      \/ n.up = 0 /\ n.down = 0
  BY DEF After
<1>7. Told(r, m).up = n.up /\ Told(r, m).down = n.down
  BY DEF Told
<1> HIDE DEF n
<1>8. Carried(r)' /\ Settled(r)'
  BY <1>2, <1>3, <1>5, <1>7 DEF Carried, Settled
<1>9. \A f \in Kinds : Hand(r, f)' = 0
  BY <1>2 DEF Hand
<1>10. Last(r)' = Last(r)
  BY <1>1, <1>3 DEF Last
<1>11. \A f \in Kinds : /\ Entry(r, f) \in Nat /\ Owing(r, f) \in Nat
                        /\ Entry(r, f) <= Owing(r, f)
  BY <1>1, OwingIsNat
<1>12. /\ m.up \in Nat /\ c.up \in Nat /\ c.down \in Nat
  BY <1>4 DEF Move, Session
<1> HIDE DEF c
<1>13. CASE Id(r) \notin DOMAIN Last(r)
  <2>1. \A f \in Kinds : Entry(r, f)' = 0
    BY <1>3, <1>10, <1>13 DEF Entry
  <2>2. Owing(r, "up")' <= Owing(r, "up") + m.up
    <3>1. "up" \in Kinds
      BY DEF Kinds
    <3> QED
      BY <1>9, <1>11, <1>12, <2>1, <3>1, OwingAtMost
  <2>3. Owing(r, "down")' <= Owing(r, "down") + Took(r, m)
    <3>1. "down" \in Kinds
      BY DEF Kinds
    <3> QED
      BY <1>9, <1>11, <1>12, <2>1, <3>1, OwingAtMost
  <2> QED
    BY <1>8, <2>2, <2>3
<1>14. CASE Id(r) \in DOMAIN Last(r)
  <2> DEFINE e == Last(r)[Id(r)]
  <2>1. e.up \in Nat /\ e.down \in Nat
    <3>1. IsSwarm(swarm[Arg(r).torrent])
      BY <1>1, ClientGiven DEF AnnounceInv, SwarmsOK
    <3> QED
      BY <1>14, <3>1 DEF IsSwarm, IsPeer, Last
  <2>2. /\ Entry(r, "up") = Minus(c.up, e.up) /\ Entry(r, "down") = Minus(c.down, e.down)
        /\ Entry(r, "up")' = Minus(n.up, e.up) /\ Entry(r, "down")' = Minus(n.down, e.down)
    BY <1>3, <1>5, <1>10, <1>14 DEF Entry, c, Minus
  <2> HIDE DEF e
  <2>3. /\ Minus(n.up, e.up) \in Int /\ Minus(n.down, e.down) \in Int
        /\ Minus(n.up, e.up) <= Minus(c.up, e.up) + m.up
        /\ Minus(n.down, e.down) <= Minus(c.down, e.down) + Took(r, m)
    BY <1>6, <1>12, <2>1 DEF Minus
  <2>4. Owing(r, "up")' <= Owing(r, "up") + m.up
    <3>1. "up" \in Kinds
      BY DEF Kinds
    <3>2. Entry(r, "up")' <= Owing(r, "up") + m.up
      BY <1>11, <1>12, <2>2, <2>3, <3>1
    <3> QED
      BY <1>9, <1>11, <1>12, <3>1, <3>2, OwingAtMost
  <2>5. Owing(r, "down")' <= Owing(r, "down") + Took(r, m)
    <3>1. "down" \in Kinds
      BY DEF Kinds
    <3>2. Entry(r, "down")' <= Owing(r, "down") + Took(r, m)
      BY <1>11, <1>12, <2>2, <2>3, <3>1
    <3> QED
      BY <1>9, <1>11, <1>12, <3>1, <3>2, OwingAtMost
  <2> QED
    BY <1>8, <2>4, <2>5
<1> QED
  BY <1>13, <1>14

---------------------------------------------------------------------------
(* The factor of an upload is the database's.                                *)
LEMMA FactorOf ==
    ASSUME TableInv, NEW p \in Process, NEW m, NEW t
    PROVE  UpFactor(p, m, t) \in {1, 2} /\ UpFactor(p, m, t) <= Factor(m, t)
<1>1. CASE Lasting(p, m, t, "upload2x")
  <2>1. PICK a \in perks[p] : a.who = m /\ a.torrent = t /\ a.kind = "upload2x"
    BY <1>1 DEF Lasting
  <2>2. PICK k \in tokens : a = Perk(k.who, k.torrent, k.kind, k.until)
    BY DEF TableInv, Backed
  <2>3. k.who = m /\ k.torrent = t /\ k.kind = "upload2x"
    BY <2>1, <2>2 DEF Perk
  <2>4. Doubled(m, t)
    BY <2>3 DEF Doubled
  <2> QED
    BY <2>4 DEF UpFactor, Factor
<1>2. CASE ~Lasting(p, m, t, "upload2x")
  BY <1>2 DEF UpFactor, Factor
<1> QED
  BY <1>1, <1>2

LEMMA DoubledStays ==
    ASSUME Frame, TokenInv, [Next]_vars, NEW m \in Member, NEW t \in Torrent
    PROVE  Doubled(m, t) => Doubled(m, t)'
<1> SUFFICES ASSUME Doubled(m, t) PROVE Doubled(m, t)'
  OBVIOUS
<1>1. PICK k \in tokens : k.who = m /\ k.torrent = t /\ k.kind = "upload2x"
  BY DEF Doubled
<1>2. k \in tokens'
  BY <1>1, NextTokens, PerkAssumption
<1> QED
  BY <1>1, <1>2 DEF Doubled

---------------------------------------------------------------------------
(* The row of a member on a torrent, after a step.                           *)
LEMMA RoomOf ==
    ASSUME Frame, AnnounceInv, MovedOK, NEW m \in Member, NEW t \in Torrent, Covered(m, t)
    PROVE  /\ Room(m, t, "up") \in Nat /\ Room(m, t, "down") \in Nat
           /\ stats[m][t].up \in Nat /\ stats[m][t].down \in Nat
<1>1. stats[m][t].up \in Nat /\ stats[m][t].down \in Nat
  BY DEF AnnounceInv, RowsOK, StatRow
<1>2. Room(m, t, "up") \in Int /\ Room(m, t, "down") \in Int
  BY RoomIsInt DEF Kinds
<1>3. Factor(m, t) = 1 \/ Factor(m, t) = 2
  BY DEF Factor
<1>4. stats[m][t].down <= Room(m, t, "down") /\ stats[m][t].up <= Factor(m, t) * Room(m, t, "up")
  BY DEF Covered
<1> QED
  BY <1>1, <1>2, <1>3, <1>4

LEMMA MoreRoom ==
    ASSUME NEW n \in Nat, NEW x \in Nat, NEW y \in Int, NEW f \in {1, 2}, NEW g \in {1, 2},
           NEW h \in Nat, NEW k \in {1, 2}, k <= f, f <= g, n <= f * x, y >= x + h
    PROVE  n + h * k <= g * y
<1>1. \/ f = 1 /\ g = 1 /\ k = 1
      \/ f = 1 /\ g = 2 /\ k = 1
      \/ f = 2 /\ g = 2 /\ k = 1
      \/ f = 2 /\ g = 2 /\ k = 2
  OBVIOUS
<1> QED
  BY <1>1

LEMMA RoomIsIntNext ==
    ASSUME NEW m \in Member, NEW t \in Torrent, NEW f \in Kinds
    PROVE  (Frame /\ AnnounceInv /\ MovedOK => Room(m, t, f) \in Int)'
<1>1. Frame /\ AnnounceInv /\ MovedOK => Room(m, t, f) \in Int
  BY RoomIsInt
<1> QED
  BY <1>1, PTL

(* Nothing was credited, and there is as much room as there was.             *)
LEMMA StaysCovered ==
    ASSUME Frame, AnnounceInv, MovedOK, Frame', AnnounceInv', MovedOK',
           NEW m \in Member, NEW t \in Torrent, Covered(m, t),
           Doubled(m, t) => Doubled(m, t)', UNCHANGED stats,
           \A f \in Kinds : Room(m, t, f)' >= Room(m, t, f)
    PROVE  Covered(m, t)'
<1>1. /\ Room(m, t, "up") \in Nat /\ Room(m, t, "down") \in Nat
      /\ stats[m][t].up \in Nat /\ stats[m][t].down \in Nat
  BY RoomOf
<1>2. Room(m, t, "up")' \in Int /\ Room(m, t, "down")' \in Int
  BY RoomIsIntNext DEF Kinds
<1>3. Room(m, t, "up")' >= Room(m, t, "up") /\ Room(m, t, "down")' >= Room(m, t, "down")
  BY DEF Kinds
<1>4. Factor(m, t) \in {1, 2} /\ Factor(m, t)' \in {1, 2} /\ Factor(m, t) <= Factor(m, t)'
  BY DEF Factor
<1>5. stats[m][t].down <= Room(m, t, "down") /\ stats[m][t].up <= Factor(m, t) * Room(m, t, "up")
  BY DEF Covered
<1>6. stats[m][t].down <= Room(m, t, "down")'
  BY <1>1, <1>2, <1>3, <1>5
<1>7. stats[m][t].up + 0 * 1 <= Factor(m, t)' * Room(m, t, "up")'
  <2> DEFINE n == stats[m][t].up
             x == Room(m, t, "up")
             y == Room(m, t, "up")'
             f == Factor(m, t)
             g == Factor(m, t)'
  <2>1. n \in Nat /\ x \in Nat /\ y \in Int /\ f \in {1, 2} /\ g \in {1, 2} /\ f <= g
        /\ n <= f * x /\ y >= x + 0 /\ 1 <= f
    BY <1>1, <1>2, <1>3, <1>4, <1>5
  <2> HIDE DEF n, x, y, f, g
  <2>2. n + 0 * 1 <= g * y
    BY <2>1, MoreRoom
  <2> QED
    BY <2>2 DEF n, y, g
<1>8. stats[m][t].up <= Factor(m, t)' * Room(m, t, "up")'
  BY <1>1, <1>7
<1> QED
  BY <1>6, <1>8 DEF Covered

(* Who is not owed more, and moved nothing, has as much room.                *)
LEMMA RoomKeeps ==
    ASSUME Frame, AnnounceInv, Frame', AnnounceInv', MovedOK, NEW f \in Kinds,
           NEW m \in Member, NEW t \in Torrent, moved'[m][t] = moved[m][t],
           \A s \in Req : /\ call'[s].op = call[s].op /\ call'[s].who = call[s].who
                          /\ call'[s].arg = call[s].arg,
           \A s \in Req : ClientOn(s, m, t) => Owing(s, f)' <= Owing(s, f)
    PROVE  Room(m, t, f)' >= Room(m, t, f)
<1> DEFINE o == Owed(m, t, f)
           p == Owed(m, t, f)'
<1>1. \A s \in Req : o[s] \in Nat
  BY OwedIsNat
<1>2. \A s \in Req : p[s] \in Nat
  BY OwedIsNatNext
<1>3. \A s \in Req : p[s] <= o[s]
  <2> SUFFICES ASSUME NEW s \in Req PROVE p[s] <= o[s]
    OBVIOUS
  <2>1. ClientOn(s, m, t)' <=> ClientOn(s, m, t)
    BY DEF ClientOn, Who, Arg
  <2>2. CASE ClientOn(s, m, t)
    BY <2>1, <2>2 DEF Owed
  <2>3. CASE ~ClientOn(s, m, t)
    BY <2>1, <2>3 DEF Owed
  <2> QED
    BY <2>2, <2>3
<1>4. /\ Room(m, t, f) = moved[m][t][f] - SumFunctionOnSet(o, Req)
      /\ Room(m, t, f)' = moved[m][t][f] - SumFunctionOnSet(p, Req)
  BY DEF Room
<1>5. moved[m][t][f] \in Nat /\ IsFiniteSet(Req)
  BY SiteAssumption DEF MovedOK, Kinds
<1> HIDE DEF o, p
<1>6. SumFunctionOnSet(o, Req) \in Nat
  BY <1>1, <1>5, SumNat
<1>7. SumFunctionOnSet(p, Req) \in Nat
  BY <1>2, <1>5, SumNat
<1>8. SumFunctionOnSet(p, Req) <= SumFunctionOnSet(o, Req)
  BY <1>1, <1>2, <1>3, <1>5, SumLeq
<1> QED
  BY <1>4, <1>5, <1>6, <1>7, <1>8

(* A credit adds what is in hand, times the factor of the table, to one row. *)
LEMMA CreditPays ==
    ASSUME Frame, AnnounceInv, NEW r \in Req, AnnounceCredit(r), ~UNCHANGED stats
    PROVE  /\ \A m \in Member : \A t \in Torrent :
                 m # Who(r) \/ t # Arg(r).torrent => stats'[m][t] = stats[m][t]
           /\ stats'[Who(r)][Arg(r).torrent].up = stats[Who(r)][Arg(r).torrent].up +
                 Up(r) * UpFactor(Arg(r).process, Who(r), Arg(r).torrent)
           /\ stats'[Who(r)][Arg(r).torrent].down = stats[Who(r)][Arg(r).torrent].down +
                 (IF Free(Arg(r).process, Who(r), Arg(r).torrent) THEN 0 ELSE Down(r))
<1> DEFINE m == Who(r)
           t == Arg(r).torrent
           p == Arg(r).process
           u == Up(r) * UpFactor(p, m, t)
           d == IF Free(p, m, t) THEN 0 ELSE Down(r)
           row == [up        |-> stats[m][t].up + u,
                   down      |-> stats[m][t].down + d,
                   completed |-> stats[m][t].completed \/ Done(r),
                   seen      |-> clock]
<1>1. call[r].op = "client"
  BY DEF AnnounceCredit, At
<1>2. m \in Member /\ t \in Torrent
  BY <1>1, ClientGiven
<1>3. stats' = [stats EXCEPT ![m][t] =
                [up        |-> @.up + Up(r) * UpFactor(p, m, t),
                 down      |-> @.down + (IF Free(p, m, t) THEN 0 ELSE Down(r)),
                 completed |-> @.completed \/ Done(r),
                 seen      |-> clock]]
  BY Zenon DEF AnnounceCredit
<1>4. stats' = [stats EXCEPT ![m][t] = row]
  BY <1>2, <1>3 DEF AnnounceInv, RowsOK
<1>5. row.up = stats[m][t].up + u /\ row.down = stats[m][t].down + d
  OBVIOUS
<1> HIDE DEF row, u, d
<1>6. stats'[m][t] = row
  BY <1>2, <1>4 DEF AnnounceInv, RowsOK
<1>7. \A n \in Member : \A o \in Torrent : n # m \/ o # t => stats'[n][o] = stats[n][o]
  BY <1>2, <1>4 DEF AnnounceInv, RowsOK
<1> QED
  BY <1>5, <1>6, <1>7 DEF u, d

(* Visits that do not move carry what they carried.                          *)
LEMMA OthersCarry ==
    ASSUME Frame, AnnounceInv, OneHere, NEW r \in Req, ClientStep(r), lost => lost',
           NEW s \in Req, s # r, call[s].op = "client", Carried(s), Settled(s)
    PROVE  Carried(s)' /\ Settled(s)'
<1>1. call[r].op = "client" /\ MovesOnly(r)
  BY AnnounceMoves DEF ClientStep, Frame
<1>2. call'[s] = call[s] /\ Seen(s)' = Seen(s) /\ Id(s)' = Id(s)
  BY <1>1 DEF MovesOnly, Seen, Id, Arg
<1>3. client'[Id(s)] = client[Id(s)] /\ EntryKept(s)
  BY ClientsKept
<1>4. Carried(s)'
  BY <1>2, <1>3 DEF Carried
<1>5. \A f \in Kinds : Entry(s, f)' = 0 \/ Entry(s, f)' = Entry(s, f)
  BY <1>2, <1>3, EntryStays
<1>6. Settled(s)'
  BY <1>2, <1>5 DEF Settled, Kinds
<1> QED
  BY <1>4, <1>6

---------------------------------------------------------------------------
(* A step of a client's announce.                                            *)
LEMMA OneRowCovered ==
    ASSUME SiteInv, SiteInv', [Next]_vars, MovedOK, MovedOK', OneHere, UNCHANGED tokens,
           NEW r \in Req, ClientStep(r), NEW m \in Member, NEW t \in Torrent, Covered(m, t),
           UNCHANGED stats, moved'[m][t] = moved[m][t],
           ClientOn(r, m, t) => \A f \in Kinds : Owing(r, f)' <= Owing(r, f)
    PROVE  Covered(m, t)'
<1> USE DEF SiteInv
<1>1. \A s \in Req : /\ call'[s].op = call[s].op /\ call'[s].who = call[s].who
                     /\ call'[s].arg = call[s].arg
  BY SameVisits
<1>2. ASSUME NEW f \in Kinds PROVE Room(m, t, f)' >= Room(m, t, f)
  <2>1. ASSUME NEW s \in Req, ClientOn(s, m, t) PROVE Owing(s, f)' <= Owing(s, f)
    <3>1. CASE s = r
      BY <2>1, <3>1
    <3>2. CASE s # r
      BY <2>1, <3>2, OthersOwe DEF ClientOn
    <3> QED
      BY <3>1, <3>2
  <2> QED
    BY <1>1, <2>1, RoomKeeps
<1>3. Doubled(m, t) => Doubled(m, t)'
  BY DEF Doubled
<1> QED
  BY <1>2, <1>3, StaysCovered

LEMMA RowMoves ==
    ASSUME SiteInv, SiteInv', [Next]_vars, OneHere, NEW r \in Req, ClientStep(r),
           NEW m \in Member, NEW t \in Torrent, ClientOn(r, m, t), NEW f \in Kinds,
           NEW d \in Int, NEW gain \in Int, moved[m][t][f] \in Int,
           moved'[m][t][f] = moved[m][t][f] + d,
           Owing(r, f)' <= Owing(r, f) + d - gain
    PROVE  Room(m, t, f)' >= Room(m, t, f) + gain
<1> USE DEF SiteInv
<1>1. \A s \in Req : ClientOn(s, m, t)' <=> ClientOn(s, m, t)
  BY SameVisits DEF ClientOn, Who, Arg
<1>2. ASSUME NEW s \in Req, s # r PROVE Owed(m, t, f)'[s] <= Owed(m, t, f)[s]
  <2>1. CASE ClientOn(s, m, t)
    <3>1. Owing(s, f)' <= Owing(s, f)
      BY <1>2, <2>1, OthersOwe DEF ClientOn
    <3> QED
      BY <1>1, <2>1, <3>1 DEF Owed
  <2>2. CASE ~ClientOn(s, m, t)
    BY <1>1, <2>2 DEF Owed
  <2> QED
    BY <2>1, <2>2
<1>3. Owed(m, t, f)'[r] = Owing(r, f)' /\ Owed(m, t, f)[r] = Owing(r, f)
  BY <1>1 DEF Owed
<1>4. Owed(m, t, f)'[r] <= Owed(m, t, f)[r] + d - gain
  BY <1>3
<1> QED
  BY <1>2, <1>4, RoomGrows

LEMMA ReportCovers ==
    ASSUME SiteInv, SiteInv', [Next]_vars, CreditInv, OneHere, UNCHANGED tokens,
           NEW r \in Req, Report(r)
    PROVE  /\ MovedOK' /\ Carried(r)' /\ Settled(r)'
           /\ ~lost' => \A m \in Member : \A t \in Torrent : Covered(m, t)'
<1> USE DEF SiteInv
<1>0. PICK M, T : M = Who(r) /\ T = Arg(r).torrent
  OBVIOUS
<1>1. PICK m \in Move :
              /\ client' = [client EXCEPT ![Id(r)] = After(r, m)]
              /\ Begins(r, "get", Told(r, m)) /\ MovedBy(r, m)
              /\ Took(r, m) \in Nat
  BY ReportMoved
<1>2. call[r].op = "client" /\ UNCHANGED <<stats, lost>> /\ ClientStep(r)
  BY DEF Report, At, ClientStep
<1>3. M \in Member /\ T \in Torrent
  BY <1>0, <1>2, ClientGiven
<1>4. /\ Owing(r, "up")' <= Owing(r, "up") + m.up
      /\ Owing(r, "down")' <= Owing(r, "down") + Took(r, m)
      /\ Carried(r)' /\ Settled(r)'
  BY <1>1, ReportOwes
<1>5. m.up \in Nat /\ MovedOK
  BY DEF Move, CreditInv
<1>6. /\ moved'[M][T].up = moved[M][T].up + m.up
      /\ moved'[M][T].down = moved[M][T].down + Took(r, m)
      /\ MovedOK'
      /\ \A n \in Member : \A u \in Torrent : n # M \/ u # T => moved'[n][u] = moved[n][u]
  <2> DEFINE row == [up |-> moved[M][T].up + m.up, down |-> moved[M][T].down + Took(r, m)]
  <2>1. moved' = [moved EXCEPT ![M][T] = row]
    BY <1>0, <1>1, <1>3, <1>5 DEF MovedBy, MovedOK
  <2>2. row \in [up : Nat, down : Nat] /\ row.up = moved[M][T].up + m.up
        /\ row.down = moved[M][T].down + Took(r, m)
    BY <1>1, <1>3, <1>5 DEF MovedOK
  <2> HIDE DEF row
  <2>3. moved'[M][T] = row
    BY <1>3, <1>5, <2>1 DEF MovedOK
  <2>4. MovedOK'
    BY <1>3, <1>5, <2>1, <2>2 DEF MovedOK
  <2>5. \A n \in Member : \A u \in Torrent : n # M \/ u # T => moved'[n][u] = moved[n][u]
    BY <1>3, <1>5, <2>1 DEF MovedOK
  <2> QED
    BY <2>2, <2>3, <2>4, <2>5
<1>7. ASSUME ~lost', NEW n \in Member, NEW u \in Torrent, n # M \/ u # T PROVE Covered(n, u)'
  <2>1. Covered(n, u) /\ ~ClientOn(r, n, u) /\ moved'[n][u] = moved[n][u]
    BY <1>0, <1>2, <1>6, <1>7 DEF CreditInv, ClientOn
  <2> QED
    BY <1>2, <1>5, <1>6, <2>1, OneRowCovered
<1>8. ASSUME ~lost' PROVE Covered(M, T)'
  <2>1. Covered(M, T)
    BY <1>2, <1>3, <1>8 DEF CreditInv
  <2>2. ClientOn(r, M, T)
    BY <1>0, <1>2 DEF ClientOn
  <2>3. moved[M][T].up \in Nat /\ moved[M][T].down \in Nat
    BY <1>3, <1>5 DEF MovedOK
  <2>4. Room(M, T, "up")' >= Room(M, T, "up") + 0
    <3>1. "up" \in Kinds
      BY DEF Kinds
    <3>2. Owing(r, "up")' <= Owing(r, "up") + m.up - 0
      BY <1>2, <1>4, <1>5, <3>1, OwingIsNat
    <3> QED
      BY <1>2, <1>3, <1>5, <1>6, <2>2, <2>3, <3>1, <3>2, RowMoves
  <2>5. Room(M, T, "down")' >= Room(M, T, "down") + 0
    <3>1. "down" \in Kinds
      BY DEF Kinds
    <3>2. Owing(r, "down")' <= Owing(r, "down") + Took(r, m) - 0
      BY <1>1, <1>2, <1>4, <3>1, OwingIsNat
    <3> QED
      BY <1>1, <1>2, <1>3, <1>6, <2>2, <2>3, <3>1, <3>2, RowMoves
  <2>6. Room(M, T, "up") \in Int /\ Room(M, T, "down") \in Int
    BY <1>3, <1>5, RoomIsInt DEF Kinds
  <2>7. \A f \in Kinds : Room(M, T, f)' >= Room(M, T, f)
    BY <2>4, <2>5, <2>6 DEF Kinds
  <2>8. Doubled(M, T) => Doubled(M, T)'
    BY DEF Doubled
  <2> QED
    BY <1>2, <1>3, <1>5, <1>6, <2>1, <2>7, <2>8, StaysCovered
<1> QED
  BY <1>0, <1>4, <1>6, <1>7, <1>8

LEMMA CreditCovers ==
    ASSUME SiteInv, SiteInv', [Next]_vars, CreditInv, OneHere, NEW r \in Req, AnnounceCredit(r)
    PROVE  ~lost' => \A m \in Member : \A t \in Torrent : Covered(m, t)'
<1> USE DEF SiteInv
<1>0. PICK M, T, P : M = Who(r) /\ T = Arg(r).torrent /\ P = Arg(r).process
  OBVIOUS
<1>1. /\ call[r].op = "client" /\ call[r].pc = "credit" /\ ClientStep(r)
      /\ UNCHANGED <<moved, lost, perkVars>>
  BY DEF AnnounceCredit, At, ClientStep
<1>2. M \in Member /\ T \in Torrent /\ P \in Process
  BY <1>0, <1>1, ClientGiven
<1>3. MovedOK /\ MovedOK' /\ UNCHANGED tokens
  BY <1>1 DEF CreditInv, MovedOK, perkVars
<1> SUFFICES ASSUME ~lost' PROVE \A m \in Member : \A t \in Torrent : Covered(m, t)'
  OBVIOUS
<1>4. \A m \in Member : \A t \in Torrent : Covered(m, t)
  BY <1>1 DEF CreditInv
<1>5. \A f \in Kinds : Owing(r, f)' <= Owing(r, f) - Hand(r, f)
  BY <1>1, CreditOwes DEF CreditInv
<1>6. \A f \in Kinds : Hand(r, f) \in Nat /\ Owing(r, f) \in Nat
  BY <1>1, OwingIsNat
<1>7. \A f \in Kinds : Owing(r, f)' <= Owing(r, f)
  BY <1>1, EndOwes
<1>8. CASE UNCHANGED stats
  BY <1>1, <1>3, <1>4, <1>7, <1>8, OneRowCovered
<1>9. CASE ~UNCHANGED stats
  <2>1. /\ \A m \in Member : \A t \in Torrent :
              m # M \/ t # T => stats'[m][t] = stats[m][t]
        /\ stats'[M][T].up = stats[M][T].up + Up(r) * UpFactor(P, M, T)
        /\ stats'[M][T].down = stats[M][T].down + (IF Free(P, M, T) THEN 0 ELSE Down(r))
    BY <1>0, <1>9, CreditPays
  <2>2. ASSUME NEW m \in Member, NEW t \in Torrent, m # M \/ t # T PROVE Covered(m, t)'
    <3>1. ~ClientOn(r, m, t) /\ Covered(m, t) /\ stats'[m][t] = stats[m][t]
      BY <1>0, <1>4, <2>1, <2>2 DEF ClientOn
    <3>2. ASSUME NEW f \in Kinds PROVE Room(m, t, f)' >= Room(m, t, f)
      <4>1. ASSUME NEW s \in Req, ClientOn(s, m, t) PROVE Owing(s, f)' <= Owing(s, f)
        BY <1>1, <3>1, <4>1, OthersOwe DEF ClientOn
      <4> QED
        BY <1>1, <1>3, <4>1, SameVisits, RoomKeeps
    <3>3. Doubled(m, t)' <=> Doubled(m, t)
      BY <1>3 DEF Doubled
    <3>4. Factor(m, t)' = Factor(m, t)
      BY <3>3 DEF Factor
    <3>5. /\ Room(m, t, "up")' >= Room(m, t, "up") /\ Room(m, t, "down")' >= Room(m, t, "down")
          /\ Room(m, t, "up")' \in Int /\ Room(m, t, "down")' \in Int
      BY <1>3, <3>2, RoomIsIntNext DEF Kinds
    <3>6. /\ Room(m, t, "up") \in Nat /\ Room(m, t, "down") \in Nat
          /\ stats[m][t].up \in Nat /\ stats[m][t].down \in Nat
      BY <1>3, <3>1, RoomOf
    <3>7. Factor(m, t) = 1 \/ Factor(m, t) = 2
      BY DEF Factor
    <3>8. stats[m][t].down <= Room(m, t, "down") /\ stats[m][t].up <= Factor(m, t) * Room(m, t, "up")
      BY <3>1 DEF Covered
    <3>9. stats[m][t].down <= Room(m, t, "down")'
      BY <3>5, <3>6, <3>8
    <3>10. stats[m][t].up <= Factor(m, t) * Room(m, t, "up")'
      <4> DEFINE x == Room(m, t, "up")
                 y == Room(m, t, "up")'
                 n == stats[m][t].up
                 g == Factor(m, t)
      <4>1. x \in Nat /\ y \in Int /\ y >= x /\ n \in Nat /\ (g = 1 \/ g = 2) /\ n <= g * x
        BY <3>5, <3>6, <3>7, <3>8
      <4> HIDE DEF x, y, n, g
      <4>2. n <= g * y
        BY <4>1
      <4> QED
        BY <4>2 DEF n, g, y
    <3> QED
      BY <3>1, <3>4, <3>9, <3>10 DEF Covered
  <2>3. Covered(M, T)'
    <3>1. ClientOn(r, M, T)
      BY <1>0, <1>1 DEF ClientOn
    <3>2. Up(r) = Hand(r, "up") /\ Down(r) = Hand(r, "down")
      BY <1>1 DEF Hand, Announcing
    <3>3. Up(r) \in Nat /\ Down(r) \in Nat
      BY <1>6, <3>2 DEF Kinds
    <3>4. moved[M][T].up \in Nat /\ moved[M][T].down \in Nat /\ moved'[M][T] = moved[M][T]
      BY <1>1, <1>2, <1>3 DEF MovedOK
    <3>a. ClientStep(r) /\ M \in Member /\ T \in Torrent
      BY <1>1, <1>2
    <3>b. moved[M][T].up \in Int /\ moved[M][T].down \in Int
      BY <3>4
    <3>5. Room(M, T, "up")' >= Room(M, T, "up") + Up(r)
      <4>1. "up" \in Kinds
        BY DEF Kinds
      <4>2. PICK d \in Int, gain \in Int : d = 0 /\ gain = Up(r)
        BY <3>3
      <4>3. Owing(r, "up")' <= Owing(r, "up") + d - gain
        BY <1>5, <1>6, <3>2, <4>1, <4>2
      <4>4. moved'[M][T].up = moved[M][T].up + d
        BY <3>4, <4>2
      <4>5. Room(M, T, "up")' >= Room(M, T, "up") + gain
        BY <3>a, <3>b, <3>1, <4>1, <4>3, <4>4, RowMoves
      <4> QED
        BY <4>2, <4>5
    <3>6. Room(M, T, "down")' >= Room(M, T, "down") + Down(r)
      <4>1. "down" \in Kinds
        BY DEF Kinds
      <4>2. PICK d \in Int, gain \in Int : d = 0 /\ gain = Down(r)
        BY <3>3
      <4>3. Owing(r, "down")' <= Owing(r, "down") + d - gain
        BY <1>5, <1>6, <3>2, <4>1, <4>2
      <4>4. moved'[M][T].down = moved[M][T].down + d
        BY <3>4, <4>2
      <4>5. Room(M, T, "down")' >= Room(M, T, "down") + gain
        BY <3>a, <3>b, <3>1, <4>1, <4>3, <4>4, RowMoves
      <4> QED
        BY <4>2, <4>5
    <3>7. /\ Room(M, T, "up") \in Nat /\ Room(M, T, "down") \in Nat
          /\ stats[M][T].up \in Nat /\ stats[M][T].down \in Nat
      BY <1>2, <1>3, <1>4, RoomOf
    <3>8. Room(M, T, "up")' \in Int /\ Room(M, T, "down")' \in Int
      BY <1>2, <1>3, RoomIsIntNext DEF Kinds
    <3>9. UpFactor(P, M, T) \in {1, 2} /\ UpFactor(P, M, T) <= Factor(M, T)
      BY <1>2, FactorOf
    <3>10. Factor(M, T) \in {1, 2} /\ Factor(M, T)' = Factor(M, T)
      <4>1. Doubled(M, T)' <=> Doubled(M, T)
        BY <1>3 DEF Doubled
      <4> QED
        BY <4>1 DEF Factor
    <3>11. stats[M][T].down <= Room(M, T, "down") /\ stats[M][T].up <= Factor(M, T) * Room(M, T, "up")
      BY <1>2, <1>4 DEF Covered
    <3>12. stats'[M][T].down <= Room(M, T, "down")'
      BY <2>1, <3>3, <3>6, <3>7, <3>8, <3>11
    <3>13. stats'[M][T].up <= Factor(M, T)' * Room(M, T, "up")'
      <4> DEFINE n == stats[M][T].up
                 x == Room(M, T, "up")
                 y == Room(M, T, "up")'
                 g == Factor(M, T)
                 k == UpFactor(P, M, T)
                 h == Up(r)
      <4>1. /\ n \in Nat /\ x \in Nat /\ y \in Int /\ g \in {1, 2} /\ k \in {1, 2} /\ h \in Nat
            /\ k <= g /\ g <= g /\ n <= g * x /\ y >= x + h
        BY <3>3, <3>5, <3>7, <3>8, <3>9, <3>10, <3>11
      <4> HIDE DEF n, x, y, g, k, h
      <4>2. n + h * k <= g * y
        BY <4>1, MoreRoom
      <4> QED
        BY <2>1, <3>10, <4>2 DEF n, y, g, k, h
    <3> QED
      BY <3>12, <3>13 DEF Covered
  <2> QED
    BY <2>2, <2>3
<1> QED
  BY <1>8, <1>9

LEMMA ClientCovers ==
    ASSUME SiteInv, SiteInv', [Next]_vars, CreditInv, OneHere, UNCHANGED tokens,
           NEW r \in Req, ClientStep(r)
    PROVE  CreditInv'
<1> USE DEF SiteInv
<1>1. call[r].op = "client" /\ MovesOnly(r)
  BY AnnounceMoves DEF ClientStep, Frame
<1>2. Carried(r) /\ Settled(r) /\ MovedOK
  BY <1>1 DEF CreditInv
<1>3. lost => lost'
  BY DEF ClientStep, Report, AnnounceGet, AnnouncePut, AnnounceCredit, AnnounceSnatch, AnnounceList,
     AnnounceCount, NextInterval, AnnounceDies, announceVars
<1>4. ~Report(r) => UNCHANGED moved
  BY DEF ClientStep, AnnounceGet, AnnouncePut, AnnounceCredit, AnnounceSnatch, AnnounceList,
     AnnounceCount, NextInterval, AnnounceDies, announceVars
<1>5. ~Report(r) /\ ~AnnounceCredit(r) => UNCHANGED stats
  BY DEF ClientStep, AnnounceGet, AnnouncePut, AnnounceSnatch, AnnounceList,
     AnnounceCount, NextInterval, AnnounceDies, announceVars
<1>6. MovedOK'
  BY <1>2, <1>4, ReportCovers DEF MovedOK
<1>7. ASSUME ~Report(r) PROVE /\ Carried(r)' /\ Settled(r)'
                              /\ ~lost' => \A f \in Kinds : Owing(r, f)' <= Owing(r, f)
  <2>1. CASE AnnounceGet(r)
    BY <1>2, <2>1, GetOwes DEF Settled
  <2>2. CASE AnnouncePut(r)
    BY <1>2, <2>2, PutOwes
  <2>3. CASE ~AnnounceGet(r) /\ ~AnnouncePut(r)
    <3>1. /\ \A f \in Kinds : Owing(r, f)' <= Owing(r, f)
          /\ call'[r].pc \notin Announcing
      BY <1>1, <1>7, <2>3, EndOwes DEF ClientStep
    <3> QED
      BY <3>1 DEF Carried, Settled, Announcing
  <2> QED
    BY <2>1, <2>2, <2>3
<1>8. Carried(r)' /\ Settled(r)'
  BY <1>7, ReportCovers
<1>9. ASSUME NEW s \in Req, call'[s].op = "client" PROVE Carried(s)' /\ Settled(s)'
  <2>1. CASE s = r
    BY <1>8, <2>1
  <2>2. CASE s # r
    <3>1. call[s].op = "client" /\ Carried(s) /\ Settled(s)
      BY <1>9, SameVisits DEF CreditInv
    <3> QED
      BY <1>3, <2>2, <3>1, OthersCarry
  <2> QED
    BY <2>1, <2>2
<1>10. ASSUME ~lost', NEW m \in Member, NEW t \in Torrent PROVE Covered(m, t)'
  <2>1. CASE Report(r)
    BY <1>10, <2>1, ReportCovers
  <2>2. CASE AnnounceCredit(r)
    BY <1>10, <2>2, CreditCovers
  <2>3. CASE ~Report(r) /\ ~AnnounceCredit(r)
    <3>1. Covered(m, t) /\ UNCHANGED <<stats, moved>>
      BY <1>3, <1>4, <1>5, <1>10, <2>3 DEF CreditInv
    <3> QED
      BY <1>2, <1>6, <1>7, <1>10, <2>3, <3>1, OneRowCovered
  <2> QED
    BY <2>1, <2>2, <2>3
<1> QED
  BY <1>6, <1>9, <1>10 DEF CreditInv

(* Any other step: the guard's, and those that are no client's.              *)
LEMMA ElseCovers ==
    ASSUME SiteInv, SiteInv', [Next]_vars, CreditInv, UNCHANGED announceVars,
           \A s \in Req : call[s].op = "client" =>
              /\ \A f \in Kinds : Owing(s, f)' <= Owing(s, f)
              /\ Carried(s)' /\ Settled(s)'
    PROVE  CreditInv'
<1> USE DEF SiteInv
<1>1. UNCHANGED <<stats, moved, lost>>
  BY DEF announceVars
<1>2. MovedOK /\ MovedOK'
  BY <1>1 DEF CreditInv, MovedOK
<1>3. \A s \in Req : call'[s].op = "client" => Carried(s)' /\ Settled(s)'
  BY SameVisits
<1>4. ASSUME ~lost', NEW m \in Member, NEW t \in Torrent PROVE Covered(m, t)'
  <2>1. Covered(m, t)
    BY <1>1, <1>4 DEF CreditInv
  <2>2. ASSUME NEW f \in Kinds PROVE Room(m, t, f)' >= Room(m, t, f)
    <3>1. \A s \in Req : ClientOn(s, m, t) => Owing(s, f)' <= Owing(s, f)
      BY DEF ClientOn
    <3> QED
      BY <1>1, <1>2, <3>1, SameVisits, RoomKeeps
  <2>3. Doubled(m, t) => Doubled(m, t)'
    BY DoubledStays
  <2> QED
    BY <1>1, <1>2, <2>1, <2>2, <2>3, StaysCovered
<1> QED
  BY <1>2, <1>3, <1>4 DEF CreditInv

LEMMA NextCredits ==
    ASSUME OnePeer, SiteInv, CreditInv, [Next]_vars
    PROVE  CreditInv'
<1> USE DEF SiteInv
<1>1. SiteInv' /\ OneHere
  BY NextSite, PeersDiffer
<1>2. CASE AnnounceNext
  <2>1. PICK r \in Req : ClientStep(r)
    BY <1>2 DEF AnnounceNext, ClientStep
  <2>2. UNCHANGED tokens
    BY <2>1 DEF ClientStep, Report, AnnounceGet, AnnouncePut, AnnounceCredit, AnnounceSnatch,
       AnnounceList, AnnounceCount, NextInterval, AnnounceDies, perkVars
  <2> QED
    BY <1>1, <2>1, <2>2, ClientCovers
<1>3. ASSUME UNCHANGED announceVars, NEW s \in Req, call[s].op = "client", call'[s] = call[s]
      PROVE  /\ \A f \in Kinds : Owing(s, f)' <= Owing(s, f)
             /\ Carried(s)' /\ Settled(s)'
  <2>1. UNCHANGED <<client, swarm, lost>>
    BY <1>3 DEF announceVars
  <2>2. Seen(s)' = Seen(s) /\ Id(s)' = Id(s) /\ Arg(s)' = Arg(s) /\ Up(s)' = Up(s) /\ Down(s)' = Down(s)
    BY <1>3 DEF Seen, Id, Arg, Up, Down
  <2>3. \A f \in Kinds : Entry(s, f)' = Entry(s, f) /\ Hand(s, f)' = Hand(s, f)
    BY <1>3, <2>1, <2>2 DEF Entry, Hand, Last, Minus
  <2>4. \A f \in Kinds : Owing(s, f)' = Owing(s, f) /\ Owing(s, f) \in Nat
    BY <1>3, <2>3, OwingIsNat DEF Owing
  <2>5. Carried(s) /\ Settled(s)
    BY <1>3 DEF CreditInv
  <2>6. Carried(s)' /\ Settled(s)'
    BY <1>3, <2>1, <2>2, <2>3, <2>5 DEF Carried, Settled, Kinds
  <2> QED
    BY <2>4, <2>6
<1>4. CASE UNCHANGED announceVars /\ Others(ClientOps)
  BY <1>1, <1>3, <1>4, ElseCovers DEF Others, ClientOps
<1>5. CASE UNCHANGED announceVars /\ SeedLockNext
  <2>1. PICK r \in Req :
             \/ StopHeld(r) \/ StopRelease(r) \/ AcquireSet(r) \/ AcquireGet(r)
             \/ Decide(r) \/ Refresh(r) \/ ClearClaim(r)
    BY <1>5 DEF SeedLockNext
  <2>2. MovesOnly(r)
    BY <2>1, LockMoves DEF Frame
  <2>3. ASSUME NEW s \in Req, call[s].op = "client"
        PROVE  /\ \A f \in Kinds : Owing(s, f)' <= Owing(s, f)
               /\ Carried(s)' /\ Settled(s)'
    <3>1. CASE s # r
      BY <1>3, <1>5, <2>2, <2>3, <3>1 DEF MovesOnly
    <3>2. CASE s = r
      <4>1. Carried(r)
        BY <2>3, <3>2 DEF CreditInv
      <4> QED
        BY <1>5, <2>1, <2>3, <3>2, <4>1, LockOwes DEF Settled
    <3> QED
      BY <3>1, <3>2
  <2> QED
    BY <1>1, <1>5, <2>3, ElseCovers
<1> QED
  BY <1>2, <1>4, <1>5, Foreign

LEMMA InitCredits == ASSUME Init PROVE CreditInv
<1>1. Frame /\ AnnounceInv
  BY InitFrame, InitAnnounceOK
<1>2. \A r \in Req : call[r].pc = "start"
  BY InitStarts
<1>3. /\ swarm = [t \in Torrent |-> [peers |-> NoPeers, until |-> 0]]
      /\ moved = [m \in Member |-> [t \in Torrent |->
                  [up |-> stats[m][t].up, down |-> stats[m][t].down]]]
  BY DEF Init, AnnounceInit
<1>4. \A m \in Member : \A t \in Torrent :
         /\ stats[m][t].up \in Nat /\ stats[m][t].down \in Nat
         /\ moved[m][t].up = stats[m][t].up /\ moved[m][t].down = stats[m][t].down
  BY <1>1, <1>3 DEF AnnounceInv, RowsOK, StatRow
<1>5. MovedOK
  BY <1>3, <1>4 DEF MovedOK
<1>6. ASSUME NEW r \in Req, call[r].op = "client", NEW f \in Kinds PROVE Owing(r, f) = 0
  <2>1. Arg(r).torrent \in Torrent
    BY <1>1, <1>6, ClientGiven
  <2>2. Last(r) = NoPeers
    BY <1>3, <2>1 DEF Last
  <2>3. Entry(r, f) = 0
    BY <2>2 DEF Entry, NoPeers
  <2>4. Hand(r, f) = 0
    BY <1>2 DEF Hand, Announcing
  <2> QED
    BY <2>3, <2>4 DEF Owing
<1>7. ASSUME NEW m \in Member, NEW t \in Torrent, NEW f \in Kinds PROVE Room(m, t, f) = moved[m][t][f]
  <2> DEFINE o == Owed(m, t, f)
  <2>1. \A r \in Req : o[r] = 0
    BY <1>6 DEF Owed, ClientOn
  <2>2. Room(m, t, f) = moved[m][t][f] - SumFunctionOnSet(o, Req)
    BY DEF Room
  <2> HIDE DEF o
  <2>3. SumFunctionOnSet(o, Req) = 0
    BY <2>1, SumZeros, SiteAssumption
  <2>4. moved[m][t][f] \in Nat
    BY <1>5, <1>7 DEF MovedOK, Kinds
  <2> QED
    BY <2>2, <2>3, <2>4
<1>8. ASSUME NEW m \in Member, NEW t \in Torrent PROVE Covered(m, t)
  <2>1. Room(m, t, "up") = stats[m][t].up /\ Room(m, t, "down") = stats[m][t].down
    BY <1>4, <1>7 DEF Kinds
  <2>2. Factor(m, t) = 1 \/ Factor(m, t) = 2
    BY DEF Factor
  <2> QED
    BY <1>4, <2>1, <2>2 DEF Covered
<1> QED
  BY <1>2, <1>5, <1>8 DEF CreditInv, Carried, Settled, Announcing

LEMMA CreditIsHonest == ASSUME SiteInv, CreditInv PROVE CreditHonest
<1> SUFFICES ASSUME ~lost, NEW m \in Member, NEW t \in Torrent
             PROVE  /\ stats[m][t].up <= (IF Doubled(m, t) THEN 2 ELSE 1) * moved[m][t].up
                    /\ stats[m][t].down <= moved[m][t].down
  BY DEF CreditHonest
<1>1. Covered(m, t) /\ MovedOK /\ Frame /\ AnnounceInv
  BY DEF CreditInv, SiteInv
<1>2. /\ Room(m, t, "up") \in Nat /\ Room(m, t, "down") \in Nat
      /\ stats[m][t].up \in Nat /\ stats[m][t].down \in Nat
  BY <1>1, RoomOf
<1>3. /\ Room(m, t, "up") <= moved[m][t].up /\ Room(m, t, "down") <= moved[m][t].down
      /\ moved[m][t].up \in Nat /\ moved[m][t].down \in Nat
  BY <1>1, RoomIsInt DEF Kinds
<1>4. Factor(m, t) = 1 \/ Factor(m, t) = 2
  BY DEF Factor
<1>5. stats[m][t].down <= Room(m, t, "down") /\ stats[m][t].up <= Factor(m, t) * Room(m, t, "up")
  BY <1>1 DEF Covered
<1>6. stats[m][t].down <= moved[m][t].down
  BY <1>2, <1>3, <1>5
<1>7. stats[m][t].up <= Factor(m, t) * moved[m][t].up
  BY <1>2, <1>3, <1>4, <1>5
<1> QED
  BY <1>6, <1>7 DEF Factor

(* "a member is never credited a byte they did not upload, and never charged *)
(* a byte they did not take": whatever reports, restarts, lost answers and   *)
(* expiries come in between, the row holds no more than what moved, twice    *)
(* for upload once a token doubles it, until a snapshot is not written.      *)
THEOREM CreditsAreHonest == ASSUME OnePeer PROVE Spec => []CreditHonest
<1>1. Init => SiteInv /\ CreditInv
  BY InitSite, InitCredits
<1>2. SiteInv /\ CreditInv /\ [Next]_vars => (SiteInv /\ CreditInv)'
  BY NextSite, NextCredits
<1>3. SiteInv /\ CreditInv => CreditHonest
  BY CreditIsHonest
<1> QED
  BY <1>1, <1>2, <1>3, PTL DEF Spec

---------------------------------------------------------------------------
(* A month gets one free week.  A webhook that found the goal met and the    *)
(* month not marked has, until it marks it, only windows of the month before *)
(* it that are still open; a month with a window is marked, or a webhook is  *)
(* about to mark it and the window is as fresh as this tick or the last.     *)
MarksMonth(r, m) == call[r].op = "webhook" /\ call[r].pc = "mark" /\ Seen(r).month = m

OnTime(r) ==
    /\ call[r].pc = "open" => Seen(r).month = Month(clock)
    /\ call[r].pc = "insert" =>
          /\ Seen(r).now <= clock /\ clock <= Seen(r).now + 1
          /\ Seen(r).month = Month(Seen(r).now)
    /\ call[r].pc = "mark" => Seen(r).month <= Month(clock)

Running(r) ==
    /\ call[r].pc = "open" =>
          \A w \in windows : Month(w.from) = Month(clock) => clock < w.to
    /\ call[r].pc = "insert" =>
          \A w \in windows : Month(w.from) = Seen(r).month => Seen(r).now < w.to

OfMonth(w) == Month(w.from) = Month(clock) /\ fired # Month(clock) =>
    clock <= w.from + 1 /\ \E s \in Req : MarksMonth(s, Month(clock))

Rewarding == \E r \in Req : call[r].op = "webhook"

Overlap == \A v, w \in windows :
    Month(v.from) = Month(w.from) /\ v.from <= w.from => w.from < v.to

RewardInv ==
    /\ fired \in Int /\ unmarked \in BOOLEAN
    /\ \A r \in Req : call[r].op = "webhook" => OnTime(r)
    /\ ~unmarked => Overlap
    /\ ~unmarked /\ Rewarding =>
          /\ \A w \in windows : w.from <= clock /\ OfMonth(w)
          /\ \A r \in Req : call[r].op = "webhook" => Running(r)

(* Before the site runs, a window is open only where no donation is          *)
(* reported, and those that are do not follow one another in a month.        *)
NoEarlierWindow == \A p \in Plans :
    /\ (\E r \in Req : p[r].op = "webhook") => InitWindows[p] = {}
    /\ \A v, w \in InitWindows[p] :
          Month(v.from) = Month(w.from) /\ v.from <= w.from => w.from < v.to

LEMMA MonthsGrow ==
    ASSUME NEW a \in Nat, NEW b \in Nat, a <= b
    PROVE  Month(a) \in Nat /\ Month(b) \in Nat /\ Month(a) <= Month(b)
<1>1. MonthLength \in Nat \ {0}
  BY DonationAssumption
<1>2. \A n \in Nat \ {0} : a \div n \in Nat /\ b \div n \in Nat /\ a \div n <= b \div n
  OBVIOUS
<1> QED
  BY <1>1, <1>2 DEF Month

LEMMA InitReward == ASSUME Init, NoEarlierWindow PROVE RewardInv
<1>1. call \in Plans /\ windows = InitWindows[call] /\ fired = -1 /\ unmarked = FALSE
  BY DEF Init, WindowsInit, SiteInit, HandlersInit, DonationsInit, NoMonth
<1>2. \A r \in Req : call[r].pc = "start"
  BY InitStarts
<1>3. \A r \in Req : OnTime(r) /\ Running(r)
  BY <1>2 DEF OnTime, Running
<1>4. Overlap
  BY <1>1 DEF NoEarlierWindow, Overlap
<1>5. Rewarding => windows = {}
  BY <1>1 DEF NoEarlierWindow, Rewarding
<1>6. fired \in Int
  BY <1>1
<1>7. unmarked \in BOOLEAN
  BY <1>1, Zenon
<1> QED
  BY <1>3, <1>4, <1>5, <1>6, <1>7 DEF RewardInv

(* A step that opens no window and marks no month.                           *)
LEMMA RewardAside ==
    ASSUME RewardInv, NEW r \in Req, MovesOnly(r),
           ~(call[r].op = "webhook" /\ call[r].pc = "mark"),
           UNCHANGED <<timeVars, windows, fired, unmarked>>,
           call[r].op = "webhook" => OnTime(r)',
           call[r].op = "webhook" /\ ~unmarked => Running(r)'
    PROVE  RewardInv'
<1>1. \A s \in Req : call'[s].op = call[s].op
  BY DEF MovesOnly
<1>2. UNCHANGED <<clock, windows, fired, unmarked>>
  BY DEF timeVars
<1>3. ASSUME NEW s \in Req, call'[s].op = "webhook" PROVE OnTime(s)'
  <2>1. CASE s = r
    BY <1>1, <1>3, <2>1
  <2>2. CASE s # r
    BY <1>1, <1>2, <1>3, <2>2 DEF MovesOnly, RewardInv, OnTime, Seen
  <2> QED
    BY <2>1, <2>2
<1>4. ~unmarked' => Overlap'
  BY <1>2 DEF RewardInv, Overlap, Month
<1>5. ASSUME ~unmarked', Rewarding'
      PROVE  /\ \A w \in windows' : w.from <= clock' /\ OfMonth(w)'
             /\ \A s \in Req : call'[s].op = "webhook" => Running(s)'
  <2>1. ~unmarked /\ Rewarding
    BY <1>1, <1>2, <1>5 DEF Rewarding
  <2>2. \A s \in Req : MarksMonth(s, Month(clock)) => MarksMonth(s, Month(clock))'
    BY <1>1, <1>2 DEF MarksMonth, MovesOnly, Seen, Month
  <2>3. ASSUME NEW w \in windows' PROVE w.from <= clock' /\ OfMonth(w)'
    BY <1>2, <2>1, <2>2 DEF RewardInv, OfMonth, Month
  <2>4. ASSUME NEW s \in Req, call'[s].op = "webhook" PROVE Running(s)'
    <3>1. CASE s = r
      BY <1>1, <2>1, <2>4, <3>1
    <3>2. CASE s # r
      <4>1. Running(s) /\ call'[s] = call[s]
        BY <1>1, <2>1, <2>4, <3>2 DEF MovesOnly, RewardInv
      <4> QED
        BY <1>2, <4>1 DEF Running, Seen, Month
    <3> QED
      BY <3>1, <3>2
  <2> QED
    BY <2>3, <2>4
<1> QED
  BY <1>2, <1>3, <1>4, <1>5 DEF RewardInv

(* A marker that is lost excuses what follows.                               *)
LEMMA RewardUnmarked ==
    ASSUME RewardInv, NEW r \in Req, MovesOnly(r), UNCHANGED timeVars,
           unmarked' = TRUE, fired' \in Int, call[r].op = "webhook" => OnTime(r)'
    PROVE  RewardInv'
<1>1. \A s \in Req : call'[s].op = call[s].op
  BY DEF MovesOnly
<1>2. UNCHANGED clock
  BY DEF timeVars
<1>3. ASSUME NEW s \in Req, call'[s].op = "webhook" PROVE OnTime(s)'
  <2>1. CASE s = r
    BY <1>1, <1>3, <2>1
  <2>2. CASE s # r
    BY <1>1, <1>2, <1>3, <2>2 DEF MovesOnly, RewardInv, OnTime, Seen
  <2> QED
    BY <2>1, <2>2
<1> QED
  BY <1>3 DEF RewardInv

(* The step of the goal's reading.                                           *)
LEMMA GoalReadOK ==
    ASSUME Frame, TimeOK, WindowInv, RewardInv, NEW r \in Req, GoalRead(r)
    PROVE  RewardInv'
<1> DEFINE note == [now |-> clock, month |-> Month(clock)]
<1>1. Shaped /\ MovesOnly(r)
  BY DonationMoves DEF Frame, WebhookStep
<1>2. /\ UNCHANGED <<timeVars, windows, fired>>
      /\ call[r].op = "webhook" /\ call[r].pc = "goal"
  BY DEF GoalRead, At
<1>3. \/ UNCHANGED unmarked /\ Goto(r, "emit")
      \/ UNCHANGED unmarked /\ Note(r, "open", note) /\ fired # Month(clock)
      \/ unmarked' = TRUE /\ Note(r, "open", note)
  BY DEF GoalRead, GoalRewardDue
<1>4. UNCHANGED clock
  BY <1>2 DEF timeVars
<1>5. CASE UNCHANGED unmarked /\ Goto(r, "emit")
  <2>1. call'[r].pc = "emit"
    BY <1>1, <1>5, GotoMoves
  <2>2. OnTime(r)' /\ Running(r)'
    BY <2>1 DEF OnTime, Running
  <2> QED
    BY <1>1, <1>2, <1>5, <2>2, RewardAside
<1>6. ASSUME Note(r, "open", note) PROVE OnTime(r)'
  <2>1. call'[r].pc = "open" /\ call'[r].seen = note
    BY <1>1, <1>6, NoteMoves
  <2> QED
    BY <1>4, <2>1 DEF OnTime, Seen, Month
<1>7. CASE UNCHANGED unmarked /\ Note(r, "open", note) /\ fired # Month(clock)
  <2>1. call'[r].pc = "open" /\ call'[r].seen = note
    BY <1>1, <1>7, NoteMoves
  <2>2. ASSUME ~unmarked PROVE Running(r)'
    <3>1. Rewarding
      BY <1>2 DEF Rewarding
    <3>2. ASSUME NEW w \in windows, Month(w.from) = Month(clock) PROVE clock < w.to
      <4>1. OfMonth(w) /\ IsWindow(w)
        BY <2>2, <3>1 DEF RewardInv, WindowInv
      <4>2. clock <= w.from + 1
        BY <1>7, <3>2, <4>1 DEF OfMonth
      <4> QED
        BY <4>1, <4>2, WindowAssumption DEF IsWindow, TimeOK
    <3> QED
      BY <1>2, <1>4, <2>1, <3>2 DEF Running, Month
  <2> QED
    BY <1>1, <1>2, <1>6, <1>7, <2>2, RewardAside
<1>8. CASE unmarked' = TRUE /\ Note(r, "open", note)
  <2>1. fired' \in Int
    BY <1>2 DEF RewardInv
  <2> QED
    BY <1>1, <1>2, <1>6, <1>8, <2>1, RewardUnmarked
<1> QED
  BY <1>3, <1>5, <1>7, <1>8

(* The step of OpenWindow's reading: with a window open there is nothing to  *)
(* open; with none, every window of the month is still to end.               *)
LEMMA GoalWindowOK ==
    ASSUME Frame, TimeOK, WindowInv, RewardInv, NEW r \in Req, GoalWindow(r)
    PROVE  RewardInv'
<1>1. Shaped /\ MovesOnly(r)
  BY DonationMoves DEF Frame, WebhookStep
<1>2. /\ UNCHANGED <<timeVars, windows, fired, unmarked>>
      /\ call[r].op = "webhook" /\ call[r].pc = "open"
  BY DEF GoalWindow, WindowRead, At, donationVars
<1>3. \/ Goto(r, "emit") \/ Goto(r, "mark")
      \/ Note(r, "insert", [Seen(r) EXCEPT !.now = clock])
  BY DEF GoalWindow, WindowRead
<1>4. UNCHANGED clock
  BY <1>2 DEF timeVars
<1>5. OnTime(r) /\ GoalSeen(r) /\ Seen(r).month = Month(clock)
  BY <1>2 DEF RewardInv, WindowInv, OnTime
<1>6. Month(clock) \in Nat
  BY MonthIsNat
<1>7. CASE Goto(r, "emit")
  <2>1. call'[r].pc = "emit"
    BY <1>1, <1>7, GotoMoves
  <2>2. OnTime(r)' /\ Running(r)'
    BY <2>1 DEF OnTime, Running
  <2> QED
    BY <1>1, <1>2, <2>2, RewardAside
<1>8. CASE Goto(r, "mark")
  <2>1. call'[r].pc = "mark" /\ call'[r].seen = call[r].seen
    BY <1>1, <1>8, GotoMoves
  <2>2. OnTime(r)' /\ Running(r)'
    BY <1>4, <1>5, <1>6, <2>1 DEF OnTime, Running, Seen, Month
  <2> QED
    BY <1>1, <1>2, <2>2, RewardAside
<1>9. CASE Note(r, "insert", [Seen(r) EXCEPT !.now = clock])
  <2>1. call'[r].pc = "insert" /\ call'[r].seen = [Seen(r) EXCEPT !.now = clock]
    BY <1>1, <1>9, NoteMoves
  <2>2. [Seen(r) EXCEPT !.now = clock] = [now |-> clock, month |-> Seen(r).month]
    BY <1>2, <1>5 DEF GoalSeen
  <2>3. Seen(r)'.now = clock /\ Seen(r)'.month = Month(clock)
    BY <1>5, <2>1, <2>2 DEF Seen
  <2>4. OnTime(r)'
    BY <1>4, <2>1, <2>3 DEF OnTime, Month, TimeOK
  <2>5. ASSUME ~unmarked PROVE Running(r)'
    <3>1. Rewarding
      BY <1>2 DEF Rewarding
    <3>2. Running(r)
      BY <1>2, <2>5, <3>1 DEF RewardInv
    <3> QED
      BY <1>2, <2>1, <2>3, <3>2 DEF Running, Month
  <2> QED
    BY <1>1, <1>2, <2>4, <2>5, RewardAside
<1> QED
  BY <1>3, <1>7, <1>8, <1>9

(* The insert's step.                                                        *)
LEMMA GoalInsertOK ==
    ASSUME Frame, TimeOK, WindowInv, RewardInv, NEW r \in Req, GoalInsert(r)
    PROVE  RewardInv'
<1>1. Shaped /\ MovesOnly(r)
  BY DonationMoves DEF Frame, WebhookStep
<1>2. /\ UNCHANGED <<timeVars, fired>>
      /\ call[r].op = "webhook" /\ call[r].pc = "insert"
  BY DEF GoalInsert, WindowInsert, At
<1>3. \/ UNCHANGED <<windows, unmarked>> /\ Goto(r, "emit")
      \/ unmarked' = TRUE /\ Goto(r, "emit")
      \/ UNCHANGED <<windows, unmarked>> /\ Goto(r, "mark")
      \/ /\ windows' = windows \cup {Window(Seen(r).now)} /\ UNCHANGED unmarked
         /\ Goto(r, "mark")
  <2>1. unmarked \in BOOLEAN /\ unmarked' = (unmarked \/ (call'[r].pc = "emit" /\ windows' # windows))
    BY DEF GoalInsert, RewardInv
  <2>2. CASE Goto(r, "emit")
    <3>1. call'[r].pc = "emit"
      BY <1>1, <2>2, GotoMoves
    <3>2. CASE windows' = windows
      BY <2>1, <2>2, <3>2
    <3>3. CASE windows' # windows
      BY <2>1, <2>2, <3>1, <3>3
    <3> QED
      BY <3>2, <3>3
  <2>3. CASE Goto(r, "mark") /\ windows' = Inserted(r)
    <3>1. call'[r].pc # "emit"
      BY <1>1, <2>3, GotoMoves
    <3>2. unmarked' = unmarked
      BY <2>1, <3>1
    <3> QED
      BY <2>3, <3>2 DEF Inserted
  <2> QED
    BY <2>2, <2>3 DEF GoalInsert, WindowInsert
<1>4. UNCHANGED clock
  BY <1>2 DEF timeVars
<1>5. OnTime(r) /\ GoalSeen(r)
  BY <1>2 DEF RewardInv, WindowInv
<1>6. PICK n \in Nat : n = Seen(r).now
  BY <1>2, <1>5 DEF GoalSeen
<1>7. n <= clock /\ clock <= n + 1 /\ Seen(r).month = Month(n) /\ clock \in Nat
  BY <1>2, <1>5, <1>6 DEF OnTime, TimeOK
<1>8. Month(n) \in Nat /\ Month(clock) \in Nat /\ Month(n) <= Month(clock)
  BY <1>7, MonthsGrow
<1>9. CASE Goto(r, "emit")
  <2>1. call'[r].pc = "emit" /\ fired' \in Int
    BY <1>1, <1>2, <1>9, GotoMoves DEF RewardInv
  <2>2. OnTime(r)' /\ Running(r)'
    BY <2>1 DEF OnTime, Running
  <2>3. CASE UNCHANGED <<windows, unmarked>>
    BY <1>1, <1>2, <2>2, <2>3, RewardAside
  <2>4. CASE unmarked' = TRUE
    BY <1>1, <1>2, <2>1, <2>2, <2>4, RewardUnmarked
  <2>5. ~Goto(r, "mark")
    <3>1. SUFFICES ASSUME Goto(r, "mark") PROVE FALSE
      OBVIOUS
    <3>2. call'[r].pc = "mark"
      BY <1>1, <3>1, GotoMoves
    <3> QED
      BY <2>1, <3>2
  <2> QED
    BY <1>3, <2>3, <2>4, <2>5
<1>10. ASSUME Goto(r, "mark")
       PROVE  /\ call'[r].pc = "mark" /\ Seen(r)' = Seen(r)
              /\ OnTime(r)' /\ Running(r)'
  <2>1. call'[r].pc = "mark" /\ call'[r].seen = call[r].seen
    BY <1>1, <1>10, GotoMoves
  <2> QED
    BY <1>4, <1>7, <1>8, <2>1 DEF OnTime, Running, Seen, Month
<1>11. CASE UNCHANGED <<windows, unmarked>> /\ Goto(r, "mark")
  BY <1>1, <1>2, <1>10, <1>11, RewardAside
<1>12. CASE /\ windows' = windows \cup {Window(Seen(r).now)} /\ UNCHANGED unmarked
            /\ Goto(r, "mark")
  <2> DEFINE new == Window(n)
  <2>1. windows' = windows \cup {new} /\ new.from = n /\ new.to = n + WindowLength
    BY <1>6, <1>12 DEF Window
  <2>2. WindowLength \in Nat /\ WindowLength >= 2
    BY WindowAssumption
  <2>3. \A s \in Req : call'[s].op = call[s].op
    BY <1>1 DEF MovesOnly
  <2>4. ASSUME NEW s \in Req, call'[s].op = "webhook" PROVE OnTime(s)'
    <3>1. CASE s = r
      BY <1>10, <1>12, <3>1
    <3>2. CASE s # r
      BY <1>1, <1>4, <2>3, <2>4, <3>2 DEF MovesOnly, RewardInv, OnTime, Seen, Month
    <3> QED
      BY <3>1, <3>2
  <2>5. fired' \in Int /\ unmarked' \in BOOLEAN
    BY <1>2, <1>12 DEF RewardInv
  <2> SUFFICES ASSUME ~unmarked'
               PROVE  /\ Overlap'
                      /\ \A w \in windows' : w.from <= clock' /\ OfMonth(w)'
                      /\ \A s \in Req : call'[s].op = "webhook" => Running(s)'
    BY <2>4, <2>5 DEF RewardInv
  <2> HIDE DEF new
  <2>6. ~unmarked /\ Rewarding
    BY <1>2, <1>12 DEF Rewarding
  <2>7. /\ Overlap /\ \A w \in windows : w.from <= clock /\ OfMonth(w) /\ IsWindow(w)
        /\ \A s \in Req : call[s].op = "webhook" => Running(s)
    BY <2>6 DEF RewardInv, WindowInv
  <2>8. \A w \in windows : Month(w.from) = Month(n) => n < w.to
    BY <1>2, <1>6, <1>7, <2>7 DEF Running
  <2>9. Overlap'
    <3> SUFFICES ASSUME NEW v \in windows', NEW w \in windows',
                        Month(v.from) = Month(w.from), v.from <= w.from
                 PROVE  w.from < v.to
      BY DEF Overlap, Month
    <3>1. CASE v \in windows /\ w \in windows
      BY <2>7, <3>1 DEF Overlap
    <3>2. CASE v \in windows /\ w = new
      BY <2>1, <2>8, <3>2
    <3>3. CASE v = new
      <4>1. w.from \in Nat /\ w.from <= clock
        BY <1>7, <2>1, <2>7 DEF IsWindow
      <4> QED
        BY <1>7, <2>1, <2>2, <3>3, <4>1
    <3> QED
      BY <2>1, <3>1, <3>2, <3>3
  <2>10. MarksMonth(r, Month(n))'
    BY <1>2, <1>6, <1>7, <1>10, <1>12, <2>3 DEF MarksMonth, Seen
  <2>11. \A s \in Req : MarksMonth(s, Month(clock)) => MarksMonth(s, Month(clock))'
    BY <1>1, <1>2, <1>4, <2>3 DEF MarksMonth, MovesOnly, Seen, Month
  <2>12. ASSUME NEW w \in windows' PROVE w.from <= clock' /\ OfMonth(w)'
    <3>1. CASE w \in windows
      <4>1. w.from <= clock /\ OfMonth(w)
        BY <2>7, <3>1
      <4> QED
        BY <1>2, <1>4, <2>11, <4>1 DEF OfMonth, Month, MarksMonth
    <3>2. CASE w = new
      BY <1>2, <1>4, <1>7, <2>1, <2>10, <3>2 DEF OfMonth, Month, MarksMonth
    <3> QED
      BY <2>1, <3>1, <3>2
  <2>13. ASSUME NEW s \in Req, call'[s].op = "webhook" PROVE Running(s)'
    <3>1. CASE s = r
      BY <1>10, <1>12, <3>1
    <3>2. CASE s # r
      <4>1. Running(s) /\ OnTime(s) /\ GoalSeen(s) /\ call'[s] = call[s]
        BY <1>1, <2>3, <2>7, <2>13, <3>2 DEF MovesOnly, RewardInv, WindowInv
      <4>2. clock < new.to
        BY <1>7, <2>1, <2>2
      <4>3. call[s].pc = "insert" => Seen(s).now < new.to
        BY <1>7, <2>1, <2>2, <4>1 DEF OnTime, GoalSeen
      <4> QED
        BY <1>4, <2>1, <4>1, <4>2, <4>3 DEF Running, Seen, Month
    <3> QED
      BY <3>1, <3>2
  <2> QED
    BY <2>9, <2>12, <2>13
<1> QED
  BY <1>3, <1>9, <1>11, <1>12

(* The marker's step: a month's marker that is not overwritten keeps.        *)
LEMMA MarkFiredOK ==
    ASSUME Frame, TimeOK, WindowInv, RewardInv, fired \in Int, NEW r \in Req, MarkFired(r)
    PROVE  RewardInv'
<1>1. Shaped /\ MovesOnly(r)
  BY DonationMoves DEF Frame, WebhookStep
<1>2. /\ UNCHANGED <<timeVars, windows>>
      /\ call[r].op = "webhook" /\ call[r].pc = "mark" /\ Goto(r, "emit")
  BY DEF MarkFired, At
<1>3. \/ fired' = Seen(r).month /\ (unmarked' = (unmarked \/ fired > Seen(r).month))
      \/ unmarked' = TRUE /\ fired' = fired
  BY DEF MarkFired
<1>4. UNCHANGED clock
  BY <1>2 DEF timeVars
<1>5. call'[r].pc = "emit"
  BY <1>1, <1>2, GotoMoves
<1>6. OnTime(r)' /\ Running(r)'
  BY <1>5 DEF OnTime, Running
<1>7. PICK m \in Nat : m = Seen(r).month
  BY <1>2 DEF WindowInv, GoalSeen
<1>8. m <= Month(clock) /\ Month(clock) \in Nat
  BY <1>2, <1>7, MonthIsNat DEF RewardInv, OnTime
<1>9. fired' \in Int
  BY <1>3, <1>7
<1>10. CASE unmarked' = TRUE
  BY <1>1, <1>2, <1>6, <1>9, <1>10, RewardUnmarked
<1>11. CASE ~(unmarked' = TRUE)
  <2>1. fired' = m /\ ~unmarked /\ fired <= m /\ unmarked' = FALSE
    <3>1. fired' = Seen(r).month /\ (unmarked' = (unmarked \/ fired > Seen(r).month))
      BY <1>3, <1>11
    <3>2. ~(unmarked \/ fired > Seen(r).month)
      BY <1>11, <3>1
    <3>3. unmarked = FALSE
      BY <3>2 DEF RewardInv
    <3>4. unmarked' = FALSE
      BY <3>1, <3>2
    <3> QED
      BY <1>7, <3>1, <3>2, <3>3, <3>4
  <2>2. \A s \in Req : call'[s].op = call[s].op
    BY <1>1 DEF MovesOnly
  <2>3. Rewarding
    BY <1>2 DEF Rewarding
  <2>4. ASSUME NEW s \in Req, call'[s].op = "webhook" PROVE OnTime(s)' /\ Running(s)'
    <3>1. CASE s = r
      BY <1>6, <3>1
    <3>2. CASE s # r
      <4>1. OnTime(s) /\ Running(s) /\ call'[s] = call[s]
        BY <1>1, <2>1, <2>2, <2>3, <2>4, <3>2 DEF MovesOnly, RewardInv
      <4> QED
        BY <1>2, <1>4, <4>1 DEF OnTime, Running, Seen, Month
    <3> QED
      BY <3>1, <3>2
  <2>5. Overlap'
    BY <1>2, <2>1 DEF RewardInv, Overlap, Month
  <2>6. ASSUME NEW w \in windows' PROVE w.from <= clock' /\ OfMonth(w)'
    <3>1. w \in windows /\ w.from <= clock /\ OfMonth(w)
      BY <1>2, <2>1, <2>3, <2>6 DEF RewardInv
    <3>2. ASSUME Month(w.from) = Month(clock), m # Month(clock)
          PROVE  clock <= w.from + 1 /\ \E s \in Req : MarksMonth(s, Month(clock))'
      <4>1. fired # Month(clock)
        BY <1>8, <2>1, <3>2
      <4>2. clock <= w.from + 1
        BY <3>1, <3>2, <4>1 DEF OfMonth
      <4>3. PICK s \in Req : MarksMonth(s, Month(clock))
        BY <3>1, <3>2, <4>1 DEF OfMonth
      <4>4. s # r
        BY <1>7, <3>2, <4>3 DEF MarksMonth
      <4>5. call'[s] = call[s]
        BY <1>1, <4>4 DEF MovesOnly
      <4>6. MarksMonth(s, Month(clock))'
        BY <1>4, <4>3, <4>5 DEF MarksMonth, Seen, Month
      <4> QED
        BY <4>2, <4>6
    <3> QED
      BY <1>4, <2>1, <3>1, <3>2 DEF OfMonth, Month
  <2> QED
    BY <1>9, <2>1, <2>4, <2>5, <2>6 DEF RewardInv
<1> QED
  BY <1>10, <1>11

(* The other steps of a webhook and those of a claim.                        *)
LEMMA DonorRewardOK ==
    ASSUME Frame, TimeOK, WindowInv, RewardInv, NEW r \in Req,
           WebhookStep(r) \/ ClaimRead(r) \/ ClaimInvoice(r) \/ DonationDies(r)
    PROVE  RewardInv'
<1>1. Shaped /\ MovesOnly(r)
  BY DonationMoves DEF Frame
<1>2. ASSUME NEW x, Goto(r, x), x \notin {"open", "insert", "mark"}
      PROVE  OnTime(r)' /\ Running(r)'
  <2>1. call'[r].pc = x
    BY <1>1, <1>2, GotoMoves
  <2> QED
    BY <1>2, <2>1 DEF OnTime, Running
<1>3. fired \in Int
  BY DEF RewardInv
<1>4. CASE WebhookRead(r) \/ WebhookRecheck(r) \/ EmitAndAnswer(r)
  <2>1. /\ UNCHANGED <<timeVars, windows, fired, unmarked>>
        /\ call[r].pc # "mark"
        /\ \E x : Goto(r, x) /\ x \notin {"open", "insert", "mark"}
    BY <1>4 DEF WebhookRead, WebhookRecheck, EmitAndAnswer, Answer, At
  <2> QED
    BY <1>1, <1>2, <2>1, RewardAside
<1>5. CASE CreateDonation(r) \/ ClaimRead(r) \/ ClaimInvoice(r)
  <2>1. /\ UNCHANGED <<timeVars, windows, fired, unmarked>>
        /\ call[r].pc # "mark"
        /\ \E x : Goto(r, x) /\ x \notin {"open", "insert", "mark"}
    BY <1>5 DEF CreateDonation, ClaimRead, ClaimInvoice, At, donationVars
  <2> QED
    BY <1>1, <1>2, <2>1, RewardAside
<1>6. CASE WebhookFetch(r)
  <2>1. /\ UNCHANGED <<timeVars, windows, fired, unmarked>> /\ call[r].pc # "mark"
        /\ \E s : Note(r, "create", s)
    BY <1>6 DEF WebhookFetch, At, donationVars
  <2>2. call'[r].pc = "create"
    BY <1>1, <2>1, NoteMoves
  <2>3. OnTime(r)' /\ Running(r)'
    BY <2>2 DEF OnTime, Running
  <2> QED
    BY <1>1, <2>1, <2>3, RewardAside
<1>7. CASE Redeliver(r)
  <2>1. /\ UNCHANGED <<timeVars, windows, fired, unmarked>>
        /\ call[r].pc # "mark" /\ Goto(r, "start")
    BY <1>7 DEF Redeliver, donationVars
  <2> QED
    BY <1>1, <1>2, <2>1, RewardAside
<1>8. CASE DonationDies(r)
  <2>1. /\ UNCHANGED <<timeVars, windows, fired>> /\ Goto(r, "dead")
        /\ unmarked' = (unmarked \/ call[r].pc = "mark")
    BY <1>8 DEF DonationDies, Cut
  <2>2. OnTime(r)' /\ Running(r)'
    BY <1>2, <2>1
  <2>3. CASE call[r].pc = "mark" \/ unmarked = TRUE
    <3>1. unmarked' = TRUE /\ fired' \in Int
      BY <1>3, <2>1, <2>3
    <3> QED
      BY <1>1, <2>1, <2>2, <3>1, RewardUnmarked
  <2>4. CASE ~(call[r].pc = "mark") /\ ~(unmarked = TRUE)
    <3>1. unmarked = FALSE
      BY <2>4 DEF RewardInv
    <3>2. UNCHANGED unmarked
      BY <2>1, <2>4, <3>1
    <3> QED
      BY <1>1, <2>1, <2>2, <2>4, <3>2, RewardAside
  <2> QED
    BY <2>3, <2>4
<1> QED
  BY <1>3, <1>4, <1>5, <1>6, <1>7, <1>8, GoalReadOK, GoalWindowOK, GoalInsertOK, MarkFiredOK
     DEF WebhookStep

(* Time passes when no webhook is about to open a window, or to mark it.     *)
LEMMA TickRewardOK ==
    ASSUME TimeOK, TimeOK', WindowInv, RewardInv, Tick, WindowSoon,
           UNCHANGED <<windows, donationVars>>
    PROVE  RewardInv'
<1>1. /\ clock' = clock + 1 /\ clock \in Nat
      /\ UNCHANGED <<call, windows, fired, unmarked>>
  BY DEF Tick, TimeOK, donationVars
<1>2. Month(clock) \in Nat /\ Month(clock') \in Nat /\ Month(clock) <= Month(clock')
  BY <1>1, MonthsGrow
<1>3. ASSUME NEW s \in Req, call[s].op = "webhook"
      PROVE  /\ call[s].pc \notin {"open", "mark"} /\ OnTime(s)
             /\ call[s].pc = "insert" => Seen(s).now = clock
             /\ OnTime(s)'
  <2>1. /\ call[s].pc \notin {"open", "mark"} /\ OnTime(s)
        /\ call[s].pc = "insert" => Seen(s).now = clock
    BY <1>3 DEF WindowSoon, RewardInv
  <2> QED
    BY <1>1, <2>1 DEF OnTime, Seen, Month
<1>4. ASSUME ~unmarked', Rewarding' PROVE ~unmarked /\ Rewarding
  BY <1>1, <1>4 DEF Rewarding
<1>5. ASSUME ~unmarked, Rewarding, NEW w \in windows PROVE w.from <= clock' /\ OfMonth(w)'
  <2>1. w.from <= clock /\ OfMonth(w) /\ w.from \in Nat
    BY <1>5 DEF RewardInv, WindowInv, IsWindow
  <2>2. \A s \in Req : ~MarksMonth(s, Month(clock))
    BY <1>3 DEF MarksMonth
  <2>3. Month(w.from) = Month(clock) => fired = Month(clock)
    BY <2>1, <2>2 DEF OfMonth
  <2>4. Month(w.from) \in Nat /\ Month(w.from) <= Month(clock)
    BY <1>1, <2>1, MonthsGrow
  <2>5. Month(w.from) = Month(clock') => Month(clock) = Month(clock')
    BY <1>2, <2>4
  <2>6. ~(Month(w.from) = Month(clock') /\ fired # Month(clock'))
    BY <2>3, <2>5
  <2>7. OfMonth(w)'
    BY <1>1, <2>6 DEF OfMonth, Month
  <2> QED
    BY <1>1, <2>1, <2>7
<1>6. ASSUME ~unmarked, Rewarding, NEW s \in Req, call[s].op = "webhook" PROVE Running(s)'
  <2>1. Running(s)
    BY <1>6 DEF RewardInv
  <2> QED
    BY <1>1, <1>3, <1>6, <2>1 DEF Running, Seen, Month
<1>7. ~unmarked' => Overlap'
  BY <1>1 DEF RewardInv, Overlap, Month
<1> QED
  BY <1>1, <1>3, <1>4, <1>5, <1>6, <1>7 DEF RewardInv

(* Other components' steps.                                                  *)
LEMMA ForeignRewardOK ==
    ASSUME RewardInv, UNCHANGED <<clock, windows, donationVars>>, Others(DonationOps),
           \A s \in Req : call'[s].op = call[s].op
    PROVE  RewardInv'
<1>1. UNCHANGED <<fired, unmarked>>
  BY DEF donationVars
<1>2. \A s \in Req : call[s].op = "webhook" => call'[s] = call[s]
  BY DEF Others, DonationOps
<1>3. ASSUME NEW s \in Req, call'[s].op = "webhook"
      PROVE  OnTime(s)' /\ (Running(s) => Running(s)')
  BY <1>2, <1>3 DEF RewardInv, OnTime, Running, Seen, Month
<1>4. ~unmarked' => Overlap'
  BY <1>1 DEF RewardInv, Overlap, Month
<1>5. Rewarding' => Rewarding
  BY DEF Rewarding
<1>6. \A s \in Req : MarksMonth(s, Month(clock)) => MarksMonth(s, Month(clock))'
  BY <1>2 DEF MarksMonth, Seen, Month
<1>7. ASSUME ~unmarked, Rewarding, NEW w \in windows PROVE w.from <= clock' /\ OfMonth(w)'
  <2>1. w.from <= clock /\ OfMonth(w)
    BY <1>7 DEF RewardInv
  <2> QED
    BY <1>1, <1>6, <2>1 DEF OfMonth, Month
<1> QED
  BY <1>1, <1>3, <1>4, <1>5, <1>7 DEF RewardInv

LEMMA NextReward ==
    ASSUME SiteInv, SiteInv', RewardInv, [Next]_vars PROVE RewardInv'
<1> USE DEF SiteInv
<1>1. /\ DonationsNext \/ (UNCHANGED <<windows, donationVars>> /\ Others(DonationOps))
      /\ (Tick /\ WindowSoon) \/ UNCHANGED timeVars
      /\ \A s \in Req : call'[s].op = call[s].op
  BY Foreign, SameVisits
<1>2. CASE DonationsNext
  <2>1. PICK r \in Req :
             WebhookStep(r) \/ ClaimRead(r) \/ ClaimInvoice(r) \/ DonationDies(r)
    BY <1>2 DEF DonationsNext
  <2> QED
    BY <2>1, DonorRewardOK
<1>3. CASE UNCHANGED <<windows, donationVars>> /\ Others(DonationOps)
  <2>1. CASE Tick /\ WindowSoon
    BY <1>3, <2>1, TickRewardOK
  <2>2. CASE UNCHANGED timeVars
    BY <1>1, <1>3, <2>2, ForeignRewardOK DEF timeVars
  <2> QED
    BY <1>1, <2>1, <2>2
<1> QED
  BY <1>1, <1>2, <1>3

(* A month gets one free week however many webhooks meet the goal at once,   *)
(* whatever fails on the way and wherever the month ends, so far as its      *)
(* marker is read, written and not written over by an earlier month's        *)
(* (maybeOpenGoalReward, OpenWindow).                                        *)
THEOREM MonthsAreRewardedOnce == ASSUME NoEarlierWindow PROVE Spec => []OneRewardAMonth
<1>1. Init => SiteInv /\ RewardInv
  BY InitSite, InitReward
<1>2. SiteInv /\ RewardInv /\ [Next]_vars => (SiteInv /\ RewardInv)'
  BY NextSite, NextReward
<1>3. SiteInv /\ RewardInv => OneRewardAMonth
  BY DEF RewardInv, Overlap, OneRewardAMonth
<1> QED
  BY <1>1, <1>2, <1>3, PTL DEF Spec
=============================================================================
