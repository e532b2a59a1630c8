------------------------------- MODULE Perks -------------------------------
(***************************************************************************)
(* The perks of a member on a torrent (perks/perks.go, store.go, plugin.go): *)
(* tokens in Postgres, and in every process that answers announces a table   *)
(* of the perks in force, replaced wholesale by a timer and by a spend.      *)
(***************************************************************************)
EXTENDS EventWindows

CONSTANTS
    NoTorrent,
    Process,     \* web and api: each holds a table of its own
    Web,         \* the process that serves members' pages
    InitTokens,  \* rows of perks.tokens at the start: id, who, kind
    TokenLife    \* ticks

ASSUME PerkAssumption ==
    /\ Web \in Process /\ NoTorrent \notin Torrent /\ TokenLife \in Nat \ {0}
    /\ \A t \in InitTokens : t.id \in Nat /\ t.who \in Member
    /\ \A p \in Plans : \A r \in Req :
          p[r].op = "spend" => p[r].arg.torrent \in Torrent

VARIABLES
    tokens,      \* rows: id, who, kind, torrent once spent, until
    perks,       \* Table.byID: process -> perks in force
    freeUntil    \* Table.siteFreeleechUntil: process -> time, or 0

perkVars == <<tokens, perks, freeUntil>>

Unused(t) == [id |-> t.id, who |-> t.who, kind |-> t.kind, torrent |-> NoTorrent, until |-> 0]

PerksInit ==
    /\ tokens = {Unused(t) : t \in InitTokens}
    /\ perks = [p \in Process |-> {}]
    /\ freeUntil = [p \in Process |-> 0]

Perk(who, torrent, kind, until) ==
    [who |-> who, torrent |-> torrent, kind |-> kind, until |-> until]

(* Table.Factors: the multipliers of a member's traffic on a torrent.  Both  *)
(* ends are looked at here: the table is older than the question.            *)
Lasting(p, m, t, kind) ==
    \E a \in perks[p] : a.who = m /\ a.torrent = t /\ a.kind = kind /\ clock <= a.until

UpFactor(p, m, t) == IF Lasting(p, m, t, "upload2x") THEN 2 ELSE 1

\* Mutant: a window in the table is open until the table says otherwise.
FreeUntilTold(p, m, t) == freeUntil[p] # 0 \/ Lasting(p, m, t, "freeleech")
Free(p, m, t) == clock < freeUntil[p] \/ Lasting(p, m, t, "freeleech")

(* Spend, first statement: the torrent has a token of that kind, lapsed or   *)
(* not.                                                                      *)
OnTorrent(r) == \E t \in tokens :
    t.who = Who(r) /\ t.torrent = Arg(r).torrent /\ t.kind = Arg(r).kind

SpendCheck(r) ==
    /\ At(r, "spend", "start")
    /\ \/ NoFault /\ Goto(r, IF OnTorrent(r) THEN "refused" ELSE "take")
       \/ Fault /\ Goto(r, "refused")
    /\ UNCHANGED <<timeVars, windows, perkVars>>

\* Mutant: a token is one of the member's, spent or not.
UnspentAny(t) == TRUE
Unspent(t) == t.torrent = NoTorrent

(* The second statement takes the oldest unspent token that nobody else has  *)
(* locked, and starts its clock; the unique index refuses a second token of  *)
(* a kind on the torrent.                                                    *)
SpendTake(r) ==
    LET held   == {t \in tokens : t.who = Who(r) /\ t.kind = Arg(r).kind /\ Unspent(t)}
        oldest == CHOOSE t \in held : \A u \in held : t.id <= u.id
        spent  == [oldest EXCEPT !.torrent = Arg(r).torrent, !.until = clock + TokenLife]
    IN
    /\ At(r, "spend", "take")
    /\ \/ /\ NoFault /\ held # {} /\ ~OnTorrent(r)
          /\ tokens' = (tokens \ {oldest}) \cup {spent}
          /\ Goto(r, "reload")
       \/ /\ \/ NoFault /\ (held = {} \/ OnTorrent(r))
             \/ Fault
          /\ Goto(r, "refused") /\ UNCHANGED tokens
    /\ UNCHANGED <<timeVars, windows, perks, freeUntil>>

(* refresh, of the process of the request: the timer's, or the web's after a *)
(* spend.  A failing read keeps what was there.                              *)
Reloader(r) == IF call[r].op = "spend" THEN Web ELSE Arg(r).process

InForce == {Perk(t.who, t.torrent, t.kind, t.until) :
               t \in {u \in tokens : u.torrent # NoTorrent /\ u.until > clock}}

ReloadRead(r) ==
    /\ \/ At(r, "spend", "reload") \/ At(r, "timer", "start")
    /\ \/ NoFault /\ Note(r, "install", [perks |-> InForce])
       \/ Fault /\ Goto(r, "done")
    /\ UNCHANGED <<timeVars, windows, perkVars>>

\* Mutant: a refresh only drops from the table what is no longer in force.
InstalledPruned(old, new) == old \cap new
(* Replace: the table is what was read, whatever was installed meanwhile.    *)
Installed(old, new) == new

ReloadInstall(r) ==
    /\ call[r].op \in {"spend", "timer"} /\ call[r].pc = "install"
    /\ perks' = [perks EXCEPT ![Reloader(r)] = Installed(@, Seen(r).perks)]
    /\ Goto(r, "ask")
    /\ UNCHANGED <<faults, timeVars, windows, tokens, freeUntil>>

(* refreshSiteFreeleech: the end of the open window, or none.                *)
FreeleechRead(r) ==
    /\ call[r].op \in {"spend", "timer"} /\ call[r].pc = "ask"
    /\ \/ NoFault /\ Note(r, "set", [until |-> Ends(clock)])
       \/ Fault /\ Goto(r, "done")
    /\ UNCHANGED <<timeVars, windows, perkVars>>

FreeleechSet(r) ==
    /\ call[r].op \in {"spend", "timer"} /\ call[r].pc = "set"
    /\ freeUntil' = [freeUntil EXCEPT ![Reloader(r)] = Seen(r).until]
    /\ Goto(r, "done")
    /\ UNCHANGED <<faults, timeVars, windows, tokens, perks>>

(* The ticker of a process: once every RefreshInterval, for ever.            *)
TimerAgain(r) ==
    /\ At(r, "timer", "done")
    /\ Goto(r, "start")
    /\ UNCHANGED <<faults, timeVars, windows, perkVars>>

SpendDies(r) ==
    /\ call[r].op = "spend"
    /\ Cut(r)
    /\ UNCHANGED <<timeVars, windows, perkVars>>

TimerStep(r) ==
    /\ call[r].op = "timer"
    /\ \/ ReloadRead(r) \/ ReloadInstall(r) \/ FreeleechRead(r) \/ FreeleechSet(r)
       \/ TimerAgain(r)

PerksNext == \E r \in Req :
    \/ SpendCheck(r) \/ SpendTake(r) \/ ReloadRead(r) \/ ReloadInstall(r)
    \/ FreeleechRead(r) \/ FreeleechSet(r) \/ TimerAgain(r) \/ SpendDies(r)
=============================================================================
