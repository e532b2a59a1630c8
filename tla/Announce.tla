------------------------------ MODULE Announce ------------------------------
(***************************************************************************)
(* The announce (tracker/announce_handler.go, announce.go, multiplier.go,    *)
(* peers.go): a client reports the totals of its session, the tracker diffs  *)
(* them with the peer's last report in Redis and adds what is new, times the *)
(* perks' factors, to the member's row in Postgres.                          *)
(***************************************************************************)
EXTENDS SeedLock, Perks

CONSTANTS
    PeerTTL,     \* ticks after which an unreported peer is forgotten
    InitStats    \* plan -> tracker.user_stats at the start

ASSUME AnnounceAssumption ==
    /\ PeerTTL \in Nat \ {0}
    /\ \A p \in Plans :
          /\ InitStats[p] \in [Member -> [Torrent ->
                [up : Nat, down : Nat, completed : BOOLEAN, seen : {0}]]]
          /\ \A r \in Req : p[r].op = "client" =>
                /\ p[r].arg.torrent \in Torrent /\ p[r].arg.process \in Process
                /\ p[r].arg.moves \subseteq [up : Nat, down : Nat, stop : BOOLEAN]

VARIABLES
    swarm,       \* torrent -> peers by id, and when Redis drops them all
    stats,       \* member, torrent -> row of user_stats
    snatches,    \* torrent -> times it was completed
    counts,      \* torrent -> seeders and leechers on its row
    client,      \* id -> session of the client: on, and its totals
    moved,       \* ghost: member, torrent -> what their clients really moved
    lost         \* ghost: a peer's snapshot was not written

announceVars == <<swarm, stats, snatches, counts, client, moved, lost>>

Id(r) == Arg(r).peer
Ids   == {Id(r) : r \in {s \in Req : call[s].op = "client"}}

Nothing == [up |-> 0, down |-> 0, stop |-> FALSE]
NoPeers == [id \in {} |-> 0]
NoRow   == [up |-> 0, down |-> 0, completed |-> FALSE, seen |-> 0]

AnnounceInit ==
    /\ swarm = [t \in Torrent |-> [peers |-> NoPeers, until |-> 0]]
    /\ stats = InitStats[call]
    /\ snatches = [t \in Torrent |-> 0]
    /\ counts = [t \in Torrent |-> [seeders |-> 0, leechers |-> 0]]
    /\ client = [id \in Ids |-> [on |-> FALSE, up |-> 0, down |-> 0, left |-> 1]]
    /\ moved = [m \in Member |-> [t \in Torrent |->
                  [up |-> stats[m][t].up, down |-> stats[m][t].down]]]
    /\ lost = FALSE

Peers(t) == IF swarm[t].until > clock THEN swarm[t].peers ELSE NoPeers

(* The client (external): it moves something, or stops, and announces its    *)
(* totals since it started; a stopped one starts again from zero.            *)
Report(r) ==
    LET c == client[Id(r)] IN
    /\ At(r, "client", "start") /\ call[r].todo > 0
    /\ \E m \in IF c.on THEN Arg(r).moves ELSE {Nothing} :
          LET down == IF m.down > c.left THEN c.left ELSE m.down
              now  == IF c.on THEN [on |-> ~m.stop, up |-> c.up + m.up, down |-> c.down + down,
                                    left |-> c.left - down]
                      ELSE [on |-> TRUE, up |-> 0, down |-> 0, left |-> c.left]
          IN  /\ client' = [client EXCEPT ![Id(r)] = now]
              /\ moved' = [moved EXCEPT ![Who(r)][Arg(r).torrent] =
                              [up |-> @.up + m.up, down |-> @.down + down]]
              /\ call' = [call EXCEPT ![r].pc = "get", ![r].todo = @ - 1,
                            ![r].seen = [stop |-> m.stop, up |-> now.up, down |-> now.down,
                                         left |-> now.left, prev |-> {}, host |-> NoHost]]
    /\ UNCHANGED <<faults, timeVars, claim, windows, perkVars, swarm, stats, snatches, counts, lost>>

(* The peer's last report; a peer id belongs to one member.  Then the guard. *)
AnnounceGet(r) ==
    LET peers == Peers(Arg(r).torrent)
        prev  == IF Id(r) \in DOMAIN peers THEN {peers[Id(r)]} ELSE {}
    IN
    /\ At(r, "client", "get")
    /\ \/ /\ NoFault
          /\ IF \E p \in prev : p.who # Who(r) THEN Goto(r, "again")
             ELSE Note(r, IF Seen(r).stop THEN "held" ELSE "acquire", [Seen(r) EXCEPT !.prev = prev])
       \/ Fault /\ Goto(r, "again")
    /\ UNCHANGED <<timeVars, claim, windows, perkVars, announceVars>>

(* Put, or Remove on a stop: a failure is not looked at.                     *)
Snapshot(r) == [who |-> Who(r), up |-> Seen(r).up, down |-> Seen(r).down,
                completed |-> Seen(r).left = 0, seen |-> clock]

With(f, k, v) == [x \in DOMAIN f \cup {k} |-> IF x = k THEN v ELSE f[x]]
Without(f, k) == [x \in DOMAIN f \ {k} |-> f[x]]

AnnouncePut(r) ==
    LET t == Arg(r).torrent IN
    /\ At(r, "client", Admitted)
    /\ \/ /\ NoFault /\ UNCHANGED lost
          /\ swarm' = [swarm EXCEPT ![t] =
                IF Seen(r).stop THEN [peers |-> Without(Peers(t), Id(r)), until |-> @.until]
                ELSE [peers |-> With(Peers(t), Id(r), Snapshot(r)), until |-> clock + PeerTTL]]
       \/ Fault /\ lost' = (lost \/ ~Seen(r).stop) /\ UNCHANGED swarm
    /\ Goto(r, "credit")
    /\ UNCHANGED <<timeVars, claim, windows, perkVars, stats, snatches, counts, client, moved>>

\* Mutant: a first report is worth its totals.
NewSinceAll(now, before) == IF before = {} THEN now ELSE
    LET b == CHOOSE b \in before : TRUE IN IF now >= b THEN now - b ELSE 0
(* ComputeDelta, a counter: nothing on a first report, nothing for a stop,   *)
(* nothing when the client's total went back.                                *)
NewSince(now, before) == IF before = {} THEN 0 ELSE
    LET b == CHOOSE b \in before : TRUE IN IF now >= b THEN now - b ELSE 0

Up(r)   == IF Seen(r).stop THEN 0 ELSE NewSince(Seen(r).up, {p.up : p \in Seen(r).prev})
Down(r) == IF Seen(r).stop THEN 0 ELSE NewSince(Seen(r).down, {p.down : p \in Seen(r).prev})
Done(r) == ~Seen(r).stop /\ Seen(r).left = 0 /\ \A p \in Seen(r).prev : ~p.completed

(* Credit and ApplyAnnounceDelta: one upsert that adds.                      *)
AnnounceCredit(r) ==
    LET m == Who(r)  t == Arg(r).torrent  p == Arg(r).process IN
    /\ At(r, "client", "credit")
    /\ \/ /\ NoFault
          /\ stats' = [stats EXCEPT ![m][t] =
                [up        |-> @.up + Up(r) * UpFactor(p, m, t),
                 down      |-> @.down + (IF Free(p, m, t) THEN 0 ELSE Down(r)),
                 completed |-> @.completed \/ Done(r),
                 seen      |-> clock]]
          /\ Note(r, IF Done(r) THEN "snatch" ELSE "list", [now |-> 0])
       \/ Fault /\ Goto(r, "again") /\ UNCHANGED stats
    /\ UNCHANGED <<timeVars, claim, windows, perkVars, swarm, snatches, counts, client, moved, lost>>

AnnounceSnatch(r) ==
    /\ At(r, "client", "snatch")
    /\ \/ NoFault /\ snatches' = [snatches EXCEPT ![Arg(r).torrent] = @ + 1]
       \/ Fault /\ UNCHANGED snatches
    /\ Goto(r, "list")
    /\ UNCHANGED <<timeVars, claim, windows, perkVars, swarm, stats, counts, client, moved, lost>>

(* List drops the peers that are late; a list that fails is an empty one.    *)
AnnounceList(r) ==
    LET t     == Arg(r).torrent
        fresh == {id \in DOMAIN Peers(t) : Peers(t)[id].seen + PeerTTL >= clock}
        done  == {id \in fresh : Peers(t)[id].completed}
    IN
    /\ At(r, "client", "list")
    /\ \/ /\ NoFault
          /\ swarm' = [swarm EXCEPT ![t].peers = [id \in fresh |-> Peers(t)[id]]]
          /\ Note(r, "count", [seeders  |-> Cardinality(done),
                               leechers |-> Cardinality(fresh \ done)])
       \/ Fault /\ Note(r, "count", [seeders |-> 0, leechers |-> 0]) /\ UNCHANGED swarm
    /\ UNCHANGED <<timeVars, claim, windows, perkVars, stats, snatches, counts, client, moved, lost>>

(* SetSwarmCounts writes the counts read, whatever was listed since.         *)
AnnounceCount(r) ==
    /\ At(r, "client", "count")
    /\ \/ NoFault /\ counts' = [counts EXCEPT ![Arg(r).torrent] = Seen(r)]
       \/ Fault /\ UNCHANGED counts
    /\ Goto(r, "again")
    /\ UNCHANGED <<timeVars, claim, windows, perkVars, swarm, stats, snatches, client, moved, lost>>

(* The answer: the client announces again at the interval.                   *)
NextInterval(r) ==
    /\ At(r, "client", "again")
    /\ Note(r, IF call[r].todo = 0 THEN "done" ELSE "start", [now |-> 0])
    /\ UNCHANGED <<faults, timeVars, claim, windows, perkVars, announceVars>>

AnnounceDies(r) ==
    /\ call[r].op = "client" /\ call[r].pc # "again"
    /\ call[r].pc \notin Ended \cup {"start"}
    /\ Fault /\ Goto(r, "again")
    /\ UNCHANGED <<timeVars, claim, windows, perkVars, announceVars>>

AnnounceNext == \E r \in Req :
    \/ Report(r) \/ AnnounceGet(r) \/ AnnouncePut(r) \/ AnnounceCredit(r)
    \/ AnnounceSnatch(r) \/ AnnounceList(r) \/ AnnounceCount(r)
    \/ NextInterval(r) \/ AnnounceDies(r)
=============================================================================
