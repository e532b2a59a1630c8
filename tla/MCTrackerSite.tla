---------------------------- MODULE MCTrackerSite ----------------------------
(* Small instances of TrackerSite: who comes in together.                   *)
EXTENDS TrackerSite, TLC

CONSTANTS ann, bob, t1, t2, web, api, r1, r2, r3, r4, i1, i2, h1, h2, p1, p2

Four(w, x, y, z) == r1 :> w @@ r2 :> x @@ r3 :> y @@ r4 :> z
Idle        == Visit("none", ann, [invoice |-> i1], 0)
Claim(i)    == Visit("claim", ann, [invoice |-> i], 1)
Webhook(i)  == Visit("webhook", ann, [invoice |-> i], 1)
SpendOn(m, t, kind) == Visit("spend", m, [torrent |-> t, kind |-> kind], 1)
Spend(m, t)  == SpendOn(m, t, "freeleech")
Double(m, t) == SpendOn(m, t, "upload2x")
Timer(p)    == Visit("timer", ann, [process |-> p], 1)
Client(m, t, h, id, moves, n) ==
    Visit("client", m, [torrent |-> t, host |-> h, peer |-> id, process |-> web,
                        moves |-> moves], n)
Some == [Nothing EXCEPT !.up = 1]
All  == [Nothing EXCEPT !.down = 1]
Both == [up |-> 1, down |-> 1, stop |-> FALSE]
Stop == [Nothing EXCEPT !.up = 1, !.stop = TRUE]
Clear(m, t) == Visit("clear", m, [torrent |-> t], 1)
Sweep(n)    == Visit("sweep", ann, [torrent |-> t1], n)
PardonOf(m) == Visit("pardon", m, [torrent |-> t1], 1)

Tokens == {[id |-> 1, who |-> ann, kind |-> "freeleech"], [id |-> 2, who |-> ann, kind |-> "upload2x"]}

Fresh  == [m \in Member |-> [t \in Torrent |-> NoRow]]
Ran(d) == [NoRow EXCEPT !.down = d]
Ranners == ann :> (t1 :> Ran(1) @@ t2 :> Ran(1)) @@ bob :> (t1 :> NoRow @@ t2 :> NoRow)

Row4(p, f, n, s) == [plan |-> p, faults |-> f, ticks |-> n, stats |-> s, windows |-> {}]
Open(row) == [row EXCEPT !.windows = {[from |-> 0, to |-> 2]}]

Cases == {
    Row4(Four(Claim(i1), Webhook(i1), Webhook(i1), Idle), 1, 2, Fresh),
    Row4(Four(Webhook(i1), Webhook(i2), Idle, Idle), 1, 3, Fresh),
    Row4(Four(Webhook(i1), Timer(web), Client(ann, t1, h1, p1, {All}, 2), Idle), 0, 1, Fresh),
    Open(Row4(Four(Timer(web), Client(ann, t1, h1, p1, {All}, 2), Idle, Idle), 0, 2, Fresh)),
    Row4(Four(Spend(ann, t1), Spend(ann, t2), Timer(api), Idle), 1, 1, Fresh),
    Row4(Four(Spend(ann, t1), Timer(web), Timer(api), Idle), 0, 1, Fresh),
    Row4(Four(Spend(ann, t1), Timer(web), Client(ann, t1, h1, p1, {All}, 2), Idle), 0, 1, Fresh),
    Row4(Four(Double(ann, t1), Client(ann, t1, h1, p1, {Both}, 2), Idle, Idle), 0, 1, Fresh),
    Row4(Four(Client(ann, t1, h1, p1, {Both, Stop}, 4), Idle, Idle, Idle), 1, 2, Fresh),
    Row4(Four(Client(ann, t1, h1, p1, {Both}, 2), Client(ann, t1, h2, p2, {Some}, 2), Idle, Idle), 0, 1, Fresh),
    Row4(Four(Client(ann, t1, h1, p1, {Stop}, 2), Client(ann, t1, h2, p2, {Both}, 1), Clear(ann, t1), Idle), 0, 1, Fresh),
    Row4(Four(Client(ann, t1, h1, p1, {Stop}, 2), Client(bob, t1, h2, p1, {Stop}, 1), Clear(ann, t1), Idle), 1, 0, Fresh),
    Row4(Four(Sweep(2), Client(ann, t1, h1, p1, {Some}, 1), Idle, Idle), 0, 2, Ranners),
    Row4(Four(Sweep(2), Spend(ann, t1), Idle, Idle), 0, 2, Ranners),
    Row4(Four(Sweep(3), PardonOf(ann), Idle, Idle), 1, 3, Ranners) }

Case(p) == CHOOSE c \in Cases : c.plan = p
AllPlans == {c.plan : c \in Cases}
FaultsOf == [p \in AllPlans |-> Case(p).faults]
TicksOf  == [p \in AllPlans |-> Case(p).ticks]
WindowsOf == [p \in AllPlans |-> Case(p).windows]
StatsOf  == [p \in AllPlans |-> Case(p).stats]
=============================================================================
