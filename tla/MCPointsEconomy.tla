--------------------------- MODULE MCPointsEconomy ---------------------------
(* Small instances of PointsEconomy: which requests come in together.       *)
EXTENDS PointsEconomy, TLC

CONSTANTS ann, bob, cid, r1, r2, r3, r4, r5

Purses == ann :> 4 @@ bob :> 2 @@ cid :> 0
Poorer == ann :> <<bob, cid>> @@ bob :> <<cid>> @@ cid :> <<>>
Cheaper == 0 :> 2 @@ 1 :> 1
Growing == <<1, 2, 3, 3, 3>>

Of(op, m)      == Request(op, m, 1, 0)
With(op, m, n) == Request(op, m, 1, n)
Edit(columns)  == Request("edit", ann, columns, 0)
None           == Of("none", ann)

Five(v, w, x, y, z) == r1 :> v @@ r2 :> w @@ r3 :> x @@ r4 :> y @@ r5 :> z
Three(x, y, z)      == Five(x, y, z, None, None)

Shop == {
    Three(Of("buy", ann), Of("buy", bob), Of("buy", ann)),
    Three(Of("buy", ann), Of("buy", bob), Edit([stock |-> -1])),
    Three(Of("buy", ann), Of("buy", bob), Edit([stock |-> 2])),
    Three(Of("buy", ann), Of("buy", ann), Edit([cost |-> 3])),
    Three(Of("buy", ann), Of("buy", bob), Of("delete", ann)),
    Three(Of("buy", ann), Edit([stock |-> -1]), Edit([active |-> FALSE])) }

Paid == {
    Three(Of("medal", ann), Of("medal", ann), Of("cast", ann)),
    Three(Of("cast", ann), Of("cast", ann), Of("boost", bob)),
    Three(Of("boost", ann), Of("medal", bob), Of("medal", bob)) }

Joins == {
    Three(Of("apply", ann), Of("approve", cid), Of("deny", cid)),
    Three(Of("apply", ann), Of("apply", ann), Of("deny", cid)),
    Three(Of("apply", ann), Of("deny", cid), Of("deny", cid)),
    Three(Of("apply", ann), Of("redeem", ann), Of("approve", cid)),
    Three(Of("join", ann), Of("join", ann), Of("redeem", bob)),
    Three(Of("join", cid), Of("redeem", ann), Of("redeem", bob)) }

Offers == {
    Five(With("back", ann, 2), With("back", bob, 1), Of("claim", bob), Of("deliver", bob), Of("withdraw", ann)),
    Five(With("back", ann, 1), With("back", ann, 2), Of("claim", bob), Of("deliver", bob), Of("deliver", bob)),
    Five(With("back", ann, 1), Of("claim", bob), Of("fail", bob), Of("claim", cid), Of("deliver", cid)),
    Five(With("back", ann, 3), Of("withdraw", ann), Of("withdraw", ann), Of("claim", bob), Of("fail", bob)) }

Games == {
    Three(With("donate", ann, 2), With("donate", bob, 2), With("donate", ann, 1)),
    Three(With("donate", ann, 2), With("donate", ann, 2), With("donate", bob, 2)),
    Three(With("give", ann, 3), With("give", bob, 2), With("give", cid, 1)) }

Days == {
    Three(Of("daily", ann), Of("daily", ann), Of("daily", ann)),
    Three(Of("daily", bob), Of("daily", bob), Of("daily", ann)) }

Pays(n)  == [points |-> n, box |-> {}]
Draws(s) == [points |-> 0, box |-> s]
RewardRow(kind, expires, lines) == [delivery |-> kind, expires |-> expires, lines |-> lines]
Catalogue == "welcome" :> RewardRow("claim", TRUE, <<Pays(1), Pays(2)>>) @@ "perGrab" :> RewardRow("auto", FALSE, <<Pays(1)>>)
       @@ "crate" :> RewardRow("auto", TRUE, <<Draws({"ribbon", "welcome"})>>)
       @@ "ribbon" :> RewardRow("claim", FALSE, <<Pays(1)>>) @@ "badge" :> RewardRow("auto", FALSE, <<Pays(2)>>)
Seeded == ann :> 1 @@ bob :> 0 @@ cid :> 0

Give(slug, m) == Request("grant", m, slug, 0)
PerUnit(m) == Request("units", m, [slug |-> "perGrab", units |-> 0], 0)
Rewards == {
    Three(Give("welcome", ann), Of("collect", ann), Of("expire", ann)),
    Three(Give("crate", ann), Of("collect", ann), Of("expire", ann)),
    Three(Give("crate", bob), Give("crate", bob), Of("collect", bob)),
    Three(PerUnit(ann), None, None),
    Three(Of("post", ann), None, Of("score", ann)),
    Three(Of("post", bob), Of("post", bob), Of("score", ann)) }

TwoClaims == { Three(Give("welcome", ann), Of("collect", ann), Of("collect", ann)) }

Mixed == {
    Five(Of("buy", ann), With("donate", ann, 2), With("back", ann, 2), Of("apply", ann), Of("daily", ann)) }

Everything == Shop \cup Paid \cup Joins \cup Offers \cup Games \cup Days \cup Rewards \cup Mixed

FirstClaims == { Three(Of("daily", bob), Of("daily", bob), None) }
FaultsIn == [p \in Everything |-> IF p \in Rewards THEN 1 ELSE 2]
NoFaults == [p \in FirstClaims \cup TwoClaims |-> 0]
=============================================================================
