----------------------------- MODULE AtomicSale -----------------------------
(***************************************************************************)
(* What the shop promises: a purchase happens in one step or not at all.    *)
(* Selling takes a unit off the shelf, the price off the buyer and hands    *)
(* the reward over together; a refusal changes nothing.  Only a purchase    *)
(* that a fault tore apart may end in between.  Between purchases the       *)
(* operator sets the shelf.                                                 *)
(***************************************************************************)
EXTENDS Integers

CONSTANTS
    Id           \* purchases and edits of the catalogue

VARIABLES
    role,        \* which of them are purchases ("buy") and edits ("edit")
    shelf,       \* units to sell; negative when unlimited
    sale         \* how each stands, and what was paid for it

Open   == [state |-> "open", paid |-> 0]

Taken1 == IF shelf > 0 THEN shelf - 1 ELSE shelf

Init ==
    /\ role \in [Id -> {"buy", "edit", "none"}]
    /\ shelf \in Int
    /\ sale = [r \in Id |-> Open]

(* r ends in this state; what was paid for it, sale'[r].paid, is up to the  *)
(* action.                                                                  *)
Ends(r, kind, state) ==
    /\ role[r] = kind
    /\ sale[r] = Open
    /\ sale' = [sale EXCEPT ![r] = [state |-> state, paid |-> sale'[r].paid]]

Sell(r) ==
    /\ shelf # 0
    /\ Ends(r, "buy", "sold")
    /\ sale'[r].paid \in Nat \ {0}
    /\ shelf' = Taken1

Refuse(r) ==
    /\ Ends(r, "buy", "refused")
    /\ sale'[r].paid = 0
    /\ UNCHANGED shelf

Lose(r) ==
    /\ Ends(r, "buy", "lost")
    /\ sale'[r].paid \in Nat
    /\ shelf' \in {shelf, Taken1}

Stock(r) ==
    /\ Ends(r, "edit", "saved")
    /\ sale'[r].paid = 0
    /\ shelf' \in Int

Next ==
    /\ \E r \in Id : Sell(r) \/ Refuse(r) \/ Lose(r) \/ Stock(r)
    /\ UNCHANGED role

Spec == Init /\ [][Next]_<<role, shelf, sale>>
=============================================================================
