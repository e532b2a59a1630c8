----------------------------- MODULE PointStore -----------------------------
(***************************************************************************)
(* The point shop (store/handlers.go, store/store_pg.go): one item of the   *)
(* catalogue, the purchases of it in flight, and the operator's edits.  A   *)
(* purchase is priced, claims a unit, takes the points and grants, and      *)
(* unwinds the steps behind it when a later one fails.                      *)
(***************************************************************************)
EXTENDS Points

CONSTANTS
    InitStock,   \* units on sale at the start: a choice, negative is unlimited
    InitCost     \* points_cost at the start

(* What an operator may put into a column: validateItem wants a price.      *)
Column == [stock |-> Int, active |-> BOOLEAN, cost |-> Nat \ {0}]

ASSUME StoreAssumption ==
    /\ InitStock \subseteq Int /\ InitCost \in Nat \ {0}
    /\ \A p \in Plans : \A r \in Req : p[r].op = "edit" =>
          \A c \in DOMAIN p[r].arg : c \in DOMAIN Column /\ p[r].arg[c] \in Column[c]

VARIABLES
    item,        \* the row: stock, active, points_cost; Gone when deleted
    unit,        \* ghost: purchases that hold a claimed unit or were granted one
    granted      \* ghost: purchases whose reward was handed over

storeVars == <<item, unit, granted>>

Gone == [stock |-> 0, active |-> FALSE, cost |-> 0]

StoreInit ==
    /\ \E s \in InitStock : item = [stock |-> s, active |-> TRUE, cost |-> InitCost]
    /\ unit = {}
    /\ granted = {}

(* BuyItem: the item as it is now prices the whole purchase.                *)
BuyRead(r) ==
    /\ At(r, "buy", "start")
    /\ IF item.active
       THEN call' = [call EXCEPT ![r].pc = "priced", ![r].amt = item.cost]
       ELSE Goto(r, "refused")
    /\ UNCHANGED <<balance, faults, storeVars>>

\* Mutant: any row with a claim left to make matches, sold out or not.
ClaimableAlways == item # Gone
(* The guard of ClaimStock's UPDATE: a deleted row matches nothing.         *)
Claimable == item.stock # 0

(* ClaimStock takes one unit in one statement.                              *)
ClaimStock(r) ==
    /\ At(r, "buy", "priced")
    /\ \/ /\ Claimable
          /\ item' = [item EXCEPT !.stock = @ - 1]
          /\ unit' = unit \cup {r}
          /\ Goto(r, "claimed")
          /\ NoFault
       \/ /\ \/ ~Claimable /\ NoFault
             \/ Fault
          /\ Goto(r, "refused")
          /\ UNCHANGED <<item, unit>>
    /\ UNCHANGED <<balance, granted>>

BuyDeduct(r) ==
    /\ At(r, "buy", "claimed")
    /\ Deduct(r, Amt(r), "charged", "unclaim")
    /\ UNCHANGED storeVars

(* grantReward: the granter of the item's type hands over, or refuses, or   *)
(* fails.                                                                   *)
Grant(r) ==
    /\ At(r, "buy", "charged")
    /\ \/ /\ granted' = granted \cup {r}
          /\ call' = [call EXCEPT ![r].pc = "granted", ![r].hand = 0]
       \/ /\ Goto(r, "refund")
          /\ UNCHANGED granted
    /\ UNCHANGED <<balance, faults, item, unit>>

\* Mutant: a failed grant restores the unit and forgets the points.
BuyRefundForgotten(r) ==
    /\ At(r, "buy", "refund")
    /\ Goto(r, "unclaim")
    /\ UNCHANGED <<balance, faults, storeVars>>
BuyRefund(r) ==
    /\ At(r, "buy", "refund")
    /\ Refund(r, "unclaim")
    /\ UNCHANGED storeVars

(* RestoreStock: unlimited items (stock < 0) are left alone.                *)
Restored == IF item.stock >= 0 /\ item # Gone
            THEN [item EXCEPT !.stock = @ + 1] ELSE item

(* The unit goes back to the shelf, unless the item has gone meanwhile.     *)
RestoreStock(r) ==
    /\ At(r, "buy", "unclaim")
    /\ \/ /\ item' = Restored
          /\ unit' = IF item = Gone THEN unit ELSE unit \ {r}
          /\ Goto(r, "refused")
          /\ NoFault
       \/ /\ Fault
          /\ call' = [call EXCEPT ![r].pc = "refused", ![r].owed = TRUE]
          /\ UNCHANGED <<item, unit>>
    /\ UNCHANGED <<balance, granted>>

(* RecordPurchase: the sale stands whether its row lands or not.            *)
RecordPurchase(r) ==
    /\ At(r, "buy", "granted")
    /\ Goto(r, "done")
    /\ (NoFault \/ Fault)
    /\ UNCHANGED <<balance, storeVars>>

(* AdminStorePage, then UpdateItem or DeleteItem: the form carries every    *)
(* column as it was when the page was opened, but for what the operator     *)
(* changed (arg).                                                           *)
EditOpen(r) ==
    /\ At(r, "edit", "start")
    /\ item # Gone
    /\ call' = [call EXCEPT ![r].pc = "form",
                            ![r].arg = [c \in DOMAIN item |->
                               IF c \in DOMAIN @ THEN @[c] ELSE item[c]]]
    /\ UNCHANGED <<balance, faults, storeVars>>

EditSave(r) ==
    /\ At(r, "edit", "form")
    /\ item' = IF item = Gone THEN Gone ELSE call[r].arg
    /\ Goto(r, "done")
    /\ UNCHANGED <<balance, faults, unit, granted>>

DeleteItem(r) ==
    /\ At(r, "delete", "start")
    /\ item' = Gone
    /\ Goto(r, "done")
    /\ UNCHANGED <<balance, faults, unit, granted>>

StoreDie(r) ==
    /\ call[r].op = "buy"
    /\ Die(r)
    /\ UNCHANGED storeVars

StoreNext == \E r \in Req :
    \/ BuyRead(r) \/ ClaimStock(r) \/ BuyDeduct(r) \/ Grant(r)
    \/ BuyRefund(r) \/ RestoreStock(r) \/ RecordPurchase(r)
    \/ EditOpen(r) \/ EditSave(r) \/ DeleteItem(r) \/ StoreDie(r)

---------------------------------------------------------------------------
(* The refinement mapping to AtomicSale.  A unit on the shelf is one that   *)
(* no purchase was granted: one a purchase has claimed and may give back    *)
(* still counts.  A purchase counts as open until it was granted, refused   *)
(* with nothing of the buyer's or of the shelf's kept, or torn by a fault.  *)
RoleOf(r) == CASE call[r].op = "buy" -> "buy"
               [] call[r].op \in {"edit", "delete"} -> "edit"
               [] OTHER -> "none"

InFlight == {r \in unit \ granted : call[r].pc \notin Ended}

Shelf == IF item.stock < 0 THEN -1 ELSE item.stock + Cardinality(InFlight)

Torn(r) == call[r].pc = "dead" \/ call[r].owed \/ r \in unit

(* How a purchase that was not granted stands.                              *)
Ungranted(r) ==
    IF call[r].pc \notin Ended THEN [state |-> "open", paid |-> 0]
    ELSE [state |-> IF Torn(r) THEN "lost" ELSE "refused", paid |-> call[r].hand]

SaleOf(r) ==
    CASE RoleOf(r) = "buy"  -> IF r \in granted THEN [state |-> "sold", paid |-> Amt(r)]
                               ELSE Ungranted(r)
      [] RoleOf(r) = "edit" -> [state |-> IF call[r].pc = "done" THEN "saved" ELSE "open",
                                paid  |-> 0]
      [] OTHER              -> [state |-> "open", paid |-> 0]

Roles     == [r \in Req |-> RoleOf(r)]
SaleState == [r \in Req |-> SaleOf(r)]

Sale == INSTANCE AtomicSale WITH
    Id <- Req, role <- Roles, shelf <- Shelf, sale <- SaleState
=============================================================================
