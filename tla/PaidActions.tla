---------------------------- MODULE PaidActions ----------------------------
(***************************************************************************)
(* Three handlers that take points and then write one row: the medal shop   *)
(* (medals/views.go), casting magic on a torrent (magic/views.go) and       *)
(* boosting a request (requests/handlers.go).  Each refunds when its write  *)
(* fails; they differ in what they check first and in what they let fail.   *)
(***************************************************************************)
EXTENDS Points

CONSTANTS
    MedalPrice,  \* price of the medal on sale
    CastCost,    \* magic level (0 or 1) -> price of the cast
    LevelXP,     \* experience at which level 1 begins
    BoostCost    \* points of one boost

ASSUME PaidActionsAssumption ==
    /\ {MedalPrice, LevelXP, BoostCost} \subseteq Nat \ {0}
    /\ CastCost \in [0..1 -> Nat \ {0}]

VARIABLES
    medal,       \* members who own the medal
    casts,       \* ghost: casts that are live
    xp,          \* member -> magic experience
    boosts       \* ghost: boosts that were counted

paidVars == <<medal, casts, xp, boosts>>

PaidActionsInit ==
    /\ medal = {} /\ casts = {} /\ boosts = {}
    /\ xp = [m \in Member |-> 0]

Placed(r, pc) == call' = [call EXCEPT ![r].pc = pc, ![r].hand = 0]

(* actionBuy: the medal's price and whether the member owns it are read     *)
(* first; a failing read of the latter lets the purchase go on.             *)
MedalRead(r) ==
    /\ At(r, "medal", "start")
    /\ \/ Who(r) \in medal /\ NoFault /\ Goto(r, "refused")
       \/ /\ \/ Who(r) \notin medal /\ NoFault
             \/ Fault
          /\ Goto(r, "priced")
    /\ UNCHANGED <<balance, paidVars>>

MedalDeduct(r) ==
    /\ At(r, "medal", "priced")
    /\ Deduct(r, MedalPrice, "charged", "refused")
    /\ UNCHANGED paidVars

(* Grant: a repeat is the same nothing (ON CONFLICT DO NOTHING).            *)
MedalGrant(r) ==
    /\ At(r, "medal", "charged")
    /\ \/ medal' = medal \cup {Who(r)} /\ Placed(r, "done") /\ NoFault
       \/ Fault /\ Goto(r, "refund") /\ UNCHANGED medal
    /\ UNCHANGED <<balance, casts, xp, boosts>>

Level(m) == IF xp[m] >= LevelXP THEN 1 ELSE 0

Priced(r, level) == call' = [call EXCEPT ![r].pc = "priced", ![r].amt = CastCost[level]]

(* actionCast: the level read here sets the price of the whole cast.  The   *)
(* error of XP() is dropped: a failing read is level 0.                     *)
CastRead(r) ==
    /\ At(r, "cast", "start")
    /\ \/ NoFault /\ Priced(r, Level(Who(r)))
       \/ Fault /\ Priced(r, 0)
    /\ UNCHANGED <<balance, paidVars>>

CastDeduct(r) ==
    /\ At(r, "cast", "priced")
    /\ Deduct(r, Amt(r), "charged", "refused")
    /\ UNCHANGED paidVars

CastWrite(r) ==
    /\ At(r, "cast", "charged")
    /\ \/ casts' = casts \cup {r} /\ Placed(r, "cast") /\ NoFault
       \/ Fault /\ Goto(r, "refund") /\ UNCHANGED casts
    /\ UNCHANGED <<balance, medal, xp, boosts>>

(* AddXP: one upsert that adds; when it fails the cast stands.              *)
AddXP(r) ==
    /\ At(r, "cast", "cast")
    /\ \/ xp' = [xp EXCEPT ![Who(r)] = @ + Amt(r)] /\ NoFault
       \/ Fault /\ UNCHANGED xp
    /\ Goto(r, "done")
    /\ UNCHANGED <<balance, medal, casts, boosts>>

(* BoostRequest: deduct, count the boost, raise the priority.  A failed     *)
(* priority keeps the boost.                                                *)
BoostDeduct(r) ==
    /\ At(r, "boost", "start")
    /\ Deduct(r, BoostCost, "charged", "refused")
    /\ UNCHANGED paidVars

BoostWrite(r) ==
    /\ At(r, "boost", "charged")
    /\ \/ boosts' = boosts \cup {r} /\ Placed(r, "boosted") /\ NoFault
       \/ Fault /\ Goto(r, "refund") /\ UNCHANGED boosts
    /\ UNCHANGED <<balance, medal, casts, xp>>

BoostPriority(r) ==
    /\ At(r, "boost", "boosted")
    /\ Goto(r, "done")
    /\ (NoFault \/ Fault)
    /\ UNCHANGED <<balance, paidVars>>

PaidOps == {"medal", "cast", "boost"}

PaidRefund(r) ==
    /\ call[r].op \in PaidOps /\ call[r].pc = "refund"
    /\ Refund(r, "refused")
    /\ UNCHANGED paidVars

PaidDie(r) ==
    /\ call[r].op \in PaidOps
    /\ Die(r)
    /\ UNCHANGED paidVars

PaidActionsNext == \E r \in Req :
    \/ MedalRead(r) \/ MedalDeduct(r) \/ MedalGrant(r)
    \/ CastRead(r) \/ CastDeduct(r) \/ CastWrite(r) \/ AddXP(r)
    \/ BoostDeduct(r) \/ BoostWrite(r) \/ BoostPriority(r)
    \/ PaidRefund(r) \/ PaidDie(r)
=============================================================================
