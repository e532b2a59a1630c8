--------------------------- MODULE CommunityJoins ---------------------------
(***************************************************************************)
(* Joining a community that costs points (communities/handlers.go, pg.go):  *)
(* an open one takes them, one that reviews applications holds them with    *)
(* the application until a moderator decides, an invite bypasses both.      *)
(***************************************************************************)
EXTENDS Points

CONSTANTS
    JoinCost,    \* join_points_cost
    InviteUses   \* max_uses of the invite in circulation

ASSUME JoinsAssumption ==
    /\ JoinCost \in Nat \ {0} /\ InviteUses \in Nat \ {0}
    /\ \A p \in Plans : \A r \in Req : p[r].op = "join" => p[r].amt = 0

VARIABLES
    subscribed,  \* members of the community
    application, \* request that filed it -> [status, held], community_join_requests
    inviteUsed   \* use_count of the invite

joinVars == <<subscribed, application, inviteUsed>>

NoApplication == [status |-> "none", held |-> 0]

JoinsInit ==
    /\ subscribed = {}
    /\ application = [r \in Req |-> NoApplication]
    /\ inviteUsed = 0

(* ToggleSubscribe reads the community with IsSubscribed: a member leaves.  *)
JoinRead(r) ==
    /\ call[r].op \in {"join", "apply"} /\ call[r].pc = "start"
    /\ IF Who(r) \in subscribed
       THEN subscribed' = subscribed \ {Who(r)} /\ Goto(r, "done")
       ELSE Goto(r, "gated") /\ UNCHANGED subscribed
    /\ UNCHANGED <<balance, faults, application, inviteUsed>>

JoinDeduct(r) ==
    /\ call[r].op \in {"join", "apply"} /\ call[r].pc = "gated"
    /\ Deduct(r, JoinCost, "charged", "refused")
    /\ UNCHANGED joinVars

(* An open community: the error of SubscribeCommunity is dropped.           *)
Subscribe(r) ==
    /\ At(r, "join", "charged")
    /\ \/ /\ subscribed' = subscribed \cup {Who(r)}
          /\ call' = [call EXCEPT ![r].pc = "done", ![r].hand = 0]
          /\ NoFault
       \/ Fault /\ Goto(r, "done") /\ UNCHANGED subscribed
    /\ UNCHANGED <<balance, application, inviteUsed>>

(* CreateJoinRequest: one pending application per member (unique index).    *)
Pending(m) == \E r \in Req : Who(r) = m /\ application[r].status = "pending"

CreateJoinRequest(r) ==
    /\ At(r, "apply", "charged")
    /\ \/ /\ ~Pending(Who(r)) /\ NoFault
          /\ application' = [application EXCEPT ![r] =
                               [status |-> "pending", held |-> call[r].hand]]
          /\ call' = [call EXCEPT ![r].pc = "done", ![r].hand = 0]
       \/ /\ \/ Pending(Who(r)) /\ NoFault
             \/ Fault
          /\ Goto(r, "refund")
          /\ UNCHANGED application
    /\ UNCHANGED <<balance, subscribed, inviteUsed>>

ApplyRefund(r) ==
    /\ At(r, "apply", "refund")
    /\ Refund(r, "refused")
    /\ UNCHANGED joinVars

\* Mutant: the decision does not look whether another was made.
UndecidedIgnored(a) == application[a].status # "none"
(* The guard of both decisions: WHERE status = 'pending'.                   *)
Undecided(a) == application[a].status = "pending"

(* ApproveJoinRequest, one transaction: the points are spent.               *)
Approve(r) ==
    /\ At(r, "approve", "start")
    /\ \E a \in Req :
          /\ application[a].status # "none"
          /\ IF Undecided(a)
             THEN /\ application' = [application EXCEPT ![a].status = "approved"]
                  /\ subscribed' = subscribed \cup {Who(a)}
             ELSE UNCHANGED <<application, subscribed>>
    /\ Goto(r, "done")
    /\ UNCHANGED <<balance, faults, inviteUsed>>

(* DenyJoinRequest returns the applicant and what was held; the refund      *)
(* follows in a step of its own.                                            *)
Deny(r) ==
    /\ At(r, "deny", "start")
    /\ \E a \in Req :
          /\ application[a].status # "none"
          /\ IF Undecided(a)
             THEN /\ application' = [application EXCEPT ![a].status = "denied"]
                  /\ call' = [call EXCEPT ![r].pc = "refund", ![r].who = Who(a),
                                          ![r].hand = application[a].held]
             ELSE Goto(r, "done") /\ UNCHANGED application
    /\ UNCHANGED <<balance, faults, subscribed, inviteUsed>>

DenyRefund(r) ==
    /\ At(r, "deny", "refund")
    /\ Refund(r, "done")
    /\ UNCHANGED joinVars

(* RedeemCommunityInvite: the use is counted and the member subscribed in   *)
(* one transaction; an application that is still pending stays so.          *)
Redeem(r) ==
    /\ At(r, "redeem", "start")
    /\ IF inviteUsed < InviteUses
       THEN /\ inviteUsed' = inviteUsed + 1
            /\ subscribed' = subscribed \cup {Who(r)}
            /\ Goto(r, "done")
       ELSE Goto(r, "refused") /\ UNCHANGED <<inviteUsed, subscribed>>
    /\ UNCHANGED <<balance, faults, application>>

JoinDie(r) ==
    /\ call[r].op \in {"join", "apply", "deny"}
    /\ Die(r)
    /\ UNCHANGED joinVars

JoinsNext == \E r \in Req :
    \/ JoinRead(r) \/ JoinDeduct(r) \/ Subscribe(r) \/ CreateJoinRequest(r)
    \/ ApplyRefund(r) \/ Approve(r) \/ Deny(r) \/ DenyRefund(r) \/ Redeem(r)
    \/ JoinDie(r)

(* Points held with applications.                                           *)
HeldByApplications ==
    SumFunction([a \in Req |-> IF application[a].status = "pending"
                                THEN application[a].held ELSE 0])
=============================================================================
