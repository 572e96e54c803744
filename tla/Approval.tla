------------------------------ MODULE Approval ------------------------------
(***************************************************************************)
(* What human control promises of one set of high-risk actions: it is      *)
(* asked for, decided once, the approval is used once and redeemed once,   *)
(* and only when it was redeemed is it used for a dispatch, once.          *)
(***************************************************************************)
EXTENDS Naturals

CONSTANT Intent         \* the sets of actions an approval can be bound to

VARIABLES
    stage,              \* how far each intent has come
    dispatches          \* how often each was dispatched under its approval

Stage == {"none", "requested", "approved", "rejected", "consumed", "redeemed"}

ApprovalInit ==
    /\ stage = [i \in Intent |-> "none"]
    /\ dispatches = [i \in Intent |-> 0]

Move(i, from, to) ==
    /\ stage[i] = from
    /\ stage' = [stage EXCEPT ![i] = to]
    /\ UNCHANGED dispatches

Request(i) == Move(i, "none", "requested")
Decide(i) == Move(i, "requested", "approved") \/ Move(i, "requested", "rejected")
Consume(i) == Move(i, "approved", "consumed")
Redeem(i) == Move(i, "consumed", "redeemed")

Dispatch(i) ==
    /\ stage[i] = "redeemed"
    /\ dispatches[i] = 0
    /\ dispatches' = [dispatches EXCEPT ![i] = 1]
    /\ UNCHANGED stage

ApprovalNext ==
    \E i \in Intent :
        Request(i) \/ Decide(i) \/ Consume(i) \/ Redeem(i) \/ Dispatch(i)

ApprovalSpec == ApprovalInit /\ [][ApprovalNext]_<<stage, dispatches>>
=============================================================================
