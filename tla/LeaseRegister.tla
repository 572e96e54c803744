---------------------------- MODULE LeaseRegister ----------------------------
(***************************************************************************)
(* What the run lease promises to everything that writes under it: at any  *)
(* time at most one identity is held, and an identity that was given up or *)
(* superseded is spent: it is never held again.  RunLease implements this  *)
(* register; the modules that model writers build on it.                   *)
(***************************************************************************)
CONSTANTS Identity, Nobody

ASSUME NobodyAssumption == Nobody \notin Identity

VARIABLES
    held,   \* the identity that may write, or Nobody
    spent   \* the identities that once were held

RegisterInit ==
    /\ held = Nobody
    /\ spent = {}

Grant ==
    /\ held = Nobody
    /\ held' \in Identity
    /\ held' \notin spent
    /\ UNCHANGED spent

Supersede ==
    /\ held # Nobody
    /\ held' \in Identity
    /\ held' \notin spent \cup {held}
    /\ spent' = spent \cup {held}

Drop ==
    /\ held # Nobody
    /\ held' = Nobody
    /\ spent' = spent \cup {held}

RegisterNext == Grant \/ Supersede \/ Drop

RegisterSpec == RegisterInit /\ [][RegisterNext]_<<held, spent>>
=============================================================================
