--------------------------- MODULE MCRunStateLog ---------------------------
(***************************************************************************)
(* RunStateLog for two identities, which get the lease one after the other *)
(* or from under one another, each with one cycle after the other.         *)
(***************************************************************************)
EXTENDS RunStateLog, TLC

CONSTANTS a, b

MCIdentity == {a, b}
Identities == Permutations(MCIdentity)

\* Bound: the length of the log once a lease was taken over.  Before that the log
\* may grow to MaxEvents, so that a second cycle can work after one that passed:
\* the opening is four events, the pass the seventh and the next work comes after
\* the tenth.
MaxShared == 8

BoundedSpec ==
    Init /\ [][Next /\ (overtaken' = {} \/ Len(log') <= MaxShared)]_vars
=============================================================================
