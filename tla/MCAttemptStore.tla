--------------------------- MODULE MCAttemptStore ---------------------------
(***************************************************************************)
(* Instances of AttemptStore: identities that hold the lease in turn, and  *)
(* enough attempts for each to be overtaken and to start again.            *)
(***************************************************************************)
EXTENDS AttemptStore, TLC

CONSTANTS a, b, c

MCIdentity == {a, b, c}
Identities == Permutations(MCIdentity)
=============================================================================
