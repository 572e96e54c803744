----------------------------- MODULE MCRunLease -----------------------------
(***************************************************************************)
(* Instances of RunLease: one loop with two cycles of its own, and a cycle *)
(* started by hand beside them.                                            *)
(***************************************************************************)
EXTENDS RunLease

CONSTANTS loop, child1, child2, other

MCSession == {loop, child1, child2, other}
MCLoop == {loop}
MCParentOf ==
    [s \in MCSession |-> IF s \in {child1, child2} THEN loop ELSE NoSession]
MCCrashable == MCSession
=============================================================================
