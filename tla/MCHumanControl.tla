--------------------------- MODULE MCHumanControl ---------------------------
(***************************************************************************)
(* Two invocations for one run that share its journal with the command     *)
(* line; the plan is one with high-risk actions or one without.            *)
(***************************************************************************)
EXTENDS HumanControl

CONSTANTS g1, g2, r1, p1, p2

MCGate == {g1, g2}
MCRunOf == [g \in MCGate |-> r1]
=============================================================================
