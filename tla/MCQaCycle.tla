----------------------------- MODULE MCQaCycle -----------------------------
(* QaCycle for TLC.  Two cycles, so that files of one are found by the     *)
(* next and a verifier may straddle both; two versions of each input.      *)
EXTENDS QaCycle
=============================================================================
