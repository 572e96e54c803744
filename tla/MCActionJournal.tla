-------------------------- MODULE MCActionJournal --------------------------
(* ActionJournal for TLC.  A plan that removes what an earlier run left and *)
(* then creates something.                                                 *)
EXTENDS ActionJournal

MCIdempotent == {1}
MCCleanup == {1}
=============================================================================
