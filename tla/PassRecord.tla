------------------------------ MODULE PassRecord ------------------------------
(***************************************************************************)
(* What the status of a run promises to whoever reads it: every cycle ends *)
(* in one result.  A pass is claimed first and then either confirmed or    *)
(* withdrawn, once; a confirmed pass and a failure stand until the next    *)
(* cycle opens the run again, and nothing of one cycle carries over to it. *)
(***************************************************************************)
EXTENDS Naturals

VARIABLES
    last,   \* how many cycles were started
    state   \* of the last one: "open", "failed", "claimed" or "confirmed"

RecordInit == last = 0 /\ state = "open"

Reopen == last' = last + 1 /\ state' = "open"

Conclude ==
    /\ last > 0 /\ state = "open"
    /\ state' \in {"failed", "claimed"}
    /\ UNCHANGED last

Settle ==
    /\ state = "claimed"
    /\ state' \in {"failed", "confirmed"}
    /\ UNCHANGED last

RecordSpec == RecordInit /\ [][Reopen \/ Conclude \/ Settle]_<<last, state>>
=============================================================================
