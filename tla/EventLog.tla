------------------------------ MODULE EventLog ------------------------------
(***************************************************************************)
(* What the event log promises to whoever relies on it: it only grows, one *)
(* whole event at a time, each numbered by its place and written by who    *)
(* holds the lease or had it taken over.  An append that returns has been  *)
(* projected; one that never returns may or may not have written its event.*)
(***************************************************************************)
EXTENDS LeaseRegister, Naturals, Sequences

CONSTANT Kind

VARIABLES
    overtaken,  \* the identities whose lease was taken over
    log,        \* the events
    projected,  \* how many of them run-state.json has seen
    known       \* what each identity knows to be written: its last event

eventVars == <<held, spent, overtaken, log, projected, known>>

LogInit ==
    /\ RegisterInit /\ overtaken = {}
    /\ log = <<>> /\ projected = 0
    /\ known = [w \in Identity |-> 0]

MayWrite(w) == w \in {held} \cup overtaken

Write(w, kind) ==
    /\ MayWrite(w)
    /\ log' = Append(log, [seq |-> Len(log) + 1, kind |-> kind, by |-> w])
    /\ UNCHANGED <<held, spent, overtaken, projected, known>>

Return(w) ==
    /\ Len(log) > 0
    /\ log[Len(log)].by = w
    /\ projected' = Len(log)
    /\ known' = [known EXCEPT ![w] = Len(log)]
    /\ UNCHANGED <<held, spent, overtaken, log>>

LeaseMoves ==
    /\ \/ (Grant \/ Drop) /\ UNCHANGED overtaken
       \/ Supersede /\ overtaken' = overtaken \cup {held}
    /\ UNCHANGED <<log, projected, known>>

LogNext ==
    \/ \E w \in Identity : (\E kind \in Kind : Write(w, kind)) \/ Return(w)
    \/ LeaseMoves

LogSpec == LogInit /\ [][LogNext]_eventVars
=============================================================================
