----------------------------- MODULE RunStateLog -----------------------------
(***************************************************************************)
(* The event log of a run and its projection (qa_core/state/store.py), as  *)
(* cycles write them through qa_core/runtime/state_coordinator.py.         *)
(*                                                                         *)
(* A cycle writes under the identity of a lease, which LeaseRegister hands *)
(* out; a loop's cycles use the loop's identity one after the other, so an *)
(* identity stands for the cycle that is running under it.  An append is   *)
(* several steps: the heartbeat, an unlocked read, and then, under the     *)
(* flock of the log file, the line and after it the projection.  The lease *)
(* can be lost after the heartbeat, and the process can stop anywhere.     *)
(*                                                                         *)
(* An event keeps its sequence, its kind and its writer.  Its hashes are   *)
(* left out: a chain whose sequences are right was appended in order.      *)
(***************************************************************************)
EXTENDS LeaseRegister, Naturals, Sequences

CONSTANTS
    MaxEvents      \* bound: the length of the log

ASSUME LogAssumption == MaxEvents \in Nat

VARIABLES
    overtaken,  \* history: the identities whose lease was taken over
    log,        \* the complete lines of run-events.jsonl
    whole,      \* whether the file ends with a newline
    projected,  \* the sequence in run-state.json, 0 before there is one
    guard,      \* who holds the flock of the log, or Nobody
    pc,         \* where the cycle of each identity is
    job,        \* the kind of the event it is appending
    next,       \* the sequence it gave that event
    known,      \* coordinator.state.sequence: the last event it appended
    verdict     \* what finish made of qa-verdict.json

logVars == <<log, whole, projected, guard, pc, job, next, known, verdict>>
vars == <<held, spent, overtaken, log, whole, projected, guard, pc, job, next,
          known, verdict>>

\* The kinds of events; "note" stands for a phase, a budget and a version
\* record, which no property tells apart.
Opening == {"created", "versions", "running", "budget"}
Ending == {"final", "evidence", "passed", "nonpass"}
Kind == Opening \cup Ending \cup {"note", "revoked"}
Status == {"running", "passed", "nonpass", "revoked"}
Place == {"out", "load", "beat", "read", "lock", "write", "project", "work",
          "finished"}
\* What finish finds: no verdict, one that is no pass, a current committed pass.
Verdict == {"missing", "nonpass", "passed"}

Event == [seq : Nat, kind : Kind, by : Identity]

TypeOK ==
    /\ held \in Identity \cup {Nobody}
    /\ spent \subseteq Identity /\ overtaken \subseteq Identity
    /\ log \in Seq(Event)
    /\ whole \in BOOLEAN
    /\ projected \in Nat
    /\ guard \in Identity \cup {Nobody}
    /\ pc \in [Identity -> Place]
    /\ job \in [Identity -> Kind]
    /\ next \in [Identity -> Nat]
    /\ known \in [Identity -> Nat]
    /\ verdict \in [Identity -> Verdict]

Init ==
    /\ RegisterInit /\ overtaken = {}
    /\ log = <<>>
    /\ whole = TRUE
    /\ projected = 0
    /\ guard = Nobody
    /\ pc = [w \in Identity |-> "out"]
    /\ job = [w \in Identity |-> "note"]
    /\ next = [w \in Identity |-> 0]
    /\ known = [w \in Identity |-> 0]
    /\ verdict = [w \in Identity |-> "missing"]

Goto(w, place) == pc' = [pc EXCEPT ![w] = place]
Appending(w, kind) ==
    /\ job' = [job EXCEPT ![w] = kind]
    /\ Goto(w, "beat")

\* _validate_chain: a log with a torn or misnumbered line raises wherever it is
\* parsed, by readers and by writers.
Readable == whole /\ \A i \in DOMAIN log : log[i].seq = i

-----------------------------------------------------------------------------
(* RunStateCoordinator.open.                                               *)

\* The heartbeat passed; a rejected one raises before anything is read.
OpenCycle(w) ==
    /\ pc[w] = "out"
    /\ held = w
    /\ Goto(w, "load")
    /\ UNCHANGED <<held, spent, overtaken, log, whole, projected, guard, job,
                   next, known, verdict>>

\* initialize appends at once; a run that exists is revoked event by event.
LoadEvents(w) ==
    /\ pc[w] = "load"
    /\ Readable
    /\ \/ /\ log = <<>>
          /\ job' = [job EXCEPT ![w] = "created"]
          /\ Goto(w, "lock")
       \/ /\ log # <<>>
          /\ Appending(w, "versions")
    /\ UNCHANGED <<held, spent, overtaken, log, whole, projected, guard, next,
                   known, verdict>>

-----------------------------------------------------------------------------
(* RunStateCoordinator._append and RunStateStore.append.                   *)

Beat(w) ==
    /\ pc[w] = "beat"
    /\ held = w
    /\ Goto(w, "read")
    /\ UNCHANGED <<held, spent, overtaken, log, whole, projected, guard, job,
                   next, known, verdict>>

\* Without the flock: the reader may see another writer's line half written.
ReadBeforeAppend(w) ==
    /\ pc[w] = "read"
    /\ Readable
    /\ log # <<>>
    /\ Goto(w, "lock")
    /\ UNCHANGED <<held, spent, overtaken, log, whole, projected, guard, job,
                   next, known, verdict>>

StartLine(w, mayStart) ==
    /\ pc[w] = "lock"
    /\ mayStart
    /\ Len(log) < MaxEvents
    /\ guard' = w
    /\ whole' = FALSE
    /\ next' = [next EXCEPT ![w] = Len(log) + 1]
    /\ Goto(w, "write")
    /\ UNCHANGED <<held, spent, overtaken, log, projected, job, known, verdict>>

\* Fault: the flock is not taken, so another writer's line may be on its way.
UnlockedWriteLine(w) ==
    StartLine(w, job[w] = "created" <=> log = <<>>)

\* Fault: a torn tail is not looked for.
TrustingWriteLine(w) ==
    StartLine(w, guard = Nobody /\ (job[w] = "created" <=> log = <<>>))

\* With the flock the log is read again, the event is numbered, the projection
\* is computed, and the line begins to reach the file.
WriteLine(w) ==
    StartLine(w, guard = Nobody /\ Readable /\ (job[w] = "created" <=> log = <<>>))

\* The line is complete and synced.
SyncLine(w) ==
    /\ pc[w] = "write"
    /\ log' = Append(log, [seq |-> next[w], kind |-> job[w], by |-> w])
    /\ whole' = TRUE
    /\ Goto(w, "project")
    /\ UNCHANGED <<held, spent, overtaken, projected, guard, job, next, known,
                   verdict>>

ContinueOpening(w, revoking) ==
    \/ job[w] = "created" /\ Appending(w, "versions") /\ UNCHANGED verdict
    \/ job[w] = "versions" /\ Appending(w, revoking) /\ UNCHANGED verdict
    \/ job[w] = "running" /\ Appending(w, "budget") /\ UNCHANGED verdict
    \/ /\ job[w] \in {"budget", "note"}
       /\ Goto(w, "work")
       /\ UNCHANGED <<job, verdict>>

\* Fault: a verdict that cannot be read becomes the status itself.
VerbatimContinueFinish(w) ==
    /\ job[w] = "final"
    /\ \E v \in Verdict :
         /\ verdict' = [verdict EXCEPT ![w] = v]
         /\ Appending(w, IF v = "missing" THEN v ELSE "evidence")

\* finish reads the verdict after its budget event and publishes the status last.
ContinueFinish(w) ==
    \/ /\ job[w] = "final"
       /\ \E v \in Verdict :
            /\ verdict' = [verdict EXCEPT ![w] = v]
            /\ Appending(w, IF v = "missing" THEN "nonpass" ELSE "evidence")
    \/ /\ job[w] = "evidence"
       /\ Appending(w, IF verdict[w] = "passed" THEN "passed" ELSE "nonpass")
       /\ UNCHANGED verdict
    \/ /\ job[w] \in {"passed", "nonpass", "revoked"}
       /\ Goto(w, "finished")
       /\ UNCHANGED <<job, verdict>>

\* Fault: a run that is resumed is not set to running.
UnrevokedContinue(w) == ContinueOpening(w, "budget") \/ ContinueFinish(w)

\* What the coordinator does once an append has returned.
Continue(w) == ContinueOpening(w, "running") \/ ContinueFinish(w)

\* Fault: the flock is given up before the projection is replaced.
EarlyUnlockProject(w) ==
    \/ /\ pc[w] = "project"
       /\ guard = w
       /\ guard' = Nobody
       /\ UNCHANGED <<projected, known, pc, job, verdict>>
       /\ UNCHANGED <<held, spent, overtaken, log, whole, next>>
    \/ /\ pc[w] = "project"
       /\ guard # w
       /\ projected' = next[w]
       /\ known' = [known EXCEPT ![w] = next[w]]
       /\ Continue(w)
       /\ UNCHANGED <<held, spent, overtaken, log, whole, guard, next>>

\* run-state.json is replaced, the flock ends, and the append returns.
Project(w) ==
    /\ pc[w] = "project"
    /\ projected' = next[w]
    /\ guard' = Nobody
    /\ known' = [known EXCEPT ![w] = next[w]]
    /\ Continue(w)
    /\ UNCHANGED <<held, spent, overtaken, log, whole, next>>

-----------------------------------------------------------------------------
(* The cycle between appends.                                              *)

\* before_stage, update_budget and record_component_versions.
Note(w) ==
    /\ pc[w] = "work"
    /\ Appending(w, "note")
    /\ UNCHANGED <<held, spent, overtaken, log, whole, projected, guard, next,
                   known, verdict>>

Finish(w) ==
    /\ pc[w] = "work"
    /\ Appending(w, "final")
    /\ UNCHANGED <<held, spent, overtaken, log, whole, projected, guard, next,
                   known, verdict>>

\* The proof of a pass did not verify.
InvalidatePass(w) ==
    /\ pc[w] = "finished"
    /\ job[w] = "passed"
    /\ Appending(w, "revoked")
    /\ UNCHANGED <<held, spent, overtaken, log, whole, projected, guard, next,
                   known, verdict>>

\* The cycle is over, is killed, or an error unwinds it: a rejected heartbeat,
\* an unreadable log, a full disk.  The flock ends with its descriptor.
Stop(w) ==
    /\ pc[w] # "out"
    /\ Goto(w, "out")
    /\ guard' = IF guard = w THEN Nobody ELSE guard
    /\ UNCHANGED <<held, spent, overtaken, log, whole, projected, job, next,
                   known, verdict>>

-----------------------------------------------------------------------------
(* The lease.                                                              *)

LeaseGranted == Grant /\ UNCHANGED <<overtaken, logVars>>

\* An owner closes after its cycle; a lease whose owner was killed stays.
LeaseReleased == pc[held] = "out" /\ Drop /\ UNCHANGED <<overtaken, logVars>>

LeaseTakenOver ==
    Supersede /\ overtaken' = overtaken \cup {held} /\ UNCHANGED logVars

Step(w) ==
    \/ OpenCycle(w) \/ LoadEvents(w) \/ Beat(w) \/ ReadBeforeAppend(w)
    \/ WriteLine(w) \/ SyncLine(w) \/ Project(w) \/ Note(w) \/ Finish(w)
    \/ InvalidatePass(w)

Next ==
    \/ \E w \in Identity : Step(w) \/ Stop(w)
    \/ LeaseGranted
    \/ held # Nobody /\ LeaseReleased
    \/ LeaseTakenOver

Spec == Init /\ [][Next]_vars

-----------------------------------------------------------------------------
(* Properties.                                                             *)

\* The lines are numbered in the order they are in, whoever wrote them: two
\* writers that both passed their heartbeat never derive the same sequence from
\* the same tail, which would make the run unreadable for good.
ChainIntact == \A i \in DOMAIN log : log[i].seq = i

\* An append that returned is durable: its event is the writer's own, at the
\* sequence the coordinator goes on with, and run-state.json is not behind it
\* and not ahead of the log, whatever other writers did in between.
Acknowledged ==
    /\ projected <= Len(log)
    /\ \A w \in Identity : known[w] > 0 =>
        known[w] <= projected /\ log[known[w]].by = w

\* A line that was cut short is never written on, not even by a writer that had
\* read the log before: what follows it would be part of it, and an event would
\* be acknowledged that no reader ever finds.
TornLogFrozen ==
    [][~whole /\ guard = Nobody =>
         UNCHANGED <<log, whole, guard, projected>>]_vars

\* The last status in the log.
StatusIs(status) ==
    \E i \in DOMAIN log :
        /\ log[i].kind = status
        /\ \A j \in DOMAIN log : log[j].kind \in Status => j <= i

\* While a cycle is at work the run is not passed: the pass of an earlier cycle
\* was revoked before the first stage started.  That is as long as no lease was
\* taken over, which no program does.
EarlierPassRevoked ==
    overtaken = {} => \A w \in Identity : pc[w] = "work" => ~StatusIs("passed")

\* Torn lines, writers that were overtaken after their heartbeat and processes
\* that stop between the line and its projection do not show: what a reader finds
\* is a log of whole events, each numbered by its place and written by the holder
\* of the lease or by one that was overtaken, nothing in it is ever changed, and
\* what an append acknowledged stays.
Promise == INSTANCE EventLog

ImplementsLog == Promise!LogSpec

\* While no lease was taken over, at most one cycle is between the opening of the
\* run state and its end: its appends can be regarded as one step each.
LoneCycle ==
    overtaken = {} =>
        \A v, w \in Identity : pc[v] # "out" /\ pc[w] # "out" => v = w
=============================================================================
