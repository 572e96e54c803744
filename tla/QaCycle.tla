------------------------------- MODULE QaCycle -------------------------------
(***************************************************************************)
(* One QA cycle after another over one run directory: run_with_session of  *)
(* run_qa_cycle.py, from the opening of the run state to the exit code,    *)
(* and the proof verifier of qa_core/proof/verifier.py, which reads the    *)
(* same files without a lock while cycles run.                             *)
(*                                                                         *)
(* Cycles do not overlap, an event is appended whole, and an attempt is    *)
(* committed and published whole: RunLease, RunStateLog and AttemptStore   *)
(* are about those.  Here the requirement and the plan are edited at any   *)
(* time, every stage may fail, every write of the log may fail, and the    *)
(* process may be killed between any two steps.                            *)
(*                                                                         *)
(* The content of a file is the version or the cycle it comes from: equal  *)
(* hashes are equal values.  The checks inside one file are left out, and  *)
(* so are the candidate identity and the human authorization, which are    *)
(* optional.                                                               *)
(***************************************************************************)
EXTENDS Naturals

CONSTANTS
    MaxCycle,    \* bound: the cycles that are ever started
    MaxVersion,  \* the versions of the requirement, and of the plan
    MaxEdits     \* bound: the changes of the two

ASSUME CycleAssumption ==
    MaxCycle \in Nat /\ MaxVersion \in Nat \ {0} /\ MaxEdits \in Nat

VARIABLES
    requirement, plan,  \* requirement.md and qa-test-plan.json
    edits,       \* how often they were changed
    covered,     \* the requirement that requirement-coverage.json is about
    context,     \* agent-context.json: what it was compiled from
    probes,      \* action contracts, action journal and results
    verdict,     \* qa-verdict.json
    manifest,    \* run-manifest.json and the latest attempt it refers to
    log,         \* the last status event, and whether it is the last event
    bound,       \* the component versions of the state
    cycle,       \* how many cycles were started
    pc, outcome, skipped, started, cleaned, ref, committed,  \* the process
    exit,        \* its exit code, 0 or not
    services,    \* the cycle whose managed services still run, 0 if none
    reader,      \* a verifier: how far it is and what it has read
    spoiled,     \* history: the cycles that met a failure before finish
    proved       \* history: the cycles whose own verification succeeded

disk == <<covered, context, probes, manifest>>
process == <<outcome, skipped, started, cleaned, ref, committed>>
vars == <<requirement, plan, edits, disk, verdict, log, bound, cycle, pc,
          process, exit, services, reader, spoiled, proved>>

Context == [requirement : Nat, plan : Nat]
NoContext == [requirement |-> 0, plan |-> 0]
Probes == [cycle : Nat, context : Context]
NoProbes == [cycle |-> 0, context |-> NoContext]
Verdict == [cycle : Nat, pass : BOOLEAN]
NoVerdict == [cycle |-> 0, pass |-> FALSE]
Attempt == [cycle : Nat, stage : {"none", "cycle_complete", "cycle_handoff"},
            requirement : Nat, plan : Nat, context : Context, probes : Probes,
            verdict : Verdict]
NoAttempt == [cycle |-> 0, stage |-> "none", requirement |-> 0, plan |-> 0,
              context |-> NoContext, probes |-> NoProbes, verdict |-> NoVerdict]
Manifest == [seq : Nat, attempt : Attempt]
NoManifest == [seq |-> 0, attempt |-> NoAttempt]
Log == [status : {"none", "running", "passed", "nonpass"}, last : BOOLEAN,
        cycle : Nat, verdict : Verdict, seq : Nat]
NoLog == [status |-> "none", last |-> FALSE, cycle |-> 0,
          verdict |-> NoVerdict, seq |-> 0]
Bound == [context : Context, probes : Probes, trace : Nat]
NoBound == [context |-> NoContext, probes |-> NoProbes, trace |-> 0]
NotReading == [at |-> "out", log |-> NoLog, bound |-> NoBound,
               manifest |-> NoManifest]

Stages == {"prepare", "coverage", "preflight", "adapter", "planning", "probe",
           "conclusion", "report"}
Completion == {"cleanup", "check", "commit", "trace", "finish", "verify",
               "invalidate"}

TypeOK ==
    /\ requirement \in Nat /\ plan \in Nat /\ edits \in Nat /\ covered \in Nat
    /\ context \in Context /\ probes \in Probes /\ verdict \in Verdict
    /\ manifest \in Manifest /\ log \in Log /\ bound \in Bound
    /\ cycle \in Nat /\ pc \in Stages \cup Completion \cup {"finally", "idle"}
    /\ outcome \in {0, 1} /\ exit \in {0, 1}
    /\ skipped \in BOOLEAN /\ started \in BOOLEAN /\ cleaned \in BOOLEAN
    /\ committed \in BOOLEAN /\ ref \in Nat /\ services \in Nat
    /\ reader \in [at : {"out", "state", "manifest", "inputs", "verdict",
                         "context", "accepted"},
                   log : Log, bound : Bound, manifest : Manifest]
    /\ spoiled \subseteq Nat /\ proved \subseteq Nat

Init ==
    /\ requirement = 1 /\ plan = 1 /\ edits = 0 /\ covered = 0
    /\ context = NoContext /\ probes = NoProbes /\ verdict = NoVerdict
    /\ manifest = NoManifest /\ log = NoLog /\ bound = NoBound
    /\ cycle = 0 /\ pc = "idle" /\ outcome = 0 /\ exit = 1
    /\ skipped = FALSE /\ started = FALSE /\ cleaned = FALSE
    /\ ref = 0 /\ committed = FALSE /\ services = 0
    /\ reader = NotReading
    /\ spoiled = {} /\ proved = {}

-----------------------------------------------------------------------------
(* What the verifier compares, each reading with those before it.          *)

\* The log ends with a pass of the deterministic verdict.
Claims(l) == l.status = "passed" /\ l.last

\* The manifest is the one the pass refers to and ends in a complete cycle.
RefersTo(l, m) == m.seq = l.seq /\ m.attempt.stage = "cycle_complete"

\* The inputs are those of the attempt.
ParentsMatch(m) ==
    /\ m.attempt.requirement = requirement /\ m.attempt.plan = plan
    /\ m.attempt.context = context

\* The verdict is a pass, and so are those that the status event and the
\* attempt name by their hash; verdicts of two cycles may be the same text.
VerdictMatches(l, m) ==
    verdict.pass /\ l.verdict.pass /\ m.attempt.verdict.pass

\* Fault: the compiled context is not compared with its sources again.
UncheckedContextMatches(b, m) ==
    /\ context = b.context /\ context = m.attempt.context
    /\ probes.cycle > 0 /\ probes = b.probes /\ probes = m.attempt.probes
    /\ b.trace = m.attempt.cycle

\* The context would be compiled again as it is; it and the probes are those
\* the state names and the attempt holds; the trace ends with this attempt.
ContextMatches(b, m) ==
    /\ context = [requirement |-> requirement, plan |-> plan]
    /\ context = b.context /\ context = m.attempt.context
    /\ probes.cycle > 0 /\ probes = b.probes /\ probes = m.attempt.probes
    /\ b.trace = m.attempt.cycle

\* What a verifier that reads all files at one instant finds.
ProofCloses ==
    /\ Claims(log) /\ RefersTo(log, manifest) /\ ParentsMatch(manifest)
    /\ VerdictMatches(log, manifest)
    /\ ContextMatches(bound, manifest)

-----------------------------------------------------------------------------
(* The stages.                                                             *)

\* A change of the requirement or the plan, also back to an earlier version.
Changes == edits < MaxEdits /\ edits' = edits + 1

Goto(from, to) == pc = from /\ pc' = to
Handoff == [cycle |-> cycle, pass |-> FALSE]

\* Fault: a status that the last cycle published is left standing.
SilentOpen ==
    /\ Goto("idle", "prepare")
    /\ cycle < MaxCycle /\ cycle' = cycle + 1
    /\ log' = IF log.last THEN log ELSE [log EXCEPT !.status = "running"]
    /\ bound' = [bound EXCEPT !.trace = 0]
    /\ outcome' = 0 /\ skipped' = FALSE /\ started' = FALSE
    /\ cleaned' = FALSE /\ ref' = 0 /\ committed' = FALSE
    /\ UNCHANGED <<edits, requirement, plan, disk, verdict, exit, services,
                   reader, spoiled, proved>>

\* The coordinator opens: an earlier status is followed by new component
\* versions, a terminal one also by "running"; the trace journal grows.
Open ==
    /\ Goto("idle", "prepare")
    /\ cycle < MaxCycle /\ cycle' = cycle + 1
    /\ log' = [log EXCEPT !.status = "running", !.last = FALSE]
    /\ bound' = [bound EXCEPT !.trace = 0]
    /\ outcome' = 0 /\ skipped' = FALSE /\ started' = FALSE
    /\ cleaned' = FALSE /\ ref' = 0 /\ committed' = FALSE
    /\ UNCHANGED <<edits, requirement, plan, disk, verdict, exit, services,
                   reader, spoiled, proved>>

\* The verdict of an earlier cycle is removed.
Prepare ==
    /\ Goto("prepare", "coverage")
    /\ verdict' = NoVerdict
    /\ UNCHANGED <<edits, requirement, plan, disk, log, bound, cycle, process,
                   exit, services, reader, spoiled, proved>>

Coverage ==
    /\ Goto("coverage", "preflight")
    /\ covered' = requirement
    /\ UNCHANGED <<edits, requirement, plan, context, probes, manifest,
                   verdict, log, bound, cycle, process, exit, services,
                   reader, spoiled, proved>>

\* Nothing has to be started, or the child that starts services has run,
\* whether or not it started some.
Preflight ==
    /\ Goto("preflight", "adapter")
    /\ \/ UNCHANGED <<started, services>>
       \/ started' = TRUE /\ services' \in {services, cycle}
    /\ UNCHANGED <<edits, requirement, plan, disk, verdict, log, bound, cycle,
                   outcome, skipped, cleaned, ref, committed, exit, reader,
                   spoiled, proved>>

\* The probes a report suggested may be added to the plan.
Adapter ==
    /\ Goto("adapter", "planning")
    /\ \/ UNCHANGED <<edits, plan>>
       \/ Changes /\ plan' \in 1 .. MaxVersion
    /\ UNCHANGED <<requirement, disk, verdict, log, bound, cycle, process,
                   exit, services, reader, spoiled, proved>>

\* The context is compiled, the action contracts are derived from it.
Planning ==
    /\ Goto("planning", "probe")
    /\ context' = [requirement |-> requirement, plan |-> plan]
    /\ UNCHANGED <<edits, requirement, plan, covered, probes, manifest,
                   verdict, log, bound, cycle, process, exit, services,
                   reader, spoiled, proved>>

\* The ticket is issued for the plan the context was compiled from; the
\* contracts and the journal of the probes become component versions.
RunProbes ==
    /\ Goto("probe", "conclusion")
    /\ plan = context.plan
    /\ probes' = [cycle |-> cycle, context |-> context]
    /\ bound' = [bound EXCEPT !.probes = probes']
    /\ UNCHANGED <<edits, requirement, plan, covered, context, manifest,
                   verdict, log, cycle, process, exit, services, reader,
                   spoiled, proved>>

\* --skip-probe: the results of an earlier cycle are used again.
ReuseResults ==
    /\ Goto("probe", "conclusion")
    /\ skipped' = TRUE
    /\ UNCHANGED <<edits, requirement, plan, disk, verdict, log, bound, cycle,
                   outcome, started, cleaned, ref, committed, exit, services,
                   reader, spoiled, proved>>

\* The evidence is audited and judged; generate_verdict exits with 0
\* whatever the verdict is.
Conclude ==
    /\ Goto("conclusion", "report")
    /\ \E pass \in BOOLEAN : verdict' = [cycle |-> cycle, pass |-> pass]
    /\ UNCHANGED <<edits, requirement, plan, disk, log, bound, cycle, process,
                   exit, services, reader, spoiled, proved>>

Report ==
    /\ Goto("report", "cleanup")
    /\ UNCHANGED <<edits, requirement, plan, disk, verdict, log, bound, cycle,
                   process, exit, services, reader, spoiled, proved>>

\* Fault: the outcome stays as it is.
ForgivingSpoil(to) ==
    /\ pc' = to /\ spoiled' = spoiled \cup {cycle}
    /\ UNCHANGED <<edits, requirement, plan, disk, log, bound, cycle, outcome,
                   skipped, started, cleaned, exit, reader, proved>>

Spoil(to) ==
    /\ outcome' = 1 /\ pc' = to /\ spoiled' = spoiled \cup {cycle}
    /\ UNCHANGED <<edits, requirement, plan, disk, log, bound, cycle, skipped,
                   started, cleaned, exit, reader, proved>>

\* A stage returns a failure.  The handoff writes a verdict that is not a
\* pass, unless its generator fails too: then the verdict stays as it is.
StageFails ==
    /\ pc \in Stages
    /\ verdict' \in {verdict, Handoff}
    /\ Spoil("cleanup")
    /\ UNCHANGED <<ref, committed, services>>

\* The start of services is tried and its stage fails.
StartFails ==
    /\ pc = "preflight"
    /\ started' = TRUE /\ services' \in {services, cycle}
    /\ verdict' \in {verdict, Handoff}
    /\ outcome' = 1 /\ pc' = "cleanup" /\ spoiled' = spoiled \cup {cycle}
    /\ UNCHANGED <<edits, requirement, plan, disk, log, bound, cycle, skipped,
                   cleaned, ref, committed, exit, reader, proved>>

Stopped == IF services = cycle THEN 0 ELSE services

Cleanup ==
    /\ Goto("cleanup", "check")
    /\ \/ ~started /\ UNCHANGED <<services, cleaned>>
       \/ started /\ services' = Stopped /\ cleaned' = TRUE
    /\ UNCHANGED <<edits, requirement, plan, disk, verdict, log, bound, cycle,
                   outcome, skipped, started, ref, committed, exit, reader,
                   spoiled, proved>>

\* Fault: a cleanup that fails does not change the outcome.
ForgivingCleanupFails ==
    /\ Goto("cleanup", "check") /\ started
    /\ services' \in {services, Stopped} /\ cleaned' = TRUE
    /\ UNCHANGED <<edits, requirement, plan, disk, verdict, log, bound, cycle,
                   outcome, skipped, started, ref, committed, exit, reader,
                   spoiled, proved>>

\* The stop report is missing or does not close.
CleanupFails ==
    /\ pc = "cleanup" /\ started
    /\ services' \in {services, Stopped}
    /\ verdict' = Handoff
    /\ Spoil("check")
    /\ UNCHANGED <<ref, committed>>

-----------------------------------------------------------------------------
(* complete_state.                                                         *)

ContextCurrent == context = [requirement |-> requirement, plan |-> plan]

Check ==
    /\ Goto("check", "commit")
    /\ outcome = 0 => ~skipped /\ ContextCurrent
    /\ UNCHANGED <<edits, requirement, plan, disk, verdict, log, bound, cycle,
                   process, exit, services, reader, spoiled, proved>>

\* A skipped probe, a stale context, a human authorization or a trace that
\* is not in order: each turns a success into a handoff.
CheckFails ==
    /\ pc = "check" /\ outcome = 0
    /\ verdict' = Handoff
    /\ Spoil("commit")
    /\ UNCHANGED <<ref, committed, services>>

\* An artifact of an earlier cycle is not selected.
Selected(artifact, none) == IF artifact.cycle = cycle THEN artifact ELSE none

\* The attempt hashes its inputs as they are now.
CommitAttempt ==
    /\ Goto("commit", "trace")
    /\ manifest' =
         [seq |-> manifest.seq + 1,
          attempt |->
            [cycle |-> cycle,
             stage |-> IF outcome = 0 THEN "cycle_complete"
                       ELSE "cycle_handoff",
             requirement |-> requirement, plan |-> plan, context |-> context,
             probes |-> Selected(probes, NoProbes),
             verdict |-> Selected(verdict, NoVerdict)]]
    /\ ref' = manifest'.seq
    /\ committed' = (verdict.cycle = cycle)
    /\ bound' = IF outcome = 0 THEN [bound EXCEPT !.context = context]
                ELSE bound
    /\ UNCHANGED <<edits, requirement, plan, covered, context, probes,
                   verdict, log, cycle, outcome, skipped, started, cleaned,
                   exit, services, reader, spoiled, proved>>

\* CycleAttemptError: nothing was published, and no pass is left on disk.
CommitFails ==
    /\ pc = "commit"
    /\ verdict' = Handoff
    /\ Spoil("finish")
    /\ UNCHANGED <<ref, committed, services>>

FinalizeTrace ==
    /\ Goto("trace", "finish")
    /\ bound' = [bound EXCEPT !.trace = cycle]
    /\ UNCHANGED <<edits, requirement, plan, disk, verdict, log, cycle,
                   process, exit, services, reader, spoiled, proved>>

\* The attempt stays published, and a success becomes a failure.
TraceFails ==
    /\ pc = "trace"
    /\ verdict' = IF outcome = 0 THEN Handoff ELSE verdict
    /\ committed' = (committed /\ outcome = 1)
    /\ Spoil("finish")
    /\ UNCHANGED <<ref, services>>

\* _final_status.
Passes ==
    /\ outcome = 0 /\ verdict.pass /\ verdict.cycle = cycle
    /\ ref > 0 /\ committed

\* Fault: a status outside the vocabulary of the log is published.
VerbatimFinish ==
    /\ pc = "finish" /\ pc' = IF Passes THEN "verify" ELSE "finally"
    /\ log' = [status |-> IF Passes THEN "passed" ELSE "attention",
               last |-> TRUE, cycle |-> cycle, verdict |-> verdict,
               seq |-> ref]
    /\ UNCHANGED <<edits, requirement, plan, disk, verdict, bound, cycle,
                   process, exit, services, reader, spoiled, proved>>

Finish ==
    /\ pc = "finish" /\ pc' = IF Passes THEN "verify" ELSE "finally"
    /\ log' = [status |-> IF Passes THEN "passed" ELSE "nonpass",
               last |-> TRUE, cycle |-> cycle, verdict |-> verdict,
               seq |-> ref]
    /\ UNCHANGED <<edits, requirement, plan, disk, verdict, bound, cycle,
                   process, exit, services, reader, spoiled, proved>>

\* Fault: a proof that does not close is recorded in the log only.
LogOnlyVerify ==
    /\ pc = "verify"
    /\ \/ /\ ProofCloses
          /\ pc' = "finally" /\ proved' = proved \cup {cycle}
       \/ /\ ~ProofCloses
          /\ pc' = "invalidate"
          /\ UNCHANGED proved
    /\ UNCHANGED <<edits, requirement, plan, disk, verdict, log, bound, cycle,
                   process, exit, services, reader, spoiled>>

\* The cycle verifies the pass it has just published.
Verify ==
    /\ pc = "verify"
    /\ \/ /\ ProofCloses
          /\ pc' = "finally" /\ proved' = proved \cup {cycle}
          /\ UNCHANGED <<outcome, verdict>>
       \/ /\ ~ProofCloses
          /\ pc' = "invalidate" /\ outcome' = 1 /\ verdict' = Handoff
          /\ UNCHANGED proved
    /\ UNCHANGED <<edits, requirement, plan, disk, log, bound, cycle, skipped,
                   started, cleaned, ref, committed, exit, services, reader,
                   spoiled>>

InvalidatePass ==
    /\ Goto("invalidate", "finally")
    /\ log' = [log EXCEPT !.status = "nonpass"]
    /\ UNCHANGED <<edits, requirement, plan, disk, verdict, bound, cycle,
                   process, exit, services, reader, spoiled, proved>>

-----------------------------------------------------------------------------
(* How a cycle ends.                                                       *)

\* The log cannot be written, which leaves a verdict that is not a pass, or
\* the lease is lost, which leaves the verdict alone.
Unwind ==
    /\ pc \in Stages \cup Completion
    /\ pc' = "finally" /\ outcome' = 1
    /\ verdict' \in {verdict, Handoff}
    /\ UNCHANGED <<edits, requirement, plan, disk, log, bound, cycle, skipped,
                   started, cleaned, ref, committed, exit, services, reader,
                   spoiled, proved>>

\* What the cleanup stage did not stop is stopped now, and the exit code is
\* not 0 if that fails.
Finally ==
    /\ Goto("finally", "idle")
    /\ \/ (cleaned \/ ~started) /\ exit' = outcome /\ UNCHANGED services
       \/ started /\ ~cleaned /\ exit' = outcome /\ services' = Stopped
       \/ started /\ ~cleaned /\ exit' = 1 /\ UNCHANGED services
    /\ UNCHANGED <<edits, requirement, plan, disk, verdict, log, bound, cycle,
                   process, reader, spoiled, proved>>

Kill ==
    /\ pc # "idle" /\ pc' = "idle" /\ exit' = 1
    /\ UNCHANGED <<edits, requirement, plan, disk, verdict, log, bound, cycle,
                   process, services, reader, spoiled, proved>>

Edit ==
    /\ Changes
    /\ \/ requirement' \in 1 .. MaxVersion /\ UNCHANGED plan
       \/ plan' \in 1 .. MaxVersion /\ UNCHANGED requirement
    /\ UNCHANGED <<disk, verdict, log, bound, cycle, pc, process, exit,
                   services, reader, spoiled, proved>>

-----------------------------------------------------------------------------
(* verify_run_proof in a process of its own.                               *)

Reads(from, to) ==
    /\ reader.at = from /\ reader'.at = to
    /\ UNCHANGED <<edits, requirement, plan, disk, verdict, log, bound, cycle,
                   pc, process, exit, services, spoiled, proved>>

ReadEvents ==
    /\ reader' = [reader EXCEPT !.at = "state", !.log = log]
    /\ Reads("out", "state")

ReadState ==
    /\ log.status = "passed" /\ Claims(reader.log)
    /\ reader' = [reader EXCEPT !.at = "manifest", !.bound = bound]
    /\ Reads("state", "manifest")

ReadManifest ==
    /\ RefersTo(reader.log, manifest)
    /\ reader' = [reader EXCEPT !.at = "inputs", !.manifest = manifest]
    /\ Reads("manifest", "inputs")

ReadInputs ==
    /\ ParentsMatch(reader.manifest)
    /\ reader' = [reader EXCEPT !.at = "verdict"]
    /\ Reads("inputs", "verdict")

ReadVerdict ==
    /\ VerdictMatches(reader.log, reader.manifest)
    /\ reader' = [reader EXCEPT !.at = "context"]
    /\ Reads("verdict", "context")

ReadContext ==
    /\ ContextMatches(reader.bound, reader.manifest)
    /\ reader' = [reader EXCEPT !.at = "accepted"]
    /\ Reads("context", "accepted")

\* The verifier reports, whatever it has found, and may be called again.
ReadAgain ==
    /\ reader.at # "out"
    /\ reader' = NotReading
    /\ Reads(reader.at, "out")

-----------------------------------------------------------------------------
Stage == Open \/ Prepare \/ Coverage \/ Preflight \/ Adapter \/ Planning
         \/ RunProbes \/ ReuseResults \/ Conclude \/ Report
Complete == Cleanup \/ Check \/ CommitAttempt \/ FinalizeTrace \/ Finish
            \/ Verify \/ InvalidatePass \/ Finally
Fail == StageFails \/ StartFails \/ CleanupFails \/ CheckFails \/ CommitFails
        \/ TraceFails \/ Unwind \/ Kill
Read == ReadEvents \/ ReadState \/ ReadManifest \/ ReadInputs \/ ReadVerdict
        \/ ReadContext \/ ReadAgain

Next == Stage \/ Complete \/ Fail \/ Edit \/ Read

Spec == Init /\ [][Next]_vars

-----------------------------------------------------------------------------
(* A proof closes only for the latest cycle, and only if nothing in it had *)
(* failed before it finished, and its probes ran in that cycle, on the     *)
(* plan and for the requirement that are on disk.                          *)
EarnedPass ==
    ProofCloses =>
        /\ log.cycle = cycle /\ manifest.attempt.cycle = cycle
        /\ cycle \notin spoiled
        /\ probes = [cycle |-> cycle,
                     context |-> [requirement |-> requirement, plan |-> plan]]

(* verify_run_proof takes no lock and reads one file after the other while *)
(* cycles and editors work, so no instant needs to show all that it read.  *)
(* Still what it accepts is of one cycle, in which nothing had failed and  *)
(* the probes ran in the context that the attempt holds.                   *)
AcceptedProofEarned ==
    reader.at = "accepted" =>
        LET passed == reader.log.cycle
            attempt == reader.manifest.attempt
        IN  /\ passed \notin spoiled
            /\ attempt.cycle = passed
            /\ attempt.probes = [cycle |-> passed, context |-> attempt.context]

(* The outer loop claims a pass from the exit code of the cycle and the    *)
(* verdict on disk (qa_agent_loop.py).  Then the cycle's own verification  *)
(* has succeeded.                                                          *)
LoopClaimProved ==
    pc = "idle" /\ exit = 0 /\ verdict.pass => cycle \in proved

(* A cycle that exits with 0 leaves no service that it started running.    *)
CleanExit == pc = "idle" /\ exit = 0 => services # cycle \/ cycle = 0

(* What the log and the verification say of the latest cycle is a           *)
(* PassRecord: a pass is settled once, by the cycle that claimed it, and    *)
(* stays a mere claim if that cycle dies or loses the log in between.       *)
PassState ==
    IF ~log.last THEN "open"
    ELSE IF ~Claims(log) THEN "failed"
    ELSE IF cycle \in proved THEN "confirmed"
    ELSE "claimed"

Pass == INSTANCE PassRecord WITH last <- cycle, state <- PassState

ImplementsPassRecord == Pass!RecordSpec

(* README.md: Passed is published only after the separate verifier has     *)
(* closed the proof.  The cycle publishes it first.                        *)
PublishedPassVerified == Claims(log) => log.cycle \in proved

(* README.md: a stale file or a changed parent input fails closed.  The    *)
(* requirement coverage of a pass may be that of an earlier requirement.   *)
PassCoversRequirement == ProofCloses => covered = requirement
=============================================================================
