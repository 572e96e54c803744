---------------------------- MODULE QaCycle_proofs ----------------------------
(***************************************************************************)
(* What a pass is worth, for any number of cycles and of versions: the     *)
(* properties of QaCycle follow from an invariant in five parts, on the    *)
(* process, the log, the probes, the published attempts and the verifier;  *)
(* a sixth makes the status of the run a PassRecord.  Two theorems say     *)
(* when the two documented promises that the code breaks are kept.         *)
(***************************************************************************)
EXTENDS QaCycle, TLAPS

Ended == {"verify", "invalidate", "finally", "idle"}
Working == Stages \cup {"cleanup", "check", "commit", "trace", "finish"}

\* The process: what its outcome tells, and which services it may have left.
ProcessInv ==
    /\ \A c \in spoiled : c <= cycle
    /\ pc \in Working /\ outcome = 0 => cycle \notin spoiled
    /\ pc # "idle" => cycle > 0
    /\ pc = "invalidate" => outcome = 1
    /\ services <= cycle
    /\ pc \in Stages \cup {"cleanup"} => ~cleaned
    /\ pc # "idle" /\ (~started \/ cleaned) => services # cycle
    /\ pc = "idle" /\ exit = 0 => services # cycle \/ cycle = 0

\* The log claims a pass only after the work of the latest cycle.
LogInv ==
    Claims(log) => log.cycle = cycle /\ pc \in Ended /\ cycle \notin spoiled

\* The probes that this cycle has run ran in the context that is on disk.
ProbesInv ==
    /\ probes.cycle <= cycle
    /\ pc \in {"prepare", "coverage", "preflight", "adapter", "planning",
               "probe"} => probes.cycle < cycle
    /\ probes.cycle = cycle => probes.context = context

\* An attempt holds probes of its own cycle and context, or none.
Own(m) ==
    m.attempt.probes.cycle > 0 =>
        /\ m.attempt.probes.cycle = m.attempt.cycle
        /\ m.attempt.probes.context = m.attempt.context

\* A pass refers to a manifest of its own cycle, or to none any more.
Refers(l) ==
    Claims(l) =>
        /\ l.seq <= manifest.seq
        /\ l.seq = manifest.seq => manifest.attempt.cycle = l.cycle

AttemptInv ==
    /\ Own(manifest)
    /\ ref > 0 => ref = manifest.seq /\ manifest.attempt.cycle = cycle
    /\ Refers(log)

\* What the verifier has read so far hangs together.
ReaderInv ==
    /\ Refers(reader.log)
    /\ Claims(reader.log) =>
         /\ reader.log.cycle \notin spoiled
         /\ reader.log.cycle <= cycle
         /\ reader.log.cycle = cycle => pc \in Ended
    /\ reader.at \notin {"out", "state"} => Claims(reader.log)
    /\ reader.at \notin {"out", "state", "manifest"} =>
         /\ Own(reader.manifest)
         /\ reader.manifest.attempt.cycle = reader.log.cycle
    /\ reader.at = "accepted" => reader.manifest.attempt.probes.cycle > 0

\* A pass on disk that is the work of this cycle goes through its verification.
VerdictInv ==
    /\ pc \in Working \ {"prepare"} /\ outcome = 0 /\ verdict.pass =>
         verdict.cycle = cycle
    /\ pc \in {"trace", "finish"} /\ outcome = 0 =>
         ref > 0 /\ (verdict.pass => committed)
    /\ pc = "finally" /\ outcome = 0 /\ verdict.pass => cycle \in proved
    /\ pc = "idle" /\ exit = 0 /\ verdict.pass => cycle \in proved

IInv ==
    /\ TypeOK
    /\ ProcessInv
    /\ LogInv
    /\ ProbesInv
    /\ AttemptInv
    /\ ReaderInv
    /\ VerdictInv

USE CycleAssumption

LEMMA InitIInv == Init => IInv
<1> SUFFICES ASSUME Init PROVE IInv
  OBVIOUS
<1>1. TypeOK
  BY DEF Init, TypeOK, Context, NoContext, Probes, NoProbes, Verdict, NoVerdict,
     Attempt, NoAttempt, Manifest, NoManifest, Log, NoLog, Bound, NoBound,
     NotReading, Stages, Completion
<1>2. ProcessInv /\ LogInv /\ ProbesInv /\ AttemptInv /\ ReaderInv /\ VerdictInv
  BY DEF Init, ProcessInv, LogInv, ProbesInv, AttemptInv, ReaderInv, VerdictInv,
     Own, Refers, Claims, NoContext, NoProbes, NoVerdict, NoAttempt,
     NoManifest, NoLog, NoBound, NotReading, Stages, Working
<1> QED
  BY <1>1, <1>2 DEF IInv

LEMMA ProcessStep ==
    ASSUME TypeOK, ProcessInv, [Next]_vars PROVE ProcessInv'
<1>0. cycle \in Nat /\ services \in Nat /\ \A c \in spoiled : c \in Nat
  BY DEF TypeOK
<1> USE <1>0 DEF Goto, disk, process, ProcessInv, Working, Stages, Completion
<1>1. CASE Open
  BY <1>1 DEF Open
<1>2. CASE Preflight \/ StartFails
  <2>1. CASE StartFails
    BY <2>1 DEF StartFails
  <2>2. CASE Preflight /\ UNCHANGED <<started, services>>
    BY <2>2 DEF Preflight
  <2>3. CASE Preflight /\ started' = TRUE /\ services' \in {services, cycle}
    BY <2>3 DEF Preflight
  <2> QED
    BY <1>2, <2>1, <2>2, <2>3 DEF Preflight
<1>3. CASE Prepare \/ Coverage \/ Adapter \/ Planning \/ RunProbes
           \/ ReuseResults \/ Conclude \/ Report
  BY <1>3 DEF Prepare, Coverage, Adapter, Planning, RunProbes, ReuseResults,
     Conclude, Report
<1>4. CASE Cleanup \/ CleanupFails
  BY <1>4 DEF Cleanup, CleanupFails, Spoil, Stopped
<1>5. CASE Check \/ CommitAttempt \/ FinalizeTrace \/ Finish
  BY <1>5 DEF Check, CommitAttempt, FinalizeTrace, Finish
<1>6. CASE Verify \/ InvalidatePass
  BY <1>6 DEF Verify, InvalidatePass
<1>7. CASE Finally
  BY <1>7 DEF Finally, Stopped
<1>8. CASE StageFails \/ CheckFails \/ CommitFails \/ TraceFails
  BY <1>8 DEF StageFails, CheckFails, CommitFails, TraceFails, Spoil
<1>9. CASE Unwind \/ Kill
  BY <1>9 DEF Unwind, Kill
<1>10. CASE Edit \/ Read \/ UNCHANGED vars
  BY <1>10 DEF Edit, Changes, Read, ReadEvents, ReadState, ReadManifest, ReadInputs,
     ReadVerdict, ReadContext, ReadAgain, Reads, vars
<1> QED
  BY <1>1, <1>2, <1>3, <1>4, <1>5, <1>6, <1>7, <1>8, <1>9, <1>10
     DEF Next, Stage, Complete, Fail

LEMMA LogStep ==
    ASSUME TypeOK, ProcessInv, LogInv, [Next]_vars PROVE LogInv'
<1>0. cycle \in Nat /\ log \in Log /\ pc \in Working \cup Ended
  BY DEF TypeOK, Stages, Completion, Working, Ended
<1> USE <1>0 DEF Goto, disk, process, ProcessInv, LogInv, Working, Ended, Stages,
        Completion, Claims, Log
<1>1. CASE Open
  BY <1>1 DEF Open
<1>2. CASE Finish
  BY <1>2 DEF Finish, Passes
<1>3. CASE InvalidatePass
  BY <1>3 DEF InvalidatePass
<1>4. CASE Prepare \/ Coverage \/ Preflight \/ Adapter \/ Planning \/ RunProbes
           \/ ReuseResults \/ Conclude \/ Report
  BY <1>4 DEF Prepare, Coverage, Preflight, Adapter, Planning, RunProbes,
     ReuseResults, Conclude, Report
<1>5. CASE Cleanup \/ Check \/ CommitAttempt \/ FinalizeTrace \/ Verify \/ Finally
  BY <1>5 DEF Cleanup, Check, CommitAttempt, FinalizeTrace, Verify, Finally
<1>6. CASE StageFails \/ StartFails \/ CleanupFails \/ CheckFails \/ CommitFails
           \/ TraceFails
  BY <1>6 DEF StageFails, StartFails, CleanupFails, CheckFails, CommitFails,
     TraceFails, Spoil
<1>7. CASE Unwind \/ Kill \/ Edit \/ UNCHANGED vars
  BY <1>7 DEF Unwind, Kill, Edit, vars
<1>8. CASE Read
  BY <1>8 DEF Read, ReadEvents, ReadState, ReadManifest, ReadInputs,
     ReadVerdict, ReadContext, ReadAgain, Reads
<1> QED
  BY <1>1, <1>2, <1>3, <1>4, <1>5, <1>6, <1>7, <1>8
     DEF Next, Stage, Complete, Fail

LEMMA ProbesStep ==
    ASSUME TypeOK, ProbesInv, [Next]_vars PROVE ProbesInv'
<1>0. cycle \in Nat /\ probes \in Probes
  BY DEF TypeOK
<1> USE <1>0 DEF Goto, disk, process, ProbesInv, Stages, Completion, Probes
<1>1. CASE Open
  BY <1>1 DEF Open
<1>2. CASE Planning
  BY <1>2 DEF Planning
<1>3. CASE RunProbes
  BY <1>3 DEF RunProbes
<1>4. CASE Prepare \/ Coverage \/ Preflight \/ Adapter \/ ReuseResults
           \/ Conclude \/ Report
  BY <1>4 DEF Prepare, Coverage, Preflight, Adapter, ReuseResults, Conclude,
     Report
<1>5. CASE Complete
  BY <1>5 DEF Complete, Cleanup, Check, CommitAttempt, FinalizeTrace, Finish,
     Verify, InvalidatePass, Finally
<1>6. CASE StageFails \/ StartFails \/ CleanupFails \/ CheckFails \/ CommitFails
           \/ TraceFails
  BY <1>6 DEF StageFails, StartFails, CleanupFails, CheckFails, CommitFails,
     TraceFails, Spoil
<1>7. CASE Unwind \/ Kill \/ Edit \/ UNCHANGED vars
  BY <1>7 DEF Unwind, Kill, Edit, vars
<1>8. CASE Read
  BY <1>8 DEF Read, ReadEvents, ReadState, ReadManifest, ReadInputs,
     ReadVerdict, ReadContext, ReadAgain, Reads
<1> QED
  BY <1>1, <1>2, <1>3, <1>4, <1>5, <1>6, <1>7, <1>8 DEF Next, Stage, Fail

LEMMA AttemptStep ==
    ASSUME TypeOK, ProbesInv, AttemptInv, [Next]_vars PROVE AttemptInv'
<1>0. /\ cycle \in Nat /\ ref \in Nat /\ log \in Log
      /\ manifest.seq \in Nat /\ probes.cycle \in Nat
  BY DEF TypeOK, Manifest, Probes
<1> USE <1>0 DEF Goto, disk, process, AttemptInv, Refers, Claims, Own, Log
<1>1. CASE Open
  BY <1>1 DEF Open
<1>2. CASE CommitAttempt
  BY <1>2 DEF CommitAttempt, Selected, NoProbes, ProbesInv
<1>3. CASE Finish
  BY <1>3 DEF Finish, Passes
<1>4. CASE InvalidatePass
  BY <1>4 DEF InvalidatePass
<1>5. CASE Prepare \/ Coverage \/ Preflight \/ Adapter \/ Planning \/ RunProbes
           \/ ReuseResults \/ Conclude \/ Report
  BY <1>5 DEF Prepare, Coverage, Preflight, Adapter, Planning, RunProbes,
     ReuseResults, Conclude, Report
<1>6. CASE Cleanup \/ Check \/ FinalizeTrace \/ Verify \/ Finally
  BY <1>6 DEF Cleanup, Check, FinalizeTrace, Verify, Finally
<1>7. CASE StageFails \/ StartFails \/ CleanupFails \/ CheckFails \/ CommitFails
           \/ TraceFails
  BY <1>7 DEF StageFails, StartFails, CleanupFails, CheckFails, CommitFails,
     TraceFails, Spoil
<1>8. CASE Unwind \/ Kill \/ Edit \/ UNCHANGED vars
  BY <1>8 DEF Unwind, Kill, Edit, vars
<1>9. CASE Read
  BY <1>9 DEF Read, ReadEvents, ReadState, ReadManifest, ReadInputs,
     ReadVerdict, ReadContext, ReadAgain, Reads
<1> QED
  BY <1>1, <1>2, <1>3, <1>4, <1>5, <1>6, <1>7, <1>8, <1>9
     DEF Next, Stage, Complete, Fail

LEMMA VerdictStep ==
    ASSUME TypeOK, ProcessInv, VerdictInv, [Next]_vars PROVE VerdictInv'
<1>0. cycle \in Nat /\ manifest.seq \in Nat
  BY DEF TypeOK, Manifest
<1> USE <1>0 DEF Goto, disk, process, VerdictInv, Working, Stages, Completion
<1>1. CASE Open \/ Prepare
  BY <1>1 DEF Open, Prepare, NoVerdict
<1>2. CASE Conclude
  BY <1>2 DEF Conclude
<1>3. CASE CommitAttempt
  <2>1. /\ pc = "commit" /\ pc' = "trace" /\ ref' = manifest.seq + 1
        /\ UNCHANGED <<outcome, verdict, cycle>>
    BY <1>3 DEF CommitAttempt
  <2>2. verdict.cycle = cycle => committed'
    BY <1>3, Zenon DEF CommitAttempt
  <2> QED
    BY <2>1, <2>2
<1>4. CASE Finish
  BY <1>4 DEF Finish, Passes
<1>5. CASE Verify \/ InvalidatePass
  BY <1>5 DEF Verify, InvalidatePass, Handoff, ProcessInv
<1>6. CASE Finally
  BY <1>6 DEF Finally
<1>7. CASE Coverage \/ Preflight \/ Adapter \/ Planning \/ RunProbes
           \/ ReuseResults \/ Report
  BY <1>7 DEF Coverage, Preflight, Adapter, Planning, RunProbes,
     ReuseResults, Report
<1>8. CASE Cleanup \/ Check \/ FinalizeTrace
  BY <1>8 DEF Cleanup, Check, FinalizeTrace
<1>9. CASE Fail
  BY <1>9 DEF Fail, StageFails, StartFails, CleanupFails, CheckFails,
     CommitFails, TraceFails, Spoil, Unwind, Kill
<1>10. CASE Edit \/ UNCHANGED vars
  BY <1>10 DEF Edit, vars
<1>11. CASE Read
  BY <1>11 DEF Read, ReadEvents, ReadState, ReadManifest, ReadInputs,
     ReadVerdict, ReadContext, ReadAgain, Reads
<1> QED
  BY <1>1, <1>2, <1>3, <1>4, <1>5, <1>6, <1>7, <1>8, <1>9, <1>10, <1>11
     DEF Next, Stage, Complete

LEMMA ReaderStep ==
    ASSUME TypeOK, ProcessInv, LogInv, AttemptInv, ReaderInv, [Next]_vars
    PROVE  ReaderInv'
<1>0. /\ cycle \in Nat /\ pc \in Working \cup Ended
      /\ log \in Log /\ manifest \in Manifest
      /\ reader \in [at : {"out", "state", "manifest", "inputs", "verdict",
                           "context", "accepted"},
                     log : Log, bound : Bound, manifest : Manifest]
      /\ reader.log.seq \in Nat /\ manifest.seq \in Nat
      /\ reader.log.cycle \in Nat
  BY DEF TypeOK, Stages, Completion, Working, Ended, Log, Manifest
<1> USE <1>0 DEF Goto, disk, process, ReaderInv, Refers, Claims, Own, Working,
        Ended, Stages, Completion
<1>1. CASE ReadEvents
  BY <1>1 DEF ReadEvents, Reads, LogInv, AttemptInv
<1>2. CASE ReadState
  BY <1>2 DEF ReadState, Reads
<1>3. CASE ReadManifest
  BY <1>3 DEF ReadManifest, Reads, RefersTo, AttemptInv
<1>4. CASE ReadInputs \/ ReadVerdict
  BY <1>4 DEF ReadInputs, ReadVerdict, Reads
<1>5. CASE ReadContext
  BY <1>5 DEF ReadContext, Reads, ContextMatches
<1>6. CASE ReadAgain
  BY <1>6 DEF ReadAgain, Reads, NotReading, NoLog
<1>7. CASE CommitAttempt
  BY <1>7 DEF CommitAttempt
<1>8. CASE Open
  BY <1>8 DEF Open
<1>9. CASE Prepare \/ Coverage \/ Preflight \/ Adapter \/ Planning \/ RunProbes
           \/ ReuseResults \/ Conclude \/ Report
  BY <1>9 DEF Prepare, Coverage, Preflight, Adapter, Planning, RunProbes,
     ReuseResults, Conclude, Report
<1>10. CASE Cleanup \/ Check \/ FinalizeTrace \/ Finish \/ Verify
            \/ InvalidatePass \/ Finally
  BY <1>10 DEF Cleanup, Check, FinalizeTrace, Finish, Verify, InvalidatePass,
     Finally
<1>11. CASE StageFails \/ StartFails \/ CleanupFails \/ CheckFails
            \/ CommitFails \/ TraceFails
  BY <1>11 DEF StageFails, StartFails, CleanupFails, CheckFails, CommitFails,
     TraceFails, Spoil
<1>12. CASE Unwind \/ Kill \/ Edit \/ UNCHANGED vars
  BY <1>12 DEF Unwind, Kill, Edit, vars
<1> QED
  BY <1>1, <1>2, <1>3, <1>4, <1>5, <1>6, <1>7, <1>8, <1>9, <1>10, <1>11, <1>12
     DEF Next, Stage, Complete, Fail, Read


\* TypeOK in parts.
Flags == skipped \in BOOLEAN /\ started \in BOOLEAN /\ cleaned \in BOOLEAN
         /\ committed \in BOOLEAN
Progress ==
    /\ cycle \in Nat /\ pc \in Stages \cup Completion \cup {"finally", "idle"}
    /\ outcome \in {0, 1} /\ exit \in {0, 1} /\ ref \in Nat /\ services \in Nat
    /\ spoiled \subseteq Nat /\ proved \subseteq Nat
Files ==
    /\ requirement \in Nat /\ plan \in Nat /\ edits \in Nat /\ covered \in Nat
    /\ context \in Context /\ probes \in Probes /\ verdict \in Verdict
    /\ manifest \in Manifest /\ log \in Log /\ bound \in Bound

LEMMA FlagsStep ==
    ASSUME Flags, [Next]_vars PROVE Flags'
<1> USE DEF Flags, process
<1>1. CASE Stage
  BY <1>1 DEF Stage, Open, Prepare, Coverage, Preflight, Adapter, Planning,
     RunProbes, ReuseResults, Conclude, Report
<1>2. CASE Complete
  BY <1>2 DEF Complete, Cleanup, Check, CommitAttempt, FinalizeTrace, Finish,
     Verify, InvalidatePass, Finally
<1>3. CASE Fail
  BY <1>3 DEF Fail, StageFails, StartFails, CleanupFails, CheckFails,
     CommitFails, TraceFails, Spoil, Unwind, Kill
<1>4. CASE Edit \/ Read \/ UNCHANGED vars
  BY <1>4 DEF Edit, Read, ReadEvents, ReadState, ReadManifest, ReadInputs,
     ReadVerdict, ReadContext, ReadAgain, Reads, vars
<1> QED
  BY <1>1, <1>2, <1>3, <1>4 DEF Next

LEMMA ProgressStep ==
    ASSUME Progress, manifest.seq \in Nat, [Next]_vars PROVE Progress'
<1> USE DEF Progress, Goto, process, Stages, Completion, Stopped
<1>1. CASE Stage
  BY <1>1 DEF Stage, Open, Prepare, Coverage, Preflight, Adapter, Planning,
     RunProbes, ReuseResults, Conclude, Report
<1>2. CASE CommitAttempt
  BY <1>2 DEF CommitAttempt
<1>3. CASE Cleanup \/ Check \/ FinalizeTrace \/ Finish \/ Verify
           \/ InvalidatePass \/ Finally
  BY <1>3 DEF Cleanup, Check, FinalizeTrace, Finish, Verify, InvalidatePass,
     Finally
<1>4. CASE Fail
  <2>1. CASE StageFails \/ CheckFails \/ CommitFails \/ TraceFails
    BY <2>1 DEF StageFails, CheckFails, CommitFails, TraceFails, Spoil
  <2>2. CASE StartFails
    BY <2>2 DEF StartFails
  <2>3. CASE CleanupFails
    BY <2>3 DEF CleanupFails, Spoil
  <2>4. CASE Unwind \/ Kill
    BY <2>4 DEF Unwind, Kill
  <2> QED
    BY <1>4, <2>1, <2>2, <2>3, <2>4 DEF Fail
<1>5. CASE Edit \/ Read \/ UNCHANGED vars
  BY <1>5 DEF Edit, Read, ReadEvents, ReadState, ReadManifest, ReadInputs,
     ReadVerdict, ReadContext, ReadAgain, Reads, vars
<1> QED
  BY <1>1, <1>2, <1>3, <1>4, <1>5 DEF Next, Complete

LEMMA FilesStep ==
    ASSUME Files, Progress, Flags, [Next]_vars PROVE Files'
<1> USE DEF Files, disk, process
<1>1. NoVerdict \in Verdict /\ NoProbes \in Probes
  BY DEF NoVerdict, Verdict, NoProbes, NoContext, Probes, Context
<1>2. Handoff \in Verdict
  BY DEF Handoff, Verdict, Progress
<1>3. CASE Open
  BY <1>3 DEF Open, Log, Bound
<1>4. CASE Prepare \/ Coverage \/ Preflight \/ ReuseResults \/ Report
  BY <1>1, <1>4 DEF Prepare, Coverage, Preflight, ReuseResults, Report
<1>5. CASE Adapter \/ Edit
  BY <1>5 DEF Adapter, Edit, Changes
<1>6. CASE Planning
  BY <1>6 DEF Planning, Context
<1>7. CASE RunProbes
  <2>1. probes' \in Probes
    BY <1>7 DEF RunProbes, Probes, Progress
  <2> QED
    BY <1>7, <2>1 DEF RunProbes, Bound
<1>8. CASE Conclude
  BY <1>8 DEF Conclude, Verdict, Progress
<1>9. CASE Cleanup \/ Check \/ Finally
  BY <1>9 DEF Cleanup, Check, Finally
<1>10. CASE CommitAttempt
  <2>1. Selected(probes, NoProbes) \in Probes
        /\ Selected(verdict, NoVerdict) \in Verdict
    BY <1>1 DEF Selected
  <2>2. manifest.seq + 1 \in Nat
    BY DEF Manifest
  <2>3. manifest' \in Manifest
    BY <1>10, <2>1, <2>2 DEF CommitAttempt, Manifest, Attempt, Progress
  <2>4. bound' \in Bound
    BY <1>10 DEF CommitAttempt, Bound
  <2> QED
    BY <1>10, <2>3, <2>4 DEF CommitAttempt
<1>11. CASE FinalizeTrace
  BY <1>11 DEF FinalizeTrace, Bound, Progress
<1>12. CASE Finish
  BY <1>12 DEF Finish, Log, Progress
<1>13. CASE Verify
  BY <1>2, <1>13 DEF Verify
<1>14. CASE InvalidatePass
  BY <1>14 DEF InvalidatePass, Log
<1>15. CASE StageFails \/ StartFails \/ CleanupFails \/ CheckFails
            \/ CommitFails \/ TraceFails
  BY <1>2, <1>15 DEF StageFails, StartFails, CleanupFails, CheckFails,
     CommitFails, TraceFails, Spoil
<1>16. CASE Unwind \/ Kill \/ UNCHANGED vars
  BY <1>2, <1>16 DEF Unwind, Kill, vars
<1>17. CASE Read
  BY <1>17 DEF Read, ReadEvents, ReadState, ReadManifest, ReadInputs,
     ReadVerdict, ReadContext, ReadAgain, Reads
<1> QED
  BY <1>3, <1>4, <1>5, <1>6, <1>7, <1>8, <1>9, <1>10, <1>11, <1>12, <1>13,
     <1>14, <1>15, <1>16, <1>17 DEF Next, Stage, Complete, Fail

Reading == [at : {"out", "state", "manifest", "inputs", "verdict", "context",
                  "accepted"},
            log : Log, bound : Bound, manifest : Manifest]

LEMMA ReadingStep ==
    ASSUME Files, reader \in Reading, [Next]_vars PROVE reader' \in Reading
<1>1. CASE ReadEvents \/ ReadState \/ ReadManifest
  BY <1>1 DEF ReadEvents, ReadState, ReadManifest, Files, Reading
<1>2. CASE ReadInputs \/ ReadVerdict \/ ReadContext
  BY <1>2 DEF ReadInputs, ReadVerdict, ReadContext, Reading
<1>3. CASE ReadAgain
  BY <1>3 DEF ReadAgain, NotReading, Reading, Log, NoLog, Bound, NoBound,
     Manifest, NoManifest, Attempt, NoAttempt, Verdict, NoVerdict, Probes,
     NoProbes, Context, NoContext
<1>4. CASE Stage
  BY <1>4 DEF Stage, Open, Prepare, Coverage, Preflight, Adapter, Planning,
     RunProbes, ReuseResults, Conclude, Report
<1>5. CASE Complete
  BY <1>5 DEF Complete, Cleanup, Check, CommitAttempt, FinalizeTrace, Finish,
     Verify, InvalidatePass, Finally
<1>6. CASE Fail \/ Edit \/ UNCHANGED vars
  BY <1>6 DEF Fail, StageFails, StartFails, CleanupFails, CheckFails,
     CommitFails, TraceFails, Spoil, Unwind, Kill, Edit, vars
<1> QED
  BY <1>1, <1>2, <1>3, <1>4, <1>5, <1>6 DEF Next, Read

LEMMA TypeStep ==
    ASSUME TypeOK, [Next]_vars PROVE TypeOK'
<1>1. Flags /\ Progress /\ Files /\ reader \in Reading /\ manifest.seq \in Nat
  BY DEF TypeOK, Flags, Progress, Files, Reading, Manifest
<1>2. Flags' /\ Progress' /\ Files' /\ reader' \in Reading
  BY <1>1, FlagsStep, ProgressStep, FilesStep, ReadingStep
<1> QED
  BY <1>2 DEF TypeOK, Flags, Progress, Files, Reading

LEMMA Invariance == Spec => []IInv
<1>1. IInv /\ [Next]_vars => IInv'
  BY TypeStep, ProcessStep, LogStep, ProbesStep, AttemptStep, ReaderStep,
     VerdictStep DEF IInv
<1> QED
  BY <1>1, InitIInv, PTL DEF Spec

-----------------------------------------------------------------------------
\* The files and the process stay what they are said to be.
THEOREM TypeCorrect == Spec => []TypeOK
  BY Invariance, PTL DEF IInv

\* A proof that closes is that of the latest cycle, in which nothing had failed
\* and whose probes ran on the requirement and the plan that are on disk.
THEOREM EarnedPassHolds == Spec => []EarnedPass
<1>1. IInv => EarnedPass
  <2> SUFFICES ASSUME IInv, ProofCloses
               PROVE  /\ log.cycle = cycle /\ manifest.attempt.cycle = cycle
                      /\ cycle \notin spoiled
                      /\ probes = [cycle |-> cycle,
                                   context |-> [requirement |-> requirement,
                                                plan |-> plan]]
    BY DEF EarnedPass
  <2>1. log.cycle = cycle /\ cycle \notin spoiled
    BY DEF ProofCloses, IInv, LogInv
  <2>2. manifest.attempt.cycle = cycle
    BY <2>1 DEF ProofCloses, RefersTo, IInv, AttemptInv, Refers
  <2>3. /\ probes.cycle > 0 /\ probes = manifest.attempt.probes
        /\ context = [requirement |-> requirement, plan |-> plan]
    BY DEF ProofCloses, ContextMatches
  <2>4. probes.cycle = cycle /\ probes.context = context
    BY <2>2, <2>3 DEF IInv, AttemptInv, Own, ProbesInv
  <2>5. probes = [cycle |-> probes.cycle, context |-> probes.context]
    BY DEF IInv, TypeOK, Probes
  <2> QED
    BY <2>1, <2>2, <2>3, <2>4, <2>5
<1> QED
  BY <1>1, Invariance, PTL

\* The verifier accepts only the work of one cycle in which nothing had failed,
\* however cycles and editors change the files while it reads.
THEOREM AcceptedProofEarnedHolds == Spec => []AcceptedProofEarned
<1>1. IInv => AcceptedProofEarned
  <2> SUFFICES ASSUME IInv, reader.at = "accepted"
               PROVE  /\ reader.log.cycle \notin spoiled
                      /\ reader.manifest.attempt.cycle = reader.log.cycle
                      /\ reader.manifest.attempt.probes =
                           [cycle |-> reader.log.cycle,
                            context |-> reader.manifest.attempt.context]
    BY DEF AcceptedProofEarned
  <2> DEFINE attempt == reader.manifest.attempt
  <2>1. /\ reader.log.cycle \notin spoiled
        /\ attempt.cycle = reader.log.cycle
        /\ attempt.probes.cycle > 0 /\ Own(reader.manifest)
    BY DEF IInv, ReaderInv
  <2>2. attempt.probes.cycle = attempt.cycle
        /\ attempt.probes.context = attempt.context
    BY <2>1 DEF Own
  <2>3. attempt.probes \in Probes
    BY DEF IInv, TypeOK, Manifest, Attempt
  <2>4. attempt.probes = [cycle |-> attempt.probes.cycle,
                          context |-> attempt.probes.context]
    BY <2>3 DEF Probes
  <2> QED
    BY <2>1, <2>2, <2>4
<1> QED
  BY <1>1, Invariance, PTL

\* When the exit code and the verdict say pass, the cycle has verified it.
THEOREM LoopClaimProvedHolds == Spec => []LoopClaimProved
<1>1. IInv => LoopClaimProved
  BY DEF IInv, VerdictInv, LoopClaimProved
<1> QED
  BY <1>1, Invariance, PTL

\* A cycle that exits with 0 leaves none of its services running.
THEOREM CleanExitHolds == Spec => []CleanExit
<1>1. IInv => CleanExit
  BY DEF IInv, ProcessInv, CleanExit
<1> QED
  BY <1>1, Invariance, PTL

-----------------------------------------------------------------------------
(* The pass of a run as a record that is settled once.                     *)

\* The log ends with a status event from finish on, a pass is there until it is
\* withdrawn, and a cycle has verified its own at the end only.
RecordInv ==
    /\ \A c \in proved : c <= cycle
    /\ cycle \in proved => pc \in {"finally", "idle"} /\ cycle > 0
    /\ pc \in Working => ~log.last
    /\ pc \in {"verify", "invalidate"} => Claims(log)
    /\ pc = "finally" /\ outcome = 0 /\ Claims(log) => cycle \in proved
    /\ pc = "idle" /\ exit = 0 /\ Claims(log) => cycle \in proved

\* What neither ends a cycle nor writes its status.
Inner ==
    \/ Prepare \/ Coverage \/ Preflight \/ Adapter \/ Planning \/ RunProbes
    \/ ReuseResults \/ Conclude \/ Report \/ Cleanup \/ Check \/ CommitAttempt
    \/ FinalizeTrace \/ StageFails \/ StartFails \/ CleanupFails \/ CheckFails
    \/ CommitFails \/ TraceFails

LEMMA InnerFrame ==
    ASSUME TypeOK, Inner
    PROVE  pc \in Working /\ pc' \in Working /\ UNCHANGED <<log, cycle, proved, exit>>
<1> USE DEF Goto, process, disk, Working, Stages, Completion
<1>1. CASE \/ Prepare \/ Coverage \/ Preflight \/ Adapter \/ Planning
           \/ RunProbes \/ ReuseResults \/ Conclude \/ Report
  BY <1>1 DEF Prepare, Coverage, Preflight, Adapter, Planning, RunProbes,
     ReuseResults, Conclude, Report
<1>2. CASE Cleanup \/ Check \/ CommitAttempt \/ FinalizeTrace
  BY <1>2 DEF Cleanup, Check, CommitAttempt, FinalizeTrace
<1>3. CASE \/ StageFails \/ StartFails \/ CleanupFails \/ CheckFails
           \/ CommitFails \/ TraceFails
  BY <1>3 DEF StageFails, StartFails, CleanupFails, CheckFails, CommitFails,
     TraceFails, Spoil
<1> QED
  BY <1>1, <1>2, <1>3 DEF Inner

\* What reads, edits or does nothing.
Outer == Edit \/ Read \/ UNCHANGED vars

LEMMA OuterFrame ==
    ASSUME Outer PROVE UNCHANGED <<log, cycle, proved, exit, pc, outcome>>
<1>1. CASE Edit
  BY <1>1 DEF Edit, process
<1>2. CASE Read
  BY <1>2 DEF Read, ReadEvents, ReadState, ReadManifest, ReadInputs,
     ReadVerdict, ReadContext, ReadAgain, Reads, process
<1>3. CASE UNCHANGED vars
  BY <1>3 DEF vars, process
<1> QED
  BY <1>1, <1>2, <1>3 DEF Outer

LEMMA NextByEffect ==
    ASSUME [Next]_vars
    PROVE  \/ Inner \/ Outer \/ Open \/ Finish \/ Verify \/ InvalidatePass
           \/ Unwind \/ Finally \/ Kill
  BY DEF Next, Stage, Complete, Fail, Inner, Outer

LEMMA RecordStep ==
    ASSUME TypeOK, ProcessInv, RecordInv, [Next]_vars PROVE RecordInv'
<1>0. cycle \in Nat /\ log \in Log /\ \A c \in proved : c \in Nat
  BY DEF TypeOK
<1> USE <1>0 DEF RecordInv, Claims, Log, Working, Stages, Completion, Goto
<1>1. CASE Inner
  <2>1. pc \in Working /\ pc' \in Working /\ UNCHANGED <<log, cycle, proved, exit>>
    BY <1>1, InnerFrame
  <2> QED
    BY <2>1
<1>2. CASE Outer
  BY <1>2, OuterFrame
<1>3. CASE Open
  BY <1>3 DEF Open
<1>4. CASE Finish
  BY <1>4 DEF Finish, process
<1>5. CASE Verify
  <2>1. cycle > 0
    BY <1>5 DEF Verify, ProcessInv
  <2> QED
    BY <1>5, <2>1 DEF Verify
<1>6. CASE InvalidatePass
  BY <1>6 DEF InvalidatePass, process
<1>7. CASE Unwind
  BY <1>7 DEF Unwind
<1>8. CASE Finally
  BY <1>8 DEF Finally, process
<1>9. CASE Kill
  BY <1>9 DEF Kill, process
<1> QED
  BY <1>1, <1>2, <1>3, <1>4, <1>5, <1>6, <1>7, <1>8, <1>9, NextByEffect

LEMMA RecordInvariance == Spec => [](IInv /\ RecordInv)
<1>1. Init => RecordInv
  BY DEF Init, RecordInv, NoLog, Claims, Working, Stages
<1>2. IInv /\ RecordInv /\ [Next]_vars => RecordInv'
  BY RecordStep DEF IInv
<1> QED
  BY <1>1, <1>2, Invariance, PTL DEF Spec

\* What the log and the verification say of the latest cycle moves along
\* PassRecord, whatever fails and wherever the process is killed.
THEOREM ImplementsPassRecordHolds == Spec => ImplementsPassRecord
<1>1. Init => Pass!RecordInit
  BY DEF Init, NoLog, PassState, Pass!RecordInit
<1>2. ASSUME IInv, RecordInv, [Next]_vars
      PROVE  [Pass!Reopen \/ Pass!Conclude \/ Pass!Settle]_<<cycle, PassState>>
  <2>0. cycle \in Nat /\ log \in Log /\ \A c \in proved : c \in Nat
    BY <1>2 DEF IInv, TypeOK
  <2>1. CASE Inner \/ Outer \/ Unwind \/ Finally \/ Kill
    <3>1. UNCHANGED <<log, cycle, proved>>
      BY <1>2, <2>1, InnerFrame, OuterFrame
      DEF IInv, Unwind, Finally, Kill
    <3> QED
      BY <3>1 DEF PassState, Claims
  <2>2. CASE Open
    <3>1. cycle' = cycle + 1 /\ PassState' = "open"
      BY <2>0, <2>2 DEF Open, PassState, Log
    <3> QED
      BY <3>1 DEF Pass!Reopen
  <2>3. CASE Finish
    <3>1. PassState = "open" /\ cycle > 0
      BY <1>2, <2>3
      DEF Finish, PassState, RecordInv, Working, Stages, IInv, ProcessInv
    <3>2. UNCHANGED cycle /\ PassState' \in {"failed", "claimed"}
      BY <1>2, <2>3
      DEF Finish, PassState, RecordInv, Claims
    <3> QED
      BY <3>1, <3>2 DEF Pass!Conclude
  <2>4. CASE Verify
    <3>1. PassState = "claimed" /\ UNCHANGED <<cycle, log>>
      BY <1>2, <2>4 DEF Verify, PassState, RecordInv, Claims
    <3>2. PassState' \in {"confirmed", "claimed"}
      BY <1>2, <2>4, <3>1 DEF Verify, PassState, RecordInv, Claims
    <3> QED
      BY <3>1, <3>2 DEF Pass!Settle
  <2>5. CASE InvalidatePass
    <3>1. PassState = "claimed" /\ UNCHANGED cycle
      BY <1>2, <2>5 DEF InvalidatePass, Goto, PassState, RecordInv, Claims
    <3>2. PassState' = "failed"
      BY <1>2, <2>0, <2>5
      DEF InvalidatePass, Goto, PassState, RecordInv, Claims, Log
    <3> QED
      BY <3>1, <3>2 DEF Pass!Settle
  <2> QED
    BY <1>2, <2>1, <2>2, <2>3, <2>4, <2>5, NextByEffect
<1> QED
  BY <1>1, <1>2, RecordInvariance, PTL
  DEF Spec, ImplementsPassRecord, Pass!RecordSpec

\* A cycle that leaves a pass in the log without having verified it does not
\* exit with 0: whoever starts cycles cannot take such a pass for proved.
THEOREM UnverifiedPassExits ==
    Spec => [](pc = "idle" /\ Claims(log) /\ exit = 0 => log.cycle \in proved)
<1>1. IInv /\ RecordInv =>
        (pc = "idle" /\ Claims(log) /\ exit = 0 => log.cycle \in proved)
  BY DEF IInv, LogInv, RecordInv
<1> QED
  BY <1>1, RecordInvariance, PTL

\* A cycle that has failed stays failed and a pass that was confirmed stays
\* confirmed until the next cycle opens.  This is so of every PassRecord.
ResultKept ==
    PassState \in {"failed", "confirmed"} => UNCHANGED PassState \/ cycle' = cycle + 1

THEOREM ResultStands == Spec => [][ResultKept]_<<cycle, PassState>>
<1>1. [Pass!Reopen \/ Pass!Conclude \/ Pass!Settle]_<<cycle, PassState>>
        => [ResultKept]_<<cycle, PassState>>
  BY DEF Pass!Reopen, Pass!Conclude, Pass!Settle, ResultKept
<1> QED
  BY <1>1, ImplementsPassRecordHolds, PTL DEF ImplementsPassRecord, Pass!RecordSpec

-----------------------------------------------------------------------------
(* The pass that is in the log before it is verified.                      *)

\* Between the publication of a pass and the end of its verification.
InVerification == pc \in {"verify", "invalidate"}

VerificationEnds == InVerification => ~Unwind /\ ~Kill

PublishedInv == Claims(log) /\ ~InVerification => log.cycle \in proved

LEMMA PublishedStep ==
    ASSUME IInv, PublishedInv, [Next]_vars, VerificationEnds
    PROVE  PublishedInv'
<1>1. CASE Inner \/ Outer
  <2>1. UNCHANGED <<log, proved>>
    BY <1>1, InnerFrame, OuterFrame DEF IInv
  <2>2. InVerification => InVerification'
    BY <1>1, InnerFrame, OuterFrame
    DEF IInv, InVerification, Working, Stages, Ended
  <2> QED
    BY <2>1, <2>2 DEF PublishedInv, Claims
<1>2. CASE Unwind \/ Kill \/ Finally
  <2>1. ~InVerification
    BY <1>2 DEF VerificationEnds, Finally, Goto, InVerification
  <2>2. UNCHANGED <<log, proved>>
    BY <1>2 DEF Unwind, Kill, Finally
  <2> QED
    BY <2>1, <2>2 DEF PublishedInv, Claims
<1>3. CASE Open
  BY <1>3 DEF Open, PublishedInv, Claims, IInv, TypeOK, Log
<1>4. CASE Finish
  BY <1>4 DEF Finish, PublishedInv, InVerification, Claims
<1>5. CASE Verify
  <2>1. UNCHANGED log /\ (pc' # "invalidate" => proved' = proved \cup {cycle})
    BY <1>5 DEF Verify
  <2>2. Claims(log) => log.cycle = cycle
    BY DEF IInv, LogInv
  <2>3. pc' = "invalidate" => InVerification'
    BY DEF InVerification
  <2> QED
    BY <2>1, <2>2, <2>3 DEF PublishedInv, Claims
<1>6. CASE InvalidatePass
  BY <1>6 DEF InvalidatePass, PublishedInv, Claims, IInv, TypeOK, Log
<1> QED
  BY <1>1, <1>2, <1>3, <1>4, <1>5, <1>6, NextByEffect

\* An unverified pass comes to stay in the log in one way only: the cycle dies or
\* loses the log or the lease during its own verification.  Otherwise it is there
\* no longer than that verification takes.
THEOREM PublishedWindow ==
    Spec /\ [][VerificationEnds]_vars
      => [](~InVerification => PublishedPassVerified)
<1>1. Init => PublishedInv
  BY DEF Init, NoLog, PublishedInv, Claims
<1>2. IInv /\ PublishedInv /\ [Next]_vars /\ [VerificationEnds]_vars => PublishedInv'
  <2> SUFFICES ASSUME IInv, PublishedInv, [Next]_vars, [VerificationEnds]_vars
               PROVE  PublishedInv'
    OBVIOUS
  <2>1. CASE VerificationEnds
    BY <2>1, PublishedStep
  <2>2. CASE UNCHANGED vars
    BY <2>2 DEF vars, process, disk, PublishedInv, InVerification, Claims
  <2> QED
    BY <2>1, <2>2
<1>3. PublishedInv => (~InVerification => PublishedPassVerified)
  BY DEF PublishedInv, PublishedPassVerified
<1> QED
  BY <1>1, <1>2, <1>3, Invariance, PTL DEF Spec

-----------------------------------------------------------------------------
(* The requirement that a pass covers.                                     *)

\* Between the audit of the coverage and the compilation of the context.
AfterAudit == {"preflight", "adapter", "planning"}

RequirementKept == pc \in AfterAudit => UNCHANGED requirement

\* Then the coverage is of the requirement from which the context, and after it
\* the probes of this cycle, are made.
CoverageInv ==
    /\ pc \in AfterAudit => covered = requirement
    /\ pc = "probe" => covered = context.requirement
    /\ probes.cycle = cycle /\ cycle > 0 => covered = probes.context.requirement

LEMMA CoverageStep ==
    ASSUME TypeOK, ProbesInv, CoverageInv, [Next]_vars, RequirementKept
    PROVE  CoverageInv'
<1>0. cycle \in Nat /\ probes \in Probes /\ context \in Context
  BY DEF TypeOK
<1> USE <1>0 DEF Goto, disk, CoverageInv, AfterAudit, Stages, Completion
<1>1. CASE Open
  <2>1. probes.cycle <= cycle /\ probes.cycle \in Nat
    BY DEF ProbesInv, Probes
  <2>2. probes'.cycle # cycle' /\ pc' = "prepare"
    BY <1>1, <2>1 DEF Open
  <2> QED
    BY <2>2
<1>2. CASE Coverage
  <2>1. probes.cycle < cycle
    BY <1>2 DEF Coverage, ProbesInv
  <2>2. probes'.cycle # cycle' /\ pc' = "preflight" /\ covered' = requirement'
    BY <1>2, <2>1 DEF Coverage, Probes
  <2> QED
    BY <2>2
<1>3. CASE Planning
  <2>1. probes.cycle < cycle
    BY <1>3 DEF Planning, ProbesInv
  <2>2. /\ probes'.cycle # cycle' /\ pc' = "probe"
        /\ context' = [requirement |-> requirement, plan |-> plan]
        /\ covered' = requirement
    BY <1>3, <2>1 DEF Planning, Probes
  <2> QED
    BY <2>2
<1>4. CASE RunProbes
  <2>1. /\ pc' = "conclusion" /\ probes' = [cycle |-> cycle, context |-> context]
        /\ covered' = context.requirement
    BY <1>4 DEF RunProbes
  <2> QED
    BY <2>1
<1>5. CASE Prepare \/ Preflight \/ Adapter \/ ReuseResults \/ Conclude \/ Report
  BY <1>5 DEF Prepare, Preflight, Adapter, ReuseResults, Conclude, Report
<1>6. CASE Complete
  BY <1>6 DEF Complete, Cleanup, Check, CommitAttempt, FinalizeTrace, Finish,
     Verify, InvalidatePass, Finally
<1>7. CASE StageFails \/ StartFails \/ CleanupFails \/ CheckFails \/ CommitFails
           \/ TraceFails
  BY <1>7 DEF StageFails, StartFails, CleanupFails, CheckFails, CommitFails,
     TraceFails, Spoil
<1>8. CASE Unwind \/ Kill \/ UNCHANGED vars
  BY <1>8 DEF Unwind, Kill, vars
<1>9. CASE Edit
  BY <1>9 DEF Edit, RequirementKept
<1>10. CASE Read
  BY <1>10 DEF Read, ReadEvents, ReadState, ReadManifest, ReadInputs,
     ReadVerdict, ReadContext, ReadAgain, Reads
<1> QED
  BY <1>1, <1>2, <1>3, <1>4, <1>5, <1>6, <1>7, <1>8, <1>9, <1>10
     DEF Next, Stage, Fail

\* The coverage of a pass is that of its requirement if only the requirement is
\* left alone while a cycle is between the audit of the coverage and the
\* compilation of the context; edits before and after, also back to an earlier
\* version, do no harm.  So the window of the finding is exactly this one.
THEOREM CoverageWindow ==
    Spec /\ [][RequirementKept]_vars => []PassCoversRequirement
<1>1. Init => CoverageInv
  BY DEF Init, CoverageInv, AfterAudit, NoProbes
<1>2. IInv /\ CoverageInv /\ [Next]_vars /\ [RequirementKept]_vars => CoverageInv'
  <2> SUFFICES ASSUME IInv, CoverageInv, [Next]_vars, [RequirementKept]_vars
               PROVE  CoverageInv'
    OBVIOUS
  <2>1. RequirementKept
    BY DEF RequirementKept, vars
  <2> QED
    BY <2>1, CoverageStep DEF IInv
<1>3. IInv /\ CoverageInv /\ EarnedPass => PassCoversRequirement
  <2> SUFFICES ASSUME IInv, CoverageInv, EarnedPass, ProofCloses
               PROVE  covered = requirement
    BY DEF PassCoversRequirement
  <2>1. /\ probes.cycle = cycle /\ probes.context.requirement = requirement
        /\ probes.cycle > 0
    BY DEF EarnedPass, ProofCloses, ContextMatches
  <2> QED
    BY <2>1 DEF CoverageInv
<1> QED
  BY <1>1, <1>2, <1>3, Invariance, EarnedPassHolds, PTL DEF Spec
=============================================================================
