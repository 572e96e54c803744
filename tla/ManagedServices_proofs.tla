----------------------- MODULE ManagedServices_proofs -----------------------
(***************************************************************************)
(* Stages that end empty, an output reserve that is kept and services that *)
(* are accounted for, with any number of services, ordinary stages and     *)
(* chunks of output, whichever helper is killed at whichever step; and a   *)
(* cycle whose steps run out, and which only an open pipe can keep waiting.*)
(***************************************************************************)
EXTENDS ManagedServices, TLAPS

StartSteps == {"next", "launch", "record", "settle", "abort"}
StopSteps == {"check", "term", "kill", "write", "written"}

\* Which stage belongs to which phase, and what is decided with its launch.
Phase ==
    /\ ex.stage = "none" => ex = Idle
    /\ ex.stage = "stop" => pc = "cleanup"
    /\ ex.stage \in {"start", "ordinary"} => pc = "stages"
    /\ ex.stage = "start" => ex.reserved /\ base # NotStarted
    /\ ex.stage = "ordinary" /\ attempted => ex.reserved

\* A process that runs is that of the stage, with its program, or that of the
\* finally block; otherwise there is none.
ProcessInv ==
    /\ ~Running => ~child /\ (pc # "emergency" => leader = "none")
    /\ leader = "running" =>
         \/ pc = "emergency" /\ helper.at \in StopSteps
         \/ Running /\ ex.stage = "stop" /\ helper.at \in StopSteps
         \/ Running /\ ex.stage = "start" /\ helper.at \in StartSteps
         \/ Running /\ ex.stage = "ordinary" /\ helper.at = "none"

\* The start program goes through the plan once, in its order.
InOrder ==
    /\ base = NotStarted => \A s \in Service : svc[s] = "none"
    /\ helper.at \in {"launch", "record", "settle"} => helper.i \in Service
    /\ leader = "running" /\ helper.at \in {"next", "launch"} =>
         \A s \in Service : s >= helper.i => svc[s] = "none"
    /\ leader = "running" /\ helper.at \in {"record", "settle"} =>
         \A s \in Service : s > helper.i => svc[s] = "none"
    /\ helper.at = "launch" => runtime[helper.i] = "intent"
    /\ helper.at = "record" => helper.i \in helper.managed
    /\ \A s \in Service : svc[s] # "none" => runtime[s] # "absent"

Unrecorded(s) == svc[s] = "up" /\ runtime[s] \notin {"pid", "known"}
StillKnown(s) == svc[s] = "up" /\ runtime[s] \in {"pid", "known"}

\* A service that is up although its pid was not written down is about to be
\* recorded or terminated, or the start stage fails, and with it the cycle.
UnrecordedFails ==
    \A s \in Service : Unrecorded(s) =>
        \/ ~ok
        \/ /\ ex.stage = "start" /\ Running
           /\ \/ leader = "nonzero"
              \/ leader = "running" /\ helper.at = "record" /\ helper.i = s
              \/ leader = "running" /\ helper.at = "abort" /\ s \in helper.managed
        \/ ex.stage = "start" /\ ex.result = "nonzero"

\* A cycle with a service knows that it attempted to start it, or was
\* interrupted before it could.
Started ==
    \A s \in Service : svc[s] # "none" =>
        \/ attempted
        \/ ex.stage = "start" /\ ex.result # "refused"
        \/ ~ok /\ pc \in {"finally", "exited"}

\* A stop program that has found nothing bad so far will leave no recorded
\* service, and a clean report says so; what it signals it has verified.
StopInv ==
    /\ leader = "running" /\ helper.at \in {"term", "kill"} =>
         /\ \A s \in Service : StillKnown(s) => helper.bad \/ s \in helper.managed
         /\ \A s \in helper.managed : svc[s] # "reused"
    /\ leader = "running" /\ helper.at = "write" =>
         \A s \in Service : StillKnown(s) => helper.bad
    /\ report = "clean" \/ cleaned =>
         /\ pc # "stages"
         /\ \A s \in Service : ~StillKnown(s)

IInv ==
    /\ TypeOK /\ Phase /\ ProcessInv /\ InOrder
    /\ UnrecordedFails /\ Started /\ StopInv
    /\ ReserveKept /\ Accounted /\ StrangersSpared

-----------------------------------------------------------------------------
\* What the executor may be.
ExecutorState ==
    [stage : StageName \cup {"none"}, reserved : BOOLEAN,
     reason : Reason, sent : {"none", "term", "kill"},
     result : {"none", "pending", "zero", "nonzero", "refused"}]

LEMMA IdleType == Idle \in ExecutorState
BY DEF Idle, ExecutorState, StageName, Reason

LEMMA LaunchType ==
  ASSUME NEW stage \in StageName, NEW reserved \in BOOLEAN,
         NEW result \in {"pending", "refused"}
  PROVE  [[Idle EXCEPT !.stage = stage, !.reserved = reserved]
             EXCEPT !.result = result] \in ExecutorState
BY DEF Idle, ExecutorState, StageName, Reason

LEMMA StopType ==
  ASSUME ex \in ExecutorState, NEW reason \in Reason
  PROVE  [ex EXCEPT !.reason = reason, !.sent = "term"] \in ExecutorState
BY DEF ExecutorState

LEMMA KillType ==
  ASSUME ex \in ExecutorState
  PROVE  [ex EXCEPT !.sent = "kill"] \in ExecutorState
BY DEF ExecutorState

LEMMA ProgramType ==
  ASSUME NEW h \in {NoHelper, Start, StopProgram}
  PROVE  h \in [at : HelperStep, i : 1 .. NumServices + 1,
                managed : SUBSET Service, bad : BOOLEAN]
<1>1. 1 \in 1 .. NumServices + 1 /\ {} \in SUBSET Service
  BY ServicesAssumption
<1>2. ASSUME NEW at \in HelperStep
      PROVE  [at |-> at, i |-> 1, managed |-> {}, bad |-> FALSE] \in
               [at : HelperStep, i : 1 .. NumServices + 1,
                managed : SUBSET Service, bad : BOOLEAN]
  BY <1>1
<1>3. "none" \in HelperStep /\ "next" \in HelperStep /\ "check" \in HelperStep
  BY DEF HelperStep
<1> QED
  BY <1>2, <1>3 DEF NoHelper, Start, StopProgram

\* Every variable keeps its type.
LEMMA TypeInit == Init => TypeOK
<1> SUFFICES ASSUME Init
             PROVE  TypeOK
  OBVIOUS
<1>1. /\ MaxStages \in 0 .. MaxStages /\ 0 \in 0 .. MaxOutput
      /\ MaxOutput + 1 \in 0 .. MaxOutput + 1
  BY ServicesAssumption, OutputAssumption
<1>2. StageTypeOK
  BY <1>1, IdleType DEF Init, StageInit, StageTypeOK, ExecutorState
<1>3. /\ svc \in [Service -> Process] /\ runtime \in [Service -> Entry]
  BY DEF Init, Process, Entry
<1> QED
  BY <1>1, <1>2, <1>3, ProgramType DEF Init, TypeOK, NotStarted

\* What the stage process keeps in every step of a cycle.
LEMMA StageType ==
  ASSUME TypeOK, [Next]_vars
  PROVE  StageTypeOK'
<1>a. StageTypeOK
  BY DEF TypeOK
<1>b. ex \in ExecutorState
  BY <1>a DEF StageTypeOK, ExecutorState
<1>c. ASSUME ex' \in ExecutorState, time' \in {"work", "reserve", "over"},
             used' \in 0 .. MaxOutput,
             leader' \in {"none", "running", "zero", "nonzero"},
             child' \in BOOLEAN, escaped' \in BOOLEAN
      PROVE  StageTypeOK'
  BY <1>c DEF StageTypeOK, ExecutorState
<1>1. ASSUME NEW stage \in StageName, NEW reserved \in BOOLEAN, Launch(stage, reserved)
      PROVE  StageTypeOK'
  <2>1. ex' \in ExecutorState
    BY <1>1, LaunchType DEF Launch
  <2>2. leader' \in {"none", "running", "zero", "nonzero"}
    BY <1>1, <1>a DEF Launch, StageTypeOK
  <2>3. UNCHANGED <<time, used, child, escaped>>
    BY <1>1 DEF Launch
  <2> QED
    BY <1>a, <1>c, <2>1, <2>2, <2>3 DEF StageTypeOK
<1>2. CASE Executor
  <2>1. Limit <= MaxOutput /\ Limit \in Nat
    BY <1>a, OutputAssumption DEF Limit, StageTypeOK
  <2>2. CASE Expire \/ LeftBehind
    <3>1. ex' \in ExecutorState
      BY <1>b, <2>2, StopType DEF Expire, LeftBehind, Stop, Reason
    <3>2. UNCHANGED <<time, used, leader, child, escaped>>
      BY <2>2 DEF Expire, LeftBehind
    <3> QED
      BY <1>a, <1>c, <3>1, <3>2 DEF StageTypeOK
  <2>5. CASE Kill
    <3>1. ex' \in ExecutorState
      BY <1>b, <2>5, KillType DEF Kill
    <3>2. /\ leader' \in {"none", "running", "zero", "nonzero"} /\ child' = FALSE
          /\ UNCHANGED <<time, used, escaped>>
      BY <1>a, <2>5 DEF Kill, StageTypeOK
    <3> QED
      BY <1>a, <1>c, <3>1, <3>2 DEF StageTypeOK
  <2>3. CASE Read
    <3>1. UNCHANGED <<time, leader, child, escaped>>
      BY <2>3 DEF Read
    <3>2. CASE used + 1 <= Limit
      <4>1. used' = used + 1 /\ UNCHANGED ex
        BY <2>3, <3>2 DEF Read
      <4>2. used' \in 0 .. MaxOutput
        BY <1>a, <2>1, <3>2, <4>1, OutputAssumption DEF StageTypeOK
      <4> QED
        BY <1>a, <1>b, <1>c, <3>1, <4>1, <4>2 DEF StageTypeOK
    <3>3. CASE ~(used + 1 <= Limit)
      <4>1. ex' \in ExecutorState /\ UNCHANGED used
        BY <1>b, <2>3, <3>3, StopType DEF Read, Stop, Reason
      <4> QED
        BY <1>a, <1>c, <3>1, <4>1 DEF StageTypeOK
    <3> QED
      BY <3>2, <3>3
  <2>4. CASE Return
    <3>1. /\ ex' = [ex EXCEPT !.result = Result] /\ leader' = "none"
          /\ UNCHANGED <<time, used, child, escaped>>
      BY <2>4 DEF Return
    <3>2. Result \in {"zero", "nonzero"}
      BY <2>4 DEF Return, Result
    <3>3. ex' \in ExecutorState
      BY <1>b, <3>1, <3>2 DEF ExecutorState
    <3> QED
      BY <1>a, <1>c, <3>1, <3>3 DEF StageTypeOK
  <2> QED
    BY <1>2, <2>2, <2>3, <2>4, <2>5 DEF Executor
<1>3. CASE Fails \/ Interrupted
  <2>1. leader' = "none" /\ child' = FALSE /\ UNCHANGED <<time, used, escaped>>
    BY <1>3 DEF Fails, Interrupted, Break
  <2>2. CASE Fails
    <3>1. ex' = [ex EXCEPT !.reason = "error", !.sent = "kill", !.result = "nonzero"]
      BY <2>2 DEF Fails, Break
    <3>2. ex' \in ExecutorState
      BY <1>b, <3>1 DEF ExecutorState, Reason
    <3> QED
      BY <1>a, <1>c, <2>1, <3>2 DEF StageTypeOK
  <2>3. CASE Interrupted
    <3>1. ex' \in ExecutorState
      BY <2>3, IdleType DEF Interrupted, Break
    <3> QED
      BY <1>a, <1>c, <2>1, <3>1 DEF StageTypeOK
  <2> QED
    BY <1>3, <2>2, <2>3
<1>4. CASE UNCHANGED stageVars
  BY <1>4, <1>a DEF stageVars, StageTypeOK
<1>5. CASE Tick \/ Members
  BY <1>5, <1>a DEF Tick, Members, Fork, Escape, MemberEnds, StageTypeOK
<1>6. CASE OrdinaryStage \/ StartStage \/ StopStage
  BY <1>1, <1>6 DEF OrdinaryStage, StartStage, StopStage, Stage, StageName
<1>7. CASE StageEnds \/ CleanupEnds \/ ControlError
  <2>1. ex' = ex \/ ex' = Idle
    BY <1>7 DEF StageEnds, CleanupEnds, ControlError, Taken
  <2>2. ex' \in ExecutorState
    BY <1>b, <2>1, IdleType
  <2>3. UNCHANGED <<time, used, leader, child, escaped>>
    BY <1>7 DEF StageEnds, CleanupEnds, ControlError, Group
  <2> QED
    BY <1>a, <1>c, <2>2, <2>3 DEF StageTypeOK
<1> USE <1>a DEF StageTypeOK
<1>8. CASE FinallyBlock \/ EmergencyEnds
  BY <1>8 DEF FinallyBlock, EmergencyEnds, Group, stageVars
<1>9. CASE OrdinaryExits \/ StartProgram
  BY <1>9 DEF OrdinaryExits, StartProgram, Examine, Spawn, Record, Settle,
     StartEnds, Abort, TerminateAll, Exits, Exit, Quiet
<1>10. CASE StopProgramSteps
  BY <1>10 DEF StopProgramSteps, CheckEntries, Check, TermAll, KillAll,
     WriteReport, StopEnds, StopAborts, Exits, Exit, Quiet, StopQuiet
<1> QED
  BY <1>2, <1>3, <1>4, <1>5, <1>6, <1>7, <1>8, <1>9, <1>10 DEF Next, Cycle,
     stageVars, Group, Beside, Conclude, CompleteState, ExecutorFails, Interrupt, ServiceEnds,
     Reuse, Outside, vars

\* What the cycle keeps.
LEMMA CycleType ==
  ASSUME TypeOK, [Next]_vars
  PROVE  /\ pc' \in {"stages", "cleanup", "complete", "finally", "emergency", "exited"}
         /\ left' \in 0 .. MaxStages
         /\ attempted' \in BOOLEAN /\ cleaned' \in BOOLEAN
         /\ ok' \in BOOLEAN /\ told' \in BOOLEAN
         /\ base' \in 0 .. MaxOutput + 1
<1> USE DEF TypeOK, StageTypeOK
<1>1. CASE OrdinaryStage
  BY <1>1, ServicesAssumption DEF OrdinaryStage
<1>2. CASE StartStage
  BY <1>2, OutputAssumption DEF StartStage
<1>3. CASE StageEnds \/ ControlError
  BY <1>3 DEF StageEnds, ControlError, Attempted
<1>4. CASE Conclude \/ StopStage \/ CleanupEnds \/ CompleteState
  BY <1>4 DEF Conclude, StopStage, CleanupEnds, CompleteState, cycleVars
<1>5. CASE FinallyBlock
  BY <1>5 DEF FinallyBlock
<1>6. CASE EmergencyEnds
  BY <1>6 DEF EmergencyEnds
<1>7. CASE Interrupt
  BY <1>7 DEF Interrupt
<1>8. CASE UNCHANGED cycleVars
  BY <1>8 DEF cycleVars
<1> QED
  BY <1>1, <1>2, <1>3, <1>4, <1>5, <1>6, <1>7, <1>8 DEF Next, Cycle, Beside,
     ExecutorFails, OrdinaryExits, StartProgram, Examine, Spawn, Record, Settle,
     StartEnds, Abort, TerminateAll, StopProgramSteps, CheckEntries, Check,
     TermAll, KillAll, WriteReport, StopEnds, StopAborts, Quiet, StopQuiet,
     ServiceEnds, Reuse, Outside, vars

\* What the helper and the files keep.
LEMMA HelperType ==
  ASSUME TypeOK, InOrder, [Next]_vars
  PROVE  helper' \in [at : HelperStep, i : 1 .. NumServices + 1,
                      managed : SUBSET Service, bad : BOOLEAN]
<1> USE DEF TypeOK, HelperStep
<1>1. helper.i \in Service => helper.i + 1 \in 1 .. NumServices + 1
  BY ServicesAssumption DEF Service
<1>2. CASE helper' \in {NoHelper, Start, StopProgram}
  BY <1>2, ProgramType
<1>3. CASE Examine \/ Settle
  BY <1>1, <1>3 DEF Examine, Settle, Step, At, InOrder
<1>4. CASE Spawn
  <2>1. helper.i \in Service /\ helper.managed \cup {helper.i} \in SUBSET Service
    BY <1>4 DEF Spawn, At, InOrder
  <2> QED
    BY <1>1, <1>4, <2>1 DEF Spawn, Step
<1>5. CASE Record \/ Abort \/ WriteReport \/ StopAborts
  BY <1>5 DEF Record, Abort, WriteReport, StopAborts, Step
<1>6. CASE CheckEntries
  BY <1>6 DEF CheckEntries, Check, Step, Matching, Living, Recorded
<1>7. CASE TermAll \/ KillAll
  BY <1>7 DEF TermAll, KillAll, Step
<1>8. CASE UNCHANGED helper
  BY <1>8
<1> QED
  BY <1>2, <1>3, <1>4, <1>5, <1>6, <1>7, <1>8 DEF Next, Cycle, OrdinaryStage,
     StartStage, StageEnds, Conclude, StopStage, CleanupEnds, CompleteState,
     FinallyBlock, EmergencyEnds, ControlError, ExecutorFails, Interrupt,
     Stage, Beside, OrdinaryExits, StartProgram, StartEnds, TerminateAll,
     StopProgramSteps, StopEnds, ServiceEnds, Reuse, Outside, vars

LEMMA TypeStep == TypeOK /\ InOrder /\ [Next]_vars => TypeOK'
<1> SUFFICES ASSUME TypeOK, InOrder, [Next]_vars
             PROVE  TypeOK'
  OBVIOUS
<1>1. svc' \in [Service -> Process]
  <2>1. CASE Spawn \/ TerminateAll
    BY <2>1 DEF Spawn, TerminateAll, TypeOK, Process
  <2>2. CASE CheckEntries \/ TermAll \/ KillAll
    BY <2>2 DEF CheckEntries, Check, TermAll, KillAll, TypeOK, Process
  <2>3. ASSUME NEW s \in Service, ServiceEnds(s) \/ Reuse(s)
        PROVE  svc' \in [Service -> Process]
    BY <2>3 DEF ServiceEnds, Reuse, TypeOK, Process
  <2>4. CASE UNCHANGED svc
    BY <2>4 DEF TypeOK
  <2> QED
    BY <2>1, <2>2, <2>3, <2>4 DEF Next, Cycle, OrdinaryStage,
       StartStage, StageEnds, Conclude, StopStage, CleanupEnds, CompleteState,
       FinallyBlock, EmergencyEnds, ControlError, ExecutorFails, Interrupt,
       Stage, Beside, OrdinaryExits, StartProgram, Examine, Record, Settle,
       StartEnds, Abort, StopProgramSteps, WriteReport, StopEnds, StopAborts,
       Files, vars
<1>2. runtime' \in [Service -> Entry]
  <2>1. CASE Examine \/ Record \/ Settle
    BY <2>1 DEF Examine, Record, Settle, Enter, TypeOK, Entry
  <2>2. CASE UNCHANGED runtime
    BY <2>2 DEF TypeOK
  <2> QED
    BY <2>1, <2>2 DEF Next, Cycle, OrdinaryStage,
       StartStage, StageEnds, Conclude, StopStage, CleanupEnds, CompleteState,
       FinallyBlock, EmergencyEnds, ControlError, ExecutorFails, Interrupt,
       Stage, Beside, OrdinaryExits, StartProgram, Spawn, StartEnds, Abort,
       TerminateAll, StopProgramSteps, CheckEntries, Check, TermAll, KillAll,
       WriteReport, StopEnds, StopAborts, Quiet, StopQuiet, Files, ServiceEnds,
       Reuse, Outside, vars
<1>3. report' \in {"missing", "clean", "failed"} /\ harmed' \subseteq Service
  BY DEF TypeOK, Next, Cycle, OrdinaryStage,
       StartStage, StageEnds, Conclude, StopStage, CleanupEnds, CompleteState,
       FinallyBlock, EmergencyEnds, ControlError, ExecutorFails, Interrupt,
       Stage, Beside, OrdinaryExits, StartProgram, Examine, Spawn, Record,
       Settle, StartEnds, Abort, TerminateAll, StopProgramSteps, CheckEntries,
       Check, TermAll, KillAll, WriteReport, StopEnds, StopAborts, Quiet,
       StopQuiet, Signalled, Files, ServiceEnds, Reuse, Outside, vars
<1> QED
  BY <1>1, <1>2, <1>3, StageType, CycleType, HelperType DEF TypeOK

-----------------------------------------------------------------------------
\* Phase and process.  First the steps of the helpers, which share what they
\* leave alone.
HelperMoves == StartProgram \/ StopProgramSteps

LEMMA HelperFrame ==
  ASSUME TypeOK, HelperMoves
  PROVE  /\ UNCHANGED <<time, used, ex, child, escaped, cycleVars>>
         /\ leader = "running" /\ leader' \in {"running", "zero", "nonzero"}
         /\ StartProgram => helper.at \in StartSteps /\ helper'.at \in StartSteps
         /\ StopProgramSteps => helper.at \in StopSteps /\ helper'.at \in StopSteps
<1>1. ASSUME StartProgram
      PROVE  /\ UNCHANGED <<time, used, ex, child, escaped, cycleVars>>
             /\ leader = "running" /\ leader' \in {"running", "zero", "nonzero"}
  BY <1>1 DEF StartProgram, Examine, Spawn, Record, Settle, StartEnds, Abort,
     TerminateAll, At, Exits, Exit, Quiet
<1>2. ASSUME StopProgramSteps
      PROVE  /\ UNCHANGED <<time, used, ex, child, escaped, cycleVars>>
             /\ leader = "running" /\ leader' \in {"running", "zero", "nonzero"}
  BY <1>2 DEF StopProgramSteps, CheckEntries, Check, TermAll, KillAll,
     WriteReport, StopEnds, StopAborts, At, Exits, Exit, Quiet, StopQuiet
<1>3. ASSUME StartProgram
      PROVE  helper.at \in StartSteps /\ helper'.at \in StartSteps
  BY <1>3 DEF StartProgram, Examine, Spawn, Record, Settle, StartEnds, Abort,
     TerminateAll, At, Step, StartSteps, TypeOK
<1>4. ASSUME StopProgramSteps
      PROVE  helper.at \in StopSteps /\ helper'.at \in StopSteps
  BY <1>4 DEF StopProgramSteps, CheckEntries, Check, TermAll, KillAll,
     WriteReport, StopEnds, StopAborts, At, Step, StopSteps, TypeOK
<1> QED
  BY <1>1, <1>2, <1>3, <1>4 DEF HelperMoves

\* What a stage that begins, a step of the executor and a step of its group do.
LEMMA PhaseStep == TypeOK /\ Phase /\ [Next]_vars => Phase'
<1> SUFFICES ASSUME TypeOK, Phase, [Next]_vars
             PROVE  Phase'
  OBVIOUS
<1> USE DEF Phase
<1>1. ex \in [stage : StageName \cup {"none"}, reserved : BOOLEAN,
             reason : Reason, sent : {"none", "term", "kill"},
             result : {"none", "pending", "zero", "nonzero", "refused"}]
  BY DEF TypeOK, StageTypeOK
<1>2. ASSUME NEW stage \in StageName, NEW reserved \in BOOLEAN, Launch(stage, reserved)
      PROVE  ex'.stage = stage /\ ex'.reserved = reserved
  BY <1>2 DEF Launch, Idle
<1>3. Idle.stage = "none"
  BY DEF Idle
<1>4. CASE OrdinaryStage
  BY <1>2, <1>4, <1>3 DEF OrdinaryStage, Stage, StageName
<1>5. CASE StartStage
  <2>1. base' # NotStarted
    BY <1>5, OutputAssumption DEF StartStage, NotStarted, TypeOK, StageTypeOK
  <2> QED
    BY <1>2, <1>5, <1>3, <2>1 DEF StartStage, Stage, StageName
<1>6. CASE StopStage
  BY <1>2, <1>6 DEF StopStage, Stage, StageName, cycleVars, TypeOK
<1>7. CASE StageEnds \/ CleanupEnds \/ Interrupt
  BY <1>3, <1>7 DEF StageEnds, CleanupEnds, Taken, Interrupt, Interrupted, Break
<1>8. CASE ControlError
  BY <1>3, <1>8 DEF ControlError, Taken
<1>9. CASE Conclude
  BY <1>3, <1>9 DEF Conclude, stageVars
<1>10. CASE CompleteState
  BY <1>10 DEF CompleteState, stageVars
<1>11. CASE FinallyBlock
  BY <1>11 DEF FinallyBlock, stageVars
<1>12. CASE EmergencyEnds
  BY <1>12 DEF EmergencyEnds
<1>13. CASE Executor /\ UNCHANGED cycleVars
  <2>1. ex'.stage = ex.stage /\ ex'.reserved = ex.reserved
    BY <1>1, <1>13 DEF Executor, Expire, Read, LeftBehind, Kill, Return, Stop
  <2>2. ex.stage # "none"
    BY <1>13, <1>1 DEF Executor, Expire, Read, LeftBehind, Kill, Return, Running, Idle
  <2> QED
    BY <1>13, <2>1, <2>2 DEF cycleVars
<1>14. CASE ExecutorFails
  <2>1. ex'.stage = ex.stage /\ ex'.reserved = ex.reserved
    BY <1>1, <1>14 DEF ExecutorFails, Fails, Break
  <2>2. ex.stage # "none"
    BY <1>14, <1>1 DEF ExecutorFails, Fails, Break, Running, Idle
  <2> QED
    BY <1>14, <2>1, <2>2 DEF ExecutorFails, cycleVars
<1>15. CASE UNCHANGED <<ex, cycleVars>>
  BY <1>15 DEF cycleVars
<1>16. CASE HelperMoves
  BY <1>15, <1>16, HelperFrame
<1> QED
  BY <1>4, <1>5, <1>6, <1>7, <1>8, <1>9, <1>10, <1>11, <1>12, <1>13, <1>14,
     <1>15, <1>16
  DEF Next, Cycle, Beside, OrdinaryExits, Quiet, HelperMoves, Tick, Members,
      Fork, Escape, MemberEnds, ServiceEnds, Reuse, Outside, stageVars, vars

LEMMA ProcessStep == TypeOK /\ Phase /\ ProcessInv /\ [Next]_vars => ProcessInv'
<1> SUFFICES ASSUME TypeOK, Phase, ProcessInv, [Next]_vars
             PROVE  ProcessInv'
  OBVIOUS
<1> USE DEF ProcessInv, Running
<1>1. ex \in [stage : StageName \cup {"none"}, reserved : BOOLEAN,
             reason : Reason, sent : {"none", "term", "kill"},
             result : {"none", "pending", "zero", "nonzero", "refused"}]
  BY DEF TypeOK, StageTypeOK
<1>2. Idle.stage = "none" /\ Idle.result = "none"
  BY DEF Idle
<1>3. ASSUME NEW stage \in StageName, NEW reserved \in BOOLEAN,
             Launch(stage, reserved), pc # "emergency"
      PROVE  /\ ex'.stage = stage
             /\ ex'.result = "pending" \/ (leader' = "none" /\ child' = FALSE)
  <2>1. leader = "none" /\ child = FALSE
    BY <1>2, <1>3 DEF Launch, Phase, TypeOK, StageTypeOK
  <2> QED
    BY <1>3, <2>1 DEF Launch, Idle
<1>4. CASE OrdinaryStage
  BY <1>3, <1>4 DEF OrdinaryStage, Stage, NoHelper, StageName
<1>5. CASE StartStage
  BY <1>3, <1>5 DEF StartStage, Stage, Start, StageName, StartSteps
<1>6. CASE StopStage
  BY <1>3, <1>6 DEF StopStage, Stage, StopProgram, StageName, StopSteps, cycleVars, TypeOK
<1>7. CASE StageEnds \/ CleanupEnds
  <2>1. ~Running /\ pc # "emergency" /\ ex' = Idle /\ UNCHANGED <<leader, child>>
    BY <1>7 DEF StageEnds, CleanupEnds, Taken, Ended, Group
  <2> QED
    BY <1>2, <2>1
<1>8. CASE ControlError
  <2>1. /\ ~Running /\ pc # "emergency" /\ ex' = Idle
        /\ UNCHANGED <<leader, child>>
    BY <1>8, <1>2 DEF ControlError, Taken, Ended, Group
  <2> QED
    BY <1>2, <2>1
<1>9. CASE Conclude \/ CompleteState
  <2>1. pc # "emergency" /\ ~Running /\ UNCHANGED stageVars
    BY <1>2, <1>9 DEF Conclude, CompleteState, Phase, TypeOK, StageTypeOK, StageName
  <2> QED
    BY <2>1 DEF stageVars
<1>10. CASE FinallyBlock
  <2>1. ~Running /\ pc = "finally" /\ leader = "none"
    BY <1>1, <1>10, <1>2 DEF FinallyBlock, Phase, StageName
  <2> QED
    BY <1>10, <2>1 DEF FinallyBlock, Group, stageVars, StopProgram, StopSteps
<1>11. CASE EmergencyEnds
  BY <1>11 DEF EmergencyEnds, Group
<1>12. CASE ExecutorFails \/ Interrupt
  BY <1>12 DEF ExecutorFails, Interrupt, Fails, Interrupted, Break
<1>13. CASE Executor /\ UNCHANGED <<cycleVars, helper>>
  <2>1. CASE Return
    BY <2>1 DEF Return
  <2>2. CASE Expire \/ Read \/ LeftBehind \/ Kill
    <3>1. /\ ex'.stage = ex.stage /\ ex'.result = "pending" /\ Running
          /\ leader' = leader \/ leader' = "nonzero"
      BY <1>1, <2>2 DEF Expire, Read, LeftBehind, Kill, Stop
    <3> QED
      BY <1>13, <3>1 DEF cycleVars
  <2> QED
    BY <1>13, <2>1, <2>2 DEF Executor
<1>14. CASE OrdinaryExits
  BY <1>14 DEF OrdinaryExits, Exit, Quiet, cycleVars
<1>15. CASE HelperMoves
  BY <1>15, HelperFrame DEF HelperMoves, cycleVars, StartSteps, StopSteps
<1>16. CASE UNCHANGED <<ex, leader, child, helper, cycleVars>>
  BY <1>16 DEF cycleVars
<1>17. CASE Members /\ UNCHANGED <<cycleVars, helper>>
  BY <1>17 DEF Members, Fork, Escape, MemberEnds, cycleVars
<1> QED
  BY <1>4, <1>5, <1>6, <1>7, <1>8, <1>9, <1>10, <1>11, <1>12, <1>13, <1>14,
     <1>15, <1>16, <1>17
  DEF Next, Cycle, Beside, HelperMoves, Tick, ServiceEnds, Reuse, Outside,
      stageVars, vars

-----------------------------------------------------------------------------
\* What is common to all steps: only a launch brings a service up, and neither
\* a failure nor its confession is taken back.
LEMMA ServiceFrame ==
  ASSUME TypeOK, [Next]_vars, ~Spawn, NEW s \in Service
  PROVE  svc'[s] = svc[s] \/ (svc[s] # "none" /\ svc'[s] \notin {"none", "up"})
<1> USE DEF TypeOK
<1>1. CASE TerminateAll
  BY <1>1 DEF TerminateAll
<1>2. CASE CheckEntries \/ TermAll \/ KillAll
  BY <1>2 DEF CheckEntries, Check, TermAll, KillAll, Signalled, Alive
<1>3. ASSUME NEW x \in Service, ServiceEnds(x) \/ Reuse(x)
      PROVE  svc'[s] = svc[s] \/ (svc[s] # "none" /\ svc'[s] \notin {"none", "up"})
  BY <1>3 DEF ServiceEnds, Reuse
<1>4. CASE UNCHANGED svc
  BY <1>4
<1> QED
  BY <1>1, <1>2, <1>3, <1>4 DEF Next, Cycle, OrdinaryStage,
     StartStage, StageEnds, Conclude, StopStage, CleanupEnds, CompleteState,
     FinallyBlock, EmergencyEnds, ControlError, ExecutorFails, Interrupt,
     Stage, Beside, OrdinaryExits, StartProgram, Examine, Record, Settle,
     StartEnds, Abort, StopProgramSteps, WriteReport, StopEnds, StopAborts,
     Files, vars

LEMMA VerdictFrame ==
  ASSUME TypeOK, [Next]_vars
  PROVE  (~ok => ~ok') /\ (told => told')
<1>1. CASE UNCHANGED cycleVars
  BY <1>1 DEF cycleVars
<1>2. CASE HelperMoves
  BY <1>1, <1>2, HelperFrame
<1>3. CASE OrdinaryStage \/ StartStage \/ Conclude
  BY <1>3 DEF OrdinaryStage, StartStage, Conclude
<1>4. CASE StageEnds
  BY <1>4 DEF StageEnds
<1>5. CASE CleanupEnds \/ CompleteState
  <2>1. CASE CleanupEnds
    <3>1. PICK good : told' = (told \/ ~good) /\ ok' = (ok /\ good)
      BY <2>1 DEF CleanupEnds
    <3> QED
      BY <3>1, Zenon
  <2>2. CASE CompleteState
    <3>1. CASE UNCHANGED <<ok, told>>
      BY <3>1
    <3>2. CASE ok' = FALSE /\ told' = told
      BY <3>2
    <3> QED
      BY <2>2, <3>1, <3>2 DEF CompleteState
  <2> QED
    BY <1>5, <2>1, <2>2
<1>6. CASE ControlError \/ Interrupt
  BY <1>6 DEF ControlError, Interrupt
<1>7. CASE FinallyBlock \/ EmergencyEnds
  <2>1. CASE EmergencyEnds
    <3>1. PICK good : told' = (told \/ ~good) /\ ok' = (ok /\ good)
      BY <2>1 DEF EmergencyEnds
    <3> QED
      BY <3>1, Zenon
  <2>2. CASE FinallyBlock
    BY <2>2 DEF FinallyBlock
  <2> QED
    BY <1>7, <2>1, <2>2
<1> QED
  BY <1>1, <1>2, <1>3, <1>4, <1>5, <1>6, <1>7 DEF Next, Cycle, StopStage,
     ExecutorFails, Beside, OrdinaryExits, Quiet, HelperMoves, ServiceEnds,
     Reuse, Outside, vars

\* A step of no helper leaves the files alone, and starts a program or none.
LEMMA Apart ==
  ASSUME TypeOK, Phase, ProcessInv, [Next]_vars, ~HelperMoves
  PROVE  /\ UNCHANGED <<runtime, report, harmed>>
         /\ \/ helper' = helper /\ (leader' = "running" => leader = "running")
            \/ helper' = NoHelper
            \/ helper' = Start /\ StartStage
            \/ helper' = StopProgram /\ (StopStage \/ FinallyBlock)
<1>1. UNCHANGED <<runtime, report, harmed>>
  BY DEF Next, HelperMoves, Cycle, OrdinaryStage, StartStage, StageEnds,
     Conclude, StopStage, CleanupEnds, CompleteState, FinallyBlock,
     EmergencyEnds, ControlError, ExecutorFails, Interrupt, Stage, Beside,
     OrdinaryExits, Quiet, Files, ServiceEnds, Reuse, Outside, vars
<1>2. CASE Executor /\ UNCHANGED helper
  BY <1>1, <1>2 DEF Executor, Expire, Read, LeftBehind, Kill, Return
<1>3. CASE UNCHANGED <<helper, leader>>
  BY <1>1, <1>3
<1>4. CASE OrdinaryStage \/ StartStage \/ StopStage
  BY <1>1, <1>4 DEF OrdinaryStage, StartStage, StopStage, Stage
<1>5. CASE FinallyBlock
  BY <1>1, <1>5 DEF FinallyBlock, stageVars
<1>6. CASE OrdinaryExits
  BY <1>1, <1>6 DEF OrdinaryExits, Exit
<1> QED
  BY <1>1, <1>2, <1>3, <1>4, <1>5, <1>6 DEF Next, HelperMoves, Cycle,
     StageEnds, Conclude, CleanupEnds, CompleteState, EmergencyEnds,
     ControlError, ExecutorFails, Interrupt, Beside, Tick, Members, Fork,
     Escape, MemberEnds, ServiceEnds, Reuse, Outside, stageVars, vars

\* The base of the output changes only when the start stage begins.
LEMMA BaseFrame ==
  ASSUME TypeOK, [Next]_vars
  PROVE  UNCHANGED base \/ StartStage
<1>1. HelperMoves => UNCHANGED base
  BY HelperFrame DEF cycleVars
<1> QED
  BY <1>1 DEF Next, HelperMoves, Cycle, OrdinaryStage, StageEnds, Conclude,
     StopStage, CleanupEnds, CompleteState, FinallyBlock, EmergencyEnds,
     ControlError, ExecutorFails, Interrupt, Beside, OrdinaryExits, Quiet,
     ServiceEnds, Reuse, Outside, cycleVars, vars

LEMMA InOrderStep ==
  TypeOK /\ Phase /\ ProcessInv /\ InOrder /\ [Next]_vars => InOrder'
<1> SUFFICES ASSUME TypeOK, Phase, ProcessInv, InOrder, [Next]_vars
             PROVE  InOrder'
  OBVIOUS
<1>1. /\ svc \in [Service -> Process] /\ runtime \in [Service -> Entry]
      /\ helper \in [at : HelperStep, i : 1 .. NumServices + 1,
                     managed : SUBSET Service, bad : BOOLEAN]
      /\ Service \subseteq Nat /\ helper.i \in Nat
  BY ServicesAssumption DEF TypeOK, Service
<1>2. base' = NotStarted => base = NotStarted
  <2>1. StartStage => base' # NotStarted
    BY OutputAssumption DEF StartStage, NotStarted, TypeOK, StageTypeOK
  <2> QED
    BY <2>1, BaseFrame
<1>3. Spawn => base # NotStarted
  BY DEF Spawn, At, ProcessInv, Phase, StopSteps
<1>4. base' = NotStarted => \A s \in Service : svc'[s] = "none"
  BY <1>2, <1>3, ServiceFrame DEF InOrder
<1>5. CASE StartProgram
  <2>1. CASE Examine
    <3>1. /\ leader = "running" /\ helper.at = "next" /\ helper.i \in Service
          /\ UNCHANGED <<leader, svc>>
      BY <2>1 DEF Examine, At
    <3>2. \A s \in Service : s >= helper.i => svc[s] = "none"
      BY <3>1 DEF InOrder
    <3>3. CASE /\ helper' = [helper EXCEPT !.at = "launch"]
              /\ runtime' = [runtime EXCEPT ![helper.i] = "intent"]
      BY <1>1, <1>4, <3>1, <3>2, <3>3 DEF InOrder
    <3>4. CASE /\ \E bad \in {helper.bad, TRUE} :
                    helper' = [helper EXCEPT !.at = "next", !.i = @ + 1, !.bad = bad]
              /\ UNCHANGED runtime
      <4>1. helper'.at = "next" /\ helper'.i = helper.i + 1
        BY <1>1, <3>4
      <4> QED
        BY <1>1, <1>4, <3>1, <3>2, <3>4, <4>1 DEF InOrder
    <3> QED
      BY <2>1, <3>3, <3>4 DEF Examine, Step, Enter
  <2>2. CASE Spawn
    <3>1. /\ leader = "running" /\ helper.at = "launch"
          /\ UNCHANGED <<leader, runtime>>
          /\ helper.i \in Service /\ runtime[helper.i] = "intent"
          /\ \A s \in Service : s >= helper.i => svc[s] = "none"
      BY <2>2 DEF Spawn, At, InOrder
    <3>2. CASE /\ svc' = [svc EXCEPT ![helper.i] = "up"]
              /\ helper' = [helper EXCEPT !.at = "record",
                                         !.managed = @ \cup {helper.i}]
      <4>1. /\ helper'.at = "record" /\ helper'.i = helper.i
            /\ helper.i \in helper'.managed
        BY <1>1, <3>2
      <4>2. base' # NotStarted
        BY <1>2, <1>3, <2>2
      <4>3. \A s \in Service : s > helper.i => svc'[s] = "none"
        BY <1>1, <3>1, <3>2
      <4>4. \A s \in Service : svc'[s] # "none" => runtime'[s] # "absent"
        BY <1>1, <3>1, <3>2 DEF InOrder
      <4> QED
        BY <3>1, <4>1, <4>2, <4>3, <4>4 DEF InOrder
    <3>3. CASE /\ helper' = [helper EXCEPT !.at = "next", !.i = @ + 1, !.bad = TRUE]
              /\ UNCHANGED svc
      <4>1. helper'.at = "next" /\ helper'.i = helper.i + 1
        BY <1>1, <3>3
      <4> QED
        BY <1>1, <1>4, <3>1, <3>3, <4>1 DEF InOrder
    <3> QED
      BY <2>2, <3>2, <3>3 DEF Spawn, Step
  <2>3. CASE Record
    BY <1>1, <1>4, <2>3 DEF Record, At, Step, Enter, InOrder
  <2>4. CASE Settle
    BY <1>1, <1>4, <2>4 DEF Settle, At, Step, Enter, InOrder
  <2>5. CASE StartEnds
    BY <1>1, <1>4, <2>5 DEF StartEnds, At, Exits, Exit, InOrder
  <2>6. CASE Abort
    BY <1>1, <1>4, <2>6 DEF Abort, Step, InOrder
  <2>7. CASE TerminateAll
    BY <1>1, <1>4, <2>7 DEF TerminateAll, At, Exits, Exit, InOrder
  <2> QED
    BY <1>5, <2>1, <2>2, <2>3, <2>4, <2>5, <2>6, <2>7 DEF StartProgram
<1>6. ASSUME ~StartProgram, UNCHANGED runtime
      PROVE  /\ \A s \in Service : svc[s] = "none" => svc'[s] = "none"
             /\ \A s \in Service : svc'[s] # "none" => runtime'[s] # "absent"
  BY <1>6, ServiceFrame DEF StartProgram, InOrder
<1>7. CASE StopProgramSteps
  <2>1. UNCHANGED runtime
    BY <1>7 DEF StopProgramSteps, CheckEntries, Check, TermAll, KillAll,
       WriteReport, StopEnds, StopAborts, Quiet, StopQuiet
  <2>2. helper.at \in StopSteps /\ helper'.at \in StopSteps
    BY <1>7, HelperFrame DEF HelperMoves
  <2>3. ~StartProgram
    BY <2>2, HelperFrame DEF StartSteps, StopSteps, HelperMoves
  <2> QED
    BY <1>4, <1>6, <2>1, <2>2, <2>3 DEF InOrder, StopSteps
<1>8. CASE ~HelperMoves
  <2>1. UNCHANGED runtime /\ ~StartProgram
    BY <1>8, Apart DEF HelperMoves
  <2>2. CASE helper' = helper /\ (leader' = "running" => leader = "running")
    BY <1>4, <1>6, <2>1, <2>2 DEF InOrder
  <2>3. CASE helper' = NoHelper \/ helper' = StopProgram
    BY <1>4, <1>6, <2>1, <2>3 DEF InOrder, NoHelper, StopProgram
  <2>4. CASE helper' = Start /\ StartStage
    <3>1. \A s \in Service : svc'[s] = "none"
      BY <1>6, <2>1, <2>4 DEF StartStage, InOrder
    <3> QED
      BY <1>4, <2>4, <3>1 DEF InOrder, Start
  <2> QED
    BY <1>8, <2>2, <2>3, <2>4, Apart
<1> QED
  BY <1>5, <1>7, <1>8 DEF HelperMoves

-----------------------------------------------------------------------------
\* How a cycle comes to have attempted the start, and how the verdict fares when
\* the stage that started is over.
LEMMA CycleMoves ==
  ASSUME TypeOK, Phase, ProcessInv, [Next]_vars, ex.stage = "start"
  PROVE  \/ /\ ex'.stage = "start" /\ UNCHANGED <<ok, attempted, pc>>
            /\ \/ ex'.result = ex.result
               \/ ex.result = "pending" /\ ex'.result \in {"zero", "nonzero"}
         \/ StageEnds \/ ControlError \/ Interrupt
<1>1. /\ pc = "stages" /\ ex # Idle
      /\ ex \in [stage : StageName \cup {"none"}, reserved : BOOLEAN,
                 reason : Reason, sent : {"none", "term", "kill"},
                 result : {"none", "pending", "zero", "nonzero", "refused"}]
  BY DEF Phase, Idle, TypeOK, StageTypeOK
<1>2. CASE Executor /\ UNCHANGED cycleVars
  <2>1. CASE Expire \/ Read \/ LeftBehind \/ Kill
    BY <1>1, <1>2, <2>1 DEF Expire, Read, LeftBehind, Kill, Stop, cycleVars
  <2>2. CASE Return
    <3>1. Result \in {"zero", "nonzero"}
      BY <2>2 DEF Return, Result
    <3> QED
      BY <1>1, <1>2, <2>2, <3>1 DEF Return, Running, cycleVars
  <2> QED
    BY <1>2, <2>1, <2>2 DEF Executor
<1>3. CASE ExecutorFails
  BY <1>1, <1>3 DEF ExecutorFails, Fails, Break, Running, cycleVars
<1>4. CASE UNCHANGED <<ex, cycleVars>>
  BY <1>4 DEF cycleVars
<1>5. CASE HelperMoves
  BY <1>4, <1>5, HelperFrame
<1>6. ~(OrdinaryStage \/ StartStage \/ Conclude \/ StopStage \/ CleanupEnds
        \/ CompleteState \/ FinallyBlock \/ EmergencyEnds)
  BY <1>1 DEF OrdinaryStage, StartStage, Stage, Launch, Conclude, StopStage,
     CleanupEnds, CompleteState, FinallyBlock, EmergencyEnds
<1> QED
  BY <1>2, <1>3, <1>4, <1>5, <1>6 DEF Next, HelperMoves, Cycle, Beside,
     OrdinaryExits, Quiet, Tick, Members, Fork, Escape, MemberEnds,
     ServiceEnds, Reuse, Outside, stageVars, vars

\* A service of a cycle that has forgotten it never comes with a verdict: what
\* was launched belongs to a start that was attempted or interrupted.
LEMMA StartedStep ==
  TypeOK /\ Phase /\ ProcessInv /\ InOrder /\ Started /\ [Next]_vars => Started'
<1> SUFFICES ASSUME TypeOK, Phase, ProcessInv, InOrder, Started, [Next]_vars,
                    NEW s \in Service, svc'[s] # "none"
             PROVE  \/ attempted'
                    \/ ex'.stage = "start" /\ ex'.result # "refused"
                    \/ ~ok' /\ pc' \in {"finally", "exited"}
  BY DEF Started
<1>1. CASE Spawn
  BY <1>1 DEF Spawn, At, Quiet, cycleVars, ProcessInv, Running, StopSteps
<1>2. CASE ~Spawn
  <2>1. svc[s] # "none"
    BY <1>2, ServiceFrame
  <2>2. CASE attempted
    <3>1. UNCHANGED attempted \/ attempted' = Attempted
      BY HelperFrame DEF Next, HelperMoves, Cycle, OrdinaryStage, StartStage,
         StageEnds, Conclude, StopStage, CleanupEnds, CompleteState,
         FinallyBlock, EmergencyEnds, ControlError, ExecutorFails, Interrupt,
         Beside, OrdinaryExits, Quiet, ServiceEnds, Reuse, Outside, cycleVars,
         vars
    <3> QED
      BY <2>2, <3>1 DEF Attempted
  <2>3. CASE ex.stage = "start" /\ ex.result # "refused"
    <3>1. CASE StageEnds \/ ControlError
      <4>1. ex.result # "refused" /\ ex.stage = "start" /\ attempted' = Attempted
        BY <2>3, <3>1 DEF StageEnds, ControlError
      <4> QED
        BY <4>1 DEF Attempted
    <3>2. CASE Interrupt
      BY <3>2 DEF Interrupt
    <3> QED
      BY <2>3, <3>1, <3>2, CycleMoves
  <2>4. CASE ~ok /\ pc \in {"finally", "exited"} /\ ~attempted
    <3>1. ~ok'
      BY <2>4, VerdictFrame
    <3>2. ex = Idle
      BY <2>4 DEF Phase, TypeOK, StageTypeOK, StageName
    <3>3. ex.result = "none"
      BY <3>2 DEF Idle
    <3>4. pc' \in {"finally", "exited"}
      BY <2>4, <3>3, HelperFrame DEF Next, HelperMoves, Cycle, OrdinaryStage, StartStage,
         StageEnds, Conclude, StopStage, CleanupEnds, CompleteState,
         FinallyBlock, EmergencyEnds, ControlError, ExecutorFails, Fails, Break,
         Running, Interrupt, Interrupted, Beside, OrdinaryExits, Quiet,
         ServiceEnds, Reuse, Outside, cycleVars, vars
    <3> QED
      BY <3>1, <3>4
  <2> QED
    BY <2>1, <2>2, <2>3, <2>4 DEF Started
<1> QED
  BY <1>1, <1>2

\* The start program works in its stage only.
LEMMA StartRuns ==
  ASSUME TypeOK, Phase, ProcessInv, StartProgram
  PROVE  ex.stage = "start" /\ Running /\ pc = "stages" /\ leader = "running"
<1>1. helper.at \in StartSteps /\ leader = "running"
  BY HelperFrame DEF HelperMoves
<1> QED
  BY <1>1 DEF ProcessInv, Phase, StartSteps, StopSteps

\* An entry changes by the start program, and not from a pid back to none.
LEMMA RuntimeFrame ==
  ASSUME TypeOK, Phase, ProcessInv, InOrder, [Next]_vars, NEW s \in Service
  PROVE  /\ ~StartProgram => UNCHANGED runtime
         /\ svc[s] # "none" /\ runtime[s] \in {"pid", "known"} =>
              runtime'[s] \in {"pid", "known"}
<1>1. ASSUME ~StartProgram
      PROVE  UNCHANGED runtime
  <2>1. CASE StopProgramSteps
    BY <2>1 DEF StopProgramSteps, CheckEntries, Check, TermAll, KillAll,
       WriteReport, StopEnds, StopAborts, Quiet, StopQuiet
  <2> QED
    BY <1>1, <2>1, Apart DEF HelperMoves
<1>2. CASE StartProgram
  <2>1. CASE Examine
    <3>1. svc[helper.i] = "none"
      BY ServicesAssumption, <2>1 DEF Examine, At, InOrder, Service
    <3> QED
      BY <1>2, <2>1, <3>1 DEF Examine, Enter, TypeOK
  <2>2. CASE Record \/ Settle
    BY <1>2, <2>2 DEF Record, Settle, Enter, TypeOK
  <2>3. CASE UNCHANGED runtime
    BY <1>2, <2>3
  <2> QED
    BY <1>2, <2>1, <2>2, <2>3 DEF StartProgram, Spawn, StartEnds, Abort,
       TerminateAll
<1> QED
  BY <1>1, <1>2

\* Who is up without a pid was so before, or was launched just now.
LEMMA UnrecordedBefore ==
  ASSUME TypeOK, Phase, ProcessInv, InOrder, [Next]_vars, NEW s \in Service,
         Unrecorded(s)'
  PROVE  \/ Unrecorded(s) /\ svc[s] = "up"
         \/ /\ Spawn /\ helper.i = s
            /\ helper'.at = "record" /\ helper'.i = s
<1>1. CASE Spawn /\ svc[s] # "up"
  BY <1>1 DEF Spawn, Step, Unrecorded, TypeOK
<1>2. CASE svc[s] = "up"
  BY <1>2, RuntimeFrame DEF Unrecorded
<1>3. CASE ~Spawn
  BY <1>2, <1>3, ServiceFrame DEF Unrecorded
<1> QED
  BY <1>1, <1>2, <1>3

\* The start stage fails when its program dies before it could write down what it
\* had launched, and a failed start stage fails the cycle.
LEMMA UnrecordedFailsStep ==
  TypeOK /\ Phase /\ ProcessInv /\ InOrder /\ UnrecordedFails /\ [Next]_vars
    => UnrecordedFails'
<1> SUFFICES ASSUME TypeOK, Phase, ProcessInv, InOrder, UnrecordedFails, [Next]_vars,
                    NEW s \in Service, Unrecorded(s)'
             PROVE  \/ ~ok'
                    \/ /\ ex'.stage = "start" /\ Running'
                       /\ \/ leader' = "nonzero"
                          \/ /\ leader' = "running" /\ helper'.at = "record"
                             /\ helper'.i = s
                          \/ /\ leader' = "running" /\ helper'.at = "abort"
                             /\ s \in helper'.managed
                    \/ ex'.stage = "start" /\ ex'.result = "nonzero"
  BY DEF UnrecordedFails
<1> DEFINE Dying == \/ leader = "nonzero"
                    \/ leader = "running" /\ helper.at = "record" /\ helper.i = s
                    \/ /\ leader = "running" /\ helper.at = "abort"
                       /\ s \in helper.managed
<1>1. CASE Spawn /\ helper'.at = "record" /\ helper'.i = s
  <2>1. StartProgram /\ UNCHANGED <<ex, leader>>
    BY <1>1 DEF Spawn, Quiet, StartProgram
  <2> QED
    BY <1>1, <2>1, StartRuns DEF Running
<1>2. CASE ~ok
  BY <1>2, VerdictFrame
<1>3. ASSUME Unrecorded(s), ex.stage = "start", Running, Dying, ~(ok' = FALSE)
      PROVE  \/ /\ ex'.stage = "start" /\ Running' /\ Dying'
             \/ ex'.stage = "start" /\ ex'.result = "nonzero"
  <2>1. ~(StageEnds \/ ControlError \/ Interrupt)
    BY <1>3 DEF StageEnds, ControlError, Interrupt, Taken, Ended, Running
  <2>2. CASE Return /\ UNCHANGED <<cycleVars, helper>>
    <3>1. leader = "nonzero" /\ Result = "nonzero"
      BY <1>3, <2>2 DEF Return, Result
    <3>2. ex' = [ex EXCEPT !.result = "nonzero"]
      BY <2>2, <3>1 DEF Return
    <3> QED
      BY <1>3, <3>2 DEF TypeOK, StageTypeOK
  <2>3. CASE ExecutorFails
    BY <1>3, <2>3 DEF ExecutorFails, Fails, Break, TypeOK, StageTypeOK
  <2>4. CASE (Expire \/ Read \/ LeftBehind \/ Kill) /\ UNCHANGED <<cycleVars, helper>>
    <3>1. ex'.stage = ex.stage /\ ex'.result = ex.result
      BY <2>4 DEF Expire, Read, LeftBehind, Kill, Stop, TypeOK, StageTypeOK
    <3>2. leader' = leader \/ leader' = "nonzero"
      BY <2>4 DEF Expire, Read, LeftBehind, Kill
    <3> QED
      BY <1>3, <2>4, <3>1, <3>2 DEF Running
  <2>5. CASE StartProgram
    <3>1. UNCHANGED ex /\ leader = "running"
      BY <2>5, HelperFrame DEF HelperMoves
    <3>2. CASE Abort
      BY <1>3, <3>1, <3>2 DEF Abort, Step, InOrder, Running, TypeOK
    <3>3. CASE Record
      BY <1>3, <3>1, <3>3 DEF Record, Enter, At, Unrecorded, TypeOK
    <3>4. CASE TerminateAll
      BY <1>3, <3>1, <3>4 DEF TerminateAll, At, Unrecorded, TypeOK
    <3> QED
      BY <1>3, <2>5, <3>1, <3>2, <3>3, <3>4 DEF StartProgram, Examine, Spawn,
         Settle, StartEnds, At
  <2>6. ~StopProgramSteps
    BY <1>3, HelperFrame DEF HelperMoves, StopSteps, ProcessInv, Phase, Running, StartSteps
  <2>7. CASE UNCHANGED <<ex, leader, helper>>
    BY <1>3, <2>7 DEF Running
  <2>8. ~(OrdinaryStage \/ StartStage \/ Conclude \/ StopStage \/ CleanupEnds
          \/ CompleteState \/ FinallyBlock \/ EmergencyEnds \/ OrdinaryExits)
    <3>1. pc = "stages" /\ ex # Idle
      BY <1>3 DEF Phase, Idle
    <3> QED
      BY <1>3, <3>1 DEF OrdinaryStage, StartStage, Stage, Launch, Conclude,
         StopStage, CleanupEnds, CompleteState, FinallyBlock, EmergencyEnds,
         OrdinaryExits
  <2> QED
    BY <2>1, <2>2, <2>3, <2>4, <2>5, <2>6, <2>7, <2>8 DEF Next, Cycle, Beside,
       Executor, Tick, Members, Fork, Escape, MemberEnds, ServiceEnds, Reuse,
       Outside, stageVars, vars
<1>4. ASSUME ex.stage = "start", ex.result = "nonzero"
      PROVE  \/ ok' = FALSE
             \/ ex'.stage = "start" /\ ex'.result = "nonzero"
  <2>1. CASE StageEnds
    BY <1>4, <2>1 DEF StageEnds
  <2>2. CASE ControlError \/ Interrupt
    BY <2>2 DEF ControlError, Interrupt
  <2> QED
    BY <1>4, <2>1, <2>2, CycleMoves
<1>5. Unrecorded(s) =>
        \/ ~ok
        \/ ex.stage = "start" /\ Running /\ Dying
        \/ ex.stage = "start" /\ ex.result = "nonzero"
  BY DEF UnrecordedFails
<1> QED
  BY <1>1, <1>2, <1>3, <1>4, <1>5, UnrecordedBefore

-----------------------------------------------------------------------------
\* A service that is up with its pid written down was so before, save for what
\* the start program writes.
LEMMA KnownBefore ==
  ASSUME TypeOK, Phase, ProcessInv, InOrder, [Next]_vars, ~StartProgram,
         NEW s \in Service, StillKnown(s)'
  PROVE  StillKnown(s)
<1>1. ~Spawn /\ UNCHANGED runtime
  BY RuntimeFrame DEF StartProgram
<1> QED
  BY <1>1, ServiceFrame DEF StillKnown

\* While a stop program is between its check and its end, it knows of every
\* recorded service, or of something bad.
LEMMA StopProgramStep ==
  ASSUME TypeOK, Phase, ProcessInv, InOrder, StopInv, [Next]_vars, StopProgramSteps
  PROVE  /\ helper'.at \in {"term", "kill"} =>
              /\ \A s \in Service : StillKnown(s)' => helper'.bad \/ s \in helper'.managed
              /\ \A s \in helper'.managed : svc'[s] # "reused"
         /\ helper'.at = "write" => \A s \in Service : StillKnown(s)' => helper'.bad
         /\ report' = "clean" => \A s \in Service : ~StillKnown(s)'
<1>1. /\ helper.at \in StopSteps /\ helper'.at \in StopSteps /\ leader = "running"
      /\ UNCHANGED <<pc, cleaned>> /\ ~StartProgram
  BY HelperFrame DEF HelperMoves, cycleVars, StartSteps, StopSteps
<1>2. ASSUME NEW s \in Service, StillKnown(s)'
      PROVE  StillKnown(s)
  BY <1>1, <1>2, KnownBefore
<1>3. ASSUME report = "clean"
      PROVE  \A s \in Service : ~StillKnown(s)'
  BY <1>2, <1>3 DEF StopInv
<1>4. CASE CheckEntries
  <2>1. PICK matching \in SUBSET Matching : Check(matching, Living # matching)
    BY <1>4 DEF CheckEntries
  <2>2. /\ helper'.at = "term" /\ helper'.managed = matching
        /\ helper'.bad = (Living # matching) /\ report' = report
    BY <2>1 DEF Check, Step, TypeOK
  <2>3. ASSUME NEW s \in Service, StillKnown(s)
        PROVE  s \in Living
    BY <2>3 DEF StillKnown, Living, Recorded, Alive
  <2>4. ASSUME NEW s \in matching
        PROVE  svc'[s] # "reused"
    BY <2>1, <2>4 DEF Check, Matching, Matches, Living, Recorded
  <2> QED
    BY <1>2, <1>3, <2>2, <2>3, <2>4
<1>5. CASE TermAll
  <2>1. /\ helper.at = "term" /\ helper'.at = "kill" /\ UNCHANGED <<svc, report>>
        /\ helper'.managed = helper.managed /\ helper'.bad = helper.bad
    BY <1>5 DEF TermAll, At, Step, TypeOK
  <2> QED
    BY <1>1, <1>2, <1>3, <2>1 DEF StopInv
<1>6. CASE KillAll
  <2>1. PICK stuck \in SUBSET Signalled :
           /\ svc' = [s \in Service |-> IF s \in Signalled \ stuck THEN "gone"
                                        ELSE svc[s]]
           /\ helper' = [helper EXCEPT !.at = "write", !.bad = @ \/ stuck # {}]
    BY <1>6 DEF KillAll, Step
  <2>2. /\ helper.at = "kill" /\ helper'.at = "write" /\ report' = report
        /\ helper'.bad = (helper.bad \/ stuck # {})
    BY <1>6, <2>1 DEF KillAll, At, TypeOK
  <2>3. ASSUME NEW s \in Service, StillKnown(s)', ~helper.bad, stuck = {}
        PROVE  FALSE
    <3>1. s \in helper.managed /\ svc[s] = "up"
      BY <1>1, <1>2, <2>2, <2>3 DEF StopInv, StillKnown
    <3>2. s \in Signalled \ stuck
      BY <2>3, <3>1 DEF Signalled, Alive
    <3> QED
      BY <2>1, <2>3, <3>2 DEF StillKnown
  <2> QED
    BY <1>3, <2>2, <2>3
<1>7. CASE WriteReport
  <2>1. /\ helper.at = "write" /\ helper'.at = "written"
        /\ report' = "clean" => ~helper.bad
    BY <1>7 DEF WriteReport, At, Step, TypeOK
  <2> QED
    BY <1>1, <1>2, <2>1 DEF StopInv
<1>8. CASE StopEnds
  <2>1. helper'.at = "written" /\ report' = report
    BY <1>8 DEF StopEnds, At
  <2> QED
    BY <1>3, <2>1
<1>9. CASE StopAborts
  BY <1>9 DEF StopAborts, Step, TypeOK
<1> QED
  BY <1>4, <1>5, <1>6, <1>7, <1>8, <1>9 DEF StopProgramSteps

\* No number that was verified is signalled for another program's: who gets it
\* meanwhile is not the stop program's to tell.
LEMMA ReusedBefore ==
  ASSUME TypeOK, [Next]_vars, ~HelperMoves, NEW s \in Service,
         leader = "running", helper.at \in {"term", "kill"}, s \in helper.managed,
         svc[s] # "reused"
  PROVE  svc'[s] # "reused"
<1>1. ASSUME NEW x \in Service, ServiceEnds(x) \/ Reuse(x)
      PROVE  svc'[s] # "reused"
  BY <1>1 DEF ServiceEnds, Reuse, TypeOK
<1> QED
  BY <1>1 DEF HelperMoves, Next, Cycle, OrdinaryStage,
     StartStage, StageEnds, Conclude, StopStage, CleanupEnds, CompleteState,
     FinallyBlock, EmergencyEnds, ControlError, ExecutorFails, Interrupt,
     Stage, Beside, OrdinaryExits, Files, vars

\* The phase of the stages does not come back.
LEMMA NoReturn ==
  ASSUME TypeOK, [Next]_vars
  PROVE  pc # "stages" => pc' # "stages"
<1>1. HelperMoves => UNCHANGED pc
  BY HelperFrame DEF cycleVars
<1> QED
  BY <1>1 DEF Next, HelperMoves, Cycle, OrdinaryStage, StartStage, StageEnds,
     Conclude, StopStage, CleanupEnds, CompleteState, FinallyBlock,
     EmergencyEnds, ControlError, ExecutorFails, Interrupt, Beside,
     OrdinaryExits, Quiet, ServiceEnds, Reuse, Outside, cycleVars, vars

\* Cleanup is complete only with a clean report.
LEMMA CleanedFrame ==
  ASSUME TypeOK, [Next]_vars
  PROVE  cleaned' => cleaned \/ (report = "clean" /\ CleanupEnds)
<1>1. CASE CleanupEnds
  BY <1>1 DEF CleanupEnds
<1>2. CASE UNCHANGED cleaned
  BY <1>2 DEF TypeOK
<1>3. HelperMoves => UNCHANGED cleaned
  BY HelperFrame DEF cycleVars
<1> QED
  BY <1>1, <1>2, <1>3 DEF Next, HelperMoves, Cycle, OrdinaryStage, StartStage, StageEnds,
     Conclude, StopStage, CompleteState, FinallyBlock, EmergencyEnds,
     ControlError, ExecutorFails, Interrupt, Beside, OrdinaryExits, Quiet,
     ServiceEnds, Reuse, Outside, cycleVars, vars

LEMMA StopInvStep ==
  TypeOK /\ Phase /\ ProcessInv /\ InOrder /\ StopInv /\ [Next]_vars => StopInv'
<1> SUFFICES ASSUME TypeOK, Phase, ProcessInv, InOrder, StopInv, [Next]_vars
             PROVE  StopInv'
  OBVIOUS
<1>1. CASE StartProgram
  <2>1. pc = "stages" /\ helper'.at \in StartSteps /\ UNCHANGED <<pc, cleaned>>
    BY <1>1, StartRuns, HelperFrame DEF HelperMoves, cycleVars
  <2>2. report # "clean" /\ ~cleaned /\ report' = report
    BY <1>1, <2>1 DEF StopInv, StartProgram, Examine, Spawn, Record, Settle,
       StartEnds, Abort, TerminateAll
  <2> QED
    BY <2>1, <2>2 DEF StopInv, StartSteps
<1>2. CASE StopProgramSteps
  <2>1. pc # "stages" /\ UNCHANGED <<pc, cleaned>>
    BY <1>2, HelperFrame DEF HelperMoves, cycleVars, ProcessInv, Phase,
       StartSteps, StopSteps
  <2>2. cleaned => \A s \in Service : ~StillKnown(s)'
    <3>1. ~StartProgram
      BY <1>2, HelperFrame DEF HelperMoves, StartSteps, StopSteps
    <3> QED
      BY <3>1, KnownBefore DEF StopInv
  <2> QED
    BY <1>2, <2>1, <2>2, StopProgramStep DEF StopInv
<1>3. CASE ~HelperMoves
  <2>1. ~StartProgram /\ report' = report
    BY <1>3, Apart DEF HelperMoves
  <2>2. \A s \in Service : StillKnown(s)' => StillKnown(s)
    BY <2>1, KnownBefore
  <2>3. ASSUME report' = "clean" \/ cleaned'
        PROVE  pc' # "stages" /\ \A s \in Service : ~StillKnown(s)'
    BY <2>1, <2>2, <2>3, NoReturn, CleanedFrame DEF StopInv
  <2>4. CASE helper' = helper /\ (leader' = "running" => leader = "running")
    <3>1. helper.managed \subseteq Service
      BY DEF TypeOK
    <3> QED
      BY <1>3, <2>2, <2>3, <2>4, <3>1, ReusedBefore DEF StopInv
  <2>5. CASE helper' \in {NoHelper, Start, StopProgram}
    BY <2>3, <2>5 DEF StopInv, NoHelper, Start, StopProgram
  <2> QED
    BY <1>3, <2>4, <2>5, Apart
<1> QED
  BY <1>1, <1>2, <1>3 DEF HelperMoves

-----------------------------------------------------------------------------
\* The reserve of output.
LEMMA ReserveStep == TypeOK /\ Phase /\ ReserveKept /\ [Next]_vars => ReserveKept'
<1> SUFFICES ASSUME TypeOK, Phase, ReserveKept, [Next]_vars,
                    (attempted' /\ pc' = "stages") \/ ex'.stage = "start"
             PROVE  used' <= MaxOutput - OutputReserve \/ used' = base'
  BY DEF ReserveKept
<1>1. CASE StartStage
  BY <1>1 DEF StartStage, Stage, Launch
<1>2. CASE Read /\ UNCHANGED cycleVars
  <2>1. ex'.stage = ex.stage
    BY <1>2 DEF Read, Stop, TypeOK, StageTypeOK
  <2>2. (attempted /\ pc = "stages") \/ ex.stage = "start"
    BY <1>2, <2>1 DEF cycleVars
  <2>3. ex.reserved
    <3>1. ex.stage \in {"ordinary", "start", "stop"}
      BY <1>2 DEF Read, Running, Phase, Idle, TypeOK, StageTypeOK, StageName
    <3> QED
      BY <2>2, <3>1 DEF Phase
  <2>4. used' = used \/ used' <= MaxOutput - OutputReserve
    BY <1>2, <2>3 DEF Read, Limit
  <2> QED
    BY <1>2, <2>2, <2>4 DEF ReserveKept, cycleVars
<1>3. UNCHANGED used \/ (Read /\ UNCHANGED cycleVars)
  BY HelperFrame DEF Next, HelperMoves, Cycle, OrdinaryStage, StartStage,
     StopStage, Stage, Launch, StageEnds, Conclude, CleanupEnds, CompleteState,
     FinallyBlock, EmergencyEnds, ControlError, ExecutorFails, Fails, Break,
     Interrupt, Interrupted, Beside, Executor, Expire, LeftBehind, Kill, Return,
     OrdinaryExits, Quiet, Tick, Members, Fork, Escape, MemberEnds,
     ServiceEnds, Reuse, Outside, Group, stageVars, vars
<1>4. ASSUME UNCHANGED <<used, base>>, (attempted /\ pc = "stages") \/ ex.stage = "start"
      PROVE  used' <= MaxOutput - OutputReserve \/ used' = base'
  BY <1>4 DEF ReserveKept
<1>5. ASSUME ~StartStage, ~(Read /\ UNCHANGED cycleVars)
      PROVE  (attempted /\ pc = "stages") \/ ex.stage = "start"
  <2>1. CASE OrdinaryStage \/ StopStage
    <3>1. ex'.stage # "start"
      BY <2>1 DEF OrdinaryStage, StopStage, Stage, Launch, Idle
    <3> QED
      BY <2>1, <3>1 DEF OrdinaryStage, StopStage, cycleVars
  <2>2. CASE StageEnds
    <3>1. ex'.stage = "none"
      BY <2>2 DEF StageEnds, Taken, Idle
    <3>2. attempted' = Attempted /\ pc = "stages"
      BY <2>2 DEF StageEnds
    <3> QED
      BY <2>2, <3>1, <3>2 DEF Attempted
  <2>3. CASE CleanupEnds \/ ControlError \/ Interrupt \/ Conclude \/ CompleteState
            \/ FinallyBlock \/ EmergencyEnds
    <3>1. pc' # "stages"
      BY <2>3 DEF CleanupEnds, ControlError, Interrupt, Conclude, CompleteState,
         FinallyBlock, EmergencyEnds
    <3>2. ex' = ex \/ ex' = Idle
      <4>1. CASE CleanupEnds \/ ControlError
        BY <4>1 DEF CleanupEnds, ControlError, Taken
      <4>2. CASE Interrupt
        BY <4>2 DEF Interrupt, Interrupted, Break
      <4>3. CASE Conclude \/ CompleteState \/ EmergencyEnds
        BY <4>3 DEF Conclude, CompleteState, EmergencyEnds, stageVars
      <4>4. CASE FinallyBlock
        BY <4>4 DEF FinallyBlock, stageVars
      <4> QED
        BY <2>3, <4>1, <4>2, <4>3, <4>4
    <3> QED
      BY <3>1, <3>2 DEF Idle
  <2>4. CASE Executor /\ UNCHANGED cycleVars
    <3>1. ex'.stage = ex.stage
      BY <2>4 DEF Executor, Expire, Read, LeftBehind, Kill, Return, Stop, TypeOK,
         StageTypeOK
    <3> QED
      BY <2>4, <3>1 DEF cycleVars
  <2>5. CASE ExecutorFails
    BY <2>5 DEF ExecutorFails, Fails, Break, cycleVars, TypeOK, StageTypeOK
  <2>6. CASE UNCHANGED <<ex, cycleVars>>
    BY <2>6 DEF cycleVars
  <2>7. HelperMoves => UNCHANGED <<ex, cycleVars>>
    BY HelperFrame
  <2> QED
    BY <1>5, <2>1, <2>2, <2>3, <2>4, <2>5, <2>6, <2>7 DEF Next, HelperMoves,
       Cycle, Beside, OrdinaryExits, Quiet, Tick, Members, Fork, Escape,
       MemberEnds, ServiceEnds, Reuse, Outside, stageVars, vars
<1> QED
  BY <1>1, <1>2, <1>3, <1>4, <1>5, BaseFrame

-----------------------------------------------------------------------------
\* The end of the cycle: an exit code of 0 has a clean report behind it or no
\* start, and everything else is confessed.
LEMMA AccountedStep ==
  /\ TypeOK /\ Phase /\ ProcessInv /\ InOrder /\ UnrecordedFails /\ Started
  /\ StopInv /\ Accounted /\ [Next]_vars
  => Accounted'
<1> SUFFICES ASSUME TypeOK, Phase, ProcessInv, InOrder, UnrecordedFails, Started,
                    StopInv, Accounted, [Next]_vars,
                    NEW s \in Service, pc' = "exited", svc'[s] = "up"
             PROVE  ~ok' /\ (told' \/ runtime'[s] = "intent" \/ ~attempted')
  BY DEF Accounted
<1>1. pc \in {"finally", "emergency", "exited"}
  BY HelperFrame DEF Next, HelperMoves, Cycle, OrdinaryStage, StartStage,
     StageEnds, Conclude, StopStage, CleanupEnds, CompleteState, FinallyBlock,
     EmergencyEnds, ControlError, ExecutorFails, Interrupt, Beside,
     OrdinaryExits, Quiet, ServiceEnds, Reuse, Outside, cycleVars, vars
<1>2. ex = Idle
  BY <1>1 DEF Phase, TypeOK, StageTypeOK, StageName
<1>3. ~StartProgram /\ ~Spawn
  BY <1>1, StartRuns DEF StartProgram
<1>4. svc[s] = "up" /\ UNCHANGED runtime
  BY <1>3, ServiceFrame, RuntimeFrame
<1>5. ASSUME report = "clean" \/ cleaned
      PROVE  ~ok /\ runtime[s] = "intent"
  <2>1. Unrecorded(s)
    BY <1>4, <1>5 DEF StopInv, StillKnown, Unrecorded
  <2>2. ~ok
    BY <1>2, <2>1 DEF UnrecordedFails, Idle
  <2>3. runtime[s] = "intent"
    BY <1>4, <2>1 DEF Unrecorded, InOrder, TypeOK, Entry
  <2> QED
    BY <2>2, <2>3
<1>6. CASE FinallyBlock
  <2>1. CASE cleaned
    BY <1>4, <1>5, <2>1, VerdictFrame
  <2>2. CASE ~attempted
    <3>1. ~ok
      BY <1>2, <1>4, <2>2 DEF Started, Idle
    <3>2. ~attempted'
      BY <1>6, <2>2 DEF FinallyBlock, TypeOK
    <3> QED
      BY <3>1, <3>2, VerdictFrame
  <2>3. CASE ok' = FALSE /\ told' = TRUE
    BY <2>3
  <2> QED
    BY <1>6, <2>1, <2>2, <2>3 DEF FinallyBlock
<1>7. CASE EmergencyEnds
  <2>1. CASE report = "clean"
    BY <1>4, <1>5, <2>1, VerdictFrame
  <2>2. CASE report # "clean"
    <3>1. told' /\ ~ok'
      BY <1>7, <2>2 DEF EmergencyEnds
    <3> QED
      BY <3>1
  <2> QED
    BY <2>1, <2>2
<1>8. CASE pc = "exited"
  <2>1. UNCHANGED attempted
    BY <1>2, <1>8, HelperFrame DEF Idle, Next, HelperMoves, Cycle, OrdinaryStage,
       StartStage, StageEnds, Conclude, StopStage, CleanupEnds, CompleteState,
       FinallyBlock, EmergencyEnds, ControlError, ExecutorFails, Interrupt,
       Beside, OrdinaryExits, Quiet, ServiceEnds, Reuse, Outside, cycleVars, vars
  <2>2. ~ok /\ (told \/ runtime[s] = "intent" \/ ~attempted)
    BY <1>4, <1>8 DEF Accounted
  <2>3. ~attempted => ~attempted'
    BY <2>1 DEF TypeOK
  <2> QED
    BY <1>4, <2>2, <2>3, VerdictFrame
<1>9. pc # "exited" => FinallyBlock \/ EmergencyEnds
  BY <1>1, <1>2, HelperFrame DEF Idle, Next, HelperMoves, Cycle, OrdinaryStage,
     StartStage, StageEnds, Conclude, StopStage, CleanupEnds, CompleteState,
     ControlError, ExecutorFails, Fails, Break, Running, Interrupt, Interrupted,
     Beside, OrdinaryExits, Quiet, ServiceEnds, Reuse, Outside, cycleVars, vars
<1> QED
  BY <1>6, <1>7, <1>8, <1>9

LEMMA StrangersStep ==
  TypeOK /\ Phase /\ ProcessInv /\ StopInv /\ StrangersSpared /\ [Next]_vars
    => StrangersSpared'
<1> SUFFICES ASSUME TypeOK, Phase, ProcessInv, StopInv, StrangersSpared, [Next]_vars
             PROVE  harmed' = {}
  BY DEF StrangersSpared
<1>1. CASE TermAll \/ KillAll
  <2>1. leader = "running" /\ helper.at \in {"term", "kill"}
    BY <1>1 DEF TermAll, KillAll, At
  <2>2. {x \in Signalled : svc[x] = "reused"} = {}
    BY <2>1 DEF Signalled, StopInv
  <2> QED
    BY <1>1, <2>2 DEF TermAll, KillAll, StrangersSpared
<1>2. CASE UNCHANGED harmed
  BY <1>2 DEF StrangersSpared
<1>3. ~HelperMoves => UNCHANGED harmed
  BY Apart
<1> QED
  BY <1>1, <1>2, <1>3 DEF HelperMoves, StartProgram, Examine, Spawn, Record,
     Settle, StartEnds, Abort, TerminateAll, StopProgramSteps, CheckEntries,
     Check, WriteReport, StopEnds, StopAborts, Quiet

-----------------------------------------------------------------------------
LEMMA Invariance == Spec => []IInv
<1>1. Init => IInv
  <2> SUFFICES ASSUME Init
               PROVE  IInv
    OBVIOUS
  <2>1. /\ Phase /\ ProcessInv /\ InOrder
    BY DEF Init, StageInit, Idle, NoHelper, Phase, ProcessInv, Running, InOrder
  <2>2. UnrecordedFails /\ Started /\ Accounted /\ StrangersSpared
    BY DEF Init, UnrecordedFails, Unrecorded, Started, Accounted, StrangersSpared
  <2>3. StopInv /\ ReserveKept
    BY DEF Init, StageInit, Idle, StopInv, ReserveKept
  <2> QED
    BY <2>1, <2>2, <2>3, TypeInit DEF IInv
<1>2. IInv /\ [Next]_vars => IInv'
  BY TypeStep, PhaseStep, ProcessStep, InOrderStep, UnrecordedFailsStep,
     StartedStep, StopInvStep, ReserveStep, AccountedStep, StrangersStep
  DEF IInv
<1> QED
  BY <1>1, <1>2, PTL DEF Spec

\* Types of the services and the stages: no stage is charged for more output
\* than the run may have.
THEOREM TypeCorrect == Spec => []TypeOK
BY Invariance, PTL DEF IInv

\* Between two stages there is no process but that of the finally block.
THEOREM StageEmptyHolds == Spec => []StageEmpty
<1>1. IInv => StageEmpty
  BY DEF IInv, ProcessInv, StageEmpty
<1> QED
  BY <1>1, Invariance, PTL

\* No stage between the start of the services and their stop eats into the
\* output that is reserved for cleanup.
THEOREM ReserveKeptHolds == Spec => []ReserveKept
BY Invariance, PTL DEF IInv

\* A service that outlives the cycle is never behind an exit code of 0, and the
\* summary confesses it, but for the two exceptions of Accounted.
THEOREM AccountedHolds == Spec => []Accounted
BY Invariance, PTL DEF IInv

\* No process is signalled under a number it had before the stop program looked.
THEOREM StrangersSparedHolds == Spec => []StrangersSpared
BY Invariance, PTL DEF IInv

-----------------------------------------------------------------------------
(* Why the cycle ends.  Fairness is beyond these proofs; what they show is *)
(* that the cycle and its executor have only so many steps to take, and    *)
(* that one of them can always be taken until the cycle has exited.        *)

PhaseRank ==
    [stages |-> 5, cleanup |-> 4, complete |-> 3, finally |-> 2,
     emergency |-> 1, exited |-> 0]

\* How far the executor is from the end of its stage.
StageRank ==
    IF ex.result = "none" THEN 0
    ELSE IF ~Running THEN 1
    ELSE IF ex.reason = "none" THEN 4
    ELSE IF ex.sent = "term" THEN 3
    ELSE 2

\* The stages that can still be launched.
StartsLeft == IF base = NotStarted THEN 1 ELSE 0
StopsLeft == IF pc = "stages" \/ (pc = "cleanup" /\ ex.stage = "none") THEN 1 ELSE 0

Rank ==
    (MaxOutput - used) + 5 * (left + StartsLeft + StopsLeft) + StageRank
        + PhaseRank[pc]

\* A signal is sent with a reason, a KILL leaves nobody, and a stage that runs
\* has a process to wait for.
Signals ==
    /\ Running => leader # "none" /\ ex.stage # "none"
    /\ Running /\ ex.reason = "none" => ex.sent = "none"
    /\ Running /\ ex.reason # "none" => ex.sent \in {"term", "kill"}
    /\ Running /\ ex.sent = "kill" => ~GroupAlive
    /\ ex.stage # "none" => ex.result # "none"

\* What the cycle and its executor look at, and nobody else changes.
Control == <<used, ex, cycleVars>>

\* The guard of some step of the executor, and of the cycle.
ExecutorReady ==
    /\ Running
    /\ \/ ex.reason = "none"
       \/ ex.sent = "term" /\ GroupAlive
       \/ leader \in {"zero", "nonzero"} /\ ~child /\ (escaped => ex.sent = "kill")

CycleReady ==
    \/ pc = "stages" /\ (ex = Idle \/ Ended)
    \/ pc = "cleanup" /\ (ex.stage = "none" \/ Ended)
    \/ pc \in {"complete", "finally", "emergency"}

Stuck == pc # "exited" /\ ~ExecutorReady /\ ~CycleReady

LEMMA SignalsStep ==
  TypeOK /\ Phase /\ ProcessInv /\ Signals /\ [Next]_vars => Signals'
<1> SUFFICES ASSUME TypeOK, Phase, ProcessInv, Signals, [Next]_vars
             PROVE  Signals'
  OBVIOUS
<1> USE DEF Signals, Running, GroupAlive
<1>1. /\ ex \in [stage : StageName \cup {"none"}, reserved : BOOLEAN,
                 reason : Reason, sent : {"none", "term", "kill"},
                 result : {"none", "pending", "zero", "nonzero", "refused"}]
      /\ leader \in {"none", "running", "zero", "nonzero"}
      /\ child \in BOOLEAN
  BY DEF TypeOK, StageTypeOK
<1>2. /\ Idle.stage = "none" /\ Idle.result = "none" /\ Idle.reason = "none"
      /\ Idle.sent = "none"
  BY DEF Idle
<1>3. ASSUME NEW stage \in StageName, NEW reserved \in BOOLEAN,
             Launch(stage, reserved)
      PROVE  Signals'
  BY <1>3 DEF Launch, Idle, StageName
<1>4. CASE OrdinaryStage \/ StartStage \/ StopStage
  BY <1>3, <1>4 DEF OrdinaryStage, StartStage, StopStage, Stage, StageName,
     TypeOK
<1>5. CASE ex' = Idle
  BY <1>2, <1>5
<1>6. CASE StageEnds \/ CleanupEnds \/ Interrupt
  BY <1>5, <1>6 DEF StageEnds, CleanupEnds, Taken, Interrupt, Interrupted, Break
<1>7. CASE UNCHANGED <<ex, leader, child>>
  BY <1>7
<1>8. CASE ControlError
  BY <1>5, <1>7, <1>8 DEF ControlError, Taken, Group
<1>9. CASE FinallyBlock \/ EmergencyEnds
  <2>1. ~Running /\ UNCHANGED ex
    BY <1>1, <1>2, <1>9 DEF FinallyBlock, EmergencyEnds, stageVars, Phase,
       StageName
  <2> QED
    BY <2>1
<1>10. CASE ExecutorFails
  BY <1>1, <1>10 DEF ExecutorFails, Fails, Break
<1>11. CASE Executor
  <2>1. CASE Expire \/ LeftBehind \/ Read
    BY <1>1, <2>1 DEF Expire, LeftBehind, Read, Stop
  <2>2. CASE Kill
    BY <1>1, <2>2 DEF Kill
  <2>3. CASE Return
    BY <1>1, <2>3 DEF Return, Result
  <2> QED
    BY <1>11, <2>1, <2>2, <2>3 DEF Executor
<1>12. CASE UNCHANGED <<ex, child>> /\ leader = "running" /\ leader' # "none"
  BY <1>12
<1>13. CASE HelperMoves \/ OrdinaryExits
  BY <1>12, <1>13, HelperFrame DEF OrdinaryExits, Exit, Quiet
<1>14. CASE Members
  BY <1>14 DEF Members, Fork, Escape, MemberEnds
<1> QED
  BY <1>4, <1>6, <1>7, <1>8, <1>9, <1>10, <1>11, <1>13, <1>14
  DEF Next, Cycle, Conclude, CompleteState, Beside, HelperMoves, Tick,
      ServiceEnds, Reuse, Outside, stageVars, vars

LEMMA SignalsInvariance == Spec => [](IInv /\ Signals)
<1>1. Init => Signals
  BY DEF Init, StageInit, Idle, Signals, Running
<1>2. IInv /\ Signals /\ [Next]_vars => Signals'
  BY SignalsStep DEF IInv
<1> QED
  BY <1>1, <1>2, Invariance, PTL DEF Spec

-----------------------------------------------------------------------------
\* The parts of the rank, and how each of them is counted.
Parts ==
  /\ MaxOutput - used \in Nat /\ used \in Nat /\ left \in Nat
  /\ StartsLeft \in 0 .. 1 /\ StopsLeft \in 0 .. 1
  /\ StageRank \in 0 .. 4 /\ PhaseRank[pc] \in 0 .. 5

LEMMA RankParts == TypeOK => Parts
<1> SUFFICES ASSUME TypeOK PROVE Parts
  OBVIOUS
<1>1. MaxOutput - used \in Nat /\ used \in Nat /\ left \in Nat
  BY OutputAssumption, ServicesAssumption DEF TypeOK, StageTypeOK
<1>2. StartsLeft \in 0 .. 1 /\ StopsLeft \in 0 .. 1 /\ StageRank \in 0 .. 4
  BY DEF StartsLeft, StopsLeft, StageRank
<1>3. PhaseRank[pc] \in 0 .. 5
  BY DEF PhaseRank, TypeOK
<1> QED
  BY <1>1, <1>2, <1>3 DEF Parts

LEMMA RankIsNat == TypeOK => Rank \in Nat
  BY RankParts DEF Parts, Rank

\* One stage fewer can be launched, and it begins.
Launched ==
  /\ UNCHANGED <<used, pc>>
  /\ StageRank = 0
  /\ \/ left = left' + 1 /\ UNCHANGED <<StartsLeft, StopsLeft>>
     \/ StartsLeft = 1 /\ StartsLeft' = 0 /\ UNCHANGED <<left, StopsLeft>>
     \/ StopsLeft = 1 /\ StopsLeft' = 0 /\ UNCHANGED <<left, StartsLeft>>

\* The executor comes closer to the end of its stage, in the same phase.
Advanced ==
  /\ UNCHANGED <<left, pc, StartsLeft, StopsLeft>>
  /\ \/ used' = used + 1 /\ UNCHANGED StageRank
     \/ StageRank' < StageRank /\ UNCHANGED used

\* The cycle leaves a phase, or a stage in it.
Concluded ==
  /\ UNCHANGED <<left, used, StartsLeft>>
  /\ StopsLeft' <= StopsLeft /\ StageRank' <= StageRank
  /\ PhaseRank[pc]' <= PhaseRank[pc]
  /\ PhaseRank[pc]' < PhaseRank[pc] \/ StageRank' < StageRank

LEMMA OneLess ==
  ASSUME NEW a \in Nat, NEW b \in Nat, NEW c \in Nat,
         NEW x \in Nat, NEW y \in Nat, NEW z \in Nat,
         \/ a = x + 1 /\ y = b /\ z = c
         \/ b = y + 1 /\ x = a /\ z = c
         \/ c = z + 1 /\ x = a /\ y = b
  PROVE  a + b + c \in Nat /\ x + y + z \in Nat /\ a + b + c = x + y + z + 1
  OBVIOUS

\* A launch costs more than the steps of the stage it begins.
LEMMA LaunchCost ==
  ASSUME NEW spare \in Nat, NEW n \in Nat, NEW m \in Nat, n = m + 1,
         NEW rank \in 0 .. 4, NEW phase \in 0 .. 5
  PROVE  spare + 5 * m + rank + phase < spare + 5 * n + 0 + phase
  OBVIOUS

LEMMA RankFalls ==
  ASSUME TypeOK, TypeOK', Launched \/ Advanced \/ Concluded
  PROVE  Rank' < Rank
<1>1. /\ MaxOutput - used \in Nat /\ used \in Nat /\ left \in Nat
      /\ StartsLeft \in 0 .. 1 /\ StopsLeft \in 0 .. 1
      /\ StageRank \in 0 .. 4 /\ PhaseRank[pc] \in 0 .. 5
  BY RankParts DEF Parts
<1>0. TypeOK' => Parts'
  BY RankParts, PTL
<1>2. /\ used' \in Nat /\ left' \in Nat
      /\ StartsLeft' \in 0 .. 1 /\ StopsLeft' \in 0 .. 1
      /\ StageRank' \in 0 .. 4 /\ PhaseRank[pc]' \in 0 .. 5
  BY <1>0 DEF Parts
<1>3. CASE Launched
  <2>1. PhaseRank[pc]' = PhaseRank[pc] /\ used' = used /\ StageRank = 0
    BY <1>3 DEF Launched, PhaseRank
  <2>2. \/ left = left' + 1 /\ StartsLeft' = StartsLeft /\ StopsLeft' = StopsLeft
        \/ StartsLeft = StartsLeft' + 1 /\ left' = left /\ StopsLeft' = StopsLeft
        \/ StopsLeft = StopsLeft' + 1 /\ left' = left /\ StartsLeft' = StartsLeft
    BY <1>3 DEF Launched
  <2>3. /\ left + StartsLeft + StopsLeft \in Nat
        /\ left' + StartsLeft' + StopsLeft' \in Nat
        /\ left + StartsLeft + StopsLeft = left' + StartsLeft' + StopsLeft' + 1
    <3> DEFINE a == left   b == StartsLeft   c == StopsLeft
    <3> DEFINE x == left'  y == StartsLeft'  z == StopsLeft'
    <3>1. a \in Nat /\ b \in Nat /\ c \in Nat
      BY <1>1
    <3>2. x \in Nat /\ y \in Nat /\ z \in Nat
      BY <1>2
    <3>3. \/ a = x + 1 /\ y = b /\ z = c
          \/ b = y + 1 /\ x = a /\ z = c
          \/ c = z + 1 /\ x = a /\ y = b
      BY <2>2
    <3> HIDE DEF a, b, c, x, y, z
    <3>4. a + b + c \in Nat /\ x + y + z \in Nat /\ a + b + c = x + y + z + 1
      BY <3>1, <3>2, <3>3, OneLess
    <3> QED
      BY <3>4 DEF a, b, c, x, y, z
  <2> HIDE DEF StartsLeft, StopsLeft, StageRank, PhaseRank
  <2> QED
    BY <1>1, <1>2, <2>1, <2>3, LaunchCost DEF Rank
<1>4. CASE Advanced
  <2>1. /\ PhaseRank[pc]' = PhaseRank[pc] /\ left' = left
        /\ StartsLeft' = StartsLeft /\ StopsLeft' = StopsLeft
    BY <1>4 DEF Advanced, PhaseRank
  <2>2. \/ used' = used + 1 /\ StageRank' = StageRank
        \/ StageRank' < StageRank /\ used' = used
    BY <1>4 DEF Advanced
  <2> QED
    BY <1>1, <1>2, <2>1, <2>2, OutputAssumption DEF Rank
<1>5. CASE Concluded
  BY <1>1, <1>2, <1>5, OutputAssumption DEF Concluded, Rank
<1> QED
  BY <1>3, <1>4, <1>5

\* Every step of the cycle or its executor uses something up, and no step of a
\* helper, of a service, of the machine or of time gives it back.
LEMMA RankStep ==
  ASSUME IInv, Signals, [Next]_vars
  PROVE  UNCHANGED Control \/ Rank' < Rank
<1> USE DEF Running
<1>0. TypeOK /\ TypeOK' /\ Phase
  BY TypeStep DEF IInv
<1>1. /\ ex \in [stage : StageName \cup {"none"}, reserved : BOOLEAN,
                 reason : Reason, sent : {"none", "term", "kill"},
                 result : {"none", "pending", "zero", "nonzero", "refused"}]
      /\ leader \in {"none", "running", "zero", "nonzero"}
  BY <1>0 DEF TypeOK, StageTypeOK
<1>2. Idle.stage = "none" /\ Idle.result = "none"
  BY DEF Idle
<1>3. ex = Idle => StageRank = 0
  BY <1>2 DEF StageRank
<1>4. ex' = Idle => StageRank' = 0
  BY <1>2 DEF StageRank
<1>5. Ended => StageRank = 1
  BY DEF Ended, StageRank
<1>6. ex.stage = "none" => StageRank = 0
  BY <1>0, <1>3 DEF Phase
<1>7. ASSUME NEW stage \in StageName, NEW reserved \in BOOLEAN,
             Launch(stage, reserved)
      PROVE  StageRank = 0 /\ ex.stage = "none" /\ ex'.stage = stage
             /\ UNCHANGED used
  BY <1>6, <1>7 DEF Launch, Idle
<1>8. CASE OrdinaryStage
  <2>1. StageRank = 0 /\ UNCHANGED <<used, pc, base>>
    BY <1>7, <1>8 DEF OrdinaryStage, Stage, StageName
  <2>3. left = left' + 1
    BY <1>0, <1>8, ServicesAssumption DEF OrdinaryStage, TypeOK
  <2>2. UNCHANGED <<StartsLeft, StopsLeft>>
    BY <1>8, <2>1 DEF OrdinaryStage, StartsLeft, StopsLeft
  <2> QED
    BY <1>0, <2>1, <2>2, <2>3, RankFalls DEF Launched
<1>9. CASE StartStage
  <2>1. StageRank = 0 /\ UNCHANGED <<used, pc, left>>
    BY <1>7, <1>9 DEF StartStage, Stage, StageName
  <2>2. base = NotStarted /\ base' # NotStarted /\ pc = "stages"
    BY <1>0, <1>9, OutputAssumption
    DEF StartStage, NotStarted, TypeOK, StageTypeOK
  <2>3. StartsLeft = 1 /\ StartsLeft' = 0 /\ UNCHANGED StopsLeft
    BY <2>1, <2>2 DEF StartsLeft, StopsLeft
  <2> QED
    BY <1>0, <2>1, <2>3, RankFalls DEF Launched
<1>10. CASE StopStage
  <2>1. /\ StageRank = 0 /\ pc = "cleanup" /\ ex.stage = "none"
        /\ ex'.stage = "stop" /\ UNCHANGED <<used, pc, left, base>>
    BY <1>0, <1>7, <1>10 DEF StopStage, Stage, StageName, cycleVars, TypeOK
  <2>2. StopsLeft = 1 /\ StopsLeft' = 0 /\ UNCHANGED StartsLeft
    BY <2>1 DEF StartsLeft, StopsLeft
  <2> QED
    BY <1>0, <2>1, <2>2, RankFalls DEF Launched
<1>11. CASE StageEnds
  <2>1. /\ Ended /\ ex' = Idle /\ pc = "stages"
        /\ UNCHANGED <<used, pc, left, base>>
    BY <1>11 DEF StageEnds, Taken, Group
  <2>2. UNCHANGED <<StartsLeft, StopsLeft>>
    BY <2>1 DEF StartsLeft, StopsLeft
  <2> QED
    BY <1>0, <1>4, <1>5, <2>1, <2>2, RankFalls DEF Advanced
<1>12. ASSUME UNCHANGED <<left, used, base>>, StageRank' <= StageRank,
              PhaseRank[pc]' < PhaseRank[pc], StopsLeft' <= StopsLeft
       PROVE  Rank' < Rank
  <2>1. UNCHANGED StartsLeft
    BY <1>12 DEF StartsLeft
  <2>2. PhaseRank[pc] \in 0 .. 5 /\ PhaseRank[pc]' \in 0 .. 5
    BY <1>0 DEF PhaseRank, TypeOK
  <2>3. PhaseRank[pc]' <= PhaseRank[pc]
    BY <1>12, <2>2
  <2>4. Concluded
    BY <1>12, <2>1, <2>3 DEF Concluded
  <2> QED
    BY <1>0, <2>4, RankFalls
<1>13. CASE Conclude
  <2>1. /\ pc = "stages" /\ pc' \in {"cleanup", "complete"} /\ ex = Idle
        /\ UNCHANGED <<left, used, base, ex>>
    BY <1>13 DEF Conclude, stageVars
  <2>2. StopsLeft = 1 /\ StopsLeft' \in {0, 1} /\ UNCHANGED StageRank
    BY <2>1 DEF StopsLeft, StageRank
  <2>3. PhaseRank[pc]' < PhaseRank[pc]
    BY <2>1 DEF PhaseRank
  <2> QED
    BY <1>12, <1>3, <2>1, <2>2, <2>3
<1>14. CASE CleanupEnds \/ ControlError
  <2>1. /\ pc \in {"stages", "cleanup", "complete"} /\ pc' \in {"complete", "finally"}
        /\ pc' = "complete" => pc = "cleanup"
        /\ UNCHANGED <<left, used, base>> /\ ex' = Idle
    BY <1>14 DEF CleanupEnds, ControlError, Taken, Group
  <2>2. PhaseRank[pc]' < PhaseRank[pc]
    BY <2>1 DEF PhaseRank
  <2>3. StageRank' <= StageRank
    BY <1>0, <1>4, <2>1, RankParts DEF Parts
  <2>4. StopsLeft' <= StopsLeft
    BY <2>1 DEF StopsLeft
  <2> QED
    BY <1>12, <2>1, <2>2, <2>3, <2>4
<1>15. CASE CompleteState \/ FinallyBlock \/ EmergencyEnds
  <2>1. /\ pc \in {"complete", "finally", "emergency"}
        /\ pc = "complete" => pc' = "finally"
        /\ pc = "finally" => pc' \in {"emergency", "exited"}
        /\ pc = "emergency" => pc' = "exited"
        /\ UNCHANGED <<left, used, base, ex>>
    <3>1. CASE CompleteState
      BY <3>1 DEF CompleteState, stageVars
    <3>2. CASE FinallyBlock
      BY <3>2 DEF FinallyBlock, stageVars, Group
    <3>3. CASE EmergencyEnds
      BY <3>3 DEF EmergencyEnds, Group
    <3> QED
      BY <1>15, <3>1, <3>2, <3>3
  <2>2. StopsLeft' <= StopsLeft /\ StageRank' = StageRank
    BY <2>1 DEF StopsLeft, StageRank
  <2>3. PhaseRank[pc]' < PhaseRank[pc]
    BY <2>1 DEF PhaseRank
  <2> QED
    BY <1>0, <1>12, <2>1, <2>2, <2>3, RankParts DEF Parts
<1>16. CASE Interrupt
  <2>1. ex.stage # "none" /\ ex.result = "pending" /\ ex' = Idle
        /\ pc' = "finally" /\ UNCHANGED <<left, used, base>>
    BY <1>16 DEF Interrupt, Interrupted, Break, Signals
  <2>2. pc \in {"stages", "cleanup"}
    BY <1>0, <1>1, <2>1 DEF Phase, StageName
  <2>3. PhaseRank[pc]' < PhaseRank[pc] /\ StopsLeft' <= StopsLeft
    BY <2>1, <2>2 DEF PhaseRank, StopsLeft
  <2>4. StageRank' <= StageRank
    BY <1>0, <1>4, <2>1, RankParts DEF Parts
  <2> QED
    BY <1>12, <2>1, <2>3, <2>4
<1>17. ASSUME ex.stage # "none", ex'.stage = ex.stage, UNCHANGED cycleVars,
              \/ used' = used + 1 /\ UNCHANGED ex
              \/ StageRank' < StageRank /\ UNCHANGED used
       PROVE  Rank' < Rank
  <2>1. UNCHANGED <<left, pc, StartsLeft, StopsLeft>>
    BY <1>17 DEF cycleVars, StartsLeft, StopsLeft
  <2>2. UNCHANGED ex => UNCHANGED StageRank
    BY DEF StageRank
  <2> QED
    BY <1>0, <1>17, <2>1, <2>2, RankFalls DEF Advanced
<1>18. CASE ExecutorFails
  <2>1. /\ ex.result = "pending" /\ ex'.result = "nonzero" /\ ex'.stage = ex.stage
        /\ UNCHANGED <<used, cycleVars>>
    BY <1>1, <1>18 DEF ExecutorFails, Fails, Break
  <2>2. StageRank' = 1 /\ StageRank \in {2, 3, 4}
    BY <2>1 DEF StageRank
  <2> QED
    BY <1>17, <2>1, <2>2 DEF Signals
<1>19. CASE Executor /\ UNCHANGED cycleVars
  <2>1. ex.result = "pending" /\ ex'.stage = ex.stage
    BY <1>1, <1>19 DEF Executor, Expire, Read, LeftBehind, Kill, Return, Stop
  <2>2. CASE \/ Expire \/ LeftBehind
             \/ Read /\ ex' = [ex EXCEPT !.reason = "output", !.sent = "term"]
                     /\ UNCHANGED used
    <3>1. /\ ex.reason = "none" /\ ex'.reason # "none" /\ ex'.sent = "term"
          /\ ex'.result = "pending" /\ UNCHANGED used
      BY <1>1, <2>2 DEF Expire, LeftBehind, Read, Stop
    <3>2. StageRank = 4 /\ StageRank' = 3
      BY <2>1, <3>1 DEF StageRank
    <3> QED
      BY <1>17, <1>19, <2>1, <3>1, <3>2 DEF Signals
  <2>3. CASE used' = used + 1 /\ UNCHANGED ex
    BY <1>17, <1>19, <2>1, <2>3 DEF Signals
  <2>4. CASE Kill
    <3>1. /\ ex.reason # "none" /\ ex'.reason = ex.reason
          /\ ex.sent = "term" /\ ex'.sent = "kill" /\ ex'.result = "pending"
          /\ UNCHANGED used
      BY <1>1, <2>4 DEF Kill, Signals
    <3>2. StageRank = 3 /\ StageRank' = 2
      BY <2>1, <3>1 DEF StageRank
    <3> QED
      BY <1>17, <1>19, <2>1, <3>1, <3>2 DEF Signals
  <2>5. CASE Return
    <3>1. ex'.result \in {"zero", "nonzero"} /\ UNCHANGED used
      BY <1>1, <2>5 DEF Return, Result
    <3>2. StageRank' = 1 /\ StageRank \in {2, 3, 4}
      BY <2>1, <3>1 DEF StageRank
    <3> QED
      BY <1>17, <1>19, <2>1, <3>1, <3>2 DEF Signals
  <2> QED
    BY <1>19, <2>2, <2>3, <2>4, <2>5 DEF Executor, Read, Stop
<1>20. CASE HelperMoves
  BY <1>0, <1>20, HelperFrame DEF Control
<1>21. CASE UNCHANGED <<used, ex, cycleVars>>
  BY <1>21 DEF Control
<1> QED
  BY <1>8, <1>9, <1>10, <1>11, <1>13, <1>14, <1>15, <1>16, <1>18, <1>19, <1>20,
     <1>21
  DEF Next, Cycle, Beside, HelperMoves, OrdinaryExits, Quiet, Tick, Members,
      Fork, Escape, MemberEnds, ServiceEnds, Reuse, Outside, stageVars, vars

\* With any number of services, stages and chunks of output, a cycle and its
\* executor take no more than Rank steps, whatever their helpers do: no retry,
\* no signal and no failure starts something over.
THEOREM StepsRunOut ==
    Spec => [](Rank \in Nat) /\ [][UNCHANGED Control \/ Rank' < Rank]_vars
<1>1. IInv => Rank \in Nat
  BY RankIsNat DEF IInv
<1>2. IInv /\ Signals /\ [Next]_vars => [UNCHANGED Control \/ Rank' < Rank]_vars
  BY RankStep
<1> QED
  BY <1>1, <1>2, SignalsInvariance, PTL DEF Spec

\* Until it has exited, the cycle or its executor has a step to take: it waits
\* for no helper and no service, only for a pipe that a descendant holds open
\* after everybody else of the group has gone.
THEOREM OnlyPipeBlocks ==
    Spec => [](Stuck => Running /\ escaped /\ ~GroupAlive)
<1>1. IInv /\ Signals /\ Stuck => Running /\ escaped /\ ~GroupAlive
  <2> SUFFICES ASSUME IInv, Signals, Stuck
               PROVE  Running /\ escaped /\ ~GroupAlive
    OBVIOUS
  <2>1. /\ pc \in {"stages", "cleanup", "complete", "finally", "emergency", "exited"}
        /\ ex \in [stage : StageName \cup {"none"}, reserved : BOOLEAN,
                   reason : Reason, sent : {"none", "term", "kill"},
                   result : {"none", "pending", "zero", "nonzero", "refused"}]
        /\ leader \in {"none", "running", "zero", "nonzero"}
        /\ child \in BOOLEAN /\ escaped \in BOOLEAN
    BY DEF IInv, TypeOK, StageTypeOK
  <2>2. Running
    <3>1. pc \in {"stages", "cleanup"} /\ ex.stage # "none" /\ ~Ended
      BY <2>1 DEF Stuck, CycleReady, IInv, Phase
    <3> QED
      BY <2>1, <3>1 DEF Signals, Ended, Running
  <2>3. ex.reason # "none" /\ leader # "none"
    BY <2>2 DEF Stuck, ExecutorReady, Signals
  <2>4. CASE ex.sent = "term"
    BY <2>1, <2>2, <2>3, <2>4 DEF Stuck, ExecutorReady, GroupAlive
  <2>5. CASE ex.sent = "kill"
    BY <2>1, <2>2, <2>3, <2>5 DEF Stuck, ExecutorReady, Signals, GroupAlive
  <2> QED
    BY <2>2, <2>3, <2>4, <2>5 DEF Signals
<1> QED
  BY <1>1, SignalsInvariance, PTL
=============================================================================
