--------------------------- MODULE ManagedServices ---------------------------
(***************************************************************************)
(* The services a cycle starts and must stop again: the start and the stop *)
(* program of service_runtime.py, run as stages under the budget, and the  *)
(* part of run_qa_cycle.py that decides when cleanup is due, what its      *)
(* report proves and what the finally block does without any stage.        *)
(*                                                                         *)
(* A service is a session of its own: no KILL of a stage reaches it, and   *)
(* its process number is free for others when its group is empty.  A       *)
(* helper can be terminated or killed between any two of its steps, the    *)
(* lease, the log or the trace may fail in any phase, and the operator may *)
(* interrupt a stage.                                                      *)
(***************************************************************************)
EXTENDS StageProcess, FiniteSets

CONSTANTS
    NumServices,  \* start_plan is 1 .. NumServices
    MaxStages     \* bound: the ordinary stages of the cycle

ASSUME ServicesAssumption == NumServices \in Nat /\ MaxStages \in Nat

VARIABLES
    svc,       \* the process group of each service
    runtime,   \* its entry in service-runtime.json
    helper,    \* the program behind a start or a stop stage
    report,    \* failed_count of service-runtime-stop.json: 0, or not
    pc,        \* where the cycle is in run_with_session
    left,      \* ordinary stages it may still run
    attempted, \* service_start_attempted
    cleaned,   \* cleanup_completed
    ok,        \* whether its exit code may still be 0
    told,      \* its summary says that cleanup failed or cannot be verified
    base,      \* history: output_bytes_used when the start stage began
    harmed     \* history: processes signalled although they were not verified

cycleVars == <<pc, left, attempted, cleaned, ok, told, base>>
vars == <<stageVars, cycleVars, svc, runtime, helper, report, harmed>>

Service == 1 .. NumServices

\* up: the leader lives; headless: only others of its group do; reused: another
\* program has its number, swapped: it has got it from under a stop program.
Process == {"none", "up", "headless", "gone", "reused", "swapped"}

\* intent: without a pid; pid: without a complete process_identity.
Entry == {"absent", "intent", "pid", "known"}

HelperStep == {"none", "next", "launch", "record", "settle", "abort",
               "check", "term", "kill", "write", "written"}

Start == [at |-> "next", i |-> 1, managed |-> {}, bad |-> FALSE]
NoHelper == [at |-> "none", i |-> 1, managed |-> {}, bad |-> FALSE]
StopProgram == [at |-> "check", i |-> 1, managed |-> {}, bad |-> FALSE]

TypeOK ==
    /\ StageTypeOK
    /\ svc \in [Service -> Process]
    /\ runtime \in [Service -> Entry]
    /\ helper \in [at : HelperStep, i : 1 .. NumServices + 1,
                   managed : SUBSET Service, bad : BOOLEAN]
    /\ report \in {"missing", "clean", "failed"}
    /\ pc \in {"stages", "cleanup", "complete", "finally", "emergency", "exited"}
    /\ left \in 0 .. MaxStages
    /\ attempted \in BOOLEAN /\ cleaned \in BOOLEAN
    /\ ok \in BOOLEAN /\ told \in BOOLEAN
    /\ base \in 0 .. MaxOutput + 1
    /\ harmed \subseteq Service

\* The start stage is attempted at most once; before it, base is out of range.
NotStarted == MaxOutput + 1

Init ==
    /\ StageInit
    /\ svc = [s \in Service |-> "none"]
    /\ runtime = [s \in Service |-> "absent"]
    /\ helper = NoHelper
    /\ report = "missing"
    /\ pc = "stages" /\ left = MaxStages
    /\ attempted = FALSE /\ cleaned = FALSE /\ ok = TRUE /\ told = FALSE
    /\ base = NotStarted
    /\ harmed = {}

-----------------------------------------------------------------------------
(* The start program.                                                      *)

\* helper is where the program is; it takes steps while the leader lives.
At(step) == leader = "running" /\ helper.at = step
Step(next) == helper' = next
Enter(i, s) == runtime' = [runtime EXCEPT ![i] = s]
Quiet == UNCHANGED <<time, used, ex, child, escaped, cycleVars, harmed>>

\* The service is ready already, its entry is refused, or it is to be launched:
\* what is intended is on disk before the process exists.
Examine ==
    /\ At("next")
    /\ helper.i \in Service
    /\ \/ Step([helper EXCEPT !.at = "launch"]) /\ Enter(helper.i, "intent")
       \/ /\ \E bad \in {helper.bad, TRUE} :
                Step([helper EXCEPT !.at = "next", !.i = @ + 1, !.bad = bad])
          /\ UNCHANGED runtime
    /\ Quiet /\ UNCHANGED <<leader, svc, report>>

\* TERM is blocked from the Popen to the tracking of the process, KILL is not.
Spawn ==
    /\ At("launch")
    /\ \/ /\ svc' = [svc EXCEPT ![helper.i] = "up"]
          /\ Step([helper EXCEPT !.at = "record", !.managed = @ \cup {helper.i}])
       \/ /\ Step([helper EXCEPT !.at = "next", !.i = @ + 1, !.bad = TRUE])
          /\ UNCHANGED svc
    /\ Quiet /\ UNCHANGED <<leader, runtime, report>>

Record ==
    /\ At("record")
    /\ Enter(helper.i, "pid")
    /\ Step([helper EXCEPT !.at = "settle"])
    /\ Quiet /\ UNCHANGED <<leader, svc, report>>

\* Ready or not, the identity is written; it is incomplete when the process
\* ended or kept changing.
Settle ==
    /\ At("settle")
    /\ \E entry \in {"pid", "known"} : Enter(helper.i, entry)
    /\ \E bad \in {helper.bad, TRUE} :
          Step([helper EXCEPT !.at = "next", !.i = @ + 1, !.bad = bad])
    /\ Quiet /\ UNCHANGED <<leader, svc, report>>

Exits == Exit(IF helper.bad THEN "nonzero" ELSE "zero")

StartEnds ==
    /\ At("next")
    /\ helper.i = NumServices + 1
    /\ Exits
    /\ Quiet /\ UNCHANGED <<svc, runtime, helper, report>>

\* TERM becomes an exception, and any exception ends here: terminate_all signals the leaders that live.
Abort ==
    /\ leader = "running"
    /\ helper.at \in {"next", "launch", "record", "settle"}
    /\ Step([helper EXCEPT !.at = "abort", !.bad = TRUE])
    /\ Quiet /\ UNCHANGED <<leader, svc, runtime, report>>

TerminateAll ==
    /\ At("abort")
    /\ svc' \in {f \in [Service -> Process] : \A s \in Service :
                    IF s \in helper.managed /\ svc[s] = "up"
                    THEN f[s] \in {"gone", "headless"} ELSE f[s] = svc[s]}
    /\ Exits
    /\ Quiet /\ UNCHANGED <<runtime, helper, report>>

-----------------------------------------------------------------------------
(* The stop program.                                                       *)

\* pid_alive asks for a process of that number, whoever it is.
Alive(s) == svc[s] \in {"up", "reused", "swapped"}

\* Fault: the command is compared, the rest of the identity is not.
PidMatches(s) == runtime[s] = "known" /\ Alive(s)

Matches(s) == runtime[s] = "known" /\ svc[s] = "up"

\* Without a pid an entry is skipped, a dead leader is stopped already, and a
\* process whose identity does not match is blocked and counts as a failure; that
\* of a service changes with its command.
Recorded == {s \in Service : runtime[s] \in {"pid", "known"}}
Living == {s \in Recorded : Alive(s)}
Matching == {s \in Living : Matches(s)}
Check(matching, bad) ==
    /\ At("check")
    /\ Step([helper EXCEPT !.at = "term", !.managed = matching, !.bad = bad])
    /\ svc' = [s \in Service |-> IF svc[s] = "swapped" THEN "reused" ELSE svc[s]]
    /\ Quiet /\ UNCHANGED <<leader, runtime, report>>

\* Fault: an entry that is blocked is one that is skipped.
LenientCheck == \E matching \in SUBSET Matching : Check(matching, FALSE)

CheckEntries ==
    \E matching \in SUBSET Matching : Check(matching, Living # matching)

\* What the stop program signals under a number it has verified before.
Signalled == {s \in helper.managed : Alive(s)}
StopQuiet == UNCHANGED <<time, used, ex, child, escaped, cycleVars, leader,
                         runtime>>

\* Services react to the TERM as they like.
TermAll ==
    /\ At("term")
    /\ Step([helper EXCEPT !.at = "kill"])
    /\ harmed' = harmed \cup {s \in Signalled : svc[s] = "reused"}
    /\ StopQuiet /\ UNCHANGED <<svc, report>>

\* Who lives after stop_timeout is killed; a process the kernel does not let go
\* is a failure.
KillAll ==
    /\ At("kill")
    /\ \E stuck \in SUBSET Signalled :
          /\ svc' = [s \in Service |-> IF s \in Signalled \ stuck THEN "gone"
                                       ELSE svc[s]]
          /\ Step([helper EXCEPT !.at = "write", !.bad = @ \/ stuck # {}])
    /\ harmed' = harmed \cup {s \in Signalled : svc[s] = "reused"}
    /\ StopQuiet /\ UNCHANGED report

WriteReport ==
    /\ At("write")
    /\ report' = (IF helper.bad THEN "failed" ELSE "clean")
    /\ Step([helper EXCEPT !.at = "written"])
    /\ Quiet /\ UNCHANGED <<leader, svc, runtime>>

StopEnds ==
    /\ At("written") /\ Exits
    /\ Quiet /\ UNCHANGED <<svc, runtime, helper, report>>

\* TERM, a runtime artifact that cannot be read, or an exception: the report
\* says that it failed.
StopAborts ==
    /\ leader = "running" /\ helper.at \in {"check", "term", "kill", "write"}
    /\ report' = "failed"
    /\ Step([helper EXCEPT !.at = "written", !.bad = TRUE])
    /\ Quiet /\ UNCHANGED <<leader, svc, runtime>>

-----------------------------------------------------------------------------
(* The services, and the rest of the machine, as long as the cycle lives.  *)

Outside ==
    /\ pc # "exited"
    /\ UNCHANGED <<stageVars, cycleVars, runtime, helper, report, harmed>>

ServiceEnds(s) ==
    /\ \/ svc[s] = "up" /\ svc' \in {[svc EXCEPT ![s] = p] : p \in {"headless", "gone"}}
       \/ svc[s] \in {"headless", "reused", "swapped"} /\ svc' = [svc EXCEPT ![s] = "gone"]
    /\ Outside

\* A number is free when no group has it.
Reuse(s) ==
    /\ svc[s] = "gone"
    /\ LET verified == /\ leader = "running" /\ s \in helper.managed
                       /\ helper.at \in {"term", "kill"}
       IN svc' = [svc EXCEPT ![s] = IF verified THEN "swapped" ELSE "reused"]
    /\ Outside

-----------------------------------------------------------------------------
(* The cycle.                                                              *)

Group == <<time, used, child, escaped>>
Files == <<svc, runtime, report, harmed>>

\* A stage has a reserve once there may be something to clean up.
Stage(stage, program) ==
    /\ Launch(stage, stage = "start" \/ (attempted /\ stage # "stop"))
    /\ helper' = program
    /\ UNCHANGED Files

OrdinaryStage ==
    /\ pc = "stages" /\ left > 0
    /\ Stage("ordinary", NoHelper)
    /\ left' = left - 1
    /\ UNCHANGED <<pc, attempted, cleaned, ok, told, base>>

OrdinaryExits ==
    /\ ex.stage = "ordinary" /\ \E code \in {"zero", "nonzero"} : Exit(code)
    /\ Quiet /\ UNCHANGED <<svc, runtime, helper, report>>

StartStage ==
    /\ pc = "stages" /\ base = NotStarted
    /\ Stage("start", Start)
    /\ base' = used
    /\ UNCHANGED <<pc, left, attempted, cleaned, ok, told>>

\* What the cycle remembers of a stage before it records its result.
Attempted == attempted \/ (ex.stage = "start" /\ ex.result # "refused")

\* A failed start fails the cycle; what a failed ordinary stage does is open.
StageEnds ==
    /\ pc = "stages" /\ Taken
    /\ attempted' = Attempted
    /\ ok' \in (IF ex.result = "zero" THEN {ok}
                ELSE IF ex.stage = "start" THEN {FALSE} ELSE {ok, FALSE})
    /\ helper' = NoHelper
    /\ UNCHANGED <<Group, Files, leader, pc, left, cleaned, told, base>>

Conclude ==
    /\ pc = "stages" /\ ex = Idle
    /\ pc' = (IF attempted THEN "cleanup" ELSE "complete")
    /\ UNCHANGED <<stageVars, Files, helper, left, attempted, cleaned, ok, told,
                   base>>

StopStage ==
    /\ pc = "cleanup"
    /\ Stage("stop", StopProgram)
    /\ UNCHANGED cycleVars

\* The report, the exit code and the trace of the cleanup must all be right.
CleanupEnds ==
    /\ pc = "cleanup" /\ Taken
    /\ \E traced \in BOOLEAN :
          LET good == traced /\ ex.result = "zero" /\ report = "clean"
          IN cleaned' = good /\ told' = (told \/ ~good) /\ ok' = (ok /\ good)
    /\ pc' = "complete"
    /\ helper' = NoHelper
    /\ UNCHANGED <<Group, Files, leader, left, attempted, base>>

CompleteState ==
    /\ pc = "complete"
    /\ pc' = "finally" /\ ok' \in {ok, FALSE}
    /\ UNCHANGED <<stageVars, Files, helper, left, attempted, cleaned, told, base>>

\* The lease is lost or the log cannot be written: in any phase, before a stage
\* or with its result.
ControlError ==
    /\ pc \in {"stages", "cleanup", "complete"}
    /\ (ex = Idle /\ UNCHANGED ex) \/ Taken
    /\ pc' = "finally" /\ ok' = FALSE /\ attempted' = Attempted
    /\ helper' = NoHelper
    /\ UNCHANGED <<Group, Files, leader, left, cleaned, told, base>>

\* The loop of the executor fails by itself, or the operator interrupts it.
ExecutorFails ==
    /\ Fails /\ helper' = NoHelper
    /\ UNCHANGED <<cycleVars, Files>>

Interrupt ==
    /\ Interrupted /\ helper' = NoHelper
    /\ pc' = "finally" /\ ok' = FALSE
    /\ UNCHANGED <<Files, left, attempted, cleaned, told, base>>

\* Outside the budget and the journals: the stop program, with its own timeout.
FinallyBlock ==
    /\ pc = "finally"
    /\ \/ /\ cleaned \/ ~attempted
          /\ pc' = "exited"
          /\ UNCHANGED <<stageVars, helper, ok, told>>
       \/ /\ ~cleaned /\ attempted
          /\ pc' = "emergency" /\ leader' = "running" /\ helper' = StopProgram
          /\ UNCHANGED <<Group, ex, ok, told>>
       \/ /\ ~cleaned /\ attempted
          /\ pc' = "exited" /\ ok' = FALSE /\ told' = TRUE
          /\ UNCHANGED <<stageVars, helper>>
    /\ UNCHANGED <<Files, left, attempted, cleaned, base>>

EmergencyEnds ==
    /\ pc = "emergency"
    /\ LET good == leader = "zero" /\ report = "clean"
       IN told' = (told \/ ~good) /\ ok' = (ok /\ good)
    /\ pc' = "exited" /\ leader' = "none"
    /\ helper' = NoHelper
    /\ UNCHANGED <<Group, ex, Files, left, attempted, cleaned, base>>

-----------------------------------------------------------------------------
Beside(A) == pc # "exited" /\ A /\ UNCHANGED <<cycleVars, Files, helper>>

StartProgram ==
    Examine \/ Spawn \/ Record \/ Settle \/ StartEnds \/ Abort \/ TerminateAll

StopProgramSteps ==
    CheckEntries \/ TermAll \/ KillAll \/ WriteReport \/ StopEnds \/ StopAborts

Cycle ==
    \/ OrdinaryStage \/ StartStage \/ StageEnds \/ Conclude \/ StopStage
    \/ CleanupEnds \/ CompleteState \/ FinallyBlock \/ EmergencyEnds

Next ==
    \/ Cycle \/ ControlError \/ ExecutorFails \/ Interrupt
    \/ Beside(Executor) \/ OrdinaryExits \/ StartProgram \/ StopProgramSteps
    \/ Beside(Tick) \/ Beside(Members)
    \/ \E s \in Service : ServiceEnds(s) \/ Reuse(s)

\* The cycle and its executor take their steps.  Nothing is assumed of a helper:
\* the timeout of its stage ends it, and that of the finally block, which is the
\* step EmergencyEnds with a leader that still runs.
Fairness == WF_vars(Cycle) /\ WF_vars(Beside(Executor))

Spec == Init /\ [][Next]_vars /\ Fairness
-----------------------------------------------------------------------------
(* What the cycle relies on.                                               *)

\* Between two stages no process of the last one's group is left, whichever of
\* deadline, output limit, exit and interruption came first: no stage of the
\* cycle runs beside what an earlier one left behind.
StageEmpty == ~Running => ~child /\ (leader = "running" => pc = "emergency")

\* When the stop stage begins it may still write what is reserved for it, unless
\* more was written already before the services were started.
ReserveKept ==
    (attempted /\ pc = "stages") \/ ex.stage = "start"
        => used <= MaxOutput - OutputReserve \/ used = base

\* A service whose leader outlives the cycle is never behind an exit code of 0,
\* and the summary says that cleanup failed.  The summary is silent about two of
\* them only: the start program was killed before it could write the pid down,
\* or the operator interrupted the start stage.
Accounted ==
    \A s \in Service : pc = "exited" /\ svc[s] = "up" =>
        ~ok /\ (told \/ runtime[s] = "intent" \/ ~attempted)

\* A process that got a service's number before the stop program looked is
\* never signalled.
StrangersSpared == harmed = {}

\* The cycle comes to an end, whatever its helpers and services do, unless
\* a descendant that left its stage's group holds the pipe for good.
CycleEnds == <>(pc = "exited") \/ <>[]escaped
=============================================================================
