---------------------------- MODULE StageProcess ----------------------------
(***************************************************************************)
(* One stage of a cycle at a time as a process group under a budget: the   *)
(* RunBudget of qa_core/runtime/budget.py and the collecting loop of       *)
(* ProcessExecutor (qa_core/runtime/process.py).                           *)
(*                                                                         *)
(* The deadline, the output limit, the exit of the group's leader and the  *)
(* members it leaves behind race: each may be what the loop sees first.    *)
(* What the helper does (exit, fork, write, ignore a signal) is its own.   *)
(* A descendant may leave the group with the pipe still open.              *)
(***************************************************************************)
EXTENDS Naturals

CONSTANTS
    MaxOutput,      \* --max-output-bytes, in chunks
    OutputReserve   \* CLEANUP_OUTPUT_RESERVE_BYTES, in chunks

ASSUME OutputAssumption ==
    MaxOutput \in Nat /\ OutputReserve \in 0 .. MaxOutput

VARIABLES
    time,     \* before the reserve of the deadline, within it, or past both
    used,     \* output_bytes_used
    ex,       \* the executor: the stage it runs and how far it is
    leader,   \* the process started for the stage
    child,    \* whether its group has another living member
    escaped   \* whether a descendant outside the group holds the pipe

stageVars == <<time, used, ex, leader, child, escaped>>

StageName == {"ordinary", "start", "stop"}
Reason == {"none", "time", "output", "group", "error"}

\* The state between two stages.
Idle == [stage |-> "none", reserved |-> FALSE, reason |-> "none",
         sent |-> "none", result |-> "none"]

StageTypeOK ==
    /\ time \in {"work", "reserve", "over"}
    /\ used \in 0 .. MaxOutput
    /\ ex \in [stage : StageName \cup {"none"}, reserved : BOOLEAN,
               reason : Reason, sent : {"none", "term", "kill"},
               result : {"none", "pending", "zero", "nonzero", "refused"}]
    /\ leader \in {"none", "running", "zero", "nonzero"}
    /\ child \in BOOLEAN /\ escaped \in BOOLEAN

StageInit ==
    /\ time = "work" /\ used = 0 /\ ex = Idle
    /\ leader = "none" /\ child = FALSE /\ escaped = FALSE

-----------------------------------------------------------------------------
(* The budget.                                                             *)

\* A stage with a reserve is over when the reserve begins.
Due == time = "over" \/ (ex.reserved /\ time = "reserve")

\* Fault: the reserve is never subtracted.
WholeLimit == MaxOutput

Limit == IF ex.reserved THEN MaxOutput - OutputReserve ELSE MaxOutput

Tick ==
    /\ \/ time = "work" /\ time' = "reserve"
       \/ time = "reserve" /\ time' = "over"
    /\ UNCHANGED <<used, ex, leader, child, escaped>>

-----------------------------------------------------------------------------
(* The executor.                                                           *)

Running == ex.result = "pending"
GroupAlive == leader = "running" \/ child

\* The budget is checked before the process exists.  The process may not start
\* for another reason, too.
Launch(stage, reserved) ==
    LET due == time = "over" \/ (reserved /\ time = "reserve")
        begun == [Idle EXCEPT !.stage = stage, !.reserved = reserved]
    IN /\ ex.stage = "none"
       /\ \/ /\ ~due
             /\ ex' = [begun EXCEPT !.result = "pending"]
             /\ leader' = "running"
          \/ /\ ex' = [begun EXCEPT !.result = "refused"]
             /\ UNCHANGED leader
       /\ UNCHANGED <<time, used, child, escaped>>

\* The first reason is the one the result states, and it sends the TERM.
Stop(reason) == ex' = [ex EXCEPT !.reason = reason, !.sent = "term"]

\* The deadline of the run, or the timeout of the stage, however short.
Expire ==
    /\ Running /\ ex.reason = "none"
    /\ Stop("time")
    /\ UNCHANGED <<time, used, leader, child, escaped>>

\* A chunk of output; after a reason is set it is read but not counted.
Read ==
    /\ Running /\ ex.reason = "none" /\ ~Due
    /\ IF used + 1 <= Limit
       THEN used' = used + 1 /\ UNCHANGED ex
       ELSE Stop("output") /\ UNCHANGED used
    /\ UNCHANGED <<time, leader, child, escaped>>

\* The leader has exited and others of its group have not.
LeftBehind ==
    /\ Running /\ ex.reason = "none" /\ leader # "running" /\ child
    /\ Stop("group")
    /\ UNCHANGED <<time, used, leader, child, escaped>>

\* Fault: only the leader is killed.
KillLeader ==
    /\ Running /\ ex.sent = "term" /\ GroupAlive
    /\ ex' = [ex EXCEPT !.sent = "kill"]
    /\ leader' = (IF leader = "running" THEN "nonzero" ELSE leader)
    /\ UNCHANGED <<time, used, child, escaped>>

\* The grace period has passed.
Kill ==
    /\ Running /\ ex.sent = "term" /\ GroupAlive
    /\ ex' = [ex EXCEPT !.sent = "kill"]
    /\ leader' = (IF leader = "running" THEN "nonzero" ELSE leader)
    /\ child' = FALSE
    /\ UNCHANGED <<time, used, escaped>>

Result == IF ex.reason = "none" THEN leader ELSE "nonzero"

\* Fault: the loop ends when the leader has exited.
HastyReturn ==
    /\ Running /\ leader \in {"zero", "nonzero"}
    /\ ex' = [ex EXCEPT !.result = Result]
    /\ leader' = "none"
    /\ UNCHANGED <<time, used, child, escaped>>

\* Fault: the loop ends when the pipes are closed; the leader may still run.
UnreapedReturn ==
    /\ Running /\ ~child /\ ~escaped
    /\ ex' = [ex EXCEPT !.result = Result]
    /\ leader' = "none"
    /\ UNCHANGED <<time, used, child, escaped>>

\* The leader is reaped, the pipes are closed and the group is empty.  Only
\* a KILL that had somebody to reach sets the time after which a pipe that
\* is still open is given up.
Return ==
    /\ Running /\ leader \in {"zero", "nonzero"} /\ ~child
    /\ escaped => ex.sent = "kill"
    /\ ex' = [ex EXCEPT !.result = Result]
    /\ leader' = "none"
    /\ UNCHANGED <<time, used, child, escaped>>

\* The caller takes the result.
Ended == ex.result \in {"zero", "nonzero", "refused"}
Taken == Ended /\ ex' = Idle

\* An error of the loop sends TERM and KILL at once and is a result; when the
\* operator interrupts it the same is done, and the caller gets no result.
Break(next) ==
    /\ Running
    /\ ex' = next /\ leader' = "none" /\ child' = FALSE
    /\ UNCHANGED <<time, used, escaped>>

Fails == Break([ex EXCEPT !.reason = "error", !.sent = "kill", !.result = "nonzero"])
Interrupted == Break(Idle)

-----------------------------------------------------------------------------
(* The process group.                                                      *)

Exit(code) == leader = "running" /\ leader' = code

\* The programs of the start and the stop stage wait for what they fork, save
\* for the services, which are no members.
Fork ==
    /\ Running /\ GroupAlive /\ ex.stage = "ordinary" /\ child' = TRUE
    /\ UNCHANGED <<time, used, ex, leader, escaped>>

Escape ==
    /\ child /\ child' = FALSE /\ escaped' = TRUE
    /\ UNCHANGED <<time, used, ex, leader>>

MemberEnds ==
    /\ \/ child' = FALSE /\ UNCHANGED escaped
       \/ escaped' = FALSE /\ UNCHANGED child
    /\ UNCHANGED <<time, used, ex, leader>>

Executor == Expire \/ Read \/ LeftBehind \/ Kill \/ Return
Members == Fork \/ Escape \/ MemberEnds
=============================================================================
