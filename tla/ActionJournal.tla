--------------------------- MODULE ActionJournal ---------------------------
(***************************************************************************)
(* How the actions of a test plan are dispatched: action-journal.jsonl,    *)
(* written by the probe (DurableActionJournal and the main loop of         *)
(* playwright_probe.mjs), read by the cycle before and after               *)
(* (preflight_action_journal and verify_action_journal of                  *)
(* qa_core/runtime/action_protocol.py).                                    *)
(*                                                                         *)
(* A cycle and the probe it spawns are two processes: the probe may die    *)
(* alone, and it outlives a cycle that is killed, so the probe of the next *)
(* cycle may find it still writing.  Nothing locks the journal.            *)
(*                                                                         *)
(* Hashes are left out: an event continues the chain when its sequence is  *)
(* the next one, since two writers that chain to the same event give the   *)
(* same sequence to theirs.  Once a line does not continue the chain, or   *)
(* was cut short, no reader accepts the journal again, and what follows is *)
(* left out.  A cycle stands for its authorization ticket and for its run, *)
(* generation and iteration, which differ from cycle to cycle: the state   *)
(* log moves on, and an execution intent that a human authorized is given  *)
(* to one cycle only (the gate is not part of this module).  All cycles    *)
(* run the same plan, of one scenario.                                     *)
(***************************************************************************)
EXTENDS Naturals, Sequences

CONSTANTS
    MaxCycle,    \* bound: the cycles that are ever started
    MaxStep,     \* the steps of the plan
    Idempotent,  \* the steps whose ToolSpec declares idempotent=true
    Cleanup      \* the cleanupApi steps, which run after a failure too

Cycle == 1 .. MaxCycle
Step == 1 .. MaxStep

ASSUME PlanAssumption ==
    /\ MaxCycle \in Nat
    /\ MaxStep \in Nat \ {0}
    /\ Idempotent \subseteq Step
    /\ Cleanup \subseteq Step

VARIABLES
    journal,   \* action-journal.jsonl: the events that form a chain
    sound,     \* nothing else is in it
    results,   \* results.json: whose and the status of each step
    pc,        \* where each cycle or its probe is
    orphans,   \* the cycles killed while their probe was running
    next,      \* nextSequence of each probe
    abandon,   \* the intents that a probe has still to close at its opening
    record,    \* the statuses of the steps behind it
    stop,      \* stopNormalSteps
    effects,   \* history: the actions that reached the tested system
    opened     \* history: how many of them when a probe opened the journal

probeVars == <<next, abandon, record, stop>>
history == <<effects, opened>>
vars == <<journal, sound, results, pc, orphans, probeVars, history>>

Status == {"passed", "failed", "skipped"}

\* An event is numbered by its place; a commit has the number of its intent,
\* an intent has 0.
Event == [ticket : Cycle, step : Step, intent : Nat,
          status : Status \cup {"pending", "abandoned_safe"}]

Effect == [by : Cycle, step : Step]

Writing == {"abandon", "ready", "skipping", "commit"}
Running == Writing \cup {"spawned", "ticketed", "dispatch"}
Place == Running \cup {"idle", "planned", "finished", "over", "refused",
                       "verified"}

TypeOK ==
    /\ journal \in Seq(Event)
    /\ sound \in BOOLEAN
    /\ results \in [of : Cycle, statuses : [Step -> Status]]
                     \cup {[of |-> 0, statuses |-> <<>>]}
    /\ pc \in [Cycle -> Place]
    /\ orphans \subseteq Cycle
    /\ next \in [Cycle -> Nat]
    /\ abandon \in [Cycle -> SUBSET Nat]
    /\ record \in [Cycle -> Seq(Status)]
    /\ stop \in [Cycle -> BOOLEAN]
    /\ effects \in Seq(Effect)
    /\ opened \in [Cycle -> Nat]

Init ==
    /\ journal = <<>> /\ sound = TRUE
    /\ results = [of |-> 0, statuses |-> <<>>]
    /\ pc = [c \in Cycle |-> "idle"]
    /\ orphans = {}
    /\ next = [c \in Cycle |-> 0]
    /\ abandon = [c \in Cycle |-> {}]
    /\ record = [c \in Cycle |-> <<>>]
    /\ stop = [c \in Cycle |-> FALSE]
    /\ effects = <<>>
    /\ opened = [c \in Cycle |-> 0]

Goto(c, place) == pc' = [pc EXCEPT ![c] = place]

-----------------------------------------------------------------------------
(* What a reader of the journal accepts.                                   *)

Intents == {i \in DOMAIN journal : journal[i].intent = 0}
Commits == DOMAIN journal \ Intents
Unresolved ==
    {i \in Intents : \A j \in Commits : journal[j].intent # i}

\* A commit closes one earlier intent, as that intent says.
Paired ==
    \A j \in Commits :
        /\ \E i \in Intents :
             /\ i = journal[j].intent /\ i < j
             /\ journal[i].ticket = journal[j].ticket
             /\ journal[i].step = journal[j].step
        /\ \A k \in Commits : journal[k].intent = journal[j].intent => k = j

Readable == sound /\ Paired

\* preflight_action_journal.
Recoverable ==
    /\ Readable
    /\ \A i \in Unresolved : journal[i].step \in Idempotent

CurrentCommits(c) ==
    {j \in Commits : /\ journal[j].ticket = c
                     /\ journal[j].status # "abandoned_safe"}

\* Coverage of the contracts, in their order.
Covers(c) ==
    /\ \A s \in Step : \E j \in CurrentCommits(c) : journal[j].step = s
    /\ \A i, j \in CurrentCommits(c) :
         i < j => journal[i].step < journal[j].step

\* Fault: the results are not compared with the commits.
UnmatchedVerifies(c) == Readable /\ Unresolved = {} /\ Covers(c)

\* verify_action_journal with the results.
Verifies(c) ==
    /\ Readable
    /\ Unresolved = {}
    /\ Covers(c)
    /\ \A j \in CurrentCommits(c) :
         journal[j].status = results.statuses[journal[j].step]

-----------------------------------------------------------------------------
(* The cycle.                                                              *)

Quiet(c) == pc[c] \in {"over", "refused", "verified"} \/ c \in orphans

\* The planning gate writes the contracts, under the lease, so after the
\* cycles before it.
Plan(c) ==
    /\ pc[c] = "idle"
    /\ \A d \in Cycle : d < c => Quiet(d)
    /\ Goto(c, "planned")
    /\ UNCHANGED <<journal, sound, results, orphans, probeVars, history>>

\* preflight_action_dispatch, then the ticket and the process.
Preflight(c) ==
    /\ pc[c] = "planned"
    /\ Goto(c, IF Recoverable THEN "spawned" ELSE "refused")
    /\ UNCHANGED <<journal, sound, results, orphans, probeVars, history>>

\* verify_action_dispatch, after the probe has exited.
Verify(c) ==
    /\ pc[c] = "finished" /\ c \notin orphans
    /\ Goto(c, IF Verifies(c) THEN "verified" ELSE "refused")
    /\ UNCHANGED <<journal, sound, results, orphans, probeVars, history>>

\* The process of a cycle is killed; its probe is not told.
CycleKilled(c) ==
    /\ c \notin orphans
    /\ \/ /\ pc[c] \in {"planned", "finished"}
          /\ Goto(c, "over") /\ UNCHANGED orphans
       \/ /\ pc[c] \in Running
          /\ orphans' = orphans \cup {c} /\ UNCHANGED pc
    /\ UNCHANGED <<journal, sound, results, probeVars, history>>

-----------------------------------------------------------------------------
(* The probe.                                                              *)

At(c) == Len(record[c]) + 1
Report(c, status) == record' = [record EXCEPT ![c] = Append(@, status)]

\* Fault: an event whose place in the file is taken is dropped.
DroppingWrite(c, e) ==
    /\ journal' = IF next[c] = Len(journal) + 1 THEN Append(journal, e) ELSE journal
    /\ UNCHANGED sound

\* A probe numbers its event by its own memory of the journal.
Write(c, e) ==
    IF sound /\ next[c] = Len(journal) + 1
    THEN journal' = Append(journal, e) /\ UNCHANGED sound
    ELSE sound' = FALSE /\ UNCHANGED journal

Advance(c) == next' = [next EXCEPT ![c] = @ + 1]

Skips(c) == stop[c] /\ At(c) \notin Cleanup

\* The contracts are read and the ticket is consumed: it does not bind the
\* contracts of a later cycle.
ConsumeTicket(c) ==
    /\ pc[c] = "spawned"
    /\ Goto(c, IF \A d \in Cycle : d > c => pc[d] = "idle"
               THEN "ticketed" ELSE "refused")
    /\ UNCHANGED <<journal, sound, results, orphans, probeVars, history>>

\* DurableActionJournal.open up to the reading of the journal, which may have
\* changed since the preflight.
Open(c) ==
    /\ pc[c] = "ticketed" /\ Readable
    /\ next' = [next EXCEPT ![c] = Len(journal) + 1]
    /\ abandon' = [abandon EXCEPT ![c] = Unresolved]
    /\ opened' = [opened EXCEPT ![c] = Len(effects)]
    /\ Goto(c, "abandon")
    /\ UNCHANGED <<journal, sound, results, orphans, record, stop, effects>>

\* Fault: open relies on what the preflight found.
TrustingMayAbandon(i) == TRUE

MayAbandon(i) == journal[i].step \in Idempotent

Oldest(c) == {i \in abandon[c] : \A j \in abandon[c] : i <= j}

\* The intents that are still open are closed as abandoned_safe, in their
\* order, up to one that may not be.
Abandon(c) ==
    /\ pc[c] = "abandon"
    /\ \E i \in Oldest(c) :
         /\ MayAbandon(i)
         /\ Write(c, [journal[i] EXCEPT !.intent = i,
                                       !.status = "abandoned_safe"])
         /\ abandon' = [abandon EXCEPT ![c] = @ \ {i}]
    /\ Advance(c)
    /\ UNCHANGED <<results, pc, orphans, record, stop, history>>

OpenRefused(c) ==
    /\ \/ pc[c] = "ticketed" /\ ~Readable
       \/ pc[c] = "abandon" /\ \E i \in Oldest(c) : ~MayAbandon(i)
    /\ Goto(c, "refused")
    /\ UNCHANGED <<journal, sound, results, orphans, probeVars, history>>

Opened(c) ==
    /\ pc[c] = "abandon" /\ abandon[c] = {}
    /\ Goto(c, "ready")
    /\ UNCHANGED <<journal, sound, results, orphans, probeVars, history>>

\* A failure stops the scenario unless continueOnFailure is set.
Failure(c) ==
    /\ Report(c, "failed")
    /\ stop' \in {stop, [stop EXCEPT ![c] = TRUE]}

PendingIntent(c) ==
    [ticket |-> c, step |-> At(c), intent |-> 0, status |-> "pending"]

\* runStep, or skipped, up to the durable intent.
Intent(c) ==
    /\ pc[c] = "ready" /\ At(c) \in Step
    /\ Write(c, PendingIntent(c))
    /\ Advance(c)
    /\ Goto(c, IF Skips(c) THEN "skipping" ELSE "dispatch")
    /\ UNCHANGED <<results, orphans, abandon, record, stop, history>>

\* The step cannot be resolved: runStep catches that before there is an
\* intent.  A cleanup step that misses a variable counts as skipped.
Unresolvable(c) ==
    /\ pc[c] = "ready" /\ At(c) \in Step /\ ~Skips(c)
    /\ \/ Failure(c)
       \/ At(c) \in Cleanup /\ Report(c, "skipped") /\ UNCHANGED stop
    /\ UNCHANGED <<journal, sound, results, pc, orphans, next, abandon, history>>

\* The append of the intent throws, in runStep, which goes on: the line may be
\* in the file, or a part of it, and the memory is not advanced.
IntentFails(c) ==
    /\ pc[c] = "ready" /\ At(c) \in Step /\ ~Skips(c)
    /\ \/ Write(c, PendingIntent(c))
       \/ UNCHANGED journal /\ sound' \in {sound, FALSE}
    /\ Failure(c)
    /\ UNCHANGED <<results, pc, orphans, next, abandon, history>>

\* The side effect.  A failed action may have had it or not.
Dispatch(c) ==
    /\ pc[c] = "dispatch"
    /\ \/ Report(c, "passed") /\ UNCHANGED stop
       \/ Failure(c)
    /\ \/ effects' = Append(effects, [by |-> c, step |-> At(c)])
       \/ record'[c][At(c)] = "failed" /\ UNCHANGED effects
    /\ Goto(c, "commit")
    /\ UNCHANGED <<journal, sound, results, orphans, next, abandon, opened>>

Close(c) ==
    LET step == Len(record'[c])
    IN /\ Write(c, [ticket |-> c, step |-> step, intent |-> next[c] - 1,
                    status |-> record'[c][step]])
       /\ Advance(c)
       /\ Goto(c, "ready")
       /\ UNCHANGED <<results, orphans, abandon, stop, history>>

\* Fault: runStep records its step, and the main loop does so again.
RepeatingCommit(c) ==
    \/ pc[c] = "skipping" /\ Report(c, "skipped") /\ Close(c)
    \/ pc[c] = "commit" /\ Report(c, record[c][Len(record[c])]) /\ Close(c)

\* The durable commit of the step; its intent is what the probe appended last.
Commit(c) ==
    \/ pc[c] = "skipping" /\ Report(c, "skipped") /\ Close(c)
    \/ pc[c] = "commit" /\ UNCHANGED record /\ Close(c)

\* The browser and the journal are closed, then the results are written.
Finish(c) ==
    /\ pc[c] = "ready" /\ At(c) \notin Step
    /\ results' = [of |-> c, statuses |-> record[c]]
    /\ Goto(c, "finished")
    /\ UNCHANGED <<journal, sound, orphans, probeVars, history>>

\* The probe crashes, an append of it throws, or its deadline has come; a line
\* that it was writing may be cut short.
ProbeDies(c) ==
    /\ pc[c] \in Running
    /\ \/ UNCHANGED sound
       \/ pc[c] \in Writing /\ sound' = FALSE
    /\ Goto(c, "over")
    /\ UNCHANGED <<journal, results, orphans, probeVars, history>>

-----------------------------------------------------------------------------
Next ==
    \E c \in Cycle :
        \/ Plan(c) \/ Preflight(c) \/ Verify(c) \/ CycleKilled(c)
        \/ ConsumeTicket(c) \/ Open(c) \/ OpenRefused(c)
        \/ Abandon(c) \/ Opened(c)
        \/ Intent(c) \/ Unresolvable(c) \/ IntentFails(c)
        \/ Dispatch(c) \/ Commit(c) \/ Finish(c) \/ ProbeDies(c)

Spec == Init /\ [][Next]_vars

-----------------------------------------------------------------------------
(* Properties.                                                             *)

Verified(c) == pc[c] # "verified" /\ pc'[c] = "verified"

\* A non-idempotent action of an earlier cycle whose outcome nobody knows,
\* since the probe died before its commit was durable, ends all dispatching:
\* nothing is done by a probe that opens the journal later.
UncertainBlocks ==
    \A i, j \in DOMAIN effects :
        /\ i <= opened[effects[j].by]
        /\ effects[i].step \notin Idempotent
        /\ effects[i].by # effects[j].by
        => \E k \in Commits : /\ journal[k].ticket = effects[i].by
                              /\ journal[k].step = effects[i].step
                              /\ journal[k].status # "abandoned_safe"

\* A cycle that verifies was alone at work: between the opening of the journal
\* and its probe's last action no probe of a killed cycle has done anything
\* that is not idempotent.
VerifiedAlone ==
    [][\A c \in Cycle : Verified(c) =>
         \A i, j \in DOMAIN effects :
            opened[c] < i /\ i < j /\ effects[j].by = c =>
                \/ effects[i].by = c
                \/ effects[i].step \in Idempotent]_vars

\* The results that a cycle verifies tell what its own probe did, also if
\* another probe wrote the file: a step that passed was done once, a step that
\* was skipped not at all.
VerifiedPerformed ==
    [][\A c \in Cycle : Verified(c) =>
         \A s \in Step :
            LET done == {i \in DOMAIN effects : effects[i] = [by |-> c, step |-> s]}
            IN /\ results.statuses[s] = "passed" => \E i \in done : done = {i}
               /\ results.statuses[s] = "skipped" => done = {}]_vars

\* A cleanup step that is skipped because the step before it created nothing
\* is not by itself a reason to refuse the run: of a journal that can be read,
\* only a step that was tried lacks a commit.
TeardownSkipHarmless ==
    \A c \in Cycle :
        pc[c] = "refused" /\ Readable /\ Unresolved = {} /\ results.of = c =>
            \E s \in Step :
                /\ results.statuses[s] # "skipped"
                /\ ~\E j \in CurrentCommits(c) : journal[j].step = s
=============================================================================
