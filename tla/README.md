# TLA+ verification of the proof-carrying QA agent

The program under `src/skills/automated-qa-test/scripts/` runs QA cycles over a
run directory. A cycle reads a requirement and a test plan, executes probes,
judges the evidence, and may publish that the run *passed*; the word may be
believed only because the files of the run directory form a proof that can be
checked again later. Everything is files: several processes, which may be killed
at any time and which an operator or an outer loop starts again, read and replace
the same few files under advisory locks.

This directory models the parts of the program that decide whether that proof can
be trusted. Paths below are relative to `src/skills/automated-qa-test/scripts/`.

## 1. Inventory

| component | state it keeps | operations | interacts with |
|---|---|---|---|
| **Run lease and session** `qa_core/runtime/lease.py`, `session.py` | `.qa-run-lease.json` (run id, owner, generation, heartbeat time), guarded by the flock of a guard file | acquire, heartbeat, takeover, release; `RunSession.open`, `heartbeat`, `close` | both programs open a session first; a cycle that the loop spawned inherits the loop's lease |
| **Run state log and coordinator** `qa_core/state/store.py`, `runtime/state_coordinator.py` | `run-events.jsonl`, a hash chain, and its projection `run-state.json` | initialize, append, load; open, before_stage, update_budget, record_component_versions, finish, invalidate_pass | every append is preceded by a heartbeat of the session |
| **Attempt store** `runtime/attempts.py`, `cycle_attempt.py` | `attempts/att_*` directories, committed by one rename; `run-manifest.json`, fenced by sequence and generation | begin, commit, load_attempt, publish_run_manifest; the four phases of commit_cycle_attempt | reads the lease before each phase |
| **QA cycle** `run_qa_cycle.py`, `qa_core/pipeline` | the artifacts of a run: context, action contracts, results, verdict, report, trace; the managed services | nine stages, complete_state, the failure handlers, the finally block | everything above; child processes for the stages |
| **Proof verifier** `qa_core/proof` | none | verify_run_proof | reads all of the above without a lock, inside a cycle and from a program of its own |
| **Action protocol** `qa_core/runtime/action_protocol.py`, `playwright_probe.mjs` | `action-journal.jsonl`, an intent and a result for every action | open, intent, commit, skip; verification and recovery preflight | the probe writes, the cycle and the verifier read |
| **Budget and processes** `runtime/budget.py`, `process.py` | counters of time, probes, output; reserves for cleanup | consume, stage budgets, cancel; ProcessExecutor.run | every child process of a cycle |
| **Managed services** `service_runtime.py`, `preflight_runtime.py` | `service-runtime.json`, process groups | start, wait for readiness, stop | started by a cycle's preflight, stopped by its cleanup |
| **Human control** `qa_core/hitl`, `human_runtime.py` | requests, decisions, a checkpointed journal | create, decide, consume once, resume, redeem | a gate before probes that need an approval |
| **Outer loop** `qa_agent_loop.py` | iterations, reservations of budget | one cycle after another; the claim of a pass | spawns cycles under its own lease |
| **Knowledge, observability** `qa_core/knowledge`, `qa_core/observability` | append-only journals | append, query; trace, metrics, objectives | a cycle records its trace and binds it to the state |
| **Scheduler, critic, policy, context, tools, verdict** | none | functions from artifacts to artifacts | called by stages |
| **Evaluation, scaffolding, benchmarks, regression suite** | none at run time | offline programs | – |

### What is hard, and what each part must promise

* **Lease.** A cycle reads the event log, then the lease, and only then acquires
  or inherits. The loop may die over its cycle, clocks may be set back, a stale
  lease may be taken over while its holder still heartbeats. Promise: one holder;
  a lost lease is lost for good; succession in order.
* **State log.** The lease is checked before an append and not with it; an append
  reads without a lock and again with it; a crash may cut a line or leave the
  projection behind. Promise: no fork and no gap in the chain, no acknowledged
  event lost, a torn file never continued, no pass of an earlier cycle left
  standing while the next one works.
* **Attempts.** Four phases, each after a reading of the lease that may be stale
  when the phase runs; attempts begun or committed and never published. Promise:
  the manifest always loads, keeps what it had, and holds exactly one attempt for
  its sequence.
* **Cycle and verifier.** Any stage may fail, the handler of a failure may fail,
  the process may be killed between two writes, an editor may change the inputs,
  and the verifier reads one file after the other meanwhile. Promise: a pass that
  can be verified was earned by the latest cycle on the inputs on disk; nobody
  claims a pass that was not verified; no service is left behind a clean exit.
* **Action protocol.** A probe may die between the intent and the commit of an
  action, fail to append, cut a line short, or outlive its cycle and go on beside
  the probe of the next one; nothing locks the journal, and it is read before the
  probe starts, by the probe, and after it. Promise: what is not idempotent and of
  unknown outcome is neither repeated nor forgotten, but stops everything; what a
  cycle verifies was done by its own probe, undisturbed.
* **Budget, processes, services.** Deadline, output limit, cancellation and exit
  race; helpers hang, fork, ignore signals and die between the launch of a service
  and the record of it; a leader's number may belong to a stranger by the time it
  is signalled. Promise: no stage leaves a member of its group; the reserve for
  cleanup survives; every service is stopped or the summary says so; no verified
  stranger is signalled; the cycle ends.
* **Human control.** Three invocations of the gate, commands of an operator and an
  outside authority that signs checkpoints, over one journal. Promise: what a gate
  dispatches was approved, consumed and redeemed for that intent, once; a gate that
  has what it needs comes to a conclusion.
* **Outer loop.** A cycle grows the plan after the loop has reserved it, dies after
  it has regenerated the recommendations, and reads them again by itself; a file is
  replaced, a session resumed. Promise: one probe budget for all iterations;
  follow-ups are applied once, and as they were previewed.

`PROJECT.json` lists each hazard at its line.

## 2. Plan

| order | module | composes | state |
|---|---|---|---|
| 1 | `LeaseRegister` (abstract), `RunLease` | RunLease implements LeaseRegister | modelled, checked, proved |
| 2 | `EventLog` (abstract), `RunStateLog` | extends LeaseRegister with writers of the log; implements EventLog | modelled, checked, proved |
| 3 | `ManifestChain` (abstract), `AttemptStore` | extends LeaseRegister; implements ManifestChain | modelled, checked, proved |
| 4 | `PassRecord` (abstract), `QaCycle` | cycles, editor and verifier over the artifacts, with whole appends and whole commits; implements PassRecord | modelled, checked, proved |
| 5 | `ActionJournal` | cycles and the probes they spawn over one journal | modelled, checked, proved |
| 6 | `Approval` (abstract), `HumanControl` | HumanControl implements Approval | modelled, checked, proved |
| 7 | `StageProcess`, `ManagedServices` | ManagedServices extends StageProcess: the cycle's stages are what it executes | modelled, checked, proved |
| 8 | `AgentLoop` | sessions, cycles and previews over one plan and one file of recommendations | modelled, checked, proved |
| 9 | knowledge store, trace journal | journals like the run state log, with one writer each | left, see section 6 |
| 10 | scheduler, verdict status and journal validation as functions | against reference definitions | left, see section 6 |

## 3. The modules

### LeaseRegister and RunLease

`LeaseRegister` is what everything that writes needs to know of the lease: one
identity is held or none (`held`), and an identity that was given up is `spent`.
Its actions are `Grant`, `Supersede` and `Drop`.

`RunLease` is the code. Every method of the class `RunLease` runs under the flock
of its guard file and is one action (`Acquire`, `Heartbeat`, `Takeover`, `Close`
with `Release`); `RunSession.open` is three (`ReadLog`, `ReadLease`, then
`Inherit` or `Acquire`), since it takes the lock for the last only. A session is
one invocation of a program; `ppid`, `seenRun`, `seen` and `token` are its local
variables, `lease`, `age` and `logRun` the files. `ClockMoves` lets time pass up
to the threshold of takeover, or sets the clock back behind the last heartbeat,
which makes a heartbeat fail. `Bind`, `LoadState` and `Initialise` are
`RunStateCoordinator.open` as far as the run id is concerned.

`ImplementsRegister` is the refinement: `held` is the lease file, `spent` the
tokens that sessions opened with and that are no longer on disk.

### EventLog and RunStateLog

`EventLog` is what a reader of the log may rely on: whole events, each numbered by its
place, written by the holder of the lease or by one that was overtaken (`Write`), an
acknowledgement that the writer's own last event is projected (`Return`), and the moves
of the lease. `RunStateLog` is the code. For every identity the cycle that is running
under it: `OpenCycle`, `LoadEvents`, and then appends, each of them `Beat` (the
heartbeat of `_append`), `ReadBeforeAppend` (the reading without the lock), `WriteLine`,
`SyncLine` and `Project` (under the flock). `Continue` says which event the coordinator
appends next; `Note`, `Finish` and `InvalidatePass` are its calls from the cycle. `Stop`
may happen at every step: it is the end of a cycle, an exception, or a crash, and in the
middle of a line it leaves the file torn (`whole` is FALSE). The lease moves by the
actions of `LeaseRegister`, and is given up by an owner that is not inside a cycle;
`overtaken` remembers whose lease was taken over. Hashes of events are left out:
sequences in order stand for a chain that validates.

### ManifestChain and AttemptStore

`ManifestChain` is the promise of the run manifest: replaced by its successor
only, one new attempt each, nothing dropped within a generation, no generation
skipped. `AttemptStore` is `commit_cycle_attempt` phase by phase:
`RequireActiveLease` moves from the reading of the lease to the phase,
`ManifestPreflight`, `Begin`, `Commit` and `Publish` are the phases. `Abandon` is
a failed check or a crash. `genOf` gives the generation of every lease.

### PassRecord and QaCycle

`PassRecord` is the status of a run as its readers may see it: every cycle ends in
one result, a pass is claimed first and then confirmed or withdrawn, once.
`PassState` reads that status from the log and from `proved`. `QaCycle` is the code.
One process (`pc`) runs cycle after cycle over the artifacts. Every stage is an
action; what a stage computes is abstracted to the version (of requirement and
plan) or the cycle that a file comes from. Failures are actions: `StageFails`,
`StartFails`, `CleanupFails`, `CheckFails`, `CommitFails`, `TraceFails` (the
handlers of run_qa_cycle.py, which hand over a verdict that is no pass, unless the
writing of it fails too), `Unwind` (an exception to the outermost handler) and
`Kill`. `Edit` changes the requirement or the plan, also back. The verifier is
`ReadEvents` … `ReadContext`, one file after the other, in a process of its own;
the operators `Claims`, `RefersTo`, `ParentsMatch`, `VerdictMatches` and
`ContextMatches` are what it compares. `ProofCloses` is all of them at one
instant. The verification that a cycle makes itself (`Verify`) is one step.
`spoiled` and `proved` are history variables.

### ActionJournal

For every cycle (a ticket, and a run iteration) its place and that of its probe in
one `pc`: the cycle in `planned` and `finished`, the probe in between. A cycle that
is killed while its probe runs becomes an `orphan`, and its probe goes on; the next
cycle plans meanwhile. `Plan`, `Preflight` and `Verify` are the cycle's calls;
`ConsumeTicket`, `Open` (the reading of the journal), `Abandon` (one append per
intent that is still open), `OpenRefused` and `Opened` are
`DurableActionJournal.open`; then one step of the plan after the other: `Intent`,
`Dispatch`, `Commit`, or `Unresolvable` and `IntentFails` when runStep catches an
error before it has an intent; `Finish` writes the results. `Skips` and `Failure`
are the main loop's bookkeeping after a failure, with steps that always run
(`Cleanup`).

A probe numbers what it appends by its own memory (`next`). Two lines that continue
the same line end the chain, and so does a line cut short: `sound` becomes FALSE,
and no reader accepts the journal again. What each reader demands are the operators
`Readable`, `Recoverable`, `MayAbandon` and `Verifies`. `effects` (what reached the
tested system) and `opened` are history variables; no action reads them.

### Approval and HumanControl

`Approval` is the promise for one intent: requested, decided, consumed, redeemed and
then dispatched under that approval, each once. `HumanControl` is the journal of
`qa_core/hitl` with its signed checkpoint, and the processes around it: the invocations
of the gate in `human_runtime.py` (`Begin`, `Read`, `Create`, `Resume`, `Consume`,
`Redeem`, `Authorize`, and `Compare`, `Contract`, `Ticket` and `Act` for what stands
between a redemption and the probe), the command line (`CliCreate`, `Decide`,
`CliConsume`), the authority that signs (`Sign`) and an operator who replaces the plan
or raises the epoch. `Crash` is also an error after an append. `raced` is a history
variable: the invocations whose plan was replaced between the comparison and the final
contracts. The order of journal events of different intents is abstracted: a stage per
intent and the length of the journal are what a checkpoint and the reducer can tell
apart. Comparisons of whole files that can only refuse more are left out. What a request
binds field by field is one *intent*: a plan and an epoch.

### StageProcess and ManagedServices

`StageProcess` is one stage: the budget (`time`, `used` against its limits, with
the reserve that `Limit` and `Due` subtract), the executor (`ex`) and the process
group it collects from, as the leader, a descendant in the group (`child`) and one
that has left it (`escaped`). `Expire`, `Read`, `LeftBehind`, `Kill`, `Return` and
`Break` are the turns of `_collect`; time advances and processes exit, fork and
escape beside it.

`ManagedServices` adds the services as process groups of their own, the start
program (`Spawn`, `Record`, `Settle`, and `Abort` for its guard), the stop program
(`Check`, `TermAll`, `KillAll`, `WriteReport`), and the part of the cycle that
decides what is due: `StartStage`, ordinary stages, `StopStage`, `Conclude`, the
emergency stop of the finally block, errors of lease, log and trace
(`ControlError`), and an operator's interrupt. A number whose process is gone may be
reused by a stranger at any time. `harmed`, `told` and `base` record what the
properties speak of. Readiness is not modelled (a service that is not ready is
stopped like one that is), nor a second interrupt inside the finally block, zombies,
or the SIGKILL of the cycle itself, for which the code promises nothing.

### AgentLoop

A session is one run of the loop: `Begin` with or without
`--apply-existing-next-probes`, `--expected-next-probes-sha256` and
`--allow-required-input-gaps`; then per iteration one of the three stops before a
cycle (`StopBefore`), the reservation (`Reserve`, or `Exhausted`), the cycle as far
as it touches plan and recommendations (`Synthesize`, `Apply`, `Dispatch`,
`Conclude`, `CycleFails`), `Reconcile`, `Preview`, and `Continue` or `Stop`. A
recommendation is the step it would add; a file's content stands for its hash.
`kept` is the hash that the summary on disk lets a resume recover. `Crash` ends a
session with its cycle and leaves the files, the summary among them, as they are.
`told`, `applied`, `cleared`, `spent` and `raced` are history variables. `raced` is
set by a replacement in one of the two windows that no hash covers: between the
preview and the hash the loop takes after it, and between the loop's comparison and
the cycle's own reading.

### MC modules

`MCRunLease` (a loop, two cycles it spawns, one started by hand), `MCRunStateLog` (two
identities, symmetric; once a lease was taken over the log is bounded more tightly),
`MCAttemptStore` (three identities, symmetric), `MCQaCycle`, `MCActionJournal` (an
idempotent cleanup step, then a create), `MCHumanControl` (two invocations, two plans),
`MCManagedServices` (two services), `MCAgentLoop` (three follow-ups, one of which lacks
an input and one of which the adapter synthesis may add). Definitions whose comment
starts with *Fault:* are not part of any specification; they are changed forms of an
action, to see that a property fails when the code has that bug.

## 4. Runs

| run | what it shows |
|---|---|
| `lease_takeover` | With takeover: at most one holder, the lease is succeeded by the next generation of the same run after it became stale and removed by its owner only, when no other session works under it, and the lease implements the register, in which a lost identity never comes back. As long as no takeover has happened – no program calls it – no two cycles are ever inside a session, although any process may be killed and started again. |
| `lease_resume` | (violated) A run whose owner was killed is not resumed by anybody, however often a program is started: see section 7. |
| `log_writers` | Two identities with leases given up and taken over, crashes anywhere: the log moves along `EventLog`, so its chain stays intact and its events are of holders or overtaken holders; acknowledged events stay in log and projection, a torn log is frozen; and until a takeover, wherever cycles are killed, none works on a run that an earlier one has passed. |
| `attempt_commit` | Three identities: the manifest never becomes invalid, has one attempt per iteration, and moves along `ManifestChain`; until a lease is taken over, a commit that has begun is alone and no check of another's work can stop it; and a run that two takeovers in a row have stranded publishes nothing until its lease is released. |
| `cycle_verifier` | Two cycles, every failure, kills, edits and a verifier: a proof that closes was earned, what the verifier accepts is the work of one unfailed cycle, what the loop claims was verified, a clean exit leaves no service, and the status of the run moves along `PassRecord`. |
| `actions_dispatch` | Two cycles, probes that die, survive their cycle, cannot resolve a step, cannot append or cut a line: nothing is dispatched by a probe that opens the journal after a non-idempotent action of unknown outcome; while the probe of a cycle that verifies was at work no other did anything that is not idempotent; and its results are what it did, whoever wrote the file. |
| `human_gate` | Two invocations of the gate, the command line, the signer and an operator, with a crash: whatever is dispatched under a gate was requested, approved, consumed and redeemed for that intent, once; whatever is dispatched of high-risk plans, under a gate or not, has its redeemed approval, but for a plan that needed none and is replaced in one window (section 7); the journal is never more than one event ahead of what a checkpoint can cover; and a gate concludes once its checkpoint stays current. |
| `services_cleanup` | A cycle under its budget with two services and helpers that fail in every way: no member of a stage's group outlives its stage, the reserve is there when the cleanup starts unless it was spent before the services were, each service is stopped or accounted for or the summary says that it is not, no stranger that had the number before the check is signalled, and the cycle ends. |
| `loop_followups` | Sessions of up to three iterations with resumes, crashes, failing cycles and a replaced file: all cycles of a session stay within `--max-probes`, no hash is handed out twice, and what a cycle applies was previewed in the session or bound by the resume, unless the file was replaced in one of the two windows. |
| `actions_teardown` | (violated) A skipped cleanup step makes the cycle refuse the run. |
| `cycle_published` | (violated) The pass is in the log before it is verified. |
| `cycle_coverage` | (violated) A pass may carry the coverage of an older requirement. |

**Bounds.** `StaleAfter = 1`: ages below, at and (through the set back clock) before the
threshold are all that a comparison can tell apart. Four sessions: a parent, its child,
a second child to overlap with an orphan, and a stranger. `MaxEvents = 11` for
`log_writers`: opening a fresh run takes four events (`created`, `versions`, `running`,
`budget`) and a pass three (`final`, `evidence`, `passed`); a second cycle is at work
over that pass after three more (`versions`, `running`, `budget`), ten in all, and the
eleventh is a note of its own or a revocation or a killed opening before it. After a
takeover, of which `EarlierPassRevoked` does not speak, the log grows to `MaxShared = 8`
only: one cycle to its end and another opening over it, or both racing from the first
event on. Two identities for the log: every hazard is a race of two. `MaxAttempts = 4`,
`MaxGeneration = 3`, three identities: two takeovers in a row, and an abandoned attempt
besides a published one for each of two sequences. `MaxCycle = 2`, `MaxVersion = 2`,
`MaxEdits = 2`: artifacts of an earlier cycle are found by a later one, a verifier
straddles both, and an input is changed and restored. For the journal two cycles and two
steps: an orphan and its successor at any two places of their plans, one step that may
be abandoned and one that may not, in both orders between the probes. For the gate two
invocations and two plans: both redeem, or one goes on where the other died, or the plan
is another by then; the clock stops at `MaxTime`, when what was issued at the start has
expired. For the services two of them, so that a helper can die between one and the
other, one ordinary stage before the cleanup, and `MaxOutput = 2` with a reserve of 1:
below, at and above either limit. For the loop three iterations (the decision of the
first matters for the third), a plan of one step and three more against a budget of six,
so that a growing plan exhausts it in the second or the third cycle, and one replacement
of the file at any step; sessions are not bounded. What is proved does not depend on any
of these.

**Deadlock** is checked for `loop_followups` and `human_gate`, where a session or an
invocation can always begin. The other models stop at a bound, and the real system does
stop, when nobody starts a program any more.

**Fairness.** `human_gate`: the steps of each invocation, a human's decision when a
request is open, and the signature of a checkpoint. Each gate is a process that the
system schedules; the human and the authority are what the program waits for, and
the property is about what it does when they answer. `services_cleanup`: the steps
of the cycle and of the executor only. Every stage has a timeout and the finally
block has its own, so nothing is assumed of helpers, services or descendants; they
may hang for ever. `lease_resume`: weak fairness of every session's
steps, which includes starting the program again. The operating system schedules
processes that exist, no operation of a session waits for ever for another (the
guard file is held for one operation), and an operator who keeps trying is the
best case for recovery. Crashes are not fair. All other properties are safety.

## 5. Proofs

TLAPS proves, for any set of identities or sessions, any number of events, attempts,
cycles, versions, invocations, services and probes (the bounds are constants about which
only what the `ASSUME`s say is used), every invariant, action property and refinement
that the passing runs check, and some theorems beyond them: consequences of the abstract
specifications, bounds on what takes steps, and, for each of the four findings, what it
depends on. Each proof module states an inductive invariant `IInv`, proves `Init =>
IInv` and `IInv /\ [Next]_vars => IInv'`, and derives the properties.

* `RunLease_proofs`. The invariant: the record on disk is the token of its owner,
  who has not closed (`LeaseOwned`); a token that is not a session's own is its
  parent's (`TokenOwned`); a record once read is the token of its owner
  (`SeenOwned`), although it may be out of date; and a loop has one cycle that may
  come to use its lease (`OneCycleEach`). Without the last, two children of a loop
  could hold the same token. `OneWriterHolds` speaks of the time before any takeover.
  Two theorems say that the finding of `lease_resume` is not one of its instance:
  without takeover the lease of an owner that was killed stays for ever
  (`CrashedOwnerBlocks`), so an execution that recovers has no such owner
  (`RecoveryNeedsTakeover`: its hypothesis is the promise of the document itself).
* `RunStateLog_proofs`. The flock is held exactly while a line and its projection
  are written (`GuardPc`) and the line in hand has the next sequence
  (`LineInHand`): what was read before the lock is never used. `ImplementsLogHolds`
  maps each step: `SyncLine` is `Write`, `Project` is `Return`, the moves of the lease
  are themselves, and everything else stutters, a torn line and a missing projection
  included. It needs that a cycle inside is the holder or was overtaken
  (`InsideHolds`); `EarlierPassRevokedHolds` needs besides that a cycle which has set
  the run to running and has not published its status sees no pass
  (`NotPassedInside`). `LoneCycleHolds`: until a takeover, cycles do not overlap.
  Two consequences of `EventLog` are carried over: what a reader has found at a place of
  the log stays there (`FoundStands`), and an identity that released its lease in order
  never writes again (`ReleasedSilent`, by `HolderFresh`: who holds the lease has not
  given it up).
* `AttemptStore_proofs`. An attempt begun is owned by the cycle that holds its
  handle (`HandleOwned`); what a cycle retained is what the manifest still has if
  the sequence it expects is still current (`RetainedCurrent`); no manifest has
  held an attempt of a later iteration (`Recorded`). These make the comparison of
  sequences at publication sufficient, without the lease. `SequenceCountsHolds` is
  proved of `ManifestChain` and holds of the store because it implements the chain:
  the sequence of the manifest counts the attempts ever published. Until a takeover, a
  cycle inside a commit has the lease, the current sequence and the first generation
  (`Undisturbed`), so that every check it repeats succeeds (`UndisturbedCommitHolds`).
  `PublishedKept` is a consequence of the chain: a published attempt stays in the manifest
  until its generation is succeeded. `TakeoversStrand` is what the rule of generations
  comes to: after two takeovers without a publication in between the holder is beyond what
  the manifest accepts (`Stranded`), every later takeover only leads further away, and the
  manifest stays as it is until somebody releases the lease.
* `QaCycle_proofs`. Five parts: what the outcome tells of failures (`ProcessInv`),
  that the log claims a pass only after the work of the latest cycle (`LogInv`),
  that probes of this cycle ran in the context on disk (`ProbesInv`), that an
  attempt holds its own cycle's probes and a pass refers to the manifest of its
  own cycle (`AttemptInv`), and that what the verifier has read so far hangs
  together (`ReaderInv`). `VerdictInv` carries the claim of the outer loop.
  `RecordInv` relates the log, the phase of the cycle and what it has verified; with
  it `ImplementsPassRecordHolds` maps `Open` to `Reopen`, `Finish` to `Conclude`,
  `Verify` and `InvalidatePass` to `Settle`, and the rest to stutters.
  `UnverifiedPassExits` bounds the finding of `cycle_published`: a cycle that exits with
  0 after its pass was published has verified it. `ResultStands` is a consequence of
  `PassRecord`: a failed cycle stays failed and a confirmed pass stays confirmed until the
  next cycle opens. The other two theorems are about the findings. If no cycle dies or
  loses its log or lease between the publication and the end of its verification, the
  promise of the document holds whenever no verification is under way (`PublishedWindow`).
  If only the requirement is left alone between the audit of the coverage and the
  compilation of the context (`AfterAudit`), a pass covers its requirement, whatever is
  edited at other times (`CoverageWindow`). Their hypotheses are about those phases alone:
  the kills, failures and edits of all others remain.

* `ActionJournal_proofs`. The records of a probe say what it did (`Performed`); a
  probe in the middle of a step appended its intent last (`Own`), which stays open
  until it is dispatched if it is not idempotent (`Fresh`); every action has its
  intent (`Intended`). So whoever opens the journal after an action finds it known
  or stops (`Known`, `Cleared`). For `VerifiedAlone`: whoever else acts has appended
  after the opening, so the probe is behind the file (`Overtaken`), can no longer
  commit what it does after that, and a step of its plan stays without a commit
  (`Doomed`). All of it is under `sound`: a journal that is broken verifies nothing.
  `IntendedHolds` is the write-ahead rule itself, and `OnceHolds` says that no probe
  does a step twice, whatever it reports of it. `MissedStepRefuses` says that the finding
  of `actions_teardown` is not one of its instance: for every plan, a step that cannot be
  resolved or whose intent cannot be written is left behind without a commit (`Lost`) in
  the same step, stays so for good, and a cycle with such a step is never verified.

* `AgentLoop_proofs`. For the budget (`BudgetInv`): what was dispatched before a
  cycle is within `used - reserved`, the allowance is what `used - reserved` leaves,
  and after the probes the whole grown plan is still to be charged; since a plan
  never shrinks inside a cycle, `Reconcile` charges at least what was dispatched, or
  ends the session. For the follow-ups (`HandedInv`, `ClearedInv`, `FirstInv`): the
  hashes handed out are among those remembered, the pending one is another, and
  without a race the file in hand is the pending one, which a preview of this session
  cleared or which the first iteration was resumed with. `StepsRunOut`: each phase of a
  session lowers `Rank`, and the decision to go on lowers what is left of
  `--max-iterations`, so a session takes finitely many steps of its own.

* `HumanControl_proofs`. Every append is one of an event the reducer accepts, to a
  journal that the checkpoint covers (`JournalStepHolds`), hence `OneAhead`. An
  invocation that has redeemed and not yet dispatched is entitled: its intent is
  redeemed and not dispatched, no other is entitled to the same, and what acts is what
  was redeemed (`Entitlement`); nothing is dispatched under an approval that is not
  redeemed (`DispatchedRedeemed`). Entitlement begins with the one append that redeems
  and ends with the dispatch or the process, so every step is one of `Approval` or
  changes nothing of it. That an epoch keeps its type needs `EpochBound`.
  `DispatchedOnce` and `RejectedForGood` are proved of `Approval`, which does not know
  of gates, crashes or checkpoints, and carried over by the refinement.
  `HighRiskApprovedHolds` is about dispatches that need no approval too: an invocation
  that did not go through the gate was judged on a plan without high-risk actions, and
  what acts is what was judged unless its plan was replaced between the comparison and
  the final contracts (`JudgedInv`); under a gate the ticket refuses such a plan.
* `ManagedServices_proofs`. Which stage belongs to which phase (`Phase`), and that what
  runs is the program of the stage or that of the finally block (`ProcessInv`), hence
  `StageEmpty` and the reserve. For `Accounted`: the start program goes through its plan
  in order (`InOrder`); a service that is up without a pid on disk is about to be
  recorded or terminated, or its stage fails and the cycle with it (`UnrecordedFails`);
  a service exists only after a start that was attempted, or in a cycle that was
  interrupted (`Started`); and a stop program that has seen nothing bad knows every
  recorded service until it has killed it, so that a clean report speaks of all that
  have a pid (`StopInv`, which also has what it may signal). The safety half of
  `CycleEnds`: `Rank`, a natural number made of the phase of the cycle, the stages it
  has before it and the steps of the current one, decreases with every step of the cycle
  and its executor and is not raised by anybody else (`StepsRunOut`), and where neither
  has a step to take the cycle has exited or waits for a pipe that a descendant outside
  the group holds open (`OnlyPipeBlocks`, which needs `Signals`: what was sent to a
  group and what follows from it). `CycleReady` and `ExecutorReady` are the guards,
  written out; that they are the `ENABLED` of the actions, and that fairness turns the
  two theorems into `CycleEnds`, is left to TLC.

**How the theorems fit together.** The log and the store use `LeaseRegister` as the
abstraction of the lease; `ImplementsRegisterHolds` is the theorem that it is one. In
both the lease of a cycle that is inside is not given up but only taken over or left
behind; that is `OrderlySuccessionHolds`, by which a lease is removed by its owner when
no other session works under it. `QaCycle` in turn has an append to the log and the
commit of an attempt as one step each. Without takeover, which is how the programs run,
`LoneCycleHolds` and `UndisturbedCommitHolds` justify that: no other cycle is inside
meanwhile, what a cycle has read is current until it writes, and a step of it that
fails does so by a fault of its own, which `QaCycle` has as the failures of these
steps. `ImplementsLogHolds` is what its verifier relies on when it reads the log.
That last step, from the theorems of three modules to the granularity of a fourth, is
an argument and not a theorem: no module has all their variables.

**Only model-checked**: liveness under fairness (`GateConcludes`, `CycleEnds`,
`CrashedRunRecovers`), since neither fairness nor `ENABLED` is in the prover's reach, and
that the four properties of the violated runs are violated. What these depend on is proved:
`CrashedOwnerBlocks` and `RecoveryNeedsTakeover`, `MissedStepRefuses`, `PublishedWindow`,
`CoverageWindow`.

## 6. What is not modelled, and why

* What stages compute: evidence ledger, defects, verdict rules, coverage audit,
  report, semantic models, policies and the critic. Sequential processing of text and
  tables over one reading of their inputs; a model of it would be the code again. The
  same holds for the scaffolding of plans from requirements, which is the largest part
  of the code base, and for its benchmarks.
* Schema and hash checks inside a file: a sequential comparison; the models have equal
  content for equal hashes.
* The probe scheduler and the tool registry: pure functions and tables.
* The knowledge store and the trace journal: appends of the kind that `RunStateLog`
  has, with a lock and one writer each; what a cycle does when they fail is in
  `QaCycle` and `ManagedServices`.
* Evaluation and release admission: programs over finished runs, without concurrency.
* The candidate identity and human authorization inside a proof: optional inputs,
  bound in the same way as the context.
* Of the outer loop: initialisation of a directory, snapshots of iterations, and the
  projections of a summary (`loop_control`, the handoff). Nothing reads them back
  except the hash that `kept` stands for. A cycle that outlives a killed loop is in
  `RunLease`, not in `AgentLoop`.
* The test suite, which was read for what it promises.

A partial write of a file that is replaced by rename is not a state of the models,
since the code writes and syncs a temporary file first. Appends are the exception,
and are modelled in parts.

## 7. What the models say against the documents

* **A crashed run is not resumed.** `RunSession.open` refuses every lease that is
  not its parent loop's (`qa_core/runtime/session.py:71`), and no program calls
  `RunLease.takeover`. `docs/architecture/agent-v2.md:32` promises to stop safely
  *and to be resumable* after crashes. Run `lease_resume`.
* **The pass is published before it is verified** (`run_qa_cycle.py:1564`, then
  `:1575`), against `README.md:85`. What is in force after a kill in between is a
  log that says passed; `LoopClaimProved` and `AcceptedProofEarned` show that
  neither the loop nor the verifier is misled, and `UnverifiedPassExits` that such a
  cycle did not exit with 0. `PublishedWindow` has the whole extent: only a cycle that
  dies or loses its log or lease during its own verification leaves such a pass behind.
  Run `cycle_published`.
* **The coverage of a pass may be stale**: the audit of coverage records no hash of
  the requirement, and nothing compares it later (`run_qa_cycle.py:2114`), against
  `README.md:85`. A replacement between the audit and the compilation of the context is
  needed for it, and nothing else brings it about (`CoverageWindow`). Run
  `cycle_coverage`.

* **A skipped teardown refuses the run.** runStep resolves a step before it has an
  intent; a `cleanupApi` step that misses a runtime variable is recorded as skipped
  there (`playwright_probe.mjs:3147`), without intent and commit, and the
  verification refuses a journal with fewer commits than contracts
  (`qa_core/runtime/action_protocol.py:1304`). `references/action-protocol.md:49`
  has the runner append both *for each actual or policy-skipped step*, and
  `references/plan-schema.md:392` wants the skip so that *a failed create step does
  not turn teardown into a misleading second failure*. It is so for every plan
  (`MissedStepRefuses`). Run `actions_teardown`.

* **A high-risk plan can be dispatched without an approval.** An invocation whose plan
  has no high-risk action passes the gate as `not_required`. The final contracts are
  built from the files after the comparison that follows the gate
  (`run_qa_cycle.py:2850`), and neither they nor the ticket judge the risk again, so a
  high-risk plan that replaces the first one in between, with its audit and context, is
  dispatched ungated. `references/human-control.md:100` lets the gate be made mandatory
  for every high-risk action and `:134` says that a missing one cannot dispatch. It is
  dispatched only if it is replaced in that place: `HighRiskApproved` excepts those
  invocations (`raced`) and no others, and it is proved. Under a gate the ticket compares
  what was approved. `ImplementsApproval` counts dispatches under a gate and says nothing
  of others. No run is violated for it; without the exception TLC shows a plan of low risk
  that passes the gate and the comparison, its replacement, and the dispatch.

Not separate runs, but visible in the models: an intent of unknown outcome that is not
idempotent stops every later cycle of the run directory, since nothing in the program
reconciles it, and a step that is abandoned and done again is done under another
idempotency key, since the key binds the ticket and the iteration of its cycle
(`references/action-protocol.md:181` speaks of the same key); takeover is not fenced at
the write, so `EventLog` and `HolderPublishes` have to allow an overtaken writer
(`agent-v2.md:144` and `:375` would not); a torn log is never repaired (`TornLogFrozen`
is all there is, `agent-v2.md:32` lists partial writes among what is recovered from);
and after takeovers without a publication the generation of the lease may be further
ahead than `publish_run_manifest` accepts (`GenerationFits`), so that no holder can
publish any more until the lease is released (`TakeoversStrand`).

Of human control:

* A consumed approval is not checked for expiry when it is redeemed
  (`qa_core/hitl/store.py:488`, `:522`), while `references/human-control.md:135-136`
  lists an expired approval among those that cannot dispatch.

Of stages and services:

* The reserve for cleanup holds from the start of the services on; an earlier stage
  has none and may spend it (`run_qa_cycle.py:852`), against `README.md:122`. Hence the
  second disjunct of `ReserveKept`.
* A start program that is killed between the launch and the record of it leaves an
  entry without a pid, which the stop program skips and counts as no failure
  (`service_runtime.py:706`), against `SKILL.md:44`. Hence the exemption in
  `Accounted`; an interrupt inside the start stage, which leaves
  `service_start_attempted` unset, is the other one.
* Stopping looks at the leader only: other members of a service's group may survive
  and count as stopped. The identity is checked before the TERM and not again before
  the KILL.
* A descendant that left the group and keeps a pipe open keeps the executor waiting
  for ever, deadline or not (`qa_core/runtime/process.py:250`): the second disjunct of
  `CycleEnds`.

Of the outer loop:

* The hash is required *so previewed follow-ups cannot be replaced before application*
  (`qa_agent_loop.py`, help of `--expected-next-probes-sha256`), but the cycle reads
  the file again and is not given the hash (`run_qa_cycle.py:2404`), and the hash is
  taken after the preview has read the file (`qa_agent_loop.py:4825`). `OnlyCleared`
  fails with a replacement in either window, which is why `FollowUpsBound` excepts
  them.
* `--allow-required-input-gaps` reaches the preview and not the cycle
  (`qa_agent_loop.py:4037`, `run_qa_cycle.py:2404`): with it a recommendation is
  previewed as safe, counts as progress and is skipped when it is applied. Only
  `Repeated` and the bound of iterations end such a session.
* When a session stops before its first cycle, `cycle_status` is called without a
  cycle result and takes every file as current (`qa_agent_loop.py:1333`): the `final`
  part of the summary then repeats the verdict of an earlier session, against
  `references/agent-loop-contract.md:26`. Status and exit code are not affected.
