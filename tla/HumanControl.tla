---------------------------- MODULE HumanControl ----------------------------
(***************************************************************************)
(* The human gate of high-risk actions: the append-only HITL journal with  *)
(* its signed checkpoint (qa_core/hitl), the gate a cycle passes before it *)
(* issues contracts (qa_core/human_runtime.py, run_qa_cycle.py) and the    *)
(* ticket and the probe behind it (action_protocol.py,                     *)
(* playwright_probe.mjs).                                                  *)
(*                                                                         *)
(* Gates are invocations of the cycle, each for one run; several may share *)
(* the journal and even the run, for the gate does not ask the lease.      *)
(* Every reading and every transaction of the journal holds its lock and   *)
(* verifies the checkpoint inside it, so each is one step; everything      *)
(* between them is open to other gates, to the command line, to the        *)
(* authority that signs checkpoints and to the operator.                   *)
(*                                                                         *)
(* An intent is what a request binds: run, plan and execution epoch.  The  *)
(* plan stands for itself, its audit and the context compiled from it: a   *)
(* set of contracts that mixes versions of them is never built.            *)
(***************************************************************************)
EXTENDS Integers

CONSTANTS
    Gate,           \* invocations that pass a gate, repeatedly
    Run,
    RunOf,          \* the run a gate works for
    Plan,
    HighRisk,       \* the plans with an action of risk class high
    RequestTTL,     \* --human-request-ttl-seconds
    CheckpointLife, \* expires_at - issued_at of a checkpoint
    Lag,            \* how late a command gets the lock after reading its clock
    MaxTime,        \* bound: the clock stops here
    MaxChanges,     \* bound: how often a plan is replaced or an epoch raised
    MaxCrashes      \* bound: how often a process dies

ASSUME ConstantsAssumption ==
    /\ RunOf \in [Gate -> Run]
    /\ HighRisk \subseteq Plan
    /\ RequestTTL \in Nat \ {0} /\ CheckpointLife \in Nat \ {0}
    /\ Lag \in Nat /\ MaxTime \in Nat
    /\ MaxChanges \in Nat /\ MaxCrashes \in Nat

VARIABLES
    length,         \* the number of events in hitl-events.jsonl
    stage,          \* how far they have each intent, as the reducer replays them
    expiry,         \* expires_at of the requests among them
    torn,           \* its last line is cut: it is never parsed again
    checkpoint,     \* the signed file: covered events, issued and expiry
    now,            \* the wall clock
    plan,           \* the plan of each run
    epoch,          \* the epoch the operator starts each run with
    gate,           \* where each invocation is, and what it remembers
    dispatches,     \* per intent, the probes that acted under its approval
    raced,          \* history: invocations whose plan was replaced between the
                    \* comparison after the gate and the final contracts
    changes, crashes

journal == <<length, stage, expiry>>

vars == <<journal, torn, checkpoint, now, plan, epoch, gate, dispatches, raced,
          changes, crashes>>

Intent == [run : Run, plan : Plan, epoch : 1 .. MaxChanges + 1]
Stage == {"none", "requested", "approved", "rejected", "consumed", "redeemed"}
Step == {"idle", "read", "create", "resume", "consume", "redeem", "compare",
         "contract", "ticket", "act"}

TypeOK ==
    /\ length \in Nat
    /\ stage \in [Intent -> Stage]
    /\ expiry \in [Intent -> 0 .. MaxTime + RequestTTL]
    /\ torn \in BOOLEAN
    /\ checkpoint \in [count : 0 .. length, from : 0 .. MaxTime,
                       until : 0 .. MaxTime + CheckpointLife]
    /\ now \in 0 .. MaxTime
    /\ plan \in [Run -> Plan]
    /\ epoch \in [Run -> 1 .. MaxChanges + 1]
    /\ gate \in [Gate -> [pc : Step, at : 0 .. MaxTime, seen : 0 .. length,
                          intent : Intent, contract : Plan, gated : BOOLEAN]]
    /\ dispatches \in [Intent -> Nat]
    /\ raced \subseteq Gate
    /\ changes \in 0 .. MaxChanges
    /\ crashes \in 0 .. MaxCrashes

-----------------------------------------------------------------------------
(* The journal.                                                            *)

\* What the reducer accepts after what; the projection of the prolonged journal
\* is computed before anything is written.
Precedes(from, kind) ==
    \/ kind = "requested" /\ from = "none"
    \/ kind \in {"approved", "rejected"} /\ from = "requested"
    \/ kind = "consumed" /\ from = "approved"
    \/ kind = "redeemed" /\ from = "consumed"

\* The checkpoint is current at time t and covers the journal to its last event.
Fresh(t) == ~torn /\ checkpoint.from <= t /\ t < checkpoint.until
Verified(t) == Fresh(t) /\ checkpoint.count = length

Accepts(t, kind, i) == Verified(t) /\ Precedes(stage[i], kind)

Append(kind, i) ==
    /\ length' = length + 1
    /\ stage' = [stage EXCEPT ![i] = kind]
    /\ UNCHANGED expiry

\* Fault: the lifetime is added to what is an expiry already.
LateRequest(i, until) ==
    /\ length' = length + 1
    /\ stage' = [stage EXCEPT ![i] = "requested"]
    /\ expiry' = [expiry EXCEPT ![i] = until + RequestTTL]

Request(i, until) ==
    /\ length' = length + 1
    /\ stage' = [stage EXCEPT ![i] = "requested"]
    /\ expiry' = [expiry EXCEPT ![i] = until]

-----------------------------------------------------------------------------
(* The gate.                                                               *)

Current(r) == [run |-> r, plan |-> plan[r], epoch |-> epoch[r]]

NoWork ==
    LET i == CHOOSE j \in Intent : TRUE
    IN [pc |-> "idle", at |-> 0, seen |-> 0, intent |-> i, contract |-> i.plan,
        gated |-> FALSE]

Init ==
    /\ length = 0
    /\ stage = [i \in Intent |-> "none"]
    /\ expiry = [i \in Intent |-> 0]
    /\ torn = FALSE
    /\ checkpoint = [count |-> 0, from |-> 0, until |-> CheckpointLife]
    /\ now = 0
    /\ plan \in [Run -> Plan]
    /\ epoch = [r \in Run |-> 1]
    /\ gate = [g \in Gate |-> NoWork]
    /\ dispatches = [i \in Intent |-> 0]
    /\ raced = {}
    /\ changes = 0
    /\ crashes = 0

Goto(g, pc) == gate' = [gate EXCEPT ![g].pc = pc]
Fail(g) == gate' = [gate EXCEPT ![g] = NoWork]

\* The earlier reading of the journal, and then the clock, are not used again.
Proceed(g, pc) == gate' = [gate EXCEPT ![g].pc = pc, ![g].seen = 0]
Authorize(g) == gate' = [gate EXCEPT ![g].pc = "compare", ![g].at = 0]

\* What no step of a gate changes once it has begun.
Outside == <<checkpoint, now, plan, epoch, raced, changes, crashes>>

\* The base contracts, the clock of the whole evaluation and the first loading
\* of the checkpoint.  A plan without high-risk actions needs no human.
Begin(g) ==
    LET r == RunOf[g] IN
    /\ gate[g].pc = "idle"
    /\ gate' = [gate EXCEPT ![g] =
                  IF plan[r] \in HighRisk
                  THEN [pc |-> "read", at |-> now, seen |-> checkpoint.count,
                        intent |-> Current(r), contract |-> plan[r],
                        gated |-> TRUE]
                  ELSE [pc |-> "compare", at |-> 0, seen |-> 0,
                        intent |-> Current(r), contract |-> plan[r],
                        gated |-> FALSE]]
    /\ raced' = raced \ {g}
    /\ UNCHANGED <<journal, torn, checkpoint, now, plan, epoch, dispatches,
                   changes, crashes>>

\* store.projection: unless the checkpoint loaded first is the one that covers
\* the journal, the gate hands off.  What it finds redeemed it does not redeem
\* again, whatever store.resume says next.
Read(g) ==
    LET me == gate[g]
        covered == Verified(me.at) /\ me.seen = length
    IN
    /\ me.pc = "read"
    /\ IF ~covered \/ stage[me.intent] = "redeemed" THEN Fail(g)
       ELSE Proceed(g, IF stage[me.intent] = "none" THEN "create" ELSE "resume")
    /\ UNCHANGED <<journal, torn, Outside, dispatches>>

\* create_request: whether it appends, finds the very same request, another
\* one or a stale checkpoint, the invocation ends.
Create(g) ==
    LET me == gate[g] IN
    /\ me.pc = "create"
    /\ IF Accepts(me.at, "requested", me.intent)
       THEN Request(me.intent, me.at + RequestTTL)
       ELSE UNCHANGED journal
    /\ Fail(g)
    /\ UNCHANGED <<torn, Outside, dispatches>>

\* Fault: a request that has expired is refused although it was consumed.
StrictLapsed(g) == gate[g].at >= expiry[gate[g].intent]

\* A request that expired before it was consumed is not resumed.
Lapsed(g) ==
    /\ stage[gate[g].intent] \notin {"consumed", "redeemed"}
    /\ gate[g].at >= expiry[gate[g].intent]

\* store.resume.
Resume(g) ==
    LET me == gate[g] IN
    /\ me.pc = "resume"
    /\ IF ~Verified(me.at) \/ Lapsed(g) THEN Fail(g)
       ELSE \/ stage[me.intent] \in {"requested", "rejected"} /\ Fail(g)
            \/ stage[me.intent] = "approved" /\ Goto(g, "consume")
            \/ stage[me.intent] \in {"consumed", "redeemed"} /\ Goto(g, "redeem")
    /\ UNCHANGED <<journal, torn, Outside, dispatches>>

\* Fault: the checkpoint is verified when the request is resumed, not again
\* under the lock.
UnlockedConsume(g) ==
    LET me == gate[g] IN
    /\ me.pc = "consume"
    /\ IF stage[me.intent] = "approved" /\ me.at < expiry[me.intent]
       THEN Append("consumed", me.intent)
       ELSE UNCHANGED journal
    /\ Fail(g)
    /\ UNCHANGED <<torn, Outside, dispatches>>

\* consume_approved always ends the invocation: its append is not signed yet.
Consume(g) ==
    LET me == gate[g] IN
    /\ me.pc = "consume"
    /\ IF Accepts(me.at, "consumed", me.intent) /\ me.at < expiry[me.intent]
       THEN Append("consumed", me.intent)
       ELSE UNCHANGED journal
    /\ Fail(g)
    /\ UNCHANGED <<torn, Outside, dispatches>>

\* Fault: a redemption that was there already counts as one's own.
SharedRedeem(g) ==
    LET me == gate[g] IN
    /\ me.pc = "redeem"
    /\ IF Accepts(me.at, "redeemed", me.intent)
       THEN Append("redeemed", me.intent) /\ Authorize(g)
       ELSE /\ UNCHANGED journal
            /\ IF stage[me.intent] = "redeemed" THEN Authorize(g) ELSE Fail(g)
    /\ UNCHANGED <<torn, Outside, dispatches>>

\* redeem_dispatch: only the transaction that appended may dispatch.
Redeem(g) ==
    LET me == gate[g] IN
    /\ me.pc = "redeem"
    /\ IF Accepts(me.at, "redeemed", me.intent)
       THEN Append("redeemed", me.intent) /\ Authorize(g)
       ELSE UNCHANGED journal /\ Fail(g)
    /\ UNCHANGED <<torn, Outside, dispatches>>

-----------------------------------------------------------------------------
(* From the authorization to the probe.                                    *)

\* Fault: what is built again is not compared.
BlindCompare(g) ==
    /\ gate[g].pc = "compare"
    /\ Goto(g, "contract")
    /\ UNCHANGED <<journal, torn, Outside, dispatches>>

\* The result of the gate is written and read back, then context and contracts
\* are built again and compared with those of the gate.  The files are compared
\* byte by byte; here that can only refuse more than the contents do.
Compare(g) ==
    /\ gate[g].pc = "compare"
    /\ IF plan[RunOf[g]] = gate[g].intent.plan THEN Goto(g, "contract") ELSE Fail(g)
    /\ UNCHANGED <<journal, torn, Outside, dispatches>>

\* The final contracts are built from the files once more.
Contract(g) ==
    /\ gate[g].pc = "contract"
    /\ gate' = [gate EXCEPT ![g].contract = plan[RunOf[g]], ![g].pc = "ticket"]
    /\ UNCHANGED <<journal, torn, Outside, dispatches>>

\* The contracts are still those of the plan; the action journal has nothing of
\* the intent, and what was approved binds the actions of the final contracts.
TicketGranted(g) ==
    /\ gate[g].contract = plan[RunOf[g]]
    /\ gate[g].gated =>
         /\ dispatches[gate[g].intent] = 0
         /\ gate[g].contract = gate[g].intent.plan

\* The ticket is issued, and the probe that holds it looks at the same things
\* before it opens the action journal.
Ticket(g) ==
    /\ gate[g].pc = "ticket"
    /\ IF TicketGranted(g) THEN Goto(g, "act") ELSE Fail(g)
    /\ UNCHANGED <<journal, torn, Outside, dispatches>>

\* Its first intent is durable, then it acts, on the plan of the contracts.
Act(g) ==
    LET i == [gate[g].intent EXCEPT !.plan = gate[g].contract] IN
    /\ gate[g].pc = "act"
    /\ dispatches' = IF gate[g].gated THEN [dispatches EXCEPT ![i] = @ + 1]
                     ELSE dispatches
    /\ Fail(g)
    /\ UNCHANGED <<journal, torn, Outside>>

GateStep(g) ==
    \/ Begin(g) \/ Read(g) \/ Create(g) \/ Resume(g) \/ Consume(g) \/ Redeem(g)
    \/ Compare(g) \/ Contract(g) \/ Ticket(g) \/ Act(g)

-----------------------------------------------------------------------------
(* The command line, the authority and the operator.                       *)

Inside == <<torn, plan, epoch, gate, dispatches, raced, changes, crashes>>

\* hitl-create.
CliCreate(r) ==
    /\ Accepts(now, "requested", Current(r))
    /\ Request(Current(r), now + RequestTTL)
    /\ UNCHANGED <<checkpoint, now, Inside>>

\* hitl-decide: the clock for the expiry is read before the lock is awaited.
Decide(i) ==
    \E kind \in {"approved", "rejected"}, t \in now - Lag .. now :
        /\ Accepts(now, kind, i)
        /\ t < expiry[i]
        /\ Append(kind, i)
        /\ UNCHANGED <<checkpoint, now, Inside>>

\* hitl-consume.
CliConsume(i) ==
    \E t \in now - Lag .. now :
        /\ Accepts(now, "consumed", i)
        /\ t < expiry[i]
        /\ Append("consumed", i)
        /\ UNCHANGED <<checkpoint, now, Inside>>

\* The external authority signs the journal it sees; what is appended before
\* the file is published makes the checkpoint stale at once.
Sign ==
    /\ checkpoint.count < length \/ checkpoint.until <= now
    /\ checkpoint' = [count |-> length, from |-> now,
                      until |-> now + CheckpointLife]
    /\ UNCHANGED <<journal, now, Inside>>

Change ==
    /\ changes < MaxChanges
    /\ changes' = changes + 1

\* The operator starts the following invocations with a higher epoch.
RaiseEpoch(r) ==
    /\ Change
    /\ epoch' = [epoch EXCEPT ![r] = @ + 1]
    /\ UNCHANGED <<journal, torn, checkpoint, now, plan, gate, dispatches,
                   raced, crashes>>

\* Somebody replaces the plan, and compiles what depends on it.
Edit(r) ==
    /\ Change
    /\ \E p \in Plan \ {plan[r]} : plan' = [plan EXCEPT ![r] = p]
    /\ raced' = raced \cup {g \in Gate : RunOf[g] = r /\ gate[g].pc = "contract"}
    /\ UNCHANGED <<journal, torn, checkpoint, now, epoch, gate, dispatches,
                   crashes>>

\* Also what an error after an append looks like: the event stays, the caller
\* does not come to know of it.
Crash(g) ==
    /\ crashes < MaxCrashes
    /\ crashes' = crashes + 1
    /\ gate[g].pc # "idle"
    /\ Fail(g)
    /\ \/ UNCHANGED torn
       \/ gate[g].pc \in {"create", "consume", "redeem"} /\ torn' = TRUE
    /\ UNCHANGED <<journal, checkpoint, now, plan, epoch, dispatches, raced,
                   changes>>

Tick ==
    /\ now < MaxTime
    /\ now' = now + 1
    /\ UNCHANGED <<journal, checkpoint, Inside>>

Next ==
    \/ \E g \in Gate : GateStep(g) \/ Crash(g)
    \/ \E r \in Run : CliCreate(r) \/ RaiseEpoch(r) \/ Edit(r)
    \/ \E i \in Intent : Decide(i) \/ CliConsume(i)
    \/ Sign
    \/ Tick

\* Invocations are repeated and go on, the authority refreshes a checkpoint that
\* no longer covers the journal, and a human answers what can be answered.
Fairness ==
    /\ \A g \in Gate : WF_vars(GateStep(g))
    /\ WF_vars(\E i \in Intent : Decide(i))
    /\ WF_vars(Sign)

Spec == Init /\ [][Next]_vars /\ Fairness

-----------------------------------------------------------------------------
(* Properties.                                                             *)

\* Whoever appends, gates or commands, the journal is at most one event ahead
\* of what the authority has signed: no step of an approval is built on a step
\* the authority has not seen.
OneAhead == length <= checkpoint.count + 1

\* Gates that overlap, die and start again, a journal they share with others
\* and plans that change under them never let an invocation that passed the gate
\* dispatch an intent that was not approved, consumed and redeemed, nor an intent
\* that was dispatched under its approval before.  Nothing is said of invocations
\* whose plan needed no human: that is HighRiskApproved.
Promise == INSTANCE Approval

ImplementsApproval == Promise!ApprovalSpec

\* Whatever is dispatched of a plan with high-risk actions, under a gate or not,
\* has an approval that was redeemed, whoever replaces the plan while the gate, the
\* comparison, the contracts and the ticket follow one another.  Excepted is what
\* the code does not look at again: a plan that needed no human and is replaced
\* between that comparison and the final contracts.
HighRiskApproved ==
    [][\A g \in Gate : Act(g) /\ gate[g].contract \in HighRisk =>
         \/ stage[[gate[g].intent EXCEPT !.plan = gate[g].contract]] = "redeemed"
         \/ ~gate[g].gated /\ g \in raced]_vars

\* The three invocations get through: the request for what a run wants to do
\* now is redeemed, unless it is rejected, lapses before it is consumed or a
\* crash has cut the journal.
Concluded(i) ==
    \/ torn
    \/ stage[i] \in {"rejected", "redeemed"}
    \/ stage[i] \in {"requested", "approved"} /\ now >= expiry[i]

GateConcludes ==
    []<>(\A r \in {RunOf[g] : g \in Gate} :
            plan[r] \in HighRisk => Concluded(Current(r)))
=============================================================================
