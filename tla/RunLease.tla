------------------------------ MODULE RunLease ------------------------------
(***************************************************************************)
(* The single-writer lease of a run directory (qa_core/runtime/lease.py)   *)
(* and the sessions that open it (qa_core/runtime/session.py).             *)
(*                                                                         *)
(* Every operation of RunLease runs under the flock of its guard file, so  *)
(* one operation is one step.  RunSession.open is several operations: the  *)
(* event log is read, then the lease, and only then is the lease inherited *)
(* or acquired; other sessions move in between.                            *)
(*                                                                         *)
(* A session is one invocation of a command line program.  Its owner text  *)
(* carries a fresh uuid, so the session itself stands for its owner and,   *)
(* where it has to mint one, for its run id.  The clock is abstracted to   *)
(* `age', the time since the record's heartbeat_at: time.time may be set   *)
(* back, which makes the age negative.                                     *)
(***************************************************************************)
EXTENDS Integers

CONSTANTS
    Session,        \* invocations of the two command line programs
    Loop,           \* those of qa_agent_loop.py; the others run run_qa_cycle.py
    ParentOf,       \* the loop that spawns a cycle, or NoSession
    Crashable,      \* sessions that may be killed
    StaleAfter,     \* the threshold a caller gives to takeover
    TakeoverInUse,  \* whether any program calls takeover
    NoSession,
    NoLease

ASSUME LoopAssumption == Loop \subseteq Session
ASSUME ParentAssumption ==
    /\ ParentOf \in [Session -> Loop \cup {NoSession}]
    /\ \A s \in Loop : ParentOf[s] = NoSession
ASSUME NullAssumption ==
    /\ NoSession \notin Session
    /\ NoLease \notin [run : Session, owner : Session, gen : Nat \ {0}]
ASSUME ConfigAssumption ==
    /\ StaleAfter \in Nat \ {0}
    /\ TakeoverInUse \in BOOLEAN
    /\ Crashable \subseteq Session

VARIABLES
    lease,      \* .qa-run-lease.json: its identity, or NoLease
    age,        \* now - heartbeat_at of that record
    logRun,     \* the run id of the event log, NoSession while it is empty
    pc,         \* where each session is
    ppid,       \* what os.getppid returned to RunSession.open
    seenRun,    \* what existing_run_id returned to it
    seen,       \* the record that lease.read, or a refusal, showed it
    token       \* RunSession.record, the identity it writes under

vars == <<lease, age, logRun, pc, ppid, seenRun, seen, token>>

Identity == [run : Session, owner : Session, gen : Nat \ {0}]

\* Inside a RunSession that has not been closed.
Active == {"open", "binding", "initialising", "running", "ending"}
\* A process that exists.
Alive == Active \cup {"logRead", "acquiring", "inheriting"}

TypeOK ==
    /\ lease \in Identity \cup {NoLease}
    /\ age \in -1 .. StaleAfter
    /\ logRun \in Session \cup {NoSession}
    /\ pc \in [Session -> Alive \cup {"idle", "refused", "closed", "crashed"}]
    /\ ppid \in [Session -> Session \cup {NoSession}]
    /\ seenRun \in [Session -> Session \cup {NoSession}]
    /\ seen \in [Session -> Identity \cup {NoLease}]
    /\ token \in [Session -> Identity \cup {NoLease}]

Init ==
    /\ lease = NoLease
    /\ age = 0
    /\ logRun = NoSession
    /\ pc = [s \in Session |-> "idle"]
    /\ ppid = [s \in Session |-> NoSession]
    /\ seenRun = [s \in Session |-> NoSession]
    /\ seen = [s \in Session |-> NoLease]
    /\ token = [s \in Session |-> NoLease]

Goto(s, label) == pc' = [pc EXCEPT ![s] = label]

Inherited(s) == token[s] # NoLease /\ token[s].owner # s

\* A loop runs its cycles one after the other and waits for each of them.
HasLiveCycle(s) == \E c \in Session : pc[c] \in Alive /\ ppid[c] = s

-----------------------------------------------------------------------------
(* The operations of RunLease, as seen by a session s.                     *)

\* heartbeat: the full identity must match and the clock must not be behind.
BeatAccepted(identity) == lease = identity /\ age >= 0

Beat(s, identity, accepted, rejected) ==
    IF BeatAccepted(identity)
    THEN Goto(s, accepted) /\ age' = 0
    ELSE Goto(s, rejected) /\ UNCHANGED age

\* release: the full identity must match; a mismatch raises and deletes nothing.
Release(identity) ==
    lease' = IF lease = identity THEN NoLease ELSE lease

-----------------------------------------------------------------------------
(* RunSession.open.                                                        *)

Orphan(s) == \E p \in Loop : ParentOf[s] = p /\ pc[p] = "crashed"
SpawnedBy(s, p) == p \in Loop /\ pc[p] = "open" /\ ~HasLiveCycle(p)

\* A cycle is started by hand, or by its loop while the loop holds its session
\* and runs no other cycle; a loop killed meanwhile leaves it an orphan.
ReadLog(s) ==
    /\ pc[s] = "idle"
    /\ \/ /\ ParentOf[s] = NoSession \/ Orphan(s)
          /\ ppid' = [ppid EXCEPT ![s] = NoSession]
       \/ /\ SpawnedBy(s, ParentOf[s])
          /\ ppid' = [ppid EXCEPT ![s] = ParentOf[s]]
    /\ seenRun' = [seenRun EXCEPT ![s] = logRun]
    /\ Goto(s, "logRead")
    /\ UNCHANGED <<lease, age, logRun, seen, token>>

\* Fault: the parent process is not compared.
AnyLoopInherit(s, record) ==
    /\ s \notin Loop
    /\ record.owner \in Loop
    /\ seenRun[s] \in {NoSession, record.run}

MayInherit(s, record) ==
    /\ s \notin Loop
    /\ record.owner \in Loop
    /\ record.owner = ppid[s]
    /\ seenRun[s] \in {NoSession, record.run}

ReadLease(s) ==
    /\ pc[s] = "logRead"
    /\ seen' = [seen EXCEPT ![s] = lease]
    /\ \/ lease = NoLease /\ Goto(s, "acquiring")
       \/ lease # NoLease /\ MayInherit(s, lease) /\ Goto(s, "inheriting")
       \/ lease # NoLease /\ ~MayInherit(s, lease) /\ Goto(s, "refused")
    /\ UNCHANGED <<lease, age, logRun, ppid, seenRun, token>>

\* The heartbeat under the parent's identity that makes the session inherited.
Inherit(s) ==
    /\ pc[s] = "inheriting"
    /\ Beat(s, seen[s], "open", "refused")
    /\ token' = IF BeatAccepted(seen[s])
                THEN [token EXCEPT ![s] = seen[s]]
                ELSE token
    /\ UNCHANGED <<lease, logRun, ppid, seenRun, seen>>

\* Fault: the file is replaced instead of created exclusively.
OverwritingAcquire(s) ==
    /\ pc[s] = "acquiring"
    /\ lease' = [run |-> IF seenRun[s] = NoSession THEN s ELSE seenRun[s],
                 owner |-> s, gen |-> 1]
    /\ age' = 0
    /\ token' = [token EXCEPT ![s] = lease']
    /\ Goto(s, "open")
    /\ UNCHANGED <<logRun, ppid, seenRun, seen>>

\* Fault: generations start at zero.
ZeroAcquire(s) ==
    /\ pc[s] = "acquiring"
    /\ lease = NoLease
    /\ lease' = [run |-> IF seenRun[s] = NoSession THEN s ELSE seenRun[s],
                 owner |-> s, gen |-> 0]
    /\ age' = 0
    /\ token' = [token EXCEPT ![s] = lease']
    /\ Goto(s, "open")
    /\ UNCHANGED <<logRun, ppid, seenRun, seen>>

\* O_CREAT|O_EXCL: generation 1, under the run id of the log that was read.
Acquire(s) ==
    /\ pc[s] = "acquiring"
    /\ lease = NoLease
    /\ lease' = [run |-> IF seenRun[s] = NoSession THEN s ELSE seenRun[s],
                 owner |-> s, gen |-> 1]
    /\ age' = 0
    /\ token' = [token EXCEPT ![s] = lease']
    /\ Goto(s, "open")
    /\ UNCHANGED <<logRun, ppid, seenRun, seen>>

\* The file exists after all: LeaseAlreadyHeldError carries the record.
AcquireRefused(s) ==
    /\ pc[s] = "acquiring"
    /\ lease # NoLease
    /\ seen' = [seen EXCEPT ![s] = lease]
    /\ Goto(s, "refused")
    /\ UNCHANGED <<lease, age, logRun, ppid, seenRun, token>>

\* takeover of the record the refusal carried, if it is still there and stale.
\* A record that changed, or is fresh, raises and leaves the session refused.
Takeover(s) ==
    /\ TakeoverInUse
    /\ pc[s] = "refused"
    /\ seen[s] # NoLease
    /\ lease = seen[s]
    /\ age >= StaleAfter
    /\ lease' = [run |-> seen[s].run, owner |-> s, gen |-> seen[s].gen + 1]
    /\ age' = 0
    /\ token' = [token EXCEPT ![s] = lease']
    /\ Goto(s, "open")
    /\ UNCHANGED <<logRun, ppid, seenRun, seen>>

\* The program is started once more.
Retry(s) ==
    /\ pc[s] = "refused"
    /\ Goto(s, "idle")
    /\ UNCHANGED <<lease, age, logRun, ppid, seenRun, seen, token>>

-----------------------------------------------------------------------------
(* Work under the session: RunStateCoordinator.open binds a cycle to the   *)
(* event log, then heartbeats precede its writes.                          *)

Bind(s) ==
    /\ pc[s] = "open"
    /\ s \notin Loop
    /\ Beat(s, token[s], "binding", "ending")
    /\ UNCHANGED <<lease, logRun, ppid, seenRun, seen, token>>

LoadState(s) ==
    /\ pc[s] = "binding"
    /\ \/ logRun = NoSession /\ Goto(s, "initialising")
       \/ logRun = token[s].run /\ Goto(s, "running")
       \/ logRun \notin {NoSession, token[s].run} /\ Goto(s, "ending")
    /\ UNCHANGED <<lease, age, logRun, ppid, seenRun, seen, token>>

\* store.initialize requires an empty log under the log's own lock.
Initialise(s) ==
    /\ pc[s] = "initialising"
    /\ IF logRun = NoSession
       THEN logRun' = token[s].run /\ Goto(s, "running")
       ELSE UNCHANGED logRun /\ Goto(s, "ending")
    /\ UNCHANGED <<lease, age, ppid, seenRun, seen, token>>

\* Fault: the session writes its own record without comparing the current one.
BlindHeartbeat(s) ==
    /\ pc[s] = "running"
    /\ lease' = token[s]
    /\ age' = 0
    /\ UNCHANGED <<logRun, pc, ppid, seenRun, seen, token>>

Heartbeat(s) ==
    /\ pc[s] = "running"
    /\ Beat(s, token[s], "running", "ending")
    /\ UNCHANGED <<lease, logRun, ppid, seenRun, seen, token>>

\* Fault: an inherited session releases its parent's lease.
ReleasingClose(s) ==
    /\ pc[s] \in Active
    /\ ~HasLiveCycle(s)
    /\ Release(token[s])
    /\ age' = IF lease' = NoLease THEN 0 ELSE age
    /\ Goto(s, "closed")
    /\ UNCHANGED <<logRun, ppid, seenRun, seen, token>>

\* close: an inherited session only stops; an owner releases.
Close(s) ==
    /\ pc[s] \in Active
    /\ ~HasLiveCycle(s)
    /\ IF Inherited(s) THEN UNCHANGED lease ELSE Release(token[s])
    /\ age' = IF lease' = NoLease THEN 0 ELSE age
    /\ Goto(s, "closed")
    /\ UNCHANGED <<logRun, ppid, seenRun, seen, token>>

-----------------------------------------------------------------------------
(* The environment.                                                        *)

Crash(s) ==
    /\ s \in Crashable
    /\ pc[s] \in Alive
    /\ Goto(s, "crashed")
    /\ UNCHANGED <<lease, age, logRun, ppid, seenRun, seen, token>>

\* Time passes, or the wall clock is set back behind the last heartbeat.
ClockMoves ==
    /\ lease # NoLease
    /\ age' \in {-1, age + 1}
    /\ age' <= StaleAfter
    /\ UNCHANGED <<lease, logRun, pc, ppid, seenRun, seen, token>>

Step(s) ==
    \/ ReadLog(s) \/ ReadLease(s) \/ Inherit(s) \/ Acquire(s)
    \/ AcquireRefused(s) \/ Takeover(s) \/ Retry(s)
    \/ Bind(s) \/ LoadState(s) \/ Initialise(s) \/ Heartbeat(s)
    \/ Close(s)

Next == ClockMoves \/ \E s \in Session : Step(s) \/ Crash(s)

Spec == Init /\ [][Next]_vars

\* Every process that exists keeps running: the operating system schedules it
\* and none of its operations waits for another session for ever.  Starting a
\* program again is fair too: somebody keeps trying.
Fairness == \A s \in Session : WF_vars(Step(s))

FairSpec == Spec /\ Fairness
-----------------------------------------------------------------------------
(* Properties.                                                             *)

\* Of the cycles that have not closed their session, at most one holds the
\* lease, whatever was inherited, taken over or orphaned on the way: the "one
\* logical writer" of the README.
OneHolder ==
    \A s, t \in Session \ Loop :
        /\ pc[s] \in Active /\ pc[t] \in Active
        /\ lease = token[s] /\ lease = token[t]
        => s = t

\* No session has taken the lease of another over so far.
NoTakeoverYet == \A s \in Session : token[s] # NoLease => token[s].gen = 1

\* Until somebody takes a lease over, which no program does, holding is not even
\* needed: two cycles are never inside a session at the same time, although a
\* loop may be killed over its cycle and the wall clock may be set back.
OneWriter ==
    NoTakeoverYet =>
        \A s, t \in Session \ Loop :
            pc[s] \in Active /\ pc[t] \in Active => s = t

\* A cycle that gets past RunStateCoordinator.open writes under the run id of
\* the event log, although the id was read before the lease was, and several
\* sessions may have minted one.
RunAgreement ==
    \A s \in Session : pc[s] = "running" => logRun = token[s].run

\* A session that lost the lease never holds it again: no heartbeat, release,
\* acquisition or takeover brings a superseded identity back.
FencedForGood ==
    [][\A s \in Session :
         token[s] # NoLease /\ lease # token[s] => lease' # token[s]]_vars

\* No session but its owner works under a record.
OnlyOwnerUnder(record) ==
    \A s \in Session \ {record.owner} :
        pc[s] \in Active => token[s] # record

\* A lease is succeeded only by the next generation of the same run and only
\* once it is stale, and removed only by its own owner, when no other session
\* works under it: a cycle that inherited it, or a contender that was refused,
\* never takes a fresh lease away, and no loop releases it under its cycle.
OrderlySuccession ==
    [][lease # NoLease /\ lease' # lease =>
         \/ /\ lease' = NoLease
            /\ pc[lease.owner] \in Active /\ pc'[lease.owner] = "closed"
            /\ OnlyOwnerUnder(lease)
         \/ /\ lease' # NoLease
            /\ age >= StaleAfter
            /\ lease'.run = lease.run
            /\ lease'.gen = lease.gen + 1]_vars

\* A run whose owner was killed can be resumed: somebody who keeps trying gets
\* the lease, as the architecture document demands of a crash.
CrashedRunRecovers ==
    (lease # NoLease /\ pc[lease.owner] = "crashed")
        ~> (lease = NoLease \/ pc[lease.owner] # "crashed")

\* The lease file is the register of LeaseRegister: whatever the sessions do,
\* the only identity that may write is the one on disk, and the identities that
\* sessions opened with and that are not on disk are spent for good.
Register == INSTANCE LeaseRegister WITH
    Nobody <- NoLease,
    held <- lease,
    spent <- {token[s] : s \in Session} \ {NoLease, lease}

ImplementsRegister == Register!RegisterSpec
=============================================================================
