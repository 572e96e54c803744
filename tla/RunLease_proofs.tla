--------------------------- MODULE RunLease_proofs ---------------------------
(***************************************************************************)
(* For every set of sessions, loops and cycles: the state is well typed,   *)
(* at most one cycle holds the lease, a lost lease is lost for good and a  *)
(* lease is succeeded in order; and, until somebody takes a lease over,    *)
(* at most one cycle is inside a session at all, and the lease of an owner *)
(* that was killed stays.                                                  *)
(***************************************************************************)
EXTENDS RunLease, TLAPS

\* A token is carried from the moment a session is opened, for ever.
TokenPc ==
    \A s \in Session :
        /\ pc[s] \in Active => token[s] # NoLease
        /\ token[s] # NoLease => pc[s] \in Active \cup {"closed", "crashed"}

\* The record on disk is the token of its owner, who has not closed.
LeaseOwned ==
    lease # NoLease => /\ token[lease.owner] = lease
                       /\ pc[lease.owner] # "closed"

\* A token is its owner's own; another carries it only as the owner's cycle.
TokenOwned ==
    \A s \in Session : token[s] # NoLease =>
        /\ token[token[s].owner] = token[s]
        /\ token[s].owner # s => ppid[s] = token[s].owner

\* A record that was once read is the token of its owner.
SeenOwned ==
    \A s \in Session : seen[s] # NoLease => token[seen[s].owner] = seen[s]

InheritsParent ==
    \A s \in Session : pc[s] = "inheriting" =>
        seen[s] # NoLease /\ seen[s].owner = ppid[s]

ParentIsLoop ==
    \A s \in Session : ppid[s] # NoSession => ppid[s] \in Loop /\ s \notin Loop

\* A loop runs one cycle at a time that may come to use its lease.
Dependent(s) ==
    /\ pc[s] \in Alive
    /\ ppid[s] # NoSession
    /\ token[s] # NoLease => token[s].owner # s

OneCycleEach ==
    \A s, t \in Session :
        Dependent(s) /\ Dependent(t) /\ ppid[s] = ppid[t] => s = t

IInv ==
    /\ TypeOK
    /\ TokenPc
    /\ LeaseOwned
    /\ TokenOwned
    /\ SeenOwned
    /\ InheritsParent
    /\ ParentIsLoop
    /\ OneCycleEach
    /\ RunAgreement

USE DEF Identity, Active, Alive, Goto

-----------------------------------------------------------------------------
(* The state is well typed.                                                *)

LEMMA InitTypeOK == Init => TypeOK
  BY ConfigAssumption DEF Init, TypeOK

LEMMA StepTypeOK ==
    ASSUME TypeOK, TokenPc, [Next]_vars
    PROVE  TypeOK'
<1> USE LoopAssumption, ParentAssumption, NullAssumption, ConfigAssumption
<1>1. CASE ClockMoves
  BY <1>1 DEF ClockMoves, TypeOK
<1>2. ASSUME NEW s \in Session, ReadLog(s) PROVE TypeOK'
  BY <1>2 DEF ReadLog, Orphan, SpawnedBy, TypeOK
<1>3. ASSUME NEW s \in Session, ReadLease(s) PROVE TypeOK'
  BY <1>3 DEF ReadLease, TypeOK
<1>4. ASSUME NEW s \in Session, Inherit(s) PROVE TypeOK'
  BY <1>4 DEF Inherit, Beat, BeatAccepted, TypeOK
<1>5. ASSUME NEW s \in Session, Acquire(s) PROVE TypeOK'
  <2>1. lease' \in Identity
    BY <1>5 DEF Acquire, TypeOK
  <2> QED
    BY <1>5, <2>1 DEF Acquire, TypeOK
<1>6. ASSUME NEW s \in Session, AcquireRefused(s) PROVE TypeOK'
  BY <1>6 DEF AcquireRefused, TypeOK
<1>7. ASSUME NEW s \in Session, Takeover(s) PROVE TypeOK'
  <2>1. seen[s] \in Identity
    BY <1>7 DEF Takeover, TypeOK
  <2>2. lease' \in Identity
    BY <1>7, <2>1 DEF Takeover
  <2> QED
    BY <1>7, <2>2 DEF Takeover, TypeOK
<1>8. ASSUME NEW s \in Session, Retry(s) PROVE TypeOK'
  BY <1>8 DEF Retry, TypeOK
<1>9. ASSUME NEW s \in Session, Bind(s) PROVE TypeOK'
  BY <1>9 DEF Bind, Beat, BeatAccepted, TypeOK
<1>10. ASSUME NEW s \in Session, LoadState(s) PROVE TypeOK'
  BY <1>10 DEF LoadState, TypeOK
<1>11. ASSUME NEW s \in Session, Initialise(s) PROVE TypeOK'
  BY <1>11 DEF Initialise, TokenPc, TypeOK
<1>12. ASSUME NEW s \in Session, Heartbeat(s) PROVE TypeOK'
  BY <1>12 DEF Heartbeat, Beat, BeatAccepted, TypeOK
<1>13. ASSUME NEW s \in Session, Close(s) PROVE TypeOK'
  BY <1>13 DEF Close, Release, Inherited, TypeOK
<1>14. ASSUME NEW s \in Session, Crash(s) PROVE TypeOK'
  BY <1>14 DEF Crash, TypeOK
<1>15. CASE UNCHANGED vars
  BY <1>15 DEF vars, TypeOK
<1> QED
  BY <1>1, <1>2, <1>3, <1>4, <1>5, <1>6, <1>7, <1>8, <1>9, <1>10, <1>11,
     <1>12, <1>13, <1>14, <1>15 DEF Next, Step

-----------------------------------------------------------------------------
(* The parts of the inductive invariant, each across one step.  Between    *)
(* steps a token changes only for a session that has none.                 *)

LEMMA InitIInv == Init => IInv
  BY InitTypeOK
  DEF Init, IInv, TokenPc, LeaseOwned, TokenOwned, SeenOwned, InheritsParent,
      ParentIsLoop, OneCycleEach, Dependent, RunAgreement

\* What a step may do to the tokens and to the lease.
TokensGrow ==
    \A s \in Session : token[s] # NoLease => token'[s] = token[s]

LEMMA StepTokens ==
    ASSUME TypeOK, TokenPc, [Next]_vars
    PROVE  TokensGrow
<1> USE DEF TokensGrow, TokenPc, TypeOK
<1>1. ASSUME NEW s \in Session, Inherit(s) \/ Acquire(s) \/ Takeover(s)
      PROVE  TokensGrow
  BY <1>1 DEF Inherit, Acquire, Takeover
<1>2. ASSUME UNCHANGED token PROVE TokensGrow
  BY <1>2
<1> QED
  BY <1>1, <1>2 DEF Next, Step, ClockMoves, ReadLog, ReadLease,
     AcquireRefused, Retry, Bind, LoadState, Initialise, Heartbeat, Close,
     Crash, vars

LEMMA StepTokenPc ==
    ASSUME TypeOK, TokenPc, InheritsParent, [Next]_vars
    PROVE  TokenPc'
<1> USE NullAssumption DEF TokenPc, TypeOK
<1>1. CASE ClockMoves \/ UNCHANGED vars
  BY <1>1 DEF ClockMoves, vars
<1>2. ASSUME NEW s \in Session, ReadLog(s) \/ ReadLease(s)
      PROVE  TokenPc'
  BY <1>2 DEF ReadLog, ReadLease
<1>3. ASSUME NEW s \in Session, Inherit(s)
      PROVE  TokenPc'
  BY <1>3 DEF Inherit, Beat, BeatAccepted, InheritsParent
<1>4. ASSUME NEW s \in Session, Acquire(s) \/ Takeover(s)
      PROVE  TokenPc'
  <2>1. lease' \in Identity
    BY <1>4 DEF Acquire, Takeover
  <2> QED
    BY <1>4, <2>1 DEF Acquire, Takeover
<1>5. ASSUME NEW s \in Session,
             AcquireRefused(s) \/ Retry(s) \/ LoadState(s) \/ Initialise(s)
      PROVE  TokenPc'
  BY <1>5 DEF AcquireRefused, Retry, LoadState, Initialise
<1>6. ASSUME NEW s \in Session, Bind(s) \/ Heartbeat(s)
      PROVE  TokenPc'
  BY <1>6 DEF Bind, Heartbeat, Beat, BeatAccepted
<1>7. ASSUME NEW s \in Session, Close(s) \/ Crash(s)
      PROVE  TokenPc'
  BY <1>7 DEF Close, Crash
<1> QED
  BY <1>1, <1>2, <1>3, <1>4, <1>5, <1>6, <1>7 DEF Next, Step

LEMMA StepLeaseOwned ==
    ASSUME TypeOK, TokenPc, LeaseOwned, TokensGrow, [Next]_vars
    PROVE  LeaseOwned'
<1> USE NullAssumption DEF LeaseOwned, TypeOK
<1>1. ASSUME NEW s \in Session, Acquire(s) \/ Takeover(s)
      PROVE  LeaseOwned'
  BY <1>1 DEF Acquire, Takeover
<1>2. ASSUME NEW s \in Session, Close(s)
      PROVE  LeaseOwned'
  BY <1>2 DEF Close, Release, Inherited, TokenPc
<1>3. ASSUME UNCHANGED lease,
             \A s \in Session : pc'[s] = "closed" => pc[s] = "closed"
      PROVE  LeaseOwned'
  BY <1>3 DEF TokensGrow
<1>4. ASSUME NEW s \in Session,
             \/ ReadLog(s) \/ ReadLease(s) \/ AcquireRefused(s) \/ Retry(s)
             \/ LoadState(s) \/ Initialise(s) \/ Crash(s)
      PROVE  LeaseOwned'
  BY <1>3, <1>4 DEF ReadLog, ReadLease, AcquireRefused, Retry, LoadState,
     Initialise, Crash
<1>5. ASSUME NEW s \in Session, Inherit(s) \/ Bind(s) \/ Heartbeat(s)
      PROVE  LeaseOwned'
  BY <1>3, <1>5 DEF Inherit, Bind, Heartbeat, Beat, BeatAccepted
<1>6. CASE ClockMoves \/ UNCHANGED vars
  BY <1>3, <1>6 DEF ClockMoves, vars
<1> QED
  BY <1>1, <1>2, <1>4, <1>5, <1>6 DEF Next, Step

LEMMA StepTokenOwned ==
    ASSUME TypeOK, TokenPc, LeaseOwned, TokenOwned, SeenOwned, InheritsParent,
           TokensGrow, [Next]_vars
    PROVE  TokenOwned'
<1> USE NullAssumption DEF TokenOwned, TypeOK
<1>1. ASSUME NEW s \in Session, Acquire(s) \/ Takeover(s)
      PROVE  TokenOwned'
  BY <1>1 DEF Acquire, Takeover, TokensGrow
<1>2. ASSUME NEW s \in Session, Inherit(s)
      PROVE  TokenOwned'
  <2>1. /\ seen[s] # NoLease
        /\ token[seen[s].owner] = seen[s]
        /\ seen[s].owner = ppid[s]
        /\ seen[s].owner \in Session
    BY <1>2 DEF Inherit, InheritsParent, SeenOwned
  <2> QED
    BY <1>2, <2>1 DEF Inherit, TokensGrow
<1>3. ASSUME NEW s \in Session, ReadLog(s)
      PROVE  TokenOwned'
  BY <1>3 DEF ReadLog, TokenPc
<1>4. ASSUME UNCHANGED <<token, ppid>>
      PROVE  TokenOwned'
  BY <1>4
<1> QED
  BY <1>1, <1>2, <1>3, <1>4 DEF Next, Step, ClockMoves, ReadLease,
     AcquireRefused, Retry, Bind, LoadState, Initialise, Heartbeat, Close,
     Crash, vars

LEMMA StepSeenOwned ==
    ASSUME TypeOK, LeaseOwned, SeenOwned, TokensGrow, [Next]_vars
    PROVE  SeenOwned'
<1> USE NullAssumption DEF SeenOwned, TypeOK, TokensGrow
<1>1. ASSUME NEW s \in Session, ReadLease(s) \/ AcquireRefused(s)
      PROVE  SeenOwned'
  BY <1>1 DEF ReadLease, AcquireRefused, LeaseOwned
<1>2. ASSUME UNCHANGED seen
      PROVE  SeenOwned'
  BY <1>2
<1> QED
  BY <1>1, <1>2 DEF Next, Step, ClockMoves, ReadLog, Inherit, Acquire,
     Takeover, Retry, Bind, LoadState, Initialise, Heartbeat, Close, Crash,
     vars

LEMMA StepInheritsParent ==
    ASSUME TypeOK, InheritsParent, [Next]_vars
    PROVE  InheritsParent'
<1> USE DEF InheritsParent, TypeOK
<1>1. ASSUME NEW s \in Session, ReadLog(s)
      PROVE  InheritsParent'
  BY <1>1 DEF ReadLog
<1>2. ASSUME NEW s \in Session, ReadLease(s) \/ AcquireRefused(s)
      PROVE  InheritsParent'
  BY <1>2 DEF ReadLease, AcquireRefused, MayInherit
<1>3. ASSUME UNCHANGED <<seen, ppid>>,
             \A t \in Session : pc'[t] = "inheriting" => pc[t] = "inheriting"
      PROVE  InheritsParent'
  BY <1>3
<1>4. ASSUME NEW s \in Session,
             \/ Acquire(s) \/ Takeover(s) \/ Retry(s) \/ LoadState(s)
             \/ Initialise(s) \/ Close(s) \/ Crash(s)
      PROVE  InheritsParent'
  BY <1>3, <1>4 DEF Acquire, Takeover, Retry, LoadState, Initialise, Close,
     Crash
<1>5. ASSUME NEW s \in Session, Inherit(s) \/ Bind(s) \/ Heartbeat(s)
      PROVE  InheritsParent'
  BY <1>3, <1>5 DEF Inherit, Bind, Heartbeat, Beat
<1>6. CASE ClockMoves \/ UNCHANGED vars
  BY <1>3, <1>6 DEF ClockMoves, vars
<1> QED
  BY <1>1, <1>2, <1>4, <1>5, <1>6 DEF Next, Step

LEMMA StepParentIsLoop ==
    ASSUME TypeOK, ParentIsLoop, [Next]_vars
    PROVE  ParentIsLoop'
<1> USE DEF ParentIsLoop, TypeOK
<1>1. ASSUME NEW s \in Session, ReadLog(s)
      PROVE  ParentIsLoop'
  BY <1>1, ParentAssumption, NullAssumption DEF ReadLog, SpawnedBy
<1>2. ASSUME UNCHANGED ppid
      PROVE  ParentIsLoop'
  BY <1>2
<1> QED
  BY <1>1, <1>2 DEF Next, Step, ClockMoves, ReadLease, Inherit, Acquire,
     AcquireRefused, Takeover, Retry, Bind, LoadState, Initialise, Heartbeat,
     Close, Crash, vars

LEMMA StepOneCycleEach ==
    ASSUME TypeOK, TokenPc, OneCycleEach, TokensGrow, [Next]_vars
    PROVE  OneCycleEach'
<1> USE DEF OneCycleEach, Dependent, TypeOK
<1>1. ASSUME NEW s \in Session, ReadLog(s)
      PROVE  OneCycleEach'
  BY <1>1 DEF ReadLog, SpawnedBy, HasLiveCycle
<1>2. ASSUME \A t \in Session : Dependent(t)' => Dependent(t),
             UNCHANGED ppid
      PROVE  OneCycleEach'
  BY <1>2
<1>3. ASSUME NEW s \in Session,
             \/ ReadLease(s) \/ AcquireRefused(s) \/ Retry(s)
             \/ LoadState(s) \/ Initialise(s) \/ Close(s) \/ Crash(s)
      PROVE  OneCycleEach'
  BY <1>2, <1>3 DEF ReadLease, AcquireRefused, Retry, LoadState,
     Initialise, Close, Crash
<1>4. ASSUME NEW s \in Session, Bind(s) \/ Heartbeat(s)
      PROVE  OneCycleEach'
  BY <1>2, <1>4 DEF Bind, Heartbeat, Beat
<1>5. ASSUME NEW s \in Session, Inherit(s)
      PROVE  OneCycleEach'
  BY <1>2, <1>5, NullAssumption DEF Inherit, Beat, TokenPc
<1>6. ASSUME NEW s \in Session, Acquire(s) \/ Takeover(s)
      PROVE  OneCycleEach'
  BY <1>2, <1>6, NullAssumption DEF Acquire, Takeover, TokenPc
<1>7. CASE ClockMoves \/ UNCHANGED vars
  BY <1>2, <1>7 DEF ClockMoves, vars
<1> QED
  BY <1>1, <1>3, <1>4, <1>5, <1>6, <1>7 DEF Next, Step

LEMMA StepRunAgreement ==
    ASSUME TypeOK, TokenPc, RunAgreement, TokensGrow, [Next]_vars
    PROVE  RunAgreement'
<1> USE NullAssumption DEF RunAgreement, TypeOK, TokenPc, TokensGrow
<1>1. ASSUME NEW s \in Session, LoadState(s)
      PROVE  RunAgreement'
  BY <1>1 DEF LoadState
<1>2. ASSUME NEW s \in Session, Initialise(s)
      PROVE  RunAgreement'
  <2>1. \A t \in Session : pc[t] = "running" => logRun # NoSession
    BY DEF Identity
  <2> QED
    BY <1>2, <2>1 DEF Initialise
<1>3. ASSUME UNCHANGED logRun,
             \A t \in Session : pc'[t] = "running" => pc[t] = "running"
      PROVE  RunAgreement'
  BY <1>3
<1>4. ASSUME NEW s \in Session,
             \/ ReadLog(s) \/ ReadLease(s) \/ Acquire(s) \/ AcquireRefused(s)
             \/ Takeover(s) \/ Retry(s) \/ Close(s) \/ Crash(s)
      PROVE  RunAgreement'
  BY <1>3, <1>4 DEF ReadLog, ReadLease, Acquire, AcquireRefused, Takeover,
     Retry, Close, Crash
<1>5. ASSUME NEW s \in Session, Inherit(s) \/ Bind(s) \/ Heartbeat(s)
      PROVE  RunAgreement'
  BY <1>3, <1>5 DEF Inherit, Bind, Heartbeat, Beat
<1>6. CASE ClockMoves \/ UNCHANGED vars
  BY <1>3, <1>6 DEF ClockMoves, vars
<1> QED
  BY <1>1, <1>2, <1>4, <1>5, <1>6 DEF Next, Step

LEMMA StepIInv == IInv /\ [Next]_vars => IInv'
<1> SUFFICES ASSUME IInv, [Next]_vars PROVE IInv'
  OBVIOUS
<1>1. TokensGrow
  BY StepTokens DEF IInv
<1> QED
  BY <1>1, StepTypeOK, StepTokenPc, StepLeaseOwned, StepTokenOwned,
     StepSeenOwned, StepInheritsParent, StepParentIsLoop, StepOneCycleEach,
     StepRunAgreement DEF IInv

LEMMA Invariance == Spec => []IInv
  BY InitIInv, StepIInv, PTL DEF Spec

-----------------------------------------------------------------------------
(* The results.                                                            *)

\* The variables stay in their sets, whatever the sessions do.
THEOREM TypeCorrect == Spec => []TypeOK
  BY Invariance, PTL DEF IInv

\* A cycle past RunStateCoordinator.open works under the run id of the log.
THEOREM RunAgreementHolds == Spec => []RunAgreement
  BY Invariance, PTL DEF IInv

\* At most one cycle holds the lease, with takeover and without.
THEOREM OneHolderHolds == Spec => []OneHolder
<1>1. IInv => OneHolder
  <2> SUFFICES ASSUME IInv, NEW s \in Session \ Loop, NEW t \in Session \ Loop,
                      pc[s] \in Active, pc[t] \in Active,
                      lease = token[s], lease = token[t]
               PROVE  s = t
    BY DEF OneHolder
  <2>1. lease # NoLease /\ lease.owner \in Session
    BY DEF IInv, TokenPc, TypeOK
  <2>2. ASSUME NEW u \in {s, t}, lease.owner # u
        PROVE  ppid[u] = lease.owner /\ lease.owner \in Loop /\ Dependent(u)
    <3>1. u \in Session /\ pc[u] \in Active /\ token[u] = lease
      OBVIOUS
    <3>2. ppid[u] = lease.owner /\ ppid[u] # NoSession
      BY <2>1, <2>2, <3>1, NullAssumption DEF IInv, TokenOwned
    <3> QED
      BY <2>2, <3>1, <3>2 DEF IInv, ParentIsLoop, Dependent
  <2>3. CASE lease.owner = s \/ lease.owner = t
    BY <2>2, <2>3
  <2>4. CASE lease.owner # s /\ lease.owner # t
    BY <2>2, <2>4 DEF IInv, OneCycleEach
  <2> QED
    BY <2>3, <2>4
<1> QED
  BY <1>1, Invariance, PTL

\* An identity that lost the lease never gets it back.
THEOREM FencedForGoodHolds == Spec => FencedForGood
<1>1. IInv /\ [Next]_vars =>
        [\A s \in Session :
           token[s] # NoLease /\ lease # token[s] => lease' # token[s]]_vars
  <2> SUFFICES ASSUME IInv, [Next]_vars, NEW s \in Session,
                      token[s] # NoLease, lease # token[s]
               PROVE  lease' # token[s]
    OBVIOUS
  <2>1. /\ token \in [Session -> Identity \cup {NoLease}]
        /\ seen \in [Session -> Identity \cup {NoLease}]
        /\ token[token[s].owner] = token[s]
    BY DEF IInv, TypeOK, TokenOwned
  <2>2. ASSUME NEW t \in Session, Acquire(t) \/ Takeover(t)
        PROVE  lease' # token[s]
    <3>1. lease'.owner = t /\ token[t] = NoLease
      BY <2>2 DEF Acquire, Takeover, IInv, TokenPc
    <3> QED
      BY <2>1, <3>1
  <2>3. CASE lease' \in {lease, NoLease}
    BY <2>3
  <2>4. ASSUME NEW t \in Session, Close(t) PROVE lease' # token[s]
    BY <2>3, <2>4 DEF Close, Release
  <2> QED
    BY <2>2, <2>3, <2>4 DEF Next, Step, ClockMoves, ReadLog, ReadLease,
       Inherit, AcquireRefused, Retry, Bind, LoadState, Initialise, Heartbeat,
       Crash, vars
<1> QED
  BY <1>1, Invariance, PTL DEF Spec, FencedForGood

\* A lease is succeeded by the next generation of its run once it is stale, and
\* removed by nobody but its owner.
THEOREM OrderlySuccessionHolds == Spec => OrderlySuccession
<1> DEFINE Succeeds ==
        \/ /\ lease' = NoLease
           /\ pc[lease.owner] \in Active /\ pc'[lease.owner] = "closed"
           /\ OnlyOwnerUnder(lease)
        \/ /\ lease' # NoLease
           /\ age >= StaleAfter
           /\ lease'.run = lease.run
           /\ lease'.gen = lease.gen + 1
<1>1. IInv /\ [Next]_vars => [lease # NoLease /\ lease' # lease => Succeeds]_vars
  <2> SUFFICES ASSUME IInv, [Next]_vars, lease # NoLease, lease' # lease
               PROVE  Succeeds
    OBVIOUS
  <2>1. ASSUME NEW s \in Session, Takeover(s) PROVE Succeeds
    <3>1. lease \in Identity
      BY DEF IInv, TypeOK
    <3>2. lease' \in Identity
      BY <2>1, <3>1 DEF Takeover
    <3> QED
      BY <2>1, <3>2, NullAssumption DEF Takeover
  <2>2. ASSUME NEW s \in Session, Close(s) PROVE Succeeds
    <3>1. lease = token[s] /\ ~Inherited(s) /\ lease' = NoLease
      BY <2>2 DEF Close, Release
    <3>2. lease.owner = s
      BY <3>1 DEF Inherited
    <3>3. ASSUME NEW t \in Session \ {s}, pc[t] \in Active, token[t] = lease
          PROVE  FALSE
      <4>1. ppid[t] = s
        BY <3>2, <3>3 DEF IInv, TokenOwned
      <4> QED
        BY <2>2, <3>3, <4>1 DEF Close, HasLiveCycle
    <3>4. OnlyOwnerUnder(lease)
      BY <3>2, <3>3 DEF OnlyOwnerUnder
    <3> QED
      BY <2>2, <3>1, <3>2, <3>4 DEF Close, IInv, TypeOK
  <2> QED
    BY <2>1, <2>2 DEF Next, Step, ClockMoves, ReadLog, ReadLease, Inherit,
       Acquire, AcquireRefused, Retry, Bind, LoadState, Initialise, Heartbeat,
       Crash, vars
<1> QED
  BY <1>1, Invariance, PTL DEF Spec, OrderlySuccession

-----------------------------------------------------------------------------
(* Before the first takeover an active session always holds the lease.     *)

ActiveHolds ==
    NoTakeoverYet => \A s \in Session : pc[s] \in Active => lease = token[s]

\* Tokens are kept, so a takeover is never forgotten.
LEMMA TakeoverRemembered ==
    ASSUME IInv, [Next]_vars, NoTakeoverYet'
    PROVE  /\ NoTakeoverYet
           /\ \A s \in Session : ~Takeover(s)
<1>1. TokensGrow
  BY StepTokens DEF IInv
<1>2. NoTakeoverYet
  BY <1>1 DEF NoTakeoverYet, TokensGrow
<1>3. ASSUME NEW s \in Session, Takeover(s) PROVE FALSE
  <2>1. /\ seen[s] \in Identity
        /\ lease' = [run |-> seen[s].run, owner |-> s, gen |-> seen[s].gen + 1]
        /\ token'[s] = lease'
    BY <1>3 DEF Takeover, IInv, TypeOK
  <2>2. lease' \in Identity /\ lease'.gen # 1
    BY <2>1
  <2> QED
    BY <2>1, <2>2, NullAssumption DEF NoTakeoverYet
<1> QED
  BY <1>2, <1>3

LEMMA StepActiveHolds ==
    ASSUME IInv, ActiveHolds, [Next]_vars
    PROVE  ActiveHolds'
<1> SUFFICES ASSUME NoTakeoverYet'
             PROVE  \A s \in Session : pc'[s] \in Active => lease' = token'[s]
  BY DEF ActiveHolds
<1> DEFINE Holds == \A s \in Session : pc[s] \in Active => lease = token[s]
<1>0. Holds /\ \A s \in Session : ~Takeover(s)
  BY TakeoverRemembered DEF ActiveHolds
<1> USE NullAssumption, <1>0 DEF IInv, TypeOK
<1>1. ASSUME NEW s \in Session, Acquire(s) PROVE Holds'
  BY <1>1 DEF Acquire, TokenPc
<1>2. ASSUME NEW s \in Session, Inherit(s) PROVE Holds'
  BY <1>2 DEF Inherit, Beat, BeatAccepted
<1>3. ASSUME NEW s \in Session, Close(s) PROVE Holds'
  <2>1. ASSUME NEW t \in Session, t # s, pc[t] \in Active, ~Inherited(s)
        PROVE  FALSE
    <3>1. token[t] = token[s] /\ token[s].owner = s
      BY <1>3, <2>1 DEF Close, Inherited, TokenPc
    <3>2. ppid[t] = s
      BY <2>1, <3>1 DEF TokenPc, TokenOwned
    <3> QED
      BY <1>3, <2>1, <3>2 DEF Close, HasLiveCycle
  <2> QED
    BY <1>3, <2>1 DEF Close
<1>4. ASSUME UNCHANGED <<lease, token>>,
             \A t \in Session : pc'[t] \in Active => pc[t] \in Active
      PROVE  Holds'
  BY <1>4
<1>5. ASSUME NEW s \in Session,
             \/ ReadLog(s) \/ ReadLease(s) \/ AcquireRefused(s) \/ Retry(s)
             \/ LoadState(s) \/ Initialise(s) \/ Crash(s)
      PROVE  Holds'
  BY <1>4, <1>5 DEF ReadLog, ReadLease, AcquireRefused, Retry, LoadState,
     Initialise, Crash
<1>6. ASSUME NEW s \in Session, Bind(s) \/ Heartbeat(s)
      PROVE  Holds'
  BY <1>4, <1>6 DEF Bind, Heartbeat, Beat
<1>7. CASE ClockMoves \/ UNCHANGED vars
  BY <1>4, <1>7 DEF ClockMoves, vars
<1> QED
  BY <1>1, <1>2, <1>3, <1>5, <1>6, <1>7 DEF Next, Step, Takeover

\* Until a first takeover two cycles are never inside a session together.
THEOREM OneWriterHolds == Spec => []OneWriter
<1>1. Init => ActiveHolds
  BY DEF Init, ActiveHolds
<1>2. OneHolder /\ ActiveHolds => OneWriter
  BY DEF OneHolder, ActiveHolds, OneWriter
<1> QED
  BY <1>1, <1>2, Invariance, OneHolderHolds, StepActiveHolds, PTL DEF Spec

-----------------------------------------------------------------------------
(* The lease file implements LeaseRegister.                                *)

Carried == {token[s] : s \in Session}

\* A new identity joins the ones that were carried.
Joins ==
    /\ lease' \in Identity
    /\ lease' \notin Carried
    /\ Carried' \ {NoLease, lease'} = Carried \ {NoLease}

LEMMA CarriedStep ==
    ASSUME IInv, [Next]_vars, lease' # lease
    PROVE  \/ \E s \in Session : (Acquire(s) \/ Takeover(s)) /\ Joins
           \/ lease' = NoLease /\ UNCHANGED token
<1> USE NullAssumption DEF IInv, TypeOK
<1>1. ASSUME NEW s \in Session, Acquire(s) \/ Takeover(s)
      PROVE  Joins
  <2>1. /\ token' = [token EXCEPT ![s] = lease']
        /\ token[s] = NoLease
    BY <1>1 DEF Acquire, Takeover, TokenPc
  <2>2. lease'.owner = s
    BY <1>1 DEF Acquire, Takeover
  <2>3. \A t \in Session : token[t] # lease'
    <3> SUFFICES ASSUME NEW t \in Session, token[t] = lease' PROVE FALSE
      OBVIOUS
    <3>1. lease' \in Identity
      BY <1>1, StepTypeOK DEF Acquire, Takeover
    <3>2. token[t] # NoLease
      BY <3>1
    <3>3. token[token[t].owner] = token[t]
      BY <3>2 DEF TokenOwned
    <3> QED
      BY <2>1, <2>2, <3>2, <3>3
  <2>4. lease' \in Identity
    BY <1>1, StepTypeOK DEF Acquire, Takeover
  <2> QED
    BY <2>1, <2>3, <2>4 DEF Carried, Joins
<1>2. ASSUME NEW s \in Session, Close(s)
      PROVE  lease' = NoLease /\ UNCHANGED token
  BY <1>2 DEF Close, Release
<1> QED
  BY <1>1, <1>2 DEF Next, Step, ClockMoves, ReadLog, ReadLease, Inherit,
     AcquireRefused, Retry, Bind, LoadState, Initialise, Heartbeat, Crash, vars

\* Every step of the sessions is a step of the register or leaves it alone:
\* what RunStateLog and AttemptStore assume of the lease is what it provides.
THEOREM ImplementsRegisterHolds == Spec => ImplementsRegister
<1>1. Init => Register!RegisterInit
  BY DEF Init, Register!RegisterInit
<1>2. IInv /\ [Next]_vars =>
        [Register!RegisterNext]_<<lease, Carried \ {NoLease, lease}>>
  <2> SUFFICES ASSUME IInv, [Next]_vars
               PROVE  [Register!RegisterNext]_<<lease, Carried \ {NoLease, lease}>>
    OBVIOUS
  <2> USE NullAssumption DEF Register!RegisterNext
  <2>1. CASE lease' = lease
    <3>1. ASSUME NEW s \in Session, Inherit(s)
          PROVE  Carried' \ {NoLease, lease'} = Carried \ {NoLease, lease}
      <4>1. \/ UNCHANGED token
            \/ token' = [token EXCEPT ![s] = lease] /\ token[s] = NoLease
        BY <3>1 DEF Inherit, BeatAccepted, IInv, TokenPc, TypeOK
      <4> QED
        BY <2>1, <4>1 DEF Carried, IInv, TypeOK
    <3>2. CASE UNCHANGED token
      BY <2>1, <3>2 DEF Carried
    <3>3. ASSUME NEW s \in Session, Acquire(s) \/ Takeover(s) PROVE FALSE
      BY <2>1, <3>3 DEF Acquire, Takeover, IInv, TypeOK
    <3> QED
      BY <2>1, <3>1, <3>2, <3>3 DEF Next, Step, ClockMoves, ReadLog, ReadLease,
         AcquireRefused, Retry, Bind, LoadState, Initialise, Heartbeat, Close,
         Crash, vars
  <2>2. lease # NoLease => lease \in Carried
    BY DEF Carried, IInv, LeaseOwned, TypeOK
  <2>3. ASSUME NEW s \in Session, Acquire(s), Joins
        PROVE  Register!Grant
    BY <2>3 DEF Acquire, Joins, Register!Grant, Carried
  <2>4. ASSUME NEW s \in Session, Takeover(s), Joins
        PROVE  Register!Supersede
    <3>1. lease # NoLease
      BY <2>4 DEF Takeover
    <3> QED
      BY <2>2, <2>4, <3>1 DEF Joins, Register!Supersede, Carried
  <2>5. CASE lease' # lease /\ lease' = NoLease /\ UNCHANGED token
    <3>1. Carried' = Carried
      BY <2>5 DEF Carried
    <3> QED
      BY <2>2, <2>5, <3>1 DEF Register!Drop, Carried
  <2> QED
    BY <2>1, <2>3, <2>4, <2>5, CarriedStep
<1> QED
  BY <1>1, <1>2, Invariance, PTL
  DEF Spec, ImplementsRegister, Register!RegisterSpec, Carried

-----------------------------------------------------------------------------
(* What a killed owner leaves behind while no program calls takeover.      *)

OwnerCrashed == lease # NoLease /\ pc[lease.owner] = "crashed"

LEMMA StepOwnerCrashed ==
    ASSUME IInv, ~TakeoverInUse, OwnerCrashed, [Next]_vars
    PROVE  OwnerCrashed'
<1> USE NullAssumption DEF OwnerCrashed
<1>0. lease \in Identity /\ pc \in [Session -> Alive \cup
                                      {"idle", "refused", "closed", "crashed"}]
  BY DEF IInv, TypeOK
<1>1. ASSUME NEW s \in Session, Close(s) PROVE OwnerCrashed'
  <2>1. lease = token[s] => Inherited(s)
    BY <1>1, <1>0 DEF Close, Inherited
  <2>2. UNCHANGED lease
    BY <1>1, <2>1 DEF Close, Release
  <2> QED
    BY <1>0, <1>1, <2>2 DEF Close
<1>2. ASSUME NEW s \in Session,
             \/ ReadLog(s) \/ ReadLease(s) \/ AcquireRefused(s) \/ Retry(s)
             \/ LoadState(s) \/ Initialise(s) \/ Crash(s)
      PROVE  OwnerCrashed'
  BY <1>0, <1>2 DEF ReadLog, ReadLease, AcquireRefused, Retry, LoadState,
     Initialise, Crash
<1>3. ASSUME NEW s \in Session, Inherit(s) \/ Bind(s) \/ Heartbeat(s)
      PROVE  OwnerCrashed'
  BY <1>0, <1>3 DEF Inherit, Bind, Heartbeat, Beat
<1>4. ASSUME NEW s \in Session, Acquire(s) \/ Takeover(s) PROVE OwnerCrashed'
  BY <1>4 DEF Acquire, Takeover
<1>5. CASE ClockMoves \/ UNCHANGED vars
  BY <1>5 DEF ClockMoves, vars
<1> QED
  BY <1>1, <1>2, <1>3, <1>4, <1>5 DEF Next, Step

\* The lease of an owner that was killed is never given up, removed or handed on:
\* from then on no session can acquire one, whoever keeps trying.
THEOREM CrashedOwnerBlocks ==
    ASSUME ~TakeoverInUse
    PROVE  Spec => [](OwnerCrashed => []OwnerCrashed)
<1>1. IInv /\ OwnerCrashed /\ [Next]_vars => OwnerCrashed'
  BY StepOwnerCrashed
<1> QED
  BY <1>1, Invariance, PTL DEF Spec

\* So the recovery that the architecture document demands needs takeover: without
\* it an execution has it only if no owner of the lease is ever killed.
THEOREM RecoveryNeedsTakeover ==
    ASSUME ~TakeoverInUse
    PROVE  Spec /\ CrashedRunRecovers => []~OwnerCrashed
<1>1. CrashedRunRecovers <=> (OwnerCrashed ~> ~OwnerCrashed)
  <2>1. ~OwnerCrashed <=> (lease = NoLease \/ pc[lease.owner] # "crashed")
    BY DEF OwnerCrashed
  <2> QED
    BY <2>1, PTL DEF CrashedRunRecovers, OwnerCrashed
<1> QED
  BY <1>1, CrashedOwnerBlocks, PTL
=============================================================================
