------------------------- MODULE RunStateLog_proofs -------------------------
(***************************************************************************)
(* For every set of identities: the chain of the event log stays intact,   *)
(* what an append acknowledged is durable and projected, a torn log is     *)
(* never written on, and what a reader finds is the log of EventLog.  As   *)
(* long as no lease was taken over, cycles do not overlap, and none works  *)
(* on a run that an earlier cycle passed.  What a reader has found stays,  *)
(* and who released its lease writes no more.                              *)
(***************************************************************************)
EXTENDS RunStateLog, TLAPS

\* The flock is held exactly while a line and its projection are written.
GuardPc ==
    \A w \in Identity : pc[w] \in {"write", "project"} <=> guard = w

\* The line on its way carries the next sequence; the line to be projected is
\* the last one.
LineInHand ==
    \A w \in Identity :
        /\ pc[w] = "write" => next[w] = Len(log) + 1
        /\ pc[w] = "project" => /\ next[w] = Len(log)
                                /\ next[w] > 0
                                /\ log[next[w]].by = w

IInv ==
    /\ TypeOK
    /\ GuardPc
    /\ LineInHand
    /\ ChainIntact
    /\ Acknowledged

USE DEF Place, Opening, Ending, Kind, Verdict, Event

-----------------------------------------------------------------------------
LEMMA Between ==
    ASSUME NEW k \in Nat, NEW m \in Nat, NEW n \in Nat, k > 0, k <= m, m <= n
    PROVE  k \in 1 .. n
  OBVIOUS

LEMMA InitIInv == Init => IInv
  BY NobodyAssumption
  DEF Init, RegisterInit, IInv, TypeOK, GuardPc, LineInHand, ChainIntact,
      Acknowledged

\* The steps that leave the log, its flock and its projection alone.
Quiet(w) ==
    \/ OpenCycle(w) \/ LoadEvents(w) \/ Beat(w) \/ ReadBeforeAppend(w)
    \/ Note(w) \/ Finish(w) \/ InvalidatePass(w)

LEMMA QuietStep ==
    ASSUME IInv, NEW w \in Identity, Quiet(w)
    PROVE  /\ UNCHANGED <<held, spent, overtaken, log, whole, projected, guard, next, known,
                          verdict>>
           /\ job' \in [Identity -> Kind]
           /\ \E place \in {"load", "lock", "beat", "read"} :
                pc' = [pc EXCEPT ![w] = place]
           /\ pc[w] \notin {"write", "project"}
<1> USE DEF Goto, Appending, IInv, TypeOK
<1>1. CASE OpenCycle(w) \/ Beat(w) \/ ReadBeforeAppend(w)
  BY <1>1 DEF OpenCycle, Beat, ReadBeforeAppend
<1>2. CASE LoadEvents(w)
  BY <1>2 DEF LoadEvents
<1>3. CASE Note(w) \/ Finish(w) \/ InvalidatePass(w)
  BY <1>3 DEF Note, Finish, InvalidatePass
<1> QED
  BY <1>1, <1>2, <1>3 DEF Quiet

LEMMA ContinueStep ==
    ASSUME TypeOK, NEW w \in Identity, Continue(w)
    PROVE  /\ job' \in [Identity -> Kind]
           /\ verdict' \in [Identity -> Verdict]
           /\ \E place \in {"beat", "work", "finished"} :
                pc' = [pc EXCEPT ![w] = place]
<1> USE DEF Appending, Goto, TypeOK
<1>1. ASSUME NEW kind \in Kind, Appending(w, kind), UNCHANGED verdict
      PROVE  /\ job' \in [Identity -> Kind]
             /\ verdict' \in [Identity -> Verdict]
             /\ pc' = [pc EXCEPT ![w] = "beat"]
  BY <1>1
<1>2. ASSUME NEW v \in Verdict, NEW kind \in Kind, Appending(w, kind),
             verdict' = [verdict EXCEPT ![w] = v]
      PROVE  /\ job' \in [Identity -> Kind]
             /\ verdict' \in [Identity -> Verdict]
             /\ pc' = [pc EXCEPT ![w] = "beat"]
  BY <1>2
<1>3. ASSUME NEW place \in {"work", "finished"}, Goto(w, place),
             UNCHANGED <<job, verdict>>
      PROVE  /\ job' \in [Identity -> Kind]
             /\ verdict' \in [Identity -> Verdict]
             /\ pc' = [pc EXCEPT ![w] = place]
  BY <1>3
<1>4. CASE ContinueOpening(w, "running")
  BY <1>1, <1>3, <1>4 DEF ContinueOpening
<1>5. CASE ContinueFinish(w)
  <2>1. CASE job[w] = "final"
    <3>1. PICK v \in Verdict :
              /\ verdict' = [verdict EXCEPT ![w] = v]
              /\ Appending(w, IF v = "missing" THEN "nonpass" ELSE "evidence")
      BY <1>5, <2>1 DEF ContinueFinish
    <3>2. (IF v = "missing" THEN "nonpass" ELSE "evidence") \in Kind
      OBVIOUS
    <3> QED
      BY <3>1, <3>2, <1>2
  <2>2. CASE job[w] = "evidence"
    <3>1. (IF verdict[w] = "passed" THEN "passed" ELSE "nonpass") \in Kind
      OBVIOUS
    <3> QED
      BY <1>5, <2>2, <3>1, <1>1 DEF ContinueFinish
  <2> QED
    BY <1>5, <2>1, <2>2, <1>3 DEF ContinueFinish
<1> QED
  BY <1>4, <1>5 DEF Continue

LEMMA StepIInv == IInv /\ [Next]_vars => IInv'
<1> SUFFICES ASSUME IInv, [Next]_vars PROVE IInv'
  OBVIOUS
<1> USE NobodyAssumption DEF TypeOK, IInv
<1>1. ASSUME NEW w \in Identity, Quiet(w) PROVE IInv'
  <2>1. PICK place \in {"load", "lock", "beat", "read"} :
            pc' = [pc EXCEPT ![w] = place]
    BY <1>1, QuietStep
  <2>2. /\ UNCHANGED <<held, spent, overtaken, log, whole, projected, guard, next, known,
                       verdict>>
        /\ job' \in [Identity -> Kind]
        /\ pc[w] \notin {"write", "project"}
    BY <1>1, QuietStep
  <2>3. TypeOK'
    BY <2>1, <2>2
  <2>4. GuardPc' /\ LineInHand'
    BY <2>1, <2>2 DEF GuardPc, LineInHand
  <2>5. ChainIntact' /\ Acknowledged'
    BY <2>2 DEF ChainIntact, Acknowledged
  <2> QED
    BY <2>3, <2>4, <2>5
<1>2. ASSUME NEW w \in Identity, WriteLine(w) PROVE IInv'
  <2>1. /\ pc' = [pc EXCEPT ![w] = "write"]
        /\ next' = [next EXCEPT ![w] = Len(log) + 1]
        /\ pc[w] = "lock" /\ guard = Nobody /\ guard' = w /\ whole' = FALSE
        /\ UNCHANGED <<held, spent, overtaken, log, projected, job, known, verdict>>
    BY <1>2 DEF WriteLine, StartLine, Goto
  <2>2. Len(log) \in Nat
    OBVIOUS
  <2>3. /\ next' \in [Identity -> Nat]
        /\ pc' \in [Identity -> Place]
    BY <2>1, <2>2
  <2>4. TypeOK'
    BY <2>1, <2>3
  <2>5. pc'[w] = "write" /\ next'[w] = Len(log) + 1
    BY <2>1
  <2>6. \A v \in Identity : v # w => pc'[v] = pc[v] /\ next'[v] = next[v]
    BY <2>1
  <2>7. GuardPc'
    BY <2>1, <2>5, <2>6 DEF GuardPc
  <2>8. LineInHand'
    BY <2>1, <2>5, <2>6 DEF LineInHand
  <2>9. ChainIntact' /\ Acknowledged'
    BY <2>1 DEF ChainIntact, Acknowledged
  <2> QED
    BY <2>4, <2>7, <2>8, <2>9
<1>3. ASSUME NEW w \in Identity, SyncLine(w) PROVE IInv'
  <2> DEFINE event == [seq |-> next[w], kind |-> job[w], by |-> w]
  <2>1. /\ pc' = [pc EXCEPT ![w] = "project"]
        /\ pc[w] = "write" /\ guard = w /\ next[w] = Len(log) + 1
        /\ log' = Append(log, event)
        /\ UNCHANGED <<held, spent, overtaken, projected, guard, job, next, known, verdict>>
        /\ whole' = TRUE
    BY <1>3 DEF SyncLine, Goto, GuardPc, LineInHand
  <2>2. /\ event \in Event
        /\ log' \in Seq(Event)
        /\ Len(log') = Len(log) + 1
        /\ log'[Len(log) + 1] = event
        /\ \A i \in 1 .. Len(log) : log'[i] = log[i]
        /\ DOMAIN log = 1 .. Len(log)
        /\ DOMAIN log' = 1 .. Len(log')
    BY <2>1
  <2>3. TypeOK'
    BY <2>1, <2>2
  <2>4. GuardPc'
    BY <2>1 DEF GuardPc
  <2>5. LineInHand'
    BY <2>1, <2>2 DEF GuardPc, LineInHand
  <2>6. ChainIntact'
    BY <2>1, <2>2 DEF ChainIntact
  <2>7. Acknowledged'
    <3>1. projected' = projected /\ known' = known
      BY <2>1
    <3>2. projected \in Nat /\ Len(log) \in Nat /\ projected <= Len(log)
      BY DEF Acknowledged
    <3>3. ASSUME NEW v \in Identity, known[v] > 0
          PROVE  known[v] <= projected /\ log'[known[v]].by = v
      <4>1. known[v] <= projected /\ log[known[v]].by = v
        BY <3>3 DEF Acknowledged
      <4>2. known[v] \in Nat
        OBVIOUS
      <4>3. known[v] \in 1 .. Len(log)
        BY <3>2, <3>3, <4>1, <4>2, Between
      <4>4. log'[known[v]] = log[known[v]]
        BY <2>2, <4>3
      <4> QED
        BY <4>1, <4>4
    <3> QED
      BY <2>2, <3>1, <3>2, <3>3 DEF Acknowledged
  <2> QED
    BY <2>3, <2>4, <2>5, <2>6, <2>7
<1>4. ASSUME NEW w \in Identity, Project(w) PROVE IInv'
  <2>1. /\ pc[w] = "project" /\ guard = w /\ guard' = Nobody
        /\ next[w] = Len(log) /\ next[w] > 0 /\ log[next[w]].by = w
        /\ projected' = next[w]
        /\ known' = [known EXCEPT ![w] = next[w]]
        /\ UNCHANGED <<held, spent, overtaken, log, whole, next>>
    BY <1>4 DEF Project, GuardPc, LineInHand
  <2>2. /\ job' \in [Identity -> Kind]
        /\ verdict' \in [Identity -> Verdict]
    BY <1>4, ContinueStep DEF Project
  <2>3. PICK place \in {"beat", "work", "finished"} :
            pc' = [pc EXCEPT ![w] = place]
    BY <1>4, ContinueStep DEF Project
  <2>4. TypeOK'
    BY <2>1, <2>2, <2>3
  <2>5. /\ pc'[w] \notin {"write", "project"}
        /\ \A v \in Identity : v # w => pc'[v] = pc[v]
    BY <2>3
  <2>6. GuardPc'
    BY <2>1, <2>5, NobodyAssumption DEF GuardPc
  <2>7. LineInHand' /\ ChainIntact'
    BY <2>1, <2>5 DEF LineInHand, ChainIntact
  <2>8. Acknowledged'
    BY <2>1 DEF Acknowledged
  <2> QED
    BY <2>4, <2>6, <2>7, <2>8
<1>5. ASSUME NEW w \in Identity, Stop(w) PROVE IInv'
  <2>1. /\ pc' = [pc EXCEPT ![w] = "out"]
        /\ guard' = IF guard = w THEN Nobody ELSE guard
        /\ UNCHANGED <<held, spent, overtaken, log, whole, projected, job,
                       next, known, verdict>>
    BY <1>5 DEF Stop, Goto
  <2>2. pc'[w] = "out" /\ \A v \in Identity : v # w => pc'[v] = pc[v]
    BY <2>1
  <2>3. TypeOK'
    BY <2>1
  <2>4. GuardPc'
    BY <2>1, <2>2 DEF GuardPc
  <2>5. LineInHand' /\ ChainIntact' /\ Acknowledged'
    BY <2>1, <2>2 DEF LineInHand, ChainIntact, Acknowledged
  <2> QED
    BY <2>3, <2>4, <2>5
<1>6. CASE LeaseGranted \/ (held # Nobody /\ LeaseReleased) \/ LeaseTakenOver
  <2>1. UNCHANGED logVars
    BY <1>6 DEF LeaseGranted, LeaseReleased, LeaseTakenOver
  <2>2. held' \in Identity \cup {Nobody} /\ spent' \subseteq Identity
      /\ overtaken' \subseteq Identity
    BY <1>6 DEF LeaseGranted, LeaseReleased, LeaseTakenOver, Grant, Drop,
       Supersede
  <2> QED
    BY <2>1, <2>2 DEF logVars, GuardPc, LineInHand, ChainIntact, Acknowledged
<1>7. CASE UNCHANGED vars
  BY <1>7 DEF vars, GuardPc, LineInHand, ChainIntact, Acknowledged
<1> QED
  BY <1>1, <1>2, <1>3, <1>4, <1>5, <1>6, <1>7 DEF Next, Step, Quiet

LEMMA Invariance == Spec => []IInv
  BY InitIInv, StepIInv, PTL DEF Spec

-----------------------------------------------------------------------------
\* The variables stay in their sets.
THEOREM TypeCorrect == Spec => []TypeOK
  BY Invariance, PTL DEF IInv

\* No interleaving of writers numbers two lines alike.
THEOREM ChainIntactHolds == Spec => []ChainIntact
  BY Invariance, PTL DEF IInv

\* What an append acknowledged is in the log and in the projection.
THEOREM AcknowledgedHolds == Spec => []Acknowledged
  BY Invariance, PTL DEF IInv

\* A torn log is never written on.
THEOREM TornLogFrozenHolds == Spec => TornLogFrozen
<1>1. IInv /\ [Next]_vars =>
        [~whole /\ guard = Nobody =>
           UNCHANGED <<log, whole, guard, projected>>]_vars
  <2> SUFFICES ASSUME IInv, [Next]_vars, ~whole, guard = Nobody
               PROVE  UNCHANGED <<log, whole, guard, projected>>
    OBVIOUS
  <2>1. ASSUME NEW w \in Identity, WriteLine(w) \/ SyncLine(w) \/ Project(w)
        PROVE  FALSE
    BY <2>1, NobodyAssumption
    DEF WriteLine, StartLine, Readable, SyncLine, Project, IInv, GuardPc
  <2> QED
    BY <2>1 DEF Next, Step, OpenCycle, LoadEvents, Beat, ReadBeforeAppend,
       WriteLine, StartLine, Note, Finish, InvalidatePass, Stop, LeaseGranted,
       LeaseReleased, LeaseTakenOver, logVars, vars
<1> QED
  BY <1>1, Invariance, PTL DEF Spec, TornLogFrozen

-----------------------------------------------------------------------------
(* A cycle that is inside runs under the held lease, or under one that was  *)
(* taken over.                                                             *)

InsideHolds ==
    \A w \in Identity : pc[w] # "out" => w \in {held} \cup overtaken

LEMMA StepInsideHolds ==
    ASSUME IInv, InsideHolds, [Next]_vars
    PROVE  InsideHolds'
<1> USE DEF InsideHolds, IInv, TypeOK
<1>1. ASSUME NEW w \in Identity, Quiet(w) PROVE InsideHolds'
  <2>1. w \in {held} \cup overtaken /\ UNCHANGED <<held, overtaken>>
    BY <1>1 DEF Quiet, OpenCycle, LoadEvents, Beat, ReadBeforeAppend, Note,
       Finish, InvalidatePass
  <2>2. PICK place \in {"load", "lock", "beat", "read"} :
            pc' = [pc EXCEPT ![w] = place]
    BY <1>1, QuietStep
  <2>3. \A v \in Identity : v # w => pc'[v] = pc[v]
    BY <2>2
  <2> QED
    BY <2>1, <2>3
<1>2. ASSUME NEW w \in Identity, WriteLine(w) \/ SyncLine(w) \/ Stop(w)
      PROVE  InsideHolds'
  BY <1>2 DEF WriteLine, StartLine, SyncLine, Stop, Goto
<1>3. ASSUME NEW w \in Identity, Project(w) PROVE InsideHolds'
  BY <1>3, ContinueStep DEF Project
<1>4. CASE LeaseGranted \/ (held # Nobody /\ LeaseReleased)
  BY <1>4, NobodyAssumption DEF LeaseGranted, LeaseReleased, Grant, Drop,
     logVars
<1>5. CASE LeaseTakenOver
  BY <1>5 DEF LeaseTakenOver, Supersede, logVars
<1>6. CASE UNCHANGED vars
  BY <1>6 DEF vars
<1> QED
  BY <1>1, <1>2, <1>3, <1>4, <1>5, <1>6 DEF Next, Step, Quiet

LEMMA InsideHoldsInvariance == Spec => []InsideHolds
<1>1. Init => InsideHolds
  BY DEF Init, InsideHolds
<1> QED
  BY <1>1, StepInsideHolds, Invariance, PTL DEF Spec

\* The cycles of a run do not overlap as long as no lease was taken over.
THEOREM LoneCycleHolds == Spec => []LoneCycle
<1>1. InsideHolds => LoneCycle
  BY DEF InsideHolds, LoneCycle
<1> QED
  BY <1>1, InsideHoldsInvariance, PTL

-----------------------------------------------------------------------------
(* The event log.                                                          *)

LEMMA PromiseInit == Init => Promise!LogInit
  BY DEF Init, RegisterInit, Promise!LogInit, Promise!RegisterInit

\* The line becomes an event of the log when it is complete.
LEMMA PromiseWrite ==
    ASSUME IInv, InsideHolds, NEW w \in Identity, SyncLine(w)
    PROVE  Promise!LogNext
<1>1. w \in {held} \cup overtaken /\ job[w] \in Kind
  BY DEF SyncLine, InsideHolds, IInv, TypeOK
<1>2. log' = Append(log, [seq |-> Len(log) + 1, kind |-> job[w], by |-> w])
  BY DEF SyncLine, IInv, LineInHand
<1>3. UNCHANGED <<held, spent, overtaken, projected, known>>
  BY DEF SyncLine
<1>4. Promise!Write(w, job[w])
  BY <1>1, <1>2, <1>3 DEF Promise!Write, Promise!MayWrite
<1> QED
  BY <1>1, <1>4 DEF Promise!LogNext

\* The append returns with the projection of its own, the last, event.
LEMMA PromiseReturn ==
    ASSUME IInv, NEW w \in Identity, Project(w)
    PROVE  Promise!LogNext
<1>1. next[w] = Len(log) /\ next[w] > 0 /\ log[next[w]].by = w
  BY DEF Project, IInv, LineInHand
<1>2. /\ projected' = next[w]
      /\ known' = [known EXCEPT ![w] = next[w]]
      /\ UNCHANGED <<held, spent, overtaken, log>>
  BY DEF Project
<1>3. Promise!Return(w)
  BY <1>1, <1>2 DEF Promise!Return
<1> QED
  BY <1>3 DEF Promise!LogNext

LEMMA PromiseLease ==
    ASSUME LeaseGranted \/ (held # Nobody /\ LeaseReleased) \/ LeaseTakenOver
    PROVE  Promise!LogNext
  BY DEF LeaseGranted, LeaseReleased, LeaseTakenOver, logVars, Grant, Drop,
     Supersede, Promise!LogNext, Promise!LeaseMoves, Promise!Grant,
     Promise!Drop, Promise!Supersede

\* Everything else, a torn line among it, is not seen by who reads events.
LEMMA PromiseStutter ==
    ASSUME NEW w \in Identity, Quiet(w) \/ WriteLine(w) \/ Stop(w)
    PROVE  UNCHANGED <<held, spent, overtaken, log, projected, known>>
  BY DEF Quiet, OpenCycle, LoadEvents, Beat, ReadBeforeAppend, Note, Finish,
     InvalidatePass, WriteLine, StartLine, Stop

\* Concurrent appends, crashes in the middle of one and overtaken writers
\* included, a reader finds a log of whole events in order.
THEOREM ImplementsLogHolds == Spec => ImplementsLog
<1>1. IInv /\ InsideHolds /\ [Next]_vars =>
        [Promise!LogNext]_(Promise!eventVars)
  <2> SUFFICES ASSUME IInv, InsideHolds, [Next]_vars
               PROVE  Promise!LogNext \/ UNCHANGED Promise!eventVars
    OBVIOUS
  <2>1. ASSUME NEW w \in Identity, Step(w)
        PROVE  Promise!LogNext \/ UNCHANGED Promise!eventVars
    BY <2>1, PromiseWrite, PromiseReturn, PromiseStutter
    DEF Step, Quiet, Promise!eventVars
  <2>2. ASSUME NEW w \in Identity, Stop(w)
        PROVE  UNCHANGED Promise!eventVars
    BY <2>2, PromiseStutter DEF Promise!eventVars
  <2>3. CASE UNCHANGED vars
    BY <2>3 DEF vars, Promise!eventVars
  <2> QED
    BY <2>1, <2>2, <2>3, PromiseLease DEF Next
<1> QED
  BY <1>1, PromiseInit, Invariance, InsideHoldsInvariance, PTL
  DEF Spec, ImplementsLog, Promise!LogSpec

-----------------------------------------------------------------------------
(* As long as no lease was taken over, no cycle works on a passed run.     *)

\* The cycle has set the run to running and has not published its status.
Revoked(w) ==
    \/ pc[w] = "work"
    \/ /\ pc[w] \in {"beat", "read", "lock", "write", "project"}
       /\ job[w] \in {"budget", "note", "final", "evidence"}
    \/ pc[w] = "project" /\ job[w] = "running"

NotPassedInside ==
    overtaken = {} => \A w \in Identity : Revoked(w) => ~StatusIs("passed")

LEMMA StepNotPassed ==
    ASSUME IInv, InsideHolds, NotPassedInside, [Next]_vars
    PROVE  NotPassedInside'
<1> USE DEF NotPassedInside, TypeOK, IInv
<1>1. ASSUME UNCHANGED log,
             overtaken' = overtaken,
             \A w \in Identity : Revoked(w)' => Revoked(w)
      PROVE  NotPassedInside'
  BY <1>1 DEF StatusIs
<1>2. ASSUME NEW w \in Identity, OpenCycle(w) \/ LoadEvents(w)
      PROVE  NotPassedInside'
  BY <1>1, <1>2 DEF OpenCycle, LoadEvents, Appending, Goto, Revoked
<1>3. ASSUME NEW w \in Identity, Beat(w) \/ ReadBeforeAppend(w) \/ WriteLine(w)
      PROVE  NotPassedInside'
  <2>1. UNCHANGED <<log, overtaken, job>>
    BY <1>3 DEF Beat, ReadBeforeAppend, WriteLine, StartLine
  <2>2. \A v \in Identity \ {w} : pc'[v] = pc[v]
    BY <1>3 DEF Beat, ReadBeforeAppend, WriteLine, StartLine, Goto
  <2>3. pc[w] \in {"beat", "read", "lock"} /\ pc'[w] \in {"read", "lock", "write"}
    BY <1>3 DEF Beat, ReadBeforeAppend, WriteLine, StartLine, Goto
  <2>4. \A v \in Identity : Revoked(v)' => Revoked(v)
    BY <2>1, <2>2, <2>3 DEF Revoked
  <2> QED
    BY <1>1, <2>1, <2>4
<1>4. ASSUME NEW w \in Identity, Note(w) \/ Finish(w) \/ InvalidatePass(w)
      PROVE  NotPassedInside'
  <2>1. UNCHANGED <<log, overtaken>>
    BY <1>4 DEF Note, Finish, InvalidatePass
  <2>2. \A v \in Identity \ {w} : job'[v] = job[v] /\ pc'[v] = pc[v]
    BY <1>4 DEF Note, Finish, InvalidatePass, Appending, Goto
  <2>3. CASE Note(w) \/ Finish(w)
    <3>1. Revoked(w)
      BY <2>3 DEF Note, Finish, Revoked
    <3> QED
      BY <1>1, <2>1, <2>2, <3>1 DEF Revoked
  <2>4. CASE InvalidatePass(w)
    <3>1. job'[w] = "revoked" /\ pc'[w] = "beat"
      BY <2>4 DEF InvalidatePass, Appending, Goto
    <3>2. ~Revoked(w)'
      BY <3>1 DEF Revoked
    <3> QED
      BY <1>1, <2>1, <2>2, <3>2 DEF Revoked
  <2> QED
    BY <1>4, <2>3, <2>4
<1>5. ASSUME NEW w \in Identity, SyncLine(w) PROVE NotPassedInside'
  <2> DEFINE event == [seq |-> next[w], kind |-> job[w], by |-> w]
  <2> SUFFICES ASSUME overtaken' = {} PROVE NotPassedInside'
    BY DEF NotPassedInside
  <2>1. /\ pc[w] = "write" /\ pc' = [pc EXCEPT ![w] = "project"]
        /\ log' = Append(log, event) /\ UNCHANGED <<job, held>>
        /\ overtaken = {}
    BY <1>5 DEF SyncLine, Goto
  <2>2. event \in Event /\ log \in Seq(Event)
    BY <2>1
  <2>3. /\ DOMAIN log = 1 .. Len(log)
        /\ DOMAIN log' = 1 .. Len(log) + 1
        /\ log'[Len(log) + 1] = event
        /\ \A i \in 1 .. Len(log) : log'[i] = log[i]
        /\ Len(log) \in Nat
    BY <2>1, <2>2
  <2>4. ASSUME NEW v \in Identity, v # w, Revoked(v)'
        PROVE  FALSE
    BY <2>1, <2>4 DEF InsideHolds, Revoked
  <2> HIDE DEF event
  <2>5. event.kind = job[w]
    BY DEF event
  <2>6. CASE job[w] = "running"
    <3>1. ASSUME StatusIs("passed")' PROVE FALSE
      <4>1. PICK i \in DOMAIN log' :
                /\ log'[i].kind = "passed"
                /\ \A j \in DOMAIN log' : log'[j].kind \in Status => j <= i
        BY <3>1 DEF StatusIs
      <4>2. Len(log) + 1 <= i
        <5>1. Len(log) + 1 \in DOMAIN log'
          <6> HIDE DEF TypeOK, IInv, NotPassedInside
          <6> QED
            BY <2>3
        <5>2. log'[Len(log) + 1].kind \in Status
          BY <2>3, <2>6, <2>5 DEF Status
        <5> HIDE DEF TypeOK, IInv, NotPassedInside
        <5> QED
          BY <4>1, <5>1, <5>2
      <4>3. i = Len(log) + 1
        <5>1. i \in 1 .. Len(log) + 1 /\ Len(log) \in Nat
          BY <2>3
        <5> QED
          BY <4>2, <5>1
      <4> QED
        BY <2>3, <2>6, <2>5, <4>1, <4>3
    <3> QED
      BY <2>4, <3>1
  <2>7. CASE job[w] \in {"budget", "note", "final", "evidence"}
    <3>1. ~StatusIs("passed")
      BY <2>1, <2>7 DEF Revoked
    <3>2. ASSUME StatusIs("passed")' PROVE FALSE
      <4>1. PICK i \in DOMAIN log' :
                /\ log'[i].kind = "passed"
                /\ \A j \in DOMAIN log' : log'[j].kind \in Status => j <= i
        BY <3>2 DEF StatusIs
      <4>2. i # Len(log) + 1
        BY <2>3, <2>7, <2>5, <4>1
      <4>3. i \in DOMAIN log /\ log[i].kind = "passed"
        <5>1. i \in 1 .. Len(log)
          <6>1. i \in 1 .. Len(log) + 1 /\ i # Len(log) + 1 /\ Len(log) \in Nat
            BY <2>3, <4>2
          <6> QED
            BY ONLY <6>1
        <5> QED
          BY <2>3, <4>1, <5>1
      <4>4. ASSUME NEW j \in DOMAIN log, log[j].kind \in Status PROVE j <= i
        <5>1. j \in DOMAIN log' /\ log'[j] = log[j]
          BY <2>3, <4>4
        <5> QED
          BY <4>1, <4>4, <5>1
      <4> QED
        BY <3>1, <4>3, <4>4 DEF StatusIs
    <3> QED
      BY <3>2
  <2>8. CASE job[w] \notin {"running", "budget", "note", "final", "evidence"}
    BY <2>1, <2>4, <2>8 DEF Revoked
  <2> QED
    BY <2>6, <2>7, <2>8
<1>6. ASSUME NEW w \in Identity, Project(w) PROVE NotPassedInside'
  <2> SUFFICES ASSUME overtaken' = {} PROVE NotPassedInside'
    BY DEF NotPassedInside
  <2>1. UNCHANGED <<log, overtaken>> /\ pc[w] = "project" /\ overtaken = {}
    BY <1>6 DEF Project
  <2>2. ASSUME NEW v \in Identity, v # w, Revoked(v)'
        PROVE  FALSE
    BY <1>6, <2>1, <2>2, ContinueStep DEF Project, InsideHolds, Revoked
  <2>3. Revoked(w)' => Revoked(w)
    BY <1>6, <2>1 DEF Project, Continue, ContinueOpening, ContinueFinish,
       Appending, Goto, Revoked
  <2> QED
    BY <1>1, <2>1, <2>2, <2>3
<1>7. ASSUME NEW w \in Identity, Stop(w) PROVE NotPassedInside'
  BY <1>1, <1>7 DEF Stop, Goto, Revoked
<1>8. CASE LeaseGranted \/ (held # Nobody /\ LeaseReleased) \/ UNCHANGED vars
  BY <1>1, <1>8 DEF LeaseGranted, LeaseReleased, logVars, vars, Revoked
<1>9. CASE LeaseTakenOver
  BY <1>9 DEF LeaseTakenOver, Supersede
<1> QED
  BY <1>2, <1>3, <1>4, <1>5, <1>6, <1>7, <1>8, <1>9 DEF Next, Step

\* The pass of an earlier cycle is revoked before the first stage of the next
\* one, as long as no lease was taken over.
THEOREM EarlierPassRevokedHolds == Spec => []EarlierPassRevoked
<1>1. Init => NotPassedInside
  BY DEF Init, NotPassedInside, Revoked
<1>2. NotPassedInside => EarlierPassRevoked
  BY DEF NotPassedInside, Revoked, EarlierPassRevoked
<1> QED
  BY <1>1, <1>2, StepNotPassed, Invariance, InsideHoldsInvariance, PTL DEF Spec

-----------------------------------------------------------------------------
(* What the log of EventLog means to who reads it.                         *)

\* The event e is what a reader finds at the place i.
Found(i, e) == i \in DOMAIN log /\ log[i] = e

\* The identity w had its lease and gave it up in order, and has written nothing
\* beyond the place n.
Silent(w, n) ==
    /\ w \in spent \ overtaken
    /\ \A i \in DOMAIN log : log[i].by = w => i <= n

\* Who holds the lease has not given it up.
HolderFresh == held \notin spent

\* A step of the log appends at most one event, by who may write.
LEMMA LogGrows ==
  ASSUME IInv, [Promise!LogNext]_(Promise!eventVars)
  PROVE  \/ UNCHANGED log
         \/ \E w \in {held} \cup overtaken, e \in Event :
              /\ e.by = w /\ log' = Append(log, e)
              /\ UNCHANGED <<held, spent, overtaken>>
<1>1. ASSUME NEW w \in Identity, NEW kind \in Kind, Promise!Write(w, kind)
      PROVE  \E v \in {held} \cup overtaken, e \in Event :
               /\ e.by = v /\ log' = Append(log, e)
               /\ UNCHANGED <<held, spent, overtaken>>
  <2> DEFINE e == [seq |-> Len(log) + 1, kind |-> kind, by |-> w]
  <2>1. Len(log) + 1 \in Nat
    BY DEF IInv, TypeOK
  <2>2. e \in Event /\ e.by = w
    BY <2>1
  <2>3. /\ w \in {held} \cup overtaken /\ log' = Append(log, e)
        /\ UNCHANGED <<held, spent, overtaken>>
    BY <1>1 DEF Promise!Write, Promise!MayWrite
  <2> HIDE DEF e
  <2> QED
    BY <2>2, <2>3
<1> QED
  BY <1>1 DEF Promise!LogNext, Promise!Return, Promise!LeaseMoves, Promise!eventVars

LEMMA AppendedLine ==
  ASSUME NEW s \in Seq(Event), NEW e \in Event
  PROVE  /\ DOMAIN Append(s, e) = 1 .. Len(s) + 1
         /\ DOMAIN s = 1 .. Len(s) /\ Len(s) \in Nat
         /\ \A i \in 1 .. Len(s) : Append(s, e)[i] = s[i]
         /\ Append(s, e)[Len(s) + 1] = e
  OBVIOUS

\* What a reader has found stays where it was found, whoever writes, crashes or
\* is overtaken later: no reader of the log ever has to take anything back.
THEOREM FoundStands ==
  ASSUME NEW i, NEW e
  PROVE  Spec => [](Found(i, e) => []Found(i, e))
<1>1. IInv /\ Found(i, e) /\ [Promise!LogNext]_(Promise!eventVars) => Found(i, e)'
  <2> SUFFICES ASSUME IInv, Found(i, e), [Promise!LogNext]_(Promise!eventVars)
               PROVE  Found(i, e)'
    OBVIOUS
  <2>1. CASE UNCHANGED log
    BY <2>1 DEF Found
  <2>2. ASSUME NEW d \in Event, log' = Append(log, d)
        PROVE  Found(i, e)'
    <3>1. log \in Seq(Event)
      BY DEF IInv, TypeOK
    <3>2. /\ DOMAIN log' = 1 .. Len(log) + 1 /\ DOMAIN log = 1 .. Len(log)
          /\ Len(log) \in Nat
          /\ \A j \in 1 .. Len(log) : log'[j] = log[j]
      BY <2>2, <3>1, AppendedLine
    <3>3. i \in 1 .. Len(log) /\ log[i] = e
      BY <3>2 DEF Found
    <3>4. i \in DOMAIN log'
      BY <3>2, <3>3
    <3> QED
      BY <3>2, <3>3, <3>4 DEF Found
  <2> QED
    BY <2>1, <2>2, LogGrows
<1> QED
  BY <1>1, Invariance, ImplementsLogHolds, PTL DEF ImplementsLog, Promise!LogSpec

\* An owner that has released its lease never writes again: of the appends it had
\* begun, none is on its way.
THEOREM ReleasedSilent ==
  ASSUME NEW w \in Identity, NEW n \in Nat
  PROVE  Spec => [](Silent(w, n) => []Silent(w, n))
<1>1. Promise!LogInit => HolderFresh
  BY DEF Promise!LogInit, Promise!RegisterInit, HolderFresh
<1>2. IInv /\ HolderFresh /\ [Promise!LogNext]_(Promise!eventVars) => HolderFresh'
  <2> SUFFICES ASSUME IInv, HolderFresh, [Promise!LogNext]_(Promise!eventVars)
               PROVE  held' \notin spent'
    BY DEF HolderFresh
  <2>1. held # Nobody => held \in Identity
    BY DEF IInv, TypeOK
  <2>2. Nobody \notin spent
    BY NobodyAssumption DEF IInv, TypeOK
  <2>3. CASE UNCHANGED <<held, spent>>
    BY <2>3 DEF HolderFresh
  <2>4. CASE Promise!Grant \/ Promise!Drop \/ Promise!Supersede
    BY <2>1, <2>2, <2>4, NobodyAssumption DEF Promise!Grant, Promise!Drop,
       Promise!Supersede
  <2> QED
    BY <2>3, <2>4 DEF Promise!LogNext, Promise!Write, Promise!Return,
       Promise!LeaseMoves, Promise!eventVars
<1>3. IInv /\ HolderFresh /\ Silent(w, n) /\ [Promise!LogNext]_(Promise!eventVars)
        => Silent(w, n)'
  <2> SUFFICES ASSUME IInv, HolderFresh, Silent(w, n),
                      [Promise!LogNext]_(Promise!eventVars)
               PROVE  Silent(w, n)'
    OBVIOUS
  <2>1. w \in spent' \ overtaken'
    BY DEF HolderFresh, Silent, Promise!LogNext, Promise!Write, Promise!Return,
       Promise!LeaseMoves, Promise!Grant, Promise!Drop, Promise!Supersede,
       Promise!eventVars
  <2>2. CASE UNCHANGED log
    BY <2>1, <2>2 DEF Silent
  <2>3. ASSUME NEW v \in {held} \cup overtaken, NEW e \in Event,
               e.by = v, log' = Append(log, e)
        PROVE  Silent(w, n)'
    <3>1. e.by # w
      BY <2>3 DEF HolderFresh, Silent
    <3>2. \A i \in DOMAIN log' : log'[i].by = w => i \in DOMAIN log /\ log'[i] = log[i]
      <4>1. log \in Seq(Event)
        BY DEF IInv, TypeOK
      <4>2. /\ DOMAIN log' = 1 .. Len(log) + 1 /\ DOMAIN log = 1 .. Len(log)
            /\ Len(log) \in Nat
            /\ \A j \in 1 .. Len(log) : log'[j] = log[j]
            /\ log'[Len(log) + 1] = e
        BY <2>3, <4>1, AppendedLine
      <4>3. \A i \in 1 .. Len(log) + 1 : i \in 1 .. Len(log) \/ i = Len(log) + 1
        BY <4>2
      <4> QED
        BY <3>1, <4>2, <4>3
    <3> QED
      BY <2>1, <3>2 DEF Silent
  <2> QED
    BY <2>2, <2>3, LogGrows
<1> QED
  BY <1>1, <1>2, <1>3, Invariance, ImplementsLogHolds, PTL
  DEF ImplementsLog, Promise!LogSpec
=============================================================================
