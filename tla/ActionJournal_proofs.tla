------------------------ MODULE ActionJournal_proofs ------------------------
(***************************************************************************)
(* For every plan and any number of cycles: an action whose outcome nobody *)
(* knows ends the dispatching, and the results that a cycle verifies are   *)
(* those of its own probe, which was alone at work; a step that its probe  *)
(* leaves behind without a commit refuses the cycle for good.              *)
(***************************************************************************)
EXTENDS ActionJournal, TLAPS

MidStep == {"skipping", "dispatch", "commit"}

\* The step that a probe in the middle of one works on.
AtWork(c) == IF pc[c] = "commit" THEN Len(record[c]) ELSE At(c)

\* The records of a probe never go beyond the plan.
Progress ==
    \A c \in Cycle :
        /\ Len(record[c]) <= MaxStep
        /\ pc[c] \in MidStep => AtWork(c) \in Step

Done(c, s) == {i \in DOMAIN effects : effects[i] = [by |-> c, step |-> s]}

\* What the records say was done, and nothing beyond them.
PerformedBy(c) ==
    /\ \A i \in DOMAIN effects :
         effects[i].by = c => effects[i].step <= Len(record[c])
    /\ \A s \in 1 .. Len(record[c]) :
         /\ record[c][s] = "passed" => \E i \in Done(c, s) : Done(c, s) = {i}
         /\ record[c][s] = "skipped" => Done(c, s) = {}

Performed == \A c \in Cycle : PerformedBy(c)

NextBound == sound => \A c \in Cycle : next[c] <= Len(journal) + 1

\* A probe in the middle of a step appended its intent last.
Own ==
    sound => \A c \in Cycle :
        pc[c] \in MidStep => /\ next[c] - 1 \in Intents
                             /\ journal[next[c] - 1].ticket = c
                             /\ journal[next[c] - 1].step = AtWork(c)

\* While it may be dispatched, an intent is open; only what is idempotent is
\* ever abandoned.
Fresh ==
    sound => \A c \in Cycle :
        pc[c] = "dispatch" /\ At(c) \notin Idempotent => next[c] - 1 \in Unresolved

Abandoned ==
    /\ \A c \in Cycle : abandon[c] \subseteq Intents
    /\ \A j \in Commits :
         journal[j].status = "abandoned_safe" => journal[j].step \in Idempotent

\* A commit comes after the intent it closes.
Backward == \A j \in Commits : journal[j].intent < j

\* The other commits tell what their probes have behind them.
Committed ==
    \A c \in Cycle : \A j \in CurrentCommits(c) :
        /\ journal[j].step <= Len(record[c])
        /\ journal[j].status = record[c][journal[j].step]
        /\ pc[c] = "commit" => journal[j].step < Len(record[c])

\* No action without an intent.
Intended ==
    sound => \A i \in DOMAIN effects :
        \E k \in Intents : /\ journal[k].ticket = effects[i].by
                           /\ journal[k].step = effects[i].step

\* What a probe has to close may be closed.  A probe that found something else
\* never acts.
Cleared(c) == \A i \in abandon[c] : journal[i].step \in Idempotent

Settled ==
    \A c \in Cycle :
        /\ pc[c] \in {"idle", "planned", "spawned", "ticketed", "abandon"} => Len(record[c]) = 0
        /\ pc[c] \in MidStep \cup {"ready"} \/ Len(record[c]) > 0 => abandon[c] = {}

\* What was done before a probe opened the journal is known or idempotent.
Known ==
    \A c \in Cycle : \A i \in DOMAIN effects :
        Cleared(c) /\ i <= opened[c] /\ effects[i].step \notin Idempotent =>
            \E k \in Commits : /\ journal[k].ticket = effects[i].by
                               /\ journal[k].step = effects[i].step
                               /\ journal[k].status # "abandoned_safe"

OpenedBound == \A c \in Cycle : opened[c] <= Len(effects)

Intruder(c, i) ==
    /\ i \in DOMAIN effects /\ opened[c] < i
    /\ effects[i].by # c
    /\ effects[i].step \notin Idempotent

\* Somebody else who acts, or is about to, has appended since: whatever the
\* probe appends next breaks the chain.
Overtaken ==
    sound => \A c \in Cycle :
        /\ \A i \in DOMAIN effects : Cleared(c) /\ Intruder(c, i) => next[c] <= Len(journal)
        /\ \A d \in Cycle :
             Cleared(c) /\ d # c /\ pc[d] = "dispatch" /\ At(d) \notin Idempotent
               => next[c] <= Len(journal)

\* What the probe does after that it can no longer commit.
Doomed ==
    sound => \A c \in Cycle : \A i, j \in DOMAIN effects :
        Cleared(c) /\ Intruder(c, i) /\ i < j /\ effects[j].by = c =>
            \E s \in 1 .. Len(record[c]) :
                \A k \in CurrentCommits(c) : journal[k].step # s

JournalInv == NextBound /\ Own /\ Fresh /\ Abandoned /\ Backward /\ Committed
EffectInv == Intended /\ Known /\ OpenedBound /\ Overtaken /\ Doomed

IInv == TypeOK /\ Progress /\ Settled /\ Performed /\ JournalInv /\ EffectInv

-----------------------------------------------------------------------------
(* Types, and what the records say.                                        *)

USE PlanAssumption DEF Cycle, Step, MidStep

\* What an action may do to the record of a probe.
Reports(c) ==
    \/ record'[c] = record[c]
    \/ \E status \in Status : record'[c] = Append(record[c], status)

LEMMA RecordGrows ==
    ASSUME TypeOK, NEW c \in Cycle, Reports(c)
    PROVE  /\ Len(record[c]) \in Nat /\ Len(record'[c]) \in Nat
           /\ Len(record[c]) <= Len(record'[c])
           /\ \A s \in 1 .. Len(record[c]) : record'[c][s] = record[c][s]
<1>1. record[c] \in Seq(Status)
  BY DEF TypeOK
<1>2. CASE record'[c] = record[c]
  BY <1>1, <1>2
<1>3. ASSUME NEW status \in Status, record'[c] = Append(record[c], status)
      PROVE  /\ Len(record[c]) \in Nat /\ Len(record'[c]) \in Nat
             /\ Len(record[c]) <= Len(record'[c])
             /\ \A s \in 1 .. Len(record[c]) : record'[c][s] = record[c][s]
  BY <1>1, <1>3
<1> QED
  BY <1>2, <1>3 DEF Reports

LEMMA Advances ==
    ASSUME TypeOK, NEW c \in Cycle, Advance(c)
    PROVE  /\ next' \in [Cycle -> Nat]
           /\ next[c] \in Nat /\ next'[c] = next[c] + 1
           /\ \A d \in Cycle \ {c} : next'[d] = next[d]
<1>1. next \in [Cycle -> Nat]
  BY DEF TypeOK
<1> QED
  BY <1>1 DEF Advance

LEMMA Goes ==
    ASSUME TypeOK, NEW c \in Cycle, NEW place \in Place, Goto(c, place)
    PROVE  /\ pc' \in [Cycle -> Place]
           /\ pc'[c] = place
           /\ \A d \in Cycle \ {c} : pc'[d] = pc[d]
<1>1. pc \in [Cycle -> Place]
  BY DEF TypeOK
<1> QED
  BY <1>1 DEF Goto

LEMMA WriteCases ==
    ASSUME TypeOK, NEW c \in Cycle, NEW e, Write(c, e)
    PROVE  \/ ~sound' /\ journal' = journal
           \/ /\ sound /\ sound' /\ next[c] = Len(journal) + 1
              /\ journal' = Append(journal, e)
  BY DEF Write, TypeOK

LEMMA Events ==
    ASSUME TypeOK
    PROVE  /\ Len(journal) \in Nat
           /\ DOMAIN journal = 1 .. Len(journal)
           /\ \A i \in DOMAIN journal :
                /\ journal[i] \in Event
                /\ journal[i].ticket \in Cycle /\ journal[i].step \in Step
                /\ journal[i].intent \in Nat
<1>1. Len(journal) \in Nat /\ DOMAIN journal = 1 .. Len(journal)
  BY DEF TypeOK
<1>2. \A i \in DOMAIN journal : journal[i] \in Event
  BY DEF TypeOK
<1> QED
  BY <1>1, <1>2 DEF Event

LEMMA JournalGrows ==
    ASSUME TypeOK, NEW e \in Event, journal' = Append(journal, e)
    PROVE  /\ journal' \in Seq(Event)
           /\ Len(journal) \in Nat /\ Len(journal') = Len(journal) + 1
           /\ DOMAIN journal = 1 .. Len(journal)
           /\ DOMAIN journal' = 1 .. Len(journal) + 1
           /\ \A i \in DOMAIN journal : journal'[i] = journal[i]
           /\ journal'[Len(journal) + 1] = e
<1>1. journal \in Seq(Event)
  BY DEF TypeOK
<1> QED
  BY <1>1

\* What a reader finds after an event was appended.
LEMMA Appended ==
    ASSUME TypeOK, Backward, NEW e \in Event, journal' = Append(journal, e)
    PROVE  /\ Intents' = IF e.intent = 0 THEN Intents \cup {Len(journal) + 1} ELSE Intents
           /\ Commits' = IF e.intent = 0 THEN Commits ELSE Commits \cup {Len(journal) + 1}
           /\ \A d \in Cycle : CurrentCommits(d)' =
                IF e.intent # 0 /\ e.ticket = d /\ e.status # "abandoned_safe"
                THEN CurrentCommits(d) \cup {Len(journal) + 1} ELSE CurrentCommits(d)
           /\ \A i \in Unresolved : i # e.intent => i \in Unresolved'
           /\ e.intent = 0 => Len(journal) + 1 \in Unresolved'
<1> DEFINE n == Len(journal) + 1
<1>1. /\ n \in Nat /\ DOMAIN journal = 1 .. Len(journal) /\ DOMAIN journal' = 1 .. n
      /\ DOMAIN journal' = DOMAIN journal \cup {n} /\ n \notin DOMAIN journal
      /\ \A i \in DOMAIN journal : journal'[i] = journal[i]
      /\ journal'[n] = e
  BY JournalGrows
<1> HIDE DEF n
<1>2. Intents' = IF e.intent = 0 THEN Intents \cup {n} ELSE Intents
  BY <1>1 DEF Intents
<1>3. Commits' = IF e.intent = 0 THEN Commits ELSE Commits \cup {n}
  BY <1>1, <1>2 DEF Commits, Intents
<1>4. \A d \in Cycle : CurrentCommits(d)' =
        IF e.intent # 0 /\ e.ticket = d /\ e.status # "abandoned_safe"
        THEN CurrentCommits(d) \cup {n} ELSE CurrentCommits(d)
  <2>1. Commits \subseteq DOMAIN journal
    BY DEF Commits
  <2> QED
    BY <2>1, <1>1, <1>3 DEF CurrentCommits
<1>5. ASSUME NEW i \in Unresolved, i # e.intent PROVE i \in Unresolved'
  <2>1. i \in Intents /\ \A j \in Commits : j \in DOMAIN journal /\ journal[j].intent # i
    BY DEF Unresolved, Commits
  <2> QED
    BY <2>1, <1>1, <1>2, <1>3, <1>5 DEF Unresolved
<1>6. ASSUME e.intent = 0 PROVE n \in Unresolved'
  <2>1. \A j \in Commits : /\ j \in 1 .. Len(journal) /\ journal[j].intent < j
                            /\ journal'[j] = journal[j]
    BY <1>1 DEF Backward, Commits
  <2>2. \A j \in Commits' : journal'[j].intent # n
    <3> SUFFICES ASSUME NEW j \in Commits PROVE journal[j].intent # n
      BY <2>1, <1>3, <1>6
    <3>1. Len(journal) \in Nat /\ journal[j].intent \in Nat
      BY <2>1, Events
    <3> QED
      BY <2>1, <3>1 DEF n
  <2> QED
    BY <2>2, <1>2, <1>6 DEF Unresolved
<1> QED
  BY <1>2, <1>3, <1>4, <1>5, <1>6 DEF n

\* The events that the actions write.
LEMMA IntentEvent ==
    ASSUME TypeOK, NEW c \in Cycle, At(c) \in Step
    PROVE  PendingIntent(c) \in Event
  BY DEF PendingIntent, Event
LEMMA CommitFacts ==
    ASSUME IInv, NEW c \in Cycle, Commit(c)
    PROVE  \E status \in Status :
             /\ Write(c, [ticket |-> c, step |-> AtWork(c), intent |-> next[c] - 1,
                          status |-> status])
             /\ Advance(c) /\ Goto(c, "ready")
             /\ UNCHANGED <<results, orphans, abandon, stop, history>>
             /\ record'[c][AtWork(c)] = status
             /\ Len(record'[c]) = AtWork(c)
             /\ AtWork(c) \in Step
             /\ pc[c] \in {"skipping", "commit"}
             /\ \/ pc[c] = "commit" /\ record' = record
                \/ pc[c] = "skipping" /\ status = "skipped" /\ Report(c, "skipped")
<1>0. record[c] \in Seq(Status) /\ AtWork(c) \in Step
  BY DEF IInv, TypeOK, Progress, Commit
<1>1. CASE pc[c] = "skipping" /\ Report(c, "skipped") /\ Close(c)
  <2>1. record'[c] = Append(record[c], "skipped")
    BY <1>1 DEF Report, IInv, TypeOK
  <2>2. AtWork(c) = Len(record[c]) + 1
    BY <1>1 DEF AtWork, At
  <2>3. "skipped" \in Status /\ Len(record'[c]) = AtWork(c) /\ record'[c][AtWork(c)] = "skipped"
    BY <1>0, <2>1, <2>2 DEF Status
  <2> QED
    BY <1>0, <1>1, <2>3 DEF Close
<1>2. CASE pc[c] = "commit" /\ UNCHANGED record /\ Close(c)
  <2>1. AtWork(c) = Len(record[c])
    BY <1>2 DEF AtWork
  <2>2. record[c][AtWork(c)] \in Status
    BY <1>0, <2>1
  <2> QED
    BY <1>0, <1>2, <2>1, <2>2 DEF Close
<1> QED
  BY <1>1, <1>2 DEF Commit

LEMMA DispatchFacts ==
    ASSUME IInv, NEW c \in Cycle, Dispatch(c)
    PROVE  /\ pc[c] = "dispatch" /\ Goto(c, "commit")
           /\ \E status \in {"passed", "failed"} : Report(c, status)
           /\ \/ effects' = Append(effects, [by |-> c, step |-> At(c)])
              \/ Report(c, "failed") /\ effects' = effects
           /\ stop' \in [Cycle -> BOOLEAN]
           /\ UNCHANGED <<journal, sound, results, orphans, next, abandon, opened>>
<1>1. record[c] \in Seq(Status) /\ At(c) = Len(record[c]) + 1
  BY DEF IInv, TypeOK, At
<1>2. Report(c, "passed") => record'[c][At(c)] = "passed"
  <2>1. Report(c, "passed") => record'[c] = Append(record[c], "passed")
    BY DEF Report, IInv, TypeOK
  <2> QED
    BY <2>1, <1>1 DEF Status
<1>3. stop' \in [Cycle -> BOOLEAN]
  BY DEF Dispatch, Failure, IInv, TypeOK
<1> QED
  BY <1>2, <1>3 DEF Dispatch, Failure

\* The steps that leave the chain, the numbering and the history alone and
\* leave no probe in the middle of a step.
Aside(c) ==
    \/ Plan(c) \/ Preflight(c) \/ Verify(c) \/ CycleKilled(c)
    \/ ConsumeTicket(c) \/ OpenRefused(c) \/ Opened(c) \/ Finish(c) \/ ProbeDies(c)

LEMMA AsideFacts ==
    ASSUME IInv, NEW c \in Cycle, Aside(c)
    PROVE  /\ UNCHANGED <<journal, next, abandon, record, stop, effects, opened>>
           /\ sound' \in {sound, FALSE}
           /\ orphans' \subseteq Cycle
           /\ pc' \in {pc} \cup {[pc EXCEPT ![c] = place] : place \in Place \ MidStep}
           /\ results' \in {results} \cup {[of |-> c, statuses |-> record[c]]}
           /\ results' # results => pc[c] = "ready" /\ At(c) \notin Step
<1> USE DEF Goto, history, probeVars, Place, Running, Writing
<1>1. CASE Plan(c) \/ Preflight(c) \/ Verify(c) \/ ConsumeTicket(c) \/ OpenRefused(c) \/ Opened(c)
  BY <1>1 DEF Plan, Preflight, Verify, ConsumeTicket, OpenRefused, Opened, IInv, TypeOK
<1>2. CASE CycleKilled(c)
  BY <1>2 DEF CycleKilled, IInv, TypeOK
<1>3. CASE Finish(c)
  BY <1>3 DEF Finish, IInv, TypeOK
<1>4. CASE ProbeDies(c)
  BY <1>4 DEF ProbeDies, IInv, TypeOK
<1> QED
  BY <1>1, <1>2, <1>3, <1>4 DEF Aside
\* A step that is tried in vain, and whose intent may have been written.
LEMMA FailureFacts ==
    ASSUME IInv, NEW c \in Cycle, Unresolvable(c) \/ IntentFails(c)
    PROVE  /\ pc[c] = "ready" /\ At(c) \in Step
           /\ \E status \in {"failed", "skipped"} : Report(c, status)
           /\ stop' \in [Cycle -> BOOLEAN]
           /\ UNCHANGED <<results, pc, orphans, next, abandon, effects, opened>>
           /\ \/ Write(c, PendingIntent(c))
              \/ journal' = journal /\ sound' \in {sound, FALSE}
<1>1. stop' \in [Cycle -> BOOLEAN]
  BY DEF Unresolvable, IntentFails, Failure, IInv, TypeOK
<1> QED
  BY <1>1 DEF Unresolvable, IntentFails, Failure, history

LEMMA OtherRecords ==
    ASSUME TypeOK, NEW c \in Cycle, NEW status \in Status, Report(c, status)
    PROVE  /\ record' \in [Cycle -> Seq(Status)]
           /\ record'[c] = Append(record[c], status)
           /\ Len(record'[c]) = At(c)
           /\ record'[c][At(c)] = status
           /\ \A d \in Cycle \ {c} : record'[d] = record[d]
           /\ \A d \in Cycle : Reports(d)
<1>1. record \in [Cycle -> Seq(Status)]
  BY DEF TypeOK
<1>2. record' \in [Cycle -> Seq(Status)] /\ record'[c] = Append(record[c], status)
      /\ \A d \in Cycle \ {c} : record'[d] = record[d]
  BY <1>1 DEF Report
<1>3. record[c] \in Seq(Status)
  BY <1>1
<1> QED
  BY <1>2, <1>3 DEF Reports, At

LEMMA WriteTypes ==
    ASSUME TypeOK, NEW c \in Cycle, NEW e, sound => e \in Event, Write(c, e)
    PROVE  journal' \in Seq(Event) /\ sound' \in BOOLEAN
<1>1. journal \in Seq(Event) /\ sound \in BOOLEAN
  BY DEF TypeOK
<1>2. CASE journal' = journal
  BY <1>1, <1>2 DEF Write
<1>3. CASE sound /\ sound' = sound /\ journal' = Append(journal, e)
  BY <1>1, <1>3
<1> QED
  BY <1>2, <1>3 DEF Write

LEMMA InitIInv == Init => IInv
<1> SUFFICES ASSUME Init PROVE IInv
  OBVIOUS
<1>1. DOMAIN journal = {} /\ DOMAIN effects = {} /\ Len(journal) = 0 /\ Len(effects) = 0
  BY DEF Init
<1>2. \A c \in Cycle : record[c] = <<>> /\ Len(record[c]) = 0 /\ pc[c] = "idle"
  BY DEF Init
<1>3. TypeOK
  BY DEF Init, TypeOK, Place
<1>4. Progress /\ Performed
  BY <1>1, <1>2 DEF Progress, Performed, PerformedBy
<1>4a. Settled
  BY <1>2 DEF Settled
<1>5. JournalInv
  BY <1>1, <1>2 DEF Init, JournalInv, NextBound, Own, Fresh, Abandoned, Backward, Committed,
     CurrentCommits, Commits
<1>6. EffectInv
  BY <1>1, <1>2 DEF Init, EffectInv, Intended, Known, OpenedBound, Overtaken, Doomed, Intruder
<1> QED
  BY <1>3, <1>4, <1>4a, <1>5, <1>6 DEF IInv

LEMMA StepTypes ==
    ASSUME IInv, NEW c \in Cycle,
           \/ Aside(c) \/ Open(c) \/ Abandon(c) \/ Intent(c)
           \/ Unresolvable(c) \/ IntentFails(c) \/ Dispatch(c) \/ Commit(c)
    PROVE  TypeOK' /\ Progress'
<1> USE DEF Place, Running, Writing
<1>0. TypeOK /\ Progress
  BY DEF IInv
<1>1. CASE Aside(c)
  <2>1. /\ UNCHANGED <<journal, next, abandon, record, stop, effects, opened>>
        /\ sound' \in {sound, FALSE}
        /\ orphans' \subseteq Cycle
        /\ pc' \in {pc} \cup {[pc EXCEPT ![c] = place] : place \in Place \ MidStep}
    BY <1>1, AsideFacts
  <2>2. results' \in [of : Cycle, statuses : [Step -> Status]]
                       \cup {[of |-> 0, statuses |-> <<>>]}
    <3>1. CASE results' = results
      BY <3>1, <1>0 DEF TypeOK
    <3>2. CASE results' # results
      <4>1. /\ results' = [of |-> c, statuses |-> record[c]]
            /\ At(c) \notin Step
        BY <1>1, <3>2, AsideFacts
      <4>2. record[c] \in Seq(Status) /\ Len(record[c]) <= MaxStep
        BY <1>0 DEF TypeOK, Progress
      <4>3. Len(record[c]) = MaxStep
        BY <4>1, <4>2 DEF At
      <4>4. record[c] \in [Step -> Status]
        BY <4>2, <4>3
      <4> QED
        BY <4>1, <4>4
    <3> QED
      BY <3>1, <3>2
  <2>3. pc' \in [Cycle -> Place] /\ \A d \in Cycle : pc'[d] = pc[d] \/ pc'[d] \notin MidStep
    BY <2>1, <1>0 DEF TypeOK
  <2>4. TypeOK'
    BY <2>1, <2>2, <2>3, <1>0 DEF TypeOK
  <2>5. Progress'
    BY <2>1, <2>3, <1>0 DEF Progress, AtWork, At
  <2> QED
    BY <2>4, <2>5
<1>2. CASE Open(c)
  <2>1. Len(journal) \in Nat /\ Unresolved \subseteq Nat /\ Len(effects) \in Nat
    <3>1. Len(journal) \in Nat /\ Unresolved \subseteq 1 .. Len(journal)
      BY <1>0, Events DEF Unresolved, Intents
    <3>2. Len(effects) \in Nat
      BY <1>0 DEF TypeOK
    <3> QED
      BY <3>1, <3>2
  <2>2. TypeOK'
    <3>1. pc' \in [Cycle -> Place]
      BY <1>0, <1>2, Goes DEF Open
    <3>2. next' \in [Cycle -> Nat] /\ opened' \in [Cycle -> Nat]
      BY <1>0, <1>2, <2>1 DEF Open, TypeOK
    <3>3. abandon' \in [Cycle -> SUBSET Nat]
      BY <1>0, <1>2, <2>1 DEF Open, TypeOK
    <3> QED
      BY <1>0, <1>2, <3>1, <3>2, <3>3 DEF Open, TypeOK
  <2>3. Progress'
    BY <1>0, <1>2 DEF Open, Goto, Progress, AtWork, At, TypeOK
  <2> QED
    BY <2>2, <2>3
<1>3. CASE Abandon(c)
  <2>1. PICK i \in abandon[c] :
            /\ Write(c, [journal[i] EXCEPT !.intent = i, !.status = "abandoned_safe"])
            /\ abandon' = [abandon EXCEPT ![c] = @ \ {i}]
    BY <1>3 DEF Abandon, Oldest
  <2>2. i \in DOMAIN journal /\ i \in Nat
    BY <1>0 DEF IInv, JournalInv, Abandoned, Intents, TypeOK
  <2>3. [journal[i] EXCEPT !.intent = i, !.status = "abandoned_safe"] \in Event
    BY <1>0, <2>2, Events DEF Event
  <2>4. journal' \in Seq(Event) /\ sound' \in BOOLEAN
    BY <1>0, <2>1, <2>3, WriteTypes
  <2>5. TypeOK'
    <3>1. next' \in [Cycle -> Nat]
      BY <1>0, <1>3, Advances DEF Abandon
    <3>2. abandon' \in [Cycle -> SUBSET Nat]
      BY <1>0, <2>1 DEF TypeOK
    <3> QED
      BY <1>0, <1>3, <2>4, <3>1, <3>2 DEF Abandon, TypeOK, history
  <2>6. Progress'
    BY <1>0, <1>3 DEF Abandon, Progress, AtWork, At, history
  <2> QED
    BY <2>5, <2>6
<1>4. CASE Intent(c)
  <2>1. journal' \in Seq(Event) /\ sound' \in BOOLEAN
    BY <1>0, <1>4, IntentEvent, WriteTypes DEF Intent
  <2>2. TypeOK'
    <3>1. next' \in [Cycle -> Nat]
      BY <1>0, <1>4, Advances DEF Intent
    <3>2. pc' \in [Cycle -> Place]
      BY <1>0, <1>4, Goes DEF Intent
    <3> QED
      BY <1>0, <1>4, <2>1, <3>1, <3>2 DEF Intent, TypeOK, history
  <2>3. Progress'
    BY <1>0, <1>4 DEF Intent, Goto, Progress, AtWork, At, TypeOK
  <2> QED
    BY <2>2, <2>3
<1>5. CASE Unresolvable(c) \/ IntentFails(c)
  <2>1. journal' \in Seq(Event) /\ sound' \in BOOLEAN
    BY <1>0, <1>5, FailureFacts, IntentEvent, WriteTypes DEF TypeOK
  <2>2. PICK status \in Status : Report(c, status)
    BY <1>5, FailureFacts DEF Status
  <2>3. TypeOK'
    <3>1. /\ stop' \in [Cycle -> BOOLEAN]
          /\ UNCHANGED <<results, pc, orphans, next, abandon, effects, opened>>
      BY <1>5, FailureFacts
    <3>2. record' \in [Cycle -> Seq(Status)]
      BY <1>0, <2>2, OtherRecords
    <3> QED
      BY <1>0, <2>1, <3>1, <3>2 DEF TypeOK
  <2>4. /\ Len(record'[c]) = At(c) /\ At(c) \in Step
        /\ \A d \in Cycle \ {c} : record'[d] = record[d]
        /\ pc' = pc /\ pc[c] = "ready"
    BY <1>0, <1>5, <2>2, FailureFacts, OtherRecords
  <2>5. Progress'
    <3>1. Len(record'[c]) <= MaxStep /\ pc'[c] \notin MidStep
      BY <2>4
    <3> QED
      BY <1>0, <2>4, <3>1 DEF Progress, AtWork, At
  <2> QED
    BY <2>3, <2>5
<1>6. CASE Dispatch(c)
  <2>1. PICK status \in Status : Report(c, status)
    BY <1>6, DispatchFacts DEF Status
  <2>2. At(c) \in Step
    BY <1>0, <1>6, DispatchFacts DEF Progress, AtWork
  <2>3. effects' \in Seq(Effect)
    <3>1. effects \in Seq(Effect) /\ [by |-> c, step |-> At(c)] \in Effect
      BY <1>0, <2>2 DEF TypeOK, Effect
    <3>2. effects' = Append(effects, [by |-> c, step |-> At(c)]) \/ effects' = effects
      BY <1>6, DispatchFacts
    <3>3. CASE effects' = effects
      BY <3>1, <3>3
    <3>4. CASE effects' = Append(effects, [by |-> c, step |-> At(c)])
      BY <3>1, <3>4
    <3> QED
      BY <3>2, <3>3, <3>4
  <2>4. TypeOK'
    <3>1. record' \in [Cycle -> Seq(Status)]
      BY <1>0, <2>1, OtherRecords
    <3>2. pc' \in [Cycle -> Place]
      BY <1>0, <1>6, DispatchFacts, Goes
    <3>3. stop' \in [Cycle -> BOOLEAN] /\ UNCHANGED <<journal, sound, results, orphans, next, abandon, opened>>
      BY <1>6, DispatchFacts
    <3> QED
      BY <1>0, <2>3, <3>1, <3>2, <3>3 DEF TypeOK
  <2>5. /\ Len(record'[c]) = At(c)
        /\ \A d \in Cycle \ {c} : record'[d] = record[d]
        /\ pc'[c] = "commit"
        /\ \A d \in Cycle \ {c} : pc'[d] = pc[d]
    BY <1>0, <1>6, <2>1, DispatchFacts, OtherRecords, Goes
  <2>6. Progress'
    BY <1>0, <2>2, <2>5 DEF Progress, AtWork, At
  <2> QED
    BY <2>4, <2>6
<1>7. CASE Commit(c)
  <2> DEFINE Event1(status) == [ticket |-> c, step |-> AtWork(c), intent |-> next[c] - 1,
                                status |-> status]
  <2>1. PICK status \in Status :
             /\ Write(c, Event1(status)) /\ Advance(c) /\ Goto(c, "ready")
             /\ UNCHANGED <<results, orphans, abandon, stop, history>>
             /\ Len(record'[c]) = AtWork(c) /\ AtWork(c) \in Step
             /\ pc[c] \in {"skipping", "commit"}
             /\ \/ record' = record
                \/ status = "skipped" /\ Report(c, "skipped")
    BY <1>7, CommitFacts
  <2>2. sound => Event1(status) \in Event
    <3> SUFFICES ASSUME sound PROVE Event1(status) \in Event
      OBVIOUS
    <3>1. next[c] - 1 \in Intents
      BY <2>1 DEF IInv, JournalInv, Own
    <3>2. next[c] - 1 \in Nat
      BY <1>0, <3>1, Events DEF Intents
    <3> QED
      BY <2>1, <3>2 DEF Event
  <2>3. journal' \in Seq(Event) /\ sound' \in BOOLEAN
    BY <1>0, <2>1, <2>2, WriteTypes
  <2>4. /\ record' \in [Cycle -> Seq(Status)]
        /\ \A d \in Cycle \ {c} : record'[d] = record[d]
    BY <1>0, <2>1, OtherRecords DEF TypeOK
  <2>5. /\ next' \in [Cycle -> Nat] /\ pc' \in [Cycle -> Place]
        /\ pc'[c] = "ready"
        /\ \A d \in Cycle \ {c} : pc'[d] = pc[d]
    BY <1>0, <2>1, Advances, Goes
  <2>6. TypeOK'
    BY <1>0, <2>1, <2>3, <2>4, <2>5 DEF TypeOK, history
  <2>7. Progress'
    <3>1. Len(record'[c]) <= MaxStep /\ pc'[c] \notin MidStep
      BY <2>1, <2>5
    <3>2. \A d \in Cycle \ {c} : record'[d] = record[d] /\ pc'[d] = pc[d]
      BY <2>4, <2>5
    <3> QED
      BY <1>0, <3>1, <3>2 DEF Progress, AtWork, At
  <2> QED
    BY <2>6, <2>7
<1> QED
  BY <1>1, <1>2, <1>3, <1>4, <1>5, <1>6, <1>7
LEMMA Effects ==
    ASSUME TypeOK
    PROVE  /\ Len(effects) \in Nat
           /\ DOMAIN effects = 1 .. Len(effects)
           /\ \A i \in DOMAIN effects : effects[i].by \in Cycle /\ effects[i].step \in Step
<1>1. Len(effects) \in Nat /\ DOMAIN effects = 1 .. Len(effects)
  BY DEF TypeOK
<1>2. \A i \in DOMAIN effects : effects[i] \in Effect
  BY DEF TypeOK
<1> QED
  BY <1>1, <1>2 DEF Effect

LEMMA EffectsGrow ==
    ASSUME TypeOK, NEW e, effects' = Append(effects, e)
    PROVE  /\ Len(effects') = Len(effects) + 1
           /\ DOMAIN effects' = DOMAIN effects \cup {Len(effects) + 1}
           /\ Len(effects) + 1 \notin DOMAIN effects
           /\ \A i \in DOMAIN effects : effects'[i] = effects[i]
           /\ effects'[Len(effects) + 1] = e
<1>1. effects \in Seq(Effect)
  BY DEF TypeOK
<1> QED
  BY <1>1

\* A step that was tried in vain, or skipped.
LEMMA NothingDone ==
    ASSUME TypeOK, Performed, NEW c \in Cycle, NEW status \in {"failed", "skipped"},
           Report(c, status), effects' = effects
    PROVE  Performed'
<1>1. /\ record'[c] = Append(record[c], status)
      /\ Len(record'[c]) = At(c) /\ record'[c][At(c)] = status
      /\ \A d \in Cycle \ {c} : record'[d] = record[d]
      /\ Len(record[c]) \in Nat /\ At(c) = Len(record[c]) + 1
      /\ \A s \in 1 .. Len(record[c]) : record'[c][s] = record[c][s]
  BY OtherRecords, RecordGrows DEF Status, At
<1>2. \A d, s : Done(d, s)' = Done(d, s)
  BY DEF Done
<1>3. Done(c, At(c)) = {}
  <2> SUFFICES ASSUME NEW i \in DOMAIN effects, effects[i] = [by |-> c, step |-> At(c)]
               PROVE  FALSE
    BY DEF Done
  <2>1. At(c) <= Len(record[c])
    BY DEF Performed, PerformedBy
  <2> QED
    BY <2>1, <1>1
<1>4. ASSUME NEW i \in DOMAIN effects, effects[i].by = c
      PROVE  effects[i].step <= Len(record'[c])
  <2>1. effects[i].step <= Len(record[c]) /\ effects[i].step \in Nat
    BY <1>4, Effects DEF Performed, PerformedBy
  <2> QED
    BY <2>1, <1>1
<1>5. ASSUME NEW s \in 1 .. Len(record'[c])
      PROVE  /\ record'[c][s] = "passed" => \E i \in Done(c, s) : Done(c, s) = {i}
             /\ record'[c][s] = "skipped" => Done(c, s) = {}
  <2>1. CASE s = At(c)
    BY <2>1, <1>1, <1>3
  <2>2. CASE s \in 1 .. Len(record[c])
    BY <2>2, <1>1 DEF Performed, PerformedBy
  <2> QED
    BY <2>1, <2>2, <1>1
<1>6. ASSUME NEW d \in Cycle \ {c}
      PROVE  /\ \A i \in DOMAIN effects' :
                  effects'[i].by = d => effects'[i].step <= Len(record'[d])
             /\ \A s \in 1 .. Len(record'[d]) :
                  /\ record'[d][s] = "passed" => \E i \in Done(d, s) : Done(d, s) = {i}
                  /\ record'[d][s] = "skipped" => Done(d, s) = {}
  BY <1>1, <1>6 DEF Performed, PerformedBy
<1>7. PerformedBy(c)'
  BY <1>2, <1>4, <1>5 DEF PerformedBy
<1>8. \A d \in Cycle \ {c} : PerformedBy(d)'
  BY <1>2, <1>6 DEF PerformedBy
<1> QED
  BY <1>7, <1>8 DEF Performed

\* An action that was done.
LEMMA SomethingDone ==
    ASSUME TypeOK, Performed, NEW c \in Cycle, NEW status \in {"passed", "failed"},
           Report(c, status), NEW a \in Step, a = At(c),
           effects' = Append(effects, [by |-> c, step |-> a])
    PROVE  Performed'
<1> DEFINE n == Len(effects) + 1
<1>1. /\ record'[c] = Append(record[c], status)
      /\ Len(record'[c]) = a /\ record'[c][a] = status
      /\ \A d \in Cycle \ {c} : record'[d] = record[d]
      /\ Len(record[c]) \in Nat /\ a = Len(record[c]) + 1
      /\ \A s \in 1 .. Len(record[c]) : record'[c][s] = record[c][s]
  BY OtherRecords, RecordGrows DEF Status, At
<1>2. /\ DOMAIN effects' = DOMAIN effects \cup {n} /\ n \notin DOMAIN effects
      /\ \A i \in DOMAIN effects : effects'[i] = effects[i]
      /\ effects'[n] = [by |-> c, step |-> a]
  BY EffectsGrow
<1> HIDE DEF n
<1>3. \A d, s : d # c \/ s # a => Done(d, s)' = Done(d, s)
  <2> SUFFICES ASSUME NEW d, NEW s, d # c \/ s # a PROVE Done(d, s)' = Done(d, s)
    OBVIOUS
  <2>1. effects'[n] # [by |-> d, step |-> s]
    <3> SUFFICES ASSUME [by |-> c, step |-> a] = [by |-> d, step |-> s] PROVE FALSE
      BY <1>2
    <3>1. [by |-> c, step |-> a].by = d /\ [by |-> c, step |-> a].step = s
      OBVIOUS
    <3> QED
      BY <3>1
  <2> QED
    BY <1>2, <2>1 DEF Done
<1>4. Done(c, a)' = {n}
  <2>1. \A i \in DOMAIN effects : effects[i] # [by |-> c, step |-> a]
    <3> SUFFICES ASSUME NEW i \in DOMAIN effects, effects[i] = [by |-> c, step |-> a]
                 PROVE  FALSE
      OBVIOUS
    <3>1. a <= Len(record[c])
      BY DEF Performed, PerformedBy
    <3> QED
      BY <3>1, <1>1
  <2> QED
    BY <2>1, <1>2 DEF Done
<1>5. ASSUME NEW i \in DOMAIN effects', effects'[i].by = c
      PROVE  effects'[i].step <= Len(record'[c])
  <2>1. CASE i = n
    BY <2>1, <1>1, <1>2
  <2>2. CASE i \in DOMAIN effects
    <3>1. effects[i].step <= Len(record[c]) /\ effects[i].step \in Nat /\ effects'[i] = effects[i]
      BY <1>2, <1>5, <2>2, Effects DEF Performed, PerformedBy
    <3> QED
      BY <3>1, <1>1
  <2> QED
    BY <2>1, <2>2, <1>2
<1>6. ASSUME NEW s \in 1 .. Len(record'[c])
      PROVE  /\ record'[c][s] = "passed" => \E i \in Done(c, s)' : Done(c, s)' = {i}
             /\ record'[c][s] = "skipped" => Done(c, s)' = {}
  <2>1. CASE s = a
    BY <2>1, <1>1, <1>4
  <2>2. CASE s \in 1 .. Len(record[c])
    <3>1. Done(c, s)' = Done(c, s)
      BY <2>2, <1>1, <1>3
    <3> QED
      BY <2>2, <3>1, <1>1 DEF Performed, PerformedBy
  <2> QED
    BY <2>1, <2>2, <1>1
<1>7. ASSUME NEW d \in Cycle \ {c}
      PROVE  /\ \A i \in DOMAIN effects' :
                  effects'[i].by = d => effects'[i].step <= Len(record'[d])
             /\ \A s \in 1 .. Len(record'[d]) :
                  /\ record'[d][s] = "passed" => \E i \in Done(d, s)' : Done(d, s)' = {i}
                  /\ record'[d][s] = "skipped" => Done(d, s)' = {}
  <2>1. record'[d] = record[d]
    BY <1>1
  <2>2. \A s : Done(d, s)' = Done(d, s)
    BY <1>3
  <2>3. ASSUME NEW i \in DOMAIN effects', effects'[i].by = d
        PROVE  i \in DOMAIN effects /\ effects'[i] = effects[i]
    BY <1>2, <2>3
  <2> QED
    BY <2>1, <2>2, <2>3 DEF Performed, PerformedBy
<1>8. PerformedBy(c)'
  BY <1>5, <1>6 DEF PerformedBy
<1>9. \A d \in Cycle \ {c} : PerformedBy(d)'
  BY <1>7 DEF PerformedBy
<1> QED
  BY <1>8, <1>9 DEF Performed

LEMMA StepPerformed ==
    ASSUME IInv, NEW c \in Cycle,
           \/ Aside(c) \/ Open(c) \/ Abandon(c) \/ Intent(c)
           \/ Unresolvable(c) \/ IntentFails(c) \/ Dispatch(c) \/ Commit(c)
    PROVE  Performed'
<1>0. TypeOK /\ Progress /\ Performed
  BY DEF IInv
<1>1. ASSUME record' = record, effects' = effects PROVE Performed'
  BY <1>0, <1>1 DEF Performed, PerformedBy, Done
<1>2. CASE Aside(c)
  BY <1>1, <1>2, AsideFacts
<1>3. CASE Open(c) \/ Abandon(c) \/ Intent(c)
  BY <1>1, <1>3 DEF Open, Abandon, Intent, history
<1>4. CASE Unresolvable(c) \/ IntentFails(c)
  BY <1>0, <1>4, FailureFacts, NothingDone
<1>5. CASE Dispatch(c)
  <2>1. At(c) \in Step
    BY <1>0, <1>5, DispatchFacts DEF Progress, AtWork
  <2>2. CASE effects' = Append(effects, [by |-> c, step |-> At(c)])
    BY <1>0, <1>5, <2>1, <2>2, DispatchFacts, SomethingDone
  <2>3. CASE Report(c, "failed") /\ effects' = effects
    BY <1>0, <2>3, NothingDone
  <2> QED
    BY <1>5, <2>2, <2>3, DispatchFacts
<1>6. CASE Commit(c)
  <2>1. effects' = effects /\ (record' = record \/ Report(c, "skipped"))
    BY <1>6, CommitFacts DEF history
  <2> QED
    BY <1>0, <1>1, <2>1, NothingDone
<1> QED
  BY <1>2, <1>3, <1>4, <1>5, <1>6
LEMMA StepSettled ==
    ASSUME IInv, NEW c \in Cycle,
           \/ Aside(c) \/ Open(c) \/ Abandon(c) \/ Intent(c)
           \/ Unresolvable(c) \/ IntentFails(c) \/ Dispatch(c) \/ Commit(c)
    PROVE  Settled'
<1> DEFINE Early == {"idle", "planned", "spawned", "ticketed", "abandon"}
           Acting == MidStep \cup {"ready"}
<1>0. TypeOK /\ Settled
  BY DEF IInv
<1>1. ASSUME UNCHANGED <<record, abandon>>,
             \A d \in Cycle : pc'[d] \in Early => pc[d] \in Early,
             \A d \in Cycle : pc'[d] \in Acting => pc[d] \in Acting
      PROVE  Settled'
  BY <1>0, <1>1 DEF Settled
<1>2. ASSUME UNCHANGED abandon, NEW status \in Status, Report(c, status), pc[c] \in Acting,
             pc'[c] \in Acting, \A d \in Cycle \ {c} : pc'[d] = pc[d]
      PROVE  Settled'
  <2>1. \A d \in Cycle \ {c} : record'[d] = record[d]
    BY <1>0, <1>2, OtherRecords
  <2>2. abandon[c] = {} /\ pc'[c] \notin Early
    BY <1>0, <1>2 DEF Settled
  <2> QED
    BY <1>0, <1>2, <2>1, <2>2 DEF Settled
<1>3. CASE Plan(c) \/ Preflight(c) \/ ConsumeTicket(c)
  BY <1>0, <1>1, <1>3 DEF Plan, Preflight, ConsumeTicket, Goto, probeVars, TypeOK
<1>4. CASE OpenRefused(c) \/ Verify(c) \/ CycleKilled(c) \/ Finish(c) \/ ProbeDies(c)
  BY <1>0, <1>1, <1>4
  DEF OpenRefused, Verify, CycleKilled, Finish, ProbeDies, Goto, probeVars, TypeOK
<1>5. CASE Opened(c)
  <2>1. abandon[c] = {} /\ Len(record[c]) = 0 /\ UNCHANGED <<record, abandon>>
    BY <1>0, <1>5 DEF Opened, Settled, probeVars
  <2>2. pc'[c] = "ready" /\ \A d \in Cycle \ {c} : pc'[d] = pc[d]
    BY <1>0, <1>5, Goes DEF Opened, Place, Running, Writing
  <2> QED
    BY <1>0, <2>1, <2>2 DEF Settled
<1>6. CASE Open(c)
  <2>1. Len(record[c]) = 0 /\ record' = record
    BY <1>0, <1>6 DEF Open, Settled
  <2>2. pc'[c] = "abandon" /\ \A d \in Cycle \ {c} : pc'[d] = pc[d]
    BY <1>0, <1>6, Goes DEF Open, Place, Running, Writing
  <2>3. \A d \in Cycle \ {c} : abandon'[d] = abandon[d]
    BY <1>0, <1>6 DEF Open, TypeOK
  <2> QED
    BY <1>0, <2>1, <2>2, <2>3 DEF Settled
<1>7. CASE Abandon(c)
  <2>1. UNCHANGED <<pc, record>> /\ pc[c] = "abandon"
        /\ \A d \in Cycle \ {c} : abandon'[d] = abandon[d]
    BY <1>0, <1>7 DEF Abandon, TypeOK
  <2> QED
    BY <1>0, <2>1 DEF Settled
<1>8. CASE Intent(c)
  <2>1. PICK place \in {"skipping", "dispatch"} : Goto(c, place)
    BY <1>8 DEF Intent
  <2>2. /\ pc[c] = "ready" /\ pc'[c] = place
        /\ \A d \in Cycle \ {c} : pc'[d] = pc[d]
        /\ UNCHANGED <<record, abandon>>
    BY <1>0, <1>8, <2>1, Goes DEF Intent, Place, Running, Writing
  <2>3. /\ \A d \in Cycle : pc'[d] \in Early => pc[d] \in Early
        /\ \A d \in Cycle : pc'[d] \in Acting => pc[d] \in Acting
    BY <2>2
  <2>4. UNCHANGED <<record, abandon>>
    BY <2>2
  <2> HIDE DEF Early, Acting
  <2> QED
    BY <1>1, <2>3, <2>4
<1>9. CASE Unresolvable(c) \/ IntentFails(c)
  <2>1. PICK status \in Status : Report(c, status)
    BY <1>9, FailureFacts DEF Status
  <2> QED
    BY <1>2, <1>9, <2>1, FailureFacts
<1>10. CASE Dispatch(c)
  <2>1. PICK status \in Status : Report(c, status)
    BY <1>10, DispatchFacts DEF Status
  <2>2. pc[c] = "dispatch" /\ pc'[c] = "commit" /\ \A d \in Cycle \ {c} : pc'[d] = pc[d]
    BY <1>0, <1>10, DispatchFacts, Goes DEF Place, Running, Writing
  <2>3. abandon' = abandon
    BY <1>10, DispatchFacts
  <2> QED
    BY <1>2, <2>1, <2>2, <2>3
<1>11. CASE Commit(c)
  <2>1. /\ Goto(c, "ready") /\ abandon' = abandon
        /\ pc[c] \in {"skipping", "commit"}
        /\ record' = record \/ Report(c, "skipped")
    BY <1>11, CommitFacts
  <2>2. pc'[c] = "ready" /\ \A d \in Cycle \ {c} : pc'[d] = pc[d]
    BY <1>0, <2>1, Goes DEF Place, Running, Writing
  <2>3. CASE record' = record
    <3>1. \A d \in Cycle : (pc'[d] \in Early => pc[d] \in Early)
                          /\ (pc'[d] \in Acting => pc[d] \in Acting)
      BY <2>1, <2>2
    <3> QED
      BY <1>1, <2>1, <2>3, <3>1
  <2>4. CASE Report(c, "skipped")
    BY <1>2, <2>1, <2>2, <2>4 DEF Status
  <2> QED
    BY <2>1, <2>3, <2>4
<1> QED
  BY <1>3, <1>4, <1>5, <1>6, <1>7, <1>8, <1>9, <1>10, <1>11 DEF Aside

-----------------------------------------------------------------------------
(* The journal.                                                            *)

\* A step that appends nothing, or whose append breaks the chain.
LEMMA UnwrittenStep ==
    ASSUME IInv,
           UNCHANGED <<journal, effects, opened>>,
           \A d \in Cycle :
             /\ Reports(d)
             /\ abandon'[d] \subseteq abandon[d]
             /\ \A i \in abandon[d] \ abandon'[d] : journal[i].step \in Idempotent
             /\ pc'[d] = "commit" => pc[d] = "commit" /\ record'[d] = record[d]
             /\ sound' => next'[d] = next[d]
             /\ sound' /\ pc'[d] \in MidStep => pc'[d] = pc[d] /\ record'[d] = record[d],
           sound' => sound
    PROVE  JournalInv' /\ EffectInv'
<1>0. TypeOK /\ JournalInv /\ EffectInv
  BY DEF IInv
<1>1. /\ Intents' = Intents /\ Commits' = Commits /\ Unresolved' = Unresolved
      /\ \A d : CurrentCommits(d)' = CurrentCommits(d)
  BY DEF Intents, Commits, Unresolved, CurrentCommits
<1>2. \A d \in Cycle :
        /\ Len(record[d]) \in Nat /\ Len(record'[d]) \in Nat
        /\ Len(record[d]) <= Len(record'[d])
        /\ \A s \in 1 .. Len(record[d]) : record'[d][s] = record[d][s]
  BY <1>0, RecordGrows
<1>3. \A d \in Cycle : sound' /\ pc'[d] \in MidStep => At(d)' = At(d) /\ AtWork(d)' = AtWork(d)
  BY DEF At, AtWork
<1>3a. \A d \in Cycle : Cleared(d)' => Cleared(d)
  BY DEF Cleared
<1>4. NextBound' /\ Backward'
  BY <1>0, <1>1 DEF JournalInv, NextBound, Backward
<1>5. Own'
  BY <1>0, <1>1, <1>3 DEF JournalInv, Own
<1>6. Fresh'
  BY <1>0, <1>1, <1>3 DEF JournalInv, Fresh
<1>7. Abandoned'
  BY <1>0, <1>1 DEF JournalInv, Abandoned
<1>8. Committed'
  <2> SUFFICES ASSUME NEW d \in Cycle, NEW j \in CurrentCommits(d)
               PROVE  /\ journal[j].step <= Len(record'[d])
                      /\ journal[j].status = record'[d][journal[j].step]
                      /\ pc'[d] = "commit" => journal[j].step < Len(record'[d])
    BY <1>1 DEF Committed
  <2>1. /\ journal[j].step <= Len(record[d])
        /\ journal[j].status = record[d][journal[j].step]
        /\ pc[d] = "commit" => journal[j].step < Len(record[d])
    BY <1>0 DEF JournalInv, Committed
  <2>2. journal[j].step \in Step
    BY <1>0, Events DEF CurrentCommits, Commits
  <2>3. journal[j].step \in 1 .. Len(record[d])
    BY <1>2, <2>1, <2>2
  <2> QED
    BY <1>2, <2>1, <2>3
<1>9. Intended' /\ Known' /\ OpenedBound'
  <2>1. Intended' /\ OpenedBound'
    BY <1>0, <1>1 DEF EffectInv, Intended, OpenedBound
  <2>2. Known'
    BY <1>0, <1>1, <1>3a DEF EffectInv, Known
  <2> QED
    BY <2>1, <2>2
<1>10. Overtaken'
  BY <1>0, <1>3, <1>3a DEF EffectInv, Overtaken, Intruder
<1>11. Doomed'
  <2> SUFFICES ASSUME sound, NEW d \in Cycle, NEW i \in DOMAIN effects, NEW j \in DOMAIN effects,
                      Cleared(d), Intruder(d, i), i < j, effects[j].by = d
               PROVE  \E s \in 1 .. Len(record'[d]) :
                          \A k \in CurrentCommits(d) : journal[k].step # s
    BY <1>1, <1>3a DEF Doomed, Intruder
  <2>1. PICK s \in 1 .. Len(record[d]) : \A k \in CurrentCommits(d) : journal[k].step # s
    BY <1>0 DEF EffectInv, Doomed
  <2>2. s \in 1 .. Len(record'[d])
    BY <1>2
  <2> QED
    BY <2>1, <2>2
<1> QED
  BY <1>4, <1>5, <1>6, <1>7, <1>8, <1>9, <1>10, <1>11 DEF JournalInv, EffectInv

\* A step that continues the chain.
LEMMA WrittenStep ==
    ASSUME IInv, NEW c \in Cycle, NEW e \in Event,
           sound, sound', next[c] = Len(journal) + 1, journal' = Append(journal, e),
           UNCHANGED <<effects, opened>>,
           \A d \in Cycle \ {c} :
             /\ next'[d] = next[d] /\ pc'[d] = pc[d]
             /\ record'[d] = record[d] /\ abandon'[d] = abandon[d],
           next'[c] \in {next[c], next[c] + 1}, abandon'[c] \subseteq abandon[c],
           \A i \in abandon[c] \ abandon'[c] : journal[i].step \in Idempotent,
           Reports(c), pc'[c] # "commit",
           pc'[c] \in MidStep =>
             /\ next'[c] = next[c] + 1
             /\ e.intent = 0 /\ e.ticket = c /\ e.step = AtWork(c)',
           e.intent # 0 =>
             /\ e.intent <= Len(journal)
             /\ \A d \in Cycle \ {c} :
                  pc[d] = "dispatch" /\ At(d) \notin Idempotent => next[d] - 1 # e.intent
             /\ e.status = "abandoned_safe" => e.step \in Idempotent
             /\ e.status # "abandoned_safe" =>
                  /\ e.ticket = c /\ e.step <= Len(record'[c])
                  /\ e.status = record'[c][e.step]
    PROVE  JournalInv' /\ EffectInv'
<1> DEFINE n == Len(journal) + 1
<1>0. TypeOK /\ JournalInv /\ EffectInv
  BY DEF IInv
<1>1. /\ Intents' = IF e.intent = 0 THEN Intents \cup {n} ELSE Intents
      /\ Commits' = IF e.intent = 0 THEN Commits ELSE Commits \cup {n}
      /\ \A d \in Cycle : CurrentCommits(d)' =
           IF e.intent # 0 /\ e.ticket = d /\ e.status # "abandoned_safe"
           THEN CurrentCommits(d) \cup {n} ELSE CurrentCommits(d)
      /\ \A i \in Unresolved : i # e.intent => i \in Unresolved'
      /\ e.intent = 0 => n \in Unresolved'
  BY <1>0, Appended DEF JournalInv
<1>2. /\ Len(journal) \in Nat /\ Len(journal') = n /\ n \in Nat
      /\ \A i \in DOMAIN journal : journal'[i] = journal[i]
      /\ journal'[n] = e
      /\ Intents \subseteq DOMAIN journal /\ Commits \subseteq DOMAIN journal
      /\ \A d \in Cycle : CurrentCommits(d) \subseteq Commits
  BY <1>0, JournalGrows DEF Intents, Commits, CurrentCommits
<1>3. \A d \in Cycle :
        /\ Len(record[d]) \in Nat /\ Len(record'[d]) \in Nat
        /\ Len(record[d]) <= Len(record'[d])
        /\ \A s \in 1 .. Len(record[d]) : record'[d][s] = record[d][s]
  <2>1. \A d \in Cycle : Reports(d)
    BY DEF Reports
  <2> QED
    BY <1>0, <2>1, RecordGrows
<1>4. \A d \in Cycle \ {c} : At(d)' = At(d) /\ AtWork(d)' = AtWork(d)
  BY DEF At, AtWork
<1>4a. ASSUME NEW d \in Cycle, Cleared(d)' PROVE Cleared(d)
  <2> SUFFICES ASSUME NEW i \in abandon[d] PROVE journal[i].step \in Idempotent
    BY DEF Cleared
  <2>1. i \in DOMAIN journal /\ journal'[i] = journal[i]
    BY <1>0, <1>2 DEF JournalInv, Abandoned
  <2>2. CASE i \in abandon'[d]
    BY <1>4a, <2>1, <2>2 DEF Cleared
  <2>3. CASE i \notin abandon'[d]
    BY <2>3
  <2> QED
    BY <2>2, <2>3
<1>5. \A d \in Cycle : next[d] \in Nat
  BY <1>0 DEF TypeOK
<1>6. next[c] = n /\ next'[c] \in {n, n + 1}
  OBVIOUS
<1> HIDE DEF n
<1>7. NextBound'
  <2>1. \A d \in Cycle : next[d] <= n
    BY <1>0 DEF JournalInv, NextBound, n
  <2>2. ASSUME NEW d \in Cycle PROVE next'[d] <= n + 1
    <3>1. CASE d = c
      BY <1>2, <1>6, <3>1
    <3>2. CASE d # c
      <4>1. next'[d] = next[d]
        BY <3>2
      <4> QED
        BY <1>2, <1>5, <2>1, <4>1
    <3> QED
      BY <3>1, <3>2
  <2> QED
    BY <1>2, <2>2 DEF NextBound
<1>8. Own'
  <2> SUFFICES ASSUME NEW d \in Cycle, pc'[d] \in MidStep
               PROVE  /\ next'[d] - 1 \in Intents'
                      /\ journal'[next'[d] - 1].ticket = d
                      /\ journal'[next'[d] - 1].step = AtWork(d)'
    BY DEF Own
  <2>1. CASE d = c
    <3>1. next'[c] - 1 = n
      BY <1>2, <1>6, <2>1
    <3> QED
      BY <1>1, <1>2, <2>1, <3>1
  <2>2. CASE d # c
    <3>1. /\ next[d] - 1 \in Intents
          /\ journal[next[d] - 1].ticket = d
          /\ journal[next[d] - 1].step = AtWork(d)
      BY <1>0, <2>2 DEF JournalInv, Own
    <3>2. next'[d] = next[d] /\ AtWork(d)' = AtWork(d)
      BY <1>4, <2>2
    <3> QED
      BY <1>1, <1>2, <3>1, <3>2
  <2> QED
    BY <2>1, <2>2
<1>9. Fresh'
  <2> SUFFICES ASSUME NEW d \in Cycle, pc'[d] = "dispatch", At(d)' \notin Idempotent
               PROVE  next'[d] - 1 \in Unresolved'
    BY DEF Fresh
  <2>1. CASE d = c
    <3>1. next'[c] - 1 = n /\ e.intent = 0
      BY <1>2, <1>6, <2>1
    <3> QED
      BY <1>1, <2>1, <3>1
  <2>2. CASE d # c
    <3>1. next'[d] = next[d] /\ At(d)' = At(d) /\ pc[d] = "dispatch"
      BY <1>4, <2>2
    <3>2. next[d] - 1 \in Unresolved
      BY <1>0, <3>1 DEF JournalInv, Fresh
    <3>3. next[d] - 1 # e.intent
      <4>1. CASE e.intent # 0
        BY <2>2, <3>1, <4>1
      <4>2. CASE e.intent = 0
        BY <1>0, <3>2, <4>2, Events DEF Unresolved, Intents
      <4> QED
        BY <4>1, <4>2
    <3> QED
      BY <1>1, <3>1, <3>2, <3>3
  <2> QED
    BY <2>1, <2>2
<1>10. Abandoned'
  <2>1. \A d \in Cycle : abandon'[d] \subseteq abandon[d]
    OBVIOUS
  <2>2. ASSUME NEW d \in Cycle, NEW i \in abandon'[d]
        PROVE  i \in Intents'
    BY <1>0, <1>1, <1>2, <2>1 DEF JournalInv, Abandoned
  <2>3. ASSUME NEW j \in Commits', journal'[j].status = "abandoned_safe"
        PROVE  journal'[j].step \in Idempotent
    <3>1. CASE j \in Commits
      BY <1>0, <1>2, <2>3, <3>1 DEF JournalInv, Abandoned
    <3>2. CASE e.intent # 0 /\ j = n
      BY <1>2, <2>3, <3>2
    <3> QED
      BY <1>1, <3>1, <3>2
  <2> QED
    BY <2>2, <2>3 DEF Abandoned
<1>11. Backward'
  <2> SUFFICES ASSUME NEW j \in Commits' PROVE journal'[j].intent < j
    BY DEF Backward
  <2>1. CASE j \in Commits
    BY <1>0, <1>2, <2>1 DEF JournalInv, Backward
  <2>2. CASE e.intent # 0 /\ j = n
    <3>1. e.intent <= Len(journal) /\ e.intent \in Nat
      BY <2>2 DEF Event
    <3> QED
      BY <1>2, <2>2, <3>1 DEF n
  <2> QED
    BY <1>1, <2>1, <2>2
<1>12. Committed'
  <2> SUFFICES ASSUME NEW d \in Cycle, NEW j \in CurrentCommits(d)'
               PROVE  /\ journal'[j].step <= Len(record'[d])
                      /\ journal'[j].status = record'[d][journal'[j].step]
                      /\ pc'[d] = "commit" => journal'[j].step < Len(record'[d])
    BY DEF Committed
  <2>1. CASE j \in CurrentCommits(d)
    <3>1. /\ journal[j].step <= Len(record[d])
          /\ journal[j].status = record[d][journal[j].step]
          /\ pc[d] = "commit" => journal[j].step < Len(record[d])
          /\ journal'[j] = journal[j]
      BY <1>0, <1>2, <2>1 DEF JournalInv, Committed
    <3>2. journal[j].step \in Step
      BY <1>0, <2>1, Events DEF CurrentCommits, Commits
    <3>3. journal[j].step \in 1 .. Len(record[d])
      BY <1>3, <3>1, <3>2
    <3>4. /\ journal[j].step <= Len(record'[d])
          /\ journal[j].status = record'[d][journal[j].step]
      <4>1. record'[d][journal[j].step] = record[d][journal[j].step]
        BY <1>3, <3>3
      <4>2. Len(record[d]) \in Nat /\ Len(record'[d]) \in Nat /\ Len(record[d]) <= Len(record'[d])
        BY <1>3
      <4> QED
        BY <3>1, <3>3, <4>1, <4>2
    <3>5. ASSUME pc'[d] = "commit" PROVE pc[d] = "commit" /\ record'[d] = record[d]
      BY <3>5
    <3> QED
      BY <3>1, <3>4, <3>5
  <2>2. CASE e.intent # 0 /\ e.ticket = d /\ e.status # "abandoned_safe" /\ j = n
    BY <1>2, <2>2
  <2>3. \/ j \in CurrentCommits(d)
        \/ e.intent # 0 /\ e.ticket = d /\ e.status # "abandoned_safe" /\ j = n
    BY <1>1
  <2> QED
    BY <2>1, <2>2, <2>3
<1>13. Intended'
  <2> SUFFICES ASSUME NEW i \in DOMAIN effects
               PROVE  \E k \in Intents' : /\ journal'[k].ticket = effects[i].by
                                           /\ journal'[k].step = effects[i].step
    BY DEF Intended
  <2>1. PICK k \in Intents : /\ journal[k].ticket = effects[i].by
                              /\ journal[k].step = effects[i].step
    BY <1>0 DEF EffectInv, Intended
  <2>2. journal'[k] = journal[k]
    BY <1>2, <2>1
  <2>3. k \in Intents'
    BY <1>1, <2>1
  <2> QED
    BY <2>1, <2>2, <2>3
<1>14. Known'
  <2> SUFFICES ASSUME NEW d \in Cycle, NEW i \in DOMAIN effects,
                      Cleared(d), i <= opened[d], effects[i].step \notin Idempotent
               PROVE  \E k \in Commits' : /\ journal'[k].ticket = effects[i].by
                                           /\ journal'[k].step = effects[i].step
                                           /\ journal'[k].status # "abandoned_safe"
    BY <1>4a DEF Known
  <2>1. PICK k \in Commits : /\ journal[k].ticket = effects[i].by
                              /\ journal[k].step = effects[i].step
                              /\ journal[k].status # "abandoned_safe"
    BY <1>0 DEF EffectInv, Known
  <2> QED
    BY <1>1, <1>2, <2>1
<1>15. OpenedBound'
  BY <1>0 DEF EffectInv, OpenedBound
<1>16. \A i : ~(Cleared(c) /\ Intruder(c, i))
  <2> SUFFICES ASSUME NEW i, Cleared(c), Intruder(c, i) PROVE FALSE
    OBVIOUS
  <2>1. next[c] <= Len(journal)
    BY <1>0 DEF EffectInv, Overtaken, Intruder
  <2> QED
    BY <1>2, <1>6, <2>1 DEF n
<1>17. \A d \in Cycle \ {c} : ~(Cleared(c) /\ pc[d] = "dispatch" /\ At(d) \notin Idempotent)
  <2> SUFFICES ASSUME NEW d \in Cycle \ {c}, Cleared(c), pc[d] = "dispatch",
                      At(d) \notin Idempotent
               PROVE  FALSE
    OBVIOUS
  <2>1. next[c] <= Len(journal)
    BY <1>0 DEF EffectInv, Overtaken
  <2> QED
    BY <1>2, <1>6, <2>1 DEF n
<1>18. Overtaken'
  <2>1. \A d \in Cycle \ {c} : next'[d] <= Len(journal')
    <3> SUFFICES ASSUME NEW d \in Cycle \ {c} PROVE next[d] <= n
      BY <1>2
    <3> QED
      BY <1>0 DEF JournalInv, NextBound, n
  <2>2. \A d, i : Intruder(d, i)' = Intruder(d, i)
    BY DEF Intruder
  <2>3. Cleared(c)' => /\ \A i : ~Intruder(c, i)
                       /\ \A d \in Cycle \ {c} : ~(pc'[d] = "dispatch" /\ At(d)' \notin Idempotent)
    BY <1>4, <1>4a, <1>16, <1>17
  <2> QED
    BY <2>1, <2>2, <2>3 DEF Overtaken
<1>19. Doomed'
  <2> SUFFICES ASSUME NEW d \in Cycle, NEW i \in DOMAIN effects, NEW j \in DOMAIN effects,
                      Cleared(d), Intruder(d, i), i < j, effects[j].by = d
               PROVE  \E s \in 1 .. Len(record'[d]) :
                          \A k \in CurrentCommits(d)' : journal'[k].step # s
    BY <1>4a DEF Doomed, Intruder
  <2>1. d # c
    BY <1>16
  <2>2. PICK s \in 1 .. Len(record[d]) : \A k \in CurrentCommits(d) : journal[k].step # s
    BY <1>0 DEF EffectInv, Doomed
  <2>3. CurrentCommits(d)' = CurrentCommits(d) /\ record'[d] = record[d]
    BY <1>1, <2>1
  <2>4. \A k \in CurrentCommits(d) : journal'[k] = journal[k]
    BY <1>2
  <2>5. s \in 1 .. Len(record'[d]) /\ \A k \in CurrentCommits(d)' : journal'[k].step # s
    BY <2>2, <2>3, <2>4
  <2> QED
    BY <2>5
<1> QED
  BY <1>7, <1>8, <1>9, <1>10, <1>11, <1>12, <1>13, <1>14, <1>15, <1>18, <1>19
  DEF JournalInv, EffectInv
\* A cycle begins where the journal ends.
LEMMA OpenStep ==
    ASSUME IInv, NEW c \in Cycle, Open(c)
    PROVE  JournalInv' /\ EffectInv'
<1>0. TypeOK /\ JournalInv /\ EffectInv
  BY DEF IInv
<1>1. /\ UNCHANGED <<journal, sound, record, effects>>
      /\ next'[c] = Len(journal) + 1 /\ abandon'[c] = Unresolved
      /\ opened'[c] = Len(effects)
      /\ pc'[c] = "abandon"
      /\ \A d \in Cycle \ {c} :
           /\ next'[d] = next[d] /\ abandon'[d] = abandon[d]
           /\ opened'[d] = opened[d] /\ pc'[d] = pc[d]
      /\ Readable
  BY <1>0, Goes DEF Open, TypeOK, Place, Running, Writing
<1>2. /\ Intents' = Intents /\ Commits' = Commits /\ Unresolved' = Unresolved
      /\ \A d : CurrentCommits(d)' = CurrentCommits(d)
  BY <1>1 DEF Intents, Commits, Unresolved, CurrentCommits
<1>3. \A d \in Cycle : At(d)' = At(d) /\ (d # c => AtWork(d)' = AtWork(d))
  BY <1>1 DEF At, AtWork
<1>4. /\ sound /\ Unresolved \subseteq Intents
      /\ Cleared(c)' => \A i \in Unresolved : journal[i].step \in Idempotent
      /\ \A d \in Cycle \ {c} : Cleared(d)' = Cleared(d)
  BY <1>1 DEF Readable, Unresolved, Cleared
<1>5. Len(journal) \in Nat /\ Len(effects) \in Nat /\ DOMAIN effects = 1 .. Len(effects)
  BY <1>0, Events, Effects
<1>6. NextBound' /\ Backward' /\ OpenedBound'
  BY <1>0, <1>1, <1>2, <1>5 DEF JournalInv, EffectInv, NextBound, Backward, OpenedBound
<1>7. Own' /\ Fresh'
  BY <1>0, <1>1, <1>2, <1>3 DEF JournalInv, Own, Fresh
<1>8. Abandoned'
  BY <1>0, <1>1, <1>2, <1>4 DEF JournalInv, Abandoned
<1>9. Committed'
  BY <1>0, <1>1, <1>2 DEF JournalInv, Committed
<1>10. Intended'
  BY <1>0, <1>1, <1>2 DEF EffectInv, Intended
<1>11. Known'
  <2>1. ASSUME Cleared(c)', NEW i \in DOMAIN effects, effects[i].step \notin Idempotent
        PROVE  \E j \in Commits : /\ journal[j].ticket = effects[i].by
                                  /\ journal[j].step = effects[i].step
                                  /\ journal[j].status # "abandoned_safe"
    <3>1. PICK k \in Intents : journal[k].ticket = effects[i].by /\ journal[k].step = effects[i].step
      BY <1>0, <1>4 DEF EffectInv, Intended
    <3>2. PICK j \in Commits : journal[j].intent = k
      BY <1>4, <2>1, <3>1 DEF Unresolved
    <3>3. journal[j].ticket = journal[k].ticket /\ journal[j].step = journal[k].step
      BY <1>1, <3>2 DEF Readable, Paired
    <3>4. journal[j].status # "abandoned_safe"
      BY <1>0, <2>1, <3>1, <3>2, <3>3 DEF JournalInv, Abandoned
    <3> QED
      BY <3>1, <3>2, <3>3, <3>4
  <2>2. ASSUME NEW d \in Cycle \ {c}, Cleared(d)', NEW i \in DOMAIN effects,
               i <= opened[d], effects[i].step \notin Idempotent
        PROVE  \E j \in Commits : /\ journal[j].ticket = effects[i].by
                                  /\ journal[j].step = effects[i].step
                                  /\ journal[j].status # "abandoned_safe"
    BY <1>0, <1>4, <2>2 DEF EffectInv, Known
  <2> QED
    BY <1>1, <1>2, <2>1, <2>2 DEF Known
<1>12. Cleared(c)' => \A d \in Cycle : pc[d] = "dispatch" => At(d) \in Idempotent
  <2> SUFFICES ASSUME Cleared(c)', NEW d \in Cycle, pc[d] = "dispatch", At(d) \notin Idempotent PROVE FALSE
    OBVIOUS
  <2>1. next[d] - 1 \in Unresolved /\ journal[next[d] - 1].step = At(d)
    BY <1>0, <1>4 DEF JournalInv, Fresh, Own, AtWork
  <2> QED
    BY <1>4, <2>1
<1>13. \A i : ~Intruder(c, i)'
  BY <1>1, <1>5 DEF Intruder
<1>14. \A d \in Cycle \ {c} : \A i : Intruder(d, i)' = Intruder(d, i)
  BY <1>1 DEF Intruder
<1>15. Overtaken'
  <2>1. CASE Cleared(c)'
    <3> SUFFICES ASSUME NEW d \in Cycle, d # c
                 PROVE  \A i \in DOMAIN effects :
                            Cleared(d)' /\ Intruder(d, i)' => next'[d] <= Len(journal)
      BY <1>1, <1>3, <1>12, <1>13, <2>1 DEF Overtaken
    <3> QED
      BY <1>0, <1>1, <1>4, <1>14 DEF EffectInv, Overtaken
  <2>2. CASE ~Cleared(c)'
    <3> SUFFICES ASSUME NEW d \in Cycle, d # c, Cleared(d)
                 PROVE  /\ \A i \in DOMAIN effects : Intruder(d, i) => next[d] <= Len(journal)
                        /\ \A b \in Cycle : b # d /\ pc'[b] = "dispatch" /\ At(b)' \notin Idempotent
                                            => next[d] <= Len(journal)
      BY <1>1, <1>4, <1>14, <2>2 DEF Overtaken
    <3>1. \A b \in Cycle : pc'[b] = "dispatch" => pc[b] = "dispatch"
      BY <1>1
    <3> QED
      BY <1>0, <1>3, <1>4, <3>1 DEF EffectInv, Overtaken
  <2> QED
    BY <2>1, <2>2
<1>16. Doomed'
  <2> SUFFICES ASSUME NEW d \in Cycle, NEW i \in DOMAIN effects, NEW j \in DOMAIN effects,
                      Cleared(d)', Intruder(d, i)', i < j, effects[j].by = d
               PROVE  \E s \in 1 .. Len(record[d]) :
                          \A k \in CurrentCommits(d) : journal[k].step # s
    BY <1>1, <1>2 DEF Doomed
  <2>1. d # c /\ Intruder(d, i) /\ Cleared(d)
    BY <1>4, <1>13, <1>14
  <2> QED
    BY <1>0, <1>4, <2>1 DEF EffectInv, Doomed
<1> QED
  BY <1>6, <1>7, <1>8, <1>9, <1>10, <1>11, <1>15, <1>16 DEF JournalInv, EffectInv

\* The action itself.
LEMMA DispatchStep ==
    ASSUME IInv, NEW c \in Cycle, Dispatch(c)
    PROVE  JournalInv' /\ EffectInv'
<1> DEFINE n == Len(effects) + 1
<1>0. TypeOK /\ Progress /\ Performed /\ JournalInv /\ EffectInv
  BY DEF IInv
<1>1. PICK status \in {"passed", "failed"} : Report(c, status)
  BY DispatchFacts
<1>2. /\ UNCHANGED <<journal, sound, next, abandon, opened>>
      /\ pc[c] = "dispatch" /\ pc'[c] = "commit"
      /\ \A d \in Cycle \ {c} : pc'[d] = pc[d]
  BY <1>0, DispatchFacts, Goes DEF Place, Running, Writing
<1>3. /\ Len(record[c]) \in Nat /\ At(c) = Len(record[c]) + 1
      /\ Len(record'[c]) = At(c)
      /\ \A s \in 1 .. Len(record[c]) : record'[c][s] = record[c][s]
      /\ \A d \in Cycle \ {c} : record'[d] = record[d]
  BY <1>0, <1>1, OtherRecords, RecordGrows DEF Status, At
<1>4. /\ Intents' = Intents /\ Commits' = Commits /\ Unresolved' = Unresolved
      /\ \A d : CurrentCommits(d)' = CurrentCommits(d)
  BY <1>2 DEF Intents, Commits, Unresolved, CurrentCommits
<1>4a. \A d \in Cycle : Cleared(d)' = Cleared(d)
  BY <1>2 DEF Cleared
<1>5. /\ AtWork(c) = At(c) /\ AtWork(c)' = At(c)
      /\ \A d \in Cycle \ {c} : At(d)' = At(d) /\ AtWork(d)' = AtWork(d)
  BY <1>2, <1>3 DEF At, AtWork
<1>6. /\ Len(effects) \in Nat /\ DOMAIN effects = 1 .. Len(effects)
      /\ Len(effects') \in Nat /\ Len(effects) <= Len(effects')
      /\ DOMAIN effects' \subseteq DOMAIN effects \cup {n}
      /\ \A i \in DOMAIN effects : i \in DOMAIN effects' /\ effects'[i] = effects[i]
      /\ n \in DOMAIN effects' => effects'[n] = [by |-> c, step |-> At(c)]
      /\ \A d \in Cycle : opened[d] <= Len(effects) /\ opened[d] \in Nat
  <2>1. /\ Len(effects) \in Nat /\ DOMAIN effects = 1 .. Len(effects)
        /\ \A d \in Cycle : opened[d] <= Len(effects) /\ opened[d] \in Nat
    BY <1>0, Effects DEF EffectInv, OpenedBound, TypeOK
  <2>2. CASE effects' = effects
    BY <2>1, <2>2
  <2>3. CASE effects' = Append(effects, [by |-> c, step |-> At(c)])
    BY <1>0, <2>1, <2>3, EffectsGrow
  <2> QED
    BY <2>2, <2>3, DispatchFacts
<1> HIDE DEF n
<1>7. NextBound' /\ Backward' /\ Abandoned'
  BY <1>0, <1>2, <1>4 DEF JournalInv, NextBound, Backward, Abandoned
<1>8. Own' /\ Fresh'
  BY <1>0, <1>2, <1>4, <1>5 DEF JournalInv, Own, Fresh
<1>9. Committed'
  <2> SUFFICES ASSUME NEW d \in Cycle, NEW j \in CurrentCommits(d)
               PROVE  /\ journal[j].step <= Len(record'[d])
                      /\ journal[j].status = record'[d][journal[j].step]
                      /\ pc'[d] = "commit" => journal[j].step < Len(record'[d])
    BY <1>2, <1>4 DEF Committed
  <2>1. /\ journal[j].step <= Len(record[d])
        /\ journal[j].status = record[d][journal[j].step]
        /\ pc[d] = "commit" => journal[j].step < Len(record[d])
        /\ journal[j].step \in Step
    BY <1>0, Events DEF JournalInv, Committed, CurrentCommits, Commits
  <2>2. CASE d = c
    BY <1>3, <2>1, <2>2
  <2>3. CASE d # c
    BY <1>2, <1>3, <2>1, <2>3
  <2> QED
    BY <2>2, <2>3
<1>10. Intended'
  <2> SUFFICES ASSUME sound, NEW i \in DOMAIN effects'
               PROVE  \E k \in Intents : /\ journal[k].ticket = effects'[i].by
                                          /\ journal[k].step = effects'[i].step
    BY <1>2, <1>4 DEF Intended
  <2>1. CASE i \in DOMAIN effects
    BY <1>0, <1>6, <2>1 DEF EffectInv, Intended
  <2>2. CASE i = n
    <3>1. /\ next[c] - 1 \in Intents
          /\ journal[next[c] - 1].ticket = c
          /\ journal[next[c] - 1].step = At(c)
      BY <1>0, <1>2, <1>5 DEF JournalInv, Own
    <3> QED
      BY <1>6, <2>2, <3>1
  <2> QED
    BY <1>6, <2>1, <2>2
<1>11. Known'
  <2> SUFFICES ASSUME NEW d \in Cycle, NEW i \in DOMAIN effects',
                      Cleared(d), i <= opened[d], effects'[i].step \notin Idempotent
               PROVE  \E k \in Commits : /\ journal[k].ticket = effects'[i].by
                                          /\ journal[k].step = effects'[i].step
                                          /\ journal[k].status # "abandoned_safe"
    BY <1>2, <1>4, <1>4a DEF Known
  <2>1. i \in DOMAIN effects
    BY <1>6 DEF n
  <2> QED
    BY <1>0, <1>6, <2>1 DEF EffectInv, Known
<1>12. OpenedBound'
  BY <1>2, <1>6 DEF OpenedBound
<1>13. ASSUME NEW d \in Cycle, NEW i \in DOMAIN effects', Intruder(d, i)'
       PROVE  \/ i \in DOMAIN effects /\ Intruder(d, i)
              \/ i = n /\ d # c /\ At(c) \notin Idempotent
  BY <1>2, <1>6, <1>13 DEF Intruder
<1>14. Overtaken'
  <2> SUFFICES ASSUME sound, NEW d \in Cycle, Cleared(d)
               PROVE  /\ \A i \in DOMAIN effects' : Intruder(d, i)' => next[d] <= Len(journal)
                      /\ \A b \in Cycle : b # d /\ pc'[b] = "dispatch" /\ At(b)' \notin Idempotent
                                          => next[d] <= Len(journal)
    BY <1>2, <1>4a DEF Overtaken
  <2>1. ASSUME NEW i \in DOMAIN effects', Intruder(d, i)' PROVE next[d] <= Len(journal)
    BY <1>0, <1>2, <1>13, <2>1 DEF EffectInv, Overtaken
  <2>2. ASSUME NEW b \in Cycle, b # d, pc'[b] = "dispatch", At(b)' \notin Idempotent
        PROVE  next[d] <= Len(journal)
    <3>1. b # c /\ pc[b] = "dispatch" /\ At(b) \notin Idempotent
      BY <1>2, <1>5, <2>2
    <3> QED
      BY <1>0, <2>2, <3>1 DEF EffectInv, Overtaken
  <2> QED
    BY <2>1, <2>2
<1>15. Doomed'
  <2> SUFFICES ASSUME sound, NEW d \in Cycle, NEW i \in DOMAIN effects', NEW j \in DOMAIN effects',
                      Cleared(d), Intruder(d, i)', i < j, effects'[j].by = d
               PROVE  \E s \in 1 .. Len(record'[d]) :
                          \A k \in CurrentCommits(d) : journal[k].step # s
    BY <1>2, <1>4, <1>4a DEF Doomed
  <2>1. i \in DOMAIN effects /\ Intruder(d, i)
    <3>1. i # n
      BY <1>6 DEF n
    <3> QED
      BY <1>13, <3>1
  <2>2. CASE j \in DOMAIN effects
    <3>1. PICK s \in 1 .. Len(record[d]) : \A k \in CurrentCommits(d) : journal[k].step # s
      BY <1>0, <1>6, <2>1, <2>2 DEF EffectInv, Doomed
    <3>2. s \in 1 .. Len(record'[d])
      BY <1>3
    <3> QED
      BY <3>1, <3>2
  <2>3. CASE j = n
    <3>1. d = c
      BY <1>6, <2>3
    <3>2. At(c) \in 1 .. Len(record'[c])
      BY <1>3
    <3>3. \A k \in CurrentCommits(c) : journal[k].step <= Len(record[c]) /\ journal[k].step \in Nat
      BY <1>0, Events DEF JournalInv, Committed, CurrentCommits, Commits
    <3>4. \A k \in CurrentCommits(c) : journal[k].step # At(c)
      BY <1>3, <3>3
    <3> QED
      BY <3>1, <3>2, <3>4
  <2> QED
    BY <1>6, <2>2, <2>3
<1> QED
  BY <1>7, <1>8, <1>9, <1>10, <1>11, <1>12, <1>14, <1>15 DEF JournalInv, EffectInv
\* The other steps, as steps that append nothing or one event.
LEMMA AsideStep ==
    ASSUME IInv, NEW c \in Cycle, Aside(c)
    PROVE  JournalInv' /\ EffectInv'
<1>1. /\ UNCHANGED <<journal, next, abandon, record, effects, opened>>
      /\ sound' => sound
      /\ \A d \in Cycle : pc'[d] = pc[d] \/ pc'[d] \notin MidStep
  <2>1. sound' \in {sound, FALSE} /\ sound \in BOOLEAN
    BY AsideFacts DEF IInv, TypeOK
  <2>2. pc' \in {pc} \cup {[pc EXCEPT ![c] = place] : place \in Place \ MidStep}
    BY AsideFacts
  <2>3. \A d \in Cycle : pc'[d] = pc[d] \/ pc'[d] \notin MidStep
    BY <2>2 DEF IInv, TypeOK
  <2>4. sound' => sound
    BY <2>1
  <2>5. UNCHANGED <<journal, next, abandon, record, effects, opened>>
    BY AsideFacts
  <2> QED
    BY <2>3, <2>4, <2>5
<1>2. /\ \A d \in Cycle : Reports(d) /\ abandon'[d] = abandon[d]
      /\ \A d \in Cycle : pc'[d] = "commit" => pc[d] = "commit" /\ record'[d] = record[d]
      /\ \A d \in Cycle : next'[d] = next[d]
  BY <1>1 DEF Reports
<1>3. \A d \in Cycle : pc'[d] \in MidStep => pc'[d] = pc[d] /\ record'[d] = record[d]
  BY <1>1
<1> HIDE DEF MidStep
<1> QED
  BY <1>1, <1>2, <1>3, UnwrittenStep

LEMMA AbandonStep ==
    ASSUME IInv, NEW c \in Cycle, Abandon(c)
    PROVE  JournalInv' /\ EffectInv'
<1>0. TypeOK /\ JournalInv
  BY DEF IInv
<1>1. PICK i \in abandon[c] :
          /\ Write(c, [journal[i] EXCEPT !.intent = i, !.status = "abandoned_safe"])
          /\ abandon' = [abandon EXCEPT ![c] = @ \ {i}]
          /\ journal[i].step \in Idempotent
  BY DEF Abandon, Oldest, MayAbandon
<1> DEFINE e == [journal[i] EXCEPT !.intent = i, !.status = "abandoned_safe"]
<1>2. i \in Intents /\ i \in DOMAIN journal /\ journal[i].step \in Idempotent
  BY <1>0, <1>1 DEF JournalInv, Abandoned, Intents
<1>3. /\ e \in Event /\ e.intent = i /\ e.status = "abandoned_safe"
      /\ e.step = journal[i].step
  <2>1. journal[i] \in Event /\ i \in Nat
    BY <1>0, <1>2, Events
  <2> QED
    BY <2>1 DEF Event
<1>4. Write(c, e)
  BY <1>1
<1> HIDE DEF e
<1>5. /\ UNCHANGED <<pc, record, effects, opened>> /\ pc[c] = "abandon"
      /\ next'[c] = next[c] + 1
      /\ \A d \in Cycle \ {c} : next'[d] = next[d] /\ abandon'[d] = abandon[d]
      /\ abandon'[c] = abandon[c] \ {i}
  BY <1>0, <1>1, Advances DEF Abandon, history, TypeOK
<1>6. \A d \in Cycle : Reports(d)
  BY <1>5 DEF Reports
<1>7. CASE ~sound' /\ journal' = journal
  <2>1. \A d \in Cycle : /\ abandon'[d] \subseteq abandon[d]
                        /\ \A k \in abandon[d] \ abandon'[d] : journal[k].step \in Idempotent
    BY <1>2, <1>5
  <2> QED
    BY <1>5, <1>6, <1>7, <2>1, UnwrittenStep
<1>8. CASE sound /\ sound' /\ next[c] = Len(journal) + 1 /\ journal' = Append(journal, e)
  <2>1. i <= Len(journal)
    BY <1>0, <1>2, Events
  <2>2. ASSUME NEW d \in Cycle, pc[d] = "dispatch", At(d) \notin Idempotent
        PROVE  next[d] - 1 # i
    BY <1>0, <1>2, <1>8, <2>2 DEF JournalInv, Own, AtWork
  <2>3. \A d \in Cycle \ {c} : /\ next'[d] = next[d] /\ pc'[d] = pc[d]
                              /\ record'[d] = record[d] /\ abandon'[d] = abandon[d]
    BY <1>5
  <2>4. /\ next'[c] \in {next[c], next[c] + 1} /\ abandon'[c] \subseteq abandon[c]
        /\ Reports(c) /\ pc'[c] # "commit" /\ pc'[c] \notin MidStep
        /\ \A k \in abandon[c] \ abandon'[c] : journal[k].step \in Idempotent
    BY <1>2, <1>5, <1>6
  <2>5. /\ e.intent <= Len(journal)
        /\ \A d \in Cycle \ {c} :
             pc[d] = "dispatch" /\ At(d) \notin Idempotent => next[d] - 1 # e.intent
        /\ e.status = "abandoned_safe" /\ e.step \in Idempotent
    BY <1>2, <1>3, <2>1, <2>2
  <2> QED
    BY <1>3, <1>5, <1>8, <2>3, <2>4, <2>5, WrittenStep
<1> QED
  BY <1>0, <1>4, <1>7, <1>8, WriteCases

LEMMA IntentStep ==
    ASSUME IInv, NEW c \in Cycle, Intent(c)
    PROVE  JournalInv' /\ EffectInv'
<1>0. TypeOK /\ JournalInv
  BY DEF IInv
<1>1. PICK place \in {"skipping", "dispatch"} : Goto(c, place)
  BY DEF Intent
<1>2. /\ Write(c, PendingIntent(c)) /\ At(c) \in Step
      /\ UNCHANGED <<abandon, record, effects, opened>>
      /\ next'[c] = next[c] + 1
      /\ \A d \in Cycle \ {c} : next'[d] = next[d]
      /\ pc'[c] = place
      /\ \A d \in Cycle \ {c} : pc'[d] = pc[d]
  BY <1>0, <1>1, Advances, Goes DEF Intent, history, Place, Running, Writing
<1>3. PendingIntent(c) \in Event
  BY <1>0, <1>2, IntentEvent
<1>4. /\ PendingIntent(c).intent = 0 /\ PendingIntent(c).ticket = c
      /\ PendingIntent(c).step = AtWork(c)'
  BY <1>2 DEF PendingIntent, AtWork, At
<1>5. \A d \in Cycle : Reports(d) /\ abandon'[d] = abandon[d]
                      /\ (pc'[d] = "commit" => pc[d] = "commit" /\ record'[d] = record[d])
  BY <1>2 DEF Reports
<1>6. CASE ~sound' /\ journal' = journal
  BY <1>2, <1>5, <1>6, UnwrittenStep
<1>7. CASE /\ sound /\ sound' /\ next[c] = Len(journal) + 1
           /\ journal' = Append(journal, PendingIntent(c))
  BY <1>2, <1>3, <1>4, <1>5, <1>7, WrittenStep
<1> QED
  BY <1>0, <1>2, <1>6, <1>7, WriteCases

LEMMA FailureStep ==
    ASSUME IInv, NEW c \in Cycle, Unresolvable(c) \/ IntentFails(c)
    PROVE  JournalInv' /\ EffectInv'
<1>0. TypeOK /\ JournalInv
  BY DEF IInv
<1>1. PICK status \in Status : Report(c, status)
  BY FailureFacts DEF Status
<1>2. /\ \A d \in Cycle \ {c} : record'[d] = record[d]
      /\ \A d \in Cycle : Reports(d)
  BY <1>0, <1>1, OtherRecords
<1>3. /\ pc[c] = "ready" /\ At(c) \in Step
      /\ UNCHANGED <<pc, next, abandon, effects, opened>>
  BY FailureFacts
<1>4. \A d \in Cycle : pc'[d] \in MidStep => pc'[d] = pc[d] /\ record'[d] = record[d]
  BY <1>2, <1>3
<1>5. ASSUME journal' = journal, sound' => sound PROVE JournalInv' /\ EffectInv'
  BY <1>2, <1>3, <1>4, <1>5, UnwrittenStep
<1>6. ASSUME Write(c, PendingIntent(c)) PROVE JournalInv' /\ EffectInv'
  <2>1. PendingIntent(c) \in Event /\ PendingIntent(c).intent = 0
    BY <1>0, <1>3, IntentEvent DEF PendingIntent
  <2>2. CASE ~sound' /\ journal' = journal
    BY <1>5, <2>2
  <2>3. CASE /\ sound /\ sound' /\ next[c] = Len(journal) + 1
             /\ journal' = Append(journal, PendingIntent(c))
    BY <1>2, <1>3, <2>1, <2>3, WrittenStep
  <2> QED
    BY <1>0, <1>6, <2>2, <2>3, WriteCases
<1>7. ASSUME journal' = journal, sound' \in {sound, FALSE} PROVE JournalInv' /\ EffectInv'
  <2>1. sound' => sound
    BY <1>7
  <2> QED
    BY <1>5, <1>7, <2>1
<1> QED
  BY <1>6, <1>7, FailureFacts

LEMMA CommitStep ==
    ASSUME IInv, NEW c \in Cycle, Commit(c)
    PROVE  JournalInv' /\ EffectInv'
<1>0. TypeOK /\ JournalInv
  BY DEF IInv
<1> DEFINE Event1(status) == [ticket |-> c, step |-> AtWork(c), intent |-> next[c] - 1,
                              status |-> status]
<1>1. PICK status \in Status :
           /\ Write(c, Event1(status)) /\ Advance(c) /\ Goto(c, "ready")
           /\ UNCHANGED <<results, orphans, abandon, stop, history>>
           /\ record'[c][AtWork(c)] = status
           /\ Len(record'[c]) = AtWork(c) /\ AtWork(c) \in Step
           /\ pc[c] \in {"skipping", "commit"}
           /\ record' = record \/ (status = "skipped" /\ Report(c, "skipped"))
  BY CommitFacts
<1>2. /\ \A d \in Cycle \ {c} : record'[d] = record[d]
      /\ \A d \in Cycle : Reports(d)
  <2>1. CASE record' = record
    BY <2>1 DEF Reports
  <2>2. CASE status = "skipped" /\ Report(c, "skipped")
    BY <1>0, <2>2, OtherRecords
  <2> QED
    BY <1>1, <2>1, <2>2
<1>3. /\ UNCHANGED <<abandon, effects, opened>>
      /\ next'[c] = next[c] + 1
      /\ \A d \in Cycle \ {c} : next'[d] = next[d]
      /\ pc'[c] = "ready"
      /\ \A d \in Cycle \ {c} : pc'[d] = pc[d]
  BY <1>0, <1>1, Advances, Goes DEF history, Place, Running, Writing
<1>4. CASE ~sound' /\ journal' = journal
  <2>1. \A d \in Cycle : /\ abandon'[d] = abandon[d]
                        /\ pc'[d] = "commit" => pc[d] = "commit" /\ record'[d] = record[d]
    BY <1>2, <1>3
  <2> QED
    BY <1>2, <1>3, <1>4, <2>1, UnwrittenStep
<1>5. CASE /\ sound /\ sound' /\ next[c] = Len(journal) + 1
           /\ journal' = Append(journal, Event1(status))
  <2>1. next[c] - 1 \in Intents /\ journal[next[c] - 1].ticket = c
    BY <1>0, <1>1, <1>5 DEF JournalInv, Own
  <2>2. /\ next[c] - 1 \in 1 .. Len(journal) /\ Len(journal) \in Nat
    BY <1>0, <2>1, Events DEF Intents
  <2>3. /\ Event1(status) \in Event
        /\ Event1(status).intent = next[c] - 1
        /\ Event1(status).ticket = c /\ Event1(status).step = AtWork(c)
        /\ Event1(status).status = status
    BY <1>1, <2>2 DEF Event
  <2>4. ASSUME NEW d \in Cycle \ {c}, pc[d] = "dispatch"
        PROVE  next[d] - 1 # next[c] - 1
    BY <1>0, <1>5, <2>1, <2>4 DEF JournalInv, Own
  <2>5. AtWork(c) <= Len(record'[c]) /\ next[c] - 1 <= Len(journal)
    BY <1>1, <2>2
  <2> DEFINE e == Event1(status)
  <2> HIDE DEF Event1, e
  <2>6. \A d \in Cycle \ {c} : /\ next'[d] = next[d] /\ pc'[d] = pc[d]
                              /\ record'[d] = record[d] /\ abandon'[d] = abandon[d]
    BY <1>2, <1>3
  <2>7. /\ next'[c] \in {next[c], next[c] + 1} /\ abandon'[c] = abandon[c]
        /\ Reports(c) /\ pc'[c] # "commit" /\ pc'[c] \notin MidStep
    BY <1>2, <1>3
  <2>8. /\ e \in Event /\ e.intent <= Len(journal)
        /\ \A d \in Cycle \ {c} :
             pc[d] = "dispatch" /\ At(d) \notin Idempotent => next[d] - 1 # e.intent
        /\ e.status # "abandoned_safe"
        /\ e.ticket = c /\ e.step <= Len(record'[c])
        /\ e.status = record'[c][e.step]
    BY <1>1, <2>3, <2>4, <2>5 DEF e, Status
  <2>9. journal' = Append(journal, e)
    BY <1>5 DEF e
  <2> QED
    BY <1>3, <1>5, <2>6, <2>7, <2>8, <2>9, WrittenStep
<1> QED
  BY <1>0, <1>1, <1>4, <1>5, WriteCases

LEMMA StepIInv == IInv /\ [Next]_vars => IInv'
<1> SUFFICES ASSUME IInv, [Next]_vars PROVE IInv'
  OBVIOUS
<1>1. ASSUME NEW c \in Cycle,
             \/ Aside(c) \/ Open(c) \/ Abandon(c) \/ Intent(c)
             \/ Unresolvable(c) \/ IntentFails(c) \/ Dispatch(c) \/ Commit(c)
      PROVE  IInv'
  <2>1. TypeOK' /\ Progress' /\ Settled' /\ Performed'
    BY <1>1, StepTypes, StepSettled, StepPerformed
  <2>2. JournalInv' /\ EffectInv'
    BY <1>1, AsideStep, OpenStep, AbandonStep, IntentStep, FailureStep, DispatchStep, CommitStep
  <2> QED
    BY <2>1, <2>2 DEF IInv
<1>2. CASE UNCHANGED vars
  <2>1. UNCHANGED <<journal, sound, results, pc, orphans, next, abandon, record, stop,
                    effects, opened>>
    BY <1>2 DEF vars, probeVars, history
  <2>2. TypeOK' /\ Progress' /\ Settled' /\ Performed'
    <3>1. TypeOK'
      BY <2>1 DEF IInv, TypeOK
    <3>2. Progress'
      BY <2>1 DEF IInv, Progress, AtWork, At
    <3>3. Performed'
      BY <2>1 DEF IInv, Performed, PerformedBy, Done
    <3>4. Settled'
      BY <2>1 DEF IInv, Settled
    <3> QED
      BY <3>1, <3>2, <3>3, <3>4
  <2>3. \A d \in Cycle : Reports(d)
    BY <2>1 DEF Reports
  <2>4. JournalInv' /\ EffectInv'
    BY <2>1, <2>3, UnwrittenStep
  <2> QED
    BY <2>2, <2>4 DEF IInv
<1>3. CASE Next
  BY <1>1, <1>3 DEF Next, Aside
<1> QED
  BY <1>2, <1>3

LEMMA Inductive == Spec => []IInv
  BY InitIInv, StepIInv, PTL DEF Spec

-----------------------------------------------------------------------------
(* The properties.                                                         *)

LEMMA ActorCleared ==
    ASSUME IInv, NEW j \in DOMAIN effects
    PROVE  Cleared(effects[j].by)
<1>1. effects[j].by \in Cycle /\ effects[j].step \in Step
  BY Effects DEF IInv
<1>2. effects[j].step <= Len(record[effects[j].by])
  BY <1>1 DEF IInv, Performed, PerformedBy
<1>3. Len(record[effects[j].by]) > 0
  <2>1. Len(record[effects[j].by]) \in Nat
    BY <1>1 DEF IInv, TypeOK
  <2> QED
    BY <1>1, <1>2, <2>1
<1> QED
  BY <1>1, <1>3 DEF IInv, Settled, Cleared

\* Types.
THEOREM TypeCorrect == Spec => []TypeOK
<1>1. IInv => TypeOK
  BY DEF IInv
<1> QED
  BY <1>1, Inductive, PTL

\* An action whose outcome nobody knows ends the dispatching.
THEOREM UncertainBlocksHolds == Spec => []UncertainBlocks
<1>1. IInv => UncertainBlocks
  <2> SUFFICES ASSUME IInv PROVE UncertainBlocks
    OBVIOUS
  <2>1. TypeOK /\ Known
    BY DEF IInv, EffectInv
  <2>2. \A j \in DOMAIN effects : effects[j].by \in Cycle /\ Cleared(effects[j].by)
    BY <2>1, Effects, ActorCleared
  <2> QED
    BY <2>1, <2>2 DEF UncertainBlocks, Known
<1> QED
  BY <1>1, Inductive, PTL

\* A step after which a cycle is verified is its verification.
LEMMA OnlyVerify ==
    ASSUME IInv, [Next]_vars, NEW c \in Cycle, Verified(c)
    PROVE  Verifies(c) /\ UNCHANGED <<journal, sound, results, record, effects, opened>>
<1>0. pc \in [Cycle -> Place]
  BY DEF IInv, TypeOK
<1>1. Next
  BY DEF Verified, vars
<1>2. PICK d \in Cycle :
        \/ Plan(d) \/ Preflight(d) \/ Verify(d) \/ CycleKilled(d)
        \/ ConsumeTicket(d) \/ Open(d) \/ OpenRefused(d)
        \/ Abandon(d) \/ Opened(d)
        \/ Intent(d) \/ Unresolvable(d) \/ IntentFails(d)
        \/ Dispatch(d) \/ Commit(d) \/ Finish(d) \/ ProbeDies(d)
  BY <1>1 DEF Next
<1> USE <1>0 DEF Verified, Goto
<1>3. ~(Plan(d) \/ Preflight(d) \/ CycleKilled(d) \/ ConsumeTicket(d) \/ Open(d) \/ OpenRefused(d))
  BY DEF Plan, Preflight, CycleKilled, ConsumeTicket, Open, OpenRefused
<1>4. ~(Abandon(d) \/ Opened(d) \/ Intent(d) \/ Unresolvable(d) \/ IntentFails(d))
  BY DEF Abandon, Opened, Intent, Unresolvable, IntentFails
<1>5. ~(Dispatch(d) \/ Commit(d) \/ Finish(d) \/ ProbeDies(d))
  BY DEF Dispatch, Commit, Close, Finish, ProbeDies
<1>6. Verify(d)
  BY <1>2, <1>3, <1>4, <1>5
<1>7. d = c /\ Verifies(c)
  BY <1>6 DEF Verify
<1> QED
  BY <1>6, <1>7 DEF Verify, probeVars, history

\* The work of a verified cycle was not disturbed.
THEOREM VerifiedAloneHolds == Spec => VerifiedAlone
<1>1. IInv /\ [Next]_vars =>
        [\A c \in Cycle : Verified(c) =>
           \A i, j \in DOMAIN effects :
             opened[c] < i /\ i < j /\ effects[j].by = c =>
                 \/ effects[i].by = c
                 \/ effects[i].step \in Idempotent]_vars
  <2> SUFFICES ASSUME IInv, [Next]_vars, NEW c \in Cycle, Verified(c),
                      NEW i \in DOMAIN effects, NEW j \in DOMAIN effects,
                      opened[c] < i, i < j, effects[j].by = c,
                      effects[i].by # c, effects[i].step \notin Idempotent
               PROVE  FALSE
    OBVIOUS
  <2>1. Verifies(c)
    BY OnlyVerify
  <2>2. PICK s \in 1 .. Len(record[c]) : \A k \in CurrentCommits(c) : journal[k].step # s
    BY <2>1, ActorCleared DEF IInv, EffectInv, Doomed, Intruder, Verifies, Readable
  <2>3. Len(record[c]) \in Nat /\ Len(record[c]) <= MaxStep
    BY DEF IInv, TypeOK, Progress
  <2>4. s \in Step
    BY <2>2, <2>3
  <2> QED
    BY <2>1, <2>2, <2>4 DEF Verifies, Covers
<1> QED
  BY <1>1, Inductive, PTL DEF Spec, VerifiedAlone

\* The results of a verified cycle tell what its probe did.
THEOREM VerifiedPerformedHolds == Spec => VerifiedPerformed
<1>1. IInv /\ [Next]_vars =>
        [\A c \in Cycle : Verified(c) =>
           \A s \in Step :
             LET done == {i \in DOMAIN effects : effects[i] = [by |-> c, step |-> s]}
             IN /\ results.statuses[s] = "passed" => \E i \in done : done = {i}
                /\ results.statuses[s] = "skipped" => done = {}]_vars
  <2> SUFFICES ASSUME IInv, [Next]_vars, NEW c \in Cycle, Verified(c), NEW s \in Step
               PROVE  /\ results.statuses[s] = "passed" => \E i \in Done(c, s) : Done(c, s) = {i}
                      /\ results.statuses[s] = "skipped" => Done(c, s) = {}
    BY DEF Done
  <2>1. Verifies(c)
    BY OnlyVerify
  <2>2. PICK k \in CurrentCommits(c) : journal[k].step = s
    BY <2>1 DEF Verifies, Covers
  <2>3. journal[k].status = results.statuses[s]
    BY <2>1, <2>2 DEF Verifies
  <2>4. s <= Len(record[c]) /\ journal[k].status = record[c][s]
    BY <2>2 DEF IInv, JournalInv, Committed
  <2>5. s \in 1 .. Len(record[c])
    BY <2>4 DEF IInv, TypeOK
  <2> QED
    BY <2>3, <2>4, <2>5 DEF IInv, Performed, PerformedBy
<1> QED
  BY <1>1, Inductive, PTL DEF Spec, VerifiedPerformed

-----------------------------------------------------------------------------
(* What the journal says of the actions that were done.                    *)

\* No action without an intent that was written before, as long as every line
\* of the journal continues the chain: after any crash a reader finds an
\* intent for whatever may have reached the tested system.
THEOREM IntendedHolds == Spec => []Intended
<1>1. IInv => Intended
  BY DEF IInv, EffectInv
<1> QED
  BY <1>1, Inductive, PTL

\* A cycle does each of its steps once at most.
Once == \A i, j \in DOMAIN effects : effects[i] = effects[j] => i = j

LEMMA StepOnce == IInv /\ Once /\ [Next]_vars => Once'
<1> SUFFICES ASSUME IInv, Once, [Next]_vars PROVE Once'
  OBVIOUS
<1>1. ASSUME effects' = effects PROVE Once'
  BY <1>1 DEF Once
<1>2. ASSUME NEW c \in Cycle, Dispatch(c) PROVE Once'
  <2> DEFINE done == [by |-> c, step |-> At(c)]
  <2>1. effects' = Append(effects, done) \/ effects' = effects
    BY <1>2, DispatchFacts
  <2>2. CASE effects' = Append(effects, done)
    <3>1. \A i \in DOMAIN effects : effects[i].by = c => effects[i].step <= Len(record[c])
      BY DEF IInv, Performed, PerformedBy
    <3>2. Len(record[c]) \in Nat /\ At(c) = Len(record[c]) + 1
      BY DEF IInv, TypeOK, At
    <3>3. \A i \in DOMAIN effects : effects[i] # done
      BY <3>1, <3>2, Effects DEF IInv
    <3> HIDE DEF done
    <3> QED
      BY <2>2, <3>3, EffectsGrow DEF IInv, Once
  <2> QED
    BY <1>1, <2>1, <2>2
<1>3. CASE UNCHANGED vars
  BY <1>1, <1>3 DEF vars, history
<1>4. ASSUME NEW c \in Cycle,
             \/ Aside(c) \/ Open(c) \/ Abandon(c) \/ Intent(c)
             \/ Unresolvable(c) \/ IntentFails(c) \/ Commit(c)
      PROVE  effects' = effects
  BY <1>4, AsideFacts, FailureFacts, CommitFacts DEF Open, Abandon, Intent, history
<1>5. CASE Next
  BY <1>1, <1>2, <1>4, <1>5 DEF Next, Aside
<1> QED
  BY <1>3, <1>5

\* A probe does no step twice, whatever the statuses it reports, the crashes
\* and the appends that fail: what is done again is done by a later cycle.
THEOREM OnceHolds == Spec => []Once
<1>1. Init => Once
  BY DEF Init, Once
<1> QED
  BY <1>1, StepOnce, Inductive, PTL DEF Spec

-----------------------------------------------------------------------------
(* A step that the journal does not know of.                               *)

\* Step s is behind the probe of c, and no commit is there for it.
Missed(c, s) ==
    /\ s \in 1 .. Len(record[c])
    /\ pc[c] = "commit" => s < Len(record[c])
    /\ \A k \in CurrentCommits(c) : journal[k].step # s

Lost(c) == \E s \in Step : Missed(c, s)

CommittedAll(c) ==
    pc[c] = "verified" =>
        \A s \in Step : \E k \in CurrentCommits(c) : journal[k].step = s

\* What an action may do to the journal and the record of a cycle that has
\* missed a step.
LEMMA MissedKept ==
    ASSUME IInv, NEW d \in Cycle, NEW s \in Step, Missed(d, s), Reports(d),
           pc'[d] = "commit" => s < Len(record'[d]),
           \/ journal' = journal
           \/ \E e \in Event :
                /\ journal' = Append(journal, e)
                /\ e.ticket = d /\ e.status # "abandoned_safe" /\ e.intent # 0
                     => e.step # s
    PROVE  Missed(d, s)'
<1>0. TypeOK /\ Backward
  BY DEF IInv, JournalInv
<1>1. s \in 1 .. Len(record'[d])
  BY <1>0, RecordGrows DEF Missed
<1>2. CASE journal' = journal
  <2>1. CurrentCommits(d)' = CurrentCommits(d)
    BY <1>2 DEF CurrentCommits, Commits, Intents
  <2> QED
    BY <1>1, <1>2, <2>1 DEF Missed
<1>3. ASSUME NEW e \in Event, journal' = Append(journal, e),
             e.ticket = d /\ e.status # "abandoned_safe" /\ e.intent # 0 => e.step # s
      PROVE  Missed(d, s)'
  <2> DEFINE n == Len(journal) + 1
  <2>1. CurrentCommits(d)' =
          IF e.intent # 0 /\ e.ticket = d /\ e.status # "abandoned_safe"
          THEN CurrentCommits(d) \cup {n} ELSE CurrentCommits(d)
    BY <1>0, <1>3, Appended
  <2>2. /\ CurrentCommits(d) \subseteq DOMAIN journal
        /\ \A i \in DOMAIN journal : journal'[i] = journal[i]
        /\ journal'[n] = e
    BY <1>0, <1>3, JournalGrows DEF CurrentCommits, Commits
  <2> HIDE DEF n
  <2>3. \A k \in CurrentCommits(d)' : journal'[k].step # s
    BY <1>3, <2>1, <2>2 DEF Missed
  <2> QED
    BY <1>1, <2>3 DEF Missed
<1> QED
  BY <1>2, <1>3

LEMMA MissedStep ==
    ASSUME IInv, [Next]_vars, NEW d \in Cycle, NEW s \in Step, Missed(d, s)
    PROVE  Missed(d, s)'
<1>0. /\ TypeOK /\ JournalInv
      /\ s \in 1 .. Len(record[d]) /\ Len(record[d]) \in Nat
      /\ pc[d] = "commit" => s < Len(record[d])
  <2>1. TypeOK /\ JournalInv
    BY DEF IInv
  <2>2. Len(record[d]) \in Nat
    BY <2>1 DEF TypeOK
  <2> QED
    BY <2>1, <2>2 DEF Missed
<1>1. ASSUME UNCHANGED <<journal, record>>, pc'[d] = "commit" => pc[d] = "commit"
      PROVE  Missed(d, s)'
  BY <1>0, <1>1, MissedKept DEF Reports
<1>2. ASSUME NEW c \in Cycle, Aside(c)
      PROVE  Missed(d, s)'
  <2>1. /\ UNCHANGED <<journal, record>>
        /\ pc' \in {pc} \cup {[pc EXCEPT ![c] = place] : place \in Place \ MidStep}
    BY <1>2, AsideFacts
  <2>2. pc'[d] = pc[d] \/ pc'[d] \notin MidStep
    BY <1>0, <2>1 DEF TypeOK
  <2> QED
    BY <1>1, <2>1, <2>2 DEF MidStep
<1>3. ASSUME NEW c \in Cycle, Open(c)
      PROVE  Missed(d, s)'
  <2>1. UNCHANGED <<journal, record>> /\ Goto(c, "abandon")
    BY <1>3 DEF Open
  <2>2. pc'[d] = "commit" => pc[d] = "commit"
    BY <1>0, <2>1, Goes DEF Place, Running, Writing
  <2> QED
    BY <1>1, <2>1, <2>2
<1>4. ASSUME NEW c \in Cycle, Abandon(c)
      PROVE  Missed(d, s)'
  <2>1. PICK i \in abandon[c] :
            Write(c, [journal[i] EXCEPT !.intent = i, !.status = "abandoned_safe"])
    BY <1>4 DEF Abandon, Oldest
  <2> DEFINE e == [journal[i] EXCEPT !.intent = i, !.status = "abandoned_safe"]
  <2>2. e \in Event /\ e.status = "abandoned_safe"
    <3>1. i \in DOMAIN journal
      BY <1>0 DEF JournalInv, Abandoned, Intents
    <3>2. journal[i] \in Event /\ i \in Nat
      BY <1>0, <3>1, Events
    <3> QED
      BY <3>2 DEF Event
  <2>3. UNCHANGED <<pc, record>> /\ Write(c, e)
    BY <1>4, <2>1 DEF Abandon
  <2> HIDE DEF e
  <2>4. journal' = journal \/ journal' = Append(journal, e)
    BY <1>0, <2>3, WriteCases
  <2> QED
    BY <1>0, <2>2, <2>3, <2>4, MissedKept DEF Reports
<1>5. ASSUME NEW c \in Cycle, Intent(c)
      PROVE  Missed(d, s)'
  <2>1. PICK place \in {"skipping", "dispatch"} : Goto(c, place)
    BY <1>5 DEF Intent
  <2>2. pc'[d] = "commit" => pc[d] = "commit"
    BY <1>0, <2>1, Goes DEF Place, Running, Writing
  <2>3. record' = record /\ Write(c, PendingIntent(c)) /\ At(c) \in Step
    BY <1>5 DEF Intent
  <2>4. PendingIntent(c) \in Event /\ PendingIntent(c).intent = 0
    BY <1>0, <2>3, IntentEvent DEF PendingIntent
  <2>5. journal' = journal \/ journal' = Append(journal, PendingIntent(c))
    BY <1>0, <2>3, WriteCases
  <2> QED
    BY <1>0, <2>2, <2>3, <2>4, <2>5, MissedKept DEF Reports
<1>6. ASSUME NEW c \in Cycle, Unresolvable(c) \/ IntentFails(c)
      PROVE  Missed(d, s)'
  <2>1. PICK status \in Status : Report(c, status)
    BY <1>6, FailureFacts DEF Status
  <2>2. Reports(d) /\ (d # c => record'[d] = record[d])
    BY <1>0, <2>1, OtherRecords
  <2>3. pc[c] = "ready" /\ pc' = pc /\ At(c) \in Step
    BY <1>6, FailureFacts
  <2>4. pc'[d] = "commit" => s < Len(record'[d])
    BY <1>0, <2>2, <2>3
  <2>5. PendingIntent(c) \in Event /\ PendingIntent(c).intent = 0
    BY <1>0, <2>3, IntentEvent DEF PendingIntent
  <2>6. journal' = journal \/ journal' = Append(journal, PendingIntent(c))
    BY <1>0, <1>6, FailureFacts, WriteCases
  <2> QED
    BY <2>2, <2>4, <2>5, <2>6, MissedKept
<1>7. ASSUME NEW c \in Cycle, Dispatch(c)
      PROVE  Missed(d, s)'
  <2>1. PICK status \in Status : Report(c, status)
    BY <1>7, DispatchFacts DEF Status
  <2>2. /\ Reports(d) /\ (d # c => record'[d] = record[d])
        /\ Len(record'[c]) = At(c)
    BY <1>0, <2>1, OtherRecords
  <2>3. journal' = journal /\ (d # c => pc'[d] = pc[d])
    BY <1>0, <1>7, DispatchFacts, Goes DEF Place, Running, Writing
  <2>4. pc'[d] = "commit" => s < Len(record'[d])
    BY <1>0, <2>2, <2>3 DEF At
  <2> QED
    BY <2>2, <2>3, <2>4, MissedKept
<1>8. ASSUME NEW c \in Cycle, Commit(c)
      PROVE  Missed(d, s)'
  <2> DEFINE e(status) == [ticket |-> c, step |-> AtWork(c), intent |-> next[c] - 1,
                           status |-> status]
  <2>1. PICK status \in Status :
             /\ Write(c, e(status)) /\ Goto(c, "ready")
             /\ AtWork(c) \in Step /\ pc[c] \in {"skipping", "commit"}
             /\ record' = record \/ (status = "skipped" /\ Report(c, "skipped"))
    BY <1>8, CommitFacts
  <2>2. pc'[d] = "commit" => record'[d] = record[d] /\ pc'[d] = pc[d]
    BY <1>0, <2>1, OtherRecords, Goes DEF Place, Running, Writing
  <2>3. Reports(d)
    <3>1. CASE record' = record
      BY <3>1 DEF Reports
    <3>2. CASE status = "skipped" /\ Report(c, "skipped")
      BY <1>0, <3>2, OtherRecords
    <3> QED
      BY <2>1, <3>1, <3>2
  <2>4. CASE journal' = journal
    BY <1>0, <2>2, <2>3, <2>4, MissedKept
  <2>5. CASE sound /\ journal' = Append(journal, e(status))
    <3>1. next[c] - 1 \in Nat
      <4>1. next[c] - 1 \in Intents
        BY <1>0, <2>1, <2>5 DEF JournalInv, Own
      <4> QED
        BY <1>0, <4>1, Events DEF Intents
    <3>2. e(status) \in Event /\ e(status).ticket = c /\ e(status).step = AtWork(c)
      BY <2>1, <3>1 DEF Event
    <3>3. c = d => AtWork(c) # s
      BY <1>0, <2>1 DEF AtWork, At
    <3> HIDE DEF e
    <3> QED
      BY <1>0, <2>2, <2>3, <2>5, <3>2, <3>3, MissedKept
  <2> QED
    BY <1>0, <2>1, <2>4, <2>5, WriteCases
<1>9. CASE UNCHANGED vars
  BY <1>1, <1>9 DEF vars, probeVars
<1> QED
  BY <1>2, <1>3, <1>4, <1>5, <1>6, <1>7, <1>8, <1>9 DEF Next, Aside

\* A step that fails or is skipped before it has an intent, or whose intent
\* could not be appended, is missed.
LEMMA FailureMisses ==
    ASSUME IInv, NEW c \in Cycle, Unresolvable(c) \/ IntentFails(c)
    PROVE  Lost(c)'
<1>0. TypeOK /\ JournalInv
  BY DEF IInv
<1>1. PICK status \in Status : Report(c, status)
  BY FailureFacts DEF Status
<1>2. /\ pc'[c] = "ready" /\ At(c) \in Step
      /\ \/ journal' = journal
         \/ journal' = Append(journal, PendingIntent(c))
  BY <1>0, FailureFacts, WriteCases
<1>3. Len(record'[c]) = At(c) /\ At(c) = Len(record[c]) + 1 /\ Len(record[c]) \in Nat
  <2>1. Len(record'[c]) = At(c)
    BY <1>0, <1>1, OtherRecords
  <2>2. Len(record[c]) \in Nat
    BY <1>0 DEF TypeOK
  <2> QED
    BY <2>1, <2>2 DEF At
<1>4. \A k \in CurrentCommits(c) : k \in DOMAIN journal /\ journal[k].step # At(c)
  <2>1. \A k \in CurrentCommits(c) : journal[k].step <= Len(record[c])
    BY <1>0 DEF JournalInv, Committed
  <2> QED
    BY <1>0, <1>3, <2>1, Events DEF CurrentCommits, Commits
<1>5. CurrentCommits(c)' = CurrentCommits(c)
      /\ \A k \in CurrentCommits(c) : journal'[k] = journal[k]
  <2>1. CASE journal' = journal
    BY <2>1 DEF CurrentCommits, Commits, Intents
  <2>2. CASE journal' = Append(journal, PendingIntent(c))
    <3>1. PendingIntent(c) \in Event /\ PendingIntent(c).intent = 0
      BY <1>0, <1>2, IntentEvent DEF PendingIntent
    <3>2. CurrentCommits(c)' = CurrentCommits(c)
      BY <1>0, <2>2, <3>1, Appended DEF JournalInv
    <3> QED
      BY <1>0, <1>4, <2>2, <3>1, <3>2, JournalGrows
  <2> QED
    BY <1>2, <2>1, <2>2
<1>6. ASSUME NEW s \in Step, s = At(c)
      PROVE  Missed(c, s)'
  <2>1. s \in 1 .. Len(record'[c])
    BY <1>2, <1>3, <1>6
  <2>2. \A k \in CurrentCommits(c)' : journal'[k].step # s
    BY <1>4, <1>5, <1>6
  <2> QED
    BY <1>2, <2>1, <2>2 DEF Missed
<1> QED
  BY <1>2, <1>6 DEF Lost

\* A commit that is there stays.
LEMMA CommitsStay ==
    ASSUME IInv, [Next]_vars, NEW d \in Cycle, NEW k \in CurrentCommits(d)
    PROVE  k \in CurrentCommits(d)' /\ journal'[k] = journal[k]
<1>0. TypeOK /\ JournalInv /\ k \in DOMAIN journal
  BY DEF IInv, CurrentCommits, Commits
<1>1. ASSUME journal' = journal
      PROVE  k \in CurrentCommits(d)' /\ journal'[k] = journal[k]
  BY <1>1 DEF CurrentCommits, Commits, Intents
<1>2. ASSUME NEW e \in Event, journal' = Append(journal, e)
      PROVE  k \in CurrentCommits(d)' /\ journal'[k] = journal[k]
  BY <1>0, <1>2, Appended, JournalGrows DEF JournalInv
<1>3. ASSUME NEW c \in Cycle, NEW e \in Event, Write(c, e)
      PROVE  k \in CurrentCommits(d)' /\ journal'[k] = journal[k]
  BY <1>0, <1>1, <1>2, <1>3, WriteCases
<1>4. ASSUME NEW c \in Cycle, Aside(c) \/ Open(c)
      PROVE  k \in CurrentCommits(d)' /\ journal'[k] = journal[k]
  BY <1>1, <1>4, AsideFacts DEF Open
<1>5. ASSUME NEW c \in Cycle, Abandon(c)
      PROVE  k \in CurrentCommits(d)' /\ journal'[k] = journal[k]
  <2>1. PICK i \in abandon[c] :
            Write(c, [journal[i] EXCEPT !.intent = i, !.status = "abandoned_safe"])
    BY <1>5 DEF Abandon, Oldest
  <2>2. i \in DOMAIN journal
    BY <1>0 DEF JournalInv, Abandoned, Intents
  <2>3. journal[i] \in Event /\ i \in Nat
    BY <1>0, <2>2, Events
  <2>4. [journal[i] EXCEPT !.intent = i, !.status = "abandoned_safe"] \in Event
    BY <2>3 DEF Event
  <2> QED
    BY <1>3, <2>1, <2>4
<1>6. ASSUME NEW c \in Cycle, Intent(c)
      PROVE  k \in CurrentCommits(d)' /\ journal'[k] = journal[k]
  BY <1>0, <1>3, <1>6, IntentEvent DEF Intent
<1>7. ASSUME NEW c \in Cycle, Unresolvable(c) \/ IntentFails(c)
      PROVE  k \in CurrentCommits(d)' /\ journal'[k] = journal[k]
  BY <1>0, <1>1, <1>3, <1>7, FailureFacts, IntentEvent
<1>8. ASSUME NEW c \in Cycle, Dispatch(c)
      PROVE  k \in CurrentCommits(d)' /\ journal'[k] = journal[k]
  BY <1>1, <1>8, DispatchFacts
<1>9. ASSUME NEW c \in Cycle, Commit(c)
      PROVE  k \in CurrentCommits(d)' /\ journal'[k] = journal[k]
  <2> DEFINE e(status) == [ticket |-> c, step |-> AtWork(c), intent |-> next[c] - 1,
                           status |-> status]
  <2>1. PICK status \in Status :
             /\ Write(c, e(status)) /\ AtWork(c) \in Step
             /\ pc[c] \in {"skipping", "commit"}
    BY <1>9, CommitFacts
  <2>2. CASE sound
    <3>1. next[c] - 1 \in Intents
      BY <1>0, <2>1, <2>2 DEF JournalInv, Own
    <3>2. next[c] - 1 \in Nat
      BY <1>0, <3>1, Events DEF Intents
    <3>3. e(status) \in Event
      BY <2>1, <3>2 DEF Event
    <3> HIDE DEF e
    <3> QED
      BY <1>3, <2>1, <3>3
  <2>3. CASE ~sound
    BY <1>1, <2>1, <2>3 DEF Write
  <2> QED
    BY <2>2, <2>3
<1>10. CASE UNCHANGED vars
  BY <1>1, <1>10 DEF vars
<1> QED
  BY <1>4, <1>5, <1>6, <1>7, <1>8, <1>9, <1>10 DEF Next, Aside

LEMMA CommittedAllStep ==
    ASSUME IInv, [Next]_vars, NEW c \in Cycle, CommittedAll(c)
    PROVE  CommittedAll(c)'
<1> SUFFICES ASSUME pc'[c] = "verified", NEW s \in Step
             PROVE  \E k \in CurrentCommits(c)' : journal'[k].step = s
  BY DEF CommittedAll
<1>1. \E k \in CurrentCommits(c) : journal[k].step = s
  <2>1. CASE pc[c] = "verified"
    BY <2>1 DEF CommittedAll
  <2>2. CASE pc[c] # "verified"
    BY <2>2, OnlyVerify DEF Verified, Verifies, Covers
  <2> QED
    BY <2>1, <2>2
<1> QED
  BY <1>1, CommitsStay

\* A cycle misses a step for good once its probe has left the step behind
\* without a commit, and is never verified: for every plan the step that
\* cannot be resolved, a skipped teardown among them, refuses the run.
THEOREM MissedStepRefuses ==
    ASSUME NEW c \in Cycle
    PROVE  Spec => /\ [][Unresolvable(c) \/ IntentFails(c) => Lost(c)']_vars
                   /\ [](Lost(c) => [](Lost(c) /\ pc[c] # "verified"))
<1>1. IInv /\ [Next]_vars => [Unresolvable(c) \/ IntentFails(c) => Lost(c)']_vars
  BY FailureMisses
<1>2. IInv /\ [Next]_vars /\ Lost(c) => Lost(c)'
  BY MissedStep DEF Lost
<1>3. Init => CommittedAll(c)
  BY DEF Init, CommittedAll
<1>4. IInv /\ [Next]_vars /\ CommittedAll(c) => CommittedAll(c)'
  BY CommittedAllStep
<1>5. CommittedAll(c) /\ Lost(c) => pc[c] # "verified"
  BY DEF CommittedAll, Lost, Missed
<1> QED
  BY <1>1, <1>2, <1>3, <1>4, <1>5, Inductive, PTL DEF Spec
=============================================================================
