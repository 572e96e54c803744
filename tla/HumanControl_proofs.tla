------------------------- MODULE HumanControl_proofs -------------------------
(***************************************************************************)
(* One approval, one dispatch, for any number of invocations, runs, plans, *)
(* crashes and replacements, and whatever the clock and the authority do;  *)
(* and no high-risk dispatch without an approval but through one window.   *)
(***************************************************************************)
EXTENDS HumanControl, TLAPS

\* Each change of a plan or of an epoch is counted.
EpochBound == \A r \in Run : epoch[r] <= changes + 1

\* An invocation that has redeemed and not yet dispatched.
Entitled(g) == gate[g].gated /\ gate[g].pc \in {"compare", "contract", "ticket", "act"}

\* It works for what is redeemed and not dispatched, alone; what acts is what
\* was redeemed.
Entitlement ==
    /\ \A g \in Gate : Entitled(g) =>
          /\ stage[gate[g].intent] = "redeemed"
          /\ dispatches[gate[g].intent] = 0
    /\ \A g, h \in Gate :
          Entitled(g) /\ Entitled(h) /\ gate[g].intent = gate[h].intent => g = h
    /\ \A g \in Gate : Entitled(g) /\ gate[g].pc = "act" =>
          gate[g].contract = gate[g].intent.plan

\* Nothing is dispatched under an approval that was not redeemed.
DispatchedRedeemed ==
    \A i \in Intent : stage[i] # "redeemed" => dispatches[i] = 0

IInv == TypeOK /\ EpochBound /\ OneAhead /\ Entitlement /\ DispatchedRedeemed

\* One event is appended where the reducer accepts it, to a journal that is
\* covered to its last event; or none is.
Appended(kind, i) ==
    /\ Precedes(stage[i], kind)
    /\ checkpoint.count = length
    /\ length' = length + 1
    /\ stage' = [stage EXCEPT ![i] = kind]
    /\ expiry' \in [Intent -> 0 .. MaxTime + RequestTTL]

JournalStep ==
    \/ UNCHANGED journal
    \/ \E i \in Intent, kind \in Stage \ {"none"} : Appended(kind, i)

-----------------------------------------------------------------------------
\* There is an intent as soon as there is an invocation.
LEMMA NoWorkType ==
  ASSUME TypeOK, Gate # {}
  PROVE  /\ NoWork.pc = "idle" /\ NoWork.at = 0 /\ NoWork.seen = 0
         /\ NoWork.gated = FALSE
         /\ NoWork \in [pc : Step, at : 0 .. MaxTime, seen : 0 .. length,
                        intent : Intent, contract : Plan, gated : BOOLEAN]
<1>1. PICK g \in Gate : TRUE
  OBVIOUS
<1>2. RunOf[g] \in Run
  BY ConstantsAssumption
<1>3. plan[RunOf[g]] \in Plan
  BY <1>2 DEF TypeOK
<1>4. 1 \in 1 .. MaxChanges + 1
  BY ConstantsAssumption
<1>5. [run |-> RunOf[g], plan |-> plan[RunOf[g]], epoch |-> 1] \in Intent
  BY <1>2, <1>3, <1>4 DEF Intent
<1> DEFINE c == CHOOSE j \in Intent : TRUE
<1>6. c \in Intent
  BY <1>5
<1>7. c.plan \in Plan
  BY <1>6 DEF Intent
<1>8. 0 \in 0 .. MaxTime /\ 0 \in 0 .. length
  BY ConstantsAssumption DEF TypeOK
<1>9. NoWork = [pc |-> "idle", at |-> 0, seen |-> 0, intent |-> c,
                contract |-> c.plan, gated |-> FALSE]
  BY DEF NoWork
<1> HIDE DEF c
<1> QED
  BY <1>6, <1>7, <1>8, <1>9 DEF Step

\* The intent of a run is one, and its epoch and plan are the run's.
LEMMA CurrentType ==
  ASSUME TypeOK, NEW r \in Run
  PROVE  Current(r) \in Intent
BY DEF TypeOK, Current, Intent

-----------------------------------------------------------------------------
\* Whoever appends, one event at a time is appended to what is covered.
LEMMA JournalStepHolds == TypeOK /\ [Next]_vars => JournalStep
<1> SUFFICES ASSUME TypeOK, [Next]_vars
             PROVE  JournalStep
  OBVIOUS
<1>1. ASSUME NEW i \in Intent, NEW kind \in {"approved", "rejected", "consumed", "redeemed"},
             NEW t, Accepts(t, kind, i), Append(kind, i)
      PROVE  JournalStep
  BY <1>1 DEF Accepts, Verified, Append, JournalStep, Appended, Stage, TypeOK
<1>2. ASSUME NEW i \in Intent, NEW t \in 0 .. MaxTime,
             Accepts(t, "requested", i), Request(i, t + RequestTTL)
      PROVE  JournalStep
  <2>1. t + RequestTTL \in 0 .. MaxTime + RequestTTL
    BY ConstantsAssumption
  <2>2. expiry' \in [Intent -> 0 .. MaxTime + RequestTTL]
    BY <1>2, <2>1 DEF Request, TypeOK
  <2> QED
    BY <1>2, <2>2 DEF Accepts, Verified, Request, JournalStep, Appended, Stage
<1>3. ASSUME NEW g \in Gate, Create(g)
      PROVE  JournalStep
  <2>1. gate[g].intent \in Intent /\ gate[g].at \in 0 .. MaxTime
    BY DEF TypeOK
  <2> QED
    BY <1>2, <1>3, <2>1 DEF Create, JournalStep
<1>4. ASSUME NEW g \in Gate, Consume(g) \/ Redeem(g)
      PROVE  JournalStep
  <2>1. gate[g].intent \in Intent
    BY DEF TypeOK
  <2> QED
    BY <1>1, <1>4, <2>1 DEF Consume, Redeem, JournalStep
<1>5. ASSUME NEW r \in Run, CliCreate(r)
      PROVE  JournalStep
  BY <1>2, <1>5, CurrentType DEF CliCreate, TypeOK
<1>6. ASSUME NEW i \in Intent, Decide(i) \/ CliConsume(i)
      PROVE  JournalStep
  BY <1>1, <1>6 DEF Decide, CliConsume
<1> QED
  BY <1>3, <1>4, <1>5, <1>6 DEF Next, GateStep, Begin, Read, Resume, Compare,
     Contract, Ticket, Act, Crash, RaiseEpoch, Edit, Sign, Tick, JournalStep,
     vars

\* What an invocation does, in each of its steps, to its own record.
LEMMA GateType ==
  ASSUME IInv, [Next]_vars, JournalStep
  PROVE  gate' \in [Gate -> [pc : Step, at : 0 .. MaxTime, seen : 0 .. length',
                             intent : Intent, contract : Plan, gated : BOOLEAN]]
<1> DEFINE Rec(n) == [pc : Step, at : 0 .. MaxTime, seen : 0 .. n,
                      intent : Intent, contract : Plan, gated : BOOLEAN]
<1>1. length \in Nat /\ length' \in Nat /\ length <= length'
  BY DEF IInv, TypeOK, JournalStep, Appended, journal
<1>2. Rec(length) \subseteq Rec(length')
  BY <1>1
<1>3. gate \in [Gate -> Rec(length)]
  BY DEF IInv, TypeOK
<1>4. gate \in [Gate -> Rec(length')]
  BY <1>2, <1>3
<1>5. ASSUME NEW g \in Gate, NEW r \in Rec(length'), gate' = [gate EXCEPT ![g] = r]
      PROVE  gate' \in [Gate -> Rec(length')]
  BY <1>4, <1>5
<1>6. ASSUME NEW g \in Gate, Fail(g)
      PROVE  gate' \in [Gate -> Rec(length')]
  <2>1. NoWork \in Rec(length)
    BY NoWorkType DEF IInv
  <2> QED
    BY <1>2, <1>5, <1>6, <2>1 DEF Fail
<1>7. ASSUME NEW g \in Gate, NEW pc \in Step, Goto(g, pc)
      PROVE  gate' \in [Gate -> Rec(length')]
  BY <1>4, <1>7 DEF Goto
<1>8. 0 \in 0 .. MaxTime /\ 0 \in 0 .. length'
  BY <1>1, ConstantsAssumption
<1>9. ASSUME NEW g \in Gate, NEW pc \in Step, Proceed(g, pc)
      PROVE  gate' \in [Gate -> Rec(length')]
  BY <1>4, <1>8, <1>9 DEF Proceed
<1>10. ASSUME NEW g \in Gate, Authorize(g)
       PROVE  gate' \in [Gate -> Rec(length')]
  <2>1. gate[g] \in Rec(length') /\ 0 \in 0 .. MaxTime /\ "compare" \in Step
    BY <1>4, <1>8 DEF Step
  <2>2. [gate[g] EXCEPT !.pc = "compare", !.at = 0] \in Rec(length')
    BY <2>1
  <2>3. gate' = [gate EXCEPT ![g] = [gate[g] EXCEPT !.pc = "compare", !.at = 0]]
    BY <1>10, <1>3 DEF Authorize
  <2> QED
    BY <1>5, <2>2, <2>3
<1>11. ASSUME NEW g \in Gate, Begin(g)
       PROVE  gate' \in [Gate -> Rec(length')]
  <2>1. RunOf[g] \in Run
    BY ConstantsAssumption
  <2>2. Current(RunOf[g]) \in Intent /\ plan[RunOf[g]] \in Plan
    BY <2>1, CurrentType DEF IInv, TypeOK
  <2>3. now \in 0 .. MaxTime /\ checkpoint.count \in 0 .. length'
    BY <1>1 DEF IInv, TypeOK
  <2> DEFINE i == Current(RunOf[g])
             human == [pc |-> "read", at |-> now, seen |-> checkpoint.count,
                       intent |-> i, contract |-> plan[RunOf[g]], gated |-> TRUE]
             free == [pc |-> "compare", at |-> 0, seen |-> 0,
                      intent |-> i, contract |-> plan[RunOf[g]], gated |-> FALSE]
  <2>4. human \in Rec(length') /\ free \in Rec(length')
    BY <1>8, <2>2, <2>3 DEF Step
  <2>5. gate' = [gate EXCEPT ![g] = human] \/ gate' = [gate EXCEPT ![g] = free]
    BY <1>11 DEF Begin
  <2> QED
    BY <1>5, <2>4, <2>5
<1>12. ASSUME NEW g \in Gate, Read(g) \/ Create(g) \/ Resume(g) \/ Consume(g)
       PROVE  gate' \in [Gate -> Rec(length')]
  BY <1>6, <1>7, <1>9, <1>12 DEF Read, Create, Resume, Consume, Step
<1>13. ASSUME NEW g \in Gate, Redeem(g) \/ Compare(g) \/ Ticket(g) \/ Act(g)
       PROVE  gate' \in [Gate -> Rec(length')]
  BY <1>6, <1>7, <1>10, <1>13 DEF Redeem, Compare, Ticket, Act, Step
<1>14. ASSUME NEW g \in Gate, Contract(g)
       PROVE  gate' \in [Gate -> Rec(length')]
  <2>1. plan[RunOf[g]] \in Plan
    BY ConstantsAssumption DEF IInv, TypeOK
  <2> QED
    BY <1>4, <1>14, <2>1 DEF Contract, Step
<1>15. ASSUME NEW g \in Gate, Crash(g)
       PROVE  gate' \in [Gate -> Rec(length')]
  BY <1>6, <1>15 DEF Crash
<1> QED
  BY <1>4, <1>11, <1>12, <1>13, <1>14, <1>15 DEF Next, GateStep, CliCreate,
     RaiseEpoch, Edit, Decide, CliConsume, Sign, Tick, Inside, vars

-----------------------------------------------------------------------------
\* Which steps change what is not the journal's and not an invocation's own.
LEMMA Frame ==
  ASSUME [Next]_vars
  PROVE  /\ Sign \/ UNCHANGED checkpoint
         /\ Tick \/ UNCHANGED now
         /\ (\E g \in Gate : Act(g)) \/ UNCHANGED dispatches
         /\ (\E g \in Gate : Crash(g)) \/ UNCHANGED crashes
         /\ (\E r \in Run : RaiseEpoch(r)) \/ UNCHANGED epoch
         /\ (\E r \in Run : RaiseEpoch(r) \/ Edit(r)) \/ UNCHANGED changes
         /\ \/ \E g \in Gate : Begin(g) /\ raced' = raced \ {g}
            \/ \E r \in Run : Edit(r)
            \/ UNCHANGED raced
         /\ (\E r \in Run : Edit(r)) \/ UNCHANGED plan
BY DEF Next, GateStep, Begin, Read, Create, Resume, Consume, Redeem, Compare,
   Contract, Ticket, Act, Crash, CliCreate, RaiseEpoch, Edit, Decide,
   CliConsume, Sign, Tick, Outside, Inside, vars

-----------------------------------------------------------------------------
\* Every variable keeps its type; that an epoch keeps its own is the counting
\* of changes.
LEMMA TypeInit == Init => TypeOK
<1> SUFFICES ASSUME Init
             PROVE  TypeOK
  OBVIOUS
<1>1. /\ 0 \in 0 .. MaxTime /\ 0 \in 0 .. MaxTime + RequestTTL
      /\ CheckpointLife \in 0 .. MaxTime + CheckpointLife
      /\ 1 \in 1 .. MaxChanges + 1 /\ 0 \in 0 .. MaxChanges
      /\ 0 \in 0 .. MaxCrashes /\ 0 \in 0 .. 0 /\ 0 \in Nat
  BY ConstantsAssumption
<1>2. ASSUME NEW g \in Gate
      PROVE  NoWork \in [pc : Step, at : 0 .. MaxTime, seen : 0 .. 0,
                         intent : Intent, contract : Plan, gated : BOOLEAN]
  <2>1. RunOf[g] \in Run
    BY ConstantsAssumption
  <2>2. plan[RunOf[g]] \in Plan
    BY <2>1 DEF Init
  <2>3. [run |-> RunOf[g], plan |-> plan[RunOf[g]], epoch |-> 1] \in Intent
    BY <1>1, <2>1, <2>2 DEF Intent
  <2> DEFINE c == CHOOSE j \in Intent : TRUE
  <2>4. c \in Intent
    BY <2>3
  <2>5. c.plan \in Plan
    BY <2>4 DEF Intent
  <2> HIDE DEF c
  <2>6. NoWork = [pc |-> "idle", at |-> 0, seen |-> 0, intent |-> c,
                  contract |-> c.plan, gated |-> FALSE]
    BY DEF NoWork, c
  <2> QED
    BY <1>1, <2>4, <2>5, <2>6 DEF Step
<1>3. checkpoint \in [count : 0 .. length, from : 0 .. MaxTime,
                      until : 0 .. MaxTime + CheckpointLife]
  BY <1>1 DEF Init
<1>4. gate \in [Gate -> [pc : Step, at : 0 .. MaxTime, seen : 0 .. length,
                         intent : Intent, contract : Plan, gated : BOOLEAN]]
  BY <1>2 DEF Init
<1>5. raced \subseteq Gate
  BY DEF Init
<1> QED
  BY <1>1, <1>3, <1>4, <1>5 DEF Init, TypeOK, Stage

LEMMA TypeStep == IInv /\ [Next]_vars => TypeOK'
<1> SUFFICES ASSUME IInv, [Next]_vars
             PROVE  TypeOK'
  OBVIOUS
<1>1. JournalStep
  BY JournalStepHolds DEF IInv
<1>2. /\ length' \in Nat /\ length <= length'
      /\ stage' \in [Intent -> Stage]
      /\ expiry' \in [Intent -> 0 .. MaxTime + RequestTTL]
  BY <1>1 DEF IInv, TypeOK, JournalStep, Appended, journal
<1>3. checkpoint' \in [count : 0 .. length', from : 0 .. MaxTime,
                       until : 0 .. MaxTime + CheckpointLife]
  <2>1. CASE Sign
    <3>1. /\ length' = length /\ length \in 0 .. length
          /\ now \in 0 .. MaxTime
          /\ now + CheckpointLife \in 0 .. MaxTime + CheckpointLife
      BY <2>1, ConstantsAssumption DEF Sign, journal, IInv, TypeOK
    <3> QED
      BY <2>1, <3>1 DEF Sign
  <2>2. CASE UNCHANGED checkpoint
    <3>1. 0 .. length \subseteq 0 .. length'
      BY <1>2 DEF IInv, TypeOK
    <3> QED
      BY <2>2, <3>1 DEF IInv, TypeOK
  <2> QED
    BY <2>1, <2>2 DEF Next, GateStep, Begin, Read, Create, Resume, Consume,
       Redeem, Compare, Contract, Ticket, Act, Crash, CliCreate, RaiseEpoch,
       Edit, Decide, CliConsume, Tick, Outside, vars
<1>4. gate' \in [Gate -> [pc : Step, at : 0 .. MaxTime, seen : 0 .. length',
                          intent : Intent, contract : Plan, gated : BOOLEAN]]
  BY <1>1, GateType
<1>5. now' \in 0 .. MaxTime
  BY Frame, ConstantsAssumption DEF IInv, TypeOK, Tick
<1>6. plan' \in [Run -> Plan]
  BY DEF IInv, TypeOK, Next, GateStep, Begin, Read, Create,
     Resume, Consume, Redeem, Compare, Contract, Ticket, Act, Crash, CliCreate,
     RaiseEpoch, Edit, Decide, CliConsume, Sign, Tick, Outside, Inside, vars
<1>7. /\ epoch' \in [Run -> 1 .. MaxChanges + 1]
      /\ changes' \in 0 .. MaxChanges
  <2>1. ASSUME NEW r \in Run, RaiseEpoch(r)
        PROVE  epoch[r] + 1 \in 1 .. MaxChanges + 1
    BY <2>1, ConstantsAssumption DEF RaiseEpoch, Change, IInv, EpochBound, TypeOK
  <2>2. ASSUME NEW r \in Run, RaiseEpoch(r) \/ Edit(r)
        PROVE  changes' \in 0 .. MaxChanges
    BY <2>2, ConstantsAssumption DEF RaiseEpoch, Edit, Change, IInv, TypeOK
  <2>3. ASSUME NEW r \in Run, RaiseEpoch(r)
        PROVE  epoch' \in [Run -> 1 .. MaxChanges + 1]
    BY <2>1, <2>3 DEF RaiseEpoch, IInv, TypeOK
  <2> QED
    BY <2>2, <2>3, Frame DEF IInv, TypeOK
<1>8. dispatches' \in [Intent -> Nat]
  <2>1. ASSUME NEW g \in Gate, Act(g)
        PROVE  dispatches' \in [Intent -> Nat]
    <3> DEFINE i == [gate[g].intent EXCEPT !.plan = gate[g].contract]
    <3>1. i \in Intent
      BY DEF IInv, TypeOK, Intent
    <3>2. dispatches' = [dispatches EXCEPT ![i] = @ + 1] \/ UNCHANGED dispatches
      BY <2>1 DEF Act
    <3> HIDE DEF i
    <3> QED
      BY <3>1, <3>2 DEF IInv, TypeOK
  <2> QED
    BY <2>1, Frame DEF IInv, TypeOK
<1>9. torn' \in BOOLEAN
  BY DEF IInv, TypeOK, Next, GateStep, Begin, Read, Create,
     Resume, Consume, Redeem, Compare, Contract, Ticket, Act, Crash, CliCreate,
     RaiseEpoch, Edit, Decide, CliConsume, Sign, Tick, Outside, Inside, vars
<1>10. crashes' \in 0 .. MaxCrashes
  <2>1. ASSUME NEW g \in Gate, Crash(g)
        PROVE  crashes' \in 0 .. MaxCrashes
    <3>1. crashes < MaxCrashes /\ crashes' = crashes + 1
      BY <2>1 DEF Crash
    <3> QED
      BY <3>1, ConstantsAssumption DEF IInv, TypeOK
  <2> QED
    BY <2>1, Frame DEF IInv, TypeOK
<1>11. raced' \subseteq Gate
  BY Frame DEF IInv, TypeOK, Edit
<1> QED
  BY <1>2, <1>3, <1>4, <1>5, <1>6, <1>7, <1>8, <1>9, <1>10, <1>11 DEF TypeOK

LEMMA EpochStep == IInv /\ [Next]_vars => EpochBound'
<1> SUFFICES ASSUME IInv, [Next]_vars, NEW r \in Run
             PROVE  epoch'[r] <= changes' + 1
  BY DEF EpochBound
<1>1. /\ epoch[r] \in Nat /\ epoch[r] <= changes + 1 /\ changes \in Nat
      /\ epoch \in [Run -> 1 .. MaxChanges + 1]
  BY ConstantsAssumption DEF IInv, EpochBound, TypeOK
<1>2. ASSUME NEW x \in Run, RaiseEpoch(x)
      PROVE  epoch'[r] <= changes' + 1
  BY <1>1, <1>2 DEF RaiseEpoch, Change
<1>3. ASSUME NEW x \in Run, Edit(x)
      PROVE  epoch'[r] <= changes' + 1
  BY <1>1, <1>3 DEF Edit, Change
<1> QED
  BY <1>1, <1>2, <1>3, Frame

\* A checkpoint that covers the journal is one event behind after an append, and
\* the next append waits for another.
LEMMA OneAheadStep == IInv /\ [Next]_vars => OneAhead'
<1> SUFFICES ASSUME IInv, [Next]_vars
             PROVE  OneAhead'
  OBVIOUS
<1>1. JournalStep
  BY JournalStepHolds DEF IInv
<1>2. Sign \/ UNCHANGED checkpoint
  BY Frame
<1>3. CASE Sign
  BY <1>3 DEF Sign, journal, OneAhead, IInv, TypeOK
<1>4. CASE UNCHANGED checkpoint
  BY <1>1, <1>4 DEF JournalStep, Appended, journal, OneAhead, IInv, TypeOK
<1> QED
  BY <1>2, <1>3, <1>4

-----------------------------------------------------------------------------
\* A step of the journal only moves what is not redeemed, and what an
\* invocation keeps it keeps.
LEMMA StageKept ==
  ASSUME IInv, [Next]_vars, NEW i \in Intent
  PROVE  /\ stage[i] = "redeemed" => stage'[i] = "redeemed"
         /\ stage'[i] # "redeemed" => stage[i] # "redeemed"
<1>1. JournalStep
  BY JournalStepHolds DEF IInv
<1> QED
  BY <1>1 DEF JournalStep, Appended, Precedes, journal, IInv, TypeOK

\* An invocation's record changes by its own steps only.
LEMMA OwnRecord ==
  ASSUME IInv, [Next]_vars, NEW g \in Gate, gate'[g] # gate[g]
  PROVE  GateStep(g) \/ Crash(g)
<1>1. gate \in [Gate -> [pc : Step, at : 0 .. MaxTime, seen : 0 .. length,
                         intent : Intent, contract : Plan, gated : BOOLEAN]]
  BY DEF IInv, TypeOK
<1>2. ASSUME NEW h \in Gate, h # g, GateStep(h) \/ Crash(h)
      PROVE  FALSE
  BY <1>1, <1>2 DEF GateStep, Begin, Read, Create, Resume, Consume, Redeem,
     Compare, Contract, Ticket, Act, Crash, Fail, Goto, Proceed, Authorize
<1>3. (\E h \in Gate : GateStep(h) \/ Crash(h)) \/ UNCHANGED gate
  BY DEF Next, CliCreate, RaiseEpoch, Edit, Decide, CliConsume, Sign, Tick,
     Inside, vars
<1> QED
  BY <1>2, <1>3

\* Who is entitled afterwards has been before, or has just redeemed.
LEMMA EntitledBefore ==
  ASSUME IInv, [Next]_vars, NEW g \in Gate, Entitled(g)'
  PROVE  /\ gate'[g].intent = gate[g].intent
         /\ \/ Entitled(g) /\ ~Act(g)
            \/ Redeem(g) /\ stage[gate[g].intent] = "consumed"
               /\ gate'[g].pc = "compare"
               /\ stage' = [stage EXCEPT ![gate[g].intent] = "redeemed"]
<1>1. gate'[g].gated /\ gate'[g].pc \in {"compare", "contract", "ticket", "act"}
  BY DEF Entitled
<1>2. gate \in [Gate -> [pc : Step, at : 0 .. MaxTime, seen : 0 .. length,
                         intent : Intent, contract : Plan, gated : BOOLEAN]]
  BY DEF IInv, TypeOK
<1>3. ASSUME Fail(g) PROVE FALSE
  <2>1. NoWork.gated = FALSE
    BY NoWorkType DEF IInv
  <2> QED
    BY <1>1, <1>2, <1>3, <2>1 DEF Fail
<1>4. CASE gate'[g] = gate[g]
  BY <1>3, <1>4 DEF Entitled, Act
<1>5. CASE Redeem(g)
  <2>1. Accepts(gate[g].at, "redeemed", gate[g].intent)
    BY <1>3, <1>5 DEF Redeem
  <2>2. stage[gate[g].intent] = "consumed"
    BY <2>1 DEF Accepts, Precedes
  <2>3. /\ gate' = [gate EXCEPT ![g].pc = "compare", ![g].at = 0]
        /\ stage' = [stage EXCEPT ![gate[g].intent] = "redeemed"]
    BY <1>5, <2>1 DEF Redeem, Append, Authorize
  <2> QED
    BY <1>2, <1>5, <2>2, <2>3
<1>6. CASE Compare(g) \/ Contract(g) \/ Ticket(g)
  <2>1. gate'[g].intent = gate[g].intent /\ gate'[g].gated = gate[g].gated
    BY <1>2, <1>3, <1>6 DEF Compare, Contract, Ticket, Goto
  <2>2. Entitled(g) /\ ~Act(g)
    BY <1>1, <1>3, <1>6, <2>1 DEF Compare, Contract, Ticket, Act, Entitled
  <2> QED
    BY <2>1, <2>2
<1>7. ASSUME Begin(g) PROVE FALSE
  BY <1>1, <1>2, <1>7 DEF Begin
<1>8. ASSUME Read(g) \/ Create(g) \/ Resume(g) \/ Consume(g) \/ Act(g) \/ Crash(g)
      PROVE  FALSE
  BY <1>1, <1>2, <1>3, <1>8 DEF Read, Create, Resume, Consume, Act, Crash,
     Proceed, Goto
<1> QED
  BY <1>4, <1>5, <1>6, <1>7, <1>8, OwnRecord DEF GateStep

\* A dispatch under an approval ends the entitlement of the one invocation
\* that had it.
LEMMA ActEnds ==
  ASSUME IInv, [Next]_vars, NEW g \in Gate, Act(g)
  PROVE  /\ gate[g].gated =>
              /\ Entitled(g)
              /\ dispatches[gate[g].intent] = 0
              /\ stage[gate[g].intent] = "redeemed"
              /\ dispatches' = [dispatches EXCEPT ![gate[g].intent] = 1]
         /\ ~gate[g].gated => UNCHANGED dispatches
         /\ UNCHANGED stage
<1>1. CASE gate[g].gated
  <2>1. Entitled(g) /\ gate[g].pc = "act"
    BY <1>1 DEF Act, Entitled
  <2>2. /\ gate[g].contract = gate[g].intent.plan
        /\ dispatches[gate[g].intent] = 0
        /\ stage[gate[g].intent] = "redeemed"
    BY <2>1 DEF IInv, Entitlement
  <2>3. gate[g].intent \in Intent
    BY DEF IInv, TypeOK
  <2>4. [gate[g].intent EXCEPT !.plan = gate[g].contract] = gate[g].intent
    BY <2>2, <2>3 DEF Intent
  <2>5. dispatches' = [dispatches EXCEPT ![gate[g].intent] = @ + 1]
    BY <1>1, <2>4 DEF Act
  <2>6. dispatches' = [dispatches EXCEPT ![gate[g].intent] = 1]
    BY <2>2, <2>3, <2>5 DEF IInv, TypeOK
  <2> QED
    BY <1>1, <2>1, <2>2, <2>6 DEF Act, journal
<1>2. CASE ~gate[g].gated
  BY <1>2 DEF Act, journal
<1> QED
  BY <1>1, <1>2

-----------------------------------------------------------------------------
\* Entitlement is exclusive: it begins with the one append that redeems, and a
\* dispatch of the same intent by another would need the same entitlement.
LEMMA EntitlementStep == IInv /\ [Next]_vars => Entitlement'
<1> SUFFICES ASSUME IInv, [Next]_vars
             PROVE  Entitlement'
  OBVIOUS
<1>1. ASSUME NEW g \in Gate
      PROVE  gate[g].intent \in Intent
  BY DEF IInv, TypeOK
<1>2. ASSUME NEW g \in Gate, Entitled(g)'
      PROVE  stage'[gate'[g].intent] = "redeemed"
  <2>1. CASE Entitled(g)
    BY <1>1, <1>2, <2>1, EntitledBefore, StageKept DEF IInv, Entitlement
  <2>2. CASE Redeem(g) /\ stage' = [stage EXCEPT ![gate[g].intent] = "redeemed"]
    BY <1>1, <1>2, <2>2, EntitledBefore DEF IInv, TypeOK
  <2> QED
    BY <1>2, <2>1, <2>2, EntitledBefore
<1>3. ASSUME NEW g \in Gate, Entitled(g)'
      PROVE  dispatches[gate[g].intent] = 0
  BY <1>1, <1>3, EntitledBefore DEF IInv, Entitlement, DispatchedRedeemed
<1>4. ASSUME NEW g \in Gate, Entitled(g)', NEW h \in Gate, Act(h)
      PROVE  dispatches'[gate[g].intent] = 0
  <2>1. CASE gate[h].gated /\ gate[h].intent = gate[g].intent
    <3>1. Entitled(h) /\ stage[gate[h].intent] = "redeemed"
      BY <1>4, <2>1, ActEnds
    <3>2. Entitled(g) /\ ~Act(g)
      BY <1>4, <2>1, <3>1, EntitledBefore
    <3> QED
      BY <1>4, <2>1, <3>1, <3>2 DEF IInv, Entitlement
  <2>2. CASE ~gate[h].gated
    BY <1>3, <1>4, <2>2, ActEnds
  <2>3. CASE gate[h].gated /\ gate[h].intent # gate[g].intent
    BY <1>1, <1>3, <1>4, <2>3, ActEnds DEF IInv, TypeOK
  <2> QED
    BY <2>1, <2>2, <2>3
<1>5. ASSUME NEW g \in Gate, Entitled(g)'
      PROVE  dispatches'[gate'[g].intent] = 0
  BY <1>3, <1>4, <1>5, Frame, EntitledBefore
<1>6. ASSUME NEW g \in Gate, NEW h \in Gate, Entitled(g)', Entitled(h)',
             gate'[g].intent = gate'[h].intent
      PROVE  g = h
  <2>1. gate[g].intent = gate[h].intent
    BY <1>6, EntitledBefore
  <2>2. CASE Entitled(g) /\ Entitled(h)
    BY <2>1, <2>2 DEF IInv, Entitlement
  <2>3. CASE Entitled(g) /\ ~Entitled(h)
    <3>1. stage[gate[h].intent] = "consumed" /\ stage[gate[g].intent] = "redeemed"
      BY <1>6, <2>3, EntitledBefore DEF IInv, Entitlement
    <3> QED
      BY <2>1, <3>1
  <2>4. CASE ~Entitled(g) /\ Entitled(h)
    <3>1. stage[gate[g].intent] = "consumed" /\ stage[gate[h].intent] = "redeemed"
      BY <1>6, <2>4, EntitledBefore DEF IInv, Entitlement
    <3> QED
      BY <2>1, <3>1
  <2>5. CASE ~Entitled(g) /\ ~Entitled(h)
    <3>1. /\ Redeem(g) /\ gate[g].pc = "redeem" /\ gate'[g].pc = "compare"
          /\ gate[h].pc = "redeem" /\ gate'[h].pc = "compare"
      BY <1>6, <2>5, EntitledBefore DEF Redeem
    <3>2. g # h => gate'[h] = gate[h]
      BY <3>1 DEF Redeem, Authorize, Fail, IInv, TypeOK
    <3> QED
      BY <3>1, <3>2
  <2> QED
    BY <2>2, <2>3, <2>4, <2>5
<1>7. ASSUME NEW g \in Gate, Entitled(g)', gate'[g].pc = "act"
      PROVE  gate'[g].contract = gate'[g].intent.plan
  <2>1. Entitled(g) /\ gate[g].gated
    BY <1>7, EntitledBefore DEF Entitled
  <2>2. CASE gate'[g] = gate[g]
    BY <1>7, <2>1, <2>2 DEF IInv, Entitlement
  <2>3. CASE gate'[g] # gate[g]
    <3>1. GateStep(g) \/ Crash(g)
      BY <2>3, OwnRecord
    <3>2. NoWork.pc = "idle"
      BY NoWorkType DEF IInv
    <3>3. Ticket(g) /\ TicketGranted(g)
      BY <1>7, <2>1, <3>1, <3>2 DEF GateStep, Begin, Read, Create, Resume,
         Consume, Redeem, Compare, Contract, Ticket, Act, Crash, Fail, Goto,
         Proceed, Authorize, IInv, TypeOK
    <3> QED
      BY <1>7, <2>1, <3>3 DEF Ticket, TicketGranted, Goto, IInv, TypeOK
  <2> QED
    BY <2>2, <2>3
<1> QED
  BY <1>2, <1>5, <1>6, <1>7 DEF Entitlement

\* What was dispatched stays redeemed.
LEMMA DispatchedStep == IInv /\ [Next]_vars => DispatchedRedeemed'
<1> SUFFICES ASSUME IInv, [Next]_vars, NEW i \in Intent, stage'[i] # "redeemed"
             PROVE  dispatches'[i] = 0
  BY DEF DispatchedRedeemed
<1>1. stage[i] # "redeemed" /\ dispatches[i] = 0
  BY StageKept DEF IInv, DispatchedRedeemed
<1>2. ASSUME NEW g \in Gate, Act(g)
      PROVE  dispatches'[i] = 0
  BY <1>1, <1>2, ActEnds DEF IInv, TypeOK
<1> QED
  BY <1>1, <1>2, Frame

LEMMA Invariance == Spec => []IInv
<1>1. Init => IInv
  <2> SUFFICES ASSUME Init
               PROVE  IInv
    OBVIOUS
  <2>1. TypeOK
    BY TypeInit
  <2>2. ASSUME NEW g \in Gate
        PROVE  ~Entitled(g)
    BY <2>1, <2>2, NoWorkType DEF Init, Entitled
  <2> QED
    BY <2>1, <2>2 DEF Init, IInv, EpochBound, OneAhead, Entitlement,
       DispatchedRedeemed
<1>2. IInv /\ [Next]_vars => IInv'
  BY TypeStep, EpochStep, OneAheadStep, EntitlementStep, DispatchedStep DEF IInv
<1> QED
  BY <1>1, <1>2, PTL DEF Spec

-----------------------------------------------------------------------------
\* Types of the gate model: no reading of the journal is longer than it, and no
\* time lies behind the clock's end.
THEOREM TypeCorrect == Spec => []TypeOK
BY Invariance, PTL DEF IInv

\* The journal is at most one event ahead of the checkpoint, whoever appends.
THEOREM OneAheadHolds == Spec => []OneAhead
BY Invariance, PTL DEF IInv

\* A step of the journal is a step of one approval.
LEMMA JournalMaps ==
  ASSUME JournalStep, UNCHANGED dispatches
  PROVE  [Promise!ApprovalNext]_<<stage, dispatches>>
<1>1. CASE UNCHANGED journal
  BY <1>1 DEF journal
<1>2. ASSUME NEW i \in Intent, NEW kind \in Stage \ {"none"}, Appended(kind, i)
      PROVE  Promise!ApprovalNext
  <2>1. \/ Promise!Request(i) \/ Promise!Decide(i)
        \/ Promise!Consume(i) \/ Promise!Redeem(i)
    BY <1>2 DEF Appended, Precedes, Promise!Request, Promise!Decide,
       Promise!Consume, Promise!Redeem, Promise!Move
  <2> QED
    BY <2>1 DEF Promise!ApprovalNext
<1> QED
  BY <1>1, <1>2 DEF JournalStep

\* The gate implements what human control promises: an intent is asked for,
\* decided, consumed and redeemed in this order and dispatched under its approval
\* at most once.
THEOREM ImplementsApprovalHolds == Spec => ImplementsApproval
<1>1. Init => Promise!ApprovalInit
  BY DEF Init, Promise!ApprovalInit
<1>2. IInv /\ [Next]_vars => [Promise!ApprovalNext]_<<stage, dispatches>>
  <2> SUFFICES ASSUME IInv, [Next]_vars
               PROVE  [Promise!ApprovalNext]_<<stage, dispatches>>
    OBVIOUS
  <2>1. CASE UNCHANGED dispatches
    BY <2>1, JournalMaps, JournalStepHolds DEF IInv
  <2>2. ASSUME NEW g \in Gate, Act(g), gate[g].gated
        PROVE  Promise!ApprovalNext
    <3>1. gate[g].intent \in Intent
      BY DEF IInv, TypeOK
    <3>2. Promise!Dispatch(gate[g].intent)
      BY <2>2, ActEnds DEF Promise!Dispatch
    <3> QED
      BY <3>1, <3>2 DEF Promise!ApprovalNext
  <2>3. ASSUME NEW g \in Gate, Act(g), ~gate[g].gated
        PROVE  UNCHANGED <<stage, dispatches>>
    BY <2>3, ActEnds
  <2> QED
    BY <2>1, <2>2, <2>3, Frame
<1> QED
  BY <1>1, <1>2, Invariance, PTL
  DEF Spec, ImplementsApproval, Promise!ApprovalSpec

-----------------------------------------------------------------------------
(* What follows from the promise alone, whatever the gates do to keep it.   *)

\* What is dispatched was redeemed, and is not dispatched again.
AtMostOnce ==
    \A i \in Intent : dispatches[i] = 0 \/ (stage[i] = "redeemed" /\ dispatches[i] = 1)

\* An intent that was rejected and not dispatched.
Refused(i) == stage[i] = "rejected" /\ dispatches[i] = 0

PromiseInv ==
    /\ stage \in [Intent -> Promise!Stage]
    /\ dispatches \in [Intent -> Nat]
    /\ AtMostOnce

LEMMA PromiseStep ==
  ASSUME PromiseInv, [Promise!ApprovalNext]_<<stage, dispatches>>
  PROVE  PromiseInv' /\ \A i \in Intent : Refused(i) => Refused(i)'
<1>1. ASSUME NEW i \in Intent, NEW from, NEW to \in Promise!Stage,
             Promise!Move(i, from, to), from # "redeemed"
      PROVE  /\ PromiseInv'
             /\ from # "rejected" => \A j \in Intent : Refused(j) => Refused(j)'
  <2>1. stage' \in [Intent -> Promise!Stage]
    BY <1>1 DEF Promise!Move, PromiseInv
  <2>2. \A j \in Intent : /\ dispatches'[j] = dispatches[j]
                          /\ j # i => stage'[j] = stage[j]
    BY <1>1 DEF Promise!Move, PromiseInv
  <2>3. stage[i] = from
    BY <1>1 DEF Promise!Move
  <2>4. AtMostOnce'
    BY <1>1, <2>2, <2>3 DEF PromiseInv, AtMostOnce
  <2> QED
    BY <1>1, <2>1, <2>2, <2>3, <2>4 DEF Promise!Move, PromiseInv, Refused
<1>2. ASSUME NEW i \in Intent, Promise!Dispatch(i)
      PROVE  PromiseInv' /\ \A j \in Intent : Refused(j) => Refused(j)'
  BY <1>2 DEF Promise!Dispatch, PromiseInv, AtMostOnce, Refused
<1>3. CASE UNCHANGED <<stage, dispatches>>
  BY <1>3 DEF PromiseInv, AtMostOnce, Refused
<1>4. {"requested", "approved", "rejected", "consumed", "redeemed"} \subseteq Promise!Stage
  BY DEF Promise!Stage
<1>5. ASSUME NEW i \in Intent,
             \/ Promise!Request(i) \/ Promise!Decide(i)
             \/ Promise!Consume(i) \/ Promise!Redeem(i)
      PROVE  PromiseInv' /\ \A j \in Intent : Refused(j) => Refused(j)'
  BY <1>1, <1>4, <1>5 DEF Promise!Request, Promise!Decide, Promise!Consume,
     Promise!Redeem
<1> QED
  BY <1>2, <1>3, <1>5 DEF Promise!ApprovalNext

LEMMA PromiseHolds == Promise!ApprovalSpec => []PromiseInv
<1>1. Promise!ApprovalInit => PromiseInv
  BY DEF Promise!ApprovalInit, PromiseInv, AtMostOnce, Promise!Stage
<1>2. PromiseInv /\ [Promise!ApprovalNext]_<<stage, dispatches>> => PromiseInv'
  BY PromiseStep
<1> QED
  BY <1>1, <1>2, PTL DEF Promise!ApprovalSpec

\* However many gates overlap, die and are started again, an intent is
\* dispatched under its approval once at most, and only after that was redeemed.
THEOREM DispatchedOnce == Spec => []AtMostOnce
<1>1. PromiseInv => AtMostOnce
  BY DEF PromiseInv
<1> QED
  BY <1>1, PromiseHolds, ImplementsApprovalHolds, PTL DEF ImplementsApproval

\* A rejection is final: an intent that was rejected stays so and is never
\* dispatched by an invocation that passed the gate, whatever is appended, signed,
\* edited or started later.
THEOREM RejectedForGood ==
  ASSUME NEW i \in Intent
  PROVE  Spec => [](stage[i] = "rejected" => []Refused(i))
<1>1. PromiseInv /\ stage[i] = "rejected" => Refused(i)
  BY DEF PromiseInv, AtMostOnce, Refused
<1>2. PromiseInv /\ [Promise!ApprovalNext]_<<stage, dispatches>> /\ Refused(i) => Refused(i)'
  BY PromiseStep
<1> QED
  BY <1>1, <1>2, PromiseHolds, ImplementsApprovalHolds, PTL
  DEF ImplementsApproval, Promise!ApprovalSpec

-----------------------------------------------------------------------------
(* The risk an invocation was judged by is not judged again.               *)

\* An invocation that did not go through the gate works for a plan that needed no
\* human; the final contracts are those of the plan that was judged, unless it was
\* replaced in the window of the comparison.
Judged(g) ==
    /\ ~gate[g].gated /\ gate[g].pc # "idle" =>
          /\ gate[g].pc \in {"compare", "contract", "ticket", "act"}
          /\ gate[g].intent.plan \notin HighRisk
    /\ g \notin raced /\ gate[g].pc = "contract" =>
          plan[RunOf[g]] = gate[g].intent.plan
    /\ g \notin raced /\ gate[g].pc \in {"ticket", "act"} =>
          gate[g].contract = gate[g].intent.plan

JudgedInv == \A g \in Gate : Judged(g)

\* Only the beginning of an invocation takes it out of the window.
LEMMA RacedKept ==
  ASSUME IInv, [Next]_vars, NEW g \in Gate, ~Begin(g), g \in raced
  PROVE  g \in raced'
BY Frame DEF Edit

\* What an invocation does with its own record.
LEMMA JudgedOwn ==
  ASSUME IInv, JudgedInv, NEW g \in Gate, GateStep(g) \/ Crash(g)
  PROVE  Judged(g)'
<1>1. gate \in [Gate -> [pc : Step, at : 0 .. MaxTime, seen : 0 .. length,
                         intent : Intent, contract : Plan, gated : BOOLEAN]]
  BY DEF IInv, TypeOK
<1>2. ASSUME gate' = [gate EXCEPT ![g] = NoWork]
      PROVE  Judged(g)'
  <2>1. gate'[g].pc = "idle"
    BY <1>1, <1>2, NoWorkType DEF IInv
  <2> QED
    BY <2>1 DEF Judged
<1>3. Judged(g)
  BY DEF JudgedInv
<1>4. CASE Begin(g)
  BY <1>1, <1>4 DEF Begin, Current, Judged
<1>5. CASE Read(g)
  BY <1>1, <1>2, <1>3, <1>5 DEF Read, Fail, Proceed, Judged, Outside
<1>6. CASE Create(g) \/ Consume(g) \/ Act(g) \/ Crash(g)
  BY <1>2, <1>6 DEF Create, Consume, Act, Crash, Fail
<1>7. CASE Resume(g)
  BY <1>1, <1>2, <1>3, <1>7 DEF Resume, Fail, Goto, Judged, Outside
<1>8. CASE Redeem(g)
  <2>1. CASE Fail(g)
    BY <1>2, <2>1 DEF Fail
  <2>2. CASE Authorize(g)
    <3>1. gate'[g].pc = "compare" /\ gate'[g].gated = gate[g].gated
      BY <1>1, <2>2 DEF Authorize
    <3>2. gate[g].gated
      BY <1>3, <1>8 DEF Redeem, Judged
    <3> QED
      BY <3>1, <3>2 DEF Judged
  <2> QED
    BY <1>8, <2>1, <2>2 DEF Redeem
<1>9. CASE Compare(g)
  BY <1>1, <1>2, <1>3, <1>9 DEF Compare, Goto, Fail, Outside, Judged
<1>10. CASE Contract(g)
  BY <1>1, <1>3, <1>10 DEF Contract, Outside, Judged
<1>11. CASE Ticket(g)
  BY <1>1, <1>2, <1>3, <1>11 DEF Ticket, Goto, Fail, Outside, Judged
<1> QED
  BY <1>4, <1>5, <1>6, <1>7, <1>8, <1>9, <1>10, <1>11 DEF GateStep

\* Who replaces a plan while an invocation waits for its final contracts puts it
\* into the window.
LEMMA JudgedStep == IInv /\ JudgedInv /\ [Next]_vars => JudgedInv'
<1> SUFFICES ASSUME IInv, JudgedInv, [Next]_vars, NEW g \in Gate
             PROVE  Judged(g)'
  BY DEF JudgedInv
<1>1. CASE GateStep(g) \/ Crash(g)
  BY <1>1, JudgedOwn
<1>2. CASE gate'[g] = gate[g] /\ ~Begin(g)
  <2>1. Judged(g) /\ (g \in raced => g \in raced')
    BY <1>2, RacedKept DEF JudgedInv
  <2>2. ASSUME g \notin raced', gate'[g].pc = "contract"
        PROVE  plan'[RunOf[g]] = gate'[g].intent.plan
    <3>1. plan[RunOf[g]] = gate[g].intent.plan
      BY <1>2, <2>1, <2>2 DEF Judged
    <3>2. ASSUME NEW r \in Run, Edit(r)
          PROVE  plan'[RunOf[g]] = plan[RunOf[g]]
      BY <1>2, <2>2, <3>2, ConstantsAssumption DEF Edit, IInv, TypeOK
    <3> QED
      BY <1>2, <3>1, <3>2, Frame
  <2> QED
    BY <1>2, <2>1, <2>2 DEF Judged
<1> QED
  BY <1>1, <1>2, OwnRecord DEF GateStep

\* The gate passes over a plan without high-risk actions for good: after the
\* comparison nothing judges the risk again, and the ticket binds the contracts
\* to what was judged only where a human approved it.  That comparison and the
\* contracts that follow it are the only place where it matters: whoever edits
\* plans at any other time, a dispatch of a high-risk plan has its redeemed
\* approval.
THEOREM HighRiskApprovedHolds == Spec => HighRiskApproved
<1>1. Init => JudgedInv
  <2> SUFFICES ASSUME Init, NEW g \in Gate
               PROVE  gate[g].pc = "idle"
    BY DEF JudgedInv, Judged
  <2> QED
    BY TypeInit, NoWorkType DEF Init
<1>2. IInv /\ JudgedInv /\ [Next]_vars => JudgedInv'
  BY JudgedStep
<1>3. IInv /\ JudgedInv =>
        [\A g \in Gate : Act(g) /\ gate[g].contract \in HighRisk =>
           \/ stage[[gate[g].intent EXCEPT !.plan = gate[g].contract]] = "redeemed"
           \/ ~gate[g].gated /\ g \in raced]_vars
  <2> SUFFICES ASSUME IInv, JudgedInv, NEW g \in Gate, Act(g),
                      gate[g].contract \in HighRisk,
                      gate[g].gated \/ g \notin raced
               PROVE  stage[[gate[g].intent EXCEPT !.plan = gate[g].contract]]
                        = "redeemed"
    OBVIOUS
  <2>1. gate[g].pc = "act" /\ Judged(g)
    BY DEF Act, JudgedInv
  <2>2. gate[g].gated
    BY <2>1 DEF Judged
  <2>3. gate[g].contract = gate[g].intent.plan /\ stage[gate[g].intent] = "redeemed"
    BY <2>1, <2>2 DEF IInv, Entitlement, Entitled
  <2>4. [gate[g].intent EXCEPT !.plan = gate[g].contract] = gate[g].intent
    BY <2>3 DEF IInv, TypeOK, Intent
  <2> QED
    BY <2>3, <2>4
<1> QED
  BY <1>1, <1>2, <1>3, Invariance, PTL DEF Spec, HighRiskApproved
=============================================================================
