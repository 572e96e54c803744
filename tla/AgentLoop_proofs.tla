--------------------------- MODULE AgentLoop_proofs ---------------------------
(***************************************************************************)
(* The probe budget and the binding of follow-ups, for any set of probes,  *)
(* any budget and any number of iterations, sessions and replacements; and *)
(* that a session takes finitely many steps.                               *)
(***************************************************************************)
EXTENDS AgentLoop, FiniteSetTheorems, TLAPS

\* What a session may have dispatched when nothing of its cycle is open.
Settled ==
    \/ pc \in {"check", "preview"}
    \/ pc = "decide" /\ outcome = "open"

\* What was left for the cycle bounds it before its probes run, and the plan it
\* dispatched is charged when it has run them.
BudgetInv ==
    /\ spent <= MaxProbes
    /\ Settled => spent <= used
    /\ pc \in CycleStep \cup {"reconcile"} =>
         /\ allowance = MaxProbes - used + reserved
         /\ reserved <= Count
    /\ pc \in {"synthesize", "apply", "probe"} => spent <= used - reserved
    /\ pc \in {"verdict", "reconcile"} =>
         \/ spent <= used - reserved
         \/ Count <= allowance /\ spent <= used - reserved + Count

\* The hashes handed out are remembered, and the pending one is another.
HandedInv ==
    /\ NoneRepeated
    /\ \A i \in DOMAIN told : told[i] \in seen \cup {binding}
    /\ pc = "check" /\ apply =>
         /\ pending \in seen \cup {binding}
         /\ \A i \in DOMAIN told : told[i] # pending

\* Pending is the hash of a file this session cleared, or of the resume.
Vouched == pending \in cleared \/ (iteration = 1 /\ pending = binding)

\* Without a race the file is what the session has compared or previewed.
ClearedInv ==
    ~raced =>
        /\ OnlyCleared
        /\ pc = "check" /\ apply => Vouched
        /\ pc \in {"synthesize", "apply"} /\ apply => next = pending /\ Vouched
        /\ pc = "decide" /\ outcome = "open" /\ safe # {} /\ ~blocked =>
             next \in cleared

\* Only the cycle of the first iteration can apply what the resume bound.
FirstInv ==
    iteration = 1 /\ pc \in {"check", "synthesize", "apply"} => applied = << >>

-----------------------------------------------------------------------------
\* The size of the plan is a number, and adding steps does not reduce it.
LEMMA Counting ==
  ASSUME NEW P \in SUBSET Probe, NEW Q \in SUBSET Probe, P \subseteq Q
  PROVE  /\ Planned + Cardinality(P) \in Nat
         /\ Planned + Cardinality(P) <= Planned + Cardinality(Q)
<1>1. IsFiniteSet(Q)
  BY FS_Subset, LoopAssumption
<1>2. /\ IsFiniteSet(P) /\ Cardinality(P) <= Cardinality(Q)
  BY <1>1, FS_Subset
<1>3. Cardinality(P) \in Nat /\ Cardinality(Q) \in Nat
  BY <1>1, <1>2, FS_CardinalityType
<1> QED
  BY <1>2, <1>3, LoopAssumption

LEMMA CountType == TypeOK => Count \in Nat
BY Counting DEF TypeOK, Content, Count

\* A step of the loop never shortens the plan.
LEMMA CountGrows ==
  ASSUME TypeOK, TypeOK', plan \subseteq plan'
  PROVE  Count \in Nat /\ Count' \in Nat /\ Count <= Count'
<1>1. plan \in SUBSET Probe /\ plan' \in SUBSET Probe
  BY DEF TypeOK, Content
<1> QED
  BY <1>1, Counting DEF Count

-----------------------------------------------------------------------------
\* Every variable keeps its type: the budget is never overdrawn and no session
\* goes past its last iteration.
LEMMA TypeInit == Init => TypeOK
<1>1. << >> \in Seq(Content) /\ 1 \in 1 .. MaxIterations
  BY LoopAssumption
<1>2. {} \in Content /\ {} \in SUBSET Content
  BY DEF Content
<1>3. 0 \in 0 .. MaxProbes /\ 0 \in 0 .. MaxEdits /\ 0 \in Nat
  BY LoopAssumption
<1> QED
  BY <1>1, <1>2, <1>3 DEF Init, TypeOK, File, PC

LEMMA TypeStep == TypeOK /\ [Next]_vars => TypeOK'
<1> SUFFICES ASSUME TypeOK, [Next]_vars
             PROVE  TypeOK'
  OBVIOUS
<1> USE DEF TypeOK, Content, File, PC, CycleStep
<1>0. Count \in Nat
  BY CountType
<1>1. ASSUME NEW existing \in BOOLEAN, NEW cli \in File, NEW inputs \in BOOLEAN,
             Begin(existing, cli, inputs)
      PROVE  TypeOK'
  <2>1. << >> \in Seq(Content) /\ 1 \in 1 .. MaxIterations
        /\ 0 \in 0 .. MaxProbes
    BY LoopAssumption
  <2>2. pending' \in File /\ binding' \in File /\ apply' \in BOOLEAN
    BY <1>1 DEF Begin
  <2> QED
    BY <1>1, <2>1, <2>2 DEF Begin, runVars
<1>2. ASSUME NEW hash \in File, End(hash)
      PROVE  TypeOK'
  BY <1>2 DEF End, Recoverable, bindVars, budgetVars, resultVars, historyVars
<1>3. CASE StopBefore
  BY <1>2, <1>3 DEF StopBefore
<1>4. CASE Reserve
  <2>1. apply => pending \in Content
    BY <1>4 DEF Reserve, MayStart, HashMissing
  <2>2. /\ used + Count \in 0 .. MaxProbes
        /\ Left \in 0 .. MaxProbes
    BY <1>0, <1>4, LoopAssumption DEF Reserve, Left
  <2>3. told' \in Seq(Content)
    BY <1>4, <2>1 DEF Reserve
  <2> QED
    BY <1>0, <1>4, <2>2, <2>3 DEF Reserve, runVars, bindVars, resultVars
<1>5. CASE Exhausted
  BY <1>5 DEF Exhausted, runVars, bindVars, budgetVars, historyVars
<1>6. CASE Synthesize
  BY <1>6, LoopAssumption
     DEF Synthesize, bindVars, budgetVars, resultVars, historyVars
<1>7. CASE Apply
  <2>1. CASE apply /\ next # NoFile
    <3>1. next \in Content /\ plan' \in Content
      BY <1>7, <2>1 DEF Apply, Safe
    <3>2. applied' \in Seq(Content)
      BY <1>7, <2>1, <3>1 DEF Apply
    <3>3. /\ pc' = "probe"
          /\ UNCHANGED <<next, kept, asked, gaps, iteration, apply, pending, binding,
                         seen, used, reserved, allowance, outcome, safe, blocked,
                         spent, told, cleared, raced, edits>>
      BY <1>7 DEF Apply, bindVars, budgetVars, resultVars
    <3> QED
      BY <3>1, <3>2, <3>3
  <2>2. CASE ~(apply /\ next # NoFile)
    <3>1. UNCHANGED <<plan, applied>> /\ pc' = "probe"
      BY <1>7, <2>2 DEF Apply
    <3>2. UNCHANGED <<next, kept, asked, gaps, iteration, apply, pending, binding,
                      seen, used, reserved, allowance, outcome, safe, blocked,
                      spent, told, cleared, raced, edits>>
      BY <1>7 DEF Apply, bindVars, budgetVars, resultVars
    <3> QED
      BY <3>1, <3>2
  <2> QED
    BY <2>1, <2>2
<1>8. CASE Dispatch
  BY <1>0, <1>8 DEF Dispatch, runVars, bindVars, budgetVars, resultVars
<1>9. CASE Conclude
  BY <1>9 DEF Conclude, bindVars, budgetVars, historyVars
<1>10. CASE CycleFails
  <2>1. spent' \in Nat
    BY <1>0, <1>10 DEF CycleFails
  <2>2. next' \in File
    BY <1>10 DEF CycleFails
  <2> QED
    BY <1>10, <2>1, <2>2 DEF CycleFails, bindVars, budgetVars
<1>11. CASE Reconcile
  <2>1. used' \in 0 .. MaxProbes
    BY <1>0, <1>11, LoopAssumption DEF Reconcile, Growth
  <2>2. outcome' \in {"open", "pass", "failed", "boundary"}
    BY <1>11 DEF Reconcile
  <2> QED
    BY <1>11, <2>1, <2>2 DEF Reconcile, runVars, bindVars, historyVars
<1>12. CASE Preview
  <2>1. UNCHANGED <<plan, next, kept, asked, gaps, iteration, apply, pending,
                    binding, seen, used, reserved, allowance, spent, told,
                    applied, raced, edits>>
    BY <1>12 DEF Preview, runVars, bindVars, budgetVars
  <2>2. CASE UNCHANGED <<safe, blocked, cleared>>
    <3>1. outcome' \in {"open", "pass", "failed", "boundary"} /\ pc' = "decide"
      BY <1>12 DEF Preview
    <3> QED
      BY <2>1, <2>2, <3>1
  <2>3. CASE next # NoFile /\ safe' = Safe(next, gaps) /\ UNCHANGED outcome
    <3>1. safe' \in Content /\ blocked' \in BOOLEAN /\ pc' = "decide"
      BY <1>12, <2>3 DEF Preview, Safe
    <3>2. cleared' \in SUBSET Content
      BY <1>12, <2>3 DEF Preview
    <3> QED
      BY <2>1, <2>3, <3>1, <3>2
  <2> QED
    BY <1>12, <2>2, <2>3 DEF Preview
<1>13. CASE Continue
  <2>1. Bound \in Content
    BY <1>13 DEF Continue, Bound
  <2>2. iteration' \in 1 .. MaxIterations
    BY <1>13, LoopAssumption DEF Continue
  <2> QED
    BY <1>13, <2>1, <2>2 DEF Continue, budgetVars, historyVars
<1>14. CASE Stop
  BY <1>2, <1>14 DEF Stop, Bound
<1>15. CASE Crash
  BY <1>15
     DEF Crash, runVars, bindVars, budgetVars, resultVars, historyVars
<1>16. CASE Edit
  BY <1>16, LoopAssumption
     DEF Edit, bindVars, budgetVars, resultVars
<1>17. CASE UNCHANGED vars
  BY <1>17
     DEF vars, runVars, bindVars, budgetVars, resultVars, historyVars
<1> QED
  BY <1>1, <1>3, <1>4, <1>5, <1>6, <1>7, <1>8, <1>9, <1>10, <1>11, <1>12,
     <1>13, <1>14, <1>15, <1>16, <1>17 DEF Next

THEOREM TypeCorrect == Spec => []TypeOK
BY TypeInit, TypeStep, PTL DEF Spec

-----------------------------------------------------------------------------
\* The probe budget.
LEMMA BudgetStep == TypeOK /\ TypeOK' /\ BudgetInv /\ [Next]_vars => BudgetInv'
<1> SUFFICES ASSUME TypeOK, TypeOK', BudgetInv, [Next]_vars
             PROVE  BudgetInv'
  OBVIOUS
<1> USE DEF BudgetInv, Settled, CycleStep
<1>0. /\ Count \in Nat /\ Count' \in Nat
      /\ used \in Nat /\ reserved \in Nat /\ allowance \in Nat /\ spent \in Nat
      /\ used' \in Nat /\ MaxProbes \in Nat /\ spent' \in Nat
  <2>1. Count \in Nat /\ Count' \in Nat
    <3>1. plan \in SUBSET Probe /\ plan' \in SUBSET Probe
      BY DEF TypeOK, Content
    <3> QED
      BY <3>1, Counting DEF Count
  <2> QED
    BY <2>1, LoopAssumption DEF TypeOK
<1>a. plan' = plan => Count' = Count
  BY DEF Count
<1>1. ASSUME NEW existing \in BOOLEAN, NEW cli \in File, NEW inputs \in BOOLEAN,
             Begin(existing, cli, inputs)
      PROVE  BudgetInv'
  BY <1>0, <1>1 DEF Begin
<1>2. ASSUME NEW hash, End(hash)
      PROVE  BudgetInv'
  BY <1>0, <1>2 DEF End, historyVars
<1>3. CASE StopBefore
  BY <1>2, <1>3 DEF StopBefore
<1>4. CASE Reserve
  BY <1>0, <1>a, <1>4 DEF Reserve, MayStart, Left, runVars
<1>5. CASE Exhausted
  BY <1>0, <1>5 DEF Exhausted, historyVars
<1>6. CASE Synthesize
  <2>1. Count <= Count'
    BY <1>6, CountGrows DEF Synthesize
  <2> QED
    BY <1>0, <1>6, <2>1 DEF Synthesize, budgetVars, historyVars
<1>7. CASE Apply
  <2>1. Count <= Count'
    BY <1>7, CountGrows DEF Apply
  <2> QED
    BY <1>0, <1>7, <2>1 DEF Apply, budgetVars
<1>8. CASE Dispatch
  BY <1>0, <1>a, <1>8 DEF Dispatch, runVars, budgetVars
<1>9. CASE Conclude
  BY <1>0, <1>a, <1>9 DEF Conclude, budgetVars, historyVars
<1>10. CASE CycleFails
  <2>1. CASE pc = "probe" /\ Count <= allowance
    <3>1. PICK n \in 0 .. Count : spent' = spent + n
      BY <1>10, <2>1 DEF CycleFails
    <3> QED
      BY <1>0, <1>a, <1>10, <2>1, <3>1 DEF CycleFails, budgetVars
  <2>2. CASE ~(pc = "probe" /\ Count <= allowance)
    <3>1. spent' = spent
      BY <1>0, <1>10, <2>2 DEF CycleFails
    <3> QED
      BY <1>0, <1>a, <1>10, <2>2, <3>1 DEF CycleFails, budgetVars
  <2> QED
    BY <2>1, <2>2
<1>11. CASE Reconcile
  <2>1. spent' = spent /\ pc' \in {"preview", "decide"} /\ pc = "reconcile"
    BY <1>11 DEF Reconcile, historyVars
  <2>2. CASE outcome' = "open"
    <3>1. used' >= used - reserved + Count
      BY <1>0, <1>11, <2>2 DEF Reconcile, Growth
    <3>2. spent <= used - reserved + Count
      BY <1>0, <2>1
    <3> QED
      BY <1>0, <2>1, <3>1, <3>2
  <2>3. CASE outcome' # "open"
    BY <1>0, <1>11, <2>1, <2>3 DEF Reconcile
  <2> QED
    BY <2>2, <2>3
<1>12. CASE Preview
  BY <1>0, <1>12 DEF Preview, budgetVars
<1>13. CASE Continue
  BY <1>0, <1>13 DEF Continue, budgetVars, historyVars
<1>14. CASE Stop
  BY <1>2, <1>14 DEF Stop
<1>15. CASE Crash
  BY <1>0, <1>15 DEF Crash, historyVars
<1>16. CASE Edit
  BY <1>0, <1>a, <1>16 DEF Edit, budgetVars, resultVars
<1>17. CASE UNCHANGED vars
  BY <1>a, <1>17
     DEF vars, runVars, bindVars, budgetVars, resultVars, historyVars
<1> QED
  BY <1>1, <1>3, <1>4, <1>5, <1>6, <1>7, <1>8, <1>9, <1>10, <1>11, <1>12,
     <1>13, <1>14, <1>15, <1>16, <1>17 DEF Next

\* The cycles of a session dispatch at most --max-probes.
THEOREM ProbesWithinBudgetHolds == Spec => []ProbesWithinBudget
<1>1. Init => TypeOK /\ BudgetInv
  <2>1. Init => BudgetInv
    BY LoopAssumption DEF Init, BudgetInv, Settled, CycleStep
  <2> QED
    BY <2>1, TypeInit
<1>2. (TypeOK /\ BudgetInv) /\ [Next]_vars => (TypeOK /\ BudgetInv)'
  BY TypeStep, BudgetStep
<1>3. TypeOK /\ BudgetInv => ProbesWithinBudget
  BY DEF BudgetInv, ProbesWithinBudget
<1> QED
  BY <1>1, <1>2, <1>3, PTL DEF Spec

-----------------------------------------------------------------------------
\* The binding of the follow-ups.
FollowUpInv == HandedInv /\ ClearedInv /\ FirstInv

LEMMA FollowUpInit == Init => FollowUpInv
BY DEF Init, FollowUpInv, HandedInv, NoneRepeated, ClearedInv, OnlyCleared,
       Vouched, FirstInv

\* What an action that leaves a session's binding and history alone keeps: it
\* must not enter one of the four places the invariant speaks of.
LEMMA Elsewhere ==
  ASSUME FollowUpInv, bindVars' = bindVars, historyVars' = historyVars,
         pc' # "check" /\ pc' # "synthesize" /\ pc' # "apply",
         pc' = "decide" => outcome' # "open"
  PROVE  FollowUpInv'
BY DEF FollowUpInv, HandedInv, NoneRepeated, ClearedInv, OnlyCleared, Vouched,
       FirstInv, bindVars, historyVars

LEMMA FollowUpStep ==
  TypeOK /\ TypeOK' /\ FollowUpInv /\ [Next]_vars => FollowUpInv'
<1> SUFFICES ASSUME TypeOK, TypeOK', FollowUpInv, [Next]_vars
             PROVE  FollowUpInv'
  OBVIOUS
<1> USE DEF FollowUpInv, Vouched
<1>0. ASSUME bindVars' = bindVars, historyVars' = historyVars,
             pc' \notin {"check", "synthesize", "apply"},
             pc' = "decide" => outcome' # "open"
      PROVE  FollowUpInv'
  BY <1>0, Elsewhere
<1>1. ASSUME NEW existing \in BOOLEAN, NEW cli \in File, NEW inputs \in BOOLEAN,
             Begin(existing, cli, inputs)
      PROVE  FollowUpInv'
  BY <1>1
     DEF Begin, HandedInv, NoneRepeated, ClearedInv, OnlyCleared, FirstInv
<1>2. ASSUME NEW hash, End(hash)
      PROVE  FollowUpInv'
  BY <1>0, <1>2 DEF End
<1>3. CASE StopBefore
  BY <1>2, <1>3 DEF StopBefore
<1>4. CASE Reserve
  <2>1. HandedInv'
    <3>1. CASE apply
      <4>1. /\ pending \in seen \cup {binding} /\ NoneRepeated
            /\ \A i \in DOMAIN told : told[i] # pending
            /\ \A i \in DOMAIN told : told[i] \in seen \cup {binding}
        BY <1>4, <3>1 DEF Reserve, MayStart, HandedInv
      <4>2. told \in Seq(Content) /\ told' = Append(told, pending)
        BY <1>4, <3>1 DEF Reserve, TypeOK
      <4>3. /\ DOMAIN told' = 1 .. Len(told) + 1
            /\ DOMAIN told = 1 .. Len(told)
            /\ Len(told) \in Nat
            /\ \A i \in 1 .. Len(told) : told'[i] = told[i]
            /\ told'[Len(told) + 1] = pending
        BY <4>2
      <4>4. NoneRepeated'
        BY <4>1, <4>3 DEF NoneRepeated
      <4> QED
        BY <1>4, <4>1, <4>3, <4>4 DEF Reserve, HandedInv, bindVars
    <3>2. CASE ~apply
      BY <1>4, <3>2 DEF Reserve, HandedInv, NoneRepeated, bindVars
    <3> QED
      BY <3>1, <3>2
  <2>2. ClearedInv'
    BY <1>4 DEF Reserve, MayStart, HashMissing, Mismatch, ClearedInv,
                OnlyCleared, bindVars, runVars
  <2>3. FirstInv'
    BY <1>4 DEF Reserve, MayStart, FirstInv, bindVars
  <2> QED
    BY <2>1, <2>2, <2>3
<1>5. CASE Exhausted
  BY <1>0, <1>5 DEF Exhausted
<1>6. CASE Synthesize
  BY <1>6 DEF Synthesize, HandedInv, NoneRepeated, ClearedInv, OnlyCleared,
              FirstInv, bindVars, historyVars
<1>7. CASE Apply
  <2>1. HandedInv' /\ FirstInv'
    BY <1>7 DEF Apply, HandedInv, NoneRepeated, FirstInv, bindVars
  <2>2. ClearedInv'
    <3> SUFFICES ASSUME ~raced
                 PROVE  OnlyCleared'
      BY <1>7 DEF Apply, ClearedInv
    <3>1. OnlyCleared
      BY DEF ClearedInv
    <3>2. CASE apply /\ next # NoFile
      <4>1. next = pending /\ Vouched
        BY <1>7, <3>2 DEF Apply, ClearedInv
      <4>2. applied \in Seq(Content) /\ applied' = Append(applied, next)
        BY <1>7, <3>2 DEF Apply, TypeOK
      <4>3. /\ DOMAIN applied' = 1 .. Len(applied) + 1
            /\ DOMAIN applied = 1 .. Len(applied)
            /\ Len(applied) \in Nat
            /\ \A i \in 1 .. Len(applied) : applied'[i] = applied[i]
            /\ applied'[Len(applied) + 1] = next
        BY <4>2
      <4>4. iteration = 1 => Len(applied) = 0
        BY <1>7 DEF Apply, FirstInv
      <4> QED
        BY <1>7, <3>1, <4>1, <4>3, <4>4 DEF Apply, OnlyCleared, bindVars
    <3>3. CASE ~(apply /\ next # NoFile)
      BY <1>7, <3>1, <3>3 DEF Apply, OnlyCleared, bindVars
    <3> QED
      BY <3>2, <3>3
  <2> QED
    BY <2>1, <2>2
<1>8. CASE Dispatch
  BY <1>8 DEF Dispatch, HandedInv, NoneRepeated, ClearedInv, OnlyCleared,
              FirstInv, bindVars
<1>9. CASE Conclude
  BY <1>0, <1>9 DEF Conclude
<1>10. CASE CycleFails
  BY <1>10 DEF CycleFails, HandedInv, NoneRepeated, ClearedInv, OnlyCleared,
               FirstInv, bindVars
<1>11. CASE Reconcile
  BY <1>0, <1>11 DEF Reconcile
<1>12. CASE Preview
  <2>1. HandedInv' /\ FirstInv'
    BY <1>12 DEF Preview, HandedInv, NoneRepeated, FirstInv, bindVars
  <2>2. ClearedInv'
    BY <1>12 DEF Preview, ClearedInv, OnlyCleared, bindVars, runVars
  <2> QED
    BY <2>1, <2>2
<1>13. CASE Continue
  <2>1. Bound = next /\ safe # {}
    BY <1>13 DEF Continue, Bound
  <2>2. HandedInv'
    BY <1>13 DEF Continue, Repeated, HandedInv, NoneRepeated, historyVars
  <2>3. ClearedInv'
    BY <1>13, <2>1 DEF Continue, ClearedInv, OnlyCleared, historyVars
  <2>4. FirstInv'
    <3>1. iteration' # 1
      BY <1>13 DEF Continue, TypeOK
    <3> QED
      BY <3>1 DEF FirstInv
  <2> QED
    BY <2>2, <2>3, <2>4
<1>14. CASE Stop
  BY <1>2, <1>14 DEF Stop
<1>15. CASE Crash
  BY <1>0, <1>15 DEF Crash
<1>16. CASE Edit
  <2>1. HandedInv' /\ FirstInv'
    BY <1>16 DEF Edit, HandedInv, NoneRepeated, FirstInv, bindVars
  <2>2. ClearedInv'
    BY <1>16 DEF Edit, Window, ClearedInv, OnlyCleared, bindVars, resultVars
  <2> QED
    BY <2>1, <2>2
<1>17. CASE UNCHANGED vars
  BY <1>17 DEF vars, runVars, bindVars, budgetVars, resultVars, historyVars,
               HandedInv, NoneRepeated, ClearedInv, OnlyCleared, FirstInv
<1> QED
  BY <1>1, <1>3, <1>4, <1>5, <1>6, <1>7, <1>8, <1>9, <1>10, <1>11, <1>12,
     <1>13, <1>14, <1>15, <1>16, <1>17 DEF Next

\* No follow-ups are handed out twice, and without a race none is applied that
\* the session has not previewed or been resumed with.
THEOREM FollowUpsBoundHolds == Spec => []FollowUpsBound
<1>1. Init => TypeOK /\ FollowUpInv
  BY TypeInit, FollowUpInit
<1>2. (TypeOK /\ FollowUpInv) /\ [Next]_vars => (TypeOK /\ FollowUpInv)'
  BY TypeStep, FollowUpStep
<1>3. FollowUpInv => FollowUpsBound
  BY DEF FollowUpInv, HandedInv, ClearedInv, FollowUpsBound
<1> QED
  BY <1>1, <1>2, <1>3, PTL DEF Spec

-----------------------------------------------------------------------------
(* A session ends.                                                         *)

\* The steps that an iteration has before it at most.
Phase ==
    CASE pc = "idle" -> 0
      [] pc = "decide" -> 1
      [] pc = "preview" -> 2
      [] pc = "reconcile" -> 3
      [] pc = "verdict" -> 4
      [] pc = "probe" -> 5
      [] pc = "apply" -> 6
      [] pc = "synthesize" -> 7
      [] OTHER -> 8

Rank == IF pc = "idle" THEN 0 ELSE 8 * (MaxIterations - iteration) + Phase

Beside == UNCHANGED <<pc, iteration>>

LEMMA PhaseFalls ==
    ASSUME TypeOK, pc # "idle", UNCHANGED iteration, Phase' < Phase
    PROVE  Rank' < Rank
<1>1. Phase \in 0 .. 8 /\ Phase' \in 0 .. 8
  BY DEF Phase
<1>2. /\ MaxIterations - iteration \in Nat
      /\ 8 * (MaxIterations - iteration) \in Nat
  BY LoopAssumption DEF TypeOK
<1>3. Phase > 0
  BY <1>1
<1> QED
  BY <1>1, <1>2, <1>3 DEF Rank

\* No step of the loop or its cycle starts an iteration over, none but a
\* decision to go on starts another one, and that lowers what is left of
\* --max-iterations: a session takes finitely many steps, whatever its cycles
\* recommend and whoever replaces the file.
THEOREM StepsRunOut ==
    Spec => /\ [](Rank \in 0 .. 8 * MaxIterations)
            /\ [][pc = "idle" \/ Beside \/ Rank' < Rank]_vars
<1>1. TypeOK => Rank \in 0 .. 8 * MaxIterations
  <2> SUFFICES ASSUME TypeOK PROVE Rank \in 0 .. 8 * MaxIterations
    OBVIOUS
  <2>1. Phase \in 0 .. 8
    BY DEF Phase
  <2>2. iteration \in Nat /\ 1 <= iteration /\ iteration <= MaxIterations
    BY LoopAssumption DEF TypeOK
  <2> QED
    BY <2>1, <2>2, LoopAssumption DEF Rank
<1>2. TypeOK /\ TypeOK' /\ [Next]_vars => [pc = "idle" \/ Beside \/ Rank' < Rank]_vars
  <2> SUFFICES ASSUME TypeOK, TypeOK', [Next]_vars, pc # "idle"
               PROVE  Beside \/ Rank' < Rank
    OBVIOUS
  <2>1. CASE StopBefore
    BY <2>1, PhaseFalls DEF StopBefore, End, bindVars, Phase
  <2>2. CASE Reserve
    BY <2>2, PhaseFalls DEF Reserve, MayStart, bindVars, Phase
  <2>3. CASE Exhausted
    BY <2>3, PhaseFalls DEF Exhausted, MayStart, bindVars, Phase
  <2>4. CASE Synthesize
    BY <2>4, PhaseFalls DEF Synthesize, bindVars, Phase
  <2>5. CASE Apply
    BY <2>5, PhaseFalls DEF Apply, bindVars, Phase
  <2>6. CASE Dispatch
    BY <2>6, PhaseFalls DEF Dispatch, bindVars, Phase
  <2>7. CASE Conclude
    BY <2>7, PhaseFalls DEF Conclude, bindVars, Phase
  <2>8. CASE CycleFails
    BY <2>8, PhaseFalls DEF CycleFails, CycleStep, bindVars, Phase
  <2>9. CASE Reconcile
    BY <2>9, PhaseFalls DEF Reconcile, bindVars, Phase
  <2>10. CASE Preview
    BY <2>10, PhaseFalls DEF Preview, bindVars, Phase
  <2>11. CASE Continue
    <3>1. pc = "decide" /\ pc' = "check" /\ iteration' = iteration + 1
      BY <2>11 DEF Continue
    <3>2. Phase = 1 /\ Phase' = 8
      BY <3>1 DEF Phase
    <3>3. iteration \in Nat /\ iteration < MaxIterations /\ MaxIterations \in Nat
      BY <2>11, LoopAssumption DEF Continue, TypeOK
    <3> QED
      BY <3>1, <3>2, <3>3 DEF Rank
  <2>12. CASE Stop
    BY <2>12, PhaseFalls DEF Stop, End, bindVars, Phase
  <2>13. CASE Crash
    BY <2>13, PhaseFalls DEF Crash, bindVars, Phase
  <2>14. CASE Edit
    BY <2>14 DEF Edit, bindVars, Beside
  <2>15. CASE UNCHANGED vars
    BY <2>15 DEF vars, bindVars, Beside
  <2> QED
    BY <2>1, <2>2, <2>3, <2>4, <2>5, <2>6, <2>7, <2>8, <2>9, <2>10, <2>11, <2>12,
       <2>13, <2>14, <2>15 DEF Next, Begin
<1> QED
  BY <1>1, <1>2, TypeCorrect, PTL DEF Spec
=============================================================================
