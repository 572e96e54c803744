------------------------------ MODULE AgentLoop ------------------------------
(***************************************************************************)
(* qa_agent_loop.py over one run directory: iterations of a cycle, a       *)
(* preview of the follow-up probes the cycle recommends and the decision   *)
(* to go on, with the probe budget of the session and the hash that binds  *)
(* what a next cycle applies (apply_next_probes.py) to what was previewed. *)
(*                                                                         *)
(* A session is one run of the program.  It may die at any step, and the   *)
(* operator resumes with or without --apply-existing-next-probes and       *)
(* --expected-next-probes-sha256; next-probes.json may be replaced at any  *)
(* moment.  SHA-256 is taken to be injective: a hash is the content.       *)
(***************************************************************************)
EXTENDS Integers, Sequences, FiniteSets

CONSTANTS
    Probe,          \* steps that can be added to the plan
    Gaps,           \* those whose required inputs nobody has supplied
    Synthesized,    \* those the adapter synthesis may add
    Planned,        \* number of steps the plan has had from the start
    MaxProbes,      \* --max-probes
    MaxIterations,  \* --max-iterations
    MaxEdits,       \* bound: replacements of next-probes.json
    NoFile          \* next-probes.json is not there; a hash is None

ASSUME LoopAssumption ==
    /\ Gaps \subseteq Probe /\ Synthesized \subseteq Probe /\ IsFiniteSet(Probe)
    /\ Planned \in Nat /\ MaxProbes \in Nat \ {0}
    /\ MaxIterations \in Nat \ {0} /\ MaxEdits \in Nat
    /\ \A recs \in SUBSET Probe : NoFile # recs

VARIABLES
    plan,       \* the steps that were added to test-plan.json
    next,       \* the recommendations in next-probes.json
    kept,       \* the hash latest_previewed_next_probes_sha256 recovers
    pc,         \* where the loop, or the cycle it runs, is
    asked,      \* apply_existing_requested
    gaps,       \* --allow-required-input-gaps
    iteration,  \* the current iteration
    apply,      \* apply_next
    pending,    \* pending_next_probes_sha256
    binding,    \* the hash in resume_next_probes_binding
    seen,       \* the hashes of the iterations in the summary
    used,       \* probes_used of the loop's budget
    reserved,   \* reserved_probe_count
    allowance,  \* cycle_probe_allowance
    outcome,    \* how the cycle or the preview ended
    safe,       \* what the preview would apply
    blocked,    \* whether it skipped an actionable recommendation
    spent,      \* history: probes dispatched in this session
    told,       \* history: the hashes its cycles were told to apply
    applied,    \* history: what its cycles did apply
    cleared,    \* history: what its previews found wholly safe
    raced,      \* history: a replacement no check of this session can see
    edits       \* replacements so far

runVars == <<plan, next, kept>>
bindVars == <<asked, gaps, iteration, apply, pending, binding, seen>>
budgetVars == <<used, reserved, allowance>>
resultVars == <<outcome, safe, blocked>>
historyVars == <<spent, told, applied, cleared, raced>>
vars == <<runVars, pc, bindVars, budgetVars, resultVars, historyVars, edits>>

Content == SUBSET Probe
File == Content \cup {NoFile}
CycleStep == {"synthesize", "apply", "probe", "verdict"}
PC == CycleStep \cup {"idle", "check", "reconcile", "preview", "decide"}

TypeOK ==
    /\ plan \in Content /\ next \in File /\ kept \in File
    /\ pc \in PC
    /\ asked \in BOOLEAN /\ gaps \in BOOLEAN /\ apply \in BOOLEAN
    /\ iteration \in 1 .. MaxIterations
    /\ pending \in File /\ binding \in File /\ seen \in SUBSET Content
    /\ used \in 0 .. MaxProbes /\ reserved \in Nat
    /\ allowance \in 0 .. MaxProbes
    /\ outcome \in {"open", "pass", "failed", "boundary"}
    /\ safe \in Content /\ blocked \in BOOLEAN
    /\ spent \in Nat /\ told \in Seq(Content) /\ applied \in Seq(Content)
    /\ cleared \in SUBSET Content /\ raced \in BOOLEAN
    /\ edits \in 0 .. MaxEdits

Init ==
    /\ plan = {} /\ next \in File /\ kept \in File
    /\ pc = "idle"
    /\ asked = FALSE /\ gaps = FALSE /\ iteration = 1 /\ apply = FALSE
    /\ pending = NoFile /\ binding = NoFile /\ seen = {}
    /\ used = 0 /\ reserved = 0 /\ allowance = 0
    /\ outcome = "open" /\ safe = {} /\ blocked = FALSE
    /\ spent = 0 /\ told = << >> /\ applied = << >> /\ cleared = {}
    /\ raced = FALSE /\ edits = 0

-----------------------------------------------------------------------------
\* The plan and the recommendations

\* current_plan_probe_count, plan_probe_count.
Count == Planned + Cardinality(plan)

\* apply_recommendations: a recommendation whose inputs are missing is skipped,
\* whether the plan has an equivalent step or not, and that is actionable; one
\* that only has an equivalent step is skipped and is not.
Blocked(recs, allowed) == IF allowed THEN {} ELSE recs \cap Gaps
Safe(recs, allowed) == (recs \ Blocked(recs, allowed)) \ plan

-----------------------------------------------------------------------------
\* A session begins

\* The pending hash is the one given or the one the last summary lets recover.
Begin(existing, cli, inputs) ==
    LET applies == existing /\ next # NoFile
        hash == IF ~applies THEN NoFile ELSE IF cli # NoFile THEN cli ELSE kept
    IN  /\ pc = "idle"
        /\ pc' = "check"
        /\ asked' = existing /\ gaps' = inputs /\ iteration' = 1
        /\ apply' = applies /\ pending' = hash /\ binding' = hash /\ seen' = {}
        /\ used' = 0 /\ reserved' = 0 /\ allowance' = 0
        /\ outcome' = "open" /\ safe' = {} /\ blocked' = FALSE
        /\ spent' = 0 /\ told' = << >> /\ applied' = << >> /\ cleared' = {}
        /\ raced' = FALSE
        /\ UNCHANGED <<runVars, edits>>

\* What the summary of a session that ends with hash in its last action yields.
Recoverable(hash) ==
    IF hash # NoFile THEN hash ELSE IF iteration = 1 THEN NoFile ELSE kept

End(hash) ==
    /\ pc' = "idle"
    /\ kept' = Recoverable(hash)
    /\ UNCHANGED <<plan, next, bindVars, budgetVars, resultVars, historyVars,
                   edits>>

-----------------------------------------------------------------------------
\* Before a cycle

Unavailable == asked /\ ~apply
HashMissing == apply /\ pending = NoFile
Mismatch == apply /\ pending # NoFile /\ next # pending

\* The three stops before a cycle; only the last names the expected hash.
StopBefore ==
    /\ pc = "check"
    /\ Unavailable \/ HashMissing \/ Mismatch
    /\ End(IF Mismatch THEN pending ELSE NoFile)

MayStart == pc = "check" /\ ~(Unavailable \/ HashMissing \/ Mismatch)

\* Fault: every cycle is given the whole budget.
WholeAllowance == MaxProbes

\* reserve_cycle_resources: the allowance is what was left before the plan of
\* now is reserved.
Left == MaxProbes - used

Reserve ==
    /\ MayStart
    /\ Left > 0 /\ Count <= Left
    /\ used' = used + Count /\ reserved' = Count /\ allowance' = Left
    /\ pc' = "synthesize"
    /\ told' = IF apply THEN Append(told, pending) ELSE told
    /\ UNCHANGED <<runVars, bindVars, resultVars, spent, applied, cleared,
                   raced, edits>>

\* No probe, no output or no time is left: the cycle is not started.
Exhausted ==
    /\ MayStart
    /\ outcome' = "boundary"
    /\ pc' = "decide"
    /\ UNCHANGED <<runVars, bindVars, budgetVars, safe, blocked, historyVars,
                   edits>>

-----------------------------------------------------------------------------
\* The cycle, as far as it touches what the loop relies on

Synthesize ==
    /\ pc = "synthesize"
    /\ \E added \in SUBSET Synthesized : plan' = plan \cup added
    /\ pc' = "apply"
    /\ UNCHANGED <<next, kept, bindVars, budgetVars, resultVars, historyVars,
                   edits>>

\* The cycle reads the file itself and is told nothing of the hash, nor of
\* --allow-required-input-gaps; without the file the stage is skipped.
Apply ==
    /\ pc = "apply"
    /\ pc' = "probe"
    /\ IF apply /\ next # NoFile
       THEN /\ plan' = plan \cup Safe(next, FALSE)
            /\ applied' = Append(applied, next)
       ELSE UNCHANGED <<plan, applied>>
    /\ UNCHANGED <<next, kept, bindVars, budgetVars, resultVars, spent, told,
                   cleared, raced, edits>>

\* The executor reserves the whole plan before it starts the runner.
Dispatch ==
    /\ pc = "probe"
    /\ Count <= allowance
    /\ spent' = spent + Count
    /\ pc' = "verdict"
    /\ UNCHANGED <<runVars, bindVars, budgetVars, resultVars, told, applied,
                   cleared, raced, edits>>

\* generate_next_probes.py and then the verdict, with exit 0.
Conclude ==
    /\ pc = "verdict"
    /\ next' \in Content
    /\ outcome' \in {"open", "pass"}
    /\ pc' = "reconcile"
    /\ UNCHANGED <<plan, kept, bindVars, budgetVars, safe, blocked, historyVars,
                   edits>>

\* The cycle exits with another code, or the loop's executor ends it.  Some of
\* the probes may have run, and next-probes.json may be new.
CycleFails ==
    /\ pc \in CycleStep
    /\ outcome' \in {"failed", "boundary"}
    /\ \E n \in IF pc = "probe" /\ Count <= allowance THEN 0 .. Count ELSE {0} :
          spent' = spent + n
    /\ IF pc = "verdict" THEN next' \in Content \cup {next} ELSE UNCHANGED next
    /\ pc' = "reconcile"
    /\ UNCHANGED <<plan, kept, bindVars, budgetVars, safe, blocked, told,
                   applied, cleared, raced, edits>>

-----------------------------------------------------------------------------
\* After a cycle

\* Fault: what a cycle adds to the plan is not charged.
Uncharged == 0

\* reconcile_cycle_probe_reservation: the steps the cycle added are charged; if
\* the budget refuses them the cycle's result becomes a boundary.
Growth == Count - reserved

Reconcile ==
    /\ pc = "reconcile"
    /\ \/ Growth <= 0 /\ UNCHANGED <<used, outcome>>
       \/ /\ Growth > 0 /\ used + Growth <= MaxProbes
          /\ used' = used + Growth /\ UNCHANGED outcome
       \/ Growth > 0 /\ outcome' = "boundary" /\ UNCHANGED used
    /\ pc' = IF outcome' = "open" THEN "preview" ELSE "decide"
    /\ UNCHANGED <<runVars, bindVars, reserved, allowance, safe, blocked,
                   historyVars, edits>>

\* apply_next_probes.py without --apply; it fails when it cannot read its inputs.
Preview ==
    /\ pc = "preview"
    /\ pc' = "decide"
    /\ \/ /\ next # NoFile
          /\ safe' = Safe(next, gaps)
          /\ blocked' = (Blocked(next, gaps) # {})
          /\ cleared' = IF safe' # {} /\ ~blocked' THEN cleared \cup {next}
                        ELSE cleared
          /\ UNCHANGED outcome
       \/ /\ outcome' \in {"failed", "boundary"}
          /\ UNCHANGED <<safe, blocked, cleared>>
    /\ UNCHANGED <<runVars, bindVars, budgetVars, spent, told, applied, raced,
                   edits>>

\* The hash is read again, after the preview, when there is something to apply.
Bound == IF outcome = "open" /\ safe # {} THEN next ELSE NoFile

\* Fault: only the hash of the resume is remembered.
RepeatedResume(hash) == hash = binding

\* prior_next_probes_hash_seen
Repeated(hash) == hash = binding \/ hash \in seen

\* build_next_action, continue_with_safe_next_probes; the category of the
\* failure must allow it, and may not.
Continue ==
    /\ pc = "decide"
    /\ outcome = "open"
    /\ Bound # NoFile /\ ~blocked /\ iteration < MaxIterations
    /\ ~Repeated(Bound)
    /\ iteration' = iteration + 1
    /\ apply' = TRUE /\ pending' = Bound /\ seen' = seen \cup {Bound}
    /\ kept' = Bound
    /\ safe' = {} /\ blocked' = FALSE
    /\ pc' = "check"
    /\ UNCHANGED <<plan, next, asked, gaps, binding, budgetVars, outcome,
                   historyVars, edits>>

\* Passed, failed, at a boundary, or handed to the operator.
Stop == pc = "decide" /\ End(Bound)

-----------------------------------------------------------------------------
\* Faults

\* The loop dies and its cycle with it; the files stay as they are.
Crash ==
    /\ pc # "idle"
    /\ pc' = "idle"
    /\ UNCHANGED <<runVars, bindVars, budgetVars, resultVars, historyVars,
                   edits>>

\* Replaced between a preview and the hash the loop takes of it, or between the
\* loop's comparison and the cycle's own reading, the file is not noticed.
Window ==
    \/ pc = "decide" /\ outcome = "open"
    \/ apply /\ pc \in {"synthesize", "apply"}

Edit ==
    /\ edits < MaxEdits
    /\ next' \in File \ {next}
    /\ edits' = edits + 1
    /\ raced' = (raced \/ Window)
    /\ UNCHANGED <<plan, kept, pc, bindVars, budgetVars, resultVars, spent, told,
                   applied, cleared>>

Next ==
    \/ \E existing \in BOOLEAN, cli \in File, inputs \in BOOLEAN :
          Begin(existing, cli, inputs)
    \/ StopBefore \/ Reserve \/ Exhausted
    \/ Synthesize \/ Apply \/ Dispatch \/ Conclude \/ CycleFails
    \/ Reconcile \/ Preview \/ Continue \/ Stop
    \/ Crash \/ Edit

Spec == Init /\ [][Next]_vars

-----------------------------------------------------------------------------
\* Properties

(***************************************************************************)
(* The cycles of a session together dispatch no more probes than           *)
(* --max-probes, although each counts the plan it finds only after it has  *)
(* grown it: reserve_cycle_resources passes on what was left before the    *)
(* reservation, reconcile_cycle_probe_reservation charges the growth of a  *)
(* cycle that failed as of one that did not.                               *)
(***************************************************************************)
ProbesWithinBudget == spent <= MaxProbes

\* A hash is never handed to two cycles of a session: a preview that comes back
\* with one of them ends it (report_no_new_progress).
NoneRepeated ==
    \A i, j \in DOMAIN told : told[i] = told[j] => i = j

\* What a cycle applies was found wholly safe by a preview of this session, or
\* is what the operator resumed with.
OnlyCleared ==
    \A i \in DOMAIN applied :
        applied[i] \in cleared \/ (i = 1 /\ applied[i] = binding)

(***************************************************************************)
(* Follow-ups are applied at most once in a session and, as long as the    *)
(* file was not replaced in one of the two windows the hash does not       *)
(* cover, only as they were previewed there or bound by a resume: "Only    *)
(* auto-apply next probes previewed inside the same loop and hash-bound"   *)
(* (agent-loop-contract.md:34).                                            *)
(***************************************************************************)
FollowUpsBound == NoneRepeated /\ (raced \/ OnlyCleared)

=============================================================================
