---------------------------- MODULE AttemptStore ----------------------------
(***************************************************************************)
(* How a cycle commits its outputs: commit_cycle_attempt of                *)
(* qa_core/runtime/cycle_attempt.py, called by CycleRuntime.commit_attempt,*)
(* over the store of qa_core/runtime/attempts.py.                          *)
(*                                                                         *)
(* The store keeps a directory for every attempt, which is committed by    *)
(* one rename, and one run manifest, which is read and replaced under the  *)
(* flock of its guard file and fenced by a sequence and by the lease       *)
(* generation.  The lease itself is only read, before each of the four     *)
(* phases, and may be lost before the phase is carried out.                *)
(*                                                                         *)
(* File contents and hashes are left out: an attempt is its number, and    *)
(* what load_attempt verifies of it is who made it, for which generation   *)
(* and iteration, and that it is committed.                                *)
(***************************************************************************)
EXTENDS LeaseRegister, Naturals, Sequences, FiniteSets

CONSTANTS
    MaxAttempts,    \* bound: the attempts that are ever begun
    MaxGeneration,  \* bound: takeovers in a row
    NoManifest

ASSUME StoreAssumption ==
    /\ MaxAttempts \in Nat
    /\ MaxGeneration \in Nat \ {0}
    /\ NoManifest \notin [seq : Nat, gen : Nat, attempts : SUBSET Nat]

VARIABLES
    overtaken,  \* history: the identities whose lease was taken over
    genOf,      \* the generation of each identity's lease
    attempts,   \* attempts/att_*: what attempt.json and the commit say
    manifest,   \* run-manifest.json, or NoManifest
    ever,       \* history: the attempts that some manifest has held
    pc,         \* where the cycle of each identity is
    expected,   \* expected_sequence
    retained,   \* the attempts of the manifest that it will keep
    handle      \* its own attempt, 0 while it has none

storeVars == <<attempts, manifest, ever, pc, expected, retained, handle>>
vars == <<held, spent, overtaken, genOf, attempts, manifest, ever, pc, expected,
          retained, handle>>

Manifest == [seq : Nat, gen : Nat, attempts : SUBSET Nat]
Record == [by : Identity, gen : Nat, iteration : Nat, committed : BOOLEAN]

\* The phase each reading of the lease admits to.
Admits ==
    [lease_preflight |-> "manifest_preflight", lease_begin |-> "begin",
     lease_commit |-> "commit", lease_publish |-> "publish"]

Phase == {"out", "lease_preflight", "manifest_preflight", "lease_begin",
          "begin", "lease_commit", "commit", "lease_publish", "publish"}

TypeOK ==
    /\ held \in Identity \cup {Nobody}
    /\ spent \subseteq Identity /\ overtaken \subseteq Identity
    /\ genOf \in [Identity -> Nat]
    /\ attempts \in Seq(Record)
    /\ manifest \in Manifest \cup {NoManifest}
    /\ ever \subseteq 1 .. Len(attempts)
    /\ pc \in [Identity -> Phase]
    /\ expected \in [Identity -> Nat]
    /\ retained \in [Identity -> SUBSET (1 .. Len(attempts))]
    /\ handle \in [Identity -> 0 .. Len(attempts)]

Init ==
    /\ RegisterInit /\ overtaken = {}
    /\ genOf = [w \in Identity |-> 0]
    /\ attempts = <<>>
    /\ manifest = NoManifest
    /\ ever = {}
    /\ pc = [w \in Identity |-> "out"]
    /\ expected = [w \in Identity |-> 0]
    /\ retained = [w \in Identity |-> {}]
    /\ handle = [w \in Identity |-> 0]

Goto(w, phase) == pc' = [pc EXCEPT ![w] = phase]

Sequence == IF manifest = NoManifest THEN 0 ELSE manifest.seq
References == IF manifest = NoManifest THEN {} ELSE manifest.attempts

\* An attempt that load_attempt accepts for this generation.
Valid(a, gen) == attempts[a].committed /\ attempts[a].gen = gen

\* _verify_run_manifest_attempts.
ManifestValid ==
    manifest # NoManifest => \A a \in References : Valid(a, manifest.gen)

\* Fault: any later generation is accepted.
OpenGenerationFits(gen) ==
    manifest # NoManifest => gen >= manifest.gen

\* A generation may stay or move on by one.
GenerationFits(gen) ==
    manifest # NoManifest => gen \in {manifest.gen, manifest.gen + 1}

-----------------------------------------------------------------------------
(* One commit.                                                             *)

\* Fault: no heartbeat before the commit.
TrustingCommitAttempt(w) ==
    /\ pc[w] = "out"
    /\ ManifestValid
    /\ expected' = [expected EXCEPT ![w] = Sequence]
    /\ handle' = [handle EXCEPT ![w] = 0]
    /\ Goto(w, "lease_preflight")
    /\ UNCHANGED <<held, spent, overtaken, genOf, attempts, manifest, ever,
                   retained>>

\* commit_attempt is entered after a heartbeat and reads the manifest once.
CommitAttempt(w) ==
    /\ pc[w] = "out"
    /\ held = w
    /\ ManifestValid
    /\ expected' = [expected EXCEPT ![w] = Sequence]
    /\ handle' = [handle EXCEPT ![w] = 0]
    /\ Goto(w, "lease_preflight")
    /\ UNCHANGED <<held, spent, overtaken, genOf, attempts, manifest, ever,
                   retained>>

\* _require_active_lease compares the record on disk with the session's.
RequireActiveLease(w) ==
    /\ pc[w] \in DOMAIN Admits
    /\ held = w
    /\ Goto(w, Admits[pc[w]])
    /\ UNCHANGED <<held, spent, overtaken, genOf, attempts, manifest, ever,
                   expected, retained, handle>>

\* Fault: what an earlier manifest of the generation held is not kept.
ForgetfulManifestPreflight(w) ==
    /\ pc[w] = "manifest_preflight"
    /\ ManifestValid
    /\ expected[w] = Sequence
    /\ GenerationFits(genOf[w])
    /\ retained' = [retained EXCEPT ![w] = {}]
    /\ Goto(w, "lease_begin")
    /\ UNCHANGED <<held, spent, overtaken, genOf, attempts, manifest, ever,
                   expected, handle>>

\* read_run_manifest and _retained_attempts.
ManifestPreflight(w) ==
    /\ pc[w] = "manifest_preflight"
    /\ ManifestValid
    /\ expected[w] = Sequence
    /\ GenerationFits(genOf[w])
    /\ retained' = [retained EXCEPT ![w] =
            IF manifest # NoManifest /\ manifest.gen = genOf[w]
            THEN References
            ELSE {}]
    /\ Goto(w, "lease_begin")
    /\ UNCHANGED <<held, spent, overtaken, genOf, attempts, manifest, ever,
                   expected, handle>>

\* Fault: the handle is one off.
MisnumberedBegin(w) ==
    /\ pc[w] = "begin"
    /\ Len(attempts) < MaxAttempts
    /\ attempts' = Append(attempts,
            [by |-> w, gen |-> genOf[w], iteration |-> expected[w] + 1,
             committed |-> FALSE])
    /\ handle' = [handle EXCEPT ![w] = Len(attempts') + 1]
    /\ Goto(w, "lease_commit")
    /\ UNCHANGED <<held, spent, overtaken, genOf, manifest, ever, expected,
                   retained>>

\* begin: a fresh directory; the outputs are copied into its scratch.
Begin(w) ==
    /\ pc[w] = "begin"
    /\ Len(attempts) < MaxAttempts
    /\ attempts' = Append(attempts,
            [by |-> w, gen |-> genOf[w], iteration |-> expected[w] + 1,
             committed |-> FALSE])
    /\ handle' = [handle EXCEPT ![w] = Len(attempts')]
    /\ Goto(w, "lease_commit")
    /\ UNCHANGED <<held, spent, overtaken, genOf, manifest, ever, expected,
                   retained>>

\* commit: the staged copy is renamed.
Commit(w) ==
    /\ pc[w] = "commit"
    /\ attempts' = [attempts EXCEPT ![handle[w]].committed = TRUE]
    /\ Goto(w, "lease_publish")
    /\ UNCHANGED <<held, spent, overtaken, genOf, manifest, ever, expected,
                   retained, handle>>

Proposed(w) == retained[w] \cup {handle[w]}

\* Fault: a manifest keeps the generation of its predecessor.
StickyReplace(w) ==
    /\ manifest' = [seq |-> Sequence + 1,
                    gen |-> IF manifest = NoManifest THEN genOf[w]
                            ELSE manifest.gen,
                    attempts |-> Proposed(w)]
    /\ ever' = ever \cup Proposed(w)
    /\ Goto(w, "out")
    /\ UNCHANGED <<held, spent, overtaken, genOf, attempts, expected, retained,
                   handle>>

Replace(w) ==
    /\ manifest' = [seq |-> Sequence + 1, gen |-> genOf[w],
                    attempts |-> Proposed(w)]
    /\ ever' = ever \cup Proposed(w)
    /\ Goto(w, "out")
    /\ UNCHANGED <<held, spent, overtaken, genOf, attempts, expected, retained,
                   handle>>

\* Fault: the sequence is not compared.
UnconditionalPublish(w) ==
    /\ pc[w] = "publish"
    /\ ManifestValid
    /\ GenerationFits(genOf[w])
    /\ \A a \in Proposed(w) : Valid(a, genOf[w])
    /\ Replace(w)

\* publish_run_manifest, under the guard.
Publish(w) ==
    /\ pc[w] = "publish"
    /\ ManifestValid
    /\ GenerationFits(genOf[w])
    /\ expected[w] = Sequence
    /\ \A a \in Proposed(w) : Valid(a, genOf[w])
    /\ Replace(w)

\* A check failed, or the process died: what was begun stays behind.
Abandon(w) ==
    /\ pc[w] # "out"
    /\ Goto(w, "out")
    /\ UNCHANGED <<held, spent, overtaken, genOf, attempts, manifest, ever,
                   expected, retained, handle>>

-----------------------------------------------------------------------------
(* The lease: acquire starts at generation 1, takeover adds one.           *)

LeaseGranted ==
    /\ Grant
    /\ genOf' = [genOf EXCEPT ![held'] = 1]
    /\ UNCHANGED <<overtaken, storeVars>>

LeaseReleased ==
    /\ held # Nobody
    /\ pc[held] = "out"
    /\ Drop
    /\ UNCHANGED <<overtaken, genOf, storeVars>>

LeaseTakenOver ==
    /\ Supersede
    /\ overtaken' = overtaken \cup {held}
    /\ genOf[held] < MaxGeneration
    /\ genOf' = [genOf EXCEPT ![held'] = genOf[held] + 1]
    /\ UNCHANGED storeVars

Step(w) ==
    \/ CommitAttempt(w) \/ RequireActiveLease(w) \/ ManifestPreflight(w)
    \/ Begin(w) \/ Commit(w) \/ Publish(w)

Next ==
    \/ \E w \in Identity : Step(w) \/ Abandon(w)
    \/ LeaseGranted \/ LeaseReleased \/ LeaseTakenOver

Spec == Init /\ [][Next]_vars
-----------------------------------------------------------------------------
(* Properties.                                                             *)

\* Whatever the manifest refers to is committed, and was made for the manifest's
\* generation: no reader ever finds it invalid, so it never blocks the run.
ManifestNeverInvalid == ManifestValid

\* Of the attempts in the manifest exactly one was made for its sequence, and
\* no two for the same: a proof of the current state has one attempt to look at,
\* although cycles may be overtaken between reading and publishing.
OneAttemptPerIteration ==
    manifest # NoManifest =>
        /\ \A a, b \in References :
             attempts[a].iteration = attempts[b].iteration => a = b
        /\ \E a \in References : attempts[a].iteration = manifest.seq

\* The manifest moves along ManifestChain only.
Chain == INSTANCE ManifestChain WITH
    Attempt <- 1 .. MaxAttempts, current <- manifest

ImplementsChain == Chain!ChainSpec

\* The sequence of the manifest counts the attempts that were ever published: no
\* two were published under one number, and none for nothing.
SequenceCounts ==
    /\ IsFiniteSet(ever)
    /\ IF manifest = NoManifest THEN ever = {}
       ELSE manifest.seq = Cardinality(ever) /\ manifest.attempts \subseteq ever

\* Only the cycle that holds the lease replaces the manifest, or one whose lease
\* was taken over after it read it for the last time.
HolderPublishes ==
    [][\A w \in Identity :
         pc[w] = "publish" /\ manifest' # manifest /\ pc'[w] = "out" =>
             w \in {held} \cup overtaken]_vars

\* While no lease was taken over, a commit is undisturbed: no other is on its way,
\* and none of the checks that it repeats under the guard can fail any more.  It
\* is refused by a fault of its own process only, and can be regarded as one step.
UndisturbedCommit ==
    overtaken = {} =>
        \A w \in Identity : pc[w] # "out" =>
            /\ \A v \in Identity \ {w} : pc[v] = "out"
            /\ held = w
            /\ expected[w] = Sequence
            /\ GenerationFits(genOf[w])
            /\ pc[w] = "publish" => \A a \in Proposed(w) : Valid(a, genOf[w])

\* The holder, and whoever is still committing, is beyond the generation that
\* the manifest would accept: the leases were taken over twice, and nothing was
\* published in between.
Stranded ==
    /\ manifest # NoManifest /\ held # Nobody
    /\ \A w \in Identity :
         w = held \/ pc[w] # "out" => genOf[w] > manifest.gen + 1

\* A run that takeovers have stranded publishes nothing any more, whoever takes
\* it over again and whatever is begun or still on its way: only a release of the
\* lease, after which generations start again, can end that.
StrandedForGood ==
    [][Stranded => UNCHANGED manifest /\ (Stranded' \/ held' = Nobody)]_vars
=============================================================================
