------------------------ MODULE AttemptStore_proofs ------------------------
(***************************************************************************)
(* For every set of identities and every bound: the run manifest is never  *)
(* invalid, has one attempt per iteration and moves along ManifestChain,   *)
(* with takeover and without; without it only the holder publishes, and a  *)
(* commit that has begun is disturbed by no other; two in a row without a  *)
(* publication strand the run.                                             *)
(***************************************************************************)
EXTENDS AttemptStore, FiniteSetTheorems, TLAPS

Prepared == {"lease_begin", "begin", "lease_commit", "commit", "lease_publish",
             "publish"}
Begun == {"lease_commit", "commit", "lease_publish", "publish"}

\* Whoever is committing has had the lease, so it is granted to nobody else.
InsideKnown == \A w \in Identity : pc[w] # "out" => w \in spent \cup {held}

\* A begun attempt is its cycle's own and has never been in a manifest.
Owned(w) ==
    pc[w] \in Begun =>
        /\ handle[w] \in 1 .. Len(attempts)
        /\ handle[w] \notin ever
        /\ attempts[handle[w]].by = w
        /\ attempts[handle[w]].gen = genOf[w]
        /\ attempts[handle[w]].iteration = expected[w] + 1
        /\ pc[w] \in {"lease_publish", "publish"} =>
             attempts[handle[w]].committed

HandleOwned == \A w \in Identity : Owned(w)

\* What is retained is what the manifest holds, unless it was overtaken.
Current(w) ==
    /\ pc[w] # "out" => expected[w] <= Sequence
    /\ pc[w] \in Prepared /\ expected[w] = Sequence =>
         retained[w] = IF manifest # NoManifest /\ manifest.gen = genOf[w]
                       THEN References
                       ELSE {}

RetainedCurrent == \A w \in Identity : Current(w)

\* What a manifest held was made for its sequence or an earlier one.
Recorded ==
    /\ References \subseteq ever
    /\ \A a \in ever : attempts[a].iteration <= Sequence
    /\ Len(attempts) <= MaxAttempts

IInv ==
    /\ TypeOK
    /\ InsideKnown
    /\ HandleOwned
    /\ RetainedCurrent
    /\ Recorded
    /\ ManifestNeverInvalid
    /\ OneAttemptPerIteration

USE DEF Phase, Manifest, Record, Prepared, Begun, Goto, ManifestNeverInvalid

-----------------------------------------------------------------------------
LEMMA SequenceElement ==
    ASSUME NEW T, NEW s \in Seq(T), NEW i \in 1 .. Len(s)
    PROVE  s[i] \in T
  OBVIOUS

LEMMA InitIInv == Init => IInv
  BY NobodyAssumption, StoreAssumption
  DEF Init, RegisterInit, IInv, TypeOK, InsideKnown, HandleOwned,
      RetainedCurrent, Owned, Current, Recorded, ManifestValid, OneAttemptPerIteration,
      References, Sequence

\* The steps that leave the attempts, the manifest and the lease alone.
Quiet(w) ==
    \/ CommitAttempt(w) \/ RequireActiveLease(w) \/ ManifestPreflight(w)
    \/ Abandon(w)

LEMMA QuietStep ==
    ASSUME IInv, NEW w \in Identity, Quiet(w)
    PROVE  IInv'
<1> USE DEF IInv
<1>1. UNCHANGED <<held, spent, overtaken, genOf, attempts, manifest, ever>>
  BY DEF Quiet, CommitAttempt, RequireActiveLease, ManifestPreflight, Abandon
<1>2. /\ UNCHANGED <<Sequence, References>>
      /\ Sequence \in Nat
      /\ References \subseteq 1 .. Len(attempts)
  BY <1>1 DEF Sequence, References, TypeOK, Recorded
<1>3. Recorded' /\ ManifestNeverInvalid' /\ OneAttemptPerIteration'
  BY <1>1, <1>2 DEF Recorded, ManifestValid, Valid, OneAttemptPerIteration
<1>4. /\ pc' = [pc EXCEPT ![w] = pc'[w]]
      /\ expected' = [expected EXCEPT ![w] = expected'[w]]
      /\ retained' = [retained EXCEPT ![w] = retained'[w]]
      /\ handle' = [handle EXCEPT ![w] = handle'[w]]
  BY DEF Quiet, CommitAttempt, RequireActiveLease, ManifestPreflight, Abandon,
     TypeOK
<1>5. /\ pc'[w] \in Phase
      /\ expected'[w] \in Nat
      /\ retained'[w] \in SUBSET (1 .. Len(attempts))
      /\ handle'[w] \in 0 .. Len(attempts)
      /\ pc'[w] # "out" => w \in spent \cup {held}
      /\ Owned(w)'
      /\ Current(w)'
  <2>1. CASE CommitAttempt(w)
    <3>1. /\ held = w
          /\ pc'[w] = "lease_preflight" /\ expected'[w] = Sequence
          /\ handle'[w] = 0 /\ retained'[w] = retained[w]
      BY <2>1 DEF CommitAttempt, TypeOK
    <3>2. 0 \in 0 .. Len(attempts) /\ retained[w] \in SUBSET (1 .. Len(attempts))
      BY DEF TypeOK
    <3> QED
      BY <1>1, <1>2, <3>1, <3>2 DEF Owned, Current
  <2>2. CASE RequireActiveLease(w)
    <3>1. /\ held = w
          /\ expected'[w] = expected[w] /\ handle'[w] = handle[w]
          /\ retained'[w] = retained[w]
      BY <2>2 DEF RequireActiveLease
    <3>2. \/ pc[w] = "lease_preflight" /\ pc'[w] = "manifest_preflight"
          \/ pc[w] = "lease_begin" /\ pc'[w] = "begin"
          \/ pc[w] = "lease_commit" /\ pc'[w] = "commit"
          \/ pc[w] = "lease_publish" /\ pc'[w] = "publish"
      BY <2>2 DEF RequireActiveLease, Admits, TypeOK
    <3>3. Owned(w) /\ Current(w)
      BY DEF HandleOwned, RetainedCurrent
    <3>4. Owned(w)'
      BY <1>1, <3>1, <3>2, <3>3 DEF Owned
    <3>5. Current(w)'
      BY <1>1, <1>2, <3>1, <3>2, <3>3 DEF Current
    <3>6. /\ expected[w] \in Nat
          /\ retained[w] \in SUBSET (1 .. Len(attempts))
          /\ handle[w] \in 0 .. Len(attempts)
      BY DEF TypeOK
    <3> QED
      BY <3>1, <3>2, <3>4, <3>5, <3>6
  <2>3. CASE ManifestPreflight(w)
    <3>1. /\ pc[w] = "manifest_preflight" /\ pc'[w] = "lease_begin"
          /\ expected'[w] = expected[w] /\ handle'[w] = handle[w]
          /\ expected[w] = Sequence
          /\ retained'[w] = IF manifest # NoManifest /\ manifest.gen = genOf[w]
                            THEN References
                            ELSE {}
      BY <2>3 DEF ManifestPreflight, TypeOK
    <3>2. handle[w] \in 0 .. Len(attempts) /\ w \in spent \cup {held}
      BY <3>1 DEF TypeOK, InsideKnown
    <3>3. Owned(w)' /\ Current(w)'
      BY <1>1, <1>2, <3>1 DEF Owned, Current
    <3> QED
      BY <1>2, <3>1, <3>2, <3>3
  <2>4. CASE Abandon(w)
    <3>1. /\ pc'[w] = "out" /\ expected'[w] = expected[w]
          /\ retained'[w] = retained[w] /\ handle'[w] = handle[w]
      BY <2>4 DEF Abandon, TypeOK
    <3>2. /\ expected[w] \in Nat
          /\ retained[w] \in SUBSET (1 .. Len(attempts))
          /\ handle[w] \in 0 .. Len(attempts)
      BY DEF TypeOK
    <3> QED
      BY <3>1, <3>2 DEF Owned, Current
  <2> QED
    BY <2>1, <2>2, <2>3, <2>4 DEF Quiet
<1>6. TypeOK'
  BY <1>1, <1>4, <1>5 DEF TypeOK
<1>7. ASSUME NEW v \in Identity, v # w
      PROVE  /\ pc'[v] = pc[v] /\ expected'[v] = expected[v]
             /\ retained'[v] = retained[v] /\ handle'[v] = handle[v]
  BY <1>4, <1>7 DEF TypeOK
<1>8. InsideKnown'
  BY <1>1, <1>5, <1>7 DEF InsideKnown
<1>9. ASSUME NEW v \in Identity
      PROVE  Owned(v)' /\ Current(v)'
  <2>1. CASE v = w
    BY <1>5, <2>1
  <2>2. CASE v # w
    <3>1. Owned(v) /\ Current(v)
      BY DEF HandleOwned, RetainedCurrent
    <3>2. Owned(v)'
      BY <1>1, <1>7, <2>2, <3>1 DEF Owned
    <3>3. Current(v)'
      BY <1>1, <1>2, <1>7, <2>2, <3>1 DEF Current
    <3> QED
      BY <3>2, <3>3
  <2> QED
    BY <2>1, <2>2
<1> QED
  BY <1>3, <1>6, <1>8, <1>9 DEF HandleOwned, RetainedCurrent

LEMMA BeginStep ==
    ASSUME IInv, NEW w \in Identity, Begin(w)
    PROVE  IInv'
<1> USE DEF IInv
<1> DEFINE record == [by |-> w, gen |-> genOf[w], iteration |-> expected[w] + 1,
                      committed |-> FALSE]
<1>1. /\ pc[w] = "begin" /\ pc' = [pc EXCEPT ![w] = "lease_commit"]
      /\ Len(attempts) < MaxAttempts
      /\ attempts' = Append(attempts, record)
      /\ handle' = [handle EXCEPT ![w] = Len(attempts')]
      /\ UNCHANGED <<held, spent, overtaken, genOf, manifest, ever, expected, retained>>
  BY DEF Begin
<1>2. attempts \in Seq(Record) /\ record \in Record
  BY DEF TypeOK
<1> HIDE DEF record
<1>3. /\ attempts' \in Seq(Record)
      /\ Len(attempts) \in Nat
      /\ Len(attempts') = Len(attempts) + 1
      /\ attempts'[Len(attempts) + 1] = record
      /\ \A i \in 1 .. Len(attempts) : attempts'[i] = attempts[i]
  BY <1>1, <1>2
<1>4. /\ UNCHANGED <<Sequence, References>>
      /\ ever \subseteq 1 .. Len(attempts)
      /\ References \subseteq 1 .. Len(attempts)
  BY <1>1 DEF Sequence, References, TypeOK, Recorded
<1>5. TypeOK'
  <2>1. 1 .. Len(attempts) \subseteq 1 .. Len(attempts')
    BY <1>3
  <2>2. ever' \subseteq 1 .. Len(attempts')
    BY <1>1, <1>4, <2>1
  <2>3. retained' \in [Identity -> SUBSET (1 .. Len(attempts'))]
    BY <1>1, <2>1 DEF TypeOK
  <2>4. handle' \in [Identity -> 0 .. Len(attempts')]
    BY <1>1, <1>3 DEF TypeOK
  <2>5. pc' \in [Identity -> Phase]
    BY <1>1 DEF TypeOK
  <2> QED
    BY <1>1, <1>3, <2>2, <2>3, <2>4, <2>5 DEF TypeOK
<1>6. InsideKnown' /\ RetainedCurrent'
  <2>1. \A v \in Identity : v # w => pc'[v] = pc[v]
    BY <1>1 DEF TypeOK
  <2>2. pc'[w] = "lease_commit"
    BY <1>1 DEF TypeOK
  <2>3. InsideKnown'
    BY <1>1, <2>1, <2>2 DEF InsideKnown
  <2>4. \A v \in Identity : Current(v)'
    BY <1>1, <1>4, <2>1, <2>2 DEF RetainedCurrent, Current
  <2> QED
    BY <2>3, <2>4 DEF RetainedCurrent
<1>7. HandleOwned'
  <2>1. record.by = w /\ record.gen = genOf[w]
        /\ record.iteration = expected[w] + 1
    BY DEF record
  <2>2. handle'[w] = Len(attempts) + 1 /\ Len(attempts) + 1 \notin ever
    BY <1>1, <1>3, <1>4 DEF TypeOK
  <2>3. ASSUME NEW v \in Identity, v # w, pc'[v] \in Begun
        PROVE  /\ handle'[v] = handle[v] /\ handle[v] \in 1 .. Len(attempts)
               /\ attempts'[handle[v]] = attempts[handle[v]]
               /\ pc'[v] = pc[v]
    BY <1>1, <1>3, <2>3 DEF TypeOK, HandleOwned, Owned
  <2>4. ASSUME NEW v \in Identity, v # w, pc'[v] \in Begun
        PROVE  /\ handle'[v] \in 1 .. Len(attempts')
               /\ handle'[v] \notin ever'
               /\ attempts'[handle'[v]].by = v
               /\ attempts'[handle'[v]].gen = genOf'[v]
               /\ attempts'[handle'[v]].iteration = expected'[v] + 1
               /\ pc'[v] \in {"lease_publish", "publish"} =>
                    attempts'[handle'[v]].committed
    BY <1>1, <1>3, <2>3, <2>4 DEF HandleOwned, Owned
  <2>5. ASSUME NEW v \in Identity, v # w
        PROVE  Owned(v)'
    BY <2>4, <2>5 DEF Owned
  <2>6. pc'[w] = "lease_commit" /\ handle'[w] \in 1 .. Len(attempts')
    BY <1>1, <1>3, <2>2 DEF TypeOK
  <2>7. Owned(w)'
    BY <1>1, <1>3, <2>1, <2>2, <2>6 DEF Owned
  <2> QED
    BY <2>5, <2>7 DEF HandleOwned
<1>8. Recorded'
  <2>1. UNCHANGED <<ever, References, Sequence>>
        /\ \A a \in ever : attempts'[a] = attempts[a]
    BY <1>1, <1>3, <1>4
  <2>2. Len(attempts') <= MaxAttempts
    BY <1>1, <1>3, StoreAssumption
  <2> QED
    BY <2>1, <2>2 DEF Recorded
<1>9. ManifestNeverInvalid'
  BY <1>1, <1>3, <1>4 DEF ManifestValid, Valid
<1>10. OneAttemptPerIteration'
  <2>1. /\ References \subseteq 1 .. Len(attempts) /\ References' = References
        /\ manifest' = manifest
        /\ \A i \in 1 .. Len(attempts) : attempts'[i] = attempts[i]
        /\ OneAttemptPerIteration
    BY <1>1, <1>3, <1>4
  <2> HIDE DEF IInv
  <2> QED
    BY <2>1 DEF OneAttemptPerIteration
<1> QED
  BY <1>5, <1>6, <1>7, <1>8, <1>9, <1>10

LEMMA CommitStep ==
    ASSUME IInv, NEW w \in Identity, Commit(w)
    PROVE  IInv'
<1> USE DEF IInv
<1>1. /\ pc[w] = "commit" /\ pc' = [pc EXCEPT ![w] = "lease_publish"]
      /\ attempts' = [attempts EXCEPT ![handle[w]].committed = TRUE]
      /\ UNCHANGED <<held, spent, overtaken, genOf, manifest, ever, expected, retained,
                     handle>>
  BY DEF Commit
<1>2. handle[w] \in 1 .. Len(attempts) /\ attempts \in Seq(Record)
  BY <1>1 DEF HandleOwned, Owned, TypeOK
<1>3. /\ attempts' \in Seq(Record)
      /\ Len(attempts') = Len(attempts)
      /\ attempts'[handle[w]].committed
      /\ \A i \in 1 .. Len(attempts) :
           /\ attempts'[i].by = attempts[i].by
           /\ attempts'[i].gen = attempts[i].gen
           /\ attempts'[i].iteration = attempts[i].iteration
           /\ attempts[i].committed => attempts'[i].committed
  <2> DEFINE made == [attempts[handle[w]] EXCEPT !.committed = TRUE]
  <2>1. attempts[handle[w]] \in Record /\ Len(attempts) \in Nat
    <3>1. attempts[handle[w]] \in Record
      BY ONLY <1>2, SequenceElement
    <3>2. Len(attempts) \in Nat
      BY <1>2
    <3> QED
      BY <3>1, <3>2
  <2>2. /\ made \in Record /\ made.committed
        /\ made.by = attempts[handle[w]].by
        /\ made.gen = attempts[handle[w]].gen
        /\ made.iteration = attempts[handle[w]].iteration
    BY <2>1
  <2>3. attempts' = [attempts EXCEPT ![handle[w]] = made]
    BY <1>1
  <2> HIDE DEF made, Record
  <2>4. /\ attempts' \in Seq(Record)
        /\ Len(attempts') = Len(attempts)
        /\ attempts'[handle[w]] = made
        /\ \A i \in 1 .. Len(attempts) :
             i # handle[w] => attempts'[i] = attempts[i]
    BY <1>2, <2>2, <2>3
  <2> QED
    BY <2>2, <2>4
<1>4. /\ UNCHANGED <<Sequence, References>>
      /\ ever \subseteq 1 .. Len(attempts)
      /\ References \subseteq 1 .. Len(attempts)
  BY <1>1 DEF Sequence, References, TypeOK, Recorded
<1>5. TypeOK'
  BY <1>1, <1>3 DEF TypeOK
<1>6. /\ pc'[w] = "lease_publish"
      /\ \A v \in Identity : v # w => pc'[v] = pc[v]
  BY <1>1 DEF TypeOK
<1>7. InsideKnown' /\ RetainedCurrent'
  <2>1. InsideKnown'
    BY <1>1, <1>6 DEF InsideKnown
  <2>2. \A v \in Identity : Current(v)'
    BY <1>1, <1>4, <1>6 DEF RetainedCurrent, Current
  <2> QED
    BY <2>1, <2>2 DEF RetainedCurrent
<1>8. ASSUME NEW v \in Identity
      PROVE  Owned(v)'
  <2>1. Owned(v)
    BY DEF HandleOwned
  <2>2. CASE v = w
    BY <1>1, <1>3, <1>6, <2>1, <2>2 DEF Owned
  <2>3. CASE v # w
    <3>1. /\ pc'[v] = pc[v] /\ UNCHANGED <<handle, genOf, expected, ever>>
          /\ Len(attempts') = Len(attempts)
      BY <1>1, <1>3, <1>6, <2>3
    <3>2. handle[v] \in 1 .. Len(attempts) =>
            /\ attempts'[handle[v]].by = attempts[handle[v]].by
            /\ attempts'[handle[v]].gen = attempts[handle[v]].gen
            /\ attempts'[handle[v]].iteration = attempts[handle[v]].iteration
            /\ attempts[handle[v]].committed => attempts'[handle[v]].committed
      BY <1>3
    <3> QED
      BY <2>1, <3>1, <3>2 DEF Owned
  <2> QED
    BY <2>2, <2>3
<1>9. Recorded'
  BY <1>1, <1>3, <1>4 DEF Recorded
<1>10. ManifestNeverInvalid'
  BY <1>1, <1>3, <1>4 DEF ManifestValid, Valid
<1>11. OneAttemptPerIteration'
  <2>1. /\ References \subseteq 1 .. Len(attempts) /\ References' = References
        /\ manifest' = manifest
        /\ \A i \in 1 .. Len(attempts) :
             attempts'[i].iteration = attempts[i].iteration
        /\ OneAttemptPerIteration
    BY <1>1, <1>3, <1>4
  <2> HIDE DEF IInv
  <2> QED
    BY <2>1 DEF OneAttemptPerIteration
<1> QED
  BY <1>5, <1>7, <1>8, <1>9, <1>10, <1>11 DEF HandleOwned

\* What publishing replaces the manifest by.
LEMMA PublishEffect ==
    ASSUME IInv, NEW w \in Identity, Publish(w)
    PROVE  /\ manifest' = [seq |-> Sequence + 1, gen |-> genOf[w],
                           attempts |-> retained[w] \cup {handle[w]}]
           /\ ever' = ever \cup retained[w] \cup {handle[w]}
           /\ manifest' \in Manifest
           /\ retained[w] = IF manifest # NoManifest /\ manifest.gen = genOf[w]
                            THEN References
                            ELSE {}
           /\ handle[w] \in 1 .. Len(attempts) /\ handle[w] \notin ever
           /\ attempts[handle[w]].iteration = Sequence + 1
           /\ Sequence \in Nat
           /\ Sequence' = Sequence + 1
           /\ References' = retained[w] \cup {handle[w]}
           /\ pc[w] = "publish" /\ pc' = [pc EXCEPT ![w] = "out"]
           /\ UNCHANGED <<held, spent, overtaken, genOf, attempts, expected, retained,
                          handle>>
<1> USE DEF IInv
<1>1. /\ pc[w] = "publish" /\ pc' = [pc EXCEPT ![w] = "out"]
      /\ expected[w] = Sequence
      /\ manifest' = [seq |-> Sequence + 1, gen |-> genOf[w],
                      attempts |-> retained[w] \cup {handle[w]}]
      /\ ever' = ever \cup retained[w] \cup {handle[w]}
      /\ UNCHANGED <<held, spent, overtaken, genOf, attempts, expected, retained, handle>>
  BY DEF Publish, Replace, Proposed
<1>2. /\ retained[w] = IF manifest # NoManifest /\ manifest.gen = genOf[w]
                       THEN References
                       ELSE {}
      /\ handle[w] \in 1 .. Len(attempts) /\ handle[w] \notin ever
      /\ attempts[handle[w]].iteration = Sequence + 1
  BY <1>1 DEF RetainedCurrent, HandleOwned, Current, Owned
<1>3. Sequence \in Nat /\ Len(attempts) \in Nat
  BY DEF TypeOK, Sequence
<1>4. retained[w] \subseteq 1 .. Len(attempts) /\ genOf[w] \in Nat
  BY DEF TypeOK
<1>5. retained[w] \cup {handle[w]} \in SUBSET Nat
  <2>1. handle[w] \in Nat /\ 1 .. Len(attempts) \subseteq Nat
    BY <1>2, <1>3
  <2> QED
    BY <1>4, <2>1
<1>6. manifest' \in Manifest
  BY <1>1, <1>3, <1>4, <1>5
<1>7. manifest' # NoManifest
  BY <1>6, StoreAssumption
<1>8. Sequence' = Sequence + 1 /\ References' = retained[w] \cup {handle[w]}
  BY <1>1, <1>7 DEF Sequence, References
<1> QED
  BY <1>1, <1>2, <1>3, <1>6, <1>8

LEMMA PublishStep ==
    ASSUME IInv, NEW w \in Identity, Publish(w)
    PROVE  IInv'
<1> USE DEF IInv
<1>0. /\ manifest' = [seq |-> Sequence + 1, gen |-> genOf[w],
                      attempts |-> retained[w] \cup {handle[w]}]
      /\ ever' = ever \cup retained[w] \cup {handle[w]}
      /\ manifest' \in Manifest
      /\ retained[w] = IF manifest # NoManifest /\ manifest.gen = genOf[w]
                       THEN References
                       ELSE {}
      /\ handle[w] \in 1 .. Len(attempts) /\ handle[w] \notin ever
      /\ attempts[handle[w]].iteration = Sequence + 1
      /\ Sequence \in Nat
      /\ Sequence' = Sequence + 1
      /\ References' = retained[w] \cup {handle[w]}
      /\ pc[w] = "publish" /\ pc' = [pc EXCEPT ![w] = "out"]
      /\ UNCHANGED <<held, spent, overtaken, genOf, attempts, expected, retained,
                     handle>>
  BY PublishEffect
<1> USE <1>0
<1>1. ever' \subseteq 1 .. Len(attempts')
  <2>1. /\ ever \subseteq 1 .. Len(attempts)
        /\ retained[w] \subseteq 1 .. Len(attempts)
    BY DEF TypeOK
  <2> QED
    BY <2>1
<1>2. TypeOK'
  <2>1. pc' \in [Identity -> Phase]
    BY DEF TypeOK
  <2>2. /\ UNCHANGED <<held, spent, overtaken, genOf, attempts, expected,
                       retained, handle>>
        /\ manifest' \in Manifest
    OBVIOUS
  <2>3. /\ retained' \in [Identity -> SUBSET (1 .. Len(attempts'))]
        /\ handle' \in [Identity -> 0 .. Len(attempts')]
    BY <2>2 DEF TypeOK
  <2>4. /\ held' \in Identity \cup {Nobody}
        /\ spent' \subseteq Identity /\ overtaken' \subseteq Identity
        /\ genOf' \in [Identity -> Nat] /\ attempts' \in Seq(Record)
        /\ expected' \in [Identity -> Nat]
    <3>1. TypeOK
      OBVIOUS
    <3> QED
      BY ONLY <2>2, <3>1 DEF TypeOK
  <2> QED
    BY ONLY <1>1, <2>1, <2>2, <2>3, <2>4 DEF TypeOK
<1>3. pc'[w] = "out" /\ \A v \in Identity : v # w => pc'[v] = pc[v]
  <2>1. pc \in [Identity -> Phase]
    BY DEF TypeOK
  <2> QED
    BY ONLY <1>0, <2>1
<1>4. InsideKnown'
  <2>1. UNCHANGED <<held, spent>>
    OBVIOUS
  <2> QED
    BY ONLY IInv, <1>3, <2>1 DEF IInv, InsideKnown
<1>5. retained[w] \subseteq ever
  BY DEF Recorded
<1>6. ASSUME NEW v \in Identity
      PROVE  Owned(v)' /\ Current(v)'
  <2>1. CASE v = w
    BY <1>3, <2>1 DEF Owned, Current
  <2>2. CASE v # w
    <3>1. Owned(v) /\ Current(v) /\ expected[v] \in Nat
      BY DEF HandleOwned, RetainedCurrent, TypeOK
    <3>2. Owned(w) /\ pc[w] \in Begun
      BY DEF HandleOwned
    <3>3. pc[v] \in Begun => handle[v] # handle[w]
      BY <2>2, <3>1, <3>2 DEF Owned
    <3>4. Owned(v)'
      BY <1>3, <1>5, <2>2, <3>1, <3>3 DEF Owned
    <3>5. pc[v] # "out" => expected[v] <= Sequence /\ expected[v] # Sequence'
      BY <3>1 DEF Current
    <3>6. Current(v)'
      BY <1>3, <2>2, <3>1, <3>5 DEF Current
    <3> QED
      BY <3>4, <3>6
  <2> QED
    BY <2>1, <2>2
<1>7. \A a \in ever : attempts[a].iteration \in Nat
  <2>1. attempts \in Seq(Record) /\ ever \subseteq 1 .. Len(attempts)
    BY DEF TypeOK
  <2>2. \A a \in ever : attempts[a] \in Record
    BY ONLY <2>1, SequenceElement
  <2> QED
    BY <2>2
<1>8. Recorded'
  <2>1. References' \subseteq ever'
    OBVIOUS
  <2>2. \A a \in ever' : attempts[a].iteration <= Sequence'
    BY <1>5, <1>7 DEF Recorded
  <2> QED
    BY <2>1, <2>2 DEF Recorded
<1>9. ManifestNeverInvalid'
  <2>1. \A a \in retained[w] \cup {handle[w]} : Valid(a, genOf[w])
    BY DEF Publish, Proposed
  <2>2. manifest'.gen = genOf[w]
    OBVIOUS
  <2> QED
    BY <2>1, <2>2 DEF ManifestValid, Valid
<1>10. OneAttemptPerIteration'
  <2>1. \A a \in retained[w] : attempts[a].iteration <= Sequence
                               /\ attempts[a].iteration \in Nat
    BY <1>5, <1>7 DEF Recorded
  <2>2. \A a, b \in retained[w] :
            attempts[a].iteration = attempts[b].iteration => a = b
    BY DEF OneAttemptPerIteration
  <2>3. \A a, b \in retained[w] \cup {handle[w]} :
            attempts[a].iteration = attempts[b].iteration => a = b
    BY <2>1, <2>2
  <2>4. manifest'.seq = Sequence + 1 /\ handle[w] \in References'
    OBVIOUS
  <2> QED
    BY <2>3, <2>4 DEF OneAttemptPerIteration
<1> QED
  BY <1>2, <1>4, <1>6, <1>8, <1>9, <1>10 DEF HandleOwned, RetainedCurrent

LEMMA LeaseStep ==
    ASSUME IInv, LeaseGranted \/ LeaseReleased \/ LeaseTakenOver
    PROVE  IInv'
<1> USE DEF IInv
<1>1. UNCHANGED storeVars
  BY DEF LeaseGranted, LeaseReleased, LeaseTakenOver
<1>2. /\ held' \in Identity \cup {Nobody} /\ spent' \subseteq Identity
      /\ overtaken' \subseteq Identity
      /\ spent \cup {held} \subseteq spent' \cup {held', Nobody}
  BY DEF LeaseGranted, LeaseReleased, LeaseTakenOver, Grant, Drop, Supersede,
     TypeOK
<1>3. /\ genOf' \in [Identity -> Nat]
      /\ \A w \in spent \cup {held} : w \in Identity => genOf'[w] = genOf[w]
  <2>1. CASE LeaseGranted
    BY <2>1, NobodyAssumption DEF LeaseGranted, Grant, TypeOK
  <2>2. CASE LeaseReleased
    BY <2>2 DEF LeaseReleased, TypeOK
  <2>3. CASE LeaseTakenOver
    BY <2>3 DEF LeaseTakenOver, Supersede, TypeOK
  <2> QED
    BY <2>1, <2>2, <2>3
<1>4. \A w \in Identity : pc[w] # "out" => genOf'[w] = genOf[w]
  BY <1>3 DEF InsideKnown
<1>5. TypeOK'
  BY <1>1, <1>2, <1>3 DEF storeVars, TypeOK
<1>6. InsideKnown'
  BY <1>1, <1>2, NobodyAssumption DEF storeVars, InsideKnown
<1>7. ASSUME NEW v \in Identity
      PROVE  Owned(v)' /\ Current(v)'
  <2>1. Owned(v) /\ Current(v)
    BY DEF HandleOwned, RetainedCurrent
  <2>2. pc[v] # "out" => genOf'[v] = genOf[v]
    BY <1>4
  <2>3. Owned(v)'
    BY <1>1, <2>1, <2>2 DEF storeVars, Owned
  <2>4. Current(v)'
    BY <1>1, <2>1, <2>2 DEF storeVars, Current, Sequence, References
  <2> QED
    BY <2>3, <2>4
<1>8. Recorded' /\ ManifestNeverInvalid' /\ OneAttemptPerIteration'
  BY <1>1 DEF storeVars, Recorded, Sequence, References, ManifestValid, Valid,
     OneAttemptPerIteration
<1> QED
  BY <1>5, <1>6, <1>7, <1>8 DEF HandleOwned, RetainedCurrent

LEMMA StepIInv == IInv /\ [Next]_vars => IInv'
<1> SUFFICES ASSUME IInv, [Next]_vars PROVE IInv'
  OBVIOUS
<1>1. CASE UNCHANGED vars
  BY <1>1 DEF vars, IInv, TypeOK, InsideKnown, HandleOwned, RetainedCurrent,
     Owned, Current, Recorded, Sequence, References, ManifestValid, Valid,
     OneAttemptPerIteration
<1> QED
  BY <1>1, QuietStep, BeginStep, CommitStep, PublishStep, LeaseStep
  DEF Next, Step, Quiet

LEMMA Invariance == Spec => []IInv
  BY InitIInv, StepIInv, PTL DEF Spec

-----------------------------------------------------------------------------
\* The variables stay in their sets.
THEOREM TypeCorrect == Spec => []TypeOK
  BY Invariance, PTL DEF IInv

\* No reader of the manifest ever finds it invalid.
THEOREM ManifestNeverInvalidHolds == Spec => []ManifestNeverInvalid
  BY Invariance, PTL DEF IInv

\* Exactly one attempt of the manifest was made for its sequence.
THEOREM OneAttemptPerIterationHolds == Spec => []OneAttemptPerIteration
  BY Invariance, PTL DEF IInv

\* Every step of the cycles is a step of the chain or leaves it alone.
THEOREM ImplementsChainHolds == Spec => ImplementsChain
<1>1. Init => Chain!ChainInit
  BY DEF Init, Chain!ChainInit
<1>2. IInv /\ [Next]_vars => [Chain!ChainNext]_<<manifest, ever>>
  <2> SUFFICES ASSUME IInv, [Next]_vars
               PROVE  [Chain!ChainNext]_<<manifest, ever>>
    OBVIOUS
  <2>1. ASSUME NEW w \in Identity, Publish(w)
        PROVE  Chain!ChainNext
    <3>1. handle[w] \in (1 .. MaxAttempts) \ ever
      <4>1. /\ handle[w] \in 1 .. Len(attempts) /\ handle[w] \notin ever
        BY <2>1, PublishEffect
      <4>2. Len(attempts) <= MaxAttempts /\ Len(attempts) \in Nat
        BY DEF IInv, Recorded, TypeOK
      <4> QED
        BY <4>1, <4>2, StoreAssumption
    <3>2. ever' = ever \cup {handle[w]}
      BY <2>1, PublishEffect DEF IInv, Recorded
    <3>3. manifest' # NoManifest
      BY <2>1, PublishEffect, StoreAssumption
    <3>4. /\ manifest'.seq = Sequence + 1 /\ manifest'.gen = genOf[w]
          /\ manifest'.attempts = retained[w] \cup {handle[w]}
          /\ retained[w] = IF manifest # NoManifest /\ manifest.gen = genOf[w]
                           THEN References
                           ELSE {}
      BY <2>1, PublishEffect
    <3>5. CASE manifest = NoManifest
      <4>1. Chain!First(handle[w])
        BY <3>3, <3>4, <3>5 DEF Chain!First, Sequence
      <4> QED
        BY <3>1, <3>2, <4>1 DEF Chain!ChainNext
    <3>6. CASE manifest # NoManifest /\ manifest.gen = genOf[w]
      <4>1. Chain!Extend(handle[w])
        BY <3>3, <3>4, <3>6 DEF Chain!Extend, Sequence, References
      <4> QED
        BY <3>1, <3>2, <4>1 DEF Chain!ChainNext
    <3>7. CASE manifest # NoManifest /\ manifest.gen # genOf[w]
      <4>1. genOf[w] = manifest.gen + 1
        BY <2>1, <3>7 DEF Publish, GenerationFits
      <4>2. Chain!Succeed(handle[w])
        BY <3>3, <3>4, <3>7, <4>1 DEF Chain!Succeed, Sequence
      <4> QED
        BY <3>1, <3>2, <4>2 DEF Chain!ChainNext
    <3> QED
      BY <3>5, <3>6, <3>7
  <2>2. CASE UNCHANGED <<manifest, ever>>
    BY <2>2
  <2> QED
    BY <2>1, <2>2 DEF Next, Step, CommitAttempt, RequireActiveLease,
       ManifestPreflight, Begin, Commit, Abandon, LeaseGranted, LeaseReleased,
       LeaseTakenOver, storeVars, vars
<1> QED
  BY <1>1, <1>2, Invariance, PTL DEF Spec, ImplementsChain, Chain!ChainSpec

-----------------------------------------------------------------------------
\* Whoever is committing has the lease, or had it until it was taken over.
InsideHolds ==
    /\ pc \in [Identity -> Phase]
    /\ \A w \in Identity : pc[w] # "out" => w \in {held} \cup overtaken

\* Only the cycle that holds the lease replaces the manifest, or one whose lease
\* was taken over.
THEOREM HolderPublishesHolds == Spec => HolderPublishes
<1>1. Init => InsideHolds
  BY DEF Init, InsideHolds
<1>2. InsideHolds /\ [Next]_vars => InsideHolds'
  <2> SUFFICES ASSUME InsideHolds, [Next]_vars
               PROVE  InsideHolds'
    OBVIOUS
  <2> USE DEF InsideHolds
  <2>1. ASSUME NEW w \in Identity, Step(w) \/ Abandon(w)
        PROVE  InsideHolds'
    <3>1. /\ UNCHANGED <<held, overtaken>> /\ pc' = [pc EXCEPT ![w] = pc'[w]]
          /\ pc'[w] \in Phase
          /\ pc'[w] # "out" => w \in {held} \cup overtaken
      BY <2>1 DEF Step, CommitAttempt, RequireActiveLease, ManifestPreflight,
         Begin, Commit, Publish, Replace, Abandon, Admits
    <3> QED
      BY <3>1
  <2>2. CASE LeaseGranted
    BY <2>2, NobodyAssumption DEF LeaseGranted, Grant, storeVars
  <2>3. CASE LeaseReleased
    BY <2>3 DEF LeaseReleased, Drop, storeVars
  <2>4. CASE LeaseTakenOver
    BY <2>4 DEF LeaseTakenOver, Supersede, storeVars
  <2>5. CASE UNCHANGED vars
    BY <2>5 DEF vars
  <2> QED
    BY <2>1, <2>2, <2>3, <2>4, <2>5 DEF Next
<1>3. InsideHolds =>
        \A w \in Identity :
          pc[w] = "publish" /\ manifest' # manifest /\ pc'[w] = "out" =>
             w \in {held} \cup overtaken
  BY DEF InsideHolds
<1>4. Spec => []InsideHolds
  BY <1>1, <1>2, PTL DEF Spec
<1> QED
  BY <1>3, <1>4, PTL DEF HolderPublishes

-----------------------------------------------------------------------------
(* What follows from the chain alone.                                      *)

\* A chain counts its attempts.
LEMMA ChainCounts == Chain!ChainSpec => []SequenceCounts
<1>1. Chain!ChainInit => SequenceCounts
  <2>1. IsFiniteSet({})
    BY FS_EmptySet
  <2> QED
    BY <2>1 DEF Chain!ChainInit, SequenceCounts
<1>2. SequenceCounts /\ [Chain!ChainNext]_<<manifest, ever>> => SequenceCounts'
  <2> SUFFICES ASSUME SequenceCounts, [Chain!ChainNext]_<<manifest, ever>>
               PROVE  SequenceCounts'
    OBVIOUS
  <2>1. ASSUME NEW a \in (1 .. MaxAttempts) \ ever,
               Chain!First(a) \/ Chain!Extend(a) \/ Chain!Succeed(a),
               ever' = ever \cup {a}
        PROVE  SequenceCounts'
    <3>1. IsFiniteSet(ever)
      BY DEF SequenceCounts
    <3>2. /\ IsFiniteSet(ever \cup {a})
          /\ Cardinality(ever \cup {a}) = Cardinality(ever) + 1
      BY <2>1, <3>1, FS_AddElement
    <3>3. CASE Chain!First(a)
      <4>1. /\ manifest = NoManifest /\ manifest' # NoManifest
            /\ manifest'.seq = 1 /\ manifest'.attempts = {a}
        BY <3>3 DEF Chain!First
      <4>2. ever = {} /\ Cardinality(ever) = 0
        BY <4>1, FS_EmptySet DEF SequenceCounts
      <4> QED
        BY <2>1, <3>2, <4>1, <4>2 DEF SequenceCounts
    <3>4. CASE Chain!Extend(a) \/ Chain!Succeed(a)
      <4>1. /\ NoManifest \notin {manifest, manifest'}
            /\ manifest'.seq = manifest.seq + 1
            /\ \/ manifest'.attempts = manifest.attempts \cup {a}
               \/ manifest'.attempts = {a}
        BY <3>4 DEF Chain!Extend, Chain!Succeed
      <4>2. manifest.seq = Cardinality(ever) /\ manifest.attempts \subseteq ever
        BY <4>1 DEF SequenceCounts
      <4>3. manifest'.seq = Cardinality(ever \cup {a})
        BY <3>2, <4>1, <4>2
      <4>4. manifest'.attempts \subseteq ever \cup {a}
        BY <4>1, <4>2
      <4> QED
        BY <2>1, <3>2, <4>1, <4>3, <4>4 DEF SequenceCounts
    <3> QED
      BY <2>1, <3>3, <3>4
  <2>2. CASE UNCHANGED <<manifest, ever>>
    BY <2>2 DEF SequenceCounts
  <2> QED
    BY <2>1, <2>2 DEF Chain!ChainNext
<1> QED
  BY <1>1, <1>2, PTL DEF Chain!ChainSpec

\* The sequence of the manifest counts the attempts that were ever published,
\* whichever cycles were overtaken or died in between.
THEOREM SequenceCountsHolds == Spec => []SequenceCounts
  BY ImplementsChainHolds, ChainCounts, PTL DEF ImplementsChain

-----------------------------------------------------------------------------
(* Commits while no lease was taken over.                                  *)

\* Every lease is then of the first generation and so is the manifest, and who
\* is inside has the lease and the sequence on disk.
Undisturbed ==
    overtaken = {} =>
        /\ held # Nobody => genOf[held] = 1
        /\ manifest # NoManifest => manifest.gen = 1
        /\ \A w \in Identity :
             pc[w] # "out" => held = w /\ expected[w] = Sequence

LEMMA StepUndisturbed ==
    ASSUME IInv, Undisturbed, [Next]_vars
    PROVE  Undisturbed'
<1> SUFFICES ASSUME overtaken' = {} PROVE Undisturbed'
  BY DEF Undisturbed
<1> USE DEF Undisturbed
<1> TypeOK
  BY DEF IInv
<1>1. ASSUME NEW w \in Identity, Step(w) \/ Abandon(w)
      PROVE  /\ UNCHANGED <<held, overtaken, genOf>>
             /\ pc' = [pc EXCEPT ![w] = pc'[w]]
             /\ pc[w] = "out" => held = w /\ expected'[w] = Sequence
             /\ pc[w] # "out" => expected'[w] = expected[w]
             /\ \A v \in Identity \ {w} : expected'[v] = expected[v]
  <2>1. CASE CommitAttempt(w)
    BY <2>1 DEF CommitAttempt, TypeOK
  <2>2. CASE RequireActiveLease(w)
    BY <2>2 DEF RequireActiveLease, Admits, TypeOK
  <2>3. CASE ManifestPreflight(w) \/ Begin(w) \/ Commit(w) \/ Publish(w)
             \/ Abandon(w)
    BY <2>3 DEF ManifestPreflight, Begin, Commit, Publish, Replace, Abandon,
       TypeOK
  <2> QED
    BY <1>1, <2>1, <2>2, <2>3 DEF Step
<1>2. ASSUME NEW w \in Identity, Step(w) \/ Abandon(w), ~Publish(w)
      PROVE  UNCHANGED <<manifest, Sequence>>
  BY <1>2 DEF Step, CommitAttempt, RequireActiveLease, ManifestPreflight,
     Begin, Commit, Abandon, Sequence
<1>3. ASSUME NEW w \in Identity, Step(w) \/ Abandon(w), ~Publish(w)
      PROVE  Undisturbed'
  <2>1. ASSUME NEW v \in Identity, pc'[v] # "out"
        PROVE  held = v /\ expected'[v] = Sequence
    <3>1. CASE v = w
      BY <1>1, <1>3, <3>1
    <3>2. CASE v # w
      BY <1>1, <1>3, <2>1, <3>2 DEF TypeOK
    <3> QED
      BY <3>1, <3>2
  <2> QED
    BY <1>1, <1>2, <1>3, <2>1
<1>4. ASSUME NEW w \in Identity, Publish(w)
      PROVE  Undisturbed'
  <2>1. /\ pc[w] = "publish" /\ pc' = [pc EXCEPT ![w] = "out"]
        /\ manifest'.gen = genOf[w]
        /\ UNCHANGED <<held, overtaken, genOf, expected>>
    BY <1>4, PublishEffect
  <2>2. held = w /\ genOf[w] = 1
    BY <2>1, NobodyAssumption
  <2>3. \A v \in Identity : pc'[v] = "out"
    BY <2>1, <2>2 DEF TypeOK
  <2> QED
    BY <2>1, <2>2, <2>3
<1>5. CASE LeaseGranted
  <2>1. /\ held = Nobody /\ held' \in Identity
        /\ genOf' = [genOf EXCEPT ![held'] = 1]
        /\ UNCHANGED <<manifest, pc, expected, overtaken>>
    BY <1>5 DEF LeaseGranted, Grant, storeVars
  <2>2. \A w \in Identity : pc[w] = "out"
    BY <2>1, NobodyAssumption
  <2>3. genOf'[held'] = 1
    BY <2>1 DEF TypeOK
  <2> QED
    BY <2>1, <2>2, <2>3
<1>6. CASE LeaseReleased
  BY <1>6 DEF LeaseReleased, Drop, storeVars, Sequence
<1>7. CASE LeaseTakenOver
  BY <1>7 DEF LeaseTakenOver
<1>8. CASE UNCHANGED vars
  BY <1>8 DEF vars, Sequence
<1> QED
  BY <1>3, <1>4, <1>5, <1>6, <1>7, <1>8 DEF Next, Step

\* While no lease was taken over, a commit that nobody kills is published.
THEOREM UndisturbedCommitHolds == Spec => []UndisturbedCommit
<1>1. Init => Undisturbed
  BY DEF Init, RegisterInit, Undisturbed
<1>2. IInv /\ Undisturbed => UndisturbedCommit
  <2> SUFFICES ASSUME IInv, Undisturbed, overtaken = {},
                      NEW w \in Identity, pc[w] # "out"
               PROVE  /\ \A v \in Identity \ {w} : pc[v] = "out"
                      /\ held = w
                      /\ expected[w] = Sequence
                      /\ GenerationFits(genOf[w])
                      /\ pc[w] = "publish" =>
                           \A a \in Proposed(w) : Valid(a, genOf[w])
    BY DEF UndisturbedCommit
  <2>1. held = w /\ expected[w] = Sequence /\ genOf[w] = 1
    BY NobodyAssumption DEF Undisturbed
  <2>2. \A v \in Identity \ {w} : pc[v] = "out"
    BY <2>1 DEF Undisturbed
  <2>3. GenerationFits(genOf[w])
    BY <2>1 DEF GenerationFits, Undisturbed
  <2>4. ASSUME pc[w] = "publish", NEW a \in Proposed(w)
        PROVE  Valid(a, genOf[w])
    <3>1. Owned(w) /\ Current(w)
      BY DEF IInv, HandleOwned, RetainedCurrent
    <3>2. Valid(handle[w], genOf[w])
      BY <2>4, <3>1 DEF Owned, Valid
    <3>3. retained[w] = IF manifest # NoManifest /\ manifest.gen = genOf[w]
                        THEN References
                        ELSE {}
      BY <2>1, <2>4, <3>1 DEF Current
    <3>4. \A b \in retained[w] : Valid(b, genOf[w])
      BY <3>3 DEF IInv, ManifestValid
    <3> QED
      BY <2>4, <3>2, <3>4 DEF Proposed
  <2> QED
    BY <2>1, <2>2, <2>3, <2>4
<1> QED
  BY <1>1, <1>2, StepUndisturbed, Invariance, PTL DEF Spec

-----------------------------------------------------------------------------
(* What a reader of the manifest may rely on, and what a run may come to.   *)

\* A published attempt is not dropped while its generation lasts, and the
\* generations follow one another.
Published(a, n) ==
    manifest # NoManifest /\ manifest.gen = n /\ a \in manifest.attempts

ChainType == manifest # NoManifest => manifest.gen \in Nat

\* Once published, an attempt stays in the manifest until the manifest is one of
\* a later generation, whatever other cycles publish, lose or leave behind.
THEOREM PublishedKept ==
  ASSUME NEW a \in Nat, NEW n \in Nat
  PROVE  Spec => [](Published(a, n) =>
                      [](manifest # NoManifest
                           /\ (Published(a, n) \/ manifest.gen > n)))
<1> DEFINE Since == manifest # NoManifest /\ (Published(a, n) \/ manifest.gen > n)
<1>1. IInv => ChainType
  BY DEF IInv, TypeOK, ChainType
<1>2. ChainType /\ Since /\ [Chain!ChainNext]_<<manifest, ever>> => Since'
  <2> SUFFICES ASSUME ChainType, Since, Chain!ChainNext
               PROVE  Since'
    BY DEF Published
  <2>1. PICK b \in (1 .. MaxAttempts) \ ever :
            Chain!First(b) \/ Chain!Extend(b) \/ Chain!Succeed(b)
    BY DEF Chain!ChainNext
  <2>2. CASE Chain!First(b)
    BY <2>2 DEF Chain!First
  <2>3. CASE Chain!Extend(b)
    BY <2>3 DEF Chain!Extend, Published
  <2>4. CASE Chain!Succeed(b)
    BY <2>4 DEF Chain!Succeed, Published, ChainType
  <2> QED
    BY <2>1, <2>2, <2>3, <2>4
<1>3. Published(a, n) => Since
  BY DEF Published
<1> QED
  BY <1>1, <1>2, <1>3, Invariance, ImplementsChainHolds, PTL
  DEF ImplementsChain, Chain!ChainSpec

LEMMA StrandedStep ==
  ASSUME IInv, Stranded, [Next]_vars, ~LeaseReleased
  PROVE  Stranded' /\ UNCHANGED manifest
<1> TypeOK
  BY DEF IInv
<1>0. manifest.gen \in Nat
  BY DEF TypeOK, Stranded
<1>1. ASSUME NEW w \in Identity, Publish(w)
      PROVE  FALSE
  <2>1. genOf[w] > manifest.gen + 1 /\ genOf[w] \in {manifest.gen, manifest.gen + 1}
    BY <1>1 DEF Publish, GenerationFits, Stranded
  <2> QED
    BY <1>0, <2>1 DEF TypeOK
<1>2. ASSUME NEW w \in Identity, Step(w) \/ Abandon(w)
      PROVE  /\ UNCHANGED <<held, genOf, manifest>>
             /\ pc' = [pc EXCEPT ![w] = pc'[w]]
             /\ pc[w] = "out" => held = w
  BY <1>1, <1>2 DEF Step, CommitAttempt, RequireActiveLease, ManifestPreflight,
     Begin, Commit, Abandon, Admits, TypeOK
<1>3. ASSUME NEW w \in Identity, Step(w) \/ Abandon(w)
      PROVE  Stranded' /\ UNCHANGED manifest
  <2>1. \A v \in Identity : pc'[v] # "out" => v = held \/ pc[v] # "out"
    BY <1>2, <1>3 DEF TypeOK
  <2> QED
    BY <1>2, <1>3, <2>1 DEF Stranded
<1>4. CASE LeaseGranted
  BY <1>4 DEF LeaseGranted, Grant, Stranded
<1>5. CASE LeaseTakenOver
  <2>1. /\ held \in Identity /\ held' \in Identity
        /\ genOf' = [genOf EXCEPT ![held'] = genOf[held] + 1]
        /\ UNCHANGED <<manifest, pc>>
    BY <1>5 DEF LeaseTakenOver, Supersede, storeVars, TypeOK
  <2>2. genOf[held] > manifest.gen + 1
    BY <2>1 DEF Stranded
  <2>3. genOf[held] + 1 > manifest.gen + 1
    BY <1>0, <2>1, <2>2 DEF TypeOK
  <2>4. \A v \in Identity : genOf'[v] = IF v = held' THEN genOf[held] + 1 ELSE genOf[v]
    BY <2>1 DEF TypeOK
  <2>5. held' # Nobody
    BY <2>1, NobodyAssumption
  <2>6. ASSUME NEW v \in Identity, v = held' \/ pc'[v] # "out"
        PROVE  genOf'[v] > manifest.gen + 1
    BY <2>1, <2>3, <2>4, <2>6 DEF Stranded
  <2> QED
    BY <2>1, <2>5, <2>6 DEF Stranded
<1>6. CASE UNCHANGED vars
  BY <1>6 DEF vars, Stranded
<1> QED
  BY <1>3, <1>4, <1>5, <1>6 DEF Next

\* After two takeovers without a publication in between the run publishes nothing
\* any more, however often it is taken over again and however many attempts are
\* begun: the manifest stays what it is until somebody releases the lease, and
\* a cycle that is killed does not.
THEOREM TakeoversStrand ==
  ASSUME NEW m
  PROVE  Spec => /\ StrandedForGood
                 /\ [](Stranded /\ manifest = m /\ [][~LeaseReleased]_vars
                         => [](manifest = m))
<1>1. IInv /\ (Stranded /\ manifest = m) /\ [Next]_vars /\ [~LeaseReleased]_vars =>
        (Stranded /\ manifest = m)'
  <2> SUFFICES ASSUME IInv, Stranded, manifest = m, [Next]_vars, [~LeaseReleased]_vars
               PROVE  (Stranded /\ manifest = m)'
    OBVIOUS
  <2>1. CASE ~LeaseReleased
    BY <2>1, StrandedStep
  <2>2. CASE UNCHANGED vars
    BY <2>2 DEF vars, Stranded
  <2> QED
    BY <2>1, <2>2
<1>2. IInv /\ [Next]_vars =>
        [Stranded => UNCHANGED manifest /\ (Stranded' \/ held' = Nobody)]_vars
  <2> SUFFICES ASSUME IInv, [Next]_vars, Stranded
               PROVE  UNCHANGED manifest /\ (Stranded' \/ held' = Nobody)
    OBVIOUS
  <2>1. CASE LeaseReleased
    BY <2>1 DEF LeaseReleased, Drop, storeVars
  <2>2. CASE ~LeaseReleased
    BY <2>2, StrandedStep
  <2> QED
    BY <2>1, <2>2
<1> QED
  BY <1>1, <1>2, Invariance, PTL DEF Spec, StrandedForGood
=============================================================================
