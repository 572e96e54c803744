---------------------------- MODULE ManifestChain ----------------------------
(***************************************************************************)
(* What the run manifest promises to whoever relies on it: it is replaced  *)
(* by its successor only, the generation never falls and never skips one,  *)
(* every successor adds exactly one attempt that no manifest held before,  *)
(* and within a generation no attempt is ever dropped.                     *)
(***************************************************************************)
EXTENDS Naturals

CONSTANTS Attempt, NoManifest

VARIABLES
    current,    \* the manifest on disk
    ever        \* the attempts that some manifest has held

ChainInit ==
    /\ current = NoManifest
    /\ ever = {}

First(a) ==
    /\ current = NoManifest
    /\ current' # NoManifest
    /\ current'.seq = 1
    /\ current'.attempts = {a}

Extend(a) ==
    /\ NoManifest \notin {current, current'}
    /\ current'.seq = current.seq + 1
    /\ current'.gen = current.gen
    /\ current'.attempts = current.attempts \cup {a}

Succeed(a) ==
    /\ NoManifest \notin {current, current'}
    /\ current'.seq = current.seq + 1
    /\ current'.gen = current.gen + 1
    /\ current'.attempts = {a}

ChainNext ==
    \E a \in Attempt \ ever :
        /\ First(a) \/ Extend(a) \/ Succeed(a)
        /\ ever' = ever \cup {a}

ChainSpec == ChainInit /\ [][ChainNext]_<<current, ever>>
=============================================================================
