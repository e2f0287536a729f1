----------------------------- MODULE MCRegistry -----------------------------
(***************************************************************************)
(* TLC instances of Registry.                                              *)
(***************************************************************************)
EXTENDS Registry, TLC

\* Callers, names, keys, slots and instance ids are interchangeable.
Symmetry ==
    Permutations(Clients) \cup Permutations(SourceNames) \cup Permutations(Keys)
      \cup Permutations(Slots) \cup Permutations(Instances)

\* What callers read after the last commit explored is left out.
BeforeLastCommit == generation < MaxGeneration
=============================================================================
