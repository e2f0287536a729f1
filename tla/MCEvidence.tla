----------------------------- MODULE MCEvidence -----------------------------
(***************************************************************************)
(* An instance of Evidence for TLC.                                        *)
(***************************************************************************)
EXTENDS Evidence, TLC

\* Sources, attributes and values are only compared.
Symmetry ==
    Permutations(Sources) \cup Permutations(Attributes) \cup Permutations(Values)
=============================================================================
