------------------------------ MODULE Consensus ------------------------------
(***************************************************************************)
(* What several sources together say of one attribute, as                  *)
(* build_identity_consensus and build_capability_consensus compute it.     *)
(* Constant: the evidence store and the compatibility rules both use it.   *)
(***************************************************************************)
EXTENDS Naturals, FiniteSets

CONSTANT NoValue   \* ConsensusView::has_value is false

\* The outcome for one attribute: newest holds the newest live statement of
\* each source, superseded says whether anything else is on record.
Outcome(newest, superseded) ==
    LET values == {s.value : s \in newest} IN
    IF newest = {}
    THEN [outcome |-> IF superseded THEN "Superseded" ELSE "Unknown",
          value |-> NoValue]
    ELSE IF Cardinality(values) = 1
    THEN [outcome |-> IF Cardinality(newest) = 1 THEN "SingleSource" ELSE "Agreed",
          value |-> CHOOSE v \in values : TRUE]
    ELSE [outcome |-> "Conflicting", value |-> NoValue]

\* CapabilityConsensus::established.
Established(c) == c.outcome \in {"SingleSource", "Agreed"}
=============================================================================
