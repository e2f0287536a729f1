------------------------ MODULE CompatibilityProofs ------------------------
(***************************************************************************)
(* For every rule catalogue, every evidence and every limit: a decision    *)
(* that verify_decision accepts is the one a query would give now, and a   *)
(* closed one does not depend on evidence that is missing.                 *)
(***************************************************************************)
EXTENDS Compatibility, SequenceTheorems, TLAPS

-----------------------------------------------------------------------------
(* A decision that is current.                                             *)

\* Decisions are stamped with a generation already reached, and the one stamped
\* with the current generation is current.
DecisionInv ==
    /\ generation \in Nat
    /\ \A d \in held :
         /\ d.generation \in Nat /\ d.generation <= generation
         /\ Verified(d) => d = QueryCompatibility(d.limit)

\* An evaluation carries the generation and the limit it was made with.
LEMMA EvaluateStamps ==
  ASSUME NEW rs, NEW known, NEW max, NEW inc, NEW gen
  PROVE  /\ Evaluate(rs, known, max, inc, gen).generation = gen
         /\ Evaluate(rs, known, max, inc, gen).limit = max
  BY DEF Evaluate

\* A query depends on nothing but the rules, the evidence, the module's
\* incarnation and the generation.
LEMMA QueryReads ==
  ASSUME UNCHANGED <<rules, stated, withdrawn, incarnation, generation>>
  PROVE  \A max : QueryCompatibility(max)' = QueryCompatibility(max)
  BY DEF QueryCompatibility, Known

\* Every mutation takes a generation nobody has a decision of.
LEMMA MutationFences ==
  ASSUME DecisionInv, Advance
  PROVE  DecisionInv'
<1>1. generation' \in Nat /\ generation' = generation + 1
  BY DEF DecisionInv, Advance
<1>2. ASSUME NEW d \in held
      PROVE  d.generation \in Nat /\ d.generation <= generation' /\ d.generation # generation'
  BY <1>1, <1>2 DEF DecisionInv
<1>3. held' = held
  BY DEF Advance
<1> QED  BY <1>1, <1>2, <1>3 DEF DecisionInv, Verified

\* A step of the system keeps the decisions held right.
LEMMA DecisionStep ==
  ASSUME DecisionInv, [Next]_vars
  PROVE  DecisionInv'
<1>1. ASSUME NEW max \in QueryLimits, Ask(max) PROVE DecisionInv'
  <2> DEFINE d == QueryCompatibility(max)
  <2>1. /\ held' = {d}
        /\ UNCHANGED <<rules, stated, withdrawn, incarnation, generation>>
    BY <1>1 DEF Ask
  <2>2. d.generation = generation /\ d.limit = max
    BY EvaluateStamps DEF QueryCompatibility
  <2>3. QueryCompatibility(max)' = d
    BY <2>1, QueryReads
  <2> HIDE DEF d
  <2> QED  BY <2>1, <2>2, <2>3 DEF DecisionInv, Verified
<1>2. CASE Advance
  BY <1>2, MutationFences
<1>3. CASE UNCHANGED vars
  BY <1>3, QueryReads DEF vars, DecisionInv, Verified
<1> QED
  BY <1>1, <1>2, <1>3
  DEF Next, PublishRule, RetireRule, Fence, State, NewIncarnation

\* Whatever happened to rules, evidence and module since a decision was made:
\* if verify_decision accepts it, a query would give the same decision now.
THEOREM VerifiedSound == Spec => []VerifiedDecisionHolds
<1>1. Init => DecisionInv
  BY DEF Init, DecisionInv
<1>2. DecisionInv /\ [Next]_vars => DecisionInv'
  BY DecisionStep
<1>3. DecisionInv => VerifiedDecisionHolds
  BY DEF DecisionInv, VerifiedDecisionHolds
<1> QED  BY <1>1, <1>2, <1>3, PTL DEF Spec

-----------------------------------------------------------------------------
(* A decision that is closed.                                              *)

\* Every rule on record is one of the catalogue.
RulesFit == rules \in Seq([rule : Catalogue, live : BOOLEAN])

LEMMA RuleOfCatalogue ==
  ASSUME RulesFit, NEW i \in DOMAIN rules
  PROVE  rules[i] \in [rule : Catalogue, live : BOOLEAN]
<1>1. rules \in Seq([rule : Catalogue, live : BOOLEAN])  BY DEF RulesFit
<1>2. i \in 1..Len(rules)  BY <1>1, LenProperties
<1> QED  BY <1>1, <1>2, ElementOfSeq

\* A rule is appended, or marked as retired, and nothing else happens to it.
LEMMA RulesStep ==
  ASSUME RulesFit, [Next]_vars
  PROVE  RulesFit'
<1>1. ASSUME NEW rule \in Catalogue, PublishRule(rule) PROVE RulesFit'
  <2>1. [rule |-> rule, live |-> TRUE] \in [rule : Catalogue, live : BOOLEAN]
    BY <1>1
  <2> QED  BY <1>1, <2>1 DEF PublishRule, RulesFit
<1>2. ASSUME NEW i \in DOMAIN rules, RetireRule(i) PROVE RulesFit'
  <2>1. rules[i] \in [rule : Catalogue, live : BOOLEAN]
    BY <1>2, RuleOfCatalogue
  <2>2. [rules[i] EXCEPT !.live = FALSE] \in [rule : Catalogue, live : BOOLEAN]
    BY <2>1
  <2>3. rules' = [rules EXCEPT ![i] = [rules[i] EXCEPT !.live = FALSE]]
    BY <1>2 DEF RetireRule
  <2> QED  BY <2>2, <2>3 DEF RulesFit
<1>3. CASE UNCHANGED rules
  BY <1>3 DEF RulesFit
<1> QED
  BY <1>1, <1>2, <1>3 DEF Next, Fence, State, NewIncarnation, Ask, vars

\* A requirement that is decided has its attribute established, and is decided
\* the same way in every world that keeps what is established.
LEMMA DecidedStays ==
  ASSUME NEW w \in Worlds, NEW r, r.attribute \in Attributes,
         EvaluateRequirement(r, Known) # "Indeterminate"
  PROVE  EvaluateRequirement(r, w) = EvaluateRequirement(r, Known)
<1>1. Established(Known[r.attribute])
  BY DEF EvaluateRequirement
<1>2. w[r.attribute] = Known[r.attribute]
  BY <1>1 DEF Worlds
<1> QED  BY <1>2 DEF EvaluateRequirement

\* In such a world the rules that matched still match, a rule that matches now
\* was undecided, and a rule that is undecided now was so before.
LEMMA RulesInWorlds ==
  ASSUME RulesFit, NEW w \in Worlds, NEW max
  PROVE  LET ids == Considered(rules, max)
         IN  /\ MatchedRules(rules, ids, Known) \subseteq MatchedRules(rules, ids, w)
             /\ MatchedRules(rules, ids, w) \subseteq
                  MatchedRules(rules, ids, Known) \cup UndecidedRules(rules, ids, Known)
             /\ UndecidedRules(rules, ids, w) \subseteq UndecidedRules(rules, ids, Known)
<1> DEFINE ids == Considered(rules, max)
<1>1. ASSUME NEW i \in ids, "Indeterminate" \notin States(rules[i].rule, Known)
      PROVE  States(rules[i].rule, w) = States(rules[i].rule, Known)
  <2>1. i \in DOMAIN rules  BY <1>1 DEF Considered
  <2>2. rules[i].rule \in Catalogue  BY <2>1, RuleOfCatalogue
  <2>3. ASSUME NEW r \in rules[i].rule.requirements
        PROVE  EvaluateRequirement(r, w) = EvaluateRequirement(r, Known)
    <3>1. r.attribute \in Attributes  BY <2>2, CompatibilityAssumption
    <3>2. EvaluateRequirement(r, Known) # "Indeterminate"  BY <1>1 DEF States
    <3> QED  BY <3>1, <3>2, DecidedStays
  <2> QED  BY <2>3 DEF States
<1> HIDE DEF ids
<1>2. \A i \in ids : "Indeterminate" \in States(rules[i].rule, Known)
                    \/ States(rules[i].rule, w) = States(rules[i].rule, Known)
  BY <1>1
<1>3. /\ MatchedRules(rules, ids, Known) \subseteq MatchedRules(rules, ids, w)
      /\ MatchedRules(rules, ids, w) \subseteq
            MatchedRules(rules, ids, Known) \cup UndecidedRules(rules, ids, Known)
      /\ UndecidedRules(rules, ids, w) \subseteq UndecidedRules(rules, ids, Known)
  BY <1>2 DEF MatchedRules, UndecidedRules
<1> QED  BY <1>3 DEF ids

\* The outcome of an evaluation, from the rules that match and those that wait.
LEMMA EvaluateOutcome ==
  ASSUME NEW rs, NEW known, NEW max, NEW inc, NEW gen
  PROVE  LET ids == Considered(rs, max)
             matched == MatchedRules(rs, ids, known)
             undecided == UndecidedRules(rs, ids, known)
             says(verdict) == \E i \in matched : rs[i].rule.verdict = verdict
             e == Evaluate(rs, known, max, inc, gen)
         IN  /\ e.outcome = IF says("Incompatible") THEN "Incompatible"
                            ELSE IF says("Unsupported") THEN "Unsupported"
                            ELSE IF says("Compatible") /\ undecided = {} THEN "Compatible"
                            ELSE "Unknown"
             /\ e.closure = "Open" => e.outcome = "Unknown" /\ undecided = {}
  BY DEF Evaluate

\* An approval stays one and a denial stays one whatever evidence that is
\* missing or in dispute turns out to be, "unsupported" never becomes an
\* approval, and where the answer is open no evidence would approve
\* (evaluate_compatibility).
THEOREM ClosedSound == Spec => []ClosedIsFinal
<1>1. Init => RulesFit
  BY DEF Init, RulesFit
<1>2. RulesFit /\ [Next]_vars => RulesFit'
  BY RulesStep
<1>3. RulesFit => ClosedIsFinal
  <2> SUFFICES ASSUME RulesFit, NEW max \in QueryLimits, NEW w \in Worlds
               PROVE  LET d == QueryCompatibility(max)
                          later == Evaluate(rules, w, max, incarnation, generation).outcome
                      IN  /\ d.outcome \in {"Compatible", "Incompatible"} => later = d.outcome
                          /\ d.outcome = "Unsupported" =>
                                later \in {"Unsupported", "Incompatible"}
                          /\ d.closure = "Open" => later = "Unknown"
    BY DEF ClosedIsFinal
  <2> DEFINE ids == Considered(rules, max)
             matched == MatchedRules(rules, ids, Known)
             undecided == UndecidedRules(rules, ids, Known)
             matchedLater == MatchedRules(rules, ids, w)
             undecidedLater == UndecidedRules(rules, ids, w)
             d == Evaluate(rules, Known, max, incarnation, generation)
             later == Evaluate(rules, w, max, incarnation, generation)
             says(verdict) == \E i \in matched : rules[i].rule.verdict = verdict
             saysLater(verdict) == \E i \in matchedLater : rules[i].rule.verdict = verdict
  <2>1. /\ matched \subseteq matchedLater /\ matchedLater \subseteq matched \cup undecided
        /\ undecidedLater \subseteq undecided
    BY RulesInWorlds
  <2>2. /\ d.outcome = IF says("Incompatible") THEN "Incompatible"
                       ELSE IF says("Unsupported") THEN "Unsupported"
                       ELSE IF says("Compatible") /\ undecided = {} THEN "Compatible"
                       ELSE "Unknown"
        /\ d.closure = "Open" => d.outcome = "Unknown" /\ undecided = {}
    BY EvaluateOutcome
  <2>3. later.outcome = IF saysLater("Incompatible") THEN "Incompatible"
                        ELSE IF saysLater("Unsupported") THEN "Unsupported"
                        ELSE IF saysLater("Compatible") /\ undecidedLater = {} THEN "Compatible"
                        ELSE "Unknown"
    BY EvaluateOutcome
  <2>4. QueryCompatibility(max) = d
    BY DEF QueryCompatibility
  <2> HIDE DEF ids, matched, undecided, matchedLater, undecidedLater, d, later
  <2>5. d.outcome \in {"Compatible", "Incompatible"} => later.outcome = d.outcome
    BY <2>1, <2>2, <2>3
  <2>6. d.outcome = "Unsupported" => later.outcome \in {"Unsupported", "Incompatible"}
    BY <2>1, <2>2, <2>3
  <2>7. d.closure = "Open" => later.outcome = "Unknown"
    BY <2>1, <2>2, <2>3
  <2> QED  BY <2>4, <2>5, <2>6, <2>7 DEF later
<1> QED  BY <1>1, <1>2, <1>3, PTL DEF Spec
=============================================================================
