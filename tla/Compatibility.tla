--------------------------- MODULE Compatibility ---------------------------
(***************************************************************************)
(* Compatibility rules and decisions: what sources state of a module and   *)
(* of a host port, the rules that test it, the three-valued evaluation of  *)
(* a rule set, and a decision a client holds while the registry moves on.  *)
(*                                                                         *)
(* The evidence is kept here as what each source stands for now (module    *)
(* Evidence shows that this is what the registry computes); tokens and     *)
(* handles are current.  A refused call changes nothing.                   *)
(***************************************************************************)
EXTENDS Consensus, Integers, Sequences, FiniteSetsExt

CONSTANTS
    Sources,        \* evidence sources
    Kinds,          \* a function: the attributes of the module and of the port that
                    \* are talked of, and the capability_value_kind of each one's key
    Said,           \* a function: the values sources may state for each attribute
    Catalogue,      \* rules clients may publish
    RuleBudget,     \* RegistryConfig::max_rules
    QueryLimits,    \* CompatQuery::max_rules of the queries
    MaxGeneration   \* bound: mutations explored

Attributes == DOMAIN Kinds

ASSUME CompatibilityAssumption ==
    /\ Attributes \subseteq {"Module", "Port"} \X STRING
    /\ DOMAIN Said = Attributes
    /\ \A a \in Attributes : \A v \in Said[a] : v # NoValue /\ v.kind = Kinds[a]
    /\ RuleBudget \in Nat /\ MaxGeneration \in Nat \ {0, 1}
    /\ QueryLimits \subseteq Nat
    /\ \A rule \in Catalogue : \A r \in rule.requirements : r.attribute \in Attributes

VARIABLES
    rules,       \* State::rules: a sequence, its indices the rule ids
    stated,      \* what each source stands for, by attribute
    withdrawn,   \* the attributes with statements on record that no longer count
    incarnation, \* the module's current incarnation
    generation,  \* State::generation
    held         \* the decision a client holds, if it holds one

vars == <<rules, stated, withdrawn, incarnation, generation, held>>

-----------------------------------------------------------------------------
(* Requirements.                                                           *)

SetOps == {"In", "NotIn", "SupersetOf", "SubsetOf", "Overlaps", "DisjointFrom"}
SetKinds == {"EnumSet", "TextSet", "Spectrum"}

\* validate_rule, for one requirement: the operand must have a shape the
\* operator can use.
ValidRequirement(r) ==
    \/ r.op \in {"Equals", "NotEquals"} /\ r.operand.kind = Kinds[r.attribute]
    \/ /\ r.op \in SetOps /\ r.operand.kind \in SetKinds
       /\ \/ r.operand.kind = Kinds[r.attribute]
          \/ Kinds[r.attribute] = "Enum" /\ r.operand.kind = "EnumSet"
    \/ r.op \in {"AtMost", "AtLeast"} /\ r.operand.kind \in {"Count", "Real"}

ValidRule(rule) ==
    rule.requirements # {} /\ \A r \in rule.requirements : ValidRequirement(r)

\* set_contains and sets_intersect compare two sets of one kind, enumerations
\* or texts; the numeric operators compare a count or a real with another.
Comparable(op, v, w) ==
    \/ op \in {"Equals", "NotEquals"}
    \/ op \in SetOps /\ v.kind = w.kind /\ v.kind \in {"EnumSet", "TextSet"}
    \/ op \in {"AtMost", "AtLeast"} /\ {v.kind, w.kind} \subseteq {"Count", "Real"}

Holds(op, v, w) ==
    CASE op = "Equals"       -> v = w
      [] op = "NotEquals"    -> v # w
      [] op \in {"In", "SubsetOf"} -> v.is \subseteq w.is
      [] op = "NotIn"        -> ~(v.is \subseteq w.is)
      [] op = "SupersetOf"   -> w.is \subseteq v.is
      [] op = "Overlaps"     -> v.is \cap w.is # {}
      [] op = "DisjointFrom" -> v.is \cap w.is = {}
      [] op = "AtMost"       -> v.is <= w.is
      [] op = "AtLeast"      -> v.is >= w.is

\* apply_operator.
ApplyOperator(r, v) ==
    IF ~Comparable(r.op, v, r.operand) THEN "Indeterminate"
    ELSE IF Holds(r.op, v, r.operand) THEN "Satisfied" ELSE "Violated"

\* evaluate_requirement: known gives each attribute's consensus.
EvaluateRequirement(r, known) ==
    LET c == known[r.attribute]
    IN  IF Established(c) THEN ApplyOperator(r, c.value) ELSE "Indeterminate"

-----------------------------------------------------------------------------
(* Rules and decisions.                                                    *)

\* The rules a query considers: live and enabled, by descending priority, then
\* by id, at most max of them.
Considered(rs, max) ==
    LET on == {i \in DOMAIN rs : rs[i].live /\ rs[i].rule.enabled}
        before(i, j) == \/ rs[i].rule.priority > rs[j].rule.priority
                        \/ rs[i].rule.priority = rs[j].rule.priority /\ i < j
    IN  {i \in on : Cardinality({j \in on : before(j, i)}) < max}

States(rule, known) == {EvaluateRequirement(r, known) : r \in rule.requirements}

\* Mutant: only what could approve is waited for.
UndecidedApprovals(rs, ids, known) ==
    {i \in ids : /\ "Indeterminate" \in States(rs[i].rule, known)
                 /\ rs[i].rule.verdict = "Compatible"}

\* The rules whose every requirement is satisfied, and those that wait for
\* evidence (whatever else of theirs is violated).
MatchedRules(rs, ids, known) ==
    {i \in ids : States(rs[i].rule, known) = {"Satisfied"}}

UndecidedRules(rs, ids, known) ==
    {i \in ids : "Indeterminate" \in States(rs[i].rule, known)}

\* digest_inputs: every attribute a live rule refers to, with its consensus.
Inputs(rs, known) ==
    [a \in {r.attribute :
              r \in UNION {rs[i].rule.requirements :
                             i \in {j \in DOMAIN rs : rs[j].live}}} |-> known[a]]

\* evaluate_compatibility.
Evaluate(rs, known, max, inc, gen) ==
    LET ids == Considered(rs, max)
        matched == MatchedRules(rs, ids, known)
        undecided == UndecidedRules(rs, ids, known)
        by(verdict) == {i \in matched : rs[i].rule.verdict = verdict}
        answer(outcome, closure, which) ==
            [outcome |-> outcome, closure |-> closure, matched |-> which,
             considered |-> Cardinality(ids), undecided |-> Cardinality(undecided),
             inputs |-> Inputs(rs, known), incarnation |-> inc, generation |-> gen,
             limit |-> max]
    IN  IF by("Incompatible") # {}
        THEN answer("Incompatible", "Closed", by("Incompatible"))
        ELSE IF by("Unsupported") # {}
        THEN answer("Unsupported", "Closed", by("Unsupported"))
        ELSE IF by("Compatible") # {} /\ undecided = {}
        THEN answer("Compatible", "Closed", by("Compatible"))
        ELSE answer("Unknown", IF undecided = {} THEN "Open" ELSE "Partial",
                    by("Compatible") \cup undecided)

\* The consensus on each attribute, from what the sources stand for.
Known ==
    [a \in Attributes |->
        LET on == {s \in Sources : stated[a][s] # NoValue}
        IN  Outcome({[source |-> s, value |-> stated[a][s], seq |-> 0] : s \in on},
                    a \in withdrawn)]

\* query_compatibility, about the current incarnation.
QueryCompatibility(max) == Evaluate(rules, Known, max, incarnation, generation)

-----------------------------------------------------------------------------
Unstated == [s \in Sources |-> NoValue]

Init ==
    /\ rules = <<>>
    /\ stated = [a \in Attributes |-> Unstated]
    /\ withdrawn = {}
    /\ incarnation = 1
    /\ generation = 2
    /\ held = {}

\* Every accepted mutation takes the next generation.
Advance ==
    /\ generation < MaxGeneration
    /\ generation' = generation + 1
    /\ UNCHANGED held

\* publish_rule: retired rules count against the budget.
PublishRule(rule) ==
    /\ ValidRule(rule)
    /\ Len(rules) < RuleBudget
    /\ rules' = Append(rules, [rule |-> rule, live |-> TRUE])
    /\ Advance
    /\ UNCHANGED <<stated, withdrawn, incarnation>>

\* Mutant: retiring a rule is not a change of generation.
RetireRuleQuietly(i) ==
    /\ rules[i].live
    /\ rules' = [rules EXCEPT ![i].live = FALSE]
    /\ UNCHANGED <<stated, withdrawn, incarnation, generation, held>>

\* retire_rule, by any source with a current token.
RetireRule(i) ==
    /\ rules[i].live
    /\ rules' = [rules EXCEPT ![i].live = FALSE]
    /\ Advance
    /\ UNCHANGED <<stated, withdrawn, incarnation>>

\* publish_capability and publish_port_capability: a source states a value,
\* in place of the one it stood for.
State(s, a, v) ==
    /\ stated' = [stated EXCEPT ![a][s] = v]
    /\ withdrawn' = IF stated[a][s] = NoValue THEN withdrawn ELSE withdrawn \cup {a}
    /\ Advance
    /\ UNCHANGED <<rules, incarnation>>

\* register_source with a new instance: what the source stated no longer counts.
Fence(s) ==
    /\ stated' = [a \in Attributes |-> [stated[a] EXCEPT ![s] = NoValue]]
    /\ withdrawn' = withdrawn \cup {a \in Attributes : stated[a][s] # NoValue}
    /\ Advance
    /\ UNCHANGED <<rules, incarnation>>

\* register_module or replace_module with a new incarnation: nothing is known
\* of it yet.
NewIncarnation ==
    /\ incarnation' = incarnation + 1
    /\ stated' = [a \in Attributes |-> IF a[1] = "Module" THEN Unstated ELSE stated[a]]
    /\ withdrawn' = {a \in withdrawn : a[1] = "Port"}
    /\ Advance
    /\ UNCHANGED rules

\* A client asks, and keeps the answer; a query changes nothing.
Ask(max) ==
    /\ held' = {QueryCompatibility(max)}
    /\ UNCHANGED <<rules, stated, withdrawn, incarnation, generation>>

Next ==
    \/ \E rule \in Catalogue : PublishRule(rule)
    \/ \E i \in DOMAIN rules : RetireRule(i)
    \/ \E s \in Sources :
         \/ Fence(s)
         \/ \E a \in Attributes : \E v \in Said[a] : State(s, a, v)
    \/ NewIncarnation
    \/ \E max \in QueryLimits : Ask(max)

Spec == Init /\ [][Next]_vars

\* verify_decision.
Verified(d) == d.generation = generation

-----------------------------------------------------------------------------
\* A decision that verify_decision accepts is the one a query would give now,
\* whatever happened to rules, evidence and module since it was made.
VerifiedDecisionHolds ==
    \A d \in held : Verified(d) => d = QueryCompatibility(d.limit)

\* The states of knowledge that would settle everything: what is established
\* stays, everything else gets some value every source agrees on.
Worlds ==
    LET open == {a \in Attributes : ~Established(Known[a])}
    IN  {[a \in Attributes |-> IF a \in open
                               THEN [outcome |-> "Agreed", value |-> w[a]]
                               ELSE Known[a]] :
           w \in {f \in [open -> UNION {Said[a] : a \in open}] :
                    \A a \in open : f[a] \in Said[a]}}

\* A closed decision does not depend on what is missing or in dispute: an
\* approval stays one and a denial stays one whatever the open attributes turn
\* out to be, "unsupported" never becomes an approval, and where the answer is
\* open no evidence would approve.
ClosedIsFinal ==
    \A max \in QueryLimits :
        LET d == QueryCompatibility(max)
            later(w) == Evaluate(rules, w, max, incarnation, generation).outcome
        IN  \A w \in Worlds :
              /\ d.outcome \in {"Compatible", "Incompatible"} => later(w) = d.outcome
              /\ d.outcome = "Unsupported" => later(w) \in {"Unsupported", "Incompatible"}
              /\ d.closure = "Open" => later(w) = "Unknown"
=============================================================================
