-------------------------- MODULE MCCompatibility --------------------------
(***************************************************************************)
(* An instance of Compatibility for TLC: a count, an enumeration and a set *)
(* of enumeration values, with rules of every verdict over them.           *)
(***************************************************************************)
EXTENDS Compatibility, TLC

Lanes  == <<"Module", "LaneCount">>
Media  == <<"Module", "MediaClass">>
Speeds == <<"Port", "SpeedClasses">>

Count(n) == [kind |-> "Count", is |-> n]
Enum(n)  == [kind |-> "Enum", is |-> n]
Set(ns)  == [kind |-> "EnumSet", is |-> ns]

\* Sources are only compared.
Symmetry == Permutations(Sources)

MCKinds == Lanes :> "Count" @@ Media :> "Enum" @@ Speeds :> "EnumSet"

MCSaid ==
    Lanes :> {Count(1), Count(2)} @@ Media :> {Enum(0), Enum(1)} @@
    Speeds :> {Set({0}), Set({0, 1})}

Requires(a, op, v) == [attribute |-> a, op |-> op, operand |-> v]
Rule(verdict, priority, enabled, requirements) ==
    [verdict |-> verdict, priority |-> priority, enabled |-> enabled,
     requirements |-> requirements]

MCCatalogue == {
    Rule("Compatible", 1, TRUE, {Requires(Lanes, "AtLeast", Count(1))}),
    Rule("Compatible", 0, TRUE, {Requires(Speeds, "SupersetOf", Set({0})),
                                 Requires(Media, "NotEquals", Enum(1))}),
    Rule("Incompatible", 0, TRUE, {Requires(Media, "Equals", Enum(1)),
                                   Requires(Speeds, "Overlaps", Set({1}))}),
    Rule("Incompatible", 0, FALSE, {Requires(Lanes, "AtMost", Count(1))}),
    Rule("Unsupported", 2, TRUE, {Requires(Speeds, "DisjointFrom", Set({1}))}),
    Rule("Unsupported", 0, TRUE, {Requires(Media, "In", Set({0}))}),
    Rule("Compatible", 0, TRUE, {Requires(Lanes, "SubsetOf", Set({1}))})}
=============================================================================
