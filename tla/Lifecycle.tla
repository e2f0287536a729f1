------------------------------ MODULE Lifecycle ------------------------------
(***************************************************************************)
(* The lifecycle of one module incarnation, as the transition table of     *)
(* src/src/lifecycle.cpp states it.  Purely constant: the registry, its    *)
(* proofs and the health reconciliation all take the table from here.      *)
(***************************************************************************)

\* enum class LifecycleState.
LifecycleState ==
    {"Discovered", "Registered", "Attached", "Active", "Degraded",
     "Quarantined", "Removed", "Retired", "Replaced"}

\* kTargets: one row per state, the states a legal move may reach.
Targets ==
    [Discovered  |-> {"Registered", "Removed"},
     Registered  |-> {"Attached", "Quarantined", "Removed", "Retired", "Replaced"},
     Attached    |-> {"Active", "Degraded", "Quarantined", "Removed", "Replaced"},
     Active      |-> {"Degraded", "Quarantined", "Removed", "Retired", "Replaced"},
     Degraded    |-> {"Active", "Quarantined", "Removed", "Replaced"},
     Quarantined |-> {"Registered", "Attached", "Active", "Removed", "Retired", "Replaced"},
     Removed     |-> {"Registered", "Retired"},
     Retired     |-> {},
     Replaced    |-> {"Removed", "Retired"}]

\* lifecycle_transition_allowed.
TransitionAllowed(from, to) == to \in Targets[from]

\* lifecycle_state_implies_attachment.
ImpliesAttachment(state) == state \in {"Attached", "Active", "Degraded"}

\* The two states register_module treats as "this incarnation is over": an
\* EnsureCurrent registration is refused, a new one does not record Replaced.
Ended(state) == state \in {"Replaced", "Retired"}
=============================================================================
