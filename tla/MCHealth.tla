------------------------------- MODULE MCHealth -------------------------------
(* Health on small instances.                                              *)
EXTENDS Health

CONSTANTS banded, floor

\* banded: both bands, a gap between entry and exit, two samples to move the
\* latch; floor: one band that acts at once.
Banded == [above |-> TRUE, has_degraded |-> TRUE, has_critical |-> TRUE,
           degraded_enter |-> 2, degraded_exit |-> 1,
           critical_enter |-> 3, critical_exit |-> 2,
           escalate_after |-> 2, recover_after |-> 2, max_age |-> 1, tolerance |-> 1]
Floor  == [above |-> FALSE, has_degraded |-> TRUE, has_critical |-> FALSE,
           degraded_enter |-> 1, degraded_exit |-> 2,
           critical_enter |-> 0, critical_exit |-> 0,
           escalate_after |-> 1, recover_after |-> 1, max_age |-> 1, tolerance |-> 2]

MCTerms == [p \in {banded, floor} |-> IF p = banded THEN Banded ELSE Floor]

\* Samples come from the lanes alone; a lane is judged by its own threshold if
\* there is one, else by the one of the module.
MCSampled   == Metrics \X Lanes
MCPublished == ((Metrics \X Lanes) \X {banded}) \cup ((Metrics \X {ModuleLane}) \X {floor})
=============================================================================
