------------------------------- MODULE MCWire -------------------------------
(***************************************************************************)
(* An instance of Wire for TLC: every operation the server dispatches, and *)
(* one it does not know.                                                   *)
(***************************************************************************)
EXTENDS Wire

MCOps ==
    SessionOps \cup RegisterOps \cup ReadOps \cup EvidenceOps \cup SlotOps
        \cup HealthOps \cup PolicyOps \cup {"unknown.operation"}
=============================================================================
