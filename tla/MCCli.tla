-------------------------------- MODULE MCCli -------------------------------
(***************************************************************************)
(* An instance of Cli for TLC.  A file from another registry has the keys  *)
(* under each other's uids.                                                *)
(***************************************************************************)
EXTENDS Cli, TLC

CONSTANTS k1, k2

MCStrangers ==
    {[k \in Keys |-> [uid |-> IF k = k1 THEN 2 ELSE 1, inc |-> 1, by |-> None]]}

Symmetry == Permutations(Sessions)
=============================================================================
