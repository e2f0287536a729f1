--------------------------- MODULE MCSnapshotLoad ---------------------------
(***************************************************************************)
(* An instance of SnapshotLoad for TLC.                                    *)
(***************************************************************************)
EXTENDS SnapshotLoad
=============================================================================
