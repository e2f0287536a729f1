---------------------------- MODULE MCPersistence ----------------------------
(* Persistence on small instances.                                         *)
EXTENDS Persistence, TLC

\* Threads and files are only told apart by who uses them.
Symmetry == Permutations(Threads) \cup Permutations(Inodes)

\* The properties say nothing once two saves have overlapped, nor of a file of
\* which fsync reached only a part.
Covered == ~overlap /\ stdio # "lost"
=============================================================================
