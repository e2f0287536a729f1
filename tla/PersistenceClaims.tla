-------------------------- MODULE PersistenceClaims --------------------------
(* What the repository's documents say of autosave, where the code does    *)
(* something else.                                                         *)
EXTENDS Persistence

Quiescent == \A t \in Threads : pc[t] = "idle"

\* README.md and the autosave test: writes are atomic, and every committed mutation
\* lands on disk.  When every mutation has returned, the snapshot path names a
\* complete snapshot of the current state.
QuietSnapshotIsCurrent ==
    up /\ Quiescent /\ generation # 0 =>
        /\ target # None
        /\ Whole(blocks[target])
        /\ blocks[target][1].generation = generation
=============================================================================
