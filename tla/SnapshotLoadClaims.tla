------------------------- MODULE SnapshotLoadClaims -------------------------
(***************************************************************************)
(* What the source says of snapshots that the code does not do.            *)
(***************************************************************************)
EXTENDS SnapshotLoad

\* src/src/snapshot.cpp:480-481 says that a snapshot round-trip preserves the
\* state: a file nobody damaged is read back as what was saved.  Nothing bounds
\* the length of a record that is written, and a reader accepts 16 MiB
\* (kMaxRecordBytes): a module at its sample budget, 65536 samples of at least
\* 340 bytes, is more.
UndamagedRoundTrips ==
    file # Nothing /\ file.damage = Nothing =>
        \A tailRecovery \in BOOLEAN :
            Parse(file, tailRecovery) = {[state |-> file.of, recovered |-> FALSE]}
=============================================================================
