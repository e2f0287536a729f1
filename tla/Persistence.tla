----------------------------- MODULE Persistence -----------------------------
(***************************************************************************)
(* Autosave, snapshot files, and the restart of a killed daemon:           *)
(* RegistryImpl::maybe_autosave, save_snapshot_impl, write_file_atomically *)
(* and load_snapshot.                                                      *)
(*                                                                         *)
(* A mutation commits under the registry's lock and saves after releasing  *)
(* it, so the saves of several threads interleave; they share one          *)
(* temporary name.  Each system call of a save is an action.  A registry   *)
(* state is identified by its generation and registry incarnation, and a   *)
(* snapshot of it is a file of two blocks, both labelled with that state:  *)
(* the head with the file header, and the tail with the trailer.           *)
(***************************************************************************)
EXTENDS Naturals, Sequences, FiniteSets

CONSTANTS
    Threads,         \* threads that mutate or save
    Inodes,          \* files the file system can hold at once
    None,            \* no file, nothing held
    Hole,            \* a block never written, below the end of a file
    Unflushed,       \* how many blocks fwrite may leave in the stdio buffer
    Fsync,           \* SaveOptions::fsync
    TailRecovery,    \* LoadOptions::allow_tail_recovery
    IoFailures,      \* whether system calls may fail
    PowerLoss,       \* whether a crash may lose what was not flushed
    IncarnationMax,  \* 0xFFFFFFFF
    MaxGeneration,   \* bound of the model: commits explored
    MaxBoots         \* bound of the model: processes started

FileBlocks == 2

ASSUME PersistenceAssumption ==
    /\ None \notin Inodes
    /\ Unflushed \subseteq 0..FileBlocks
    /\ {Fsync, TailRecovery, IoFailures, PowerLoss} \subseteq BOOLEAN
    /\ IncarnationMax \in Nat \ {0}
    /\ MaxGeneration \in Nat /\ MaxBoots \in Nat
    /\ IsFiniteSet(Threads) /\ IsFiniteSet(Inodes)
    /\ Cardinality(Inodes) >= Cardinality(Threads) + 2  \* one file can always be created

VARIABLES
    up,           \* the process runs
    generation,   \* State::generation
    incarnation,  \* State::registry_incarnation
    pc,           \* where each thread is in mutate / save_snapshot_impl
    copy,         \* the state each saving thread copied
    fd,           \* the file each saving thread has open
    offset,       \* blocks each saving thread has handed to the kernel
    blocks,       \* contents of each file, as the kernel has it
    durable,      \* how many leading blocks of each file are on stable storage
    target,       \* the file the snapshot path names
    temporary,    \* the file path + ".tmp" names
    decision,     \* a generation some caller fenced a decision with
    boot,         \* history: number of restarts
    saved,        \* history: highest generation whose save returned Ok
    settled,      \* history: saved, when the last process ended
    overlap,      \* history: two saves were in progress at once
    stdio         \* history: "held" when fwrite kept bytes back until fclose,
                  \*   behind fsync; "lost" when power was lost after that

processVars == <<up, generation, incarnation>>
threadVars  == <<pc, copy, fd, offset>>
fileVars    == <<blocks, durable, target, temporary>>
ghostVars   == <<decision, boot, saved, settled, overlap, stdio>>
vars        == <<processVars, threadVars, fileVars, ghostVars>>

Version == [generation : Nat, incarnation : Nat]

ASSUME HoleAssumption == Hole \notin Version /\ None \notin Version

Saving(t) == pc[t] \in {"open", "write", "fsync", "close", "rename"}

Init ==
    /\ up = TRUE /\ generation = 0 /\ incarnation = 1
    /\ pc = [t \in Threads |-> "idle"]
    /\ copy = [t \in Threads |-> None]
    /\ fd = [t \in Threads |-> None]
    /\ offset = [t \in Threads |-> 0]
    /\ blocks = [i \in Inodes |-> <<>>]
    /\ durable = [i \in Inodes |-> 0]
    /\ target = None /\ temporary = None
    /\ decision = None /\ boot = 0 /\ saved = 0 /\ settled = 0 /\ overlap = FALSE
    /\ stdio = "flushed"

-----------------------------------------------------------------------------
(* Mutations and the start of a save.                                      *)

Goto(t, next) == pc' = [pc EXCEPT ![t] = next]

\* RegistryImpl::mutate up to the unlock: the state is published before it is
\* saved, and autosave is on.
Commit(t) ==
    /\ up /\ pc[t] = "idle"
    /\ generation < MaxGeneration
    /\ generation' = generation + 1
    /\ Goto(t, "copy")
    /\ UNCHANGED <<up, incarnation, copy, fd, offset, fileVars, ghostVars>>

\* Registry::save, called by itself (the daemon does so on an orderly shutdown).
Save(t) ==
    /\ up /\ pc[t] = "idle"
    /\ Goto(t, "copy")
    /\ UNCHANGED <<processVars, copy, fd, offset, fileVars, ghostVars>>

\* save_snapshot_impl: the state pointer is copied under the lock, and encoded.
Copy(t) ==
    /\ pc[t] = "copy"
    /\ copy' = [copy EXCEPT ![t] = [generation |-> generation, incarnation |-> incarnation]]
    /\ Goto(t, "open")
    /\ overlap' = (overlap \/ \E u \in Threads : Saving(u))
    /\ UNCHANGED <<processVars, fd, offset, fileVars, decision, boot, saved, settled, stdio>>

-----------------------------------------------------------------------------
(* write_file_atomically.                                                  *)

Free == Inodes \ ({target, temporary} \cup {fd[t] : t \in Threads})

\* A file that has no name and that nobody has open any more is gone.
Reclaim(used) ==
    /\ blocks' = [i \in Inodes |-> IF i \in used THEN blocks[i] ELSE <<>>]
    /\ durable' = [i \in Inodes |-> IF i \in used THEN durable[i] ELSE 0]

\* fopen(path + ".tmp", "wb"): the file of that name is truncated, whoever is
\* writing it; if there is none, one is created.
Open(t) ==
    /\ pc[t] = "open"
    /\ \E i \in IF temporary = None THEN Free ELSE {temporary} :
          /\ temporary' = i
          /\ fd' = [fd EXCEPT ![t] = i]
          /\ blocks' = [blocks EXCEPT ![i] = <<>>]
          /\ durable' = [durable EXCEPT ![i] = 0]
    /\ offset' = [offset EXCEPT ![t] = 0]
    /\ Goto(t, "write")
    /\ UNCHANGED <<processVars, copy, target, ghostVars>>

\* The contents of a file after the blocks from + 1 .. to were written with v.
Written(file, from, to, v) ==
    [i \in 1..(IF Len(file) < to THEN to ELSE Len(file)) |->
        IF i \in from + 1..to THEN v ELSE IF i <= Len(file) THEN file[i] ELSE Hole]

\* Hand blocks to the kernel up to the given count, at the thread's own offset.
Flush(t, upTo) ==
    /\ blocks' = IF offset[t] < upTo
                 THEN [blocks EXCEPT ![fd[t]] = Written(@, offset[t], upTo, copy[t])]
                 ELSE blocks
    /\ durable' = [durable EXCEPT ![fd[t]] = IF offset[t] < @ THEN offset[t] ELSE @]
    /\ offset' = [offset EXCEPT ![t] = upTo]

\* fwrite: stdio passes on what it does not keep in its buffer.
Write(t) ==
    /\ pc[t] = "write"
    /\ \E left \in Unflushed :
          /\ Flush(t, FileBlocks - left)
          /\ stdio' = IF left # 0 /\ stdio = "flushed" THEN "held" ELSE stdio
    /\ Goto(t, IF Fsync THEN "fsync" ELSE "close")
    /\ UNCHANGED <<processVars, copy, fd, target, temporary, decision, boot, saved, settled,
                   overlap>>

\* Mutant: nothing is flushed to stable storage.
SkipSync(t) ==
    /\ pc[t] = "fsync"
    /\ Goto(t, "close")
    /\ UNCHANGED <<processVars, copy, fd, offset, fileVars, ghostVars>>

\* fsync(fileno(file)): reaches what the kernel has, not the stdio buffer.
Sync(t) ==
    /\ pc[t] = "fsync"
    /\ durable' = [durable EXCEPT ![fd[t]] = Len(blocks[fd[t]])]
    /\ Goto(t, "close")
    /\ UNCHANGED <<processVars, copy, fd, offset, blocks, target, temporary, ghostVars>>

\* fclose: the stdio buffer is passed on.
Close(t) ==
    /\ pc[t] = "close"
    /\ Flush(t, FileBlocks)
    /\ fd' = [fd EXCEPT ![t] = None]
    /\ Goto(t, "rename")
    /\ UNCHANGED <<processVars, copy, target, temporary, ghostVars>>

\* The save ends, and leaves the given files under a name.
Finished(t, named) ==
    /\ Goto(t, "idle")
    /\ copy' = [copy EXCEPT ![t] = None]
    /\ fd' = [fd EXCEPT ![t] = None]
    /\ offset' = [offset EXCEPT ![t] = 0]
    /\ Reclaim(named \cup {fd[u] : u \in Threads \ {t}})

\* rename(path + ".tmp", path): whatever file has that name now.
Rename(t) ==
    /\ pc[t] = "rename"
    /\ temporary # None
    /\ target' = temporary
    /\ temporary' = None
    /\ saved' = IF copy[t].generation > saved THEN copy[t].generation ELSE saved
    /\ Finished(t, {temporary})
    /\ UNCHANGED <<processVars, decision, boot, settled, overlap, stdio>>

\* Mutant: a failed save removes the target as well.
FailRemovesTarget(t) ==
    /\ IoFailures /\ Saving(t)
    /\ temporary' = None /\ target' = None
    /\ Finished(t, {})
    /\ UNCHANGED <<processVars, ghostVars>>

\* A call that fails: the file is closed, the temporary name is removed and the
\* save returns IoError, which maybe_autosave drops.  A rename of a name another
\* thread has renamed already fails by itself; fopen failing removes nothing.
Fail(t) ==
    /\ \/ IoFailures /\ Saving(t)
       \/ pc[t] = "rename" /\ temporary = None
    /\ temporary' = IF pc[t] = "open" THEN temporary ELSE None
    /\ Finished(t, {target} \cup (IF pc[t] = "open" THEN {temporary} ELSE {}))
    /\ UNCHANGED <<processVars, target, ghostVars>>

-----------------------------------------------------------------------------
(* Crashes and restarts.                                                   *)

Stopped ==
    /\ up
    /\ boot < MaxBoots
    /\ up' = FALSE
    /\ settled' = saved
    /\ generation' = 0 /\ incarnation' = 1
    /\ pc' = [t \in Threads |-> "idle"]
    /\ copy' = [t \in Threads |-> None]
    /\ fd' = [t \in Threads |-> None]
    /\ offset' = [t \in Threads |-> 0]
    /\ UNCHANGED <<target, temporary, decision, boot, saved, overlap>>

\* The process is killed, or exits: the stdio buffers are gone, the files stay.
Kill == Stopped /\ Reclaim({target, temporary}) /\ UNCHANGED stdio

\* The machine loses power: of each file, any suffix that is not on stable
\* storage may be missing.  (Completed renames are taken to survive.)
LosePower ==
    /\ PowerLoss
    /\ Stopped
    /\ stdio' = IF stdio = "held" THEN "lost" ELSE stdio
    /\ \E kept \in [Inodes -> 0..FileBlocks] :
          /\ \A i \in Inodes : kept[i] \in IF i \in {target, temporary}
                                           THEN durable[i]..Len(blocks[i]) ELSE {0}
          /\ blocks' = [i \in Inodes |-> SubSeq(blocks[i], 1, kept[i])]
          /\ durable' = kept

Whole(file) == Len(file) = FileBlocks /\ file[1] = file[2] /\ file[1] # Hole

\* parse_snapshot: the states a file may be read as; none when it is refused.
\* A payload cut short is recovered as an empty state without a generation, a
\* damaged record as the records before it (with or without the header record)
\* under the generation of the file header, unless the checksum of the stream
\* refuses it.
Parsed(file) ==
    IF Whole(file) THEN {file[1]}
    ELSE IF ~TailRecovery \/ file = <<>> \/ file[1] = Hole THEN {}
    ELSE IF Len(file) < FileBlocks THEN {[generation |-> 0, incarnation |-> 1]}
    ELSE {[generation |-> file[1].generation, incarnation |-> n] : n \in {1, file[1].incarnation}}

\* Mutant: the generation does not advance.
LoadedAsSaved(v) ==
    [generation  |-> v.generation,
     incarnation |-> IF v.incarnation = IncarnationMax THEN 1 ELSE v.incarnation + 1]

\* Mutant: the registry incarnation does not wrap.
LoadedNoWrap(v) == [generation |-> v.generation + 1, incarnation |-> v.incarnation + 1]

\* load_snapshot: a new registry incarnation, one generation later.
Loaded(v) ==
    [generation  |-> v.generation + 1,
     incarnation |-> IF v.incarnation = IncarnationMax THEN 1 ELSE v.incarnation + 1]

\* The daemon starts: it loads the snapshot if the file exists, and exits when
\* that is refused.
Restart ==
    /\ ~up
    /\ \E v \in IF target = None THEN {[generation |-> 0, incarnation |-> 1]}
                ELSE {Loaded(p) : p \in Parsed(blocks[target])} :
          generation' = v.generation /\ incarnation' = v.incarnation
    /\ up' = TRUE
    /\ boot' = boot + 1
    /\ UNCHANGED <<threadVars, fileVars, decision, saved, settled, overlap, stdio>>

\* A caller evaluates compatibility, or reads the generation: it keeps the
\* generation to verify against later (verify_decision, verify_generation).
Decide ==
    /\ up
    /\ decision' = [generation |-> generation, boot |-> boot]
    /\ UNCHANGED <<processVars, threadVars, fileVars, boot, saved, settled, overlap, stdio>>

Next ==
    \/ \E t \in Threads :
          \/ Commit(t) \/ Save(t) \/ Copy(t)
          \/ Open(t) \/ Write(t) \/ Sync(t) \/ Close(t) \/ Rename(t) \/ Fail(t)
    \/ Kill \/ LosePower \/ Restart \/ Decide

Spec == Init /\ [][Next]_vars

-----------------------------------------------------------------------------
(* Properties.                                                             *)

\* Every variable has its type, and no file has more on stable storage than it
\* has.
TypeOK ==
    /\ up \in BOOLEAN /\ generation \in Nat /\ incarnation \in 1..IncarnationMax
    /\ pc \in [Threads -> {"idle", "copy", "open", "write", "fsync", "close", "rename"}]
    /\ copy \in [Threads -> Version \cup {None}]
    /\ fd \in [Threads -> Inodes \cup {None}]
    /\ offset \in [Threads -> 0..FileBlocks]
    /\ blocks \in [Inodes -> Seq(Version \cup {Hole})]
    /\ durable \in [Inodes -> 0..FileBlocks]
    /\ \A i \in Inodes : durable[i] <= Len(blocks[i])
    /\ {target, temporary} \subseteq Inodes \cup {None}
    /\ decision \in [generation : Nat, boot : Nat] \cup {None}
    /\ boot \in Nat /\ saved \in Nat /\ settled \in Nat
    /\ overlap \in BOOLEAN /\ stdio \in {"flushed", "held", "lost"}

\* The snapshot path always names a complete snapshot (write_file_atomically),
\* at every instant the process could be killed in and whatever fails, as long
\* as no two saves were in progress at once; and in which the power could fail,
\* as long as stdio kept back nothing that fsync should have reached.
SnapshotIntact ==
    ~overlap /\ stdio # "lost" /\ target # None => Whole(blocks[target])

\* A save that returned Ok is what a restart finds, or a later state
\* (save_snapshot_impl, write_file_atomically, load_snapshot): across crashes,
\* restarts and failing later saves, as long as no two saves overlapped and
\* fsync covered what was lost with the power.
SavedIsRecoverable ==
    ~overlap /\ stdio # "lost" /\ saved # 0 =>
        /\ target # None
        /\ \A p \in Parsed(blocks[target]) : p.generation >= saved
        /\ Parsed(blocks[target]) # {}

\* A decision an earlier process fenced with a generation it had saved is stale
\* in every later one (load_snapshot advances the generation), as long as no two
\* saves overlapped and fsync covered what was lost with the power.
SavedDecisionsFenced ==
    ~overlap /\ stdio # "lost" /\ up /\ decision # None =>
        (decision.boot # boot /\ decision.generation <= settled /\ settled # 0
            => decision.generation < generation)

\* As long as no two saves overlapped and fsync covered what was lost with the
\* power, the files, threads and crashes of this module are a store of one state
\* (DurableStore): it is what a restart would read, it moves only when a save
\* returns Ok and never to an older state, and a restart goes on right after it
\* (save_snapshot_impl, write_file_atomically, load_snapshot).
Store == INSTANCE DurableStore WITH
    live    <- IF up THEN {[generation |-> generation, incarnation |-> incarnation]} ELSE {},
    stored  <- IF target = None THEN {} ELSE Parsed(blocks[target]),
    covered <- ~overlap /\ stdio # "lost"

ImplementsStore == Store!DSpec

-----------------------------------------------------------------------------
(* What makes the invariants above inductive.                              *)

\* What a thread holds goes with where it is; a process that is down has none
\* at work.
ThreadsFit ==
    /\ \A t \in Threads :
          /\ fd[t] = None <=> pc[t] \notin {"write", "fsync", "close"}
          /\ Saving(t) => copy[t] \in Version
          /\ pc[t] = "write" => offset[t] = 0
    /\ ~up => \A t \in Threads : pc[t] = "idle"

\* No file is longer than a snapshot, and every label is of an incarnation a
\* registry can have.
LabelsFit ==
    /\ \A t \in Threads : Saving(t) => copy[t].incarnation \in 1..IncarnationMax
    /\ \A i \in Inodes :
          /\ Len(blocks[i]) <= FileBlocks
          /\ \A n \in 1..Len(blocks[i]) :
                blocks[i][n] # Hole => blocks[i][n].incarnation \in 1..IncarnationMax

\* One thread saves at a time.
OneSaver == \A t, u \in Threads : Saving(t) /\ Saving(u) => t = u

\* The temporary file is what the saving thread has written so far, on stable
\* storage as far as fsync reached.
WriterFits ==
    \A t \in Threads : pc[t] \in {"write", "fsync", "close", "rename"} =>
        /\ temporary # None
        /\ fd[t] \in {None, temporary}
        /\ Len(blocks[temporary]) = offset[t]
        /\ \A n \in 1..offset[t] : blocks[temporary][n] = copy[t]
        /\ pc[t] = "rename" => offset[t] = FileBlocks
        /\ stdio = "flushed" /\ pc[t] \in {"fsync", "close"} => offset[t] = FileBlocks
        /\ stdio = "flushed" /\ Fsync /\ pc[t] \in {"close", "rename"} =>
              durable[temporary] = FileBlocks

\* The file under the snapshot path is complete, on stable storage, and the
\* newest whose save returned Ok.
TargetFits ==
    /\ target # None =>
          /\ target # temporary
          /\ Whole(blocks[target])
          /\ blocks[target][1].generation = saved
          /\ stdio = "flushed" /\ Fsync => durable[target] = FileBlocks
    /\ saved # 0 => target # None

\* What is being saved is not older than that, and of this process.
CopiesFit ==
    \A t \in Threads : Saving(t) =>
        copy[t].generation \in saved..generation /\ copy[t].incarnation = incarnation

\* A process has a generation no lower than any that was saved, and one above
\* what its predecessors had saved.
GenerationsAhead ==
    /\ up => generation >= saved /\ (settled # 0 => generation > settled)
    /\ ~up => settled = saved

Basic == TypeOK /\ ThreadsFit /\ LabelsFit

Steady == OneSaver /\ WriterFits /\ TargetFits /\ CopiesFit /\ GenerationsAhead

\* As long as no two saves have overlapped, and fsync covered what was lost with
\* the power.
Inv == Basic /\ (~overlap /\ stdio # "lost" => Steady)
=============================================================================
