-------------------------- MODULE PersistenceProofs --------------------------
(***************************************************************************)
(* Proofs about Persistence, for any number of threads, any files and any  *)
(* behaviour of stdio, and about SnapshotLoad, for any registry, damage    *)
(* and limit on the records.                                               *)
(*                                                                         *)
(* Of Persistence, Basic is inductive whatever the saves do to one         *)
(* another.  The rest of Inv speaks of the behaviours in which no two      *)
(* saves have overlapped; it needs fsync, or a machine whose power does    *)
(* not fail.  Of SnapshotLoad, LInv is inductive: what was parsed is a     *)
(* prefix of what was encoded.                                             *)
(***************************************************************************)
EXTENDS Persistence, SnapshotLoad, SequenceTheorems, FiniteSetTheorems, TLAPS

-----------------------------------------------------------------------------
(* Files.                                                                  *)

Blocks == Version \cup {Hole}

\* A file after a write: never shorter, the blocks in question are the new
\* ones, the others what they were, or a hole.
LEMMA WrittenFacts ==
  ASSUME NEW old \in Seq(Blocks), NEW from \in 0..FileBlocks, NEW to \in 0..FileBlocks,
         NEW v \in Version
  PROVE  LET w == Written(old, from, to, v)
         IN  /\ w \in Seq(Blocks)
             /\ Len(w) = IF Len(old) < to THEN to ELSE Len(old)
             /\ \A n \in 1..Len(w) :
                   \/ n \in from + 1..to /\ w[n] = v
                   \/ n \notin from + 1..to /\ n \in 1..Len(old) /\ w[n] = old[n]
                   \/ n \notin from + 1..to /\ n \notin 1..Len(old) /\ w[n] = Hole
<1> DEFINE l == IF Len(old) < to THEN to ELSE Len(old)
           w == Written(old, from, to, v)
<1>1. l \in Nat /\ Len(old) \in Nat  BY DEF FileBlocks
<1>2. w = [n \in 1..l |-> IF n \in from + 1..to THEN v
                          ELSE IF n <= Len(old) THEN old[n] ELSE Hole]
  BY DEF Written
<1> HIDE DEF w, l
<1>3. \A n \in 1..l : n <= Len(old) => old[n] \in Blocks
  BY <1>1, ElementOfSeq
<1>4. w \in [1..l -> Blocks]
  BY <1>2, <1>3 DEF Blocks
<1>5. w \in Seq(Blocks) /\ Len(w) = l
  BY <1>1, <1>4, SeqDef, LenProperties
<1> QED  BY <1>1, <1>2, <1>5 DEF w, l

\* Flushing a thread's file touches no other file, and keeps files and labels
\* in order.
LEMMA FlushFacts ==
  ASSUME Basic, NEW t \in Threads, pc[t] \in {"write", "close"}, NEW upTo \in 0..FileBlocks,
         Flush(t, upTo)
  PROVE  /\ fd[t] \in Inodes /\ copy[t] \in Version /\ offset[t] \in 0..FileBlocks
         /\ blocks' \in [Inodes -> Seq(Blocks)]
         /\ durable' \in [Inodes -> 0..FileBlocks]
         /\ offset' = [offset EXCEPT ![t] = upTo] /\ offset' \in [Threads -> 0..FileBlocks]
         /\ \A i \in Inodes : i # fd[t] => blocks'[i] = blocks[i] /\ durable'[i] = durable[i]
         /\ \A i \in Inodes : durable'[i] <= Len(blocks'[i])
         /\ \A i \in Inodes :
               /\ Len(blocks'[i]) <= FileBlocks
               /\ \A n \in 1..Len(blocks'[i]) :
                     blocks'[i][n] # Hole => blocks'[i][n].incarnation \in 1..IncarnationMax
         /\ durable'[fd[t]] = IF offset[t] < durable[fd[t]] THEN offset[t] ELSE durable[fd[t]]
         /\ offset[t] <= upTo /\ Len(blocks[fd[t]]) = offset[t]
               /\ (\A n \in 1..offset[t] : blocks[fd[t]][n] = copy[t])
               => /\ Len(blocks'[fd[t]]) = upTo
                  /\ \A n \in 1..upTo : blocks'[fd[t]][n] = copy[t]
<1> USE HoleAssumption
<1>1. fd[t] \in Inodes /\ copy[t] \in Version /\ offset[t] \in 0..FileBlocks
  BY DEF Basic, TypeOK, ThreadsFit, Saving
<1> DEFINE f == fd[t]
           w == Written(blocks[f], offset[t], upTo, copy[t])
<1>2. /\ blocks \in [Inodes -> Seq(Blocks)] /\ durable \in [Inodes -> 0..FileBlocks]
      /\ offset \in [Threads -> 0..FileBlocks]
      /\ \A i \in Inodes : durable[i] <= Len(blocks[i]) /\ Len(blocks[i]) \in Nat
  BY DEF Basic, TypeOK, Blocks
<1>3. /\ blocks' = IF offset[t] < upTo THEN [blocks EXCEPT ![f] = w] ELSE blocks
      /\ durable' = [durable EXCEPT ![f] = IF offset[t] < durable[f] THEN offset[t]
                                           ELSE durable[f]]
      /\ offset' = [offset EXCEPT ![t] = upTo]
  BY <1>1, <1>2 DEF Flush
<1>4. /\ w \in Seq(Blocks)
      /\ Len(w) = IF Len(blocks[f]) < upTo THEN upTo ELSE Len(blocks[f])
      /\ \A n \in 1..Len(w) :
            \/ n \in offset[t] + 1..upTo /\ w[n] = copy[t]
            \/ n \notin offset[t] + 1..upTo /\ n \in 1..Len(blocks[f]) /\ w[n] = blocks[f][n]
            \/ n \notin offset[t] + 1..upTo /\ n \notin 1..Len(blocks[f]) /\ w[n] = Hole
  BY <1>1, <1>2, WrittenFacts
<1> HIDE DEF w
<1>5. /\ f \in Inodes
      /\ blocks'[f] = (IF offset[t] < upTo THEN w ELSE blocks[f])
      /\ durable'[f] = (IF offset[t] < durable[f] THEN offset[t] ELSE durable[f])
      /\ \A i \in Inodes : i # f => blocks'[i] = blocks[i] /\ durable'[i] = durable[i]
  BY <1>1, <1>2, <1>3
<1>6. blocks' \in [Inodes -> Seq(Blocks)]  BY <1>2, <1>3, <1>4
<1>7. durable' \in [Inodes -> 0..FileBlocks]  BY <1>1, <1>2, <1>3
<1>8. offset' \in [Threads -> 0..FileBlocks]  BY <1>2, <1>3
<1>9. \A i \in Inodes : durable'[i] <= Len(blocks'[i])
  BY <1>1, <1>2, <1>4, <1>5 DEF FileBlocks
<1>10. \A i \in Inodes :
          /\ Len(blocks'[i]) <= FileBlocks
          /\ \A n \in 1..Len(blocks'[i]) :
                blocks'[i][n] # Hole => blocks'[i][n].incarnation \in 1..IncarnationMax
  <2>1. copy[t].incarnation \in 1..IncarnationMax
    BY DEF Basic, LabelsFit, Saving
  <2>2. \A i \in Inodes :
          /\ Len(blocks[i]) <= FileBlocks
          /\ \A n \in 1..Len(blocks[i]) :
                blocks[i][n] # Hole => blocks[i][n].incarnation \in 1..IncarnationMax
    BY DEF Basic, LabelsFit
  <2> QED  BY <1>2, <1>4, <1>5, <2>1, <2>2 DEF FileBlocks
<1>11. ASSUME offset[t] <= upTo, Len(blocks[f]) = offset[t],
              \A n \in 1..offset[t] : blocks[f][n] = copy[t]
       PROVE  /\ Len(blocks'[f]) = upTo
              /\ \A n \in 1..upTo : blocks'[f][n] = copy[t]
  BY <1>1, <1>4, <1>5, <1>11 DEF FileBlocks
<1> QED
  BY <1>1, <1>3, <1>5, <1>6, <1>7, <1>8, <1>9, <1>10, <1>11

\* The files that are reclaimed are empty, the others as they were.
LEMMA ReclaimFacts ==
  ASSUME Basic, NEW used, Reclaim(used)
  PROVE  /\ blocks' \in [Inodes -> Seq(Blocks)]
         /\ durable' \in [Inodes -> 0..FileBlocks]
         /\ \A i \in Inodes : durable'[i] <= Len(blocks'[i])
         /\ \A i \in Inodes :
               /\ Len(blocks'[i]) <= FileBlocks
               /\ \A n \in 1..Len(blocks'[i]) :
                     blocks'[i][n] # Hole => blocks'[i][n].incarnation \in 1..IncarnationMax
         /\ \A i \in Inodes : i \in used => blocks'[i] = blocks[i] /\ durable'[i] = durable[i]
<1>1. /\ blocks \in [Inodes -> Seq(Blocks)] /\ durable \in [Inodes -> 0..FileBlocks]
      /\ \A i \in Inodes : durable[i] <= Len(blocks[i])
  BY DEF Basic, TypeOK, Blocks
<1>2. /\ blocks' = [i \in Inodes |-> IF i \in used THEN blocks[i] ELSE <<>>]
      /\ durable' = [i \in Inodes |-> IF i \in used THEN durable[i] ELSE 0]
  BY DEF Reclaim
<1>3. <<>> \in Seq(Blocks) /\ Len(<<>>) = 0  BY EmptySeq
<1>4. \A i \in Inodes :
          /\ Len(blocks[i]) <= FileBlocks
          /\ \A n \in 1..Len(blocks[i]) :
                blocks[i][n] # Hole => blocks[i][n].incarnation \in 1..IncarnationMax
    BY DEF Basic, LabelsFit
<1> QED  BY <1>1, <1>2, <1>3, <1>4 DEF FileBlocks

\* What a restart may read: a state of an incarnation a registry can have.
LEMMA ParsedFacts ==
  ASSUME Basic, NEW i \in Inodes, NEW p \in Parsed(blocks[i])
  PROVE  p.generation \in Nat /\ p.incarnation \in 1..IncarnationMax
<1>1. blocks[i] \in Seq(Blocks) /\ Len(blocks[i]) \in Nat /\ IncarnationMax \in Nat \ {0}
  BY PersistenceAssumption DEF Basic, TypeOK, Blocks
<1>2. blocks[i] # <<>> => 1 \in 1..Len(blocks[i])
  BY <1>1, EmptySeq
<1>3. blocks[i] # <<>> /\ blocks[i][1] # Hole =>
         blocks[i][1] \in Version /\ blocks[i][1].incarnation \in 1..IncarnationMax
  BY <1>1, <1>2, ElementOfSeq DEF Basic, LabelsFit, Blocks
<1>4. Whole(blocks[i]) => blocks[i] # <<>> /\ blocks[i][1] # Hole
  BY EmptySeq DEF Whole, FileBlocks
<1>5. CASE Whole(blocks[i])
  BY <1>3, <1>4, <1>5 DEF Parsed, Version
<1>6. CASE ~Whole(blocks[i])
  BY <1>1, <1>3, <1>6 DEF Parsed, Version
<1> QED  BY <1>5, <1>6

-----------------------------------------------------------------------------
(* Types, whatever the saves do to one another.                            *)

\* Nothing is held and no file exists.
LEMMA InitBasic == Init => Basic
<1> SUFFICES ASSUME Init PROVE Basic
  OBVIOUS
<1>1. <<>> \in Seq(Version \cup {Hole}) /\ Len(<<>>) = 0  BY EmptySeq
<1>2. TypeOK
  <2>1. incarnation \in 1..IncarnationMax  BY PersistenceAssumption DEF Init
  <2>2. /\ blocks \in [Inodes -> Seq(Version \cup {Hole})]
        /\ durable \in [Inodes -> 0..FileBlocks] /\ offset \in [Threads -> 0..FileBlocks]
        /\ \A i \in Inodes : durable[i] <= Len(blocks[i])
    BY <1>1 DEF Init, FileBlocks
  <2>3. /\ pc \in [Threads -> {"idle", "copy", "open", "write", "fsync", "close", "rename"}]
        /\ copy \in [Threads -> Version \cup {None}]
        /\ fd \in [Threads -> Inodes \cup {None}]
    BY DEF Init
  <2> QED  BY <2>1, <2>2, <2>3 DEF Init, TypeOK
<1>3. ThreadsFit /\ LabelsFit
  BY <1>1 DEF Init, ThreadsFit, LabelsFit, Saving, FileBlocks
<1> QED  BY <1>2, <1>3 DEF Basic

\* A thread goes on without a file changing.
LEMMA StayBasic ==
  ASSUME Basic, NEW t \in Threads,
         Commit(t) \/ Save(t) \/ Copy(t)
  PROVE  Basic'
<1> USE DEF Commit, Save, Copy, Goto, fileVars, processVars, ghostVars
<1>1. [generation |-> generation, incarnation |-> incarnation] \in Version
  BY PersistenceAssumption DEF Basic, TypeOK, Version
<1>2. TypeOK'
  <2>1. generation' \in Nat  BY DEF Basic, TypeOK
  <2>2. /\ pc' \in [Threads -> {"idle", "copy", "open", "write", "fsync", "close", "rename"}]
        /\ copy' \in [Threads -> Version \cup {None}]
    BY <1>1 DEF Basic, TypeOK
  <2>3. overlap' \in BOOLEAN  BY DEF Basic, TypeOK
  <2>4. UNCHANGED <<up, incarnation, fd, offset, blocks, durable, target, temporary, decision,
                    boot, saved, settled, stdio>>
    OBVIOUS
  <2> QED  BY <2>1, <2>2, <2>3, <2>4 DEF Basic, TypeOK
<1>3. ThreadsFit'
  BY <1>1 DEF Basic, TypeOK, ThreadsFit, Saving
<1>4. LabelsFit'
  BY DEF Basic, TypeOK, LabelsFit, Saving
<1> QED  BY <1>2, <1>3, <1>4 DEF Basic

\* fopen gives a thread an empty file.
LEMMA OpenBasic ==
  ASSUME Basic, NEW t \in Threads, Open(t)
  PROVE  Basic'
<1> USE PersistenceAssumption
<1>1. PICK i \in Inodes :
         /\ i = temporary \/ (temporary = None /\ i \in Free)
         /\ temporary' = i /\ fd' = [fd EXCEPT ![t] = i]
         /\ blocks' = [blocks EXCEPT ![i] = <<>>]
         /\ durable' = [durable EXCEPT ![i] = 0]
  BY DEF Open, Free, Basic, TypeOK
<1>2. /\ pc[t] = "open" /\ pc' = [pc EXCEPT ![t] = "write"]
      /\ offset' = [offset EXCEPT ![t] = 0]
      /\ UNCHANGED <<up, generation, incarnation, copy, target, ghostVars>>
  BY DEF Open, Goto, processVars
<1>3. <<>> \in Seq(Version \cup {Hole}) /\ Len(<<>>) = 0  BY EmptySeq
<1>4. /\ blocks' \in [Inodes -> Seq(Version \cup {Hole})]
      /\ durable' \in [Inodes -> 0..FileBlocks]
      /\ \A x \in Inodes : durable'[x] <= Len(blocks'[x])
  BY <1>1, <1>3 DEF Basic, TypeOK, FileBlocks
<1>5. TypeOK'
  BY <1>1, <1>2, <1>4 DEF Basic, TypeOK, FileBlocks, ghostVars
<1>6. ThreadsFit'
  BY <1>1, <1>2 DEF Basic, TypeOK, ThreadsFit, Saving
<1>7. LabelsFit'
  BY <1>1, <1>2, <1>3 DEF Basic, TypeOK, LabelsFit, Saving, FileBlocks
<1> QED  BY <1>5, <1>6, <1>7 DEF Basic

\* Blocks reach the kernel, or stable storage.
LEMMA WriteBasic ==
  ASSUME Basic, NEW t \in Threads, Write(t) \/ Sync(t) \/ Close(t)
  PROVE  Basic'
<1> USE PersistenceAssumption
<1>1. CASE Write(t)
  <2>1. PICK left \in Unflushed :
           /\ Flush(t, FileBlocks - left)
           /\ stdio' = IF left # 0 /\ stdio = "flushed" THEN "held" ELSE stdio
    BY <1>1 DEF Write
  <2>2. FileBlocks - left \in 0..FileBlocks  BY DEF FileBlocks
  <2>3. /\ pc[t] = "write" /\ pc' = [pc EXCEPT ![t] = IF Fsync THEN "fsync" ELSE "close"]
        /\ UNCHANGED <<processVars, copy, fd, target, temporary, decision, boot, saved, settled,
                       overlap>>
    BY <1>1 DEF Write, Goto
  <2>4. TypeOK'
    BY <2>1, <2>2, <2>3, FlushFacts DEF Basic, TypeOK, processVars, Blocks
  <2>5. ThreadsFit'
    BY <2>1, <2>2, <2>3, FlushFacts DEF Basic, TypeOK, ThreadsFit, Saving, processVars
  <2>6. LabelsFit'
    BY <2>1, <2>2, <2>3, FlushFacts DEF Basic, TypeOK, LabelsFit, Saving
  <2> QED  BY <2>4, <2>5, <2>6 DEF Basic
<1>2. CASE Sync(t)
  <2>1. fd[t] \in Inodes /\ Len(blocks[fd[t]]) \in 0..FileBlocks
    <3>1. fd[t] \in Inodes  BY <1>2 DEF Sync, Basic, TypeOK, ThreadsFit
    <3>2. blocks[fd[t]] \in Seq(Blocks) /\ Len(blocks[fd[t]]) <= FileBlocks
      BY <3>1 DEF Basic, TypeOK, LabelsFit, Blocks
    <3>3. Len(blocks[fd[t]]) \in Nat  BY <3>2, LenProperties
    <3>4. \A n \in Nat : n <= FileBlocks => n \in 0..FileBlocks  BY DEF FileBlocks
    <3> QED  BY <3>1, <3>2, <3>3, <3>4
  <2>2. TypeOK'
    BY <1>2, <2>1 DEF Sync, Goto, Basic, TypeOK, processVars, ghostVars
  <2>3. ThreadsFit' /\ LabelsFit'
    BY <1>2 DEF Sync, Goto, Basic, TypeOK, ThreadsFit, LabelsFit, Saving, processVars
  <2> QED  BY <2>2, <2>3 DEF Basic
<1>3. CASE Close(t)
  <2>1. /\ pc[t] = "close" /\ Flush(t, FileBlocks) /\ pc' = [pc EXCEPT ![t] = "rename"]
        /\ fd' = [fd EXCEPT ![t] = None]
        /\ UNCHANGED <<processVars, copy, target, temporary, ghostVars>>
    BY <1>3 DEF Close, Goto
  <2>2. FileBlocks \in 0..FileBlocks  BY DEF FileBlocks
  <2>3. TypeOK'
    BY <2>1, <2>2, FlushFacts DEF Basic, TypeOK, processVars, ghostVars, Blocks
  <2>4. ThreadsFit'
    BY <2>1, <2>2, FlushFacts DEF Basic, TypeOK, ThreadsFit, Saving, processVars
  <2>5. LabelsFit'
    BY <2>1, <2>2, FlushFacts DEF Basic, TypeOK, LabelsFit, Saving
  <2> QED  BY <2>3, <2>4, <2>5 DEF Basic
<1> QED  BY <1>1, <1>2, <1>3

\* A save ends, well or not.
LEMMA EndBasic ==
  ASSUME Basic, NEW t \in Threads, Rename(t) \/ Fail(t)
  PROVE  Basic'
<1> USE PersistenceAssumption
<1>1. PICK named :
         /\ pc' = [pc EXCEPT ![t] = "idle"] /\ copy' = [copy EXCEPT ![t] = None]
         /\ fd' = [fd EXCEPT ![t] = None] /\ offset' = [offset EXCEPT ![t] = 0]
         /\ Reclaim(named \cup {fd[u] : u \in Threads \ {t}})
  BY DEF Rename, Fail, Finished, Goto
<1>2. /\ {target', temporary'} \subseteq {target, temporary, None}
      /\ saved' \in Nat
      /\ UNCHANGED <<processVars, decision, boot, settled, overlap, stdio>>
  BY DEF Rename, Fail, Basic, TypeOK, ThreadsFit, Saving, Version, ghostVars
<1>3. TypeOK'
  <2>1. /\ pc' \in [Threads -> {"idle", "copy", "open", "write", "fsync", "close", "rename"}]
        /\ copy' \in [Threads -> Version \cup {None}]
        /\ fd' \in [Threads -> Inodes \cup {None}]
        /\ offset' \in [Threads -> 0..FileBlocks]
    BY <1>1 DEF Basic, TypeOK, FileBlocks
  <2>2. /\ blocks' \in [Inodes -> Seq(Version \cup {Hole})]
        /\ durable' \in [Inodes -> 0..FileBlocks]
        /\ \A i \in Inodes : durable'[i] <= Len(blocks'[i])
    BY <1>1, ReclaimFacts DEF Blocks
  <2>3. {target', temporary'} \subseteq Inodes \cup {None}
    BY <1>2 DEF Basic, TypeOK
  <2> QED  BY <1>2, <2>1, <2>2, <2>3 DEF Basic, TypeOK, processVars
<1>4. ThreadsFit'
  BY <1>1, <1>2 DEF Basic, TypeOK, ThreadsFit, Saving, processVars
<1>5. LabelsFit'
  BY <1>1, <1>2, ReclaimFacts DEF Basic, TypeOK, LabelsFit, Saving
<1> QED  BY <1>3, <1>4, <1>5 DEF Basic

\* What a stop leaves of the threads.
LEMMA StoppedBasic ==
  ASSUME Basic, Stopped, stdio' \in {stdio, "lost"},
         blocks' \in [Inodes -> Seq(Blocks)], durable' \in [Inodes -> 0..FileBlocks],
         \A i \in Inodes : durable'[i] <= Len(blocks'[i]),
         \A i \in Inodes :
            /\ Len(blocks'[i]) <= FileBlocks
            /\ \A n \in 1..Len(blocks'[i]) :
                  blocks'[i][n] # Hole => blocks'[i][n].incarnation \in 1..IncarnationMax
  PROVE  Basic'
<1> USE PersistenceAssumption DEF Stopped
<1>1. TypeOK'
  <2>1. generation' \in Nat /\ incarnation' \in 1..IncarnationMax  OBVIOUS
  <2>2. /\ pc' \in [Threads -> {"idle", "copy", "open", "write", "fsync", "close", "rename"}]
        /\ copy' \in [Threads -> Version \cup {None}]
        /\ fd' \in [Threads -> Inodes \cup {None}]
        /\ offset' \in [Threads -> 0..FileBlocks]
    BY DEF FileBlocks
  <2>3. blocks' \in [Inodes -> Seq(Version \cup {Hole})]  BY DEF Blocks
  <2>4. /\ UNCHANGED <<target, temporary, decision, boot, saved, overlap>>
        /\ settled' = saved /\ up' \in BOOLEAN
    OBVIOUS
  <2> QED  BY <2>1, <2>2, <2>3, <2>4 DEF Basic, TypeOK
<1>2. ThreadsFit' /\ LabelsFit'
  BY DEF ThreadsFit, LabelsFit, Saving
<1> QED  BY <1>1, <1>2 DEF Basic

\* A crash empties the stdio buffers, and with the power what was not flushed.
LEMMA CrashBasic ==
  ASSUME Basic, Kill \/ LosePower
  PROVE  Basic'
<1>1. CASE Kill
  BY <1>1, ReclaimFacts, StoppedBasic DEF Kill
<1>2. CASE LosePower
  <2>1. PICK kept \in [Inodes -> 0..FileBlocks] :
           /\ \A i \in Inodes : kept[i] \in IF i \in {target, temporary}
                                            THEN durable[i]..Len(blocks[i]) ELSE {0}
           /\ blocks' = [i \in Inodes |-> SubSeq(blocks[i], 1, kept[i])]
           /\ durable' = kept
    BY <1>2 DEF LosePower
  <2>2. ASSUME NEW i \in Inodes
        PROVE  /\ blocks'[i] \in Seq(Blocks) /\ Len(blocks'[i]) = kept[i]
               /\ kept[i] <= FileBlocks
               /\ \A n \in 1..kept[i] : n \in 1..Len(blocks[i]) /\ blocks'[i][n] = blocks[i][n]
    <3>1. blocks[i] \in Seq(Blocks) /\ Len(blocks[i]) \in Nat /\ kept[i] \in 0..Len(blocks[i])
      BY <2>1 DEF Basic, TypeOK, Blocks
    <3>2. blocks'[i] = SubSeq(blocks[i], 1, kept[i])  BY <2>1
    <3>3. \A n \in 1..kept[i] : n \in 1..Len(blocks[i]) /\ blocks[i][n] \in Blocks
      BY <3>1, ElementOfSeq
    <3>4. /\ SubSeq(blocks[i], 1, kept[i]) \in Seq(Blocks)
          /\ Len(SubSeq(blocks[i], 1, kept[i])) = kept[i]
          /\ \A n \in 1..kept[i] : SubSeq(blocks[i], 1, kept[i])[n] = blocks[i][n]
      BY <3>1, <3>3, SubSeqProperties
    <3> QED  BY <2>1, <3>2, <3>3, <3>4
  <2>3. blocks' \in [Inodes -> Seq(Blocks)] /\ durable' \in [Inodes -> 0..FileBlocks]
    BY <2>1, <2>2
  <2>4. \A i \in Inodes :
           /\ durable'[i] <= Len(blocks'[i]) /\ Len(blocks'[i]) <= FileBlocks
           /\ \A n \in 1..Len(blocks'[i]) :
                 blocks'[i][n] # Hole => blocks'[i][n].incarnation \in 1..IncarnationMax
    BY <2>1, <2>2 DEF Basic, LabelsFit, FileBlocks
  <2>5. Stopped /\ stdio' \in {stdio, "lost"}  BY <1>2 DEF LosePower
  <2> QED  BY <2>3, <2>4, <2>5, StoppedBasic
<1> QED  BY <1>1, <1>2

\* A process starts from nothing or from a state that was saved.
LEMMA RestartBasic ==
  ASSUME Basic, Restart \/ Decide
  PROVE  Basic'
<1>1. CASE Restart
  <2>1. generation' \in Nat /\ incarnation' \in 1..IncarnationMax
    <3>1. CASE target = None
      BY <1>1, <3>1, PersistenceAssumption DEF Restart
    <3>2. CASE target # None
      <4>1. target \in Inodes  BY <3>2 DEF Basic, TypeOK
      <4>2. PICK p \in Parsed(blocks[target]) :
               generation' = Loaded(p).generation /\ incarnation' = Loaded(p).incarnation
        BY <1>1, <3>2 DEF Restart
      <4>3. p.generation \in Nat /\ p.incarnation \in 1..IncarnationMax
        BY <4>1, ParsedFacts
      <4> QED  BY <4>2, <4>3, PersistenceAssumption DEF Loaded
    <3> QED  BY <3>1, <3>2
  <2>2. TypeOK'
    BY <1>1, <2>1 DEF Restart, Basic, TypeOK, threadVars, fileVars
  <2>3. ThreadsFit' /\ LabelsFit'
    BY <1>1 DEF Restart, Basic, ThreadsFit, LabelsFit, Saving, threadVars, fileVars
  <2> QED  BY <2>2, <2>3 DEF Basic
<1>2. CASE Decide
  <2>1. TypeOK'
    BY <1>2 DEF Decide, Basic, TypeOK, threadVars, fileVars, processVars
  <2>2. ThreadsFit' /\ LabelsFit'
    BY <1>2 DEF Decide, Basic, ThreadsFit, LabelsFit, Saving, threadVars, fileVars, processVars
  <2> QED  BY <2>1, <2>2 DEF Basic
<1> QED  BY <1>1, <1>2

\* Every step keeps the types and what a thread holds.
LEMMA BasicStep == Basic /\ [Next]_vars => Basic'
<1> SUFFICES ASSUME Basic, [Next]_vars PROVE Basic'
  OBVIOUS
<1>1. CASE UNCHANGED vars
  BY <1>1 DEF vars, processVars, threadVars, fileVars, ghostVars, Basic, TypeOK, ThreadsFit,
              LabelsFit, Saving
<1> QED
  BY <1>1, StayBasic, OpenBasic, WriteBasic, EndBasic, CrashBasic, RestartBasic DEF Next

\* Every variable has its type in every reachable state, and no file has more on
\* stable storage than it has, also when saves overlap.
THEOREM TypeCorrect == Spec => []TypeOK
<1>1. Basic => TypeOK  BY DEF Basic
<1> QED  BY <1>1, InitBasic, BasicStep, PTL DEF Spec

-----------------------------------------------------------------------------
(* Saves that do not overlap.                                              *)

\* fsync is asked for, or never needed.
Flushing == Fsync \/ ~PowerLoss

\* Nobody but the saving thread is past the copy.
LEMMA Alone ==
  ASSUME Basic, OneSaver, NEW t \in Threads, Saving(t)
  PROVE  /\ up
         /\ \A u \in Threads : u # t => ~Saving(u)
  BY DEF Basic, OneSaver, ThreadsFit, Saving

\* The files a name or a thread still needs are not what a save writes to.
LEMMA TargetKept ==
  ASSUME Basic, TargetFits,
         target # None => blocks'[target] = blocks[target]
                          /\ durable'[target] = durable[target],
         UNCHANGED <<target, saved>>, temporary' \in {temporary, None} \/ temporary' # target,
         stdio' = "flushed" => stdio = "flushed"
  PROVE  TargetFits'
  BY PersistenceAssumption DEF TargetFits, Basic, TypeOK, Whole

\* A thread begins a save.
LEMMA StaySteady ==
  ASSUME Basic, Steady, NEW t \in Threads, Commit(t) \/ Save(t) \/ Copy(t), ~overlap'
  PROVE  Steady'
<1> USE DEF Commit, Save, Copy, Goto, fileVars, processVars, ghostVars
<1>0. generation \in Nat /\ saved \in Nat /\ pc \in [Threads -> {"idle", "copy", "open", "write",
                                                     "fsync", "close", "rename"}]
      /\ copy \in [Threads -> Version \cup {None}]
  BY DEF Basic, TypeOK
<1>1. /\ up
      /\ UNCHANGED <<up, incarnation, blocks, durable, target, temporary, fd, offset, saved, settled,
                     stdio>>
  BY DEF Basic, ThreadsFit
<1>2. \A u \in Threads : u # t => (Saving(u)' <=> Saving(u)) /\ copy'[u] = copy[u] /\ pc'[u] = pc[u]
  BY <1>0 DEF Saving
<1>3. \/ ~Saving(t)'
      \/ /\ pc'[t] = "open" /\ \A u \in Threads : ~Saving(u)
         /\ generation' = generation /\ copy'[t].generation = generation
         /\ copy'[t].incarnation = incarnation
  <2>1. CASE Commit(t) \/ Save(t)
    <3>1. pc'[t] = "copy"  BY <1>0, <2>1
    <3> QED  BY <3>1 DEF Saving
  <2>2. CASE Copy(t)
    <3>1. /\ pc'[t] = "open" /\ generation' = generation /\ copy'[t].generation = generation
          /\ copy'[t].incarnation = incarnation
      BY <1>0, <2>2
    <3>2. \A u \in Threads : ~Saving(u)  BY <2>2
    <3> QED  BY <3>1, <3>2
  <2> QED  BY <2>1, <2>2
<1>4. OneSaver'
  BY <1>2, <1>3 DEF Steady, OneSaver
<1>5. WriterFits'
  BY <1>1, <1>2, <1>3 DEF Steady, WriterFits, Saving
<1>6. TargetFits'
  BY <1>1 DEF Steady, TargetFits
<1>7. CopiesFit'
  BY <1>0, <1>1, <1>2, <1>3 DEF Steady, CopiesFit, GenerationsAhead
<1>8. GenerationsAhead'
  BY <1>0, <1>1 DEF Steady, GenerationsAhead, Basic, TypeOK
<1> QED  BY <1>4, <1>5, <1>6, <1>7, <1>8 DEF Steady

\* The steps of the thread that saves, up to the rename: the file under the
\* snapshot path is left alone.
LEMMA SaverSteady ==
  ASSUME Basic, Basic', Steady, NEW t \in Threads, Saving(t),
         pc' = [pc EXCEPT ![t] = pc'[t]], pc'[t] \in {"write", "fsync", "close", "rename"},
         UNCHANGED <<processVars, copy, target, decision, boot, saved, settled, overlap>>,
         target # None => /\ blocks'[target] = blocks[target]
                          /\ durable'[target] = durable[target],
         temporary' # None, temporary' # target, fd'[t] \in {None, temporary'},
         stdio' = "flushed" => stdio = "flushed",
         Len(blocks'[temporary']) = offset'[t],
         \A n \in 1..offset'[t] : blocks'[temporary'][n] = copy[t],
         pc'[t] = "rename" => offset'[t] = FileBlocks,
         stdio' = "flushed" /\ pc'[t] \in {"fsync", "close"} => offset'[t] = FileBlocks,
         stdio' = "flushed" /\ Fsync /\ pc'[t] \in {"close", "rename"} =>
            durable'[temporary'] = FileBlocks
  PROVE  Steady'
<1> USE DEF processVars
<1>1. up /\ \A u \in Threads : u # t => ~Saving(u)
  BY Alone DEF Steady
<1>2. \A u \in Threads : u # t => ~Saving(u)'
  BY <1>1 DEF Saving, Basic, TypeOK
<1>3. OneSaver'  BY <1>2 DEF OneSaver
<1>4. WriterFits'
  BY <1>2 DEF WriterFits, Saving
<1>5. TargetFits'
  BY TargetKept DEF Steady
<1>6. CopiesFit'
  BY <1>2 DEF Steady, CopiesFit
<1>7. GenerationsAhead'
  BY DEF Steady, GenerationsAhead
<1> QED  BY <1>3, <1>4, <1>5, <1>6, <1>7 DEF Steady

\* Opening, writing, flushing and closing the temporary file.
LEMMA WriteSteady ==
  ASSUME Basic, Basic', Steady, NEW t \in Threads, Open(t) \/ Write(t) \/ Sync(t) \/ Close(t),
         stdio # "lost"
  PROVE  Steady'
<1> USE PersistenceAssumption
<1>0. /\ pc \in [Threads -> {"idle", "copy", "open", "write", "fsync", "close", "rename"}]
      /\ fd \in [Threads -> Inodes \cup {None}] /\ offset \in [Threads -> 0..FileBlocks]
      /\ blocks \in [Inodes -> Seq(Blocks)] /\ durable \in [Inodes -> 0..FileBlocks]
      /\ target \in Inodes \cup {None} /\ temporary \in Inodes \cup {None}
      /\ stdio \in {"flushed", "held"}
  BY DEF Basic, TypeOK, Blocks
<1>1. CASE Open(t)
  <2>1. PICK i \in Inodes :
           /\ i = temporary \/ (temporary = None /\ i \in Free)
           /\ temporary' = i /\ fd' = [fd EXCEPT ![t] = i]
           /\ blocks' = [blocks EXCEPT ![i] = <<>>]
           /\ durable' = [durable EXCEPT ![i] = 0]
    BY <1>0, <1>1 DEF Open, Free
  <2>2. /\ pc[t] = "open" /\ pc' = [pc EXCEPT ![t] = "write"]
        /\ offset' = [offset EXCEPT ![t] = 0]
        /\ UNCHANGED <<processVars, copy, target, ghostVars>>
    BY <1>1 DEF Open, Goto
  <2>3. i # target  BY <2>1 DEF Steady, TargetFits, Free
  <2>4. blocks'[i] = <<>> /\ Len(<<>>) = 0 /\ offset'[t] = 0 /\ fd'[t] = i /\ pc'[t] = "write"
    BY <1>0, <2>1, <2>2, EmptySeq
  <2>5. target # None => blocks'[target] = blocks[target] /\ durable'[target] = durable[target]
    BY <1>0, <2>1, <2>3
  <2>6. Saving(t)  BY <2>2 DEF Saving
  <2>7. /\ Len(blocks'[temporary']) = offset'[t] /\ \A n \in 1..offset'[t] : FALSE
        /\ temporary' # None /\ temporary' # target
    BY <2>1, <2>3, <2>4
  <2>8. pc' = [pc EXCEPT ![t] = pc'[t]]  BY <2>2, <2>4
  <2> QED  BY <2>1, <2>2, <2>4, <2>5, <2>6, <2>7, <2>8, SaverSteady DEF ghostVars
<1>2. ASSUME pc[t] \in {"write", "fsync", "close"}
      PROVE  /\ Saving(t) /\ fd[t] = temporary /\ temporary \in Inodes /\ temporary # target
             /\ Len(blocks[temporary]) = offset[t]
             /\ \A n \in 1..offset[t] : blocks[temporary][n] = copy[t]
             /\ stdio = "flushed" /\ pc[t] \in {"fsync", "close"} => offset[t] = FileBlocks
             /\ stdio = "flushed" /\ Fsync /\ pc[t] = "close" => durable[temporary] = FileBlocks
  <2>1. fd[t] # None  BY <1>2 DEF Basic, ThreadsFit
  <2> QED  BY <1>0, <1>2, <2>1 DEF Steady, WriterFits, TargetFits, Saving
<1>3. CASE Write(t)
  <2>1. PICK left \in Unflushed :
           /\ Flush(t, FileBlocks - left)
           /\ stdio' = IF left # 0 /\ stdio = "flushed" THEN "held" ELSE stdio
    BY <1>3 DEF Write
  <2> DEFINE upTo == FileBlocks - left
  <2>2. upTo \in 0..FileBlocks /\ (left = 0 => upTo = FileBlocks)
    <3>1. left \in 0..FileBlocks  BY <2>1
    <3> QED  BY <3>1 DEF FileBlocks
  <2>3. /\ pc[t] = "write" /\ pc' = [pc EXCEPT ![t] = IF Fsync THEN "fsync" ELSE "close"]
        /\ UNCHANGED <<processVars, copy, fd, target, temporary, decision, boot, saved, settled,
                       overlap>>
    BY <1>3 DEF Write, Goto
  <2>4. pc'[t] = IF Fsync THEN "fsync" ELSE "close"  BY <1>0, <2>3
  <2>5. offset[t] = 0  BY <2>3 DEF Basic, ThreadsFit
  <2> HIDE DEF upTo
  <2>6. /\ offset'[t] = upTo
        /\ \A i \in Inodes : i # fd[t] => blocks'[i] = blocks[i] /\ durable'[i] = durable[i]
        /\ Len(blocks'[fd[t]]) = upTo
        /\ \A n \in 1..upTo : blocks'[fd[t]][n] = copy[t]
    <3>1. Flush(t, upTo) /\ pc[t] \in {"write", "close"}  BY <2>1, <2>3 DEF upTo
    <3>2. offset[t] <= upTo /\ Len(blocks[fd[t]]) = offset[t]
          /\ \A n \in 1..offset[t] : blocks[fd[t]][n] = copy[t]
      BY <1>2, <2>2, <2>3, <2>5
    <3> QED  BY <1>0, <2>2, <3>1, <3>2, FlushFacts
  <2>7. target # None => blocks'[target] = blocks[target] /\ durable'[target] = durable[target]
    BY <1>0, <1>2, <2>3, <2>6
  <2>8. stdio' = "flushed" => stdio = "flushed" /\ upTo = FileBlocks
    BY <1>0, <2>1, <2>2
  <2> QED
    BY <1>0, <1>2, <2>3, <2>4, <2>6, <2>7, <2>8, SaverSteady
<1>4. CASE Sync(t)
  <2>1. /\ pc[t] = "fsync" /\ durable' = [durable EXCEPT ![fd[t]] = Len(blocks[fd[t]])]
        /\ pc' = [pc EXCEPT ![t] = "close"]
        /\ UNCHANGED <<processVars, copy, fd, offset, blocks, target, temporary, ghostVars>>
    BY <1>4 DEF Sync, Goto
  <2>2. pc'[t] = "close" /\ durable'[temporary] = offset[t]
    BY <1>0, <1>2, <2>1
  <2>3. target # None => durable'[target] = durable[target]
    BY <1>0, <1>2, <2>1
  <2> QED  BY <1>0, <1>2, <2>1, <2>2, <2>3, SaverSteady DEF ghostVars
<1>5. CASE Close(t)
  <2>1. /\ pc[t] = "close" /\ Flush(t, FileBlocks) /\ pc' = [pc EXCEPT ![t] = "rename"]
        /\ fd' = [fd EXCEPT ![t] = None]
        /\ UNCHANGED <<processVars, copy, target, temporary, ghostVars>>
    BY <1>5 DEF Close, Goto
  <2>2. FileBlocks \in 0..FileBlocks /\ offset[t] <= FileBlocks  BY <1>0 DEF FileBlocks
  <2>3. pc'[t] = "rename" /\ fd'[t] = None  BY <1>0, <2>1
  <2>4. /\ offset'[t] = FileBlocks
        /\ \A i \in Inodes : i # fd[t] => blocks'[i] = blocks[i] /\ durable'[i] = durable[i]
        /\ Len(blocks'[fd[t]]) = FileBlocks
        /\ \A n \in 1..FileBlocks : blocks'[fd[t]][n] = copy[t]
        /\ durable'[fd[t]] = IF offset[t] < durable[fd[t]] THEN offset[t] ELSE durable[fd[t]]
    BY <1>0, <1>2, <2>1, <2>2, FlushFacts
  <2>5. target # None => blocks'[target] = blocks[target] /\ durable'[target] = durable[target]
    BY <1>0, <1>2, <2>1, <2>4
  <2>6. stdio = "flushed" /\ Fsync => durable'[temporary] = FileBlocks
    BY <1>2, <2>1, <2>4
  <2> QED  BY <1>0, <1>2, <2>1, <2>3, <2>4, <2>5, <2>6, SaverSteady DEF ghostVars
<1> QED  BY <1>1, <1>3, <1>4, <1>5

\* A save that fails leaves the file under the snapshot path as it was.
LEMMA TargetLeft ==
  ASSUME Basic, NEW t \in Threads, Fail(t), target # None
  PROVE  blocks'[target] = blocks[target] /\ durable'[target] = durable[target]
<1>1. PICK named : Reclaim({target} \cup named)
  <2>1. Reclaim(({target} \cup (IF pc[t] = "open" THEN {temporary} ELSE {}))
                \cup {fd[u] : u \in Threads \ {t}})
    BY DEF Fail, Finished
  <2> DEFINE others == (IF pc[t] = "open" THEN {temporary} ELSE {})
                       \cup {fd[u] : u \in Threads \ {t}}
  <2>2. ({target} \cup (IF pc[t] = "open" THEN {temporary} ELSE {}))
           \cup {fd[u] : u \in Threads \ {t}} = {target} \cup others
    OBVIOUS
  <2> HIDE DEF others
  <2> QED  BY <2>1, <2>2
<1>2. target \in Inodes  BY DEF Basic, TypeOK
<1> QED  BY <1>1, <1>2, ReclaimFacts

\* The save ends: the snapshot path names the file that was written, or the one
\* it named before.
LEMMA EndSteady ==
  ASSUME Basic, Steady, NEW t \in Threads, Rename(t) \/ Fail(t), stdio # "lost"
  PROVE  Steady'
<1> USE PersistenceAssumption
<1>0. /\ pc \in [Threads -> {"idle", "copy", "open", "write", "fsync", "close", "rename"}]
      /\ blocks \in [Inodes -> Seq(Blocks)] /\ durable \in [Inodes -> 0..FileBlocks]
      /\ target \in Inodes \cup {None} /\ temporary \in Inodes \cup {None}
      /\ saved \in Nat /\ generation \in Nat /\ settled \in Nat
      /\ stdio \in {"flushed", "held"}
  BY DEF Basic, TypeOK, Blocks
<1>1. Saving(t)  BY DEF Rename, Fail, Saving
<1>2. /\ up /\ \A u \in Threads : u # t => ~Saving(u)
      /\ copy[t] \in Version /\ copy[t].generation \in saved..generation
      /\ copy[t].generation \in Nat
  BY <1>1, Alone DEF Steady, Basic, ThreadsFit, CopiesFit, Version
<1>3. pc' = [pc EXCEPT ![t] = "idle"]
  BY DEF Rename, Fail, Finished, Goto
<1>5. \A u \in Threads : ~Saving(u)' /\ pc'[u] \notin {"write", "fsync", "close", "rename"}
  <2>1. \A u \in Threads : pc'[u] = IF u = t THEN "idle" ELSE pc[u]  BY <1>0, <1>3
  <2> QED  BY <1>2, <2>1 DEF Saving
<1>6. OneSaver' /\ WriterFits' /\ CopiesFit'
  BY <1>5 DEF OneSaver, WriterFits, CopiesFit
<1>7. CASE Rename(t)
  <2>1. /\ pc[t] = "rename" /\ temporary # None /\ target' = temporary /\ temporary' = None
        /\ saved' = IF copy[t].generation > saved THEN copy[t].generation ELSE saved
        /\ UNCHANGED <<processVars, settled, stdio>>
    BY <1>7 DEF Rename
  <2>2. saved' = copy[t].generation  BY <1>0, <1>2, <2>1
  <2>3. /\ temporary \in Inodes
        /\ blocks'[temporary] = blocks[temporary] /\ durable'[temporary] = durable[temporary]
    <3>1. Reclaim({temporary} \cup {fd[u] : u \in Threads \ {t}})
      BY <1>7 DEF Rename, Finished
    <3> QED  BY <1>0, <2>1, <3>1, ReclaimFacts
  <2>4. /\ Len(blocks[temporary]) = FileBlocks
        /\ \A n \in 1..FileBlocks : blocks[temporary][n] = copy[t]
        /\ stdio = "flushed" /\ Fsync => durable[temporary] = FileBlocks
    BY <2>1 DEF Steady, WriterFits
  <2>5. Whole(blocks'[temporary]) /\ blocks'[temporary][1] = copy[t]
    BY <1>2, <2>3, <2>4, HoleAssumption DEF Whole, FileBlocks
  <2>6. TargetFits'
    BY <1>0, <1>2, <2>1, <2>2, <2>3, <2>4, <2>5 DEF TargetFits
  <2>7. GenerationsAhead'
    BY <1>0, <1>2, <2>1, <2>2 DEF Steady, GenerationsAhead, processVars
  <2> QED  BY <1>6, <2>6, <2>7 DEF Steady
<1>8. CASE Fail(t)
  <2>1. /\ temporary' \in {temporary, None}
        /\ UNCHANGED <<processVars, target, ghostVars>>
    BY <1>8 DEF Fail
  <2>2. target # None => blocks'[target] = blocks[target] /\ durable'[target] = durable[target]
    BY <1>8, TargetLeft
  <2>3. TargetFits'
    BY <2>1, <2>2, TargetKept DEF Steady, ghostVars
  <2>4. GenerationsAhead'
    BY <2>1 DEF Steady, GenerationsAhead, processVars, ghostVars
  <2> QED  BY <1>6, <2>3, <2>4 DEF Steady
<1> QED  BY <1>8, <1>7

\* The end of a process leaves the file under the snapshot path as it was: what
\* is on stable storage of it is all of it, or power is not lost.
LEMMA TargetSurvives ==
  ASSUME Basic, Steady, Flushing, Kill \/ LosePower, stdio' # "lost"
  PROVE  /\ target # None =>
               blocks'[target] = blocks[target] /\ durable'[target] = durable[target]
         /\ stdio' = "flushed" => stdio = "flushed"
<1> USE PersistenceAssumption
<1>0. /\ blocks \in [Inodes -> Seq(Blocks)] /\ durable \in [Inodes -> 0..FileBlocks]
      /\ target \in Inodes \cup {None} /\ stdio \in {"flushed", "held", "lost"}
      /\ \A i \in Inodes : durable[i] <= Len(blocks[i])
  BY DEF Basic, TypeOK, Blocks
<1>1. CASE Kill
  BY <1>0, <1>1, ReclaimFacts DEF Kill
<1>2. CASE LosePower
  <2>1. PICK kept \in [Inodes -> 0..FileBlocks] :
           /\ \A i \in Inodes : kept[i] \in IF i \in {target, temporary}
                                            THEN durable[i]..Len(blocks[i]) ELSE {0}
           /\ blocks' = [i \in Inodes |-> SubSeq(blocks[i], 1, kept[i])]
           /\ durable' = kept
    BY <1>2 DEF LosePower
  <2>2. stdio' = stdio /\ stdio # "lost" /\ stdio # "held" /\ Fsync
    BY <1>2 DEF LosePower, Flushing
  <2>3. stdio = "flushed"  BY <1>0, <2>2
  <2>4. SUFFICES ASSUME target # None
                 PROVE  blocks'[target] = blocks[target] /\ durable'[target] = durable[target]
    BY <2>2
  <2>5. target \in Inodes /\ Len(blocks[target]) = FileBlocks /\ durable[target] = FileBlocks
    BY <1>0, <2>2, <2>3, <2>4 DEF Steady, TargetFits, Whole
  <2>6. kept[target] = FileBlocks
    BY <2>1, <2>5 DEF FileBlocks
  <2>7. SubSeq(blocks[target], 1, FileBlocks) = blocks[target]
    <3>1. blocks[target] \in Seq(Blocks)  BY <1>0, <2>5
    <3> DEFINE b == blocks[target]
    <3> HIDE DEF b
    <3>2. b \in Seq(Blocks) /\ Len(b) = 2  BY <2>5, <3>1 DEF b, FileBlocks
    <3>3. SubSeq(b, 1, 2) = b
      <4>1. \A n \in 1..2 : b[n] \in Blocks  BY <3>2, ElementOfSeq
      <4>2. SubSeq(b, 1, 2) \in Seq(Blocks) /\ Len(SubSeq(b, 1, 2)) = 2
            /\ \A n \in 1..2 : SubSeq(b, 1, 2)[n] = b[n]
        BY <3>2, <4>1, SubSeqProperties
      <4> QED  BY <3>2, <4>2, SeqEqual
    <3> QED  BY <3>3 DEF b, FileBlocks
  <2> QED  BY <2>1, <2>5, <2>6, <2>7
<1> QED  BY <1>1, <1>2

\* The process ends: nobody saves, and the snapshot path still names the file it
\* named, all of it.
LEMMA CrashSteady ==
  ASSUME Basic, Steady, Flushing, Kill \/ LosePower, stdio' # "lost"
  PROVE  Steady'
<1> USE PersistenceAssumption
<1>0. /\ blocks \in [Inodes -> Seq(Blocks)] /\ durable \in [Inodes -> 0..FileBlocks]
      /\ target \in Inodes \cup {None} /\ stdio \in {"flushed", "held", "lost"}
      /\ \A i \in Inodes : durable[i] <= Len(blocks[i])
  BY DEF Basic, TypeOK, Blocks
<1>1. /\ ~up' /\ settled' = saved /\ pc' = [u \in Threads |-> "idle"]
      /\ UNCHANGED <<target, temporary, saved>>
  BY DEF Kill, LosePower, Stopped
<1>2. \A u \in Threads : ~Saving(u)' /\ pc'[u] = "idle"  BY <1>1 DEF Saving
<1>3. OneSaver' /\ WriterFits' /\ CopiesFit' /\ GenerationsAhead'
  BY <1>1, <1>2 DEF OneSaver, WriterFits, CopiesFit, GenerationsAhead
<1>4. /\ target # None => blocks'[target] = blocks[target] /\ durable'[target] = durable[target]
      /\ stdio' = "flushed" => stdio = "flushed"
  BY TargetSurvives
<1>5. TargetFits'
  BY <1>1, <1>4, TargetKept DEF Steady
<1> QED  BY <1>3, <1>5 DEF Steady

\* A restart reads the one state the file holds, and goes one generation on.
LEMMA RestartSteady ==
  ASSUME Basic, Steady, Restart \/ Decide
  PROVE  Steady'
<1> USE PersistenceAssumption
<1>0. /\ blocks \in [Inodes -> Seq(Blocks)] /\ target \in Inodes \cup {None}
      /\ saved \in Nat /\ settled \in Nat /\ generation \in Nat
  BY DEF Basic, TypeOK, Blocks
<1>1. CASE Restart
  <2>1. /\ ~up /\ up'
        /\ UNCHANGED <<threadVars, fileVars, decision, saved, settled, overlap, stdio>>
    BY <1>1 DEF Restart
  <2>2. settled = saved /\ \A u \in Threads : pc[u] = "idle"
    BY <2>1 DEF Steady, GenerationsAhead, Basic, ThreadsFit
  <2>3. \A u \in Threads : ~Saving(u)' /\ pc'[u] = "idle"
    BY <2>1, <2>2 DEF threadVars, Saving
  <2>4. OneSaver' /\ WriterFits' /\ CopiesFit'
    BY <2>3 DEF OneSaver, WriterFits, CopiesFit
  <2>5. TargetFits'
    BY <2>1 DEF Steady, TargetFits, fileVars
  <2>6. generation' \in Nat /\ generation' >= saved /\ (saved # 0 => generation' > saved)
    <3>1. CASE target = None
      <4>1. saved = 0  BY <3>1 DEF Steady, TargetFits
      <4> QED  BY <1>1, <3>1, <4>1 DEF Restart
    <3>2. CASE target # None
      <4>1. Whole(blocks[target]) /\ blocks[target][1].generation = saved
        BY <3>2 DEF Steady, TargetFits
      <4>2. PICK p \in Parsed(blocks[target]) : generation' = Loaded(p).generation
        BY <1>1, <3>2 DEF Restart
      <4>3. p = blocks[target][1]  BY <4>1, <4>2 DEF Parsed
      <4>4. p.generation \in Nat  BY <1>0, <3>2, <4>2, ParsedFacts
      <4> QED  BY <1>0, <4>1, <4>2, <4>3, <4>4 DEF Loaded
    <3> QED  BY <3>1, <3>2
  <2>7. GenerationsAhead'
    BY <1>0, <2>1, <2>2, <2>6 DEF GenerationsAhead
  <2> QED  BY <2>4, <2>5, <2>7 DEF Steady
<1>2. CASE Decide
  BY <1>2 DEF Decide, Steady, OneSaver, WriterFits, TargetFits, CopiesFit, GenerationsAhead,
              Saving, processVars, threadVars, fileVars
<1> QED  BY <1>1, <1>2

\* The first process has saved nothing, and no file has a name.
LEMMA InitInv == Init => Inv
<1> SUFFICES ASSUME Init PROVE Inv
  OBVIOUS
<1>1. Steady
  BY DEF Init, Steady, OneSaver, WriterFits, TargetFits, CopiesFit, GenerationsAhead, Saving
<1> QED  BY <1>1, InitBasic DEF Inv

\* Once two saves have overlapped, or something was lost, that stays so.
LEMMA LostForGood ==
  ASSUME Basic, Basic', [Next]_vars, ~overlap', stdio' # "lost"
  PROVE  ~overlap /\ stdio # "lost"
<1>1. overlap \in BOOLEAN  BY DEF Basic, TypeOK
<1>2. CASE UNCHANGED vars
  BY <1>2 DEF vars, ghostVars
<1>3. ASSUME NEW t \in Threads, Copy(t)
      PROVE  ~overlap /\ stdio # "lost"
  <2>1. stdio' = stdio /\ overlap' = (overlap \/ \E u \in Threads : Saving(u))
    BY <1>3 DEF Copy
  <2> QED  BY <1>1, <2>1
<1>4. ASSUME NEW t \in Threads,
             Commit(t) \/ Save(t) \/ Open(t) \/ Write(t) \/ Sync(t) \/ Close(t) \/ Rename(t) \/ Fail(t)
      PROVE  ~overlap /\ stdio # "lost"
  BY <1>4 DEF Commit, Save, Open, Write, Sync, Close, Rename, Fail, ghostVars
<1>5. CASE Kill \/ LosePower
  BY <1>5 DEF Kill, LosePower, Stopped
<1>6. CASE Restart \/ Decide
  BY <1>6 DEF Restart, Decide
<1> QED  BY <1>2, <1>3, <1>4, <1>5, <1>6 DEF Next

\* As long as fsync is asked for wherever the power may fail, every step keeps
\* the invariant.  Once saves have overlapped, or the power took what fsync did
\* not reach, nothing is claimed any more, and these do not unhappen.
LEMMA InvStep == Flushing /\ Inv /\ [Next]_vars => Inv'
<1> SUFFICES ASSUME Flushing, Inv, [Next]_vars PROVE Inv'
  OBVIOUS
<1>1. Basic /\ Basic'  BY BasicStep DEF Inv
<1> SUFFICES ASSUME ~overlap', stdio' # "lost" PROVE Steady'
  BY <1>1 DEF Inv
<1>2. Steady /\ stdio # "lost"  BY <1>1, LostForGood DEF Inv
<1>3. CASE UNCHANGED vars
  BY <1>2, <1>3 DEF vars, processVars, threadVars, fileVars, ghostVars, Steady, OneSaver,
                    WriterFits, TargetFits, CopiesFit, GenerationsAhead, Saving
<1> QED
  BY <1>1, <1>2, <1>3, StaySteady, WriteSteady, EndSteady, CrashSteady, RestartSteady DEF Next

\* Where fsync is asked for, or the power does not fail: the snapshot path names
\* a complete snapshot at every instant (write_file_atomically), whichever calls
\* fail and whenever the daemon is killed.
THEOREM SnapshotComplete ==
  ASSUME Flushing
  PROVE  Spec => []SnapshotIntact
<1>1. Inv => SnapshotIntact
  BY DEF Inv, Steady, TargetFits, SnapshotIntact
<1>2. Inv /\ [Next]_vars => Inv'  BY InvStep
<1> QED  BY <1>1, <1>2, InitInv, PTL DEF Spec

\* Under the same assumption, a restart finds what every save that returned Ok
\* had written, or something newer (save_snapshot_impl, load_snapshot).
THEOREM SavedFound ==
  ASSUME Flushing
  PROVE  Spec => []SavedIsRecoverable
<1>1. Inv => SavedIsRecoverable
  BY DEF Inv, Basic, TypeOK, Steady, TargetFits, SavedIsRecoverable, Parsed
<1>2. Inv /\ [Next]_vars => Inv'  BY InvStep
<1> QED  BY <1>1, <1>2, InitInv, PTL DEF Spec

\* And a decision taken under a generation an earlier process had saved is stale
\* in every later process (load_snapshot, verify_generation).
THEOREM DecisionsFenced ==
  ASSUME Flushing
  PROVE  Spec => []SavedDecisionsFenced
<1>1. Inv => SavedDecisionsFenced
  BY DEF Inv, Basic, TypeOK, Steady, GenerationsAhead, SavedDecisionsFenced
<1>2. Inv /\ [Next]_vars => Inv'  BY InvStep
<1> QED  BY <1>1, <1>2, InitInv, PTL DEF Spec

-----------------------------------------------------------------------------
(* Persistence implements DurableStore: a commit publishes, a rename keeps, *)
(* and whatever else a save does on the way is not to be seen.             *)

\* The state of the process, and what a restart would read.
Live == IF up THEN {[generation |-> generation, incarnation |-> incarnation]} ELSE {}
Stored == IF target = None THEN {} ELSE Parsed(blocks[target])

\* What is stored is the one state of the file, of the generation last saved.
LEMMA StoredFacts ==
  ASSUME Basic, Steady
  PROVE  /\ target = None => Stored = {} /\ saved = 0
         /\ target # None => /\ Stored = {blocks[target][1]} /\ Whole(blocks[target])
                            /\ blocks[target][1].generation = saved
  BY DEF Steady, TargetFits, Stored, Parsed

\* A step that leaves the process and the file under the snapshot path alone.
LEMMA StoreUnseen ==
  ASSUME UNCHANGED <<processVars, target>>, target # None => blocks'[target] = blocks[target]
  PROVE  UNCHANGED <<Live, Stored>>
  BY DEF Live, Stored, processVars, Parsed, Whole

\* The thread that saves writes to a file of another name.
LEMMA WritesUnseen ==
  ASSUME Basic, Steady, NEW t \in Threads, Open(t) \/ Write(t) \/ Sync(t) \/ Close(t)
  PROVE  UNCHANGED <<Live, Stored>>
<1> USE PersistenceAssumption
<1>0. /\ fd \in [Threads -> Inodes \cup {None}] /\ blocks \in [Inodes -> Seq(Blocks)]
      /\ target \in Inodes \cup {None} /\ temporary \in Inodes \cup {None}
  BY DEF Basic, TypeOK, Blocks
<1>1. UNCHANGED <<processVars, target>>
  BY DEF Open, Write, Sync, Close
<1>2. ASSUME pc[t] \in {"write", "close"}
      PROVE  fd[t] = temporary /\ temporary # None /\ temporary # target
  <2>1. fd[t] # None  BY <1>2 DEF Basic, ThreadsFit
  <2> QED  BY <1>0, <1>2, <2>1 DEF Steady, WriterFits, TargetFits
<1>3. SUFFICES ASSUME target # None PROVE blocks'[target] = blocks[target]
  BY <1>1, StoreUnseen
<1>4. CASE Open(t)
  <2>1. PICK i \in Inodes :
           /\ i = temporary \/ (temporary = None /\ i \in Free)
           /\ blocks' = [blocks EXCEPT ![i] = <<>>]
    BY <1>0, <1>4 DEF Open, Free
  <2>2. i # target  BY <1>3, <2>1 DEF Steady, TargetFits, Free
  <2> QED  BY <1>0, <1>3, <2>1, <2>2
<1>5. CASE Write(t)
  <2>1. PICK left \in Unflushed : Flush(t, FileBlocks - left)
    BY <1>5 DEF Write
  <2>2. FileBlocks - left \in 0..FileBlocks
    <3>1. left \in 0..FileBlocks  OBVIOUS
    <3> QED  BY <3>1 DEF FileBlocks
  <2>3. pc[t] = "write"  BY <1>5 DEF Write
  <2> QED  BY <1>0, <1>2, <1>3, <2>1, <2>2, <2>3, FlushFacts
<1>6. CASE Sync(t)
  BY <1>6 DEF Sync
<1>7. CASE Close(t)
  <2>1. pc[t] = "close" /\ Flush(t, FileBlocks)  BY <1>7 DEF Close
  <2>2. FileBlocks \in 0..FileBlocks  BY DEF FileBlocks
  <2> QED  BY <1>0, <1>2, <1>3, <2>1, <2>2, FlushFacts
<1> QED  BY <1>4, <1>5, <1>6, <1>7

\* A rename stores the state its thread copied.
LEMMA RenameKeeps ==
  ASSUME Basic, Steady, NEW t \in Threads, Rename(t)
  PROVE  /\ up /\ Live' = Live
         /\ copy[t].generation \in saved..generation
         /\ Stored' = {[generation |-> copy[t].generation, incarnation |-> incarnation]}
<1> USE PersistenceAssumption
<1>0. blocks \in [Inodes -> Seq(Blocks)] /\ temporary \in Inodes \cup {None}
  BY DEF Basic, TypeOK, Blocks
<1>1. Saving(t)  BY DEF Rename, Saving
<1>2. /\ up /\ copy[t] \in Version
      /\ copy[t].generation \in saved..generation /\ copy[t].incarnation = incarnation
  BY <1>1 DEF Steady, Basic, ThreadsFit, CopiesFit, Saving
<1>3. /\ pc[t] = "rename" /\ temporary # None /\ target' = temporary
      /\ UNCHANGED processVars
      /\ Reclaim({temporary} \cup {fd[u] : u \in Threads \ {t}})
  BY DEF Rename, Finished
<1>4. blocks'[temporary] = blocks[temporary]
  BY <1>0, <1>3, ReclaimFacts
<1>5. Len(blocks[temporary]) = FileBlocks /\ \A n \in 1..FileBlocks : blocks[temporary][n] = copy[t]
  BY <1>3 DEF Steady, WriterFits
<1>6. Whole(blocks'[target']) /\ blocks'[target'][1] = copy[t]
  BY <1>2, <1>3, <1>4, <1>5, HoleAssumption DEF Whole, FileBlocks
<1>7. Stored' = {copy[t]}
  BY <1>3, <1>6 DEF Stored, Parsed
<1>8. copy[t] = [generation |-> copy[t].generation, incarnation |-> incarnation]
  BY <1>2 DEF Version
<1> QED  BY <1>2, <1>3, <1>7, <1>8 DEF Live, processVars

\* A new process has a state right after the stored one.
LEMMA RestartBegins ==
  ASSUME Basic, Steady, Restart
  PROVE  /\ Live = {} /\ Stored' = Stored
         /\ Live' = IF Stored = {} THEN {Store!First} ELSE {Store!Successor(s) : s \in Stored}
<1> USE PersistenceAssumption
<1>1. ~up /\ up' /\ UNCHANGED fileVars
  BY DEF Restart
<1>2. Live = {} /\ Stored' = Stored
  BY <1>1 DEF Live, Stored, Parsed, Whole, fileVars
<1>3. CASE target = None
  <2>1. Live' = {[generation |-> 0, incarnation |-> 1]}
    BY <1>1, <1>3 DEF Restart, Live
  <2> QED  BY <1>2, <1>3, <2>1, StoredFacts DEF Store!First
<1>4. CASE target # None
  <2> DEFINE s == blocks[target][1]
  <2>1. Stored = {s} /\ Parsed(blocks[target]) = {s}
    BY <1>4, StoredFacts DEF Stored
  <2>2. s.incarnation \in 1..IncarnationMax
    <3>1. target \in Inodes  BY <1>4 DEF Basic, TypeOK
    <3> QED  BY <2>1, <3>1, ParsedFacts
  <2> HIDE DEF s
  <2>3. generation' = Loaded(s).generation /\ incarnation' = Loaded(s).incarnation
    BY <1>4, <2>1 DEF Restart
  <2>4. /\ generation' = s.generation + 1
        /\ incarnation' = IF s.incarnation < IncarnationMax THEN s.incarnation + 1 ELSE 1
    BY <2>2, <2>3 DEF Loaded
  <2>5. Live' = {Store!Successor(s)}
    BY <1>1, <2>4 DEF Live, Store!Successor
  <2> QED  BY <1>2, <2>1, <2>5
<1> QED  BY <1>3, <1>4

\* The steps of Persistence, each as a step of the store or as none.
LEMMA StoreStep == Flushing /\ Inv /\ Inv' /\ [Next]_vars => [Store!DNext]_(Store!dvars)
<1> SUFFICES ASSUME Flushing, Inv, Inv', [Next]_vars
             PROVE  [Store!DNext]_(Store!dvars)
  OBVIOUS
<1>0. Basic /\ Basic'  BY DEF Inv
<1> SUFFICES ASSUME ~overlap', stdio' # "lost" PROVE [Store!DNext]_(Store!dvars)
  BY DEF Store!DNext
<1>1. ~overlap /\ stdio # "lost"  BY <1>0, LostForGood
<1> SUFFICES ASSUME ~UNCHANGED <<Live, Stored>> PROVE Store!DNext
  BY <1>1 DEF Store!dvars, Live, Stored
<1>2. Basic /\ Steady /\ saved \in Nat /\ generation \in Nat
  BY <1>1 DEF Inv, Basic, TypeOK
<1>3. SUFFICES \/ \E v \in Live : Live' = {[v EXCEPT !.generation = @ + 1]} /\ Stored' = Stored
               \/ Live' = Live /\ \E v \in Live : \E g \in 0..v.generation :
                     /\ \A old \in Stored : old.generation <= g
                     /\ Stored' = {[v EXCEPT !.generation = g]}
               \/ Live # {} /\ Live' = {} /\ Stored' = Stored
               \/ /\ Live = {} /\ Stored' = Stored
                  /\ Live' = IF Stored = {} THEN {Store!First}
                             ELSE {Store!Successor(s) : s \in Stored}
  BY <1>1 DEF Store!DNext, Store!Publish, Store!Keep, Store!Die, Store!Begin, Live, Stored
<1>4. CASE UNCHANGED vars
  BY <1>4, StoreUnseen DEF vars, fileVars
<1>5. ASSUME NEW t \in Threads, Commit(t)
      PROVE  \E v \in Live : Live' = {[v EXCEPT !.generation = @ + 1]} /\ Stored' = Stored
  <2>1. up /\ generation' = generation + 1 /\ UNCHANGED <<up, incarnation, fileVars>>
    BY <1>5 DEF Commit
  <2>2. Stored' = Stored  BY <2>1 DEF Stored, Parsed, Whole, fileVars
  <2> DEFINE v == [generation |-> generation, incarnation |-> incarnation]
  <2>3. v \in Live /\ Live' = {[v EXCEPT !.generation = @ + 1]}  BY <2>1 DEF Live
  <2> QED  BY <2>2, <2>3
<1>6. ASSUME NEW t \in Threads, Save(t) \/ Copy(t)
      PROVE  UNCHANGED <<Live, Stored>>
  BY <1>6, StoreUnseen DEF Save, Copy, fileVars
<1>7. ASSUME NEW t \in Threads, Rename(t)
      PROVE  Live' = Live /\ \E v \in Live : \E g \in 0..v.generation :
                /\ \A old \in Stored : old.generation <= g
                /\ Stored' = {[v EXCEPT !.generation = g]}
  <2> DEFINE v == [generation |-> generation, incarnation |-> incarnation]
             g == copy[t].generation
  <2>1. /\ up /\ Live' = Live /\ g \in saved..generation
        /\ Stored' = {[generation |-> g, incarnation |-> incarnation]}
    BY <1>2, <1>7, RenameKeeps
  <2>2. v \in Live /\ g \in 0..v.generation  BY <1>2, <2>1 DEF Live
  <2>3. \A old \in Stored : old.generation <= g  BY <1>2, <2>1, StoredFacts
  <2>4. Stored' = {[v EXCEPT !.generation = g]}  BY <2>1
  <2> QED  BY <2>1, <2>2, <2>3, <2>4
<1>8. ASSUME NEW t \in Threads, Fail(t)
      PROVE  UNCHANGED <<Live, Stored>>
  <2>1. UNCHANGED <<processVars, target>>  BY <1>8 DEF Fail
  <2> QED  BY <1>2, <1>8, <2>1, TargetLeft, StoreUnseen
<1>9. CASE Kill \/ LosePower
  <2>1. up /\ ~up' /\ UNCHANGED target  BY <1>9 DEF Kill, LosePower, Stopped
  <2>2. target # None => blocks'[target] = blocks[target]
    BY <1>2, <1>9, TargetSurvives
  <2>3. Live # {} /\ Live' = {} /\ Stored' = Stored
    BY <2>1, <2>2 DEF Live, Stored, Parsed, Whole
  <2> QED  BY <2>3
<1>10. CASE Decide
  BY <1>10, StoreUnseen DEF Decide, fileVars
<1> QED
  BY <1>2, <1>4, <1>5, <1>6, <1>7, <1>8, <1>9, <1>10, WritesUnseen, RestartBegins DEF Next

\* Where fsync is asked for, or the power does not fail: whatever the threads of
\* a registry, the file system and the crashes do (maybe_autosave,
\* write_file_atomically, load_snapshot), its owner has the store of
\* DurableStore as long as no two saves overlap.
THEOREM StoreImplemented ==
  ASSUME Flushing
  PROVE  Spec => ImplementsStore
<1>1. Init => Store!DInit
  BY DEF Init, Store!DInit, Store!First
<1>2. Inv /\ [Next]_vars => Inv'  BY InvStep
<1>3. Inv /\ Inv' /\ [Next]_vars => [Store!DNext]_(Store!dvars)  BY StoreStep
<1> QED  BY <1>1, <1>2, <1>3, InitInv, PTL DEF Spec, ImplementsStore, Store!DSpec

-----------------------------------------------------------------------------
(* Sequences that list a set: each element once.                           *)

Lists(q, S) ==
    /\ q \in Seq(S)
    /\ \A i, j \in 1..Len(q) : q[i] = q[j] => i = j
    /\ \A x \in S : \E i \in 1..Len(q) : q[i] = x

\* Two lists of disjoint sets, one after the other, list both.
LEMMA ListsConcat ==
  ASSUME NEW P, NEW Q, P \cap Q = {}, NEW p, NEW q, Lists(p, P), Lists(q, Q)
  PROVE  /\ Lists(p \o q, P \cup Q)
         /\ Len(p) <= Len(p \o q)
         /\ \A i \in 1..Len(p) : (p \o q)[i] = p[i]
<1>1. p \in Seq(P) /\ q \in Seq(Q) /\ Len(p) \in Nat /\ Len(q) \in Nat
  BY DEF Lists
<1>2. p \in Seq(P \cup Q) /\ q \in Seq(P \cup Q)
  BY <1>1, SeqMonotonic
<1>3. /\ p \o q \in Seq(P \cup Q)
      /\ Len(p \o q) = Len(p) + Len(q)
      /\ \A i \in 1..Len(p) + Len(q) :
            (p \o q)[i] = IF i <= Len(p) THEN p[i] ELSE q[i - Len(p)]
  BY <1>2, ConcatProperties
<1>4. \A i \in 1..Len(p) : p[i] \in P /\ (p \o q)[i] = p[i]
  BY <1>1, <1>3, ElementOfSeq
<1>5. \A i \in 1..Len(q) : q[i] \in Q /\ (p \o q)[Len(p) + i] = q[i]
  BY <1>1, <1>3, ElementOfSeq
<1>6. ASSUME NEW i \in 1..Len(p \o q), NEW j \in 1..Len(p \o q), (p \o q)[i] = (p \o q)[j]
      PROVE  i = j
  <2>1. CASE i <= Len(p) /\ j <= Len(p)
    BY <1>1, <1>4, <1>6, <2>1 DEF Lists
  <2>2. CASE i > Len(p) /\ j > Len(p)
    <3>1. i - Len(p) \in 1..Len(q) /\ j - Len(p) \in 1..Len(q)
      BY <1>1, <1>3, <2>2
    <3>2. q[i - Len(p)] = q[j - Len(p)]
      BY <1>1, <1>3, <1>6, <2>2
    <3>3. i - Len(p) = j - Len(p)  BY <3>1, <3>2 DEF Lists
    <3> QED  BY <1>1, <1>3, <3>3
  <2>3. CASE i <= Len(p) /\ j > Len(p)
    <3>1. i \in 1..Len(p) /\ j - Len(p) \in 1..Len(q) /\ Len(p) + (j - Len(p)) = j
      BY <1>1, <1>3, <2>3
    <3> QED  BY <1>4, <1>5, <1>6, <3>1
  <2>4. CASE i > Len(p) /\ j <= Len(p)
    <3>1. j \in 1..Len(p) /\ i - Len(p) \in 1..Len(q) /\ Len(p) + (i - Len(p)) = i
      BY <1>1, <1>3, <2>4
    <3> QED  BY <1>4, <1>5, <1>6, <3>1
  <2> QED  BY <1>1, <1>3, <2>1, <2>2, <2>3, <2>4
<1>7. ASSUME NEW x \in P \cup Q
      PROVE  \E i \in 1..Len(p \o q) : (p \o q)[i] = x
  <2>1. CASE x \in P
    <3>1. PICK i \in 1..Len(p) : p[i] = x  BY <2>1 DEF Lists
    <3> QED  BY <1>1, <1>3, <1>4, <3>1
  <2>2. CASE x \in Q
    <3>1. PICK i \in 1..Len(q) : q[i] = x  BY <2>2 DEF Lists
    <3>2. Len(p) + i \in 1..Len(p \o q)  BY <1>1, <1>3
    <3> QED  BY <1>5, <3>1, <3>2
  <2> QED  BY <2>1, <2>2
<1>8. Lists(p \o q, P \cup Q)  BY <1>3, <1>6, <1>7 DEF Lists
<1>9. Len(p) <= Len(p \o q)  BY <1>1, <1>3
<1> QED  BY <1>4, <1>8, <1>9

\* SetToSeq lists a finite set.
LEMMA SetToSeqLists ==
  ASSUME NEW S, IsFiniteSet(S)
  PROVE  Lists(SetToSeq(S), S)
<1> DEFINE n == Cardinality(S)
<1>1. n \in Nat /\ ExistsBijection(1..n, S)
  BY FS_CardinalityType
<1>2. \E f \in [1..n -> S] : IsInjective(f)
  BY <1>1 DEF ExistsBijection, Bijection, Injection
<1>3. SetToSeq(S) \in [1..n -> S] /\ IsInjective(SetToSeq(S))
  BY <1>2 DEF SetToSeq
<1>4. SetToSeq(S) \in Injection(1..n, S)  BY <1>3 DEF Injection
<1>5. Cardinality(1..n) = n  BY <1>1, FS_Interval
<1>6. SetToSeq(S) \in Surjection(1..n, S)  BY <1>4, <1>5, FS_Injection
<1> HIDE DEF n
<1>7. SetToSeq(S) \in Seq(S) /\ Len(SetToSeq(S)) = n
  BY <1>1, <1>3, SeqDef, LenProperties
<1> QED  BY <1>3, <1>6, <1>7 DEF Lists, IsInjective, Surjection

\* So does Ascending, for a set of numbers, in their order.
LEMMA AscendingLists ==
  ASSUME NEW S \in SUBSET Nat, IsFiniteSet(S)
  PROVE  /\ Lists(Ascending(S), S)
         /\ \A i \in 1..Len(Ascending(S)) : Cardinality({y \in S : y < Ascending(S)[i]}) = i - 1
<1> DEFINE n == Cardinality(S)
           below(x) == {y \in S : y < x}
           rank == [x \in S |-> Cardinality(below(x)) + 1]
<1>1. n \in Nat  BY FS_CardinalityType
<1>2. ASSUME NEW x \in S
      PROVE  /\ IsFiniteSet(below(x)) /\ Cardinality(below(x)) \in Nat
             /\ Cardinality(below(x)) <= n - 1
  <2>1. below(x) \in SUBSET (S \ {x})  OBVIOUS
  <2>2. IsFiniteSet(S \ {x}) /\ Cardinality(S \ {x}) = n - 1
    BY FS_RemoveElement
  <2> HIDE DEF below, n
  <2>3. IsFiniteSet(below(x)) /\ Cardinality(below(x)) <= Cardinality(S \ {x})
    BY <2>1, <2>2, FS_Subset
  <2> QED  BY <2>2, <2>3, FS_CardinalityType
<1>3. ASSUME NEW x \in S, NEW y \in S, x < y
      PROVE  Cardinality(below(x)) # Cardinality(below(y))
  <2>1. below(x) \in SUBSET below(y) /\ x \in below(y) /\ x \notin below(x)
    <3>1. x \in Nat /\ y \in Nat /\ \A z \in S : z \in Nat  OBVIOUS
    <3>2. \A z \in S : z < x => z < y  BY <1>3, <3>1
    <3>3. ~(x < x)  BY <3>1
    <3> QED  BY <1>3, <3>2, <3>3, Zenon
  <2>2. IsFiniteSet(below(y))  BY <1>2
  <2> HIDE DEF below
  <2> QED  BY <2>1, <2>2, FS_Subset
<1>4. rank \in [S -> 1..n]
  <2>1. ASSUME NEW x \in S PROVE Cardinality(below(x)) + 1 \in 1..n
    <3> HIDE DEF below, n
    <3> QED  BY <1>1, <1>2
  <2> QED  BY <2>1
<1>5. IsInjective(rank)
  <2> SUFFICES ASSUME NEW x \in S, NEW y \in S, rank[x] = rank[y] PROVE x = y
    BY DEF IsInjective
  <2>1. rank[x] = Cardinality(below(x)) + 1 /\ rank[y] = Cardinality(below(y)) + 1
    OBVIOUS
  <2> HIDE DEF below, rank
  <2>2. Cardinality(below(x)) \in Nat /\ Cardinality(below(y)) \in Nat  BY <1>2
  <2>3. rank[x] = rank[y]  OBVIOUS
  <2>4. Cardinality(below(x)) = Cardinality(below(y))
    <3>1. \A a, b \in Nat : a + 1 = b + 1 => a = b  OBVIOUS
    <3> QED  BY <2>1, <2>2, <2>3, <3>1, Zenon
  <2>5. x \in Nat /\ y \in Nat  OBVIOUS
  <2> QED  BY <1>3, <2>4, <2>5
<1>6. rank \in Surjection(S, 1..n)
  <2>1. IsFiniteSet(1..n) /\ Cardinality(1..n) = n  BY <1>1, FS_Interval
  <2>2. rank \in Injection(S, 1..n)  BY <1>4, <1>5 DEF Injection
  <2> HIDE DEF rank
  <2> QED  BY <2>1, <2>2, FS_Injection
<1> DEFINE q == Ascending(S)
<1>7. ASSUME NEW i \in 1..n
      PROVE  q[i] \in S /\ rank[q[i]] = i
  <2>1. q[i] = CHOOSE x \in S : Cardinality(below(x)) = i - 1
    BY DEF Ascending
  <2>2. PICK x \in S : rank[x] = i  BY <1>6 DEF Surjection
  <2>3. Cardinality(below(x)) + 1 = i /\ Cardinality(below(x)) \in Nat
    BY <1>2, <2>2
  <2> HIDE DEF below, q
  <2>4. Cardinality(below(x)) = i - 1  BY <1>1, <2>3
  <2>5. q[i] \in S /\ Cardinality(below(q[i])) = i - 1  BY <2>1, <2>4
  <2> QED  BY <1>1, <1>2, <2>5
<1>8. q \in [1..n -> S]
  BY <1>7 DEF Ascending
<1>9. q \in Seq(S) /\ Len(q) = n
  <2> HIDE DEF n, q
  <2> QED  BY <1>1, <1>8, SeqDef, LenProperties
<1>10. \A i, j \in 1..n : q[i] = q[j] => i = j
  BY <1>7
<1>11. ASSUME NEW x \in S PROVE \E i \in 1..n : q[i] = x
  <2>1. rank[x] \in 1..n  BY <1>4
  <2> HIDE DEF rank, q, n
  <2>2. q[rank[x]] \in S /\ rank[q[rank[x]]] = rank[x]  BY <1>7, <2>1
  <2>3. DOMAIN rank = S  BY DEF rank
  <2>4. q[rank[x]] = x  BY <1>5, <2>2, <2>3 DEF IsInjective
  <2> QED  BY <2>1, <2>4
<1>12. ASSUME NEW i \in 1..n PROVE Cardinality({y \in S : y < q[i]}) = i - 1
  <2>1. q[i] \in S /\ rank[q[i]] = i  BY <1>7
  <2>2. rank[q[i]] = Cardinality(below(q[i])) + 1 /\ Cardinality(below(q[i])) \in Nat
    BY <1>2, <2>1
  <2> HIDE DEF q, n, rank, below
  <2>3. Cardinality(below(q[i])) = i - 1  BY <1>1, <2>1, <2>2
  <2> QED  BY <2>3 DEF below
<1> HIDE DEF q, n
<1> QED  BY <1>9, <1>10, <1>11, <1>12 DEF Lists, q

\* The first of them is the least.
LEMMA Least ==
  ASSUME NEW S \in SUBSET Nat, IsFiniteSet(S), S # {}
  PROVE  \E x \in S : \A y \in S : x <= y
<1> DEFINE q == Ascending(S)
<1>1. Lists(q, S)  BY AscendingLists
<1>2. 1 \in 1..Len(q) /\ q[1] \in S
  <2> HIDE DEF q
  <2>1. q \in Seq(S) /\ Len(q) \in Nat /\ \E i \in 1..Len(q) : TRUE
    BY <1>1, LenProperties DEF Lists
  <2>2. 1 \in 1..Len(q)  BY <2>1
  <2> QED  BY <2>1, <2>2, ElementOfSeq
<1> DEFINE x == q[1]
           below == {y \in S : y < x}
<1>3. Cardinality(below) = 1 - 1 /\ IsFiniteSet(below)
  <2>1. Cardinality(below) = 1 - 1  BY <1>2, AscendingLists
  <2> QED  BY <2>1, FS_Subset
<1> HIDE DEF x
<1>4. below = {}
  <2> HIDE DEF below
  <2> QED  BY <1>3, FS_EmptySet
<1>5. x \in S  BY <1>2 DEF x
<1> QED  BY <1>4, <1>5

\* The records that Bare and Full make, as sets.
Marks(kind, ids) == {[kind |-> kind, id |-> x] : x \in ids}
Entries(kind, ids, contents) ==
    {[kind |-> kind, id |-> x, is |-> contents[x]] : x \in ids}

\* Made of a list, they list the records.
LEMMA BareLists ==
  ASSUME NEW kind, NEW S, NEW q, Lists(q, S)
  PROVE  Lists(Bare(kind, q), Marks(kind, S))
<1> DEFINE R == {[kind |-> kind, id |-> x] : x \in S}
           p == Bare(kind, q)
<1>1. q \in Seq(S) /\ Len(q) \in Nat /\ DOMAIN q = 1..Len(q)  BY LenProperties DEF Lists
<1>2. \A i \in 1..Len(q) : q[i] \in S  BY <1>1, ElementOfSeq
<1>3. p = [i \in 1..Len(q) |-> [kind |-> kind, id |-> q[i]]]
  BY <1>1 DEF Bare
<1>4. p \in [1..Len(q) -> R]  BY <1>2, <1>3
<1>5. p \in Seq(R) /\ Len(p) = Len(q)
  <2> HIDE DEF p, R
  <2> QED  BY <1>1, <1>4, SeqDef, LenProperties
<1>6. \A i \in 1..Len(q) : p[i] = [kind |-> kind, id |-> q[i]]  BY <1>3
<1> HIDE DEF p
<1>7. \A i, j \in 1..Len(p) : p[i] = p[j] => i = j
  <2> SUFFICES ASSUME NEW i \in 1..Len(p), NEW j \in 1..Len(p), p[i] = p[j] PROVE i = j
    OBVIOUS
  <2>1. i \in 1..Len(q) /\ j \in 1..Len(q)  BY <1>5
  <2>2. p[i] = [kind |-> kind, id |-> q[i]] /\ p[j] = [kind |-> kind, id |-> q[j]]
    BY <1>6, <2>1
  <2>3. p[i] = p[j]  OBVIOUS
  <2>4. \A x : [kind |-> kind, id |-> x].id = x  OBVIOUS
  <2>5. q[i] = q[j]  BY <2>2, <2>3, <2>4
  <2> QED  BY <2>1, <2>5 DEF Lists
<1>8. \A x \in R : \E i \in 1..Len(p) : p[i] = x
  BY <1>5, <1>6 DEF Lists
<1> QED  BY <1>5, <1>7, <1>8 DEF Lists, Marks, p

\* The same for records with contents: ids tell them apart.
LEMMA FullLists ==
  ASSUME NEW kind, NEW S, NEW q, NEW f, Lists(q, S)
  PROVE  Lists(Full(kind, q, f), Entries(kind, S, f))
<1> DEFINE R == {[kind |-> kind, id |-> x, is |-> f[x]] : x \in S}
           p == Full(kind, q, f)
<1>1. q \in Seq(S) /\ Len(q) \in Nat /\ DOMAIN q = 1..Len(q)  BY LenProperties DEF Lists
<1>2. \A i \in 1..Len(q) : q[i] \in S  BY <1>1, ElementOfSeq
<1>3. p = [i \in 1..Len(q) |-> [kind |-> kind, id |-> q[i], is |-> f[q[i]]]]
  BY <1>1 DEF Full
<1>4. p \in [1..Len(q) -> R]  BY <1>2, <1>3
<1>5. p \in Seq(R) /\ Len(p) = Len(q)
  <2> HIDE DEF p, R
  <2> QED  BY <1>1, <1>4, SeqDef, LenProperties
<1>6. \A i \in 1..Len(q) : p[i] = [kind |-> kind, id |-> q[i], is |-> f[q[i]]]  BY <1>3
<1> HIDE DEF p
<1>7. \A i, j \in 1..Len(p) : p[i] = p[j] => i = j
  <2> SUFFICES ASSUME NEW i \in 1..Len(p), NEW j \in 1..Len(p), p[i] = p[j] PROVE i = j
    OBVIOUS
  <2>1. i \in 1..Len(q) /\ j \in 1..Len(q)  BY <1>5
  <2>2. p[i] = [kind |-> kind, id |-> q[i], is |-> f[q[i]]] /\ p[j] = [kind |-> kind, id |-> q[j], is |-> f[q[j]]]
    BY <1>6, <2>1
  <2>3. p[i] = p[j]  OBVIOUS
  <2>4. \A x : [kind |-> kind, id |-> x, is |-> f[x]].id = x  OBVIOUS
  <2>5. q[i] = q[j]  BY <2>2, <2>3, <2>4
  <2> QED  BY <2>1, <2>5 DEF Lists
<1>8. \A x \in R : \E i \in 1..Len(p) : p[i] = x
  BY <1>5, <1>6 DEF Lists
<1> QED  BY <1>5, <1>7, <1>8 DEF Lists, Entries, p

-----------------------------------------------------------------------------
(* The records of a state.                                                 *)

\* What encode_state_records writes of a state: its header and, by kind, the rest.
HeaderOf(s) ==
    [kind |-> "header", incarnation |-> s.incarnation, nextSource |-> s.nextSource,
     nextModule |-> s.nextModule, nextRule |-> s.nextRule]

SourcesOf(s) == Marks("source", s.sources)
ModulesOf(s) == Entries("module", DOMAIN s.modules, s.modules)
PortsOf(s) == Marks("port", s.ports)
AttachmentsOf(s) == Entries("attachment", DOMAIN s.attachments, s.attachments)
ThresholdsOf(s) == Marks("threshold", s.thresholds)
RulesOf(s) == Entries("rule", DOMAIN s.rules, s.rules)

OthersOf(s) ==
    ModulesOf(s) \cup ((PortsOf(s) \cup AttachmentsOf(s)) \cup ThresholdsOf(s)) \cup RulesOf(s)

ContentsOf(s) == SourcesOf(s) \cup OthersOf(s)

\* Each record says what it is.
LEMMA Kinds ==
  ASSUME NEW s
  PROVE  /\ HeaderOf(s).kind = "header"
         /\ \A r \in SourcesOf(s) : r.kind = "source"
         /\ \A r \in ModulesOf(s) : r.kind = "module"
         /\ \A r \in PortsOf(s) : r.kind = "port"
         /\ \A r \in AttachmentsOf(s) : r.kind = "attachment"
         /\ \A r \in ThresholdsOf(s) : r.kind = "threshold"
         /\ \A r \in RulesOf(s) : r.kind = "rule"
BY DEF HeaderOf, SourcesOf, ModulesOf, PortsOf, AttachmentsOf, ThresholdsOf, RulesOf,
       Marks, Entries

\* What a state holds is finite, and its maps are functions.
LEMMA StateFacts ==
  ASSUME NEW s \in States
  PROVE  /\ IsFiniteSet(s.sources) /\ s.sources \in SUBSET Nat
         /\ IsFiniteSet(DOMAIN s.modules) /\ DOMAIN s.modules \in SUBSET Nat
         /\ IsFiniteSet(s.ports) /\ IsFiniteSet(DOMAIN s.attachments)
         /\ IsFiniteSet(s.thresholds)
         /\ IsFiniteSet(DOMAIN s.rules) /\ DOMAIN s.rules \in SUBSET Nat
         /\ s.modules = [x \in DOMAIN s.modules |-> s.modules[x]]
         /\ s.attachments = [x \in DOMAIN s.attachments |-> s.attachments[x]]
         /\ s.rules = [x \in DOMAIN s.rules |-> s.rules[x]]
<1>1. /\ IsFiniteSet(1..MaxSources) /\ IsFiniteSet(1..MaxModules)
      /\ IsFiniteSet(1..MaxRules) /\ IsFiniteSet(Slots)
  BY SnapshotLoadAssumption, FS_Interval
<1>2. PICK D1 \in SUBSET (1..MaxModules) : s.modules \in [D1 -> [source : 1..MaxSources, samples : 0..SampleBudget]]
  BY DEF States, Maps
<1>3. PICK D2 \in SUBSET Slots : s.attachments \in [D2 -> 1..MaxModules]
  BY DEF States, Maps
<1>4. PICK D3 \in SUBSET (1..MaxRules) : s.rules \in [D3 -> 1..MaxSources]
  BY DEF States, Maps
<1>5. /\ s.sources \in SUBSET (1..MaxSources) /\ s.ports \in SUBSET (1..MaxSources)
      /\ s.thresholds \in SUBSET (1..MaxSources)
  BY DEF States
<1>6. /\ DOMAIN s.modules \in SUBSET (1..MaxModules)
      /\ DOMAIN s.attachments \in SUBSET Slots
      /\ DOMAIN s.rules \in SUBSET (1..MaxRules)
  BY <1>2, <1>3, <1>4
<1>7. \A n : 1..n \in SUBSET Nat  OBVIOUS
<1>8. /\ s.modules = [x \in DOMAIN s.modules |-> s.modules[x]]
      /\ s.attachments = [x \in DOMAIN s.attachments |-> s.attachments[x]]
      /\ s.rules = [x \in DOMAIN s.rules |-> s.rules[x]]
  BY <1>2, <1>3, <1>4
<1>9. /\ IsFiniteSet(s.sources) /\ IsFiniteSet(DOMAIN s.modules) /\ IsFiniteSet(s.ports)
      /\ IsFiniteSet(DOMAIN s.attachments) /\ IsFiniteSet(s.thresholds)
      /\ IsFiniteSet(DOMAIN s.rules)
  BY <1>1, <1>5, <1>6, FS_Subset
<1>10. /\ s.sources \in SUBSET Nat /\ DOMAIN s.modules \in SUBSET Nat
       /\ DOMAIN s.rules \in SUBSET Nat
  BY <1>5, <1>6
<1> QED  BY <1>8, <1>9, <1>10

\* encode_state_records writes each record of a state once: the header, then the
\* sources, then the others.
LEMMA EncodedFacts ==
  ASSUME NEW s \in States
  PROVE  /\ Lists(Encoded(s), {HeaderOf(s)} \cup ContentsOf(s))
         /\ Len(Encoded(s)) \in Nat /\ 1 <= Len(Encoded(s)) /\ Encoded(s)[1] = HeaderOf(s)
         /\ \A i \in 2..Len(Encoded(s)) : Encoded(s)[i] \in ContentsOf(s)
         /\ \E k \in 1..Len(Encoded(s)) :
               /\ \A i \in 2..k : Encoded(s)[i] \in SourcesOf(s)
               /\ \A i \in k + 1..Len(Encoded(s)) : Encoded(s)[i] \in OthersOf(s)
<1> DEFINE h == HeaderRecord(s)  a == SourceRecords(s)  m == ModuleRecords(s)
           o == OtherRecords(s)  r == RuleRecords(s)
<1>1. h = <<HeaderOf(s)>> /\ Lists(h, {HeaderOf(s)})
  <2>1. h = <<HeaderOf(s)>>  BY DEF HeaderRecord, HeaderOf
  <2> HIDE DEF h
  <2> QED  BY <2>1 DEF Lists
<1>2. Lists(a, SourcesOf(s))
  <2>1. Lists(Ascending(s.sources), s.sources)  BY StateFacts, AscendingLists
  <2>2. Lists(Bare("source", Ascending(s.sources)),
              Marks("source", s.sources))
    BY <2>1, BareLists
  <2> QED  BY <2>2 DEF SourceRecords, SourcesOf
<1>3. Lists(m, ModulesOf(s))
  <2>1. Lists(Ascending(DOMAIN s.modules), DOMAIN s.modules)  BY StateFacts, AscendingLists
  <2>2. Lists(Full("module", Ascending(DOMAIN s.modules), s.modules),
              Entries("module", DOMAIN s.modules, s.modules))
    BY <2>1, FullLists
  <2> QED  BY <2>2 DEF ModuleRecords, ModulesOf
<1>4. Lists(r, RulesOf(s))
  <2>1. Lists(Ascending(DOMAIN s.rules), DOMAIN s.rules)  BY StateFacts, AscendingLists
  <2>2. Lists(Full("rule", Ascending(DOMAIN s.rules), s.rules),
              Entries("rule", DOMAIN s.rules, s.rules))
    BY <2>1, FullLists
  <2> QED  BY <2>2 DEF RuleRecords, RulesOf
<1>5. Lists(o, (PortsOf(s) \cup AttachmentsOf(s)) \cup ThresholdsOf(s))
  <2> DEFINE p == Bare("port", SetToSeq(s.ports))
             t == Full("attachment", SetToSeq(DOMAIN s.attachments), s.attachments)
             e == Bare("threshold", SetToSeq(s.thresholds))
  <2>0. /\ Lists(SetToSeq(s.ports), s.ports)
        /\ Lists(SetToSeq(DOMAIN s.attachments), DOMAIN s.attachments)
        /\ Lists(SetToSeq(s.thresholds), s.thresholds)
    BY StateFacts, SetToSeqLists
  <2>1. Lists(p, PortsOf(s))
    <3>1. Lists(p, Marks("port", s.ports))  BY <2>0, BareLists
    <3> QED  BY <3>1 DEF PortsOf
  <2>2. Lists(t, AttachmentsOf(s))
    <3>1. Lists(t, Entries("attachment", DOMAIN s.attachments, s.attachments))
      BY <2>0, FullLists
    <3> QED  BY <3>1 DEF AttachmentsOf
  <2>3. Lists(e, ThresholdsOf(s))
    <3>1. Lists(e, Marks("threshold", s.thresholds))  BY <2>0, BareLists
    <3> QED  BY <3>1 DEF ThresholdsOf
  <2>4. /\ PortsOf(s) \cap AttachmentsOf(s) = {}
        /\ (PortsOf(s) \cup AttachmentsOf(s)) \cap ThresholdsOf(s) = {}
    BY Kinds
  <2>5. o = (p \o t) \o e  BY DEF OtherRecords
  <2> HIDE DEF p, t, e, o
  <2>6. Lists(p \o t, PortsOf(s) \cup AttachmentsOf(s))  BY <2>1, <2>2, <2>4, ListsConcat
  <2>7. Lists((p \o t) \o e, (PortsOf(s) \cup AttachmentsOf(s)) \cup ThresholdsOf(s))
    BY <2>3, <2>4, <2>6, ListsConcat
  <2> QED  BY <2>5, <2>7
<1> DEFINE O == (PortsOf(s) \cup AttachmentsOf(s)) \cup ThresholdsOf(s)
           P1 == {HeaderOf(s)} \cup SourcesOf(s)
           P2 == P1 \cup ModulesOf(s)
           P3 == P2 \cup O
           P4 == P3 \cup RulesOf(s)
<1>6. /\ {HeaderOf(s)} \cap SourcesOf(s) = {}
      /\ P1 \cap ModulesOf(s) = {} /\ P2 \cap O = {} /\ P3 \cap RulesOf(s) = {}
  BY Kinds
<1>7. P4 = {HeaderOf(s)} \cup ContentsOf(s) /\ P4 = P1 \cup OthersOf(s)
  BY DEF ContentsOf, OthersOf
<1>8. Encoded(s) = (((h \o a) \o m) \o o) \o r  BY DEF Encoded
<1>9. Lists(o, O)  BY <1>5
<1> HIDE DEF h, a, m, o, r, O
<1> DEFINE q1 == h \o a  q2 == q1 \o m  q3 == q2 \o o  q4 == q3 \o r
<1>10. /\ Lists(q1, P1) /\ Len(h) <= Len(q1) /\ \A i \in 1..Len(h) : q1[i] = h[i]
  BY <1>1, <1>2, <1>6, ListsConcat
<1> HIDE DEF q1, P1
<1>11. /\ Lists(q2, P2) /\ Len(q1) <= Len(q2) /\ \A i \in 1..Len(q1) : q2[i] = q1[i]
  BY <1>3, <1>6, <1>10, ListsConcat
<1> HIDE DEF q2, P2
<1>12. /\ Lists(q3, P3) /\ Len(q2) <= Len(q3) /\ \A i \in 1..Len(q2) : q3[i] = q2[i]
  BY <1>6, <1>9, <1>11, ListsConcat
<1> HIDE DEF q3, P3
<1>13. /\ Lists(q4, P4) /\ Len(q3) <= Len(q4) /\ \A i \in 1..Len(q3) : q4[i] = q3[i]
  BY <1>4, <1>6, <1>12, ListsConcat
<1>14. Encoded(s) = q4  BY <1>8 DEF q1, q2, q3
<1> HIDE DEF q4, P4
<1>15. /\ Len(h) \in Nat /\ Len(q1) \in Nat /\ Len(q2) \in Nat /\ Len(q3) \in Nat
       /\ Len(q4) \in Nat
  BY <1>1, <1>10, <1>11, <1>12, <1>13, LenProperties DEF Lists
<1>16. Len(h) = 1 /\ h[1] = HeaderOf(s)  BY <1>1
<1>17. Len(q1) <= Len(q4) /\ \A i \in 1..Len(q1) : q4[i] = q1[i]
  <2>1. \A i \in 1..Len(q1) : i \in 1..Len(q2) /\ i \in 1..Len(q3)
    BY <1>11, <1>12, <1>15
  <2> QED  BY <1>11, <1>12, <1>13, <1>15, <2>1
<1>18. 1 <= Len(q1) /\ q4[1] = HeaderOf(s)
  BY <1>10, <1>15, <1>16, <1>17
<1>19. ASSUME NEW i \in 2..Len(q4)
       PROVE  /\ q4[i] \in ContentsOf(s)
              /\ i <= Len(q1) => q4[i] \in SourcesOf(s)
              /\ i > Len(q1) => q4[i] \in OthersOf(s)
  <2>1. i \in 1..Len(q4) /\ 1 \in 1..Len(q4) /\ i # 1  BY <1>15
  <2>2. q4[i] \in P4 /\ q4[i] # HeaderOf(s)
    <3>1. q4 \in Seq(P4)  BY <1>13 DEF Lists
    <3>2. q4[i] \in P4  BY <2>1, <3>1, ElementOfSeq
    <3>3. q4[i] # q4[1]  BY <1>13, <2>1 DEF Lists
    <3> QED  BY <1>18, <3>2, <3>3
  <2>3. ASSUME i <= Len(q1) PROVE q4[i] \in P1
    <3>1. i \in 1..Len(q1) /\ q1 \in Seq(P1)  BY <1>10, <1>15, <2>1, <2>3 DEF Lists
    <3>2. q1[i] \in P1  BY <3>1, ElementOfSeq
    <3> QED  BY <1>17, <3>1, <3>2
  <2>4. ASSUME i > Len(q1) PROVE q4[i] \notin P1
    <3> SUFFICES ASSUME q4[i] \in P1 PROVE FALSE  OBVIOUS
    <3>1. PICK j \in 1..Len(q1) : q1[j] = q4[i]  BY <1>10 DEF Lists
    <3>2. j \in 1..Len(q4) /\ q4[j] = q4[i]  BY <1>15, <1>17, <3>1
    <3>3. j = i  BY <1>13, <2>1, <3>2 DEF Lists
    <3> QED  BY <1>15, <2>4, <3>3
  <2> QED  BY <1>7, <2>2, <2>3, <2>4 DEF P1
<1>20. Len(q1) \in 1..Len(q4)  BY <1>15, <1>17, <1>18
<1>21. /\ \A i \in 2..Len(q1) : q4[i] \in SourcesOf(s)
       /\ \A i \in Len(q1) + 1..Len(q4) : q4[i] \in OthersOf(s)
  <2>1. ASSUME NEW i \in 2..Len(q1) PROVE q4[i] \in SourcesOf(s)
    <3>1. i \in 2..Len(q4) /\ i <= Len(q1)  BY <1>15, <1>17
    <3> QED  BY <1>19, <3>1
  <2>2. ASSUME NEW i \in Len(q1) + 1..Len(q4) PROVE q4[i] \in OthersOf(s)
    <3>1. i \in 2..Len(q4) /\ i > Len(q1)  BY <1>15, <1>18
    <3> QED  BY <1>19, <3>1
  <2> QED  BY <2>1, <2>2
<1>22. Lists(Encoded(s), {HeaderOf(s)} \cup ContentsOf(s))  BY <1>7, <1>13, <1>14
<1>23. Len(Encoded(s)) \in Nat /\ 1 <= Len(Encoded(s)) /\ Encoded(s)[1] = HeaderOf(s)
  BY <1>14, <1>15, <1>17, <1>18
<1>24. \A i \in 2..Len(Encoded(s)) : Encoded(s)[i] \in ContentsOf(s)
  BY <1>14, <1>19, Zenon
<1>25. \E k \in 1..Len(Encoded(s)) :
          /\ \A i \in 2..k : Encoded(s)[i] \in SourcesOf(s)
          /\ \A i \in k + 1..Len(Encoded(s)) : Encoded(s)[i] \in OthersOf(s)
  BY <1>14, <1>20, <1>21, Zenon
<1> QED  BY <1>22, <1>23, <1>24, <1>25

-----------------------------------------------------------------------------
(* What is read of them.                                                   *)

\* The part of a state that some of its records tell of.
Kept(kind, ids, seen) == {x \in ids : \E r \in seen : r.kind = kind /\ r.id = x}

PartOf(s, seen) ==
    [generation |-> s.generation, incarnation |-> s.incarnation,
     nextSource |-> s.nextSource, nextModule |-> s.nextModule, nextRule |-> s.nextRule,
     sources |-> Kept("source", s.sources, seen),
     modules |-> Restrict(s.modules, Kept("module", DOMAIN s.modules, seen)),
     ports |-> Kept("port", s.ports, seen),
     attachments |-> Restrict(s.attachments, Kept("attachment", DOMAIN s.attachments, seen)),
     thresholds |-> Kept("threshold", s.thresholds, seen),
     rules |-> Restrict(s.rules, Kept("rule", DOMAIN s.rules, seen))]

\* A registry with nothing in it, of some generation.
Bottom(g) ==
    [generation |-> g, incarnation |-> 1, nextSource |-> 1, nextModule |-> 1, nextRule |-> 1,
     sources |-> {}, modules |-> <<>>, ports |-> {}, attachments |-> <<>>,
     thresholds |-> {}, rules |-> <<>>]

\* The records of a kind among some.
OnlyKind(seen, kind) == {r \in seen : r.kind = kind}

\* The records of a kind among those of a state.
LEMMA SeenOfKind ==
  ASSUME NEW s, NEW seen \in SUBSET ContentsOf(s)
  PROVE  /\ OnlyKind(seen, "source") \subseteq SourcesOf(s)
         /\ OnlyKind(seen, "module") \subseteq ModulesOf(s)
         /\ OnlyKind(seen, "port") \subseteq PortsOf(s)
         /\ OnlyKind(seen, "attachment") \subseteq AttachmentsOf(s)
         /\ OnlyKind(seen, "threshold") \subseteq ThresholdsOf(s)
         /\ OnlyKind(seen, "rule") \subseteq RulesOf(s)
BY Kinds DEF ContentsOf, OthersOf, OnlyKind

\* A record without contents that was seen is one of the state's, and its id is kept.
LEMMA KeptBare ==
  ASSUME NEW kind, NEW ids, NEW seen,
         OnlyKind(seen, kind) \subseteq Marks(kind, ids)
  PROVE  /\ Kept(kind, ids, seen) = Ids(OnlyKind(seen, kind))
         /\ OnlyKind(seen, kind) = Marks(kind, Kept(kind, ids, seen))
<1>1. \A r \in seen : r.kind = kind => r.id \in ids /\ r = [kind |-> kind, id |-> r.id]
  <2> SUFFICES ASSUME NEW r \in seen, r.kind = kind
               PROVE  r.id \in ids /\ r = [kind |-> kind, id |-> r.id]
    OBVIOUS
  <2>1. PICK x \in ids : r = [kind |-> kind, id |-> x]  BY DEF OnlyKind, Marks
  <2>2. r.id = x  BY <2>1
  <2> QED  BY <2>1, <2>2
<1>2. Kept(kind, ids, seen) = Ids({r \in seen : r.kind = kind})
  BY <1>1 DEF Kept, Ids
<1>3. ASSUME NEW x \in Kept(kind, ids, seen) PROVE [kind |-> kind, id |-> x] \in seen
  <2>1. PICK r \in seen : r.kind = kind /\ r.id = x  BY DEF Kept
  <2> QED  BY <1>1, <2>1
<1>4. \A x : [kind |-> kind, id |-> x].kind = kind  OBVIOUS
<1>5. {r \in seen : r.kind = kind} \subseteq {[kind |-> kind, id |-> x] : x \in Kept(kind, ids, seen)}
  <2> SUFFICES ASSUME NEW r \in seen, r.kind = kind
               PROVE  \E x \in Kept(kind, ids, seen) : r = [kind |-> kind, id |-> x]
    OBVIOUS
  <2>1. r.id \in Kept(kind, ids, seen)  BY <1>1 DEF Kept
  <2> QED  BY <1>1, <2>1
<1>6. {[kind |-> kind, id |-> x] : x \in Kept(kind, ids, seen)} \subseteq {r \in seen : r.kind = kind}
  BY <1>3, <1>4
<1> QED  BY <1>2, <1>5, <1>6 DEF Marks, OnlyKind

\* The same for a record with contents, which are those of the state.
LEMMA KeptFull ==
  ASSUME NEW kind, NEW ids, NEW f, NEW seen,
         OnlyKind(seen, kind) \subseteq Entries(kind, ids, f)
  PROVE  /\ Kept(kind, ids, seen) = Ids(OnlyKind(seen, kind))
         /\ OnlyKind(seen, kind) = Entries(kind, Kept(kind, ids, seen), f)
         /\ Contents(OnlyKind(seen, kind)) = Restrict(f, Kept(kind, ids, seen))
<1> DEFINE read == {r \in seen : r.kind = kind}
<1>1. \A r \in seen : r.kind = kind =>
         r.id \in ids /\ r = [kind |-> kind, id |-> r.id, is |-> f[r.id]] /\ r.is = f[r.id]
  <2> SUFFICES ASSUME NEW r \in seen, r.kind = kind
               PROVE  /\ r.id \in ids /\ r = [kind |-> kind, id |-> r.id, is |-> f[r.id]]
                      /\ r.is = f[r.id]
    OBVIOUS
  <2>1. PICK x \in ids : r = [kind |-> kind, id |-> x, is |-> f[x]]  BY DEF OnlyKind, Entries
  <2>2. r.id = x /\ r.is = f[x]  BY <2>1
  <2> QED  BY <2>1, <2>2
<1>2. Kept(kind, ids, seen) = Ids(read)
  BY <1>1 DEF Kept, Ids
<1>3. ASSUME NEW x \in Kept(kind, ids, seen) PROVE [kind |-> kind, id |-> x, is |-> f[x]] \in seen
  <2>1. PICK r \in seen : r.kind = kind /\ r.id = x  BY DEF Kept
  <2> QED  BY <1>1, <2>1
<1>4. \A x : [kind |-> kind, id |-> x, is |-> f[x]].kind = kind  OBVIOUS
<1>5. read \subseteq {[kind |-> kind, id |-> x, is |-> f[x]] : x \in Kept(kind, ids, seen)}
  <2> SUFFICES ASSUME NEW r \in seen, r.kind = kind
               PROVE  \E x \in Kept(kind, ids, seen) : r = [kind |-> kind, id |-> x, is |-> f[x]]
    OBVIOUS
  <2>1. r.id \in Kept(kind, ids, seen)  BY <1>1 DEF Kept
  <2> QED  BY <1>1, <2>1
<1>6. {[kind |-> kind, id |-> x, is |-> f[x]] : x \in Kept(kind, ids, seen)} \subseteq read
  BY <1>3, <1>4
<1>7. ASSUME NEW x \in Kept(kind, ids, seen) PROVE (CHOOSE r \in read : r.id = x).is = f[x]
  <2>1. \E r \in read : r.id = x  BY DEF Kept
  <2> DEFINE c == CHOOSE r \in read : r.id = x
  <2>2. c \in read /\ c.id = x  BY <2>1
  <2> HIDE DEF c
  <2>3. c.is = f[x]  BY <1>1, <2>2
  <2> QED  BY <2>3 DEF c
<1>8. [x \in Kept(kind, ids, seen) |-> (CHOOSE r \in read : r.id = x).is] =
         Restrict(f, Kept(kind, ids, seen))
  <2> HIDE DEF read
  <2> QED  BY <1>7 DEF Restrict
<1>9. Contents(read) = Restrict(f, Kept(kind, ids, seen))
  <2> DEFINE ks == Kept(kind, ids, seen)
  <2> HIDE DEF read
  <2>1. Ids(read) = ks  BY <1>2
  <2>2. [x \in ks |-> (CHOOSE r \in read : r.id = x).is] = Restrict(f, ks)  BY <1>8
  <2> HIDE DEF ks
  <2> QED  BY <2>1, <2>2 DEF ks, Contents
<1>10. read = OnlyKind(seen, kind)  BY DEF OnlyKind
<1> HIDE DEF read
<1>11. read = Entries(kind, Kept(kind, ids, seen), f)  BY <1>5, <1>6 DEF Entries
<1> QED  BY <1>2, <1>9, <1>10, <1>11

\* What parse_snapshot makes of the header and some of the records after it.
LEMMA DecodedPart ==
  ASSUME NEW s \in States, NEW n \in 1..Len(Encoded(s))
  PROVE  Decoded(s.generation, SubSeq(Encoded(s), 1, n)) =
            PartOf(s, {Encoded(s)[i] : i \in 2..n})
<1> DEFINE E == Encoded(s)  q == SubSeq(E, 1, n)  seen == {E[i] : i \in 2..n}
<1>1. /\ E \in Seq({HeaderOf(s)} \cup ContentsOf(s)) /\ Len(E) \in Nat /\ E[1] = HeaderOf(s)
      /\ \A i \in 2..Len(E) : E[i] \in ContentsOf(s)
  BY EncodedFacts DEF Lists
<1>2. n \in Nat /\ 1 <= n /\ n <= Len(E)  BY <1>1
<1> HIDE DEF E
<1>3. Len(q) = n /\ DOMAIN q = 1..n /\ \A i \in 1..n : q[i] = E[i]
  <2>1. \A i \in 1..n : E[i] \in {HeaderOf(s)} \cup ContentsOf(s)
    <3>1. \A i \in 1..n : i \in 1..Len(E)  BY <1>1, <1>2
    <3> QED  BY <1>1, <3>1, ElementOfSeq
  <2>2. /\ q \in Seq({HeaderOf(s)} \cup ContentsOf(s)) /\ Len(q) = n - 1 + 1
        /\ \A i \in 1..n - 1 + 1 : q[i] = E[1 + i - 1]
    <3> HIDE DEF q
    <3>1. 1 \in Int /\ n \in Int /\ 1 <= n  BY <1>2
    <3> QED  BY <2>1, <3>1, SubSeqProperties DEF q
  <2>3. Len(q) = n /\ \A i \in 1..n : q[i] = E[i]
    <3> HIDE DEF q
    <3> QED  BY <1>2, <2>2
  <2> HIDE DEF q
  <2> QED  BY <2>2, <2>3, LenProperties
<1> HIDE DEF q
<1>4. seen \in SUBSET ContentsOf(s)
  <2>1. \A i \in 2..n : i \in 2..Len(E)  BY <1>1, <1>2
  <2> QED  BY <1>1, <2>1
<1>5. {0} \cup {i \in DOMAIN q : q[i].kind = "header"} = {0, 1}
  <2>1. q[1].kind = "header" /\ 1 \in DOMAIN q  BY <1>1, <1>2, <1>3, Kinds
  <2>2. ASSUME NEW i \in DOMAIN q, i # 1 PROVE q[i].kind # "header"
    <3>1. i \in 2..n /\ q[i] = E[i]  BY <1>2, <1>3, <2>2
    <3>2. q[i] \in ContentsOf(s)  BY <1>4, <3>1
    <3> QED  BY <3>2, Kinds DEF ContentsOf, OthersOf
  <2> QED  BY <2>1, <2>2
<1>6. LastHeader(q) = 1
  <2>1. Max({0, 1}) = 1
    <3>1. \A y \in {0, 1} : 1 >= y  OBVIOUS
    <3>2. \A x \in {0, 1} : (\A y \in {0, 1} : x >= y) => x = 1  OBVIOUS
    <3> QED  BY <3>1, <3>2 DEF Max
  <2> QED  BY <1>5, <2>1 DEF LastHeader
<1>7. q[1] = HeaderOf(s)  BY <1>1, <1>2, <1>3
<1>8. ASSUME NEW kind PROVE OfKind(q, kind) = OnlyKind(seen, kind)
  <2>1. 1 + 1 = 2 /\ Len(q) = n /\ \A i \in 2..n : q[i] = E[i]  BY <1>2, <1>3
  <2>2. OfKind(q, kind) = {q[i] : i \in {j \in 2..n : q[j].kind = kind}}
    BY <1>6, <2>1 DEF OfKind
  <2> QED  BY <2>1, <2>2 DEF OnlyKind
<1>9. Decoded(s.generation, q) =
        [generation |-> s.generation, incarnation |-> q[1].incarnation,
         nextSource |-> q[1].nextSource, nextModule |-> q[1].nextModule,
         nextRule |-> q[1].nextRule,
         sources |-> Ids(OfKind(q, "source")),
         modules |-> Contents(OfKind(q, "module")),
         ports |-> Ids(OfKind(q, "port")),
         attachments |-> Contents(OfKind(q, "attachment")),
         thresholds |-> Ids(OfKind(q, "threshold")),
         rules |-> Contents(OfKind(q, "rule"))]
  BY <1>6 DEF Decoded
<1>10. /\ Ids(OfKind(q, "source")) = Kept("source", s.sources, seen)
       /\ Ids(OfKind(q, "port")) = Kept("port", s.ports, seen)
       /\ Ids(OfKind(q, "threshold")) = Kept("threshold", s.thresholds, seen)
  <2>1. /\ OfKind(q, "source") \subseteq Marks("source", s.sources)
        /\ OfKind(q, "port") \subseteq Marks("port", s.ports)
        /\ OfKind(q, "threshold") \subseteq
              Marks("threshold", s.thresholds)
    BY <1>4, <1>8, SeenOfKind DEF SourcesOf, PortsOf, ThresholdsOf
  <2> HIDE DEF seen
  <2> QED  BY <1>8, <2>1, KeptBare
<1>11. /\ Contents(OfKind(q, "module")) =
             Restrict(s.modules, Kept("module", DOMAIN s.modules, seen))
       /\ Contents(OfKind(q, "attachment")) =
             Restrict(s.attachments, Kept("attachment", DOMAIN s.attachments, seen))
       /\ Contents(OfKind(q, "rule")) =
             Restrict(s.rules, Kept("rule", DOMAIN s.rules, seen))
  <2>1. /\ OfKind(q, "module") \subseteq
              Entries("module", DOMAIN s.modules, s.modules)
        /\ OfKind(q, "attachment") \subseteq
              Entries("attachment", DOMAIN s.attachments, s.attachments)
        /\ OfKind(q, "rule") \subseteq
              Entries("rule", DOMAIN s.rules, s.rules)
    BY <1>4, <1>8, SeenOfKind DEF ModulesOf, AttachmentsOf, RulesOf
  <2> HIDE DEF seen
  <2> QED  BY <1>8, <2>1, KeptFull
<1>12. /\ HeaderOf(s).incarnation = s.incarnation /\ HeaderOf(s).nextSource = s.nextSource
       /\ HeaderOf(s).nextModule = s.nextModule /\ HeaderOf(s).nextRule = s.nextRule
  BY DEF HeaderOf
<1> HIDE DEF seen
<1>13. Decoded(s.generation, q) = PartOf(s, seen)
  BY <1>7, <1>9, <1>10, <1>11, <1>12 DEF PartOf
<1> QED  BY <1>13 DEF q, seen, E

\* Of a file with no readable record it makes an empty registry.
LEMMA DecodedNone ==
  ASSUME NEW g, NEW E
  PROVE  Decoded(g, SubSeq(E, 1, 0)) = Bottom(g)
<1>1. SubSeq(E, 1, 0) = <<>>  OBVIOUS
<1>2. LastHeader(<<>>) = 0
  <2>1. {0} \cup {i \in DOMAIN <<>> : <<>>[i].kind = "header"} = {0}  OBVIOUS
  <2>2. Max({0}) = 0  BY DEF Max
  <2> QED  BY <2>1, <2>2 DEF LastHeader
<1>3. ASSUME NEW kind PROVE OfKind(<<>>, kind) = {}
  BY <1>2 DEF OfKind
<1>4. Ids({}) = {} /\ Contents({}) = <<>>
  BY DEF Ids, Contents
<1>5. HeaderRecord(Empty)[1].incarnation = 1 /\ HeaderRecord(Empty)[1].nextSource = 1
      /\ HeaderRecord(Empty)[1].nextModule = 1 /\ HeaderRecord(Empty)[1].nextRule = 1
  BY DEF HeaderRecord, Empty
<1>6. Decoded(g, <<>>) = Bottom(g)
  BY <1>2, <1>3, <1>4, <1>5 DEF Decoded, Bottom
<1> QED  BY <1>1, <1>6, Zenon

\* A map restricted, a map with an entry more and the empty map are maps.
LEMMA MapsRestrict ==
  ASSUME NEW S, NEW T, NEW f \in Maps(S, T), NEW D \in SUBSET DOMAIN f
  PROVE  Restrict(f, D) \in Maps(S, T)
<1>1. PICK D1 \in SUBSET S : f \in [D1 -> T]  BY DEF Maps
<1>2. Restrict(f, D) \in [D -> T] /\ D \in SUBSET S  BY <1>1 DEF Restrict
<1> QED  BY <1>2 DEF Maps

LEMMA MapsWith ==
  ASSUME NEW S, NEW T, NEW f \in Maps(S, T), NEW x \in S, NEW y \in T
  PROVE  With(f, x, y) \in Maps(S, T)
<1>1. PICK D1 \in SUBSET S : f \in [D1 -> T]  BY DEF Maps
<1>2. With(f, x, y) \in [D1 \cup {x} -> T]  BY <1>1 DEF With
<1>3. D1 \cup {x} \in SUBSET S  OBVIOUS
<1> QED  BY <1>2, <1>3 DEF Maps

LEMMA MapsEmpty ==
  ASSUME NEW S, NEW T
  PROVE  <<>> \in Maps(S, T)
<1>1. <<>> \in [{} -> T]  OBVIOUS
<1> QED  BY <1>1 DEF Maps

\* The parts of a state, one by one.
LEMMA StateParts ==
  ASSUME NEW s
  PROVE  s \in States <=>
           /\ s = [generation |-> s.generation, incarnation |-> s.incarnation,
                   nextSource |-> s.nextSource, nextModule |-> s.nextModule,
                   nextRule |-> s.nextRule, sources |-> s.sources, modules |-> s.modules,
                   ports |-> s.ports, attachments |-> s.attachments,
                   thresholds |-> s.thresholds, rules |-> s.rules]
           /\ s.generation \in Nat /\ s.incarnation \in Nat
           /\ s.nextSource \in 1..MaxSources + 1 /\ s.nextModule \in 1..MaxModules + 1
           /\ s.nextRule \in 1..MaxRules + 1
           /\ s.sources \in SUBSET (1..MaxSources)
           /\ s.modules \in Maps(1..MaxModules, [source : 1..MaxSources, samples : 0..SampleBudget])
           /\ s.ports \in SUBSET (1..MaxSources)
           /\ s.attachments \in Maps(Slots, 1..MaxModules)
           /\ s.thresholds \in SUBSET (1..MaxSources)
           /\ s.rules \in Maps(1..MaxRules, 1..MaxSources)
BY DEF States

\* An empty registry is sound.
LEMMA BottomSound ==
  ASSUME NEW g \in Nat
  PROVE  /\ Bottom(g) \in States /\ Sourced(Bottom(g)) /\ Attached(Bottom(g)) /\ Ahead(Bottom(g))
         /\ ContentsOf(Bottom(g)) = {}
<1> DEFINE b == Bottom(g)
<1>1. /\ b.generation = g /\ b.incarnation = 1 /\ b.nextSource = 1 /\ b.nextModule = 1
      /\ b.nextRule = 1 /\ b.sources = {} /\ b.modules = <<>> /\ b.ports = {}
      /\ b.attachments = <<>> /\ b.thresholds = {} /\ b.rules = <<>>
  BY DEF Bottom
<1>2. b = [generation |-> b.generation, incarnation |-> b.incarnation,
           nextSource |-> b.nextSource, nextModule |-> b.nextModule,
           nextRule |-> b.nextRule, sources |-> b.sources, modules |-> b.modules,
           ports |-> b.ports, attachments |-> b.attachments,
           thresholds |-> b.thresholds, rules |-> b.rules]
  BY DEF Bottom
<1> HIDE DEF b
<1>3. 1 \in 1..MaxSources + 1 /\ 1 \in 1..MaxModules + 1 /\ 1 \in 1..MaxRules + 1
  BY SnapshotLoadAssumption
<1>4. b \in States
  BY <1>1, <1>2, <1>3, MapsEmpty, StateParts
<1>5. DOMAIN <<>> = {} /\ Range(<<>>) = {}  BY DEF Range
<1>6. Sourced(b) /\ Attached(b) /\ Ahead(b)
  BY <1>1, <1>5 DEF Sourced, Attached, Ahead
<1>7. \A kind, f : Marks(kind, {}) = {} /\ Entries(kind, {}, f) = {}
  BY DEF Marks, Entries
<1>8. ContentsOf(b) = {}
  BY <1>1, <1>5, <1>7 DEF ContentsOf, OthersOf, SourcesOf, ModulesOf, PortsOf, AttachmentsOf,
     ThresholdsOf, RulesOf
<1> QED  BY <1>4, <1>6, <1>8 DEF b

\* What a part of a state holds.
LEMMA PartFields ==
  ASSUME NEW s, NEW seen
  PROVE  LET p == PartOf(s, seen)
         IN  /\ p.generation = s.generation /\ p.incarnation = s.incarnation
             /\ p.nextSource = s.nextSource /\ p.nextModule = s.nextModule
             /\ p.nextRule = s.nextRule
             /\ p.sources = Kept("source", s.sources, seen)
             /\ p.modules = Restrict(s.modules, Kept("module", DOMAIN s.modules, seen))
             /\ p.ports = Kept("port", s.ports, seen)
             /\ p.attachments =
                   Restrict(s.attachments, Kept("attachment", DOMAIN s.attachments, seen))
             /\ p.thresholds = Kept("threshold", s.thresholds, seen)
             /\ p.rules = Restrict(s.rules, Kept("rule", DOMAIN s.rules, seen))
             /\ p = [generation |-> p.generation, incarnation |-> p.incarnation,
                     nextSource |-> p.nextSource, nextModule |-> p.nextModule,
                     nextRule |-> p.nextRule, sources |-> p.sources, modules |-> p.modules,
                     ports |-> p.ports, attachments |-> p.attachments,
                     thresholds |-> p.thresholds, rules |-> p.rules]
BY DEF PartOf

\* What is kept of some ids is among them.
LEMMA KeptIn ==
  ASSUME NEW kind, NEW ids, NEW seen
  PROVE  Kept(kind, ids, seen) \in SUBSET ids
BY DEF Kept

\* It is a state, its counters are ahead if they were, its records are those it was
\* made from, and of all of the records it is the state itself.
LEMMA PartFacts ==
  ASSUME NEW s \in States, NEW seen \in SUBSET ContentsOf(s)
  PROVE  /\ PartOf(s, seen) \in States
         /\ Ahead(s) => Ahead(PartOf(s, seen))
         /\ ContentsOf(PartOf(s, seen)) = seen
         /\ seen = ContentsOf(s) => PartOf(s, seen) = s
<1> DEFINE p == PartOf(s, seen)
           ks == Kept("source", s.sources, seen)
           km == Kept("module", DOMAIN s.modules, seen)
           kp == Kept("port", s.ports, seen)
           ka == Kept("attachment", DOMAIN s.attachments, seen)
           kt == Kept("threshold", s.thresholds, seen)
           kr == Kept("rule", DOMAIN s.rules, seen)
<1>1. /\ p.generation = s.generation /\ p.incarnation = s.incarnation
      /\ p.nextSource = s.nextSource /\ p.nextModule = s.nextModule /\ p.nextRule = s.nextRule
      /\ p.sources = ks /\ p.modules = Restrict(s.modules, km) /\ p.ports = kp
      /\ p.attachments = Restrict(s.attachments, ka) /\ p.thresholds = kt
      /\ p.rules = Restrict(s.rules, kr)
  BY PartFields
<1>2. p = [generation |-> p.generation, incarnation |-> p.incarnation,
           nextSource |-> p.nextSource, nextModule |-> p.nextModule,
           nextRule |-> p.nextRule, sources |-> p.sources, modules |-> p.modules,
           ports |-> p.ports, attachments |-> p.attachments,
           thresholds |-> p.thresholds, rules |-> p.rules]
  BY DEF PartOf
<1>3. /\ ks \in SUBSET s.sources /\ km \in SUBSET DOMAIN s.modules /\ kp \in SUBSET s.ports
      /\ ka \in SUBSET DOMAIN s.attachments /\ kt \in SUBSET s.thresholds
      /\ kr \in SUBSET DOMAIN s.rules
  BY KeptIn
<1>4. /\ OnlyKind(seen, "source") = Marks("source", ks)
      /\ OnlyKind(seen, "module") = Entries("module", km, s.modules)
      /\ OnlyKind(seen, "port") = Marks("port", kp)
      /\ OnlyKind(seen, "attachment") = Entries("attachment", ka, s.attachments)
      /\ OnlyKind(seen, "threshold") = Marks("threshold", kt)
      /\ OnlyKind(seen, "rule") = Entries("rule", kr, s.rules)
  <2>1. /\ OnlyKind(seen, "source") \subseteq Marks("source", s.sources)
        /\ OnlyKind(seen, "module") \subseteq Entries("module", DOMAIN s.modules, s.modules)
        /\ OnlyKind(seen, "port") \subseteq Marks("port", s.ports)
        /\ OnlyKind(seen, "attachment") \subseteq
              Entries("attachment", DOMAIN s.attachments, s.attachments)
        /\ OnlyKind(seen, "threshold") \subseteq Marks("threshold", s.thresholds)
        /\ OnlyKind(seen, "rule") \subseteq Entries("rule", DOMAIN s.rules, s.rules)
    BY SeenOfKind DEF SourcesOf, ModulesOf, PortsOf, AttachmentsOf, ThresholdsOf, RulesOf
  <2>2. /\ OnlyKind(seen, "source") = Marks("source", ks)
        /\ OnlyKind(seen, "port") = Marks("port", kp)
        /\ OnlyKind(seen, "threshold") = Marks("threshold", kt)
    BY <2>1, KeptBare
  <2>3. OnlyKind(seen, "module") = Entries("module", km, s.modules)  BY <2>1, KeptFull
  <2>4. OnlyKind(seen, "attachment") = Entries("attachment", ka, s.attachments)
    BY <2>1, KeptFull
  <2>5. OnlyKind(seen, "rule") = Entries("rule", kr, s.rules)  BY <2>1, KeptFull
  <2> QED  BY <2>2, <2>3, <2>4, <2>5
<1>5. \A r \in seen : r.kind \in {"source", "module", "port", "attachment", "threshold", "rule"}
  BY Kinds DEF ContentsOf, OthersOf
<1>6. seen = OnlyKind(seen, "source")
               \cup (OnlyKind(seen, "module") \cup
                     ((OnlyKind(seen, "port") \cup OnlyKind(seen, "attachment"))
                        \cup OnlyKind(seen, "threshold"))
                     \cup OnlyKind(seen, "rule"))
  BY <1>5 DEF OnlyKind
<1>7. \A kind, f, D : Entries(kind, D, Restrict(f, D)) = Entries(kind, D, f)
  BY DEF Entries, Restrict
<1>8. \A f, D : DOMAIN Restrict(f, D) = D  BY DEF Restrict
<1> HIDE DEF p, ks, km, kp, ka, kt, kr
<1>9. p \in States
  <2>1. /\ ks \in SUBSET (1..MaxSources) /\ kp \in SUBSET (1..MaxSources)
        /\ kt \in SUBSET (1..MaxSources)
    BY <1>3, StateParts
  <2>2. /\ p.modules \in Maps(1..MaxModules, [source : 1..MaxSources, samples : 0..SampleBudget])
        /\ p.attachments \in Maps(Slots, 1..MaxModules)
        /\ p.rules \in Maps(1..MaxRules, 1..MaxSources)
    <3>1. /\ s.modules \in Maps(1..MaxModules,
                                [source : 1..MaxSources, samples : 0..SampleBudget])
          /\ s.attachments \in Maps(Slots, 1..MaxModules)
          /\ s.rules \in Maps(1..MaxRules, 1..MaxSources)
      BY StateParts
    <3>2. /\ Restrict(s.modules, km)
                \in Maps(1..MaxModules, [source : 1..MaxSources, samples : 0..SampleBudget])
          /\ Restrict(s.attachments, ka) \in Maps(Slots, 1..MaxModules)
          /\ Restrict(s.rules, kr) \in Maps(1..MaxRules, 1..MaxSources)
      BY <1>3, <3>1, MapsRestrict
    <3> QED  BY <1>1, <3>2
  <2>3. /\ p.generation \in Nat /\ p.incarnation \in Nat
        /\ p.nextSource \in 1..MaxSources + 1 /\ p.nextModule \in 1..MaxModules + 1
        /\ p.nextRule \in 1..MaxRules + 1
    BY <1>1, StateParts
  <2>4. /\ p.sources \in SUBSET (1..MaxSources) /\ p.ports \in SUBSET (1..MaxSources)
        /\ p.thresholds \in SUBSET (1..MaxSources)
    BY <1>1, <2>1
  <2> QED  BY <1>2, <2>2, <2>3, <2>4, StateParts
<1>10. ASSUME Ahead(s) PROVE Ahead(p)
  BY <1>1, <1>3, <1>8, <1>10 DEF Ahead
<1>11. ContentsOf(p) = seen
  <2>1. /\ SourcesOf(p) = OnlyKind(seen, "source") /\ ModulesOf(p) = OnlyKind(seen, "module")
        /\ PortsOf(p) = OnlyKind(seen, "port") /\ AttachmentsOf(p) = OnlyKind(seen, "attachment")
        /\ ThresholdsOf(p) = OnlyKind(seen, "threshold") /\ RulesOf(p) = OnlyKind(seen, "rule")
    BY <1>1, <1>4, <1>7, <1>8
    DEF SourcesOf, ModulesOf, PortsOf, AttachmentsOf, ThresholdsOf, RulesOf
  <2> QED  BY <1>6, <2>1 DEF ContentsOf, OthersOf
<1>12. ASSUME seen = ContentsOf(s) PROVE p = s
  <2>1. /\ Marks("source", s.sources) \subseteq seen
        /\ Entries("module", DOMAIN s.modules, s.modules) \subseteq seen
        /\ Marks("port", s.ports) \subseteq seen
        /\ Entries("attachment", DOMAIN s.attachments, s.attachments) \subseteq seen
        /\ Marks("threshold", s.thresholds) \subseteq seen
        /\ Entries("rule", DOMAIN s.rules, s.rules) \subseteq seen
    BY <1>12 DEF ContentsOf, OthersOf, SourcesOf, ModulesOf, PortsOf, AttachmentsOf,
       ThresholdsOf, RulesOf
  <2>2. \A kind, ids : Marks(kind, ids) \subseteq seen => Kept(kind, ids, seen) = ids
    <3> SUFFICES ASSUME NEW kind, NEW ids, Marks(kind, ids) \subseteq seen, NEW x \in ids
                 PROVE  x \in Kept(kind, ids, seen)
      BY DEF Kept
    <3>1. [kind |-> kind, id |-> x] \in seen  BY DEF Marks
    <3> QED  BY <3>1 DEF Kept
  <2>3. \A kind, ids, f : Entries(kind, ids, f) \subseteq seen => Kept(kind, ids, seen) = ids
    <3> SUFFICES ASSUME NEW kind, NEW ids, NEW f, Entries(kind, ids, f) \subseteq seen, NEW x \in ids
                 PROVE  x \in Kept(kind, ids, seen)
      BY DEF Kept
    <3>1. [kind |-> kind, id |-> x, is |-> f[x]] \in seen  BY DEF Entries
    <3> QED  BY <3>1 DEF Kept
  <2>4. /\ ks = s.sources /\ km = DOMAIN s.modules /\ kp = s.ports
        /\ ka = DOMAIN s.attachments /\ kt = s.thresholds /\ kr = DOMAIN s.rules
    BY <2>1, <2>2, <2>3 DEF ks, km, kp, ka, kt, kr
  <2>5. /\ Restrict(s.modules, DOMAIN s.modules) = s.modules
        /\ Restrict(s.attachments, DOMAIN s.attachments) = s.attachments
        /\ Restrict(s.rules, DOMAIN s.rules) = s.rules
    BY StateFacts DEF Restrict
  <2>6. /\ p.sources = s.sources /\ p.modules = s.modules /\ p.ports = s.ports
        /\ p.attachments = s.attachments /\ p.thresholds = s.thresholds /\ p.rules = s.rules
    BY <1>1, <2>4, <2>5
  <2>7. s = [generation |-> s.generation, incarnation |-> s.incarnation,
             nextSource |-> s.nextSource, nextModule |-> s.nextModule,
             nextRule |-> s.nextRule, sources |-> s.sources, modules |-> s.modules,
             ports |-> s.ports, attachments |-> s.attachments,
             thresholds |-> s.thresholds, rules |-> s.rules]
    BY StateParts
  <2> QED  BY <1>1, <1>2, <2>6, <2>7
<1> QED  BY <1>9, <1>10, <1>11, <1>12 DEF p

\* The records up to some number: of the contents, all of the sources or nothing but
\* sources, and no record that comes later.
LEMMA PrefixFacts ==
  ASSUME NEW s \in States, NEW n \in 1..Len(Encoded(s))
  PROVE  LET E == Encoded(s)
             seen == {E[i] : i \in 2..n}
         IN  /\ seen \in SUBSET ContentsOf(s)
             /\ SourcesOf(s) \subseteq seen \/ seen \subseteq SourcesOf(s)
             /\ \A i \in 2..Len(E) : E[i] \in seen <=> i <= n
             /\ n = Len(E) => seen = ContentsOf(s)
<1> DEFINE E == Encoded(s)  seen == {E[i] : i \in 2..n}
<1>1. /\ Lists(E, {HeaderOf(s)} \cup ContentsOf(s)) /\ Len(E) \in Nat /\ E[1] = HeaderOf(s)
      /\ \A i \in 2..Len(E) : E[i] \in ContentsOf(s)
  BY EncodedFacts
<1>2. PICK k \in 1..Len(E) : /\ \A i \in 2..k : E[i] \in SourcesOf(s)
                             /\ \A i \in k + 1..Len(E) : E[i] \in OthersOf(s)
  BY EncodedFacts
<1>3. n \in 1..Len(E)  OBVIOUS
<1> HIDE DEF E
<1>4. n \in Nat /\ 1 <= n /\ n <= Len(E) /\ k \in Nat /\ 1 <= k /\ k <= Len(E)
  BY <1>1, <1>2, <1>3
<1>5. seen \in SUBSET ContentsOf(s)
  <2>1. \A i \in 2..n : i \in 2..Len(E)  BY <1>1, <1>4
  <2> QED  BY <1>1, <2>1
<1>6. ASSUME NEW x \in ContentsOf(s) PROVE \E i \in 2..Len(E) : E[i] = x
  <2>1. PICK i \in 1..Len(E) : E[i] = x  BY <1>1 DEF Lists
  <2>2. x # HeaderOf(s)  BY Kinds DEF ContentsOf, OthersOf
  <2>3. i \in 2..Len(E)  BY <1>1, <2>1, <2>2
  <2> QED  BY <2>1, <2>3
<1>7. ASSUME NEW i \in 2..Len(E) PROVE E[i] \in seen <=> i <= n
  <2>1. ASSUME i <= n PROVE E[i] \in seen
    <3>1. i \in 2..n  BY <1>1, <1>4, <2>1
    <3> QED  BY <3>1
  <2>2. ASSUME E[i] \in seen PROVE i <= n
    <3>1. PICK j \in 2..n : E[j] = E[i]  BY <2>2
    <3>2. i \in 1..Len(E) /\ j \in 1..Len(E) /\ j <= n  BY <1>1, <1>4
    <3>3. j = i  BY <1>1, <3>1, <3>2 DEF Lists
    <3> QED  BY <3>2, <3>3
  <2> QED  BY <2>1, <2>2
<1>8. SourcesOf(s) \subseteq seen \/ seen \subseteq SourcesOf(s)
  <2>1. CASE n <= k
    <3>1. \A i \in 2..n : i \in 2..k  BY <1>4, <2>1
    <3> QED  BY <1>2, <3>1
  <2>2. CASE k <= n
    <3>1. ASSUME NEW x \in SourcesOf(s) PROVE x \in seen
      <4>1. PICK i \in 2..Len(E) : E[i] = x  BY <1>6 DEF ContentsOf
      <4>2. x \notin OthersOf(s)  BY Kinds DEF OthersOf
      <4>3. i \notin k + 1..Len(E)  BY <1>2, <4>1, <4>2
      <4>4. i <= n  BY <1>1, <1>4, <2>2, <4>3
      <4> QED  BY <1>7, <4>1, <4>4
    <3> QED  BY <3>1
  <2> QED  BY <1>4, <2>1, <2>2
<1>9. ASSUME n = Len(E) PROVE seen = ContentsOf(s)
  <2> SUFFICES ASSUME NEW x \in ContentsOf(s) PROVE x \in seen  BY <1>5
  <2> QED  BY <1>6, <1>9
<1> QED  BY <1>5, <1>7, <1>8, <1>9 DEF E

\* Cut anywhere, what refers to a source has it: the sources come first.
LEMMA PartSourced ==
  ASSUME NEW s \in States, Sourced(s), NEW seen \in SUBSET ContentsOf(s),
         SourcesOf(s) \subseteq seen \/ seen \subseteq SourcesOf(s)
  PROVE  Sourced(PartOf(s, seen))
<1> DEFINE p == PartOf(s, seen)
           ks == Kept("source", s.sources, seen)
           km == Kept("module", DOMAIN s.modules, seen)
           kp == Kept("port", s.ports, seen)
           kt == Kept("threshold", s.thresholds, seen)
           kr == Kept("rule", DOMAIN s.rules, seen)
<1>1. /\ p.sources = ks /\ p.modules = Restrict(s.modules, km) /\ p.ports = kp
      /\ p.thresholds = kt /\ p.rules = Restrict(s.rules, kr)
  BY PartFields
<1>2. /\ ks \in SUBSET s.sources /\ km \in SUBSET DOMAIN s.modules /\ kp \in SUBSET s.ports
      /\ kt \in SUBSET s.thresholds /\ kr \in SUBSET DOMAIN s.rules
  BY KeptIn
<1>3. \A f, D : DOMAIN Restrict(f, D) = D /\ \A x \in D : Restrict(f, D)[x] = f[x]
  BY DEF Restrict
<1>4. CASE SourcesOf(s) \subseteq seen
  <2>1. ks = s.sources
    <3> SUFFICES ASSUME NEW x \in s.sources PROVE x \in ks  BY <1>2
    <3>1. [kind |-> "source", id |-> x] \in seen  BY <1>4 DEF SourcesOf, Marks
    <3> QED  BY <3>1 DEF Kept
  <2> HIDE DEF p, ks, km, kp, kt, kr
  <2>2. \A u \in DOMAIN p.modules : p.modules[u].source \in p.sources
    BY <1>1, <1>2, <1>3, <2>1 DEF Sourced
  <2>3. Range(p.rules) \subseteq p.sources
    BY <1>1, <1>2, <1>3, <2>1 DEF Sourced, Range
  <2>4. p.ports \subseteq p.sources /\ p.thresholds \subseteq p.sources
    BY <1>1, <1>2, <2>1 DEF Sourced
  <2>5. Sourced(p)  BY <2>2, <2>3, <2>4 DEF Sourced
  <2> QED  BY <2>5 DEF p
<1>5. CASE seen \subseteq SourcesOf(s)
  <2>1. \A r \in seen : r.kind = "source"  BY <1>5, Kinds
  <2>2. km = {} /\ kp = {} /\ kt = {} /\ kr = {}  BY <2>1 DEF Kept
  <2> HIDE DEF p, ks, km, kp, kt, kr
  <2>3. DOMAIN p.modules = {} /\ DOMAIN p.rules = {} /\ p.ports = {} /\ p.thresholds = {}
    BY <1>1, <1>3, <2>2
  <2>4. Sourced(p)  BY <2>3 DEF Sourced, Range
  <2> QED  BY <2>4 DEF p
<1> QED  BY <1>4, <1>5

\* load_snapshot's second half drops the attachments whose module was not read, and
\* nothing else.
LEMMA InstalledSound ==
  ASSUME NEW s \in States, Sourced(s), Ahead(s)
  PROVE  /\ Installed(s) \in States
         /\ Sourced(Installed(s)) /\ Attached(Installed(s)) /\ Ahead(Installed(s))
<1> DEFINE p == Installed(s)
           D == {l \in DOMAIN s.attachments : s.attachments[l] \in DOMAIN s.modules}
<1>1. s = [generation |-> s.generation, incarnation |-> s.incarnation,
           nextSource |-> s.nextSource, nextModule |-> s.nextModule,
           nextRule |-> s.nextRule, sources |-> s.sources, modules |-> s.modules,
           ports |-> s.ports, attachments |-> s.attachments,
           thresholds |-> s.thresholds, rules |-> s.rules]
  BY StateParts
<1>2. p = [generation |-> s.generation + 1, incarnation |-> s.incarnation + 1,
           nextSource |-> s.nextSource, nextModule |-> s.nextModule,
           nextRule |-> s.nextRule, sources |-> s.sources, modules |-> s.modules,
           ports |-> s.ports, attachments |-> Restrict(s.attachments, D),
           thresholds |-> s.thresholds, rules |-> s.rules]
  <2> HIDE DEF D
  <2>1. p = [s EXCEPT !.generation = s.generation + 1, !.incarnation = s.incarnation + 1,
                      !.attachments = Restrict(s.attachments, D)]
    BY DEF Installed, D
  <2> HIDE DEF p
  <2> QED  BY <1>1, <2>1
<1> HIDE DEF p
<1>3. Restrict(s.attachments, D) \in Maps(Slots, 1..MaxModules)
  <2>1. s.attachments \in Maps(Slots, 1..MaxModules)  BY StateParts
  <2> QED  BY <2>1, MapsRestrict
<1>4. Attached(p)
  BY <1>2 DEF Attached, Range, Restrict
<1> HIDE DEF D
<1>5. p \in States
  <2>0. /\ s.generation \in Nat /\ s.incarnation \in Nat  BY StateParts
  <2>1. /\ s.nextSource \in 1..MaxSources + 1 /\ s.nextModule \in 1..MaxModules + 1
        /\ s.nextRule \in 1..MaxRules + 1
        /\ s.sources \in SUBSET (1..MaxSources)
        /\ s.modules \in Maps(1..MaxModules, [source : 1..MaxSources, samples : 0..SampleBudget])
        /\ s.ports \in SUBSET (1..MaxSources) /\ s.thresholds \in SUBSET (1..MaxSources)
        /\ s.rules \in Maps(1..MaxRules, 1..MaxSources)
    BY StateParts
  <2>2. /\ p.generation = s.generation + 1 /\ p.incarnation = s.incarnation + 1
        /\ p.nextSource = s.nextSource /\ p.nextModule = s.nextModule /\ p.nextRule = s.nextRule
        /\ p.sources = s.sources /\ p.modules = s.modules /\ p.ports = s.ports
        /\ p.attachments = Restrict(s.attachments, D)
        /\ p.thresholds = s.thresholds /\ p.rules = s.rules
    BY <1>2
  <2>3. p = [generation |-> p.generation, incarnation |-> p.incarnation,
             nextSource |-> p.nextSource, nextModule |-> p.nextModule,
             nextRule |-> p.nextRule, sources |-> p.sources, modules |-> p.modules,
             ports |-> p.ports, attachments |-> p.attachments,
             thresholds |-> p.thresholds, rules |-> p.rules]
    BY <1>2, <2>2
  <2> QED  BY <1>3, <2>0, <2>1, <2>2, <2>3, StateParts
<1>6. Sourced(p) /\ Ahead(p)
  BY <1>2 DEF Sourced, Ahead
<1> QED  BY <1>4, <1>5, <1>6 DEF p

-----------------------------------------------------------------------------
(* The registry at work.                                                   *)

\* A state in which nothing is missing.
\* Each accepted mutation leads from one to another.
Sound(s) == s \in States /\ Sourced(s) /\ Attached(s) /\ Ahead(s)

\* register_source hands out the next id.
LEMMA SourceSound ==
  ASSUME NEW s, Sound(s), s.nextSource <= MaxSources
  PROVE  Sound([s EXCEPT !.sources = @ \cup {s.nextSource}, !.nextSource = @ + 1])
<1> DEFINE p == [s EXCEPT !.sources = s.sources \cup {s.nextSource},
                          !.nextSource = s.nextSource + 1]
<1>0. s \in States  BY DEF Sound
<1>1. /\ s.sources \in SUBSET (1..MaxSources) /\ s.nextSource \in 1..MaxSources + 1
  BY <1>0, StateParts
<1>2. /\ s.sources \cup {s.nextSource} \in SUBSET (1..MaxSources)
      /\ s.nextSource + 1 \in 1..MaxSources + 1
  BY <1>1, SnapshotLoadAssumption DEF Sound
<1>3. /\ p \in States /\ p.sources = s.sources \cup {s.nextSource}
      /\ p.nextSource = s.nextSource + 1
      /\ p.modules = s.modules /\ p.ports = s.ports /\ p.attachments = s.attachments
      /\ p.thresholds = s.thresholds /\ p.rules = s.rules
      /\ p.nextModule = s.nextModule /\ p.nextRule = s.nextRule
  BY <1>0, <1>2 DEF States
<1> HIDE DEF p
<1>4. Sourced(p) /\ Attached(p)
  BY <1>3 DEF Sound, Sourced, Attached
<1>5. Ahead(p)
  BY <1>1, <1>3, SnapshotLoadAssumption DEF Sound, Ahead
<1>6. Sound(p)  BY <1>3, <1>4, <1>5 DEF Sound
<1> QED  BY <1>6 DEF p

\* register_module hands out the next uid, with evidence of a known source.
LEMMA ModuleSound ==
  ASSUME NEW s, Sound(s), NEW e \in s.sources, s.nextModule <= MaxModules
  PROVE  Sound([s EXCEPT !.modules = With(@, s.nextModule, [source |-> e, samples |-> 0]),
                         !.nextModule = @ + 1])
<1> DEFINE m == With(s.modules, s.nextModule, [source |-> e, samples |-> 0])
           p == [s EXCEPT !.modules = m, !.nextModule = s.nextModule + 1]
<1>0. s \in States  BY DEF Sound
<1>1. /\ s.sources \in SUBSET (1..MaxSources) /\ s.nextModule \in 1..MaxModules + 1
      /\ s.modules \in Maps(1..MaxModules, [source : 1..MaxSources, samples : 0..SampleBudget])
  BY <1>0, StateParts
<1>2. /\ m \in Maps(1..MaxModules, [source : 1..MaxSources, samples : 0..SampleBudget])
      /\ s.nextModule + 1 \in 1..MaxModules + 1
  <2>1. s.nextModule \in 1..MaxModules /\ s.nextModule + 1 \in 1..MaxModules + 1
    BY <1>1, SnapshotLoadAssumption
  <2>2. [source |-> e, samples |-> 0] \in [source : 1..MaxSources, samples : 0..SampleBudget]
    BY <1>1, SnapshotLoadAssumption
  <2> QED  BY <1>1, <2>1, <2>2, MapsWith
<1>3. /\ DOMAIN m = DOMAIN s.modules \cup {s.nextModule}
      /\ \A u \in DOMAIN m : m[u].source = IF u = s.nextModule THEN e ELSE s.modules[u].source
  BY DEF With
<1> HIDE DEF m
<1>4. /\ p \in States /\ p.modules = m /\ p.nextModule = s.nextModule + 1
      /\ p.sources = s.sources /\ p.ports = s.ports /\ p.attachments = s.attachments
      /\ p.thresholds = s.thresholds /\ p.rules = s.rules
      /\ p.nextSource = s.nextSource /\ p.nextRule = s.nextRule
  BY <1>0, <1>2 DEF States
<1> HIDE DEF p
<1>5. Sourced(p) /\ Attached(p)
  BY <1>3, <1>4 DEF Sound, Sourced, Attached
<1>6. \A u \in DOMAIN p.modules : u < p.nextModule
  <2>1. DOMAIN s.modules \in SUBSET Nat /\ s.nextModule \in Nat
    <3>1. DOMAIN s.modules \in SUBSET Nat  BY <1>0, StateFacts
    <3>2. \A i \in 1..MaxModules + 1 : i \in Nat  BY SnapshotLoadAssumption
    <3> QED  BY <1>1, <3>1, <3>2
  <2>2. \A u \in DOMAIN s.modules : u < s.nextModule  BY DEF Sound, Ahead
  <2> QED  BY <1>3, <1>4, <2>1, <2>2
<1>7. Sound(p)  BY <1>4, <1>5, <1>6 DEF Sound, Ahead
<1> QED  BY <1>7 DEF p, m

\* ingest_samples leaves a module its source.
LEMMA IngestSound ==
  ASSUME NEW s, Sound(s), NEW u \in DOMAIN s.modules, s.modules[u].samples < SampleBudget
  PROVE  Sound([s EXCEPT !.modules[u].samples = @ + 1])
<1> DEFINE m == [s.modules EXCEPT ![u].samples = s.modules[u].samples + 1]
           p == [s EXCEPT !.modules = m]
<1>0. s \in States  BY DEF Sound
<1>1. PICK D \in SUBSET (1..MaxModules) :
         s.modules \in [D -> [source : 1..MaxSources, samples : 0..SampleBudget]]
  BY <1>0 DEF States, Maps
<1>2. m \in [D -> [source : 1..MaxSources, samples : 0..SampleBudget]]
  <2>1. s.modules[u].samples + 1 \in 0..SampleBudget
    <3>1. s.modules[u] \in [source : 1..MaxSources, samples : 0..SampleBudget]  BY <1>1
    <3>2. s.modules[u].samples \in 0..SampleBudget  BY <3>1
    <3> QED  BY <3>2, SnapshotLoadAssumption
  <2> QED  BY <1>1, <2>1
<1>3. /\ DOMAIN m = DOMAIN s.modules
      /\ \A x \in DOMAIN m : m[x].source = s.modules[x].source
  BY <1>1
<1> HIDE DEF m
<1>4. m \in Maps(1..MaxModules, [source : 1..MaxSources, samples : 0..SampleBudget])
  BY <1>2 DEF Maps
<1>5. /\ p \in States /\ p.modules = m
      /\ p.sources = s.sources /\ p.ports = s.ports /\ p.attachments = s.attachments
      /\ p.thresholds = s.thresholds /\ p.rules = s.rules
      /\ p.nextSource = s.nextSource /\ p.nextModule = s.nextModule /\ p.nextRule = s.nextRule
  BY <1>0, <1>4 DEF States
<1> HIDE DEF p
<1>6. Sound(p)
  BY <1>3, <1>5 DEF Sound, Sourced, Attached, Ahead
<1> QED  BY <1>6 DEF p, m

\* attach and detach: the attachments may be any of known modules.
LEMMA AttachmentsSound ==
  ASSUME NEW s, Sound(s), NEW a \in Maps(Slots, 1..MaxModules), Range(a) \subseteq DOMAIN s.modules
  PROVE  Sound([s EXCEPT !.attachments = a])
<1> DEFINE p == [s EXCEPT !.attachments = a]
<1>1. /\ p \in States /\ p.attachments = a
      /\ p.sources = s.sources /\ p.ports = s.ports /\ p.modules = s.modules
      /\ p.thresholds = s.thresholds /\ p.rules = s.rules
      /\ p.nextSource = s.nextSource /\ p.nextModule = s.nextModule /\ p.nextRule = s.nextRule
  BY DEF Sound, States
<1> HIDE DEF p
<1>2. Sound(p)
  BY <1>1 DEF Sound, Sourced, Attached, Ahead
<1> QED  BY <1>2 DEF p

\* publish_port_capability and publish_threshold name a known source.
LEMMA PublishedSound ==
  ASSUME NEW s, Sound(s), NEW e \in s.sources
  PROVE  /\ Sound([s EXCEPT !.ports = @ \cup {e}])
         /\ Sound([s EXCEPT !.thresholds = @ \cup {e}])
<1> DEFINE p == [s EXCEPT !.ports = s.ports \cup {e}]
           q == [s EXCEPT !.thresholds = s.thresholds \cup {e}]
<1>1. /\ s.ports \cup {e} \in SUBSET (1..MaxSources)
      /\ s.thresholds \cup {e} \in SUBSET (1..MaxSources)
  BY StateParts DEF Sound
<1>2. /\ p \in States /\ p.ports = s.ports \cup {e} /\ p.sources = s.sources
      /\ p.modules = s.modules /\ p.attachments = s.attachments
      /\ p.thresholds = s.thresholds /\ p.rules = s.rules
      /\ p.nextSource = s.nextSource /\ p.nextModule = s.nextModule /\ p.nextRule = s.nextRule
  BY <1>1 DEF Sound, States
<1>3. /\ q \in States /\ q.thresholds = s.thresholds \cup {e} /\ q.sources = s.sources
      /\ q.modules = s.modules /\ q.attachments = s.attachments
      /\ q.ports = s.ports /\ q.rules = s.rules
      /\ q.nextSource = s.nextSource /\ q.nextModule = s.nextModule /\ q.nextRule = s.nextRule
  BY <1>1 DEF Sound, States
<1> HIDE DEF p, q
<1>4. Sound(p)  BY <1>2 DEF Sound, Sourced, Attached, Ahead
<1>5. Sound(q)  BY <1>3 DEF Sound, Sourced, Attached, Ahead
<1> QED  BY <1>4, <1>5 DEF p, q

\* publish_rule hands out the next id, with a known source.
LEMMA RuleSound ==
  ASSUME NEW s, Sound(s), NEW e \in s.sources, s.nextRule <= MaxRules
  PROVE  Sound([s EXCEPT !.rules = With(@, s.nextRule, e), !.nextRule = @ + 1])
<1> DEFINE m == With(s.rules, s.nextRule, e)
           p == [s EXCEPT !.rules = m, !.nextRule = s.nextRule + 1]
<1>0. s \in States  BY DEF Sound
<1>1. /\ s.sources \in SUBSET (1..MaxSources) /\ s.nextRule \in 1..MaxRules + 1
      /\ s.rules \in Maps(1..MaxRules, 1..MaxSources)
  BY <1>0, StateParts
<1>2. m \in Maps(1..MaxRules, 1..MaxSources) /\ s.nextRule + 1 \in 1..MaxRules + 1
  <2>1. s.nextRule \in 1..MaxRules /\ s.nextRule + 1 \in 1..MaxRules + 1
    BY <1>1, SnapshotLoadAssumption
  <2> QED  BY <1>1, <2>1, MapsWith
<1>3. /\ DOMAIN m = DOMAIN s.rules \cup {s.nextRule}
      /\ Range(m) \subseteq Range(s.rules) \cup {e}
  BY DEF With, Range
<1> HIDE DEF m
<1>4. /\ p \in States /\ p.rules = m /\ p.nextRule = s.nextRule + 1
      /\ p.sources = s.sources /\ p.ports = s.ports /\ p.attachments = s.attachments
      /\ p.thresholds = s.thresholds /\ p.modules = s.modules
      /\ p.nextSource = s.nextSource /\ p.nextModule = s.nextModule
  BY <1>0, <1>2 DEF States
<1> HIDE DEF p
<1>5. Sourced(p) /\ Attached(p)
  BY <1>3, <1>4 DEF Sound, Sourced, Attached
<1>6. \A u \in DOMAIN p.rules : u < p.nextRule
  <2>1. DOMAIN s.rules \in SUBSET Nat /\ s.nextRule \in Nat
    <3>1. DOMAIN s.rules \in SUBSET Nat  BY <1>0, StateFacts
    <3>2. \A i \in 1..MaxRules + 1 : i \in Nat  BY SnapshotLoadAssumption
    <3> QED  BY <1>1, <3>1, <3>2
  <2>2. \A u \in DOMAIN s.rules : u < s.nextRule  BY DEF Sound, Ahead
  <2> QED  BY <1>3, <1>4, <2>1, <2>2
<1>7. Sound(p)  BY <1>4, <1>5, <1>6 DEF Sound, Ahead
<1> QED  BY <1>7 DEF p, m

\* And the generation refers to nothing.
LEMMA GenerationSound ==
  ASSUME NEW s, Sound(s), NEW g \in Nat
  PROVE  Sound([s EXCEPT !.generation = g])
<1> DEFINE p == [s EXCEPT !.generation = g]
<1>1. /\ p \in States
      /\ p.sources = s.sources /\ p.ports = s.ports /\ p.modules = s.modules
      /\ p.attachments = s.attachments /\ p.thresholds = s.thresholds /\ p.rules = s.rules
      /\ p.nextSource = s.nextSource /\ p.nextModule = s.nextModule /\ p.nextRule = s.nextRule
  BY DEF Sound, States
<1> HIDE DEF p
<1>2. Sound(p)
  BY <1>1 DEF Sound, Sourced, Attached, Ahead
<1> QED  BY <1>2 DEF p

-----------------------------------------------------------------------------
(* Saves, damage and loads.                                                *)

\* parse_snapshot accepts a number of the first records.
LEMMA AcceptedFirst ==
  ASSUME NEW f, Len(f.records) \in Nat
  PROVE  Accepted(f) \in 0..Len(f.records)
<1> DEFINE bad == {i \in 1..Len(f.records) :
                     \/ ~Readable(f.records[i])
                     \/ f.damage # Nothing /\ f.damage.kind = "record" /\ f.damage.at = i}
<1>1. Accepted(f) = IF bad = {} THEN Len(f.records)
                    ELSE (CHOOSE i \in bad : \A j \in bad : i <= j) - 1
  BY DEF Accepted
<1>2. bad \in SUBSET (1..Len(f.records))  OBVIOUS
<1> HIDE DEF bad
<1>3. CASE bad = {}  BY <1>1, <1>3
<1>4. CASE bad # {}
  <2>1. \E i \in bad : \A j \in bad : i <= j
    <3>1. bad \in SUBSET Nat  BY <1>2
    <3>2. IsFiniteSet(1..Len(f.records))  BY FS_Interval
    <3>3. IsFiniteSet(bad)  BY <1>2, <3>2, FS_Subset
    <3> QED  BY <1>4, <3>1, <3>3, Least
  <2> DEFINE c == CHOOSE i \in bad : \A j \in bad : i <= j
  <2>2. c \in bad  BY <2>1
  <2> HIDE DEF c
  <2>3. c - 1 \in 0..Len(f.records)  BY <1>2, <2>2
  <2> QED  BY <1>1, <1>4, <2>3 DEF c
<1> QED  BY <1>3, <1>4

\* What it reads is nothing, or a number of the first records, and all of them when it
\* says that it dropped no tail.
LEMMA ParseFirst ==
  ASSUME NEW f, Len(f.records) \in Nat, NEW tailRecovery \in BOOLEAN,
         NEW p \in Parse(f, tailRecovery)
  PROVE  /\ p.recovered \in BOOLEAN
         /\ \/ p.state = Empty /\ p.recovered
            \/ \E n \in 0..Len(f.records) :
                  /\ p.state = Decoded(f.generation, SubSeq(f.records, 1, n))
                  /\ ~p.recovered => n = Len(f.records)
<1> DEFINE n == Accepted(f)
           is(kind) == f.damage # Nothing /\ f.damage.kind = kind
           dropped == is("short") \/ is("trailer") \/ n < Len(f.records)
           part == [state |-> Decoded(f.generation, SubSeq(f.records, 1, n)),
                    recovered |-> dropped]
           none == [state |-> Empty, recovered |-> TRUE]
<1>1. p = none \/ p = part  BY DEF Parse
<1>2. n \in 0..Len(f.records)  BY AcceptedFirst
<1>3. dropped \in BOOLEAN /\ (~dropped => ~(n < Len(f.records)))  OBVIOUS
<1>4. CASE p = none  BY <1>4
<1>5. CASE p = part
  <2>1. p.state = Decoded(f.generation, SubSeq(f.records, 1, n)) /\ p.recovered = dropped
    BY <1>5
  <2> HIDE DEF n, dropped, part
  <2>2. ~dropped => n = Len(f.records)  BY <1>2, <1>3
  <2> QED  BY <1>2, <1>3, <2>1, <2>2
<1> QED  BY <1>1, <1>4, <1>5

\* What a load has read, seen as a part of what was saved.
LEMMA ReadFacts ==
  ASSUME LInv, phase = "loading"
  PROVE  /\ file.of \in States /\ parsed \in States /\ Sourced(parsed) /\ Ahead(parsed)
         /\ \E n \in 1..Len(Encoded(file.of)) :
               ContentsOf(parsed) = {Encoded(file.of)[i] : i \in 2..n}
         /\ ~recovered => parsed = file.of
<1> DEFINE s == file.of  E == Encoded(s)
<1>1. /\ file = [generation |-> s.generation, records |-> E, damage |-> file.damage, of |-> s]
      /\ s \in States /\ Sourced(s) /\ Attached(s) /\ Ahead(s)
  BY DEF LInv, FileFits
<1>2. file.generation = s.generation /\ file.records = E
  <2> HIDE DEF s, E
  <2> QED  BY <1>1
<1>3. Len(E) \in Nat /\ 1 <= Len(E)  BY <1>1, EncodedFacts
<1> HIDE DEF s, E
<1>4. ASSUME NEW g \in Nat, parsed = Bottom(g), recovered
      PROVE  /\ parsed \in States /\ Sourced(parsed) /\ Ahead(parsed)
             /\ \E n \in 1..Len(E) : ContentsOf(parsed) = {E[i] : i \in 2..n}
             /\ ~recovered => parsed = s
  <2>1. 1 \in 1..Len(E) /\ {E[i] : i \in 2..1} = {}  BY <1>3
  <2> QED  BY <1>4, <2>1, BottomSound
<1>5. CASE parsed = Empty /\ recovered
  <2>1. Empty = Bottom(0)  BY DEF Empty, Bottom
  <2> QED  BY <1>1, <1>4, <1>5, <2>1 DEF s, E
<1>6. CASE \E n \in 0..Len(file.records) :
              /\ parsed = Decoded(file.generation, SubSeq(file.records, 1, n))
              /\ ~recovered => n = Len(file.records)
  <2>1. PICK n \in 0..Len(E) : /\ parsed = Decoded(s.generation, SubSeq(E, 1, n))
                               /\ ~recovered => n = Len(E)
    BY <1>2, <1>6
  <2>2. CASE n = 0
    <3>1. parsed = Bottom(s.generation)  BY <2>1, <2>2, DecodedNone
    <3>2. recovered  BY <1>3, <2>1, <2>2
    <3>3. s.generation \in Nat  BY <1>1, StateParts
    <3> QED  BY <1>1, <1>4, <3>1, <3>2, <3>3 DEF s, E
  <2>3. CASE n # 0
    <3> DEFINE seen == {E[i] : i \in 2..n}
    <3>1. n \in 1..Len(E)  BY <1>3, <2>1, <2>3
    <3>2. parsed = PartOf(s, seen)  BY <1>1, <2>1, <3>1, DecodedPart DEF E
    <3>3. /\ seen \in SUBSET ContentsOf(s)
          /\ SourcesOf(s) \subseteq seen \/ seen \subseteq SourcesOf(s)
          /\ n = Len(E) => seen = ContentsOf(s)
      BY <1>1, <3>1, PrefixFacts DEF E
    <3> HIDE DEF seen
    <3>4. /\ parsed \in States /\ Ahead(parsed) /\ ContentsOf(parsed) = seen
          /\ seen = ContentsOf(s) => parsed = s
      BY <1>1, <3>2, <3>3, PartFacts
    <3>5. Sourced(parsed)  BY <1>1, <3>2, <3>3, PartSourced
    <3>6. \E k \in 1..Len(E) : ContentsOf(parsed) = {E[i] : i \in 2..k}
      BY <3>1, <3>4 DEF seen
    <3> QED  BY <1>1, <2>1, <3>3, <3>4, <3>5, <3>6 DEF s, E
  <2> QED  BY <2>2, <2>3
<1> QED  BY <1>5, <1>6 DEF LInv, ParsedFits

\* A new registry.
LEMMA LoadInit == LInit => LInv
<1> SUFFICES ASSUME LInit PROVE LInv  OBVIOUS
<1>1. Empty = Bottom(0)  BY DEF Empty, Bottom
<1>2. /\ state = Bottom(0) /\ phase = "up" /\ file = Nothing /\ recovered = FALSE
  BY <1>1 DEF LInit
<1> QED  BY <1>2, BottomSound DEF LInv, FileFits, ParsedFits

\* A mutation changes the registry's state only.
LEMMA MutateStep ==
  ASSUME LInv, Sound(state'), UNCHANGED <<phase, parsed, file, recovered, boots>>
  PROVE  LInv'
BY DEF LInv, Sound, FileFits, ParsedFits

\* LInv is inductive.
LEMMA LoadStep ==
  ASSUME LInv, [LNext]_lvars
  PROVE  LInv'
<1>1. Sound(state) /\ state.generation + 1 \in Nat
  <2>1. Sound(state)  BY DEF LInv, Sound
  <2>2. state.generation \in Nat  BY <2>1, StateParts DEF Sound
  <2> QED  BY <2>1, <2>2
<1>2. ASSUME RegisterSource PROVE LInv'
  <2> DEFINE new == [state EXCEPT !.sources = @ \cup {state.nextSource}, !.nextSource = @ + 1]
  <2>1. /\ state.nextSource <= MaxSources /\ state' = [new EXCEPT !.generation = state.generation + 1]
        /\ UNCHANGED <<phase, parsed, file, recovered, boots>>
    BY <1>2 DEF RegisterSource, Mutate
  <2>2. Sound(new)  BY <1>1, <2>1, SourceSound
  <2> HIDE DEF new
  <2>3. Sound(state')  BY <1>1, <2>1, <2>2, GenerationSound
  <2> QED  BY <2>1, <2>3, MutateStep
<1>3. ASSUME NEW s \in state.sources, RegisterModule(s) PROVE LInv'
  <2> DEFINE new == [state EXCEPT
                       !.modules = With(@, state.nextModule, [source |-> s, samples |-> 0]),
                       !.nextModule = @ + 1]
  <2>1. /\ state.nextModule <= MaxModules /\ state' = [new EXCEPT !.generation = state.generation + 1]
        /\ UNCHANGED <<phase, parsed, file, recovered, boots>>
    BY <1>3 DEF RegisterModule, Mutate
  <2>2. Sound(new)  BY <1>1, <2>1, ModuleSound
  <2> HIDE DEF new
  <2>3. Sound(state')  BY <1>1, <2>1, <2>2, GenerationSound
  <2> QED  BY <2>1, <2>3, MutateStep
<1>4. ASSUME NEW s \in state.sources, PublishPort(s) \/ PublishThreshold(s) PROVE LInv'
  <2>1. PICK new : /\ Sound(new) /\ state' = [new EXCEPT !.generation = state.generation + 1]
                   /\ UNCHANGED <<phase, parsed, file, recovered, boots>>
    <3>1. /\ Sound([state EXCEPT !.ports = @ \cup {s}])
          /\ Sound([state EXCEPT !.thresholds = @ \cup {s}])
      BY <1>1, PublishedSound
    <3> QED  BY <1>4, <3>1 DEF PublishPort, PublishThreshold, Mutate
  <2>2. Sound(state')  BY <1>1, <2>1, GenerationSound
  <2> QED  BY <2>1, <2>2, MutateStep
<1>5. ASSUME NEW s \in state.sources, PublishRule(s) PROVE LInv'
  <2> DEFINE new == [state EXCEPT !.rules = With(@, state.nextRule, s), !.nextRule = @ + 1]
  <2>1. /\ state.nextRule <= MaxRules /\ state' = [new EXCEPT !.generation = state.generation + 1]
        /\ UNCHANGED <<phase, parsed, file, recovered, boots>>
    BY <1>5 DEF PublishRule, Mutate
  <2>2. Sound(new)  BY <1>1, <2>1, RuleSound
  <2> HIDE DEF new
  <2>3. Sound(state')  BY <1>1, <2>1, <2>2, GenerationSound
  <2> QED  BY <2>1, <2>3, MutateStep
<1>6. ASSUME NEW u \in DOMAIN state.modules, Ingest(u) PROVE LInv'
  <2> DEFINE new == [state EXCEPT !.modules[u].samples = @ + 1]
  <2>1. /\ state.modules[u].samples < SampleBudget
        /\ state' = [new EXCEPT !.generation = state.generation + 1]
        /\ UNCHANGED <<phase, parsed, file, recovered, boots>>
    BY <1>6 DEF Ingest, Mutate
  <2>2. Sound(new)  BY <1>1, <2>1, IngestSound
  <2> HIDE DEF new
  <2>3. Sound(state')  BY <1>1, <2>1, <2>2, GenerationSound
  <2> QED  BY <2>1, <2>3, MutateStep
<1>7. ASSUME NEW u \in DOMAIN state.modules, NEW l \in Slots, Attach(u, l) PROVE LInv'
  <2> DEFINE a == With(state.attachments, l, u)
             new == [state EXCEPT !.attachments = a]
  <2>1. /\ state' = [new EXCEPT !.generation = state.generation + 1]
        /\ UNCHANGED <<phase, parsed, file, recovered, boots>>
    BY <1>7 DEF Attach, Mutate
  <2>2. a \in Maps(Slots, 1..MaxModules)
    <3>1. /\ state.attachments \in Maps(Slots, 1..MaxModules)
          /\ state.modules \in Maps(1..MaxModules,
                                    [source : 1..MaxSources, samples : 0..SampleBudget])
      BY <1>1, StateParts DEF Sound
    <3>2. u \in 1..MaxModules  BY <3>1 DEF Maps
    <3> QED  BY <3>1, <3>2, MapsWith
  <2>3. Range(a) \subseteq DOMAIN state.modules
    BY <1>1 DEF Sound, Attached, Range, With
  <2> HIDE DEF a
  <2>4. Sound(new)  BY <1>1, <2>2, <2>3, AttachmentsSound
  <2> HIDE DEF new
  <2>5. Sound(state')  BY <1>1, <2>1, <2>4, GenerationSound
  <2> QED  BY <2>1, <2>5, MutateStep
<1>8. ASSUME NEW l \in DOMAIN state.attachments, Detach(l) PROVE LInv'
  <2> DEFINE a == Restrict(state.attachments, DOMAIN state.attachments \ {l})
             new == [state EXCEPT !.attachments = a]
  <2>1. /\ state' = [new EXCEPT !.generation = state.generation + 1]
        /\ UNCHANGED <<phase, parsed, file, recovered, boots>>
    BY <1>8 DEF Detach, Mutate
  <2>2. a \in Maps(Slots, 1..MaxModules)
    <3>1. state.attachments \in Maps(Slots, 1..MaxModules)
      BY <1>1, StateParts DEF Sound
    <3> QED  BY <3>1, MapsRestrict
  <2>3. Range(a) \subseteq DOMAIN state.modules
    BY <1>1 DEF Sound, Attached, Range, Restrict
  <2> HIDE DEF a
  <2>4. Sound(new)  BY <1>1, <2>2, <2>3, AttachmentsSound
  <2> HIDE DEF new
  <2>5. Sound(state')  BY <1>1, <2>1, <2>4, GenerationSound
  <2> QED  BY <2>1, <2>5, MutateStep
<1>9. ASSUME SaveState PROVE LInv'
  <2>1. /\ phase = "up" /\ file' = Saved(state)
        /\ UNCHANGED <<phase, state, parsed, recovered, boots>>
    BY <1>9 DEF SaveState
  <2>2. /\ file'.of = state /\ file'.damage = Nothing
        /\ file' = [generation |-> state.generation, records |-> Encoded(state),
                    damage |-> Nothing, of |-> state]
    BY <2>1 DEF Saved
  <2>3. FileFits'  BY <1>1, <2>2 DEF FileFits, Sound
  <2> QED  BY <2>1, <2>3 DEF LInv, ParsedFits
<1>10. ASSUME Stop PROVE LInv'
  <2>1. /\ phase' = "down" /\ state' = Empty /\ recovered' = FALSE /\ file # Nothing
        /\ UNCHANGED file
    BY <1>10 DEF Stop
  <2>2. FileFits'  BY <2>1 DEF LInv, FileFits
  <2>3. Empty = Bottom(0)  BY DEF Empty, Bottom
  <2> QED  BY <2>1, <2>2, <2>3, BottomSound DEF LInv, ParsedFits
<1>11. ASSUME Damage PROVE LInv'
  <2>1. /\ phase = "down" /\ UNCHANGED <<phase, state, parsed, recovered, boots>>
        /\ \E d : file' = [file EXCEPT !.damage = d]
    BY <1>11 DEF Damage
  <2>2. PICK d : file' = [file EXCEPT !.damage = d]  BY <2>1
  <2>3. /\ file = [generation |-> file.of.generation, records |-> Encoded(file.of),
                   damage |-> file.damage, of |-> file.of]
        /\ Sound(file.of)
    BY <2>1 DEF LInv, FileFits, Sound
  <2>4. /\ file' = [generation |-> file.of.generation, records |-> Encoded(file.of),
                    damage |-> d, of |-> file.of]
    BY <2>2, <2>3
  <2>5. file'.of = file.of /\ file'.damage = d  BY <2>4
  <2>6. FileFits'  BY <2>3, <2>4, <2>5 DEF FileFits, Sound
  <2> QED  BY <2>1, <2>6 DEF LInv, ParsedFits
<1>12. ASSUME BeginLoad PROVE LInv'
  <2>1. /\ phase = "down" /\ phase' = "loading" /\ UNCHANGED <<state, file, boots>>
        /\ \E tailRecovery \in BOOLEAN : \E p \in Parse(file, tailRecovery) :
              parsed' = p.state /\ recovered' = p.recovered
    BY <1>12 DEF BeginLoad
  <2>2. FileFits'  BY <2>1 DEF LInv, FileFits
  <2>3. Len(file.records) \in Nat
    <3>1. file.of \in States
          /\ file = [generation |-> file.of.generation, records |-> Encoded(file.of),
                     damage |-> file.damage, of |-> file.of]
      BY <2>1 DEF LInv, FileFits
    <3>2. file.records = Encoded(file.of)  BY <3>1
    <3> QED  BY <3>1, <3>2, EncodedFacts
  <2>4. /\ recovered' \in BOOLEAN
        /\ \/ parsed' = Empty /\ recovered'
           \/ \E n \in 0..Len(file.records) :
                 /\ parsed' = Decoded(file.generation, SubSeq(file.records, 1, n))
                 /\ ~recovered' => n = Len(file.records)
    BY <2>1, <2>3, ParseFirst
  <2>5. ParsedFits'  BY <2>1, <2>4 DEF ParsedFits
  <2> QED  BY <2>1, <2>2, <2>4, <2>5 DEF LInv
<1>13. ASSUME Install PROVE LInv'
  <2>1. /\ phase = "loading" /\ phase' = "up" /\ state' = Installed(parsed)
        /\ UNCHANGED <<file, recovered>>
    BY <1>13 DEF Install
  <2>2. Sound(state')  BY <2>1, ReadFacts, InstalledSound DEF Sound
  <2>3. FileFits'  BY <2>1 DEF LInv, FileFits
  <2> QED  BY <2>1, <2>2, <2>3 DEF LInv, ParsedFits, Sound
<1>14. ASSUME UNCHANGED lvars PROVE LInv'
  BY <1>14 DEF lvars, LInv, FileFits, ParsedFits
<1> QED
  BY <1>2, <1>3, <1>4, <1>5, <1>6, <1>7, <1>8, <1>9, <1>10, <1>11, <1>12, <1>13, <1>14 DEF LNext

\* A record that was read is not one that comes after the last accepted: each is
\* written once.
LEMMA ParsedNoGap == LInv => NeverAGap
<1> SUFFICES ASSUME LInv, phase = "loading"
             PROVE  LET all == Encoded(file.of)
                        kept == {i \in DOMAIN all : i = 1 \/ all[i] \in Range(Encoded(parsed))}
                    IN  /\ Range(Tail(Encoded(parsed))) \subseteq Range(all)
                        /\ \A i \in kept : \A j \in 1..i : j \in kept
                        /\ ~recovered => Encoded(parsed) = all
  BY DEF NeverAGap
<1> DEFINE s == file.of  E == Encoded(s)  P == Encoded(parsed)
           kept == {i \in DOMAIN E : i = 1 \/ E[i] \in Range(P)}
<1>1. s \in States /\ parsed \in States /\ (~recovered => parsed = s)
  BY ReadFacts
<1>2. PICK n \in 1..Len(E) : ContentsOf(parsed) = {E[i] : i \in 2..n}
  BY ReadFacts
<1>3. /\ Lists(E, {HeaderOf(s)} \cup ContentsOf(s)) /\ Len(E) \in Nat
      /\ \A i \in 2..Len(E) : E[i] \in ContentsOf(s)
      /\ \A i \in 2..Len(E) : E[i] \in {E[j] : j \in 2..n} <=> i <= n
  BY <1>1, EncodedFacts, PrefixFacts
<1>4. /\ Lists(P, {HeaderOf(parsed)} \cup ContentsOf(parsed)) /\ Len(P) \in Nat /\ 1 <= Len(P)
      /\ \A i \in 2..Len(P) : P[i] \in ContentsOf(parsed)
  BY <1>1, EncodedFacts
<1>5. DOMAIN E = 1..Len(E) /\ DOMAIN P = 1..Len(P)
  BY <1>3, <1>4, LenProperties DEF Lists
<1> HIDE DEF s, E, P
<1>6. Range(P) = {HeaderOf(parsed)} \cup ContentsOf(parsed)
  <2>1. \A i \in 1..Len(P) : P[i] \in {HeaderOf(parsed)} \cup ContentsOf(parsed)
    BY <1>4, ElementOfSeq DEF Lists
  <2>2. Range(P) \subseteq {HeaderOf(parsed)} \cup ContentsOf(parsed)
    BY <1>5, <2>1 DEF Range
  <2>3. \A x \in {HeaderOf(parsed)} \cup ContentsOf(parsed) : \E i \in 1..Len(P) : P[i] = x
    BY <1>4 DEF Lists
  <2>4. \A x \in {HeaderOf(parsed)} \cup ContentsOf(parsed) : x \in Range(P)
    BY <1>5, <2>3 DEF Range
  <2> QED  BY <2>2, <2>4
<1>7. n \in Nat /\ 1 <= n /\ n <= Len(E)  BY <1>2, <1>3
<1>8. Range(Tail(P)) \subseteq Range(E)
  <2>1. P \in Seq({HeaderOf(parsed)} \cup ContentsOf(parsed)) /\ P # <<>>
    BY <1>4 DEF Lists
  <2> DEFINE t == Tail(P)
  <2>2. /\ t \in Seq({HeaderOf(parsed)} \cup ContentsOf(parsed)) /\ Len(t) = Len(P) - 1
        /\ \A i \in 1..Len(t) : t[i] = P[i + 1]
    BY <2>1, HeadTailProperties
  <2>3. DOMAIN t = 1..Len(t)  BY <2>2, LenProperties
  <2> HIDE DEF t
  <2>4. ASSUME NEW i \in DOMAIN t PROVE t[i] \in Range(E)
    <3>1. i + 1 \in 2..Len(P) /\ t[i] = P[i + 1]  BY <1>4, <2>2, <2>3
    <3>2. t[i] \in ContentsOf(parsed)  BY <1>4, <3>1
    <3>3. PICK j \in 2..n : t[i] = E[j]  BY <1>2, <3>2
    <3>4. j \in DOMAIN E  BY <1>5, <1>7
    <3> QED  BY <3>3, <3>4 DEF Range
  <2>5. Range(t) \subseteq Range(E)  BY <2>4 DEF Range
  <2> QED  BY <2>5 DEF t
<1>9. \A i \in DOMAIN E : i \in kept <=> i <= n
  <2> SUFFICES ASSUME NEW i \in DOMAIN E PROVE i \in kept <=> i <= n
    OBVIOUS
  <2>1. i \in 1..Len(E)  BY <1>5
  <2>2. CASE i = 1  BY <1>7, <2>2
  <2>3. CASE i # 1
    <3>1. i \in 2..Len(E)  BY <1>3, <2>1, <2>3
    <3>2. E[i] # HeaderOf(parsed)
      BY <1>3, <3>1, Kinds DEF ContentsOf, OthersOf
    <3>3. E[i] \in Range(P) <=> i <= n  BY <1>2, <1>3, <1>6, <3>1, <3>2
    <3> QED  BY <2>3, <3>3
  <2> QED  BY <2>2, <2>3
<1>10. \A i \in kept : \A j \in 1..i : j \in kept
  <2> SUFFICES ASSUME NEW i \in kept, NEW j \in 1..i PROVE j \in kept
    OBVIOUS
  <2>1. i \in DOMAIN E /\ i <= n  BY <1>9
  <2>2. j \in DOMAIN E /\ j <= n  BY <1>3, <1>5, <1>7, <2>1
  <2> QED  BY <1>9, <2>2
<1>11. ~recovered => P = E  BY <1>1 DEF P, E
<1> QED  BY <1>8, <1>10, <1>11 DEF s, E, P

\* Whatever a process finds when it loads: its registry is a sound state, the file is
\* all of one, and what has been parsed is a number of the first records of the file
\* (encode_state_records, save_snapshot_impl, parse_snapshot, load_snapshot).
THEOREM SnapshotInv == LSpec => []LInv
<1>1. LInit => LInv  BY LoadInit
<1>2. LInv /\ [LNext]_lvars => LInv'  BY LoadStep
<1> QED  BY <1>1, <1>2, PTL DEF LSpec

\* A registry recovered from any part of a file refers to nothing that it does not
\* hold: the sources come first in the file (encode_state_records), and attachments
\* whose module was cut off are dropped (load_snapshot).
THEOREM RecoveredWhole == LSpec => []NothingDangles
<1>1. LInv => NothingDangles  BY DEF LInv, NothingDangles
<1> QED  BY <1>1, SnapshotInv, PTL

\* And it never hands out an id that is in use: the counters are in the header, which
\* is read before anything they are ahead of (decode_state_header).
THEOREM CountersRecovered == LSpec => []CountersAhead
<1>1. LInv => CountersAhead  BY DEF LInv, CountersAhead
<1> QED  BY <1>1, SnapshotInv, PTL

\* What a load keeps is everything up to some record, and all of it unless it says
\* that a tail was dropped: "never a gap" (parse_snapshot, LoadReport).
THEOREM PrefixRecovered == LSpec => []NeverAGap
<1> QED  BY ParsedNoGap, SnapshotInv, PTL
=============================================================================
