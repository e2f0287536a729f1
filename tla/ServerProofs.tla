---------------------------- MODULE ServerProofs -----------------------------
(***************************************************************************)
(* Proofs about Server, for any number of connections, any limits and both *)
(* ways of hosting it.                                                     *)
(*                                                                         *)
(* Inv is inductive: the four invariants the runs check that a step can    *)
(* break by itself, and what they rest on (a connection in hand has no     *)
(* thread yet, every running thread has a handle some stop() joins, and a  *)
(* stop() that has set the flag keeps threads from reading again).         *)
(***************************************************************************)
EXTENDS Server, FiniteSetTheorems, TLAPS

-----------------------------------------------------------------------------
(* Counting connections.                                                   *)

LEMMA Counted ==
  ASSUME NEW S \in SUBSET Conns, NEW T \in SUBSET S
  PROVE  Cardinality(T) \in Nat /\ Cardinality(S) \in Nat
         /\ Cardinality(T) <= Cardinality(S)
<1>1. IsFiniteSet(S)
  BY ServerAssumption, FS_Subset
<1>2. IsFiniteSet(T) /\ Cardinality(T) <= Cardinality(S)
  BY <1>1, FS_Subset
<1> QED  BY <1>1, <1>2, FS_CardinalityType

\* A step that leaves the list as it is, or takes a connection out of it, keeps
\* it within the limit.
LEMMA Fewer ==
  ASSUME TypeOK, WithinLimits, UNCHANGED limit, connections' \subseteq connections
  PROVE  Cardinality(connections') <= limit'
<1>1. connections \in SUBSET Conns /\ limit \in Nat
  BY ServerAssumption DEF TypeOK
<1> QED  BY <1>1, Counted DEF WithinLimits

-----------------------------------------------------------------------------
(* The initial state.                                                      *)

LEMMA InitInv == Init => Inv
<1> SUFFICES ASSUME Init PROVE Inv
  OBVIOUS
<1>1. TypeOK
  <2>1. served \in [Conns -> 0..MaxRequests]
    BY ServerAssumption DEF Init
  <2>2. inbox \in [Conns -> FrameKinds \cup {None}]
    BY DEF Init
  <2>3. worker \in [Conns -> WorkerStates]
    BY DEF Init, WorkerStates
  <2> QED
    BY <2>1, <2>2, <2>3 DEF Init, TypeOK, RunnerStates, StopStates, None
<1>2. Threads = {}
  BY DEF Init, Threads
<1>3. SlotsReturned /\ QuietAfterStop /\ JoinedAtEnd
  BY <1>2 DEF Init, SlotsReturned, QuietAfterStop, JoinedAtEnd
<1>4. UnservedYet /\ HandlesKept /\ StopHolds /\ CallerFits /\ PhaseFits
  BY <1>2
  DEF Init, UnservedYet, HandlesKept, StopHolds, CallerFits, PhaseFits
<1>5. WithinLimits
  <2>1. connections = {} /\ limit \in Nat /\ \A c \in Conns : ~Serving(c)
    BY ServerAssumption DEF Init, Serving
  <2> QED  BY <2>1, FS_EmptySet DEF WithinLimits
<1> QED  BY <1>1, <1>3, <1>4, <1>5 DEF Inv

-----------------------------------------------------------------------------
(* The clients.                                                            *)

\* A client changes what is queued for it, and nothing of the server.
LEMMA ClientStep ==
  ASSUME Inv, NEW c \in Conns, Connect(c) \/ Send(c)
  PROVE  Inv'
<1> USE DEF Connect, Send, netVars, runVars, conVars, stopVars, hostVars
<1>1. TypeOK'
  BY DEF Inv, TypeOK, FrameKinds, RunnerStates, WorkerStates, StopStates, None
<1>2. SlotsReturned'
  BY NoneAssumption
  DEF Inv, SlotsReturned, TypeOK, UnservedYet, Threads
<1>3. QuietAfterStop'
  BY NoneAssumption
  DEF Inv, QuietAfterStop, TypeOK, StopHolds, PhaseFits, CallerFits, Serving
<1>4. JoinedAtEnd'
  BY NoneAssumption
  DEF Inv, JoinedAtEnd, TypeOK, HandlesKept, CallerFits, PhaseFits, Serving,
      Threads
<1>5. UnservedYet'
  BY NoneAssumption
  DEF Inv, UnservedYet, TypeOK, Threads
<1>6. HandlesKept'
  BY NoneAssumption
  DEF Inv, HandlesKept, TypeOK, Threads
<1>7. StopHolds'
  BY NoneAssumption
  DEF Inv, StopHolds, TypeOK, HandlesKept, CallerFits, PhaseFits, Serving,
      Threads, UnservedYet
<1>8. CallerFits'
  BY NoneAssumption
  DEF Inv, CallerFits, TypeOK, PhaseFits
<1>9. PhaseFits'
  BY NoneAssumption
  DEF Inv, PhaseFits, TypeOK, QuietAfterStop, UnservedYet, StopHolds,
      HandlesKept, CallerFits, Serving, Threads
<1>10. WithinLimits'
  <2>1. \A d \in Conns : Serving(d)' => served'[d] < MaxRequests
    BY NoneAssumption DEF Inv, TypeOK, WithinLimits, Serving, UnservedYet
  <2>2. connections' \subseteq connections /\ UNCHANGED limit
    OBVIOUS
  <2> QED  BY <2>1, <2>2, Fewer DEF Inv, WithinLimits
<1> QED  BY <1>1, <1>2, <1>3, <1>4, <1>5, <1>6, <1>7, <1>8, <1>9, <1>10 DEF Inv

-----------------------------------------------------------------------------
(* The runner.                                                             *)

\* The runner adds a connection to the list within the limit, and gives the
\* thread it starts a handle in workers_.
LEMMA RunnerSteps ==
  ASSUME Inv, RunnerStep
  PROVE  Inv'
<1> USE DEF RunnerStep, Start, StartFails, Enter, Loop, Accept, AcceptFails,
            AcceptClosed, LockConnections, Push, LockWorkers, Emplace,
            Interrupted, netVars, runVars, conVars, stopVars, hostVars
<1>1. TypeOK'
  <2>1. CASE Start
    BY <2>1 DEF Inv, TypeOK, FrameKinds, RunnerStates, WorkerStates, StopStates, None
  <2>2. CASE StartFails
    BY <2>2 DEF Inv, TypeOK, FrameKinds, RunnerStates, WorkerStates, StopStates, None
  <2>3. CASE Enter
    BY <2>3 DEF Inv, TypeOK, FrameKinds, RunnerStates, WorkerStates, StopStates, None
  <2>4. CASE Loop
    BY <2>4 DEF Inv, TypeOK, FrameKinds, RunnerStates, WorkerStates, StopStates, None
  <2>5. CASE Accept
    BY <2>5 DEF Inv, TypeOK, FrameKinds, RunnerStates, WorkerStates, StopStates, None
  <2>6. CASE AcceptFails
    BY <2>6 DEF Inv, TypeOK, FrameKinds, RunnerStates, WorkerStates, StopStates, None
  <2>7. CASE AcceptClosed
    BY <2>7 DEF Inv, TypeOK, FrameKinds, RunnerStates, WorkerStates, StopStates, None
  <2>8. CASE LockConnections
    BY <2>8 DEF Inv, TypeOK, FrameKinds, RunnerStates, WorkerStates, StopStates, None
  <2>9. CASE Push
    BY <2>9 DEF Inv, TypeOK, FrameKinds, RunnerStates, WorkerStates, StopStates, None, UnservedYet
  <2>10. CASE LockWorkers
    BY <2>10 DEF Inv, TypeOK, FrameKinds, RunnerStates, WorkerStates, StopStates, None
  <2>11. CASE Emplace
    BY <2>11 DEF Inv, TypeOK, FrameKinds, RunnerStates, WorkerStates, StopStates, None, UnservedYet
  <2> QED
    BY <2>1, <2>2, <2>3, <2>4, <2>5, <2>6, <2>7, <2>8, <2>9, <2>10, <2>11
<1>2. SlotsReturned'
  BY NoneAssumption
  DEF Inv, SlotsReturned, TypeOK, UnservedYet, Threads
<1>3. QuietAfterStop'
  BY NoneAssumption
  DEF Inv, QuietAfterStop, TypeOK, StopHolds, PhaseFits, CallerFits, Serving
<1>4. JoinedAtEnd'
  BY NoneAssumption
  DEF Inv, JoinedAtEnd, TypeOK, HandlesKept, CallerFits, PhaseFits, Serving,
      Threads
<1>5. UnservedYet'
  BY NoneAssumption
  DEF Inv, UnservedYet, TypeOK, Threads
<1>6. HandlesKept'
  BY NoneAssumption
  DEF Inv, HandlesKept, TypeOK, Threads
<1>7. StopHolds'
  BY NoneAssumption
  DEF Inv, StopHolds, TypeOK, HandlesKept, CallerFits, PhaseFits, Serving,
      Threads, UnservedYet
<1>8. CallerFits'
  BY NoneAssumption
  DEF Inv, CallerFits, TypeOK, PhaseFits
<1>9. PhaseFits'
  BY NoneAssumption
  DEF Inv, PhaseFits, TypeOK, QuietAfterStop, UnservedYet, StopHolds,
      HandlesKept, CallerFits, Serving, Threads
<1>10. WithinLimits'
  <2>1. \A d \in Conns : Serving(d)' => served'[d] < MaxRequests
    BY NoneAssumption DEF Inv, TypeOK, WithinLimits, Serving, UnservedYet
  <2>2. \/ /\ connections' = connections \cup {cur}
           /\ Cardinality(connections \cup {cur}) <= limit
           /\ UNCHANGED limit
        \/ connections' \subseteq connections /\ UNCHANGED limit
    <3>1. CASE Push
      <4>1. connections \cup {cur} \in SUBSET Conns
        BY <3>1 DEF Inv, TypeOK, UnservedYet
      <4>2. Cardinality(connections \cup {cur}) \in Nat /\ limit \in Nat
        BY <4>1, Counted, ServerAssumption DEF Inv, TypeOK
      <4> QED  BY <3>1, <4>2
    <3>2. CASE ~Push
      BY <3>2
    <3> QED  BY <3>1, <3>2
  <2> QED  BY <2>1, <2>2, Fewer DEF Inv, WithinLimits
<1> QED  BY <1>1, <1>2, <1>3, <1>4, <1>5, <1>6, <1>7, <1>8, <1>9, <1>10 DEF Inv

-----------------------------------------------------------------------------
(* The threads of the connections.                                         *)

\* A thread that has seen the flag goes on to its end, and takes its connection
\* out of the list as its last act.
LEMMA WorkerSteps ==
  ASSUME Inv, NEW c \in Conns, WorkerStep(c)
  PROVE  Inv'
<1> USE DEF WorkerStep, Check, Read, ReadFails, Dispatch, Write, WriteFails,
            Refuse, Close, Erase, Goto, netVars, runVars, conVars, stopVars,
            hostVars
<1>1. TypeOK'
  <2>1. CASE Check(c)
    BY <2>1 DEF Inv, TypeOK, FrameKinds, RunnerStates, WorkerStates, StopStates, None
  <2>2. CASE Read(c)
    BY <2>2 DEF Inv, TypeOK, FrameKinds, RunnerStates, WorkerStates, StopStates, None
  <2>3. CASE ReadFails(c)
    BY <2>3 DEF Inv, TypeOK, FrameKinds, RunnerStates, WorkerStates, StopStates, None
  <2>4. CASE Dispatch(c)
    BY <2>4 DEF Inv, TypeOK, FrameKinds, RunnerStates, WorkerStates, StopStates, None
  <2>5. CASE Write(c)
    <3>1. served[c] \in 0..MaxRequests /\ served[c] < MaxRequests
      BY <2>5 DEF Inv, TypeOK, WithinLimits, Serving
    <3>2. served' \in [Conns -> 0..MaxRequests]
      BY <2>5, <3>1, ServerAssumption DEF Inv, TypeOK
    <3> QED
      BY <2>5, <3>2 DEF Inv, TypeOK, WorkerStates
  <2>6. CASE WriteFails(c)
    BY <2>6 DEF Inv, TypeOK, FrameKinds, RunnerStates, WorkerStates, StopStates, None
  <2>7. CASE Refuse(c)
    BY <2>7 DEF Inv, TypeOK, FrameKinds, RunnerStates, WorkerStates, StopStates, None
  <2>8. CASE Close(c)
    BY <2>8 DEF Inv, TypeOK, FrameKinds, RunnerStates, WorkerStates, StopStates, None
  <2>9. CASE Erase(c)
    BY <2>9 DEF Inv, TypeOK, FrameKinds, RunnerStates, WorkerStates, StopStates, None
  <2> QED
    BY <2>1, <2>2, <2>3, <2>4, <2>5, <2>6, <2>7, <2>8, <2>9
<1>2. SlotsReturned'
  BY NoneAssumption
  DEF Inv, SlotsReturned, TypeOK, UnservedYet, Threads
<1>3. QuietAfterStop'
  BY NoneAssumption
  DEF Inv, QuietAfterStop, TypeOK, StopHolds, PhaseFits, CallerFits, Serving
<1>4. JoinedAtEnd'
  BY NoneAssumption
  DEF Inv, JoinedAtEnd, TypeOK, HandlesKept, CallerFits, PhaseFits, Serving,
      Threads
<1>5. UnservedYet'
  BY NoneAssumption
  DEF Inv, UnservedYet, TypeOK, Threads
<1>6. HandlesKept'
  BY NoneAssumption
  DEF Inv, HandlesKept, TypeOK, Threads
<1>7. StopHolds'
  BY NoneAssumption
  DEF Inv, StopHolds, TypeOK, HandlesKept, CallerFits, PhaseFits, Serving,
      Threads, UnservedYet
<1>8. CallerFits'
  BY NoneAssumption
  DEF Inv, CallerFits, TypeOK, PhaseFits
<1>9. PhaseFits'
  BY NoneAssumption
  DEF Inv, PhaseFits, TypeOK, QuietAfterStop, UnservedYet, StopHolds,
      HandlesKept, CallerFits, Serving, Threads
<1>10. WithinLimits'
  <2>1. ASSUME NEW d \in Conns, Serving(d)'
        PROVE  served'[d] < MaxRequests
    <3>1. CASE Serving(d) /\ served'[d] = served[d]
      BY <3>1 DEF Inv, WithinLimits
    <3>2. CASE d = c /\ Check(c)
      BY <2>1, <3>2, ServerAssumption DEF Inv, TypeOK, Serving
    <3> QED
      BY <2>1, <3>1, <3>2 DEF Inv, TypeOK, Serving
  <2>2. connections' \subseteq connections /\ UNCHANGED limit
    OBVIOUS
  <2> QED  BY <2>1, <2>2, Fewer DEF Inv, WithinLimits
<1> QED  BY <1>1, <1>2, <1>3, <1>4, <1>5, <1>6, <1>7, <1>8, <1>9, <1>10 DEF Inv

-----------------------------------------------------------------------------
(* stop() and the host.                                                    *)

\* The owner, main, the handler or the destructor begins a stop().
LEMMA CallStep ==
  ASSUME Inv, CallStop
  PROVE  Inv'
<1> USE DEF CallStop, OwnerStops, MainStops, Destroyed, SignalArrives,
            netVars, runVars, conVars, stopVars, hostVars
<1>1. TypeOK'
  BY DEF Inv, TypeOK, FrameKinds, RunnerStates, WorkerStates, StopStates, None
<1>2. SlotsReturned'
  BY NoneAssumption
  DEF Inv, SlotsReturned, TypeOK, UnservedYet, Threads
<1>3. QuietAfterStop'
  BY NoneAssumption
  DEF Inv, QuietAfterStop, TypeOK, StopHolds, PhaseFits, CallerFits, Serving
<1>4. JoinedAtEnd'
  BY NoneAssumption
  DEF Inv, JoinedAtEnd, TypeOK, HandlesKept, CallerFits, PhaseFits, Serving,
      Threads
<1>5. UnservedYet'
  BY NoneAssumption
  DEF Inv, UnservedYet, TypeOK, Threads
<1>6. HandlesKept'
  BY NoneAssumption
  DEF Inv, HandlesKept, TypeOK, Threads
<1>7. StopHolds'
  BY NoneAssumption
  DEF Inv, StopHolds, TypeOK, HandlesKept, CallerFits, PhaseFits, Serving,
      Threads, UnservedYet
<1>8. CallerFits'
  BY NoneAssumption
  DEF Inv, CallerFits, TypeOK, PhaseFits
<1>9. PhaseFits'
  BY NoneAssumption
  DEF Inv, PhaseFits, TypeOK, QuietAfterStop, UnservedYet, StopHolds,
      HandlesKept, CallerFits, Serving, Threads
<1>10. WithinLimits'
  <2>1. \A d \in Conns : Serving(d)' => served'[d] < MaxRequests
    BY NoneAssumption DEF Inv, TypeOK, WithinLimits, Serving, UnservedYet
  <2>2. connections' \subseteq connections /\ UNCHANGED limit
    OBVIOUS
  <2> QED  BY <2>1, <2>2, Fewer DEF Inv, WithinLimits
<1> QED  BY <1>1, <1>2, <1>3, <1>4, <1>5, <1>6, <1>7, <1>8, <1>9, <1>10 DEF Inv

\* A stop() takes all handles at once and comes back when the last of their
\* threads has ended.
LEMMA StopSteps ==
  ASSUME Inv, StopStep
  PROVE  Inv'
<1> USE DEF StopStep, StopFlag, StopListener, StopCopy, StopClose, StopSwap,
            StopJoin, StopReturns, netVars, runVars, conVars, stopVars,
            hostVars
<1>1. TypeOK'
  <2>1. CASE StopFlag
    BY <2>1 DEF Inv, TypeOK, FrameKinds, RunnerStates, WorkerStates, StopStates, None
  <2>2. CASE StopListener
    BY <2>2 DEF Inv, TypeOK, FrameKinds, RunnerStates, WorkerStates, StopStates, None
  <2>3. CASE StopCopy
    BY <2>3 DEF Inv, TypeOK, FrameKinds, RunnerStates, WorkerStates, StopStates, None
  <2>4. CASE StopClose
    BY <2>4 DEF Inv, TypeOK, FrameKinds, RunnerStates, WorkerStates, StopStates, None
  <2>5. CASE StopSwap
    BY <2>5 DEF Inv, TypeOK, FrameKinds, RunnerStates, WorkerStates, StopStates, None
  <2>6. CASE \E c \in Conns : StopJoin(c)
    BY <2>6 DEF Inv, TypeOK, FrameKinds, RunnerStates, WorkerStates, StopStates, None
  <2>7. CASE StopReturns
    BY <2>7 DEF Inv, TypeOK, FrameKinds, RunnerStates, WorkerStates, StopStates, None
  <2> QED
    BY <2>1, <2>2, <2>3, <2>4, <2>5, <2>6, <2>7
<1>2. SlotsReturned'
  BY NoneAssumption
  DEF Inv, SlotsReturned, TypeOK, UnservedYet, Threads
<1>3. QuietAfterStop'
  BY NoneAssumption
  DEF Inv, QuietAfterStop, TypeOK, StopHolds, PhaseFits, CallerFits, Serving
<1>4. JoinedAtEnd'
  BY NoneAssumption
  DEF Inv, JoinedAtEnd, TypeOK, HandlesKept, CallerFits, PhaseFits, Serving,
      Threads
<1>5. UnservedYet'
  BY NoneAssumption
  DEF Inv, UnservedYet, TypeOK, Threads
<1>6. HandlesKept'
  BY NoneAssumption
  DEF Inv, HandlesKept, TypeOK, Threads
<1>7. StopHolds'
  BY NoneAssumption
  DEF Inv, StopHolds, TypeOK, HandlesKept, CallerFits, PhaseFits, Serving,
      Threads, UnservedYet
<1>8. CallerFits'
  BY NoneAssumption
  DEF Inv, CallerFits, TypeOK, PhaseFits
<1>9. PhaseFits'
  BY NoneAssumption
  DEF Inv, PhaseFits, TypeOK, QuietAfterStop, UnservedYet, StopHolds,
      HandlesKept, CallerFits, Serving, Threads
<1>10. WithinLimits'
  <2>1. \A d \in Conns : Serving(d)' => served'[d] < MaxRequests
    BY NoneAssumption DEF Inv, TypeOK, WithinLimits, Serving, UnservedYet
  <2>2. connections' \subseteq connections /\ UNCHANGED limit
    OBVIOUS
  <2> QED  BY <2>1, <2>2, Fewer DEF Inv, WithinLimits
<1> QED  BY <1>1, <1>2, <1>3, <1>4, <1>5, <1>6, <1>7, <1>8, <1>9, <1>10 DEF Inv

\* main's last save.
LEMMA SaveStep ==
  ASSUME Inv, Save
  PROVE  Inv'
<1> USE DEF Save, netVars, runVars, conVars, stopVars, hostVars
<1>1. TypeOK'
  BY DEF Inv, TypeOK, FrameKinds, RunnerStates, WorkerStates, StopStates, None
<1>2. SlotsReturned'
  BY NoneAssumption
  DEF Inv, SlotsReturned, TypeOK, UnservedYet, Threads
<1>3. QuietAfterStop'
  BY NoneAssumption
  DEF Inv, QuietAfterStop, TypeOK, StopHolds, PhaseFits, CallerFits, Serving
<1>4. JoinedAtEnd'
  BY NoneAssumption
  DEF Inv, JoinedAtEnd, TypeOK, HandlesKept, CallerFits, PhaseFits, Serving,
      Threads
<1>5. UnservedYet'
  BY NoneAssumption
  DEF Inv, UnservedYet, TypeOK, Threads
<1>6. HandlesKept'
  BY NoneAssumption
  DEF Inv, HandlesKept, TypeOK, Threads
<1>7. StopHolds'
  BY NoneAssumption
  DEF Inv, StopHolds, TypeOK, HandlesKept, CallerFits, PhaseFits, Serving,
      Threads, UnservedYet
<1>8. CallerFits'
  BY NoneAssumption
  DEF Inv, CallerFits, TypeOK, PhaseFits
<1>9. PhaseFits'
  BY NoneAssumption
  DEF Inv, PhaseFits, TypeOK, QuietAfterStop, UnservedYet, StopHolds,
      HandlesKept, CallerFits, Serving, Threads
<1>10. WithinLimits'
  <2>1. \A d \in Conns : Serving(d)' => served'[d] < MaxRequests
    BY NoneAssumption DEF Inv, TypeOK, WithinLimits, Serving, UnservedYet
  <2>2. connections' \subseteq connections /\ UNCHANGED limit
    OBVIOUS
  <2> QED  BY <2>1, <2>2, Fewer DEF Inv, WithinLimits
<1> QED  BY <1>1, <1>2, <1>3, <1>4, <1>5, <1>6, <1>7, <1>8, <1>9, <1>10 DEF Inv

-----------------------------------------------------------------------------
(* The invariants.                                                         *)

LEMMA Invariance == Spec => []Inv
<1>1. Inv /\ [Next]_vars => Inv'
  <2> SUFFICES ASSUME Inv, [Next]_vars PROVE Inv'
    OBVIOUS
  <2>1. CASE UNCHANGED vars
    BY <2>1
    DEF vars, netVars, runVars, conVars, stopVars, hostVars, Inv, TypeOK, SlotsReturned,
        QuietAfterStop, JoinedAtEnd, UnservedYet, HandlesKept, StopHolds, CallerFits,
        PhaseFits, WithinLimits, Serving, Threads
  <2> QED
    BY <2>1, ClientStep, RunnerSteps, WorkerSteps, CallStep, StopSteps, SaveStep DEF Next
<1> QED  BY InitInv, <1>1, PTL DEF Spec

\* Every variable keeps its type.
THEOREM TypeCorrect == Spec => []TypeOK
<1>1. Inv => TypeOK
  BY DEF Inv
<1> QED  BY Invariance, <1>1, PTL

\* No place in connections_ is lost, whatever way a thread ends.
THEOREM SlotsKept == Spec => []SlotsReturned
<1>1. Inv => SlotsReturned
  BY DEF Inv
<1> QED  BY Invariance, <1>1, PTL

\* There are never more threads at work than max_connections.
THEOREM BudgetKept == Spec => []ThreadBudget
<1>1. Inv => ThreadBudget
  <2> SUFFICES ASSUME Inv PROVE Cardinality(Threads) <= limit
    BY DEF ThreadBudget
  <2>1. Threads \in SUBSET connections /\ connections \in SUBSET Conns
    BY DEF Inv, TypeOK, SlotsReturned
  <2>2. /\ Cardinality(Threads) \in Nat /\ Cardinality(connections) \in Nat
        /\ Cardinality(Threads) <= Cardinality(connections)
    BY <2>1, Counted
  <2>3. Cardinality(connections) <= limit /\ limit \in Nat
    BY ServerAssumption DEF Inv, TypeOK, WithinLimits
  <2> QED  BY <2>2, <2>3
<1> QED  BY Invariance, <1>1, PTL

\* Once a stop() has returned nobody is served.
THEOREM QuietOnceStopped == Spec => []QuietAfterStop
<1>1. Inv => QuietAfterStop
  BY DEF Inv
<1> QED  BY Invariance, <1>1, PTL

\* The destroyed server leaves no thread behind.
THEOREM NobodyLeft == Spec => []JoinedAtEnd
<1>1. Inv => JoinedAtEnd
  BY DEF Inv
<1> QED  BY Invariance, <1>1, PTL

\* The daemon's last save misses no request.
THEOREM LastSaveIsLast == Spec => []NothingLostOnStop
<1>1. Inv => NothingLostOnStop
  BY DEF Inv, PhaseFits, NothingLostOnStop
<1> QED  BY Invariance, <1>1, PTL

-----------------------------------------------------------------------------
(* The server implements Service: every step is one of its steps or a      *)
(* stutter.                                                                *)

Busy == {c \in Conns : worker[c] = "dispatching"}
Seen == IF phase = "saved" THEN "stopped" ELSE phase

\* A step of Service that the owner can see, in the server's terms.
LEMMA Stutters ==
  ASSUME Seen' = Seen, Threads' = Threads, Busy' = Busy
  PROVE  [Abstract!SNext]_(Abstract!svars)
  BY DEF Abstract!svars, Seen, Busy

LEMMA RunnerImplements ==
  ASSUME Inv, RunnerStep
  PROVE  [Abstract!SNext]_(Abstract!svars)
<1> USE DEF netVars, runVars, conVars, stopVars, hostVars
<1>1. CASE Emplace
  <2>1. cur \in Conns \ Threads /\ Seen # "gone"
    BY <1>1 DEF Emplace, Inv, UnservedYet, JoinedAtEnd, Threads, Seen
  <2>2. Threads' = Threads \cup {cur} /\ Busy' = Busy /\ Seen' = Seen
    BY <1>1, <2>1 DEF Emplace, Inv, TypeOK, Threads, Busy, Seen
  <2>3. Abstract!Take(cur)
    BY <2>1, <2>2 DEF Abstract!Take, Seen, Busy
  <2> QED  BY <2>1, <2>3 DEF Abstract!SNext
<1>2. CASE StartFails
  <2>1. Seen = "up" /\ Busy = {}
    BY <1>2 DEF StartFails, Inv, UnservedYet, PhaseFits, Threads, Seen, Busy
  <2>2. Seen' = "stopped" /\ Busy' = Busy /\ Threads' = Threads
    BY <1>2 DEF StartFails, Threads, Seen, Busy
  <2>3. Abstract!Stopped
    BY <2>1, <2>2 DEF Abstract!Stopped, Seen, Busy
  <2> QED  BY <2>3 DEF Abstract!SNext
<1>3. CASE RunnerStep /\ ~Emplace /\ ~StartFails
  <2>1. UNCHANGED <<phase, worker>>
    BY <1>3
    DEF RunnerStep, Start, Enter, Loop, Accept, AcceptFails, AcceptClosed,
        LockConnections, Push, LockWorkers
  <2> QED  BY <2>1, Stutters DEF Seen, Threads, Busy
<1> QED  BY <1>1, <1>2, <1>3

LEMMA WorkerImplements ==
  ASSUME Inv, NEW c \in Conns, WorkerStep(c)
  PROVE  [Abstract!SNext]_(Abstract!svars)
<1> USE DEF netVars, runVars, conVars, stopVars, hostVars
<1>1. Seen' = Seen /\ \A d \in Conns \ {c} : worker'[d] = worker[d]
  BY DEF WorkerStep, Check, Read, ReadFails, Dispatch, Write, WriteFails, Refuse, Close,
         Erase, Goto, Seen, Inv, TypeOK
<1>2. CASE Read(c) /\ inbox[c] = "request"
  <2>1. c \in Threads \ Busy /\ Seen = "up"
    BY <1>2 DEF Read, Inv, PhaseFits, Serving, Threads, Busy, Seen
  <2>2. Busy' = Busy \cup {c} /\ Threads' = Threads
    BY <1>1, <1>2 DEF Read, Inv, TypeOK, Threads, Busy
  <2>3. Abstract!Enter(c)
    BY <1>1, <2>1, <2>2 DEF Abstract!Enter, Seen, Busy
  <2> QED  BY <2>3 DEF Abstract!SNext
<1>3. CASE Dispatch(c)
  <2>1. c \in Busy
    BY <1>3 DEF Dispatch, Busy
  <2>2. Busy' = Busy \ {c} /\ Threads' = Threads
    BY <1>1, <1>3 DEF Dispatch, Inv, TypeOK, Threads, Busy
  <2>3. Abstract!Leave(c)
    BY <1>1, <2>1, <2>2 DEF Abstract!Leave, Seen, Busy
  <2> QED  BY <2>3 DEF Abstract!SNext
<1>4. CASE Erase(c)
  <2>1. c \in Threads \ Busy
    BY <1>4 DEF Erase, Threads, Busy
  <2>2. Busy' = Busy /\ Threads' = Threads \ {c}
    BY <1>1, <1>4 DEF Erase, Inv, TypeOK, Threads, Busy
  <2>3. Abstract!End(c)
    BY <1>1, <2>1, <2>2 DEF Abstract!End, Seen, Busy
  <2> QED  BY <2>3 DEF Abstract!SNext
<1>5. CASE ~(Read(c) /\ inbox[c] = "request") /\ ~Dispatch(c) /\ ~Erase(c)
  <2>1. /\ worker[c] \notin {"none", "ended", "dispatching"}
        /\ worker'[c] \notin {"none", "ended", "dispatching"}
    BY <1>5
    DEF WorkerStep, Check, Read, ReadFails, Write, WriteFails, Refuse, Close, Goto, Inv,
        TypeOK, None
  <2> QED  BY <1>1, <2>1, Stutters DEF Threads, Busy
<1> QED  BY <1>2, <1>3, <1>4, <1>5

LEMMA StopImplements ==
  ASSUME Inv, StopStep
  PROVE  [Abstract!SNext]_(Abstract!svars)
<1> USE DEF netVars, runVars, conVars, stopVars, hostVars
<1>1. UNCHANGED worker
  BY DEF StopStep, StopFlag, StopListener, StopCopy, StopClose, StopSwap, StopJoin,
         StopReturns
<1>2. Threads' = Threads /\ Busy' = Busy
  BY <1>1 DEF Threads, Busy
<1>3. CASE StopReturns /\ caller = "destructor"
  <2>1. Seen = "stopped" /\ Threads = {} /\ Seen' = "gone"
    BY <1>3 DEF StopReturns, Inv, CallerFits, HandlesKept, Seen
  <2>2. Abstract!Destroyed
    BY <1>2, <2>1 DEF Abstract!Destroyed, Seen, Busy
  <2> QED  BY <2>2 DEF Abstract!SNext
<1>4. CASE StopReturns /\ caller \in {"owner", "main"}
  <2>1. Seen = "up" /\ Busy = {} /\ Seen' = "stopped"
    BY <1>4 DEF StopReturns, Inv, CallerFits, StopHolds, Serving, Seen, Busy
  <2>2. Abstract!Stopped
    BY <1>2, <2>1 DEF Abstract!Stopped, Seen, Busy
  <2> QED  BY <2>2 DEF Abstract!SNext
<1>5. CASE ~(StopReturns /\ caller # "handler")
  <2>1. UNCHANGED phase
    BY <1>5
    DEF StopStep, StopFlag, StopListener, StopCopy, StopClose, StopSwap, StopJoin,
        StopReturns
  <2> QED  BY <1>2, <2>1, Stutters DEF Seen
<1>6. StopReturns => caller \in {"handler", "destructor", "owner", "main"}
  BY DEF StopReturns, Inv, CallerFits
<1> QED  BY <1>3, <1>4, <1>5, <1>6

\* Whatever the threads do, the owner sees the service it relies on.
THEOREM Refines == Spec => ImplementsService
<1>1. Init => Abstract!SInit
  BY DEF Init, Abstract!SInit, Threads
<1>2. Inv /\ [Next]_vars => [Abstract!SNext]_(Abstract!svars)
  <2> SUFFICES ASSUME Inv, [Next]_vars PROVE [Abstract!SNext]_(Abstract!svars)
    OBVIOUS
  <2> USE DEF netVars, runVars, conVars, stopVars, hostVars
  <2>1. ASSUME NEW c \in Conns, Connect(c) \/ Send(c)
        PROVE  [Abstract!SNext]_(Abstract!svars)
    <3>1. UNCHANGED <<phase, worker>>
      BY <2>1 DEF Connect, Send
    <3> QED  BY <3>1, Stutters DEF Seen, Threads, Busy
  <2>2. CASE CallStop \/ UNCHANGED vars
    <3>1. UNCHANGED <<phase, worker>>
      BY <2>2 DEF CallStop, vars
    <3> QED  BY <3>1, Stutters DEF Seen, Threads, Busy
  <2>3. CASE Save
    <3>1. Seen' = Seen /\ UNCHANGED worker
      BY <2>3 DEF Save, Seen
    <3> QED  BY <3>1, Stutters DEF Threads, Busy
  <2> QED
    BY <2>1, <2>2, <2>3, RunnerImplements, WorkerImplements, StopImplements DEF Next
<1> QED
  BY Invariance, <1>1, <1>2, PTL DEF Spec, ImplementsService, Abstract!SSpec
=============================================================================
