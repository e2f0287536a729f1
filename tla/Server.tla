------------------------------- MODULE Server -------------------------------
(***************************************************************************)
(* wire::Server: the accept loop, one thread per connection and stop(),    *)
(* in the two ways the repository hosts it.                                *)
(*                                                                         *)
(*   "daemon"  (tools/server_main.cpp): main installs the signal handlers, *)
(*             calls start() and run(), and after run() has returned calls *)
(*             stop(), saves the snapshot and destroys the server.  A      *)
(*             signal handler interrupts main and calls stop() itself.     *)
(*   "library" (the tests): an owner thread calls start(), a second thread *)
(*             run()s; the owner calls stop(), joins the second thread and *)
(*             destroys the server.                                        *)
(*                                                                         *)
(* The thread inside run() is "the runner"; in the daemon it is main.      *)
(* connections_mutex_ is held by the runner exactly in "pushing" and       *)
(* worker_mutex_ exactly in "emplacing"; every other critical section is   *)
(* one step.  A connection is used once.  The handler is delivered to main *)
(* and at most once, and not while main itself is inside stop().           *)
(***************************************************************************)
EXTENDS Naturals, FiniteSets

CONSTANTS
    Conns,            \* connections clients may open
    Hosts,            \* the hostings to consider, of {"library", "daemon"}
    Limits,           \* the values of options_.max_connections to consider
    MaxRequests       \* options_.max_requests_per_connection

ASSUME ServerAssumption ==
    /\ IsFiniteSet(Conns)
    /\ Hosts \subseteq {"library", "daemon"}
    /\ Limits \subseteq Nat
    /\ MaxRequests \in Nat

None == "none"

ASSUME NoneAssumption == None \notin Conns

\* What a client may send: a frame the server dispatches (request, ping or
\* hello), a frame of another type, or an end of the conversation (a shutdown
\* frame, bytes that do not decode, the end of the stream).
FrameKinds == {"request", "other", "end"}

VARIABLES
    host,        \* how the server is hosted
    limit,       \* options_.max_connections
    running,     \* running_
    stopping,    \* stopping_
    listener,    \* listener_ holds an open handle
    runner,      \* where the thread in start() and run() is
    cur,         \* the connection the runner has accepted
    backlog,     \* connections the listener has queued
    inbox,       \* the frame that waits on a connection, or None
    connections, \* connections_
    closed,      \* connections whose socket close() has shut
    workers,     \* workers_
    worker,      \* where the thread of a connection is
    served,      \* requests it has answered
    stopPc,      \* where stop() is, "idle" when nobody is in it
    caller,      \* who called it
    toClose,     \* its copy of connections_
    toJoin,      \* its copy of workers_
    phase,       \* "up", "stopped" (the host's stop() is back), "saved", "gone"
    signalled,   \* a signal has been delivered
    heeded,      \* it found the server started and main without a mutex
    dirty        \* a request was applied after the last save

netVars == <<listener, backlog, inbox>>
runVars == <<runner, cur, running>>
conVars == <<connections, closed, workers, worker, served>>
stopVars == <<stopPc, caller, toClose, toJoin>>
hostVars == <<host, limit, phase, signalled, heeded>>
vars == <<netVars, runVars, conVars, stopVars, hostVars, stopping, dirty>>

RunnerStates ==
    {"start", "enter", "loop", "accepting", "accepted", "pushing", "pushed",
     "emplacing", "ended"}
WorkerStates ==
    {"none", "check", "reading", "dispatching", "writing", "refusing",
     "closing", "erasing", "ended"}
StopStates == {"idle", "flag", "listener", "copy", "close", "swap", "join"}

Init ==
    /\ host \in Hosts /\ limit \in Limits
    /\ running = FALSE /\ stopping = FALSE /\ listener = FALSE
    /\ runner = "start" /\ cur = None
    /\ backlog = {}
    /\ inbox = [c \in Conns |-> None]
    /\ connections = {} /\ closed = {} /\ workers = {}
    /\ worker = [c \in Conns |-> "none"]
    /\ served = [c \in Conns |-> 0]
    /\ stopPc = "idle" /\ caller = None /\ toClose = {} /\ toJoin = {}
    /\ phase = "up" /\ signalled = FALSE /\ heeded = FALSE
    /\ dirty = FALSE

Threads == {c \in Conns : worker[c] \notin {"none", "ended"}}

(***************************************************************************)
(* Clients and the kernel.                                                 *)
(***************************************************************************)

\* A client connects: the kernel queues the connection on the listener.
Connect(c) ==
    /\ listener
    /\ worker[c] = "none" /\ c \notin backlog \cup closed /\ c # cur
    /\ backlog' = backlog \cup {c}
    /\ UNCHANGED <<listener, inbox, runVars, conVars, stopVars, hostVars,
                   stopping, dirty>>

\* A client sends a frame, or closes its end.
Send(c) ==
    /\ worker[c] \notin {"none", "ended"}
    /\ inbox[c] = None
    /\ \E k \in FrameKinds : inbox' = [inbox EXCEPT ![c] = k]
    /\ UNCHANGED <<listener, backlog, runVars, conVars, stopVars, hostVars,
                   stopping, dirty>>

(***************************************************************************)
(* start() and run().  While the signal handler is inside stop(), main     *)
(* does not move.                                                          *)
(***************************************************************************)

Interrupted == stopPc # "idle" /\ caller = "handler"

\* start() binds the listener and clears stopping_.
Start ==
    /\ runner = "start" /\ ~Interrupted
    /\ listener' = TRUE /\ stopping' = FALSE /\ running' = TRUE
    /\ runner' = "enter"
    /\ UNCHANGED <<backlog, inbox, cur, conVars, stopVars, hostVars, dirty>>

\* start() refuses the address or fails to bind it; or it fails to write the
\* ready file, with the listener bound and running_ set.  The host gives up
\* and destroys the server; the daemon saves nothing.
StartFails ==
    /\ runner = "start" /\ ~Interrupted
    /\ \/ UNCHANGED <<listener, stopping, running>>
       \/ listener' = TRUE /\ stopping' = FALSE /\ running' = TRUE
    /\ runner' = "ended"
    /\ phase' = IF host = "daemon" THEN "saved" ELSE "stopped"
    /\ UNCHANGED <<backlog, inbox, cur, conVars, stopVars, host, limit,
                   signalled, heeded, dirty>>

\* run() begins: refused when the server is not running any more.
Enter ==
    /\ runner = "enter" /\ ~Interrupted
    /\ runner' = IF running THEN "loop" ELSE "ended"
    /\ UNCHANGED <<cur, running, netVars, conVars, stopVars, hostVars,
                   stopping, dirty>>

\* The loop condition; running_ is cleared behind the loop.
Loop ==
    /\ runner = "loop" /\ ~Interrupted
    /\ runner' = IF stopping THEN "ended" ELSE "accepting"
    /\ running' = (running /\ ~stopping)
    /\ UNCHANGED <<cur, netVars, conVars, stopVars, hostVars, stopping, dirty>>

\* Listener::accept() returns a queued connection.
Accept ==
    /\ runner = "accepting" /\ ~Interrupted
    /\ listener
    /\ \E c \in backlog : cur' = c /\ backlog' = backlog \ {c}
    /\ runner' = "accepted"
    /\ UNCHANGED <<listener, inbox, running, conVars, stopVars, hostVars,
                   stopping, dirty>>

\* accept() fails although the listener is open: the loop goes on.
AcceptFails ==
    /\ runner = "accepting" /\ ~Interrupted
    /\ listener
    /\ runner' = "loop"
    /\ UNCHANGED <<cur, running, netVars, conVars, stopVars, hostVars,
                   stopping, dirty>>

\* accept() finds the listener closed: it polls the handle, so it returns.
AcceptClosed ==
    /\ runner = "accepting" /\ ~Interrupted
    /\ ~listener
    /\ runner' = "ended" /\ running' = FALSE
    /\ UNCHANGED <<cur, netVars, conVars, stopVars, hostVars, stopping, dirty>>

LockConnections ==
    /\ runner = "accepted" /\ ~Interrupted
    /\ runner' = "pushing"
    /\ UNCHANGED <<cur, running, netVars, conVars, stopVars, hostVars,
                   stopping, dirty>>

\* Mutant: the limit is checked before the connection is added.
PushOffByOne ==
    /\ runner = "pushing" /\ ~Interrupted
    /\ IF Cardinality(connections) > limit
       THEN closed' = closed \cup {cur} /\ runner' = "loop" /\ cur' = None
            /\ UNCHANGED connections
       ELSE connections' = connections \cup {cur} /\ runner' = "pushed"
            /\ UNCHANGED <<closed, cur>>
    /\ UNCHANGED <<running, netVars, workers, worker, served, stopVars,
                   hostVars, stopping, dirty>>

\* Under the lock: the connection is added, and taken out and closed again
\* when there are now more than max_connections of them.
Push ==
    /\ runner = "pushing" /\ ~Interrupted
    /\ IF Cardinality(connections \cup {cur}) > limit
       THEN closed' = closed \cup {cur} /\ runner' = "loop" /\ cur' = None
            /\ UNCHANGED connections
       ELSE connections' = connections \cup {cur} /\ runner' = "pushed"
            /\ UNCHANGED <<closed, cur>>
    /\ UNCHANGED <<running, netVars, workers, worker, served, stopVars,
                   hostVars, stopping, dirty>>

LockWorkers ==
    /\ runner = "pushed" /\ ~Interrupted
    /\ runner' = "emplacing"
    /\ UNCHANGED <<cur, running, netVars, conVars, stopVars, hostVars,
                   stopping, dirty>>

\* The thread is started and kept in workers_, whatever stop() did meanwhile.
Emplace ==
    /\ runner = "emplacing" /\ ~Interrupted
    /\ workers' = workers \cup {cur}
    /\ worker' = [worker EXCEPT ![cur] = "check"]
    /\ runner' = "loop" /\ cur' = None
    /\ UNCHANGED <<running, netVars, connections, closed, served, stopVars,
                   hostVars, stopping, dirty>>

(***************************************************************************)
(* serve_connection, on the connection's own thread.                       *)
(***************************************************************************)

\* Moves of a thread that touch nothing but where it is.
Goto(c, from, to) ==
    /\ worker[c] = from
    /\ worker' = [worker EXCEPT ![c] = to]
    /\ UNCHANGED <<netVars, runVars, connections, closed, workers, served,
                   stopVars, hostVars, stopping, dirty>>

\* Mutant: the loop only looks at the request limit.
CheckNotStopping(c) ==
    Goto(c, "check",
         IF served[c] >= MaxRequests THEN "closing" ELSE "reading")

\* The loop condition.
Check(c) ==
    Goto(c, "check",
         IF stopping \/ served[c] >= MaxRequests THEN "closing" ELSE "reading")

\* read_frame returns a frame.  Bytes that arrived before the socket was shut
\* may still be read after it.
Read(c) ==
    /\ worker[c] = "reading"
    /\ inbox[c] # None
    /\ worker' = [worker EXCEPT ![c] =
                    CASE inbox[c] = "request" -> "dispatching"
                      [] inbox[c] = "other"   -> "refusing"
                      [] OTHER                -> "closing"]
    /\ inbox' = [inbox EXCEPT ![c] = None]
    /\ UNCHANGED <<listener, backlog, runVars, connections, closed, workers,
                   served, stopVars, hostVars, stopping, dirty>>

\* recv on a socket that was shut returns.
ReadFails(c) == c \in closed /\ Goto(c, "reading", "closing")

\* dispatch(): the request is applied to the registry.
Dispatch(c) ==
    /\ worker[c] = "dispatching"
    /\ worker' = [worker EXCEPT ![c] = "writing"]
    /\ dirty' = TRUE
    /\ UNCHANGED <<netVars, runVars, connections, closed, workers, served,
                   stopVars, hostVars, stopping>>

\* write_frame succeeds: the client has taken the reply.
Write(c) ==
    /\ worker[c] = "writing"
    /\ worker' = [worker EXCEPT ![c] = "check"]
    /\ served' = [served EXCEPT ![c] = @ + 1]
    /\ UNCHANGED <<netVars, runVars, connections, closed, workers, stopVars,
                   hostVars, stopping, dirty>>

\* write_frame fails: the reply is too large, the peer is gone or the socket
\* was shut.
WriteFails(c) == Goto(c, "writing", "closing")

\* A frame of the wrong type is answered with a failure, sent or not.
Refuse(c) == Goto(c, "refusing", "closing")

Close(c) ==
    /\ worker[c] = "closing"
    /\ worker' = [worker EXCEPT ![c] = "erasing"]
    /\ closed' = closed \cup {c}
    /\ UNCHANGED <<netVars, runVars, connections, workers, served, stopVars,
                   hostVars, stopping, dirty>>

\* Mutant: the connection is closed and never taken out of connections_.
EraseForgotten(c) ==
    /\ worker[c] = "erasing" /\ runner # "pushing"
    /\ worker' = [worker EXCEPT ![c] = "ended"]
    /\ UNCHANGED <<netVars, runVars, connections, closed, workers, served,
                   stopVars, hostVars, stopping, dirty>>

Erase(c) ==
    /\ worker[c] = "erasing" /\ runner # "pushing"
    /\ worker' = [worker EXCEPT ![c] = "ended"]
    /\ connections' = connections \ {c}
    /\ UNCHANGED <<netVars, runVars, closed, workers, served, stopVars,
                   hostVars, stopping, dirty>>

(***************************************************************************)
(* stop(), called by the owner, main, the handler or ~Server.              *)
(***************************************************************************)

\* The owner of a library server calls stop() when it likes, once start()
\* has returned.
OwnerStops ==
    /\ host = "library" /\ phase = "up" /\ runner # "start"
    /\ caller = None

\* main calls stop() when run() has returned.
MainStops ==
    /\ host = "daemon" /\ phase = "up" /\ runner = "ended"

\* Mutant: the owner does not wait for run() to return.
DestroyedEarly ==
    /\ \/ host = "library" /\ phase = "stopped"
       \/ host = "daemon" /\ phase = "saved"

\* The destructor: of a library server once the runner is joined, of the
\* daemon's when main leaves its scope.
Destroyed ==
    /\ runner = "ended"
    /\ \/ host = "library" /\ phase = "stopped"
       \/ host = "daemon" /\ phase = "saved"

\* A signal interrupts main, once: the handlers are installed before start().
SignalArrives ==
    /\ host = "daemon" /\ phase = "up" /\ ~signalled

CallStop ==
    /\ stopPc = "idle"
    /\ stopPc' = "flag"
    /\ \/ OwnerStops /\ caller' = "owner" /\ UNCHANGED <<signalled, heeded>>
       \/ MainStops /\ caller' = "main" /\ UNCHANGED <<signalled, heeded>>
       \/ Destroyed /\ caller' = "destructor" /\ UNCHANGED <<signalled, heeded>>
       \/ /\ SignalArrives /\ caller' = "handler"
          /\ signalled' = TRUE
          /\ heeded' = (runner \notin {"start", "pushing", "emplacing"})
    /\ UNCHANGED <<netVars, runVars, conVars, toClose, toJoin, host, limit,
                   phase, stopping, dirty>>

StopFlag ==
    /\ stopPc = "flag"
    /\ stopping' = TRUE /\ stopPc' = "listener"
    /\ UNCHANGED <<netVars, runVars, conVars, caller, toClose, toJoin,
                   hostVars, dirty>>

\* The listener is closed, and with it goes what it had queued.
StopListener ==
    /\ stopPc = "listener"
    /\ listener' = FALSE /\ backlog' = {} /\ stopPc' = "copy"
    /\ UNCHANGED <<inbox, runVars, conVars, caller, toClose, toJoin, hostVars,
                   stopping, dirty>>

\* connections_mutex_ must be free: the handler waits for it on the thread
\* that holds it.
StopCopy ==
    /\ stopPc = "copy" /\ runner # "pushing"
    /\ toClose' = connections /\ stopPc' = "close"
    /\ UNCHANGED <<netVars, runVars, conVars, caller, toJoin, hostVars,
                   stopping, dirty>>

\* Mutant: the sockets are not shut, the workers are only waited for.
StopCloseNothing ==
    /\ stopPc = "close"
    /\ toClose' = {} /\ stopPc' = "swap"
    /\ UNCHANGED <<netVars, runVars, conVars, caller, toJoin, hostVars,
                   stopping, dirty>>

\* The copied connections are closed one by one.
StopClose ==
    /\ stopPc = "close"
    /\ IF toClose = {}
       THEN stopPc' = "swap" /\ UNCHANGED <<toClose, closed>>
       ELSE /\ \E c \in toClose : /\ toClose' = toClose \ {c}
                                  /\ closed' = closed \cup {c}
            /\ UNCHANGED stopPc
    /\ UNCHANGED <<netVars, runVars, connections, workers, worker, served,
                   caller, toJoin, hostVars, stopping, dirty>>

StopSwap ==
    /\ stopPc = "swap" /\ runner # "emplacing"
    /\ toJoin' = workers /\ workers' = {} /\ stopPc' = "join"
    /\ UNCHANGED <<netVars, runVars, connections, closed, worker, served,
                   caller, toClose, hostVars, stopping, dirty>>

\* Mutant: stop() lets the threads go instead of joining them.
StopJoinDetached(c) ==
    /\ stopPc = "join" /\ c \in toJoin
    /\ toJoin' = toJoin \ {c}
    /\ UNCHANGED <<netVars, runVars, conVars, stopPc, caller, toClose,
                   hostVars, stopping, dirty>>

\* join() returns when the thread has ended.
StopJoin(c) ==
    /\ stopPc = "join" /\ c \in toJoin
    /\ worker[c] = "ended"
    /\ toJoin' = toJoin \ {c}
    /\ UNCHANGED <<netVars, runVars, conVars, stopPc, caller, toClose,
                   hostVars, stopping, dirty>>

\* stop() returns to its caller.
StopReturns ==
    /\ stopPc = "join" /\ toJoin = {}
    /\ stopPc' = "idle" /\ running' = FALSE
    /\ phase' = CASE caller = "handler"    -> phase
                  [] caller = "destructor" -> "gone"
                  [] OTHER                 -> "stopped"
    /\ UNCHANGED <<netVars, runner, cur, conVars, caller, toClose, toJoin,
                   host, limit, signalled, heeded, stopping, dirty>>

\* main's last save, after its stop().
Save ==
    /\ host = "daemon" /\ phase = "stopped" /\ stopPc = "idle"
    /\ phase' = "saved" /\ dirty' = FALSE
    /\ UNCHANGED <<netVars, runVars, conVars, stopVars, host, limit,
                   signalled, heeded, stopping>>

-----------------------------------------------------------------------------
RunnerStep ==
    \/ Start \/ StartFails \/ Enter \/ Loop \/ Accept \/ AcceptFails
    \/ AcceptClosed \/ LockConnections \/ Push \/ LockWorkers \/ Emplace

WorkerStep(c) ==
    \/ Check(c) \/ Read(c) \/ ReadFails(c) \/ Dispatch(c) \/ Write(c)
    \/ WriteFails(c) \/ Refuse(c) \/ Close(c) \/ Erase(c)

StopStep ==
    \/ StopFlag \/ StopListener \/ StopCopy \/ StopClose \/ StopSwap
    \/ (\E c \in Conns : StopJoin(c)) \/ StopReturns

Next ==
    \/ \E c \in Conns : Connect(c) \/ Send(c) \/ WorkerStep(c)
    \/ RunnerStep
    \/ CallStop
    \/ StopStep
    \/ Save

Spec == Init /\ [][Next]_vars

(***************************************************************************)
(* Fairness: the scheduler keeps running every thread that is not blocked. *)
(* A thread blocked on its peer is not promised anything: a read returns   *)
(* by itself only on a socket that was shut, and so does a write.          *)
(***************************************************************************)
WorkerOwn(c) ==
    \/ Check(c) \/ ReadFails(c) \/ Dispatch(c) \/ Close(c) \/ Erase(c)
    \/ c \in closed /\ (WriteFails(c) \/ Refuse(c))

\* What the host does by itself; when the owner stops the server, and whether
\* a signal comes, is not up to the program.
HostOwn == (CallStop /\ caller' \in {"main", "destructor"}) \/ Save

Fairness ==
    /\ WF_vars(RunnerStep)
    /\ \A c \in Conns : WF_vars(WorkerOwn(c))
    /\ WF_vars(StopStep)
    /\ WF_vars(HostOwn)

FairSpec == Spec /\ Fairness

-----------------------------------------------------------------------------
\* Every variable keeps its type.
TypeOK ==
    /\ host \in Hosts /\ limit \in Limits
    /\ {running, stopping, listener, signalled, heeded, dirty}
         \subseteq BOOLEAN
    /\ runner \in RunnerStates
    /\ cur \in Conns \cup {None}
    /\ backlog \subseteq Conns
    /\ inbox \in [Conns -> FrameKinds \cup {None}]
    /\ connections \subseteq Conns /\ closed \subseteq Conns
    /\ workers \subseteq Conns
    /\ worker \in [Conns -> WorkerStates]
    /\ served \in [Conns -> 0..MaxRequests]
    /\ stopPc \in StopStates
    /\ caller \in {None, "owner", "main", "handler", "destructor"}
    /\ toClose \subseteq Conns /\ toJoin \subseteq Conns
    /\ phase \in {"up", "stopped", "saved", "gone"}

\* max_connections bounds the threads that serve, not only the list: the
\* limit is checked on connections_ and a thread leaves that list only as its
\* last act.
ThreadBudget == Cardinality(Threads) <= limit

\* A place in connections_ is never lost: whatever way a thread ends, every
\* entry belongs to a thread that still runs or is about to be started.
SlotsReturned ==
    connections = Threads \cup
        (IF runner \in {"pushed", "emplacing"} THEN {cur} ELSE {})

\* Once a stop() has returned nobody reads, applies or answers a request, even
\* though a connection accepted meanwhile may still be given a thread.
QuietAfterStop ==
    stopping /\ stopPc = "idle" =>
        \A c \in Conns :
            worker[c] \notin {"reading", "dispatching", "writing", "refusing"}

\* When the server object is gone no thread uses it and no joinable thread is
\* left in workers_ (which would terminate the process), although stop() may
\* have been called while the accept loop was adding a worker.
JoinedAtEnd ==
    phase = "gone" => runner = "ended" /\ Threads = {} /\ workers = {}

\* The daemon's last save is of the final state: no request is applied after
\* it, so a graceful stop loses nothing.
NothingLostOnStop == host = "daemon" /\ phase = "gone" => ~dirty

\* The server implements the service its owner relies on.
Abstract == INSTANCE Service WITH
    phase <- IF phase = "saved" THEN "stopped" ELSE phase,
    active <- Threads,
    busy <- {c \in Conns : worker[c] = "dispatching"}

ImplementsService == Abstract!SSpec

\* stop() comes back and the server goes away, whatever the clients do or fail
\* to do: for an owner that calls it at any time, and for a signal that finds
\* the daemon started and its main thread without a mutex.
StopCompletes ==
    (host = "library" /\ stopping) \/ heeded ~> phase = "gone"

-----------------------------------------------------------------------------
(* What makes the invariants above inductive.                              *)

Serving(c) == worker[c] \in {"reading", "dispatching", "writing", "refusing"}

\* A connection the runner has in hand, or the listener in its queue, has no
\* thread yet; before start() nothing has.
UnservedYet ==
    /\ runner \in {"accepted", "pushing", "pushed", "emplacing"} =>
         cur \in Conns /\ worker[cur] = "none" /\ cur \notin backlog
    /\ \A c \in backlog : worker[c] = "none"
    /\ runner = "start" => Threads = {} /\ ~dirty

\* Every thread that runs has a handle that a stop() will join.
HandlesKept ==
    /\ Threads \subseteq workers \cup toJoin
    /\ stopPc # "join" => toJoin = {}

\* From its first step on a stop() keeps threads from reading again, and the
\* ones that still do are among those it joins.
StopHolds ==
    /\ stopPc \notin {"idle", "flag"} => stopping
    /\ stopPc = "join" => \A c \in Conns : Serving(c) => c \in toJoin

\* Who may be inside stop(), and when.
CallerFits ==
    stopPc # "idle" =>
        \/ caller = "handler" /\ phase = "up"
        \/ caller = "owner" /\ phase = "up" /\ runner # "start"
        \/ caller = "main" /\ phase = "up" /\ runner = "ended"
        \/ /\ caller = "destructor" /\ runner = "ended"
           /\ phase = IF host = "daemon" THEN "saved" ELSE "stopped"
           /\ stopPc = "join" => workers = {}

\* A thread that serves a request has not used up its requests, and
\* connections_ stays within its limit.
WithinLimits ==
    /\ \A c \in Conns : Serving(c) => served[c] < MaxRequests
    /\ Cardinality(connections) <= limit

\* After the host's stop() nobody is served any more.
PhaseFits ==
    /\ phase # "up" =>
         /\ runner # "start"
         /\ \A c \in Conns : ~Serving(c)
         /\ stopping \/ (runner = "ended" /\ Threads = {})
    /\ phase = "gone" => stopPc = "idle"
    /\ host = "daemon" /\ phase \in {"saved", "gone"} => ~dirty

Inv ==
    /\ TypeOK /\ SlotsReturned /\ QuietAfterStop /\ JoinedAtEnd
    /\ UnservedYet /\ HandlesKept /\ StopHolds /\ CallerFits /\ PhaseFits
    /\ WithinLimits
=============================================================================
