---------------------------- MODULE DurableStore ----------------------------
(***************************************************************************)
(* What the owner of a registry with a snapshot path may rely on, whatever *)
(* system calls a save is made of and wherever the process dies: there is  *)
(* one stored state at most, only a save that returned moves it, to a      *)
(* state of the running process and never to an older one, and the next    *)
(* process begins right after it.  All of this as long as the saves are    *)
(* covered; once they are not, nothing is promised.                        *)
(***************************************************************************)
EXTENDS Naturals

CONSTANT IncarnationMax  \* 0xFFFFFFFF

VARIABLES
    live,    \* the state the process has published: none or one
    stored,  \* the state the next process would find: none or one
    covered  \* the promise still holds

dvars == <<live, stored, covered>>

First == [generation |-> 0, incarnation |-> 1]

\* What a process makes of the state it finds.
Successor(s) ==
    [generation |-> s.generation + 1,
     incarnation |-> IF s.incarnation < IncarnationMax THEN s.incarnation + 1 ELSE 1]

DInit == live = {First} /\ stored = {} /\ covered = TRUE

\* A mutation is published.
Publish ==
    /\ \E s \in live : live' = {[s EXCEPT !.generation = @ + 1]}
    /\ UNCHANGED stored

\* A save returns Ok: the present state is stored, or one the process was in
\* when the save began, and never one older than what was stored.
Keep ==
    /\ \E s \in live : \E g \in 0..s.generation :
          /\ \A old \in stored : old.generation <= g
          /\ stored' = {[s EXCEPT !.generation = g]}
    /\ UNCHANGED live

\* The process is gone, and the stored state is not.
Die == live # {} /\ live' = {} /\ UNCHANGED stored

\* The next one begins with a new registry, or right after the stored state.
Begin ==
    /\ live = {}
    /\ live' = IF stored = {} THEN {First} ELSE {Successor(s) : s \in stored}
    /\ UNCHANGED stored

DNext ==
    \/ covered /\ covered' /\ (Publish \/ Keep \/ Die \/ Begin)
    \/ ~covered'

DSpec == DInit /\ [][DNext]_dvars
=============================================================================
