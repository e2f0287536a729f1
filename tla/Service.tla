------------------------------ MODULE Service -------------------------------
(***************************************************************************)
(* What the owner of a wire::Server may rely on, whatever the threads do:  *)
(* connections are served until the server is stopped, no request is       *)
(* handled once stop() has returned, and when the server object is gone    *)
(* nobody is left who could touch the registry.                            *)
(***************************************************************************)
CONSTANT Conns

VARIABLES
    phase,    \* "up", "stopped" (stop() has returned), "gone" (destroyed)
    active,   \* connections some thread works for
    busy      \* those of them whose thread may be inside the registry

svars == <<phase, active, busy>>

SInit ==
    /\ phase = "up"
    /\ active = {}
    /\ busy = {}

\* A thread takes up a connection, as long as the object exists.
Take(c) ==
    /\ phase # "gone"
    /\ c \notin active
    /\ active' = active \cup {c}
    /\ UNCHANGED <<phase, busy>>

\* A request is handled: only while the server is up.
Enter(c) ==
    /\ phase = "up"
    /\ c \in active \ busy
    /\ busy' = busy \cup {c}
    /\ UNCHANGED <<phase, active>>

Leave(c) ==
    /\ c \in busy
    /\ busy' = busy \ {c}
    /\ UNCHANGED <<phase, active>>

End(c) ==
    /\ c \in active \ busy
    /\ active' = active \ {c}
    /\ UNCHANGED <<phase, busy>>

\* stop() returns once nobody is inside the registry.
Stopped ==
    /\ phase = "up"
    /\ busy = {}
    /\ phase' = "stopped"
    /\ UNCHANGED <<active, busy>>

\* The object goes away once no thread is left.
Destroyed ==
    /\ phase = "stopped"
    /\ active = {}
    /\ phase' = "gone"
    /\ UNCHANGED <<active, busy>>

SNext ==
    \/ \E c \in Conns : Take(c) \/ Enter(c) \/ Leave(c) \/ End(c)
    \/ Stopped
    \/ Destroyed

SSpec == SInit /\ [][SNext]_svars
=============================================================================
