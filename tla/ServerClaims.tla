---------------------------- MODULE ServerClaims ----------------------------
(***************************************************************************)
(* What the repository says of the daemon's signal handling, against what  *)
(* Server does.                                                            *)
(***************************************************************************)
EXTENDS Server

\* A signal stops the server ("The signal handler ... asks the server to stop,
\* which closes the listener and unblocks accept()").  A signal between the
\* installation of the handlers and start() is forgotten, because start()
\* clears stopping_; one that interrupts main inside a critical section of
\* run() waits for a mutex its own thread holds.
SignalStops == signalled ~> phase = "gone"
=============================================================================
