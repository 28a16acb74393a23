------------------------ MODULE ConnectionLifecycle ------------------------
(***************************************************************************)
(* What the communication worker promises about a connection, without      *)
(* saying how: the five states of ConnectionState, whether a link to the   *)
(* panel is held, and the moves between them.  SatelWorker implements it.  *)
(***************************************************************************)

VARIABLES
    state,  \* the ConnectionState published in the telemetry
    link    \* TRUE while a transport to the panel is held open

vars == <<state, link>>

\* A state in which the client is on its way to a session.
Settling == state \in {"Connecting", "Handshake"}

Init == state = "Disconnected" /\ link = FALSE

-----------------------------------------------------------------------------
\* An attempt starts from rest only, and without a link.
Attempt ==
    /\ state \in {"Disconnected", "ConnectionLost"}
    /\ state' = "Connecting"
    /\ UNCHANGED link

OpenLink ==
    /\ state = "Connecting"
    /\ state' = "Handshake"
    /\ link' = TRUE

Establish ==
    /\ state = "Handshake"
    /\ state' = "Connected"
    /\ UNCHANGED link

\* Whatever breaks a session or an attempt releases the link in the same move.
Drop ==
    /\ state \in {"Connecting", "Handshake", "Connected"}
    /\ state' = "ConnectionLost"
    /\ link' = FALSE

\* A disconnect is never served while the transport is being opened.
Release ==
    /\ state \in {"Handshake", "Connected", "ConnectionLost"}
    /\ state' = "Disconnected"
    /\ link' = FALSE

Settle == OpenLink \/ Establish \/ (Settling /\ (Drop \/ Release))

Next == Attempt \/ Settle \/ Drop \/ Release

\* No attempt hangs: one that was started reaches a session or gives up.
Spec == Init /\ [][Next]_vars /\ WF_vars(Settle)
=============================================================================
