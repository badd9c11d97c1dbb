------------------------------- MODULE MCWire -------------------------------
(***************************************************************************)
(* What goes over a socket, checked in one run: the requests and pushes of  *)
(* the WebSocket to MAX, the requests of a process over the local socket of *)
(* `max serve`, the frames a payload travels in, and the files fetched over *)
(* https.  They share nothing: a behaviour moves one of the four.           *)
(***************************************************************************)
EXTENDS Connection, LocalSocket, Frames, Transfers

\* The place of the next bytes in the table: any function of them would do.
WireSlots == [bytes \in [1 .. MinMatch -> Alphabet] |-> FoldLeft(LAMBDA sum, byte : 3 * sum + byte, 0, bytes) % Slots]

VARIABLE part

vars == << part, connectionVars, socketVars, frameVars, transferVars >>

Init ==
  /\ part \in {"connection", "socket", "frames", "files"}
  /\ ConnectionInit /\ SocketInit /\ FramesInit /\ TransfersInit
  /\ part # "frames" => raw = { << >> }   \* one payload is enough for a part that does not move

Next ==
  /\ UNCHANGED part
  /\ \/ /\ part = "connection" /\ ConnectionNext
        /\ UNCHANGED << socketVars, frameVars, transferVars >>
     \/ /\ part = "socket" /\ SocketNext
        /\ UNCHANGED << connectionVars, frameVars, transferVars >>
     \/ /\ part = "frames" /\ FramesNext
        /\ UNCHANGED << connectionVars, socketVars, transferVars >>
     \/ /\ part = "files" /\ TransfersNext
        /\ UNCHANGED << connectionVars, socketVars, frameVars >>

Spec == Init /\ [][Next]_vars

\* In a part that does not move no timer runs, so its fairness asks nothing.
FairSpec == Spec /\ TimersFire

\* Every variable of the part that moves has its type.
TypeOK ==
  CASE part = "connection" -> ConnectionTypeOK
    [] part = "socket" -> SocketTypeOK
    [] part = "frames" -> FramesTypeOK
    [] part = "files" -> TransfersTypeOK
=============================================================================
