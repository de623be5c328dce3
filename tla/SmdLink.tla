------------------------------- MODULE SmdLink -------------------------------
(***************************************************************************)
(* What the two halves of an SMD channel promise each other, with nothing  *)
(* of how either side gets there: each half goes round                     *)
(*     CLOSED, OPENING, OPENED, CLOSING, CLOSED                            *)
(* and waits, before it is OPENED and before it is CLOSED, for the other   *)
(* half to be on its way there too.  SmdChannel implements it.             *)
(***************************************************************************)

CONSTANT RemoteStart \* where the remote half may be when the local one is still CLOSED

VARIABLES local, remote

States == {"CLOSED", "OPENING", "OPENED", "CLOSING"}

Init == local = "CLOSED" /\ remote \in RemoteStart

LocalMoves(from, to, remoteStates) ==
  /\ local = from
  /\ remote \in remoteStates
  /\ local' = to
  /\ UNCHANGED remote

RemoteMoves(from, to, localStates) ==
  /\ remote = from
  /\ local \in localStates
  /\ remote' = to
  /\ UNCHANGED local

\* Opening: ask, then follow the other half.
Open  == LocalMoves("CLOSED", "OPENING", {"CLOSED", "OPENING"})
Up    == LocalMoves("OPENING", "OPENED", {"OPENED"})
\* Closing: only an OPENED half closes, and it is CLOSED once the other half agrees.
Close == LocalMoves("OPENED", "CLOSING", {"OPENED"})
Down  == LocalMoves("CLOSING", "CLOSED", {"CLOSING", "CLOSED"})

RemoteOpen  == \E to \in {"OPENING", "OPENED"} : RemoteMoves("CLOSED", to, {"OPENING"})
RemoteUp    == RemoteMoves("OPENING", "OPENED", {"OPENING", "OPENED"})
RemoteClose == \E to \in {"CLOSING", "CLOSED"} : RemoteMoves("OPENED", to, {"CLOSING", "CLOSED"})
RemoteDown  == RemoteMoves("CLOSING", "CLOSED", {"CLOSED"})

Next ==
  \/ Open \/ Up \/ Close \/ Down
  \/ RemoteOpen \/ RemoteUp \/ RemoteClose \/ RemoteDown

Spec == Init /\ [][Next]_<<local, remote>>

=============================================================================
