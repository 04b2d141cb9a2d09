--------------------------- MODULE MCWebConnections ---------------------------
(* Instances of WebConnections for TLC. *)
EXTENDS WebConnections, TLC

(* A read that fails, one at the end of the connection, one too short to be   *)
(* compared, one that leaves too little room for the next to be long enough,  *)
(* and one that fills the buffer.                                             *)
MCReadSize == {-1, 0, 3, 900, 1023}
=============================================================================
