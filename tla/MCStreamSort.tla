----------------------------- MODULE MCStreamSort -----------------------------
(* Instances of StreamSort for TLC: every array up to a length. *)
EXTENDS StreamSort

(* Names that fit in the room reserved for one, that take that of their     *)
(* neighbours too, and one for which it has to be doubled twice.            *)
FiveSizes == <<1, 3, 9, 2, 4>>
=============================================================================
