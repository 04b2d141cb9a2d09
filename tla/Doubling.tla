------------------------------- MODULE Doubling -------------------------------
(***************************************************************************)
(* How stream_names (published_stream.c) makes room: an array that is too  *)
(* small is doubled until it is big enough.  StreamNames uses it for the   *)
(* array of streams, StreamSort for the bytes of their names.              *)
(***************************************************************************)
EXTENDS Integers, FiniteSetsExt

(* Powers of two. *)
Power[j \in Nat] == IF j = 0 THEN 1 ELSE 2 * Power[j - 1]

(* Mutants of Doubled: the room is doubled once; it is doubled when it is *)
(* overfull, not when it is full.                                         *)
DoubledOnce(room, needed) == IF needed <= room THEN room ELSE 2 * room

DoubledLate(room, needed) ==
  Min({c \in {room * Power[j] : j \in 0 .. needed} : c + 1 >= needed})

(* The first of the room, twice the room, four times the room ... that is *)
(* enough.                                                                *)
Doubled(room, needed) ==
  Min({c \in {room * Power[j] : j \in 0 .. needed} : c >= needed})
=============================================================================
