------------------------------ MODULE StreamSort ------------------------------
(***************************************************************************)
(* What stream_names (published_stream.c) does with the streams it has     *)
(* collected: sort_stream_info, the quicksort with Hoare's partition that  *)
(* puts the streams with most watchers first, and the packing of their     *)
(* names behind an array of pointers to them.  The calls that have not     *)
(* returned are a stack; the round of a partition, two scans and a swap,   *)
(* is one step.  Indexes count from 0, as in the code.                     *)
(***************************************************************************)
EXTENDS Doubling, Sequences

CONSTANTS
  MaxLen,    \* bound on the number of streams
  MaxCount,  \* bound on the number of watchers of one
  NameSize,  \* bytes of the name of each, with its end
  NameRoom   \* bytes reserved at first for each name, 32

ASSUME BoundAssumption == MaxLen \in Nat /\ MaxCount \in Nat
ASSUME SizeAssumption ==
  /\ NameSize \in [1 .. MaxLen -> Nat \ {0}]
  /\ NameRoom \in Nat \ {0}

VARIABLES
  streams, \* the array of stream_info
  calls,   \* the calls of sort_stream_info, the running one first
  scan,    \* l, h and the pivot's count while it partitions
  block,   \* the allocation of stream_names: how often realloc has moved it
  capacity,\* its bytes for names
  size,    \* those in use
  pointers \* the pointers stored so far: into which block, and where

packVars == <<block, capacity, size, pointers>>
vars == <<streams, calls, scan, packVars>>

NoScan == [on |-> FALSE, l |-> -1, h |-> 0, pivot |-> 0]

Info == [name : 1 .. MaxLen, numSubscribers : 0 .. MaxCount]

Init ==
  /\ \E len \in 1 .. MaxLen : \E counts \in [1 .. len -> 0 .. MaxCount] :
       /\ streams = [i \in 1 .. len |-> [name |-> i, numSubscribers |-> counts[i]]]
       /\ calls = <<[from |-> 0, len |-> len]>>
       /\ capacity = NameRoom * len
  /\ scan = NoScan
  /\ block = 0 /\ size = 0 /\ pointers = << >>
-----------------------------------------------------------------------------
Call == calls[1]

(* streams[i] of the running call, which may be a part of the array. *)
At(i) == Call.from + i + 1
CountAt(i) == streams[At(i)].numSubscribers

(* Fewer than two streams are in order. *)
ReturnShort ==
  /\ calls # << >> /\ ~scan.on
  /\ Call.len < 2
  /\ calls' = Tail(calls)
  /\ UNCHANGED <<streams, scan, packVars>>

(* Mutant of BeginPartition: the first stream is the pivot. *)
BeginPartitionAtFirst ==
  /\ calls # << >> /\ ~scan.on
  /\ Call.len >= 2
  /\ scan' = [on |-> TRUE, l |-> -1, h |-> Call.len, pivot |-> CountAt(0)]
  /\ UNCHANGED <<streams, calls, packVars>>

(* The count in the middle is the pivot. *)
BeginPartition ==
  /\ calls # << >> /\ ~scan.on
  /\ Call.len >= 2
  /\ scan' = [on |-> TRUE, l |-> -1, h |-> Call.len, pivot |-> CountAt(Call.len \div 2)]
  /\ UNCHANGED <<streams, calls, packVars>>

(* Mutant of StopsUp: the scan passes the counts that are equal to the pivot. *)
StopsUpLate == {i \in scan.l + 1 .. Call.len - 1 : CountAt(i) < scan.pivot}

(* Where the scan from the left and the one from the right can stop: the    *)
(* first does not pass a count as small as the pivot, the second none as big. *)
StopsUp == {i \in scan.l + 1 .. Call.len - 1 : CountAt(i) <= scan.pivot}
StopsDown == {i \in 0 .. scan.h - 1 : CountAt(i) >= scan.pivot}

Swap(i, j) == [streams EXCEPT ![i] = streams[j], ![j] = streams[i]]

(* Mutant of SwapRound: the next round starts where this one did. *)
SwapRoundInPlace ==
  LET l == Min(StopsUp)
      h == Max(StopsDown)
  IN  /\ l < h
      /\ streams' = Swap(At(l), At(h))
      /\ UNCHANGED <<calls, scan, packVars>>

(* A round of the partition: what stops the two scans is exchanged. *)
SwapRound ==
  LET l == Min(StopsUp)
      h == Max(StopsDown)
  IN  /\ l < h
      /\ streams' = Swap(At(l), At(h))
      /\ scan' = [scan EXCEPT !.l = l, !.h = h]
      /\ UNCHANGED <<calls, packVars>>

(* Mutant of LastRound: the second part is not sorted. *)
LastRoundLeftOnly ==
  LET l == Min(StopsUp)
  IN  /\ l >= Max(StopsDown)
      /\ scan' = NoScan
      /\ calls' = <<[from |-> Call.from, len |-> l]>> \o Tail(calls)
      /\ UNCHANGED <<streams, packVars>>

(* The scans have met: the two parts are sorted, one after the other. *)
LastRound ==
  LET l == Min(StopsUp)
  IN  /\ l >= Max(StopsDown)
      /\ scan' = NoScan
      /\ calls' = <<[from |-> Call.from, len |-> l],
                    [from |-> Call.from + l, len |-> Call.len - l]>> \o Tail(calls)
      /\ UNCHANGED <<streams, packVars>>

-----------------------------------------------------------------------------
(* The next name is packed.  realloc, if it takes that, copies what is in   *)
(* the block, and may move it; the pointers in it are copied as they are.   *)
PackName ==
  /\ calls = << >> /\ Len(pointers) < Len(streams)
  /\ size' = size + NameSize[streams[Len(pointers) + 1].name]
  /\ capacity' = Doubled(capacity, size')
  /\ block' \in IF capacity' = capacity THEN {block} ELSE {block, block + 1}
  /\ pointers' = Append(pointers, [block |-> block', at |-> size])
  /\ UNCHANGED <<streams, calls, scan>>

Next ==
  \/ ReturnShort \/ BeginPartition
  \/ scan.on /\ (SwapRound \/ LastRound)
  \/ PackName

Spec == Init /\ [][Next]_vars /\ WF_vars(Next)
-----------------------------------------------------------------------------
TypeOK ==
  /\ streams \in Seq(Info) /\ Len(streams) <= MaxLen
  /\ \A i \in DOMAIN calls :
       /\ calls[i].from \in Nat /\ calls[i].len \in Nat
       /\ calls[i].from + calls[i].len <= Len(streams)
  /\ scan \in [on : BOOLEAN, l : -1 .. MaxLen, h : 0 .. MaxLen, pivot : 0 .. MaxCount]
  /\ {block, capacity, size} \subseteq Nat
  /\ pointers \in Seq([block : 0 .. block, at : Nat]) /\ Len(pointers) <= Len(streams)

(* Neither scan runs out of the part of the array it works on: before the    *)
(* first swap the pivot stops both, afterwards what was swapped does.        *)
ScansInBounds ==
  scan.on => StopsUp # {} /\ StopsDown # {}

(* Up to where the streams are sorted. *)
Start == IF calls = << >> THEN Len(streams) ELSE calls[1].from

(* What is left to do: parts to sort or to divide, the way the scans have   *)
(* still to go until they meet, and names to pack.                          *)
Work == <<2 * (Len(streams) - Start) - Len(calls),
          IF scan.on THEN scan.h - scan.l ELSE Len(streams) + 2,
          Len(streams) - Len(pointers)>>

LessToDo ==
  /\ \A i \in 1 .. 3 : Work'[i] \in Nat
  /\ \E i \in 1 .. 3 : Work'[i] < Work[i] /\ \A j \in 1 .. i - 1 : Work'[j] = Work[j]

(* Every step leaves less to do, and there is never less than nothing: both  *)
(* parts of a division have a stream, and each round takes the scans nearer  *)
(* to each other, or the recursion or the partition could go on for ever.    *)
WorkShrinks == [][LessToDo]_vars

(* What the caller gets: the same streams, most watchers first. *)
Sorted ==
  calls = << >> =>
    /\ \A i, j \in DOMAIN streams :
         i < j => streams[i].numSubscribers >= streams[j].numSubscribers
    /\ {streams[i].name : i \in DOMAIN streams} = DOMAIN streams

(* The list comes to an end: no part is as long as the whole, and the room *)
(* is found for every name.                                                *)
Terminates == <>(calls = << >> /\ Len(pointers) = Len(streams))

(* "The returned pointer is a single allocation" (published_stream.c:295): *)
(* the pointers to the names, which are part of it, lead into it.          *)
SingleAllocation == \A i \in DOMAIN pointers : pointers[i].block = block

(* The names fit in the room there is for them, however little of it was   *)
(* reserved, and as long as that was enough all pointers lead to them.     *)
NamesFit ==
  /\ size <= capacity
  /\ capacity = NameRoom * Len(streams) => SingleAllocation
=============================================================================
