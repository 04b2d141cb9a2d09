--------------------------- MODULE StreamSortProofs ---------------------------
(***************************************************************************)
(* Proofs about StreamSort: the partition's scans need no bound, and the   *)
(* array is sorted when the last call returns, for arrays of any length    *)
(* and any counts.                                                         *)
(***************************************************************************)
EXTENDS StreamSort, DoublingProofs

CallRecord == [from : Nat, len : Nat]

Types ==
  /\ streams \in Seq(Info)
  /\ calls \in Seq(CallRecord)
  /\ scan \in [on : BOOLEAN, l : Int, h : Int, pivot : Int]

(* Nothing after position m has more watchers than anything up to it. *)
Parted(m) ==
  \A i, j \in DOMAIN streams :
    i <= m /\ m < j => streams[i].numSubscribers >= streams[j].numSubscribers

(* The calls are for neighbouring parts of the array, up to its end. *)
Contiguous ==
  /\ \A k \in DOMAIN calls : calls[k].from + calls[k].len <= Len(streams)
  /\ \A j, k \in DOMAIN calls : j < k => calls[j].from + calls[j].len <= calls[k].from
  /\ \A k \in DOMAIN calls :
       calls[k].from + calls[k].len =
         IF k = Len(calls) THEN Len(streams) ELSE calls[k + 1].from

(* Each part is to be sorted by itself, *)
Divided == \A k \in DOMAIN calls : Parted(calls[k].from)

(* and what lies before the first is sorted. *)
PrefixSorted ==
  \A i, j \in DOMAIN streams :
    i < j /\ i <= Start => streams[i].numSubscribers >= streams[j].numSubscribers

SameStreams == {streams[i].name : i \in DOMAIN streams} = DOMAIN streams

(* What is known during a partition: up to l nothing is smaller than the    *)
(* pivot, from h on nothing is bigger.  Before the first swap the pivot is   *)
(* somewhere in the part; afterwards what was swapped lies at l and h.       *)
Partitioning ==
  scan.on =>
    /\ calls # << >> /\ Call.len >= 2
    /\ -1 <= scan.l /\ scan.l < scan.h /\ scan.h <= Call.len
    /\ \A i \in 0 .. scan.l : CountAt(i) >= scan.pivot
    /\ \A i \in scan.h .. Call.len - 1 : CountAt(i) <= scan.pivot
    /\ \/ /\ scan.l = -1 /\ scan.h = Call.len
          /\ \E i \in 0 .. Call.len - 1 : CountAt(i) = scan.pivot
       \/ 0 <= scan.l /\ scan.h < Call.len

IInv ==
  /\ Types
  /\ Contiguous
  /\ Divided
  /\ PrefixSorted
  /\ SameStreams
  /\ Partitioning
-----------------------------------------------------------------------------
(* Where a scan stops: the greatest of a set of indexes. *)
LEMMA MaxFacts ==
  ASSUME NEW n \in Nat, NEW T, T \subseteq 0 .. n, T # {}
  PROVE  Max(T) \in T /\ \A y \in T : Max(T) >= y
<1>. DEFINE Rev == {r \in 0 .. n : n - r \in T}
<1>1. \A y \in T : y \in 0 .. n /\ n - y \in Rev
  <2>1. ASSUME NEW y \in T PROVE y \in 0 .. n /\ n - y \in Rev
    <3>1. y \in 0 .. n
      OBVIOUS
    <3>2. n - y \in 0 .. n /\ n - (n - y) = y
      BY <3>1
    <3>. QED
      BY <3>1, <3>2
  <2>. QED
    BY <2>1
<1>2. Rev \subseteq Nat /\ Rev # {}
  <2>1. PICK y \in T : TRUE
    OBVIOUS
  <2>2. n - y \in Rev
    BY <1>1
  <2>3. \A r \in Rev : r \in Nat
    OBVIOUS
  <2>. QED
    BY <2>2, <2>3
<1>3. PICK r \in Rev : \A y \in Rev : r <= y
  BY <1>2, Least
<1>4. ASSUME NEW y \in T PROVE n - r >= y
  <2>1. r <= n - y /\ y \in 0 .. n
    BY <1>1, <1>3
  <2>. QED
    BY <2>1
<1>. QED
  BY <1>3, <1>4 DEF Max

(* The stack of calls. *)
LEMMA TailFacts ==
  ASSUME NEW S, NEW s \in Seq(S), s # << >>
  PROVE  /\ Tail(s) \in Seq(S) /\ Len(Tail(s)) = Len(s) - 1
         /\ \A k \in 1 .. Len(s) - 1 : Tail(s)[k] = s[k + 1]
OBVIOUS

LEMMA PushFacts ==
  ASSUME NEW S, NEW s \in Seq(S), s # << >>, NEW a \in S, NEW b \in S
  PROVE  LET t == <<a, b>> \o Tail(s)
         IN  /\ t \in Seq(S) /\ Len(t) = Len(s) + 1
             /\ t[1] = a /\ t[2] = b
             /\ \A k \in 3 .. Len(s) + 1 : t[k] = s[k - 1]
<1>1. <<a, b>> \in Seq(S) /\ Len(<<a, b>>) = 2
  OBVIOUS
<1>2. Tail(s) \in Seq(S) /\ Len(Tail(s)) = Len(s) - 1
  BY TailFacts
<1>3. \A k \in 1 .. Len(s) - 1 : Tail(s)[k] = s[k + 1]
  BY TailFacts
<1>. QED
  BY <1>1, <1>2, <1>3
-----------------------------------------------------------------------------
(* Exchanging two streams on one side of a position leaves it a division. *)
LEMMA SwapParted ==
  ASSUME streams \in Seq(Info), NEW m \in Int,
         NEW a \in DOMAIN streams, NEW b \in DOMAIN streams,
         (m < a /\ m < b) \/ (a <= m /\ b <= m),
         Parted(m), streams' = Swap(a, b)
  PROVE  Parted(m)'
<1>1. /\ streams' \in Seq(Info) /\ DOMAIN streams' = DOMAIN streams
      /\ \A i \in DOMAIN streams :
           streams'[i] = IF i = b THEN streams[a] ELSE IF i = a THEN streams[b] ELSE streams[i]
  BY DEF Swap
<1>. SUFFICES ASSUME NEW i \in DOMAIN streams, NEW j \in DOMAIN streams, i <= m, m < j
              PROVE  streams'[i].numSubscribers >= streams'[j].numSubscribers
  BY <1>1 DEF Parted
<1>2. PICK k \in DOMAIN streams : streams'[i] = streams[k] /\ k <= m
  BY <1>1
<1>3. PICK k2 \in DOMAIN streams : streams'[j] = streams[k2] /\ m < k2
  BY <1>1
<1>. QED
  BY <1>2, <1>3 DEF Parted

(* The part that the running call works on, in terms of the whole array. *)
LEMMA CallFacts ==
  ASSUME IInv, calls # << >>
  PROVE  /\ Call \in CallRecord /\ 1 \in DOMAIN calls
         /\ Call.from + Call.len <= Len(streams) /\ Len(streams) \in Nat
         /\ DOMAIN streams = 1 .. Len(streams)
         /\ \A i \in 0 .. Call.len - 1 :
              At(i) \in DOMAIN streams /\ CountAt(i) \in Nat
         /\ Parted(Call.from + Call.len)
<1>1. 1 \in DOMAIN calls /\ Call = calls[1] /\ Call \in CallRecord
  BY DEF IInv, Types, Call
<1>2. Call.from + Call.len <= Len(streams) /\ Len(streams) \in Nat
      /\ DOMAIN streams = 1 .. Len(streams)
  BY <1>1 DEF IInv, Types, Contiguous
<1>3. ASSUME NEW i \in 0 .. Call.len - 1
      PROVE  At(i) \in DOMAIN streams /\ CountAt(i) \in Nat
  <2>1. At(i) \in DOMAIN streams
    BY <1>1, <1>2 DEF At, CallRecord
  <2>2. streams[At(i)] \in Info
    BY <2>1 DEF IInv, Types
  <2>. QED
    BY <2>1, <2>2, BoundAssumption DEF CountAt, Info
<1>4. Parted(Call.from + Call.len)
  <2>1. CASE Len(calls) = 1
    <3>1. Call.from + Call.len = Len(streams)
      BY <1>1, <2>1 DEF IInv, Contiguous
    <3>. QED
      BY <1>2, <3>1 DEF Parted
  <2>2. CASE Len(calls) # 1
    <3>1. Len(calls) \in Nat /\ DOMAIN calls = 1 .. Len(calls)
      BY DEF IInv, Types
    <3>2. 2 \in DOMAIN calls
      BY <1>1, <2>2, <3>1
    <3>3. calls[1].from + calls[1].len = calls[1 + 1].from
      BY <1>1, <2>2 DEF IInv, Contiguous
    <3>. QED
      BY <1>1, <3>2, <3>3 DEF IInv, Divided
  <2>. QED
    BY <2>1, <2>2
<1>. QED
  BY <1>1, <1>2, <1>3, <1>4

(* Both scans are stopped, by the pivot or by what was swapped. *)
LEMMA ScansStop ==
  ASSUME IInv, scan.on
  PROVE  StopsUp # {} /\ StopsDown # {}
<1>1. calls # << >> /\ Call.len >= 2
  BY DEF IInv, Partitioning
<1>2. Call.len \in Nat /\ scan.l \in Int /\ scan.h \in Int
  BY <1>1, CallFacts DEF IInv, Types, CallRecord
<1>3. CASE scan.l = -1 /\ scan.h = Call.len
  <2>1. PICK i \in 0 .. Call.len - 1 : CountAt(i) = scan.pivot
    BY <1>2, <1>3 DEF IInv, Partitioning
  <2>2. i \in StopsUp /\ i \in StopsDown
    BY <1>1, <1>2, <1>3, <2>1, CallFacts DEF StopsUp, StopsDown
  <2>. QED
    BY <2>2
<1>4. CASE 0 <= scan.l /\ scan.h < Call.len
  <2>1. scan.h \in scan.l + 1 .. Call.len - 1 /\ scan.l \in 0 .. scan.h - 1
    BY <1>2, <1>4 DEF IInv, Partitioning
  <2>2. CountAt(scan.h) <= scan.pivot /\ CountAt(scan.l) >= scan.pivot
    BY <1>2, <1>4, <2>1 DEF IInv, Partitioning
  <2>. QED
    BY <2>1, <2>2 DEF StopsUp, StopsDown
<1>. QED
  BY <1>3, <1>4 DEF IInv, Partitioning

(* What a round finds: up to where it stops, nothing is on the wrong side. *)
LEMMA RoundFacts ==
  ASSUME IInv, scan.on, NEW l, NEW h, l = Min(StopsUp), h = Max(StopsDown)
  PROVE  /\ l \in 0 .. Call.len - 1 /\ h \in 0 .. Call.len - 1
         /\ CountAt(l) <= scan.pivot /\ CountAt(h) >= scan.pivot
         /\ \A i \in 0 .. l - 1 : CountAt(i) >= scan.pivot
         /\ \A i \in h + 1 .. Call.len - 1 : CountAt(i) <= scan.pivot
<1>1. calls # << >> /\ Call.len >= 2
  BY DEF IInv, Partitioning
<1>2. /\ Call.len \in Nat /\ scan.l \in Int /\ scan.h \in Int /\ scan.pivot \in Int
      /\ -1 <= scan.l /\ scan.h <= Call.len
      /\ \A i \in 0 .. Call.len - 1 : CountAt(i) \in Nat
  BY <1>1, CallFacts DEF IInv, Types, CallRecord, Partitioning
<1>3. StopsUp \subseteq Nat /\ StopsUp # {}
  BY <1>2, ScansStop DEF StopsUp
<1>4. StopsDown \subseteq 0 .. Call.len /\ StopsDown # {}
  BY <1>2, ScansStop DEF StopsDown
<1>5. l \in StopsUp /\ \A y \in StopsUp : l <= y
  BY <1>3, MinFacts
<1>6. h \in StopsDown /\ \A y \in StopsDown : h >= y
  BY <1>2, <1>4, MaxFacts
<1>7. l \in scan.l + 1 .. Call.len - 1 /\ CountAt(l) <= scan.pivot
  BY <1>5 DEF StopsUp
<1>8. h \in 0 .. scan.h - 1 /\ CountAt(h) >= scan.pivot
  BY <1>6 DEF StopsDown
<1>9. ASSUME NEW i \in 0 .. l - 1 PROVE CountAt(i) >= scan.pivot
  <2>1. CASE i \in 0 .. scan.l
    BY <2>1 DEF IInv, Partitioning
  <2>2. CASE i \notin 0 .. scan.l
    <3>1. i \in scan.l + 1 .. Call.len - 1 /\ i \in 0 .. Call.len - 1 /\ ~ (l <= i)
      BY <1>2, <1>7, <2>2
    <3>2. i \notin StopsUp
      BY <1>5, <3>1
    <3>. QED
      BY <1>2, <3>1, <3>2 DEF StopsUp
  <2>. QED
    BY <2>1, <2>2
<1>10. ASSUME NEW i \in h + 1 .. Call.len - 1 PROVE CountAt(i) <= scan.pivot
  <2>1. CASE i \in scan.h .. Call.len - 1
    BY <2>1 DEF IInv, Partitioning
  <2>2. CASE i \notin scan.h .. Call.len - 1
    <3>1. i \in 0 .. scan.h - 1 /\ i \in 0 .. Call.len - 1 /\ ~ (h >= i)
      BY <1>2, <1>8, <2>2
    <3>2. i \notin StopsDown
      BY <1>6, <3>1
    <3>. QED
      BY <1>2, <3>1, <3>2 DEF StopsDown
  <2>. QED
    BY <2>1, <2>2
<1>. QED
  BY <1>2, <1>7, <1>8, <1>9, <1>10
-----------------------------------------------------------------------------
LEMMA InvInit == Init => IInv
<1>. SUFFICES ASSUME Init PROVE IInv
  OBVIOUS
<1>1. PICK len \in 1 .. MaxLen : \E counts \in [1 .. len -> 0 .. MaxCount] :
        /\ streams = [i \in 1 .. len |-> [name |-> i, numSubscribers |-> counts[i]]]
        /\ calls = <<[from |-> 0, len |-> len]>>
  BY DEF Init
<1>2. PICK counts \in [1 .. len -> 0 .. MaxCount] :
        streams = [i \in 1 .. len |-> [name |-> i, numSubscribers |-> counts[i]]]
  BY <1>1
<1>3. len \in Nat /\ len <= MaxLen
  BY BoundAssumption
<1>4. streams \in Seq(Info) /\ Len(streams) = len /\ DOMAIN streams = 1 .. len
  BY <1>2, <1>3, BoundAssumption DEF Info
<1>5. /\ calls \in Seq(CallRecord) /\ Len(calls) = 1 /\ DOMAIN calls = {1}
      /\ calls[1] = [from |-> 0, len |-> len] /\ calls # << >>
  BY <1>1, <1>3 DEF CallRecord
<1>6. Types
  BY <1>4, <1>5 DEF Init, Types, NoScan
<1>7. Contiguous
  BY <1>3, <1>4, <1>5 DEF Contiguous
<1>8. Divided /\ PrefixSorted
  BY <1>4, <1>5 DEF Divided, Parted, PrefixSorted, Start
<1>9. SameStreams
  <2>1. \A i \in 1 .. len : streams[i].name = i
    BY <1>2
  <2>. QED
    BY <1>4, <2>1 DEF SameStreams
<1>10. Partitioning
  BY DEF Init, NoScan, Partitioning
<1>. QED
  BY <1>6, <1>7, <1>8, <1>9, <1>10 DEF IInv

(* A call for a part of fewer than two streams returns. *)
LEMMA ReturnShortInv ==
  ASSUME IInv, ReturnShort
  PROVE  IInv'
<1>1. /\ calls # << >> /\ ~scan.on /\ Call.len < 2
      /\ calls' = Tail(calls) /\ streams' = streams /\ scan' = scan
  BY DEF ReturnShort
<1>2. /\ calls \in Seq(CallRecord) /\ Len(calls) \in Nat /\ DOMAIN calls = 1 .. Len(calls)
      /\ Call = calls[1] /\ Len(calls) >= 1
  BY <1>1 DEF IInv, Types, Call
<1>3. /\ calls' \in Seq(CallRecord) /\ Len(calls') = Len(calls) - 1
      /\ DOMAIN calls' = 1 .. Len(calls) - 1
      /\ \A k \in 1 .. Len(calls) - 1 : calls'[k] = calls[k + 1]
  BY <1>1, <1>2, TailFacts
<1>4. Types'
  BY <1>1, <1>3 DEF IInv, Types
<1>5. \A k \in DOMAIN calls' : k + 1 \in DOMAIN calls /\ calls'[k] = calls[k + 1]
  BY <1>2, <1>3
<1>6. Contiguous'
  <2>1. ASSUME NEW k \in DOMAIN calls'
        PROVE  calls'[k].from + calls'[k].len <= Len(streams')
    BY <1>1, <1>5 DEF IInv, Contiguous
  <2>2. ASSUME NEW j \in DOMAIN calls', NEW k \in DOMAIN calls', j < k
        PROVE  calls'[j].from + calls'[j].len <= calls'[k].from
    <3>1. j + 1 < k + 1
      BY <1>3, <2>2
    <3>. QED
      BY <1>5, <3>1 DEF IInv, Contiguous
  <2>3. ASSUME NEW k \in DOMAIN calls'
        PROVE  calls'[k].from + calls'[k].len =
                 IF k = Len(calls') THEN Len(streams') ELSE calls'[k + 1].from
    <3>1. calls[k + 1].from + calls[k + 1].len =
            IF k + 1 = Len(calls) THEN Len(streams) ELSE calls[(k + 1) + 1].from
      BY <1>5 DEF IInv, Contiguous
    <3>2. CASE k = Len(calls')
      BY <1>1, <1>2, <1>3, <1>5, <3>1, <3>2
    <3>3. CASE k # Len(calls')
      <4>1. k + 1 \in DOMAIN calls' /\ k + 1 # Len(calls)
        BY <1>2, <1>3, <3>3
      <4>. QED
        BY <1>5, <3>1, <4>1
    <3>. QED
      BY <3>2, <3>3
  <2>. QED
    BY <2>1, <2>2, <2>3 DEF Contiguous
<1>7. Divided'
  BY <1>1, <1>5 DEF IInv, Divided, Parted
<1>8. Start' = Call.from + Call.len
  <2>1. calls[1].from + calls[1].len =
          IF 1 = Len(calls) THEN Len(streams) ELSE calls[1 + 1].from
    BY <1>2 DEF IInv, Contiguous
  <2>2. CASE Len(calls) = 1
    <3>1. calls' = << >>
      BY <1>3, <2>2
    <3>. QED
      BY <1>1, <1>2, <2>1, <2>2, <3>1 DEF Start
  <2>3. CASE Len(calls) # 1
    <3>1. 1 \in DOMAIN calls' /\ calls' # << >>
      BY <1>2, <1>3, <2>3
    <3>. QED
      BY <1>2, <1>5, <2>1, <2>3, <3>1 DEF Start
  <2>. QED
    BY <2>2, <2>3
<1>9. PrefixSorted'
  <2>. SUFFICES ASSUME NEW i \in DOMAIN streams, NEW j \in DOMAIN streams,
                       i < j, i <= Call.from + Call.len
                PROVE  streams[i].numSubscribers >= streams[j].numSubscribers
    BY <1>1, <1>8 DEF PrefixSorted
  <2>1. Call \in CallRecord /\ DOMAIN streams = 1 .. Len(streams) /\ Len(streams) \in Nat
    BY <1>1, CallFacts
  <2>2. CASE i <= Call.from
    BY <1>1, <1>2, <2>2 DEF IInv, PrefixSorted, Start
  <2>3. CASE ~ (i <= Call.from)
    <3>1. Call.from + Call.len < j
      BY <1>1, <2>1, <2>3 DEF CallRecord
    <3>. QED
      BY <1>1, <3>1, CallFacts DEF Parted
  <2>. QED
    BY <2>2, <2>3
<1>10. SameStreams' /\ Partitioning'
  BY <1>1 DEF IInv, SameStreams, Partitioning
<1>. QED
  BY <1>4, <1>6, <1>7, <1>9, <1>10 DEF IInv

(* A partition begins with its pivot inside its part. *)
LEMMA BeginPartitionInv ==
  ASSUME IInv, BeginPartition
  PROVE  IInv'
<1>1. /\ calls # << >> /\ Call.len >= 2
      /\ scan' = [on |-> TRUE, l |-> -1, h |-> Call.len, pivot |-> CountAt(Call.len \div 2)]
      /\ UNCHANGED <<streams, calls>>
  BY DEF BeginPartition
<1>2. Call.len \in Nat
  BY <1>1, CallFacts DEF CallRecord
<1>3. Call.len \div 2 \in 0 .. Call.len - 1
  BY <1>1, <1>2
<1>4. CountAt(Call.len \div 2) \in Nat
  BY <1>1, <1>3, CallFacts
<1>5. Types'
  BY <1>1, <1>2, <1>4 DEF IInv, Types
<1>6. Call' = Call /\ \A i : CountAt(i)' = CountAt(i)
  BY <1>1 DEF Call, CountAt, At
<1>7. Partitioning'
  BY <1>1, <1>2, <1>3, <1>6 DEF Partitioning
<1>8. Contiguous' /\ Divided' /\ PrefixSorted' /\ SameStreams'
  BY <1>1 DEF IInv, Contiguous, Divided, Parted, PrefixSorted, Start, SameStreams
<1>. QED
  BY <1>5, <1>7, <1>8 DEF IInv

(* A swap inside the running call's part leaves every division as it is. *)
LEMMA SwapRoundInv ==
  ASSUME IInv, scan.on, SwapRound
  PROVE  IInv'
<1>. DEFINE l == Min(StopsUp)
            h == Max(StopsDown)
<1>1. /\ l < h /\ streams' = Swap(At(l), At(h))
      /\ scan' = [scan EXCEPT !.l = l, !.h = h] /\ calls' = calls
  BY DEF SwapRound
<1>2. /\ l \in 0 .. Call.len - 1 /\ h \in 0 .. Call.len - 1
      /\ CountAt(l) <= scan.pivot /\ CountAt(h) >= scan.pivot
      /\ \A i \in 0 .. l - 1 : CountAt(i) >= scan.pivot
      /\ \A i \in h + 1 .. Call.len - 1 : CountAt(i) <= scan.pivot
  BY RoundFacts
<1>. HIDE DEF l, h
<1>3. calls # << >> /\ Call.len >= 2
  BY DEF IInv, Partitioning
<1>4. /\ Call \in CallRecord /\ Call = calls[1] /\ 1 \in DOMAIN calls
      /\ Call.from + Call.len <= Len(streams) /\ Len(streams) \in Nat
      /\ DOMAIN streams = 1 .. Len(streams)
      /\ At(l) \in DOMAIN streams /\ At(h) \in DOMAIN streams
  BY <1>2, <1>3, CallFacts DEF Call
<1>5. /\ Call.from \in Nat /\ Call.len \in Nat
      /\ At(l) = Call.from + l + 1 /\ At(h) = Call.from + h + 1
  BY <1>4 DEF CallRecord, At
<1>6. /\ streams' \in Seq(Info) /\ Len(streams') = Len(streams)
      /\ DOMAIN streams' = DOMAIN streams
      /\ \A i \in DOMAIN streams :
           streams'[i] = IF i = At(h) THEN streams[At(l)]
                         ELSE IF i = At(l) THEN streams[At(h)] ELSE streams[i]
  BY <1>1, <1>4 DEF Swap, IInv, Types
<1>7. Types'
  <2>1. l \in Int /\ h \in Int
    BY <1>2, <1>5
  <2>2. scan \in [on : BOOLEAN, l : Int, h : Int, pivot : Int]
    BY DEF IInv, Types
  <2>3. scan' \in [on : BOOLEAN, l : Int, h : Int, pivot : Int]
    BY <1>1, <2>1, <2>2
  <2>. QED
    BY <1>1, <1>6, <2>3 DEF IInv, Types
<1>8. Contiguous' /\ Start' = Start
  BY <1>1, <1>3, <1>6 DEF IInv, Contiguous, Start
<1>9. ASSUME NEW m \in Int, Parted(m), m <= Call.from \/ Call.from + Call.len <= m
      PROVE  Parted(m)'
  <2>1. (m < At(l) /\ m < At(h)) \/ (At(l) <= m /\ At(h) <= m)
    BY <1>2, <1>5, <1>9
  <2>. QED
    BY <1>1, <1>4, <1>9, <2>1, SwapParted DEF IInv, Types
<1>10. Divided'
  <2>. SUFFICES ASSUME NEW k \in DOMAIN calls PROVE Parted(calls[k].from)'
    BY <1>1 DEF Divided
  <2>1. Parted(calls[k].from) /\ calls[k].from \in Int
    <3>1. calls[k] \in CallRecord
      BY DEF IInv, Types
    <3>2. Parted(calls[k].from)
      BY DEF IInv, Divided
    <3>. QED
      BY <3>1, <3>2 DEF CallRecord
  <2>2. calls[k].from <= Call.from \/ Call.from + Call.len <= calls[k].from
    <3>1. CASE k = 1
      BY <1>4, <1>5, <3>1
    <3>2. CASE k # 1
      <4>1. 1 < k
        BY <3>2 DEF IInv, Types
      <4>. QED
        BY <1>4, <4>1 DEF IInv, Contiguous
    <3>. QED
      BY <3>1, <3>2
  <2>. DEFINE m == calls[k].from
  <2>3. Parted(m)'
    BY <1>1, <1>9, <2>1, <2>2
  <2>. QED
    BY <2>3
<1>11. PrefixSorted'
  <2>. SUFFICES ASSUME NEW i \in DOMAIN streams, NEW j \in DOMAIN streams,
                       i < j, i <= Start
                PROVE  streams'[i].numSubscribers >= streams'[j].numSubscribers
    BY <1>6, <1>8 DEF PrefixSorted
  <2>1. Start = Call.from
    BY <1>3, <1>4 DEF Start
  <2>2. i # At(l) /\ i # At(h) /\ i < At(l) /\ i < At(h)
    <3>1. i \in Nat /\ i <= Call.from
      BY <1>4, <2>1
    <3>. QED
      BY <1>2, <1>5, <3>1
  <2>3. streams'[i] = streams[i]
    BY <1>6, <2>2
  <2>4. PICK k \in DOMAIN streams : streams'[j] = streams[k] /\ i < k
    BY <1>4, <1>6, <2>2
  <2>. QED
    BY <2>3, <2>4 DEF IInv, PrefixSorted
<1>12. SameStreams'
  <2>1. \A i \in DOMAIN streams : \E j \in DOMAIN streams : streams'[i].name = streams[j].name
    BY <1>4, <1>6
  <2>2. \A i \in DOMAIN streams : \E j \in DOMAIN streams : streams'[j].name = streams[i].name
    BY <1>4, <1>6
  <2>. DEFINE before == {streams[i].name : i \in DOMAIN streams}
              after == {streams'[i].name : i \in DOMAIN streams}
  <2>3. before \subseteq after /\ after \subseteq before
    BY <2>1, <2>2
  <2>4. before = DOMAIN streams
    BY DEF IInv, SameStreams
  <2>. QED
    BY <1>6, <2>3, <2>4 DEF SameStreams
<1>13. Partitioning'
  <2>1. /\ scan'.on /\ scan'.l = l /\ scan'.h = h /\ scan'.pivot = scan.pivot
        /\ Call' = Call
    BY <1>1 DEF IInv, Types, Call
  <2>2. \A i \in 0 .. Call.len - 1 :
          CountAt(i)' = IF i = h THEN CountAt(l) ELSE IF i = l THEN CountAt(h) ELSE CountAt(i)
    <3>1. ASSUME NEW i \in 0 .. Call.len - 1
          PROVE  CountAt(i)' = IF i = h THEN CountAt(l)
                               ELSE IF i = l THEN CountAt(h) ELSE CountAt(i)
      <4>1. At(i) = Call.from + i + 1 /\ At(i)' = At(i) /\ At(i) \in DOMAIN streams
        BY <1>3, <2>1, CallFacts DEF At
      <4>2. (At(i) = At(h) <=> i = h) /\ (At(i) = At(l) <=> i = l)
        BY <1>2, <1>5, <4>1
      <4>. QED
        BY <1>6, <4>1, <4>2 DEF CountAt
    <3>. QED
      BY <3>1
  <2>3. \A i \in 0 .. l : CountAt(i)' >= scan.pivot
    BY <1>1, <1>2, <1>5, <2>2
  <2>4. \A i \in h .. Call.len - 1 : CountAt(i)' <= scan.pivot
    BY <1>1, <1>2, <1>5, <2>2
  <2>. QED
    BY <1>1, <1>2, <1>3, <1>5, <2>1, <2>3, <2>4 DEF Partitioning
<1>. QED
  BY <1>7, <1>8, <1>10, <1>11, <1>12, <1>13 DEF IInv

(* The last round divides the part where the scans have met. *)
LEMMA LastRoundInv ==
  ASSUME IInv, scan.on, LastRound
  PROVE  IInv'
<1>. DEFINE l == Min(StopsUp)
            h == Max(StopsDown)
            left == [from |-> Call.from, len |-> l]
            right == [from |-> Call.from + l, len |-> Call.len - l]
<1>1. /\ l >= h /\ scan' = NoScan /\ streams' = streams
      /\ calls' = <<left, right>> \o Tail(calls)
  BY DEF LastRound
<1>2. /\ l \in 0 .. Call.len - 1 /\ h \in 0 .. Call.len - 1
      /\ CountAt(l) <= scan.pivot
      /\ \A i \in 0 .. l - 1 : CountAt(i) >= scan.pivot
      /\ \A i \in h + 1 .. Call.len - 1 : CountAt(i) <= scan.pivot
  BY RoundFacts
<1>3. calls # << >> /\ scan.pivot \in Int
  BY DEF IInv, Types, Partitioning
<1>4. /\ Call \in CallRecord /\ Call = calls[1] /\ 1 \in DOMAIN calls
      /\ Call.from + Call.len <= Len(streams) /\ Len(streams) \in Nat
      /\ DOMAIN streams = 1 .. Len(streams)
      /\ calls \in Seq(CallRecord) /\ Len(calls) \in Nat /\ DOMAIN calls = 1 .. Len(calls)
  BY <1>3, CallFacts DEF Call, IInv, Types
<1>5. Call.from \in Nat /\ Call.len \in Nat
  BY <1>4 DEF CallRecord
<1>6. /\ l \in Nat /\ l <= Call.len
      /\ left \in CallRecord /\ left.from = Call.from /\ left.len = l
      /\ right \in CallRecord /\ right.from = Call.from + l /\ right.len = Call.len - l
  BY <1>2, <1>5 DEF CallRecord
<1>. HIDE DEF l, h, left, right
<1>7. /\ calls' \in Seq(CallRecord) /\ Len(calls') = Len(calls) + 1
      /\ DOMAIN calls' = 1 .. Len(calls) + 1 /\ calls' # << >>
      /\ calls'[1] = left /\ calls'[2] = right
      /\ \A k \in 3 .. Len(calls) + 1 : calls'[k] = calls[k - 1]
  BY <1>1, <1>3, <1>4, <1>6, PushFacts
<1>8. Types'
  BY <1>1, <1>7 DEF IInv, Types, NoScan
<1>9. \A k \in DOMAIN calls' :
        \/ k = 1 /\ calls'[k] = left
        \/ k = 2 /\ calls'[k] = right
        \/ k >= 3 /\ k - 1 \in DOMAIN calls /\ 1 < k - 1 /\ calls'[k] = calls[k - 1]
  BY <1>4, <1>7
<1>10. ASSUME NEW k \in DOMAIN calls PROVE calls[k].from \in Nat /\ calls[k].len \in Nat
  <2>1. calls[k] \in CallRecord
    BY <1>4
  <2>. QED
    BY <2>1 DEF CallRecord
<1>11. Contiguous'
  <2>1. ASSUME NEW k \in DOMAIN calls'
        PROVE  calls'[k].from + calls'[k].len <= Len(streams')
    <3>1. CASE calls'[k] = left
      <4>1. calls'[k].from + calls'[k].len = Call.from + l
        BY <1>6, <3>1
      <4>2. Call.from + l <= Len(streams)
        BY <1>4, <1>5, <1>6
      <4>. QED
        BY <1>1, <4>1, <4>2
    <3>2. CASE calls'[k] = right
      <4>1. calls'[k].from + calls'[k].len = (Call.from + l) + (Call.len - l)
        BY <1>6, <3>2
      <4>2. (Call.from + l) + (Call.len - l) <= Len(streams)
        BY <1>4, <1>5, <1>6
      <4>. QED
        BY <1>1, <4>1, <4>2
    <3>3. CASE k - 1 \in DOMAIN calls /\ calls'[k] = calls[k - 1]
      BY <1>1, <3>3 DEF IInv, Contiguous
    <3>. QED
      BY <1>9, <3>1, <3>2, <3>3
  <2>2. ASSUME NEW j \in DOMAIN calls', NEW k \in DOMAIN calls', j < k
        PROVE  calls'[j].from + calls'[j].len <= calls'[k].from
    <3>1. CASE j = 1 /\ k = 2
      BY <1>5, <1>6, <1>7, <3>1
    <3>2. CASE j \in {1, 2} /\ k >= 3
      <4>1. k - 1 \in DOMAIN calls /\ 1 < k - 1 /\ calls'[k] = calls[k - 1]
        BY <1>9, <3>2
      <4>2. Call.from + Call.len <= calls[k - 1].from /\ calls[k - 1].from \in Nat
        BY <1>4, <1>10, <4>1 DEF IInv, Contiguous
      <4>. QED
        BY <1>5, <1>6, <1>7, <3>2, <4>1, <4>2
    <3>3. CASE j >= 3
      <4>1. /\ j - 1 \in DOMAIN calls /\ calls'[j] = calls[j - 1]
            /\ k - 1 \in DOMAIN calls /\ calls'[k] = calls[k - 1]
            /\ j - 1 < k - 1
        BY <1>7, <1>9, <2>2, <3>3
      <4>. QED
        BY <4>1 DEF IInv, Contiguous
    <3>. QED
      BY <1>7, <2>2, <3>1, <3>2, <3>3
  <2>3. ASSUME NEW k \in DOMAIN calls'
        PROVE  calls'[k].from + calls'[k].len =
                 IF k = Len(calls') THEN Len(streams') ELSE calls'[k + 1].from
    <3>1. CASE k = 1
      <4>1. k # Len(calls') /\ k + 1 = 2
        BY <1>4, <1>7, <3>1
      <4>. QED
        BY <1>6, <1>7, <3>1, <4>1
    <3>2. CASE k = 2
      <4>1. calls[1].from + calls[1].len =
              IF 1 = Len(calls) THEN Len(streams) ELSE calls[1 + 1].from
        BY <1>4 DEF IInv, Contiguous
      <4>2. calls'[k].from + calls'[k].len = Call.from + Call.len
        BY <1>5, <1>6, <1>7, <3>2
      <4>3. k # Len(calls') => calls'[k + 1] = calls[1 + 1]
        BY <1>4, <1>7, <3>2
      <4>. QED
        BY <1>1, <1>4, <1>7, <3>2, <4>1, <4>2, <4>3
    <3>3. CASE k >= 3
      <4>1. k - 1 \in DOMAIN calls /\ calls'[k] = calls[k - 1]
        BY <1>9, <3>3
      <4>2. calls[k - 1].from + calls[k - 1].len =
              IF k - 1 = Len(calls) THEN Len(streams) ELSE calls[(k - 1) + 1].from
        BY <4>1 DEF IInv, Contiguous
      <4>3. k # Len(calls') => calls'[k + 1] = calls[(k - 1) + 1]
        BY <1>4, <1>7, <3>3
      <4>. QED
        BY <1>1, <1>4, <1>7, <3>3, <4>1, <4>2, <4>3
    <3>. QED
      BY <1>9, <3>1, <3>2, <3>3
  <2>. QED
    BY <2>1, <2>2, <2>3 DEF Contiguous
<1>12. Parted(Call.from + l)
  <2>. SUFFICES ASSUME NEW i \in DOMAIN streams, NEW j \in DOMAIN streams,
                       i <= Call.from + l, Call.from + l < j
                PROVE  streams[i].numSubscribers >= streams[j].numSubscribers
    BY DEF Parted
  <2>1. CASE i <= Call.from
    <3>1. i < j
      BY <1>4, <1>5, <1>6, <2>1
    <3>. QED
      BY <1>3, <1>4, <2>1, <3>1 DEF IInv, PrefixSorted, Start
  <2>2. CASE Call.from + Call.len < j
    <3>1. i <= Call.from + Call.len
      BY <1>4, <1>5, <1>6
    <3>. QED
      BY <1>3, <2>2, <3>1, CallFacts DEF Parted
  <2>3. CASE Call.from < i /\ j <= Call.from + Call.len
    <3>. DEFINE a == i - Call.from - 1
                b == j - Call.from - 1
    <3>1. /\ a \in 0 .. l - 1 /\ b \in l .. Call.len - 1
          /\ a \in 0 .. Call.len - 1 /\ b \in 0 .. Call.len - 1
          /\ At(a) = i /\ At(b) = j
      <4>1. i \in Nat /\ j \in Nat
        BY <1>4
      <4>2. a \in 0 .. l - 1 /\ b \in l .. Call.len - 1
        BY <1>5, <1>6, <2>3, <4>1
      <4>3. a \in 0 .. Call.len - 1 /\ b \in 0 .. Call.len - 1
        BY <1>5, <1>6, <4>2
      <4>. QED
        BY <1>5, <4>1, <4>2, <4>3 DEF At
    <3>. HIDE DEF a, b
    <3>2. CountAt(a) >= scan.pivot
      BY <1>2, <3>1
    <3>3. CountAt(b) <= scan.pivot
      <4>1. CASE b = l
        BY <1>2, <4>1
      <4>2. CASE b # l
        <5>1. b \in h + 1 .. Call.len - 1
          BY <1>1, <1>2, <1>5, <1>6, <3>1, <4>2
        <5>. QED
          BY <1>2, <5>1
      <4>. QED
        BY <4>1, <4>2
    <3>4. CountAt(a) \in Nat /\ CountAt(b) \in Nat
      BY <1>3, <3>1, CallFacts
    <3>5. CountAt(a) >= CountAt(b)
      BY <1>3, <3>2, <3>3, <3>4
    <3>. QED
      BY <3>1, <3>5 DEF CountAt
  <2>. QED
    BY <1>4, <1>5, <2>1, <2>2, <2>3
<1>13. Divided'
  <2>. SUFFICES ASSUME NEW k \in DOMAIN calls' PROVE Parted(calls'[k].from)
    BY <1>1 DEF Divided, Parted
  <2>1. CASE calls'[k] = left
    BY <1>4, <1>6, <2>1 DEF IInv, Divided
  <2>2. CASE calls'[k] = right
    BY <1>6, <1>12, <2>2
  <2>3. CASE k - 1 \in DOMAIN calls /\ calls'[k] = calls[k - 1]
    BY <2>3 DEF IInv, Divided
  <2>. QED
    BY <1>9, <2>1, <2>2, <2>3
<1>14. PrefixSorted'
  <2>1. Start' = Start
    BY <1>1, <1>3, <1>4, <1>6, <1>7 DEF Start
  <2>. QED
    BY <1>1, <2>1 DEF IInv, PrefixSorted
<1>15. SameStreams' /\ Partitioning'
  BY <1>1 DEF IInv, SameStreams, Partitioning, NoScan
<1>. QED
  BY <1>8, <1>11, <1>13, <1>14, <1>15 DEF IInv

LEMMA InvStep == IInv /\ [Next]_vars => IInv'
<1>. SUFFICES ASSUME IInv, [Next]_vars PROVE IInv'
  OBVIOUS
<1>1. CASE ReturnShort
  BY <1>1, ReturnShortInv
<1>2. CASE BeginPartition
  BY <1>2, BeginPartitionInv
<1>3. CASE scan.on /\ SwapRound
  BY <1>3, SwapRoundInv
<1>4. CASE scan.on /\ LastRound
  BY <1>4, LastRoundInv
<1>5. CASE UNCHANGED <<streams, calls, scan>>
  <2>1. Types' /\ Contiguous' /\ Divided' /\ PrefixSorted' /\ SameStreams'
    BY <1>5 DEF IInv, Types, Contiguous, Divided, Parted, PrefixSorted, Start, SameStreams
  <2>2. Partitioning'
    BY <1>5 DEF IInv, Partitioning, Call, CountAt, At
  <2>. QED
    BY <2>1, <2>2 DEF IInv
<1>. QED
  BY <1>1, <1>2, <1>3, <1>4, <1>5 DEF Next, PackName, vars
-----------------------------------------------------------------------------
THEOREM Invariance == Spec => []IInv
BY InvInit, InvStep, PTL DEF Spec

(* The unguarded loops of the partition stop inside their part of the array. *)
THEOREM ScansInBoundsHolds == Spec => []ScansInBounds
<1>1. IInv => ScansInBounds
  BY ScansStop DEF ScansInBounds
<1>. QED
  BY <1>1, Invariance, PTL

(* When the recursion is over, the streams are the same, in descending order. *)
THEOREM SortedHolds == Spec => []Sorted
<1>1. IInv => Sorted
  <2>. SUFFICES ASSUME IInv, calls = << >>
                PROVE  /\ \A i, j \in DOMAIN streams :
                            i < j => streams[i].numSubscribers >= streams[j].numSubscribers
                       /\ {streams[i].name : i \in DOMAIN streams} = DOMAIN streams
    BY DEF Sorted
  <2>1. \A i \in DOMAIN streams : i <= Start
    BY DEF IInv, Types, Start
  <2>. QED
    BY <2>1 DEF IInv, PrefixSorted, SameStreams
<1>. QED
  BY <1>1, Invariance, PTL
-----------------------------------------------------------------------------
(* What bounds the recursion: a pivot that is not the first of its part, and *)
(* so no empty part, and at least one stream left for each call.             *)
PivotInside ==
  scan.on /\ scan.l = -1 => \E i \in 1 .. Call.len - 1 : CountAt(i) = scan.pivot

NonEmpty == \A k \in DOMAIN calls : calls[k].len >= 1

EnoughLeft == \A k \in DOMAIN calls : Len(calls) - k < Len(streams) - calls[k].from

(* The names are packed after the recursion, one for each stream. *)
Packing ==
  /\ pointers # << >> => calls = << >>
  /\ Len(pointers) \in Nat /\ Len(pointers) <= Len(streams)

WorkInv == PivotInside /\ NonEmpty /\ EnoughLeft /\ Packing

LEMMA WorkInit == Init => WorkInv
<1>. SUFFICES ASSUME Init PROVE WorkInv
  OBVIOUS
<1>1. PICK len \in 1 .. MaxLen : \E counts \in [1 .. len -> 0 .. MaxCount] :
        /\ streams = [i \in 1 .. len |-> [name |-> i, numSubscribers |-> counts[i]]]
        /\ calls = <<[from |-> 0, len |-> len]>>
  BY DEF Init
<1>2. len \in Nat /\ len >= 1 /\ Len(streams) = len
  BY <1>1, BoundAssumption
<1>3. DOMAIN calls = {1} /\ Len(calls) = 1 /\ calls[1].from = 0 /\ calls[1].len = len
  BY <1>1
<1>. QED
  BY <1>2, <1>3 DEF Init, NoScan, WorkInv, PivotInside, NonEmpty, EnoughLeft, Packing

(* The call that returns had the next stream. *)
LEMMA ReturnShortWork ==
  ASSUME IInv, WorkInv, ReturnShort
  PROVE  /\ NonEmpty' /\ EnoughLeft'
         /\ Len(calls') = Len(calls) - 1 /\ Start' = Start + 1
<1>1. /\ calls # << >> /\ Call.len < 2
      /\ calls' = Tail(calls) /\ streams' = streams
  BY DEF ReturnShort
<1>2. /\ calls \in Seq(CallRecord) /\ Len(calls) \in Nat /\ DOMAIN calls = 1 .. Len(calls)
      /\ Call = calls[1] /\ Len(calls) >= 1
  BY <1>1 DEF IInv, Types, Call
<1>3. /\ calls' \in Seq(CallRecord) /\ Len(calls') = Len(calls) - 1
      /\ DOMAIN calls' = 1 .. Len(calls) - 1
      /\ \A k \in 1 .. Len(calls) - 1 : calls'[k] = calls[k + 1]
  BY <1>1, <1>2, TailFacts
<1>4. Call.len = 1 /\ Call.from \in Nat
  BY <1>1, <1>2, CallFacts DEF WorkInv, NonEmpty, CallRecord
<1>5. Call.from + 1 = IF Len(calls) = 1 THEN Len(streams) ELSE calls[2].from
  <2>1. calls[1].from + calls[1].len =
          IF 1 = Len(calls) THEN Len(streams) ELSE calls[1 + 1].from
    BY <1>2 DEF IInv, Contiguous
  <2>. QED
    BY <1>2, <1>4, <2>1
<1>6. Start' = Start + 1
  <2>1. CASE Len(calls) = 1
    <3>1. calls' = << >>
      BY <1>3, <2>1
    <3>. QED
      BY <1>1, <1>2, <1>5, <2>1, <3>1 DEF Start
  <2>2. CASE Len(calls) # 1
    <3>1. 1 \in DOMAIN calls' /\ calls' # << >> /\ calls'[1] = calls[1 + 1]
      BY <1>2, <1>3, <2>2
    <3>. QED
      BY <1>1, <1>2, <1>5, <2>2, <3>1 DEF Start
  <2>. QED
    BY <2>1, <2>2
<1>7. ASSUME NEW k \in DOMAIN calls'
      PROVE  calls'[k].len >= 1 /\ Len(calls') - k < Len(streams') - calls'[k].from
  <2>1. k + 1 \in DOMAIN calls /\ calls'[k] = calls[k + 1] /\ k \in Nat
    BY <1>2, <1>3
  <2>2. Len(calls') - k = Len(calls) - (k + 1)
    BY <1>2, <1>3, <2>1
  <2>. QED
    BY <1>1, <2>1, <2>2 DEF WorkInv, NonEmpty, EnoughLeft
<1>. QED
  BY <1>3, <1>6, <1>7 DEF NonEmpty, EnoughLeft

(* Both parts of a division have streams. *)
LEMMA LastRoundWork ==
  ASSUME IInv, WorkInv, scan.on, LastRound
  PROVE  /\ NonEmpty' /\ EnoughLeft'
         /\ Len(calls') = Len(calls) + 1 /\ Start' = Start
<1>. DEFINE l == Min(StopsUp)
            h == Max(StopsDown)
            left == [from |-> Call.from, len |-> l]
            right == [from |-> Call.from + l, len |-> Call.len - l]
<1>1. /\ l >= h /\ streams' = streams
      /\ calls' = <<left, right>> \o Tail(calls)
  BY DEF LastRound
<1>2. /\ l \in 0 .. Call.len - 1 /\ h \in 0 .. Call.len - 1
      /\ \A i \in h + 1 .. Call.len - 1 : i \notin StopsDown
      /\ scan.l < l
  <2>1. calls # << >>
    BY DEF IInv, Partitioning
  <2>2. /\ Call.len \in Nat /\ scan.l \in Int /\ scan.h \in Int /\ -1 <= scan.l
        /\ scan.h <= Call.len
    BY <2>1, CallFacts DEF IInv, Types, CallRecord, Partitioning
  <2>3. StopsUp \subseteq Nat /\ StopsDown \subseteq 0 .. Call.len
    BY <2>2 DEF StopsUp, StopsDown
  <2>4. l \in StopsUp
    BY <2>3, ScansStop, MinFacts
  <2>5. h \in StopsDown /\ \A y \in StopsDown : h >= y
    BY <2>2, <2>3, ScansStop, MaxFacts
  <2>6. l \in scan.l + 1 .. Call.len - 1 /\ h \in 0 .. scan.h - 1
    BY <2>4, <2>5 DEF StopsUp, StopsDown
  <2>. HIDE DEF l, h
  <2>7. ASSUME NEW i \in h + 1 .. Call.len - 1 PROVE i \notin StopsDown
    BY <2>2, <2>5, <2>6
  <2>. QED
    BY <2>2, <2>6, <2>7
<1>3. calls # << >> /\ scan.pivot \in Int /\ scan.l \in Int /\ -1 <= scan.l
      /\ Call.len >= 2
  BY DEF IInv, Types, Partitioning
<1>4. /\ Call \in CallRecord /\ Call = calls[1] /\ 1 \in DOMAIN calls
      /\ Call.from + Call.len <= Len(streams) /\ Len(streams) \in Nat
      /\ calls \in Seq(CallRecord) /\ Len(calls) \in Nat /\ DOMAIN calls = 1 .. Len(calls)
  BY <1>3, CallFacts DEF Call, IInv, Types
<1>5. Call.from \in Nat /\ Call.len \in Nat
  BY <1>4 DEF CallRecord
<1>6. l >= 1
  <2>. HIDE DEF l, h, left, right
  <2>1. CASE scan.l # -1
    BY <1>2, <1>3, <1>5, <2>1
  <2>2. CASE scan.l = -1
    <3>1. PICK i \in 1 .. Call.len - 1 : CountAt(i) = scan.pivot
      BY <2>2 DEF WorkInv, PivotInside
    <3>2. i \in StopsDown
      <4>1. scan.h = Call.len
        BY <2>2 DEF IInv, Partitioning
      <4>. QED
        BY <1>3, <1>5, <3>1, <4>1 DEF StopsDown
    <3>3. i <= h
      BY <1>2, <1>5, <3>1, <3>2
    <3>. QED
      BY <1>1, <1>2, <1>5, <3>1, <3>3
  <2>. QED
    BY <2>1, <2>2
<1>7. /\ l \in Nat /\ l <= Call.len - 1
      /\ left \in CallRecord /\ left.from = Call.from /\ left.len = l
      /\ right \in CallRecord /\ right.from = Call.from + l /\ right.len = Call.len - l
  BY <1>2, <1>5 DEF CallRecord
<1>. HIDE DEF l, h, left, right
<1>8. /\ calls' \in Seq(CallRecord) /\ Len(calls') = Len(calls) + 1
      /\ DOMAIN calls' = 1 .. Len(calls) + 1 /\ calls' # << >>
      /\ calls'[1] = left /\ calls'[2] = right
      /\ \A k \in 3 .. Len(calls) + 1 : calls'[k] = calls[k - 1]
  BY <1>1, <1>3, <1>4, <1>7, PushFacts
<1>9. Len(calls) - 1 <= Len(streams) - (Call.from + Call.len)
  <2>1. calls[1].from + calls[1].len =
          IF 1 = Len(calls) THEN Len(streams) ELSE calls[1 + 1].from
    BY <1>4 DEF IInv, Contiguous
  <2>2. CASE Len(calls) = 1
    BY <1>4, <1>5, <2>1, <2>2
  <2>3. CASE Len(calls) # 1
    <3>1. 2 \in DOMAIN calls
      BY <1>4, <2>3
    <3>2. Len(calls) - 2 < Len(streams) - calls[2].from
      BY <3>1 DEF WorkInv, EnoughLeft
    <3>. QED
      BY <1>4, <1>5, <2>1, <2>3, <3>2
  <2>. QED
    BY <2>2, <2>3
<1>10. ASSUME NEW k \in DOMAIN calls'
       PROVE  calls'[k].len >= 1 /\ Len(calls') - k < Len(streams') - calls'[k].from
  <2>1. CASE k = 1
    BY <1>1, <1>4, <1>5, <1>6, <1>7, <1>8, <1>9, <2>1
  <2>2. CASE k = 2
    <3>1. calls'[k].len = Call.len - l /\ calls'[k].from = Call.from + l
      BY <1>7, <1>8, <2>2
    <3>2. Len(calls') - k = Len(calls) - 1 /\ Len(streams') = Len(streams)
      BY <1>1, <1>4, <1>8, <2>2
    <3>. QED
      BY <1>4, <1>5, <1>7, <1>9, <3>1, <3>2
  <2>3. CASE k \notin {1, 2}
    <3>1. k \in 3 .. Len(calls) + 1 /\ k - 1 \in DOMAIN calls
      BY <1>4, <1>8, <2>3
    <3>2. calls'[k] = calls[k - 1] /\ Len(calls') - k = Len(calls) - (k - 1)
      BY <1>4, <1>8, <3>1
    <3>. QED
      BY <1>1, <3>1, <3>2 DEF WorkInv, NonEmpty, EnoughLeft
  <2>. QED
    BY <2>1, <2>2, <2>3
<1>11. Start' = Start
  BY <1>1, <1>3, <1>4, <1>7, <1>8 DEF Start
<1>. QED
  BY <1>8, <1>10, <1>11 DEF NonEmpty, EnoughLeft

(* A round takes the scans nearer to each other. *)
LEMMA SwapRoundWork ==
  ASSUME IInv, scan.on, SwapRound
  PROVE  /\ scan'.on /\ scan.l < scan'.l /\ scan'.l < scan'.h /\ scan'.h < scan.h
         /\ scan'.l \in Nat /\ scan'.h \in Nat /\ scan.l \in Int /\ scan.h \in Int
         /\ Len(streams') = Len(streams)
<1>. DEFINE l == Min(StopsUp)
            h == Max(StopsDown)
<1>1. /\ l < h /\ scan' = [scan EXCEPT !.l = l, !.h = h]
      /\ streams' = Swap(At(l), At(h))
  BY DEF SwapRound
<1>2. /\ calls # << >> /\ Call.len \in Nat
      /\ scan \in [on : BOOLEAN, l : Int, h : Int, pivot : Int]
      /\ -1 <= scan.l /\ scan.h <= Call.len
  BY CallFacts DEF IInv, Types, CallRecord, Partitioning
<1>3. StopsUp \subseteq Nat /\ StopsDown \subseteq 0 .. Call.len
  BY <1>2 DEF StopsUp, StopsDown
<1>4. l \in StopsUp /\ h \in StopsDown
  BY <1>2, <1>3, ScansStop, MinFacts, MaxFacts
<1>5. l \in scan.l + 1 .. Call.len - 1 /\ h \in 0 .. scan.h - 1
  BY <1>4 DEF StopsUp, StopsDown
<1>6. Len(streams') = Len(streams)
  BY <1>1 DEF Swap, IInv, Types
<1>. HIDE DEF l, h
<1>. QED
  BY <1>1, <1>2, <1>5, <1>6

LEMMA WorkStep ==
  ASSUME IInv, WorkInv, IInv', Next
  PROVE  WorkInv' /\ LessToDo
<1>. DEFINE L == Len(streams)
            first == 2 * (L - Start) - Len(calls)
<1>1. /\ L \in Nat /\ Len(calls) \in Nat /\ DOMAIN calls = 1 .. Len(calls)
      /\ Start \in Nat /\ Len(calls) <= L - Start
      /\ Len(pointers) \in Nat /\ Len(pointers) <= L
  <2>1. L \in Nat /\ Len(calls) \in Nat /\ DOMAIN calls = 1 .. Len(calls)
    BY DEF IInv, Types
  <2>2. CASE calls = << >>
    BY <2>1, <2>2 DEF Start, WorkInv, Packing
  <2>3. CASE calls # << >>
    <3>1. 1 \in DOMAIN calls /\ Start = calls[1].from
      BY <2>1, <2>3 DEF IInv, Types, Start
    <3>2. Start \in Nat
      <4>1. calls[1] \in CallRecord
        BY <3>1 DEF IInv, Types
      <4>. QED
        BY <3>1, <4>1 DEF CallRecord
    <3>3. Len(calls) - 1 < L - Start
      BY <3>1 DEF WorkInv, EnoughLeft
    <3>. QED
      BY <2>1, <3>2, <3>3 DEF WorkInv, Packing
  <2>. QED
    BY <2>2, <2>3
<1>2. first \in Nat
  BY <1>1
<1>3. scan.on => scan.h - scan.l \in Nat
  BY DEF IInv, Types, Partitioning
<1>4. /\ Work[1] = first
      /\ Work[2] = IF scan.on THEN scan.h - scan.l ELSE L + 2
      /\ Work[3] = L - Len(pointers)
      /\ Work'[1] = 2 * (L' - Start') - Len(calls')
      /\ Work'[2] = IF scan'.on THEN scan'.h - scan'.l ELSE L' + 2
      /\ Work'[3] = L' - Len(pointers')
  BY DEF Work
<1>. HIDE DEF L, first, Work
<1>5. CASE ReturnShort
  <2>1. /\ NonEmpty' /\ EnoughLeft' /\ Len(calls') = Len(calls) - 1 /\ Start' = Start + 1
        /\ UNCHANGED <<streams, scan, pointers>> /\ calls # << >> /\ ~scan.on
    BY <1>5, ReturnShortWork DEF ReturnShort, packVars
  <2>2. WorkInv'
    BY <1>1, <2>1 DEF L, WorkInv, PivotInside, Packing
  <2>3. Work'[1] = first - 1 /\ Len(calls) >= 1
    <3>1. Len(calls) # 0
      BY <2>1 DEF IInv, Types
    <3>. QED
      BY <1>1, <1>4, <2>1, <3>1 DEF first, L
  <2>4. Work'[1] \in Nat /\ Work'[1] < Work[1]
    BY <1>1, <1>2, <1>4, <2>3 DEF first
  <2>5. Work'[2] \in Nat /\ Work'[3] \in Nat
    BY <1>1, <1>4, <2>1 DEF L
  <2>. QED
    BY <2>2, <2>4, <2>5 DEF LessToDo
<1>6. CASE BeginPartition
  <2>1. /\ calls # << >> /\ ~scan.on /\ Call.len >= 2
        /\ scan' = [on |-> TRUE, l |-> -1, h |-> Call.len, pivot |-> CountAt(Call.len \div 2)]
        /\ UNCHANGED <<streams, calls, pointers>>
    BY <1>6 DEF BeginPartition, packVars
  <2>2. Call.len \in Nat /\ Call.len <= L
    BY <1>1, <2>1, CallFacts DEF CallRecord, L
  <2>3. Call.len \div 2 \in 1 .. Call.len - 1
    BY <2>1, <2>2
  <2>4. PivotInside'
    BY <2>1, <2>3 DEF PivotInside, Call, CountAt, At
  <2>5. WorkInv'
    BY <2>1, <2>4 DEF WorkInv, NonEmpty, EnoughLeft, Packing
  <2>6. Work'[1] = Work[1] /\ Work'[3] = Work[3] /\ Work[3] \in Nat
    BY <1>1, <1>4, <2>1 DEF first, L, Start
  <2>7. Work'[2] = Call.len + 1 /\ Work[2] = L + 2
    BY <1>4, <2>1, <2>2
  <2>8. Work'[2] \in Nat /\ Work'[2] < Work[2]
    BY <1>1, <2>2, <2>7
  <2>. QED
    BY <1>2, <1>4, <2>5, <2>6, <2>8 DEF LessToDo
<1>7. CASE scan.on /\ SwapRound
  <2>1. /\ scan'.on /\ scan.l < scan'.l /\ scan'.l < scan'.h /\ scan'.h < scan.h
        /\ scan'.l \in Nat /\ scan'.h \in Nat /\ scan.l \in Int /\ scan.h \in Int
        /\ L' = L /\ UNCHANGED <<calls, pointers>>
    BY <1>7, SwapRoundWork DEF SwapRound, packVars, L
  <2>2. Start' = Start
    BY <2>1 DEF Start, L
  <2>3. WorkInv'
    BY <2>1 DEF WorkInv, PivotInside, NonEmpty, EnoughLeft, Packing, L
  <2>4. Work'[1] = Work[1] /\ Work'[3] = Work[3] /\ Work[3] \in Nat
    BY <1>1, <1>4, <2>1, <2>2 DEF first
  <2>5. Work'[2] \in Nat /\ Work'[2] < Work[2]
    BY <1>4, <1>7, <2>1
  <2>. QED
    BY <1>2, <1>4, <2>3, <2>4, <2>5 DEF LessToDo
<1>8. CASE scan.on /\ LastRound
  <2>1. /\ NonEmpty' /\ EnoughLeft' /\ Len(calls') = Len(calls) + 1 /\ Start' = Start
        /\ UNCHANGED <<streams, pointers>> /\ calls # << >> /\ scan' = NoScan
    BY <1>8, LastRoundWork DEF LastRound, packVars, IInv, Partitioning
  <2>2. WorkInv'
    BY <1>1, <2>1 DEF L, WorkInv, PivotInside, Packing, NoScan
  <2>3. calls' # << >>
    BY <1>1, <2>1
  <2>4. Len(calls') <= L - Start
    <3>1. 1 \in DOMAIN calls' /\ Start' = calls'[1].from
      BY <2>3 DEF IInv, Types, Start
    <3>2. Len(calls') - 1 < L - Start
      BY <2>1, <3>1 DEF EnoughLeft, L
    <3>. QED
      BY <1>1, <2>1, <3>2
  <2>5. Work'[1] \in Nat /\ Work'[1] < Work[1]
    BY <1>1, <1>4, <2>1, <2>4 DEF first, L
  <2>6. Work'[2] \in Nat /\ Work'[3] \in Nat
    BY <1>1, <1>4, <2>1 DEF L, NoScan
  <2>. QED
    BY <2>2, <2>5, <2>6 DEF LessToDo
<1>9. CASE PackName
  <2>1. /\ calls = << >> /\ Len(pointers) < L /\ UNCHANGED <<streams, calls, scan>>
        /\ Len(pointers') = Len(pointers) + 1 /\ ~scan.on
    <3>1. ~scan.on /\ calls = << >> /\ Len(pointers) < L /\ UNCHANGED <<streams, calls, scan>>
      BY <1>9 DEF PackName, L, IInv, Partitioning
    <3>2. Len(pointers') = Len(pointers) + 1
      BY <1>9 DEF PackName
    <3>. QED
      BY <3>1, <3>2
  <2>2. WorkInv'
    BY <1>1, <2>1 DEF WorkInv, PivotInside, NonEmpty, EnoughLeft, Packing, L
  <2>3. Work'[1] = Work[1] /\ Work'[2] = Work[2] /\ Work[2] \in Nat
    BY <1>1, <1>4, <2>1 DEF first, L, Start
  <2>4. Work'[3] \in Nat /\ Work'[3] < Work[3]
    BY <1>1, <1>4, <2>1 DEF L
  <2>. QED
    BY <1>2, <1>4, <2>2, <2>3, <2>4 DEF LessToDo
<1>. QED
  BY <1>5, <1>6, <1>7, <1>8, <1>9 DEF Next

(* Every step leaves less to do, so that neither the recursion nor the loops *)
(* of the partition go on for ever.                                          *)
THEOREM WorkShrinksHolds == Spec => WorkShrinks
<1>1. IInv /\ WorkInv /\ [Next]_vars => IInv' /\ WorkInv'
  <2>. SUFFICES ASSUME IInv, WorkInv, [Next]_vars PROVE IInv' /\ WorkInv'
    OBVIOUS
  <2>1. IInv'
    BY InvStep
  <2>2. CASE Next
    BY <2>1, <2>2, WorkStep
  <2>3. CASE UNCHANGED vars
    BY <2>1, <2>3
    DEF vars, packVars, WorkInv, PivotInside, NonEmpty, EnoughLeft, Packing, Call, CountAt, At
  <2>. QED
    BY <2>2, <2>3
<1>2. IInv /\ WorkInv /\ IInv' /\ [Next]_vars => [LessToDo]_vars
  BY WorkStep
<1>. QED
  BY InvInit, WorkInit, <1>1, <1>2, PTL DEF Spec, WorkShrinks
-----------------------------------------------------------------------------
(* The packing of the names: the bytes reserved at first are never given up, *)
(* and while there are no more than those nothing was moved.                 *)
Reserved == NameRoom * Len(streams)

PackInv ==
  /\ Len(streams) <= MaxLen
  /\ block \in Nat /\ size \in Nat /\ capacity \in Nat \ {0}
  /\ pointers \in Seq([block : 0 .. block, at : Nat]) /\ Len(pointers) <= Len(streams)
  /\ size <= capacity
  /\ Reserved <= capacity
  /\ capacity = Reserved => block = 0

LEMMA PackInit == Init => PackInv
<1>. SUFFICES ASSUME Init PROVE PackInv
  OBVIOUS
<1>1. PICK len \in 1 .. MaxLen : \E counts \in [1 .. len -> 0 .. MaxCount] :
        /\ streams = [i \in 1 .. len |-> [name |-> i, numSubscribers |-> counts[i]]]
        /\ capacity = NameRoom * len
  BY DEF Init
<1>2. Len(streams) = len /\ len \in Nat /\ 1 <= len /\ len <= MaxLen
  BY <1>1, BoundAssumption
<1>3. NameRoom * len \in Nat \ {0}
  BY <1>2, SizeAssumption
<1>. QED
  BY <1>1, <1>2, <1>3 DEF Init, PackInv, Reserved

LEMMA WiderSeq ==
  ASSUME NEW S, NEW T, S \subseteq T, NEW s \in Seq(S)
  PROVE  s \in Seq(T)
<1>1. \A k \in 1 .. Len(s) : s[k] \in T
  OBVIOUS
<1>. QED
  BY <1>1

LEMMA ElementOfSeq ==
  ASSUME NEW S, NEW s \in Seq(S), NEW k \in DOMAIN s
  PROVE  s[k] \in S
OBVIOUS

(* One name more: the room is doubled until it fits. *)
LEMMA PackNamePack ==
  ASSUME IInv, PackInv, PackName
  PROVE  PackInv'
<1>. DEFINE named == NameSize[streams[Len(pointers) + 1].name]
<1>1. /\ Len(pointers) < Len(streams) /\ streams' = streams
      /\ size' = size + named
      /\ capacity' = Doubled(capacity, size')
      /\ block' \in IF capacity' = capacity THEN {block} ELSE {block, block + 1}
      /\ pointers' = Append(pointers, [block |-> block', at |-> size])
  BY DEF PackName
<1>2. named \in Nat
  <2>1. Len(pointers) + 1 \in DOMAIN streams
    BY <1>1 DEF IInv, Types, PackInv
  <2>2. streams[Len(pointers) + 1] \in Info
    BY <2>1 DEF IInv, Types
  <2>3. streams[Len(pointers) + 1].name \in 1 .. MaxLen
    BY <2>2 DEF Info
  <2>. QED
    BY <2>3, SizeAssumption
<1>. HIDE DEF named
<1>3. size' \in Nat
  BY <1>1, <1>2 DEF PackInv
<1>4. /\ capacity' \in Nat /\ capacity' >= size' /\ capacity' >= capacity
  BY <1>1, <1>3, DoubledFacts DEF PackInv
<1>5. block' \in Nat /\ block <= block' /\ (capacity' = capacity => block' = block)
  BY <1>1 DEF PackInv
<1>6. pointers' \in Seq([block : 0 .. block', at : Nat]) /\ Len(pointers') = Len(pointers) + 1
  <2>1. pointers \in Seq([block : 0 .. block, at : Nat])
    BY DEF PackInv
  <2>2. [block : 0 .. block, at : Nat] \subseteq [block : 0 .. block', at : Nat]
    BY <1>5 DEF PackInv
  <2>3. pointers \in Seq([block : 0 .. block', at : Nat])
    BY <2>1, <2>2, WiderSeq
  <2>4. [block |-> block', at |-> size] \in [block : 0 .. block', at : Nat]
    BY <1>5 DEF PackInv
  <2>. QED
    BY <1>1, <2>3, <2>4
<1>7. Len(pointers') <= Len(streams')
  BY <1>1, <1>6 DEF PackInv, IInv, Types
<1>8. Reserved' = Reserved /\ Reserved \in Nat
  BY <1>1, SizeAssumption DEF Reserved, IInv, Types
<1>. HIDE DEF Reserved
<1>9. Reserved' <= capacity' /\ (capacity' = Reserved' => block' = 0) /\ capacity' # 0
  BY <1>4, <1>5, <1>8 DEF PackInv
<1>. QED
  BY <1>1, <1>3, <1>4, <1>5, <1>6, <1>7, <1>9 DEF PackInv

LEMMA PackStep == IInv /\ PackInv /\ [Next]_vars => PackInv'
<1>. SUFFICES ASSUME IInv, PackInv, [Next]_vars PROVE PackInv'
  OBVIOUS
<1>1. CASE PackName
  BY <1>1, PackNamePack
<1>2. CASE scan.on /\ SwapRound
  <2>1. Len(streams') = Len(streams)
    BY <1>2, SwapRoundWork
  <2>. QED
    BY <1>2, <2>1 DEF SwapRound, packVars, PackInv, Reserved
<1>3. CASE UNCHANGED <<streams, packVars>>
  BY <1>3 DEF packVars, PackInv, Reserved
<1>. QED
  BY <1>1, <1>2, <1>3 DEF Next, ReturnShort, BeginPartition, LastRound, vars

(* The names fit in the room there is, however long they are; as long as the *)
(* room reserved at first was enough, every pointer leads into the block.    *)
THEOREM NamesFitHolds == Spec => []NamesFit
<1>1. IInv /\ PackInv => NamesFit
  <2>. SUFFICES ASSUME IInv, PackInv PROVE NamesFit
    OBVIOUS
  <2>1. ASSUME capacity = NameRoom * Len(streams), NEW i \in DOMAIN pointers
        PROVE  pointers[i].block = block
    <3>1. block = 0
      BY <2>1 DEF PackInv, Reserved
    <3>2. pointers[i] \in [block : 0 .. block, at : Nat]
      BY ElementOfSeq DEF PackInv
    <3>3. pointers[i].block \in 0 .. 0
      BY <3>1, <3>2
    <3>. QED
      BY <3>1, <3>3
  <2>. QED
    BY <2>1 DEF NamesFit, SingleAllocation, PackInv
<1>. QED
  BY InvInit, InvStep, PackInit, PackStep, <1>1, PTL DEF Spec
-----------------------------------------------------------------------------
(* The pivot is the count of a stream, and nothing is left of a partition    *)
(* that is over.                                                             *)
ScanInv ==
  /\ scan.pivot \in 0 .. MaxCount
  /\ ~scan.on => scan = NoScan

LEMMA ScanStep == IInv /\ ScanInv /\ [Next]_vars => ScanInv'
<1>. SUFFICES ASSUME IInv, ScanInv, [Next]_vars PROVE ScanInv'
  OBVIOUS
<1>1. CASE BeginPartition
  <2>1. /\ calls # << >> /\ Call.len >= 2
        /\ scan' = [on |-> TRUE, l |-> -1, h |-> Call.len, pivot |-> CountAt(Call.len \div 2)]
    BY <1>1 DEF BeginPartition
  <2>2. Call \in CallRecord /\ Call.from + Call.len <= Len(streams)
    BY <2>1, CallFacts
  <2>3. Call.len \div 2 \in 0 .. Call.len - 1
    BY <2>1, <2>2 DEF CallRecord
  <2>. DEFINE mid == Call.len \div 2
  <2>4. mid \in Nat /\ At(mid) \in 1 .. Len(streams)
    <3>1. mid \in 0 .. Call.len - 1
      BY <2>3
    <3>. HIDE DEF mid
    <3>. QED
      BY <2>2, <3>1 DEF At, CallRecord, IInv, Types
  <2>5. streams[At(mid)] \in Info
    BY <2>4, ElementOfSeq DEF IInv, Types
  <2>6. CountAt(mid) \in 0 .. MaxCount
    BY <2>5 DEF CountAt, Info
  <2>. QED
    BY <2>1, <2>6 DEF ScanInv
<1>2. CASE scan.on /\ SwapRound
  <2>1. scan' = [scan EXCEPT !.l = Min(StopsUp), !.h = Max(StopsDown)]
    BY <1>2 DEF SwapRound
  <2>2. scan \in [on : BOOLEAN, l : Int, h : Int, pivot : Int]
    BY DEF IInv, Types
  <2>3. scan'.on = scan.on /\ scan'.pivot = scan.pivot
    BY <2>1, <2>2
  <2>. QED
    BY <1>2, <2>3 DEF ScanInv
<1>3. CASE scan.on /\ LastRound
  BY <1>3, BoundAssumption DEF LastRound, ScanInv, NoScan
<1>4. CASE UNCHANGED scan
  BY <1>4 DEF ScanInv
<1>. QED
  BY <1>1, <1>2, <1>3, <1>4 DEF Next, ReturnShort, PackName, vars

(* Every variable has its type: no index leaves the array, no call the part  *)
(* of it that it was given, and no pointer the block.                        *)
THEOREM TypeCorrect == Spec => []TypeOK
<1>1. Init => ScanInv
  BY BoundAssumption DEF Init, ScanInv, NoScan
<1>2. IInv /\ PackInv /\ ScanInv => TypeOK
  <2>. SUFFICES ASSUME IInv, PackInv, ScanInv PROVE TypeOK
    OBVIOUS
  <2>1. ASSUME NEW k \in DOMAIN calls
        PROVE  /\ calls[k].from \in Nat /\ calls[k].len \in Nat
               /\ calls[k].from + calls[k].len <= Len(streams)
    <3>1. calls[k] \in CallRecord
      BY ElementOfSeq DEF IInv, Types
    <3>. QED
      BY <3>1 DEF CallRecord, IInv, Contiguous
  <2>2. /\ scan \in [on : BOOLEAN, l : Int, h : Int, pivot : Int]
        /\ scan.pivot \in 0 .. MaxCount
    BY DEF IInv, Types, ScanInv
  <2>3. scan.l \in -1 .. MaxLen /\ scan.h \in 0 .. MaxLen
    <3>1. CASE scan.on
      <4>1. /\ calls # << >>
            /\ -1 <= scan.l /\ scan.l < scan.h /\ scan.h <= Call.len
        BY <3>1 DEF IInv, Partitioning
      <4>2. Call.len \in Nat /\ Call.len <= Len(streams)
        BY <4>1, CallFacts DEF CallRecord
      <4>3. Len(streams) \in Nat /\ Len(streams) <= MaxLen
        BY DEF IInv, Types, PackInv
      <4>. QED
        BY <2>2, <4>1, <4>2, <4>3, BoundAssumption
    <3>2. CASE ~scan.on
      BY <3>2, BoundAssumption DEF ScanInv, NoScan
    <3>. QED
      BY <3>1, <3>2
  <2>4. scan \in [on : BOOLEAN, l : -1 .. MaxLen, h : 0 .. MaxLen, pivot : 0 .. MaxCount]
    BY <2>2, <2>3
  <2>5. streams \in Seq(Info) /\ {block, capacity, size} \subseteq Nat
    BY DEF IInv, Types, PackInv
  <2>. QED
    BY <2>1, <2>4, <2>5 DEF TypeOK, PackInv
<1>. QED
  BY InvInit, InvStep, PackInit, PackStep, ScanStep, <1>1, <1>2, PTL DEF Spec
=============================================================================
