------------------------------ MODULE StreamNames ------------------------------
(***************************************************************************)
(* stream_names (published_stream.c): the list of published streams is     *)
(* collected one bucket at a time, with the map unlocked between two       *)
(* buckets, while publishers and subscribers (PublishedStream) go on.      *)
(* Only one thread at a time runs it (update_lock, module WebApi).         *)
(*                                                                         *)
(* A bucket is read in one step: the num_subscribers_lock of each stream   *)
(* is taken and released under map_lock, and the entries of two streams    *)
(* are independent of each other.                                          *)
(***************************************************************************)
EXTENDS PublishedStream, Doubling, Sequences, SequencesExt

CONSTANTS
  NumBuckets,  \* MAP_SIZE
  Hash,        \* the bucket of each name
  Unlisted     \* the names that start with UNLISTED_STREAM_NAME_PREFIX

ASSUME BucketAssumption ==
  /\ NumBuckets \in Nat \ {0}
  /\ Hash \in [Name -> 1 .. NumBuckets]
  /\ Unlisted \subseteq Name

VARIABLES
  listing,    \* "no", "scan" or "done"
  bucket,     \* i, the next bucket to read
  capacity,   \* streams_len, the room in streams
  streams,    \* the stream_info collected so far
  throughout, \* ghost: the names published ever since the listing began
  sometime    \* ghost: those published at some moment since then

listVars == <<listing, bucket, capacity, streams>>
ghostVars == <<throughout, sometime>>

PublishedNames == {name[p] : p \in inMap}

InitNames ==
  /\ Init
  /\ listing = "no" /\ bucket = 1 /\ capacity = 0 /\ streams = << >>
  /\ throughout = {} /\ sometime = {}

(* num_publishers is the first guess of the room needed; without publishers *)
(* the list is empty at once.                                               *)
StartListing ==
  /\ listing = "no"
  /\ mapLock = None
  /\ listing' = IF numPublishers = 0 THEN "done" ELSE "scan"
  /\ capacity' = numPublishers
  /\ bucket' = 1
  /\ streams' = << >>
  /\ throughout' = PublishedNames /\ sometime' = PublishedNames

(* What one bucket adds to the array, which is doubled whenever it is full. *)
Collect(listed) ==
  LET order == SetToSeq(listed)
      Info(p) == [name |-> name[p], numSubscribers |-> numSubscribers[p]]
  IN  /\ streams' = streams \o [i \in DOMAIN order |-> Info(order[i])]
      /\ capacity' = Doubled(capacity, Len(streams'))

(* Mutant of Listed: the prefix of unlisted names is not looked at. *)
ListedWithUnlisted(b) == {p \in inMap : Hash[name[p]] = b}

(* The listed streams of a bucket. *)
Listed(b) == {p \in inMap : Hash[name[p]] = b /\ name[p] \notin Unlisted}

(* Mutants of ScanBucket: it stops before the last bucket; it reads the first *)
(* bucket every time.                                                         *)
ScanAllButLast ==
  /\ listing = "scan"
  /\ mapLock = None
  /\ Collect(Listed(bucket))
  /\ bucket' = bucket + 1
  /\ listing' = IF bucket >= NumBuckets - 1 THEN "done" ELSE "scan"
  /\ UNCHANGED ghostVars

ScanFirstBucket ==
  /\ listing = "scan"
  /\ mapLock = None
  /\ Collect(Listed(1))
  /\ bucket' = bucket + 1
  /\ listing' = IF bucket = NumBuckets THEN "done" ELSE "scan"
  /\ UNCHANGED ghostVars

ScanBucket ==
  /\ listing = "scan"
  /\ mapLock = None
  /\ Collect(Listed(bucket))
  /\ bucket' = bucket + 1
  /\ listing' = IF bucket = NumBuckets THEN "done" ELSE "scan"
  /\ UNCHANGED ghostVars

(* The list is sorted, packed and returned. *)
ReturnList ==
  /\ listing = "done"
  /\ listing' = "no"
  /\ bucket' = 1 /\ capacity' = 0 /\ streams' = << >>
  /\ throughout' = {} /\ sometime' = {}

Follow ==
  /\ throughout' = throughout \cap PublishedNames'
  /\ sometime' = IF listing = "no" THEN {} ELSE sometime \cup PublishedNames'

NextNames ==
  \/ Next /\ Follow /\ UNCHANGED listVars
  \/ (StartListing \/ ScanBucket \/ ReturnList) /\ UNCHANGED vars

SpecNames == InitNames /\ [][NextNames]_<<vars, listVars, ghostVars>>
-----------------------------------------------------------------------------
NamesTypeOK ==
  /\ listing \in {"no", "scan", "done"}
  /\ bucket \in 1 .. NumBuckets + 1
  /\ capacity \in Nat
  /\ streams \in Seq([name : Name, numSubscribers : 0 .. UintSize - 1])
  /\ {throughout, sometime} \subseteq SUBSET Name

ListedNames == {streams[i].name : i \in DOMAIN streams}

(* What WebApi relies on: a finished list has every listed stream that was   *)
(* published all the time, and no name that was not published at all.        *)
ListReflectsMap ==
  listing = "done" =>
    /\ throughout \ Unlisted \subseteq ListedNames
    /\ ListedNames \subseteq sometime \ Unlisted

(* A name is listed once, although its stream may end while the list is      *)
(* being made and another be published under the same name.                  *)
ListedOnce ==
  \A i, j \in DOMAIN streams : streams[i].name = streams[j].name => i = j

(* The entries fit in the array, however many publishers came after its size *)
(* was chosen: streams_index never passes streams_len.                       *)
RoomForStreams == Len(streams) <= capacity

(* stream_names keeps the promise of StreamListing, which WebApi relies on:   *)
(* whatever the publishers do between two buckets, streams come and go one at *)
(* a time, and a finished list has what StreamListing allows and then stays.  *)
Listing ==
  INSTANCE StreamListing
    WITH Stream <- Name \ Unlisted,
         registry <- PublishedNames \ Unlisted,
         making <- listing = "scan",
         throughout <- IF listing = "scan" THEN throughout \ Unlisted ELSE {},
         sometime <- IF listing = "scan" THEN sometime \ Unlisted ELSE {},
         ready <- IF listing = "done" THEN {ListedNames} ELSE {}
ImplementsListing == Listing!Spec
=============================================================================
