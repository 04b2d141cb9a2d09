--------------------------- MODULE StreamNamesProofs ---------------------------
(***************************************************************************)
(* Proofs about StreamNames: the list of streams is complete, sound and    *)
(* without duplicates, for any threads, names, buckets and hash function.  *)
(* They rest on the invariant of PublishedStream: names in the map are     *)
(* unique, and num_publishers counts them.                                 *)
(***************************************************************************)
EXTENDS StreamNames, PublishedStreamProofs, DoublingProofs

StreamInfo == [name : Name, numSubscribers : 0 .. UintSize - 1]

ListTypes ==
  /\ listing \in {"no", "scan", "done"}
  /\ bucket \in 1 .. NumBuckets + 1
  /\ listing = "scan" => bucket <= NumBuckets
  /\ streams \in Seq(StreamInfo)
  /\ listing = "no" => streams = << >>
  /\ throughout \subseteq Name /\ sometime \subseteq Name

(* There is an array, and the entries fit in it. *)
RoomGood ==
  /\ capacity \in Nat
  /\ listing = "scan" => capacity # 0
  /\ RoomForStreams

(* The names that were there all the time are there now, and those that are *)
(* there now were there at some time.                                       *)
GhostsGood ==
  /\ throughout \subseteq PublishedNames
  /\ listing # "no" => PublishedNames \subseteq sometime

(* An entry comes from a bucket that was read, ... *)
EntriesGood ==
  \A i \in DOMAIN streams :
    /\ streams[i].name \in sometime \ Unlisted
    /\ listing = "scan" => Hash[streams[i].name] < bucket

(* ... and every name that stays in such a bucket has one. *)
Collected ==
  \A n \in throughout \ Unlisted :
    (listing = "scan" /\ Hash[n] < bucket) \/ listing = "done" => n \in ListedNames

ListInv ==
  /\ ListTypes
  /\ GhostsGood
  /\ EntriesGood
  /\ Collected
  /\ ListedOnce
  /\ RoomGood
-----------------------------------------------------------------------------
(* The order in which the entries of a bucket are read names each once. *)
LEMMA SetToSeqFacts ==
  ASSUME NEW S, IsFiniteSet(S)
  PROVE  LET order == SetToSeq(S)
         IN  /\ order \in [1 .. Cardinality(S) -> S] /\ Cardinality(S) \in Nat
             /\ \A i, j \in DOMAIN order : order[i] = order[j] => i = j
             /\ \A x \in S : \E i \in DOMAIN order : order[i] = x
<1>. DEFINE D == 1 .. Cardinality(S)
            order == SetToSeq(S)
<1>1. Cardinality(S) \in Nat /\ \E f : f \in Bijection(D, S)
  BY FS_CardinalityType DEF ExistsBijection
<1>2. \E f \in [D -> S] : IsInjective(f)
  BY <1>1 DEF Bijection, Injection
<1>3. order \in [D -> S] /\ IsInjective(order)
  BY <1>2 DEF SetToSeq
<1>4. order \in Injection(D, S)
  BY <1>3 DEF Injection
<1>5. Cardinality(D) = Cardinality(S)
  BY <1>1, FS_Interval
<1>6. order \in Surjection(D, S)
  BY <1>4, <1>5, FS_Injection
<1>. QED
  BY <1>1, <1>3, <1>6 DEF IsInjective, Surjection

LEMMA ConcatFacts ==
  ASSUME NEW A, NEW s \in Seq(A), NEW t \in Seq(A)
  PROVE  /\ s \o t \in Seq(A) /\ DOMAIN (s \o t) = 1 .. Len(s) + Len(t)
         /\ \A i \in DOMAIN (s \o t) :
              \/ i \in DOMAIN s /\ (s \o t)[i] = s[i]
              \/ i \notin DOMAIN s /\ i - Len(s) \in DOMAIN t /\ (s \o t)[i] = t[i - Len(s)]
         /\ \A i \in DOMAIN s : i \in DOMAIN (s \o t) /\ (s \o t)[i] = s[i]
         /\ \A i \in DOMAIN t : i + Len(s) \in DOMAIN (s \o t) /\ (s \o t)[i + Len(s)] = t[i]
OBVIOUS

(* What is in the map has a name. *)
LEMMA MapFacts ==
  ASSUME IInv
  PROVE  /\ inMap \subseteq Publisher /\ IsFiniteSet(inMap)
         /\ \A p \in inMap : name[p] \in Name /\ numSubscribers[p] \in 0 .. UintSize - 1
         /\ \A p, q \in inMap : name[p] = name[q] => p = q
         /\ PublishedNames \subseteq Name
<1>1. inMap \subseteq Publisher
  BY DEF IInv, TypeOK
<1>2. IsFiniteSet(inMap)
  BY <1>1, ThreadAssumption, FS_Subset
<1>3. \A p \in inMap : name[p] \in Name
  BY <1>1 DEF IInv, MapContents, Published
<1>4. \A p \in inMap : numSubscribers[p] \in 0 .. UintSize - 1
  BY <1>1 DEF IInv, TypeOK
<1>5. \A p, q \in inMap : name[p] = name[q] => p = q
  BY DEF IInv, MapContents, NamesUnique
<1>. QED
  BY <1>1, <1>2, <1>3, <1>4, <1>5 DEF PublishedNames
-----------------------------------------------------------------------------
LEMMA ListInit == InitNames => IInv /\ ListInv
<1>. SUFFICES ASSUME InitNames PROVE IInv /\ ListInv
  OBVIOUS
<1>1. IInv
  BY InvInit DEF InitNames
<1>2. ListInv
  BY BucketAssumption
  DEF InitNames, ListInv, ListTypes, GhostsGood, EntriesGood, Collected, ListedOnce, RoomGood,
      RoomForStreams
<1>. QED
  BY <1>1, <1>2

(* Publishers and clients go on: names come and go, the list stays. *)
LEMMA FollowInv ==
  ASSUME IInv', ListInv, Follow, UNCHANGED listVars
  PROVE  ListInv'
<1>1. UNCHANGED <<listing, bucket, capacity, streams>> /\ ListTypes /\ RoomGood
  BY DEF listVars, ListInv
<1>2. ListTypes' /\ RoomGood'
  <2>1. throughout' \subseteq Name /\ sometime' \subseteq Name
    <3>1. PublishedNames' \subseteq Name
      <4>1. inMap' \subseteq Publisher
        BY DEF IInv, TypeOK
      <4>2. \A p \in Publisher : p \in inMap' => name'[p] \in Name
        BY DEF IInv, MapContents, Published
      <4>. QED
        BY <4>1, <4>2 DEF PublishedNames
    <3>. QED
      BY <1>1, <3>1 DEF ListTypes, Follow
  <2>. QED
    BY <1>1, <2>1 DEF ListTypes, RoomGood, RoomForStreams
<1>3. GhostsGood'
  BY <1>1 DEF Follow, ListInv, GhostsGood
<1>4. listing # "no" => sometime \subseteq sometime'
  BY DEF Follow
<1>5. EntriesGood'
  <2>1. CASE listing = "no"
    BY <1>1, <2>1 DEF ListTypes, EntriesGood
  <2>2. CASE listing # "no"
    BY <1>1, <1>4, <2>2 DEF ListInv, EntriesGood
  <2>. QED
    BY <2>1, <2>2
<1>6. Collected' /\ ListedOnce'
  BY <1>1 DEF Follow, ListInv, Collected, ListedOnce, ListedNames
<1>. QED
  BY <1>2, <1>3, <1>5, <1>6 DEF ListInv

(* A listing begins; without publishers it is over at once. *)
LEMMA StartListingInv ==
  ASSUME IInv, ListInv, StartListing, UNCHANGED vars
  PROVE  ListInv'
<1>1. /\ bucket' = 1 /\ streams' = << >>
      /\ throughout' = PublishedNames /\ sometime' = PublishedNames
      /\ listing' = IF numPublishers = 0 THEN "done" ELSE "scan"
      /\ PublishedNames' = PublishedNames
      /\ capacity' = numPublishers
  BY DEF StartListing, vars, registryVars, PublishedNames
<1>2. numPublishers = 0 => PublishedNames = {}
  <2>1. numPublishers = 0 => Cardinality(inMap) = 0
    BY DEF IInv, PublishersCounted
  <2>. QED
    BY <2>1, MapFacts, FS_EmptySet DEF PublishedNames
<1>3. ListTypes' /\ RoomGood'
  <2>1. numPublishers \in Nat
    BY LimitAssumption DEF IInv, TypeOK
  <2>. QED
    BY <1>1, <2>1, MapFacts, BucketAssumption DEF ListTypes, RoomGood, RoomForStreams
<1>4. GhostsGood' /\ EntriesGood' /\ ListedOnce'
  BY <1>1 DEF GhostsGood, EntriesGood, ListedOnce
<1>5. Collected'
  <2>1. \A n \in Name : ~ (Hash[n] < 1)
    BY BucketAssumption
  <2>. QED
    BY <1>1, <1>2, <2>1, MapFacts DEF Collected
<1>. QED
  BY <1>3, <1>4, <1>5 DEF ListInv

(* A bucket is read. *)
LEMMA ScanBucketInv ==
  ASSUME IInv, ListInv, ScanBucket, UNCHANGED vars
  PROVE  ListInv'
<1>. DEFINE S == Listed(bucket)
            order == SetToSeq(S)
            new == [i \in DOMAIN order |->
                      [name |-> name[order[i]], numSubscribers |-> numSubscribers[order[i]]]]
<1>1. /\ listing = "scan" /\ bucket' = bucket + 1
      /\ listing' = IF bucket = NumBuckets THEN "done" ELSE "scan"
      /\ streams' = streams \o new
      /\ UNCHANGED <<throughout, sometime>> /\ PublishedNames' = PublishedNames
  BY DEF ScanBucket, Collect, ghostVars, vars, registryVars, PublishedNames
<1>2. /\ bucket \in Nat \ {0} /\ bucket <= NumBuckets /\ streams \in Seq(StreamInfo)
      /\ NumBuckets \in Nat
  BY <1>1, BucketAssumption DEF ListInv, ListTypes
<1>3. S \subseteq inMap /\ IsFiniteSet(S)
  BY MapFacts, FS_Subset DEF Listed
<1>4. /\ order \in [1 .. Cardinality(S) -> S] /\ Cardinality(S) \in Nat
      /\ \A i, j \in DOMAIN order : order[i] = order[j] => i = j
      /\ \A x \in S : \E i \in DOMAIN order : order[i] = x
  BY <1>3, SetToSeqFacts
<1>. HIDE DEF order
<1>5. \A i \in DOMAIN order : order[i] \in S /\ order[i] \in inMap
  BY <1>3, <1>4
<1>6. /\ new \in Seq(StreamInfo) /\ DOMAIN new = DOMAIN order
      /\ \A i \in DOMAIN new : new[i].name = name[order[i]]
  <2>1. \A i \in DOMAIN order : new[i] \in StreamInfo
    BY <1>5, MapFacts DEF StreamInfo
  <2>2. DOMAIN order = 1 .. Cardinality(S) /\ DOMAIN new = DOMAIN order
    BY <1>4
  <2>. QED
    BY <1>4, <2>1, <2>2
<1>7. \A i \in DOMAIN new :
        /\ new[i].name \in PublishedNames /\ new[i].name \notin Unlisted
        /\ Hash[new[i].name] = bucket
  BY <1>5, <1>6 DEF Listed, PublishedNames
<1>8. \A i, j \in DOMAIN new : new[i].name = new[j].name => i = j
  BY <1>4, <1>5, <1>6, MapFacts
<1>9. \A n \in PublishedNames \ Unlisted :
        Hash[n] = bucket => \E i \in DOMAIN new : new[i].name = n
  <2>. SUFFICES ASSUME NEW p \in inMap, name[p] \notin Unlisted, Hash[name[p]] = bucket
                PROVE  \E i \in DOMAIN new : new[i].name = name[p]
    BY DEF PublishedNames
  <2>1. p \in S
    BY DEF Listed
  <2>. QED
    BY <1>4, <1>6, <2>1
<1>. HIDE DEF S, new
<1>10. /\ streams' \in Seq(StreamInfo)
       /\ \A i \in DOMAIN streams' :
            \/ i \in DOMAIN streams /\ streams'[i] = streams[i]
            \/ i \notin DOMAIN streams /\ i - Len(streams) \in DOMAIN new
                 /\ streams'[i] = new[i - Len(streams)]
       /\ \A i \in DOMAIN streams : i \in DOMAIN streams' /\ streams'[i] = streams[i]
       /\ \A i \in DOMAIN new : i + Len(streams) \in DOMAIN streams'
                                  /\ streams'[i + Len(streams)] = new[i]
  BY <1>1, <1>2, <1>6, ConcatFacts
<1>11. ListTypes' /\ RoomGood'
  <2>1. ListTypes'
    BY <1>1, <1>2, <1>10 DEF ListInv, ListTypes
  <2>2. capacity \in Nat \ {0} /\ capacity' = Doubled(capacity, Len(streams'))
    BY <1>1 DEF ListInv, RoomGood, ScanBucket, Collect
  <2>3. Len(streams') \in Nat
    BY <1>10
  <2>4. capacity' \in Nat /\ capacity' >= Len(streams') /\ capacity' >= capacity
    BY <2>2, <2>3, DoubledFacts
  <2>. QED
    BY <2>1, <2>2, <2>3, <2>4 DEF RoomGood, RoomForStreams
<1>12. GhostsGood'
  BY <1>1 DEF ListInv, GhostsGood
<1>13. \A i \in DOMAIN streams :
         streams[i].name \in sometime \ Unlisted /\ Hash[streams[i].name] < bucket
  BY <1>1 DEF ListInv, EntriesGood
<1>14. ASSUME NEW i \in DOMAIN streams
       PROVE  Hash[streams[i].name] \in Int
  <2>1. streams[i] \in StreamInfo
    BY <1>2
  <2>. QED
    BY <2>1, BucketAssumption DEF StreamInfo
<1>15. EntriesGood'
  <2>. SUFFICES ASSUME NEW i \in DOMAIN streams'
                PROVE  /\ streams'[i].name \in sometime \ Unlisted
                       /\ Hash[streams'[i].name] < bucket + 1
    BY <1>1 DEF EntriesGood
  <2>1. CASE i \in DOMAIN streams /\ streams'[i] = streams[i]
    BY <1>2, <1>13, <1>14, <2>1
  <2>2. CASE i - Len(streams) \in DOMAIN new /\ streams'[i] = new[i - Len(streams)]
    BY <1>1, <1>2, <1>7, <2>2 DEF ListInv, GhostsGood
  <2>. QED
    BY <1>10, <2>1, <2>2
<1>16. ListedOnce'
  <2>. SUFFICES ASSUME NEW i \in DOMAIN streams', NEW j \in DOMAIN streams',
                       streams'[i].name = streams'[j].name
                PROVE  i = j
    BY DEF ListedOnce
  <2>1. CASE i \in DOMAIN streams /\ j \in DOMAIN streams
    BY <1>10, <2>1 DEF ListInv, ListedOnce
  <2>2. CASE i \notin DOMAIN streams /\ j \notin DOMAIN streams
    <3>1. i - Len(streams) = j - Len(streams)
      BY <1>8, <1>10, <2>2
    <3>2. i \in Int /\ j \in Int /\ Len(streams) \in Int
      BY <1>2, <1>10
    <3>. QED
      BY <3>1, <3>2
  <2>3. CASE i \in DOMAIN streams /\ j \notin DOMAIN streams
    <3>1. Hash[streams'[i].name] < bucket /\ Hash[streams'[j].name] = bucket
      BY <1>7, <1>10, <1>13, <2>3
    <3>. QED
      BY <1>2, <3>1
  <2>4. CASE i \notin DOMAIN streams /\ j \in DOMAIN streams
    <3>1. Hash[streams'[j].name] < bucket /\ Hash[streams'[i].name] = bucket
      BY <1>7, <1>10, <1>13, <2>4
    <3>. QED
      BY <1>2, <3>1
  <2>. QED
    BY <2>1, <2>2, <2>3, <2>4
<1>17. Collected'
  <2>. SUFFICES ASSUME NEW n \in throughout \ Unlisted, Hash[n] < bucket + 1
                PROVE  n \in ListedNames'
    <3>1. \A n \in throughout : Hash[n] <= NumBuckets /\ Hash[n] \in Nat
      BY MapFacts, BucketAssumption DEF ListInv, GhostsGood
    <3>2. bucket = NumBuckets => \A n \in throughout : Hash[n] < bucket + 1
      BY <1>2, <3>1
    <3>. QED
      BY <1>1, <3>2 DEF Collected
  <2>1. n \in PublishedNames /\ Hash[n] \in Nat
    BY MapFacts, BucketAssumption DEF ListInv, GhostsGood
  <2>2. CASE Hash[n] < bucket
    <3>1. n \in ListedNames
      BY <1>1, <2>2 DEF ListInv, Collected
    <3>2. PICK i \in DOMAIN streams : streams[i].name = n
      BY <3>1 DEF ListedNames
    <3>. QED
      BY <1>10, <3>2 DEF ListedNames
  <2>3. CASE Hash[n] = bucket
    <3>1. PICK i \in DOMAIN new : new[i].name = n
      BY <1>9, <2>1, <2>3
    <3>. QED
      BY <1>10, <3>1 DEF ListedNames
  <2>. QED
    BY <1>2, <2>1, <2>2, <2>3
<1>. QED
  BY <1>11, <1>12, <1>15, <1>16, <1>17 DEF ListInv

(* The list is returned. *)
LEMMA ReturnListInv ==
  ASSUME ReturnList
  PROVE  ListInv'
BY BucketAssumption
DEF ReturnList, ListInv, ListTypes, GhostsGood, EntriesGood, Collected, ListedOnce, RoomGood,
    RoomForStreams

LEMMA ListStep ==
  IInv /\ ListInv /\ [NextNames]_<<vars, listVars, ghostVars>> => IInv' /\ ListInv'
<1>. SUFFICES ASSUME IInv, ListInv, [NextNames]_<<vars, listVars, ghostVars>>
              PROVE  IInv' /\ ListInv'
  OBVIOUS
<1>1. [Next]_vars
  BY DEF NextNames
<1>2. IInv'
  BY <1>1, InvStep
<1>3. ListInv'
  <2>1. CASE Follow /\ UNCHANGED listVars
    BY <1>2, <2>1, FollowInv
  <2>2. CASE StartListing /\ UNCHANGED vars
    BY <2>2, StartListingInv
  <2>3. CASE ScanBucket /\ UNCHANGED vars
    BY <2>3, ScanBucketInv
  <2>4. CASE ReturnList
    BY <2>4, ReturnListInv
  <2>5. CASE UNCHANGED <<vars, listVars, ghostVars>>
    BY <2>5 DEF vars, registryVars, listVars, ghostVars, ListInv, ListTypes,
      GhostsGood, EntriesGood, Collected, ListedOnce, ListedNames, PublishedNames, RoomGood,
      RoomForStreams
  <2>. QED
    BY <2>1, <2>2, <2>3, <2>4, <2>5 DEF NextNames
<1>. QED
  BY <1>2, <1>3
-----------------------------------------------------------------------------
THEOREM ListInvariance == SpecNames => [](IInv /\ ListInv)
BY ListInit, ListStep, PTL DEF SpecNames

(* A finished list has every listed stream that was published all the time, *)
(* and no name that was not published: what WebApi assumes of it.           *)
THEOREM ListReflectsMapHolds == SpecNames => []ListReflectsMap
<1>1. ListInv => ListReflectsMap
  BY DEF ListInv, ListReflectsMap, Collected, EntriesGood, ListedNames
<1>. QED
  BY <1>1, ListInvariance, PTL

(* No name is listed twice, although its stream may end and another begin. *)
THEOREM ListedOnceHolds == SpecNames => []ListedOnce
<1>1. ListInv => ListedOnce
  BY DEF ListInv
<1>. QED
  BY <1>1, ListInvariance, PTL

(* The entries fit in the array, however many publishers came since its size *)
(* was chosen: it is doubled before it is overfull.                          *)
THEOREM RoomForStreamsHolds == SpecNames => []RoomForStreams
<1>1. ListInv => RoomForStreams
  BY DEF ListInv, RoomGood
<1>. QED
  BY <1>1, ListInvariance, PTL

(* Every variable of the listing has its type. *)
THEOREM NamesTypeCorrect == SpecNames => []NamesTypeOK
<1>1. ListInv => NamesTypeOK
  BY DEF ListInv, ListTypes, RoomGood, NamesTypeOK, StreamInfo
<1>. QED
  BY <1>1, ListInvariance, PTL
-----------------------------------------------------------------------------
(* The names in the map change one at a time. *)
LEMMA NamesChange ==
  ASSUME IInv, [Next]_vars
  PROVE  \/ PublishedNames' = PublishedNames
         \/ \E n \in Name :
              PublishedNames' = IF n \in PublishedNames THEN PublishedNames \ {n}
                                                        ELSE PublishedNames \cup {n}
<1>1. CASE inMap' = inMap /\ \A p \in inMap : name'[p] = name[p]
  BY <1>1 DEF PublishedNames
<1>2. ASSUME NEW p \in Publisher, CreateStreamData(p)
      PROVE  /\ name[p] \in Name /\ name[p] \notin PublishedNames
             /\ PublishedNames' = PublishedNames \cup {name[p]}
  <2>1. name[p] \in Name /\ inMap' = inMap \cup {p} /\ name' = name
    BY <1>2, PublishMapped DEF CreateStreamData
  <2>2. name[p] \notin PublishedNames
    BY <1>2 DEF CreateStreamData, NodesWithName, PublishedNames
  <2>. QED
    BY <2>1, <2>2 DEF PublishedNames
<1>3. ASSUME NEW p \in Publisher, RemoveName(p)
      PROVE  /\ name[p] \in Name /\ name[p] \in PublishedNames
             /\ PublishedNames' = PublishedNames \ {name[p]}
  <2>1. p \in inMap /\ inMap' = inMap \ {p} /\ name' = name
    <3>1. p \in inMap
      BY <1>3 DEF RemoveName, IInv, MapContents, Published
    <3>2. NodesWithName(name[p]) = {p}
      BY <3>1, MapFacts DEF NodesWithName
    <3>. QED
      BY <1>3, <3>1, <3>2 DEF RemoveName
  <2>. QED
    BY <2>1, MapFacts DEF PublishedNames
<1>4. ASSUME NEW p \in Publisher, NEW s \in Subscriber, SendFails(p, s)
      PROVE  inMap' = inMap /\ name' = name
  BY <1>4 DEF SendFails, registryVars
<1>5. ASSUME NEW p \in Publisher, CloseSubscribers(p)
      PROVE  inMap' = inMap /\ \A q \in inMap : name'[q] = name[q]
  <2>1. inMap' = inMap /\ p \notin inMap
    BY <1>5 DEF CloseSubscribers, registryVars, IInv, MapContents, Published
  <2>2. name' = name \/ name' = [name EXCEPT ![p] = None]
    BY <1>5 DEF CloseSubscribers
  <2>. QED
    BY <2>1, <2>2, MapFacts DEF IInv, TypeOK, Thread
<1>6. ASSUME NEW s \in Subscriber, InsertNode(s)
      PROVE  inMap' = inMap /\ name' = name
  BY <1>6 DEF InsertNode, registryVars
<1>7. DirectoryUntouched \/ DirectoryStep
  BY StepsVisible DEF IInv
<1>. QED
  BY <1>1, <1>2, <1>3, <1>4, <1>5, <1>6, <1>7 DEF DirectoryUntouched, DirectoryStep

(* A stream that is published or ends is one for StreamListing too, unless it *)
(* is unlisted.                                                               *)
LEMMA FollowMapped ==
  ASSUME IInv, ListInv, [Next]_vars, Follow, UNCHANGED listVars
  PROVE  [Listing!Next]_(Listing!listingVars)
<1>1. UNCHANGED <<listing, ListedNames>>
  BY DEF listVars, ListedNames
<1>2. /\ throughout \subseteq PublishedNames
      /\ listing # "no" => PublishedNames \subseteq sometime
      /\ throughout' = throughout \cap PublishedNames'
      /\ listing # "no" => sometime' = sometime \cup PublishedNames'
  BY DEF ListInv, GhostsGood, Follow
<1>3. CASE PublishedNames' \ Unlisted = PublishedNames \ Unlisted
  <2>1. listing = "scan" => /\ throughout' \ Unlisted = throughout \ Unlisted
                            /\ sometime' \ Unlisted = sometime \ Unlisted
    BY <1>2, <1>3
  <2>. QED
    BY <1>1, <1>3, <2>1 DEF Listing!listingVars
<1>4. ASSUME NEW n \in Name \ Unlisted,
             PublishedNames' = IF n \in PublishedNames THEN PublishedNames \ {n}
                                                       ELSE PublishedNames \cup {n}
      PROVE  Listing!PublishOrEnd(n)
  <2>1. listing = "scan" =>
          /\ throughout' \ Unlisted = (throughout \ Unlisted) \cap (PublishedNames' \ Unlisted)
          /\ sometime' \ Unlisted = (sometime \ Unlisted) \cup (PublishedNames' \ Unlisted)
    BY <1>2
  <2>2. PublishedNames' \ Unlisted =
          IF n \in PublishedNames \ Unlisted THEN (PublishedNames \ Unlisted) \ {n}
                                             ELSE (PublishedNames \ Unlisted) \cup {n}
    BY <1>4
  <2>. QED
    BY <1>1, <2>1, <2>2 DEF Listing!PublishOrEnd
<1>5. ASSUME NEW n \in Name, n \in Unlisted,
             PublishedNames' = IF n \in PublishedNames THEN PublishedNames \ {n}
                                                       ELSE PublishedNames \cup {n}
      PROVE  PublishedNames' \ Unlisted = PublishedNames \ Unlisted
  BY <1>5
<1>. QED
  BY NamesChange, <1>3, <1>4, <1>5 DEF Listing!Next, Listing!MakeList

(* A listing begins, or is over at once with the empty list, ... *)
LEMMA StartListingMapped ==
  ASSUME IInv, ListInv, StartListing, UNCHANGED vars
  PROVE  Listing!Begin \/ Listing!ListAtOnce
<1>1. /\ listing = "no" /\ throughout' = PublishedNames /\ sometime' = PublishedNames
      /\ streams' = << >> /\ PublishedNames' = PublishedNames
      /\ listing' = IF numPublishers = 0 THEN "done" ELSE "scan"
  BY DEF StartListing, vars, registryVars, PublishedNames
<1>2. CASE numPublishers = 0
  <2>1. Cardinality(inMap) = 0
    BY <1>2 DEF IInv, PublishersCounted
  <2>2. PublishedNames = {}
    BY <2>1, MapFacts, FS_EmptySet DEF PublishedNames
  <2>3. ListedNames' = {}
    BY <1>1 DEF ListedNames
  <2>. QED
    BY <1>1, <1>2, <2>2, <2>3 DEF Listing!ListAtOnce
<1>3. CASE numPublishers # 0
  BY <1>1, <1>3 DEF Listing!Begin
<1>. QED
  BY <1>2, <1>3

(* ... a bucket is read, which is seen only if it was the last one, ... *)
LEMMA ScanBucketMapped ==
  ASSUME IInv, ListInv, ScanBucket, UNCHANGED vars
  PROVE  [Listing!Next]_(Listing!listingVars)
<1>1. /\ listing = "scan" /\ listing' \in {"scan", "done"}
      /\ UNCHANGED <<throughout, sometime>> /\ PublishedNames' = PublishedNames
  BY DEF ScanBucket, ghostVars, vars, registryVars, PublishedNames
<1>2. CASE listing' = "scan"
  BY <1>1, <1>2 DEF Listing!listingVars
<1>3. CASE listing' = "done"
  <2>1. /\ throughout \ Unlisted \subseteq ListedNames'
        /\ ListedNames' \subseteq sometime \ Unlisted
    BY <1>1, <1>3, ScanBucketInv
    DEF ListInv, Collected, EntriesGood, ListedNames
  <2>2. Listing!Finish(ListedNames')
    BY <1>1, <1>3, <2>1 DEF Listing!Finish
  <2>3. \E listed \in SUBSET (sometime \ Unlisted) : Listing!Finish(listed)
    BY <2>1, <2>2
  <2>. QED
    BY <1>1, <2>3 DEF Listing!Next, Listing!MakeList
<1>. QED
  BY <1>1, <1>2, <1>3

(* ... and the list is returned. *)
LEMMA ReturnListMapped ==
  ASSUME ReturnList, UNCHANGED vars
  PROVE  Listing!HandOver
<1>1. listing = "done" /\ listing' = "no" /\ PublishedNames' = PublishedNames
  BY DEF ReturnList, vars, registryVars, PublishedNames
<1>. QED
  BY <1>1 DEF Listing!HandOver

LEMMA ListingStepMapped ==
  ASSUME IInv, ListInv, [NextNames]_<<vars, listVars, ghostVars>>
  PROVE  [Listing!Next]_(Listing!listingVars)
<1>1. CASE Next /\ Follow /\ UNCHANGED listVars
  BY <1>1, FollowMapped
<1>2. CASE StartListing /\ UNCHANGED vars
  BY <1>2, StartListingMapped DEF Listing!Next, Listing!MakeList
<1>3. CASE ScanBucket /\ UNCHANGED vars
  BY <1>3, ScanBucketMapped
<1>4. CASE ReturnList /\ UNCHANGED vars
  BY <1>4, ReturnListMapped DEF Listing!Next
<1>5. CASE UNCHANGED <<vars, listVars, ghostVars>>
  BY <1>5 DEF vars, registryVars, listVars, ghostVars, Listing!listingVars, ListedNames,
     PublishedNames
<1>. QED
  BY <1>1, <1>2, <1>3, <1>4, <1>5 DEF NextNames

(* stream_names implements StreamListing, for any buckets and hash function: *)
(* the steps that WebApi represents it by are the only ones it can take.     *)
THEOREM ListingRefinement == SpecNames => ImplementsListing
<1>1. InitNames => Listing!Init
  BY DEF InitNames, Init, Listing!Init, PublishedNames
<1>2. IInv /\ ListInv /\ [NextNames]_<<vars, listVars, ghostVars>>
        => [Listing!Next]_(Listing!listingVars)
  BY ListingStepMapped
<1>. QED
  BY ListInvariance, <1>1, <1>2, PTL DEF SpecNames, ImplementsListing, Listing!Spec
=============================================================================
