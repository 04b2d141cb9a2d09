------------------------ MODULE PublishedStreamProofs ------------------------
(***************************************************************************)
(* Proofs that PublishedStream keeps its safety properties for any number  *)
(* of publishers, subscribers, requests and names, any limits, and any     *)
(* width of unsigned int that the connections cannot overflow.  One lemma  *)
(* per part of the inductive invariant; in each, one step per action.      *)
(***************************************************************************)
EXTENDS PublishedStreamInvariant, FiniteSetTheorems, TLAPS

(* An unsigned int has more than one value. *)
LEMMA UintPositive == UintSize > 1
BY LimitAssumption, ThreadAssumption, FS_CardinalityType

(* The lists of a stream are finite, and far from wrapping the counter. *)
LEMMA NodesFinite ==
  ASSUME TypeOK, NEW p \in Publisher
  PROVE  /\ IsFiniteSet(nodes[p])
         /\ Cardinality(nodes[p]) \in Nat
         /\ Cardinality(nodes[p]) + 1 < UintSize
<1>1. nodes[p] \subseteq Subscriber
  BY DEF TypeOK
<1>2. Cardinality(Subscriber) \in Nat
  BY ThreadAssumption, FS_CardinalityType
<1>. QED
  BY <1>1, <1>2, FS_Subset, FS_CardinalityType, ThreadAssumption, LimitAssumption

(* A step that touches neither the counter of q nor what it is compared with *)
(* leaves the counter as exact as it was.                                    *)
LEMMA CounterFrame ==
  ASSUME NEW q \in Publisher, CounterExact(q),
         numSubscribers'[q] = numSubscribers[q], nodes'[q] = nodes[q],
         pc'[q] = "decrement" <=> pc[q] = "decrement",
         \A s \in Subscriber : pc'[s] = "increment" /\ data'[s] = q <=>
                               pc[s] = "increment" /\ data[s] = q
  PROVE  CounterExact(q)'
BY DEF CounterExact, CounterValue, Departing, Joining

(* While one client holds a stream, it is the only one that can be joining it. *)
LEMMA OneJoins ==
  ASSUME AccessLockOwned, NEW p \in Publisher, NEW s \in Subscriber,
         pc[s] \in Holding, data[s] = p
  PROVE  Joining(p) <=> pc[s] = "increment"
BY DEF AccessLockOwned, Joining, Holding, Thread, Client

(* Taking nodes out does not make a list longer ... *)
LEMMA FewerNodes ==
  ASSUME TypeOK, NEW p \in Publisher, NEW S, S \subseteq nodes[p]
  PROVE  /\ Cardinality(S) \in Nat /\ Cardinality(nodes[p]) \in Nat
         /\ Cardinality(S) <= Cardinality(nodes[p])
BY NodesFinite, FS_Subset, FS_CardinalityType

(* ... and putting one in makes it longer by one at most. *)
LEMMA OneMoreNode ==
  ASSUME TypeOK, NEW p \in Publisher, NEW s
  PROVE  /\ Cardinality(nodes[p] \cup {s}) \in Nat /\ Cardinality(nodes[p]) \in Nat
         /\ Cardinality(nodes[p] \cup {s}) <= Cardinality(nodes[p]) + 1
         /\ s \notin nodes[p] =>
              Cardinality(nodes[p] \cup {s}) = Cardinality(nodes[p]) + 1
<1>1. IsFiniteSet(nodes[p]) /\ Cardinality(nodes[p]) \in Nat
  BY NodesFinite
<1>2. Cardinality(nodes[p] \cup {s}) =
        IF s \in nodes[p] THEN Cardinality(nodes[p]) ELSE Cardinality(nodes[p]) + 1
  BY <1>1, FS_AddElement
<1>. QED BY <1>1, <1>2

(* A step that does not touch what the counter of q is compared with. *)
CountUntouched(q) ==
  /\ q \in inMap
  /\ numSubscribers'[q] = numSubscribers[q]
  /\ nodes'[q] = nodes[q]
  /\ pc'[q] = "decrement" <=> pc[q] = "decrement"
  /\ \A s \in Subscriber : pc'[s] = "increment" /\ data'[s] = q <=>
                           pc[s] = "increment" /\ data[s] = q

(* The four steps of an insertion and of a removal, as they look to the count. *)
LEMMA NodeUnlinked ==
  ASSUME NEW p \in Publisher, NEW s, CounterExact(p),
         IsFiniteSet(nodes[p]), Cardinality(nodes[p]) \in Nat,
         s \in nodes[p], nodes'[p] = nodes[p] \ {s},
         pc[p] = "send", pc'[p] = "decrement", Joining(p)' <=> Joining(p),
         numSubscribers'[p] = numSubscribers[p]
  PROVE  CounterExact(p)'
<1>1. Cardinality(nodes[p] \ {s}) = Cardinality(nodes[p]) - 1
  BY FS_RemoveElement
<1>2. CounterValue(p)' = CounterValue(p)
  BY <1>1 DEF CounterValue, Departing
<1>. QED BY <1>2 DEF CounterExact

(* ... counting it out takes the counter down, possibly below zero, ... *)
LEMMA NodeCountedOut ==
  ASSUME NEW p \in Publisher, CounterExact(p),
         Cardinality(nodes[p]) \in Nat, nodes'[p] = nodes[p],
         pc[p] = "decrement", pc'[p] = "send", Joining(p)' <=> Joining(p),
         numSubscribers'[p] = UintDec(numSubscribers[p])
  PROVE  CounterExact(p)'
<1>1. CounterValue(p)' = CounterValue(p) - 1 /\ CounterValue(p) \in Nat
  BY DEF CounterValue, Departing
<1>. QED BY <1>1 DEF CounterExact, UintDec

(* ... linking a node moves it from the list to Joining, ... *)
LEMMA NodeLinked ==
  ASSUME NEW p \in Publisher, NEW s, CounterExact(p),
         IsFiniteSet(nodes[p]), Cardinality(nodes[p]) \in Nat,
         s \notin nodes[p], nodes'[p] = nodes[p] \cup {s},
         pc'[p] = pc[p], ~Joining(p), Joining(p)',
         numSubscribers'[p] = numSubscribers[p]
  PROVE  CounterExact(p)'
<1>1. Cardinality(nodes[p] \cup {s}) = Cardinality(nodes[p]) + 1
  BY FS_AddElement
<1>2. CounterValue(p)' = CounterValue(p)
  BY <1>1 DEF CounterValue, Departing
<1>. QED BY <1>2 DEF CounterExact

(* ... and counting it in takes the counter up, possibly from below zero. *)
LEMMA NodeCountedIn ==
  ASSUME NEW p \in Publisher, CounterExact(p),
         Cardinality(nodes[p]) \in Nat, Cardinality(nodes[p]) + 1 < UintSize,
         nodes'[p] = nodes[p], pc'[p] = pc[p], Joining(p), ~Joining(p)',
         numSubscribers'[p] = UintInc(numSubscribers[p])
  PROVE  CounterExact(p)'
<1>1. CounterValue(p)' = CounterValue(p) + 1 /\ CounterValue(p) \in -1 .. UintSize - 2
  BY LimitAssumption DEF CounterValue, Departing
<1>. QED BY <1>1, LimitAssumption DEF CounterExact, UintInc

(* The map created by create_published_stream_map is well typed. *)
LEMMA TypeInit == Init => TypeOK
BY LimitAssumption, ThreadAssumption, UintPositive
   DEF Init, TypeOK, Thread, Client, Kind, LockOwner, PublisherPc, ClientPc, Subscriber

(* No step stores a value of another type; a client at an access_lock has a *)
(* stream to index by, hence PointersGood.                                  *)
LEMMA TypeStep ==
  ASSUME TypeOK, PointersGood, [Next]_vars
  PROVE  TypeOK'
<1>. USE ThreadAssumption, LimitAssumption, UintPositive DEF TypeOK,
   PointersGood, Holding, Kind, LockOwner, UintInc, UintDec, PublisherPc,
   ClientPc, Goto, Thread, Client, registryVars, streamVars, loopVars
<1>1. ASSUME NEW p \in Publisher, PublisherEvent(p)
      PROVE  TypeOK'
  <2>1. CASE AcceptPublisher(p) BY <2>1 DEF AcceptPublisher
  <2>2. ASSUME NEW n \in Name, PublisherAccepted(p, n) PROVE TypeOK'
    BY <2>2 DEF PublisherAccepted
  <2>3. CASE PublisherRejected(p) BY <2>3 DEF PublisherRejected
  <2>4. CASE ReceivePacket(p) BY <2>4 DEF ReceivePacket
  <2>5. CASE ReceiveFails(p) BY <2>5 DEF ReceiveFails
  <2>. QED BY <1>1, <2>1, <2>2, <2>3, <2>4, <2>5 DEF PublisherEvent
<1>2. ASSUME NEW p \in Publisher, PublishStep(p)
      PROVE  TypeOK'
  <2>1. CASE CreateRefused(p) BY <2>1 DEF CreateRefused
  <2>2. CASE CreateStreamData(p) BY <2>2 DEF CreateStreamData, NodesWithName
  <2>. QED BY <1>2, <2>1, <2>2 DEF PublishStep
<1>3. ASSUME NEW p \in Publisher, SendStep(p)
      PROVE  TypeOK'
  <2>1. CASE LockSubscribers(p) BY <2>1 DEF LockSubscribers
  <2>2. ASSUME NEW s \in Subscriber, SendSucceeds(p, s) PROVE TypeOK'
    BY <2>2 DEF SendSucceeds
  <2>3. ASSUME NEW s \in Subscriber, SendTolerated(p, s) PROVE TypeOK'
    BY <2>3 DEF SendTolerated
  <2>4. ASSUME NEW s \in Subscriber, SendFails(p, s) PROVE TypeOK'
    BY <2>4 DEF SendFails
  <2>5. CASE CountOut(p) BY <2>5 DEF CountOut
  <2>6. CASE UnlockSubscribers(p) BY <2>6 DEF UnlockSubscribers
  <2>. QED BY <1>3, <2>1, <2>2, <2>3, <2>4, <2>5, <2>6 DEF SendStep
<1>4. ASSUME NEW p \in Publisher, RemoveStep(p)
      PROVE  TypeOK'
  <2>1. CASE LockMapToRemove(p) BY <2>1 DEF LockMapToRemove
  <2>2. CASE RemoveName(p) BY <2>2 DEF RemoveName, NodesWithName
  <2>3. CASE LockAccessToCleanUp(p) BY <2>3 DEF LockAccessToCleanUp
  <2>4. CASE CloseSubscribers(p)
    <3>1. nodes' \in [Publisher -> SUBSET Subscriber]
      BY <2>4 DEF CloseSubscribers
    <3>2. closes' \in [Subscriber -> Nat] BY <2>4 DEF CloseSubscribers
    <3>3. phase' \in [Publisher -> Kind] BY <2>4 DEF CloseSubscribers
    <3>4. CASE phase[p] = "srt"
      BY <2>4, <3>1, <3>2, <3>3, <3>4 DEF CloseSubscribers
    <3>5. CASE phase[p] # "srt"
      <4>1. pc' = [pc EXCEPT ![p] = "destroy"]
        BY <2>4, <3>5 DEF CloseSubscribers
      <4>2. name' = [name EXCEPT ![p] = None] BY <2>4, <3>5 DEF CloseSubscribers
      <4>3. accessLock' = [accessLock EXCEPT ![p] = None]
        BY <2>4, <3>5 DEF CloseSubscribers
      <4>4. /\ pc' \in [Thread -> PublisherPc \cup ClientPc]
            /\ \A q \in Publisher : pc'[q] \in PublisherPc
            /\ \A t \in Subscriber : pc'[t] \in ClientPc \ {"readCount"}
            /\ \A a \in ApiRequest :
                 pc'[a] \in {"idle", "lookup", "lockAccess", "readCount"}
        BY <4>1
      <4>5. name' \in [Thread -> Name \cup {None}] BY <4>2
      <4>6. accessLock' \in [Publisher -> LockOwner] BY <4>3
      <4>. QED BY <2>4, <3>1, <3>2, <3>3, <4>4, <4>5, <4>6 DEF CloseSubscribers
    <3>. QED BY <3>4, <3>5
  <2>5. CASE FreeData(p) BY <2>5 DEF FreeData
  <2>. QED BY <1>4, <2>1, <2>2, <2>3, <2>4, <2>5 DEF RemoveStep
<1>5. ASSUME NEW s \in Subscriber, SubscriberEvent(s)
      PROVE  TypeOK'
  <2>1. CASE AcceptSubscriber(s) BY <2>1 DEF AcceptSubscriber, SlotFree
  <2>2. ASSUME NEW n \in Name, SubscriberAccepted(s, n) PROVE TypeOK'
    BY <2>2 DEF SubscriberAccepted
  <2>3. CASE SubscriberRejected(s) BY <2>3 DEF SubscriberRejected
  <2>. QED BY <1>5, <2>1, <2>2, <2>3 DEF SubscriberEvent
<1>6. ASSUME NEW c \in Client, LookupStep(c)
      PROVE  TypeOK'
  <2>1. CASE StreamNotFound(c) BY <2>1 DEF StreamNotFound, Finish, Disconnect
  <2>2. ASSUME NEW p \in Publisher, FindStream(c, p) PROVE TypeOK'
    BY <2>2 DEF FindStream, NodesWithName
  <2>3. CASE LockAccess(c) BY <2>3 DEF LockAccess
  <2>. QED BY <1>6, <2>1, <2>2, <2>3 DEF LookupStep
<1>7. ASSUME NEW s \in Subscriber, JoinStep(s)
      PROVE  TypeOK'
  <2>1. CASE RejectSubscriber(s)
    BY <2>1 DEF RejectSubscriber, Finish, Disconnect
  <2>2. CASE AdmitSubscriber(s) BY <2>2 DEF AdmitSubscriber
  <2>3. CASE SetFlagFails(s) BY <2>3 DEF SetFlagFails, Finish, Disconnect
  <2>4. CASE InsertNode(s) BY <2>4 DEF InsertNode
  <2>5. CASE CountIn(s)
    <3>1. data[s] \in Publisher BY <2>5 DEF CountIn
    <3>2. numSubscribers[data[s]] \in 0 .. UintSize - 1 BY <3>1
    <3>3. numSubscribers' \in [Publisher -> 0 .. UintSize - 1]
      BY <2>5, <3>1, <3>2 DEF CountIn
    <3>. QED BY <2>5, <3>3 DEF CountIn
  <2>6. CASE UnlockAccess(s) BY <2>6 DEF UnlockAccess, Finish
  <2>. QED BY <1>7, <2>1, <2>2, <2>3, <2>4, <2>5, <2>6 DEF JoinStep
<1>8. ASSUME NEW a \in ApiRequest,
            (\E n \in Name : AcceptApiRequest(a, n)) \/ ReadCount(a)
      PROVE  TypeOK'
  <2>1. ASSUME NEW n \in Name, AcceptApiRequest(a, n) PROVE TypeOK'
    BY <2>1 DEF AcceptApiRequest
  <2>2. CASE ReadCount(a) BY <2>2 DEF ReadCount, Finish
  <2>. QED BY <1>8, <2>1, <2>2
<1>9. CASE UNCHANGED vars BY <1>9 DEF vars
<1>. QED BY <1>1, <1>2, <1>3, <1>4, <1>5, <1>6, <1>7, <1>8, <1>9
  DEF Next, PublisherStep, ClientStep, ClientEvent

(* map_lock is taken and released at the places MapLockOwned names. *)
LEMMA MapLockStep ==
  ASSUME TypeOK, MapLockOwned, [Next]_vars
  PROVE  MapLockOwned'
<1>. USE ThreadAssumption DEF TypeOK, MapLockOwned, PublisherPc, ClientPc,
   Goto, Thread, Client, registryVars, streamVars, loopVars
<1>1. ASSUME NEW p \in Publisher, PublisherEvent(p)
      PROVE  MapLockOwned'
  BY <1>1 DEF PublisherEvent, AcceptPublisher, PublisherAccepted,
     PublisherRejected, ReceivePacket, ReceiveFails
<1>2. ASSUME NEW p \in Publisher, PublishStep(p)
      PROVE  MapLockOwned'
  BY <1>2 DEF PublishStep, CreateRefused, CreateStreamData
<1>3. ASSUME NEW p \in Publisher, SendStep(p)
      PROVE  MapLockOwned'
  BY <1>3 DEF SendStep, LockSubscribers, SendSucceeds, SendTolerated,
     SendFails, CountOut, UnlockSubscribers
<1>4. ASSUME NEW p \in Publisher, RemoveStep(p)
      PROVE  MapLockOwned'
  BY <1>4 DEF RemoveStep, LockMapToRemove, RemoveName, LockAccessToCleanUp,
     CloseSubscribers, FreeData
<1>5. ASSUME NEW s \in Subscriber, SubscriberEvent(s)
      PROVE  MapLockOwned'
  BY <1>5 DEF SubscriberEvent, AcceptSubscriber, SubscriberAccepted,
     SubscriberRejected, SlotFree
<1>6. ASSUME NEW c \in Client, LookupStep(c)
      PROVE  MapLockOwned'
  <2>1. CASE StreamNotFound(c) BY <2>1 DEF StreamNotFound, Finish, Disconnect
  <2>2. ASSUME NEW p \in Publisher, FindStream(c, p) PROVE MapLockOwned'
    BY <2>2 DEF FindStream
  <2>3. CASE LockAccess(c) BY <2>3 DEF LockAccess
  <2>. QED BY <1>6, <2>1, <2>2, <2>3 DEF LookupStep
<1>7. ASSUME NEW s \in Subscriber, JoinStep(s)
      PROVE  MapLockOwned'
  BY <1>7 DEF JoinStep, RejectSubscriber, AdmitSubscriber, SetFlagFails,
     InsertNode, CountIn, UnlockAccess, Finish, Disconnect
<1>8. ASSUME NEW a \in ApiRequest,
            (\E n \in Name : AcceptApiRequest(a, n)) \/ ReadCount(a)
      PROVE  MapLockOwned' BY <1>8 DEF AcceptApiRequest, ReadCount, Finish
<1>9. CASE UNCHANGED vars BY <1>9 DEF vars
<1>. QED BY <1>1, <1>2, <1>3, <1>4, <1>5, <1>6, <1>7, <1>8, <1>9
  DEF Next, PublisherStep, ClientStep, ClientEvent

(* A client takes access_lock with map_lock held and keeps it until its last *)
(* step on the stream; the publisher takes it to clean up.                   *)
LEMMA AccessLockStep ==
  ASSUME TypeOK, MapLockOwned, AccessLockOwned, PointersGood, [Next]_vars
  PROVE  AccessLockOwned'
<1>. USE ThreadAssumption DEF TypeOK, MapLockOwned, AccessLockOwned,
   PointersGood, Holding, PublisherPc, ClientPc, Goto, Thread, Client,
   registryVars, streamVars, loopVars
<1>1. ASSUME NEW p \in Publisher, PublisherEvent(p)
      PROVE  AccessLockOwned'
  BY <1>1 DEF PublisherEvent, AcceptPublisher, PublisherAccepted,
     PublisherRejected, ReceivePacket, ReceiveFails
<1>2. ASSUME NEW p \in Publisher, PublishStep(p)
      PROVE  AccessLockOwned'
  BY <1>2 DEF PublishStep, CreateRefused, CreateStreamData
<1>3. ASSUME NEW p \in Publisher, SendStep(p)
      PROVE  AccessLockOwned'
  BY <1>3 DEF SendStep, LockSubscribers, SendSucceeds, SendTolerated,
     SendFails, CountOut, UnlockSubscribers
<1>4. ASSUME NEW p \in Publisher, RemoveStep(p)
      PROVE  AccessLockOwned'
  <2>1. CASE LockMapToRemove(p) BY <2>1 DEF LockMapToRemove
  <2>2. CASE RemoveName(p) BY <2>2 DEF RemoveName
  <2>3. CASE LockAccessToCleanUp(p) BY <2>3 DEF LockAccessToCleanUp
  <2>4. CASE CloseSubscribers(p) BY <2>4 DEF CloseSubscribers
  <2>5. CASE FreeData(p) BY <2>5 DEF FreeData
  <2>. QED BY <1>4, <2>1, <2>2, <2>3, <2>4, <2>5 DEF RemoveStep
<1>5. ASSUME NEW s \in Subscriber, SubscriberEvent(s)
      PROVE  AccessLockOwned'
  BY <1>5 DEF SubscriberEvent, AcceptSubscriber, SubscriberAccepted,
     SubscriberRejected, SlotFree
<1>6. ASSUME NEW c \in Client, LookupStep(c)
      PROVE  AccessLockOwned'
  <2>1. CASE StreamNotFound(c) BY <2>1 DEF StreamNotFound, Finish, Disconnect
  <2>2. ASSUME NEW p \in Publisher, FindStream(c, p) PROVE AccessLockOwned'
    BY <2>2 DEF FindStream
  <2>3. CASE LockAccess(c) BY <2>3 DEF LockAccess
  <2>. QED BY <1>6, <2>1, <2>2, <2>3 DEF LookupStep
<1>7. ASSUME NEW s \in Subscriber, JoinStep(s)
      PROVE  AccessLockOwned'
  <2>1. CASE RejectSubscriber(s)
    BY <2>1 DEF RejectSubscriber, Finish, Disconnect
  <2>2. CASE AdmitSubscriber(s) BY <2>2 DEF AdmitSubscriber
  <2>3. CASE SetFlagFails(s) BY <2>3 DEF SetFlagFails, Finish, Disconnect
  <2>4. CASE InsertNode(s) BY <2>4 DEF InsertNode
  <2>5. CASE CountIn(s) BY <2>5 DEF CountIn
  <2>6. CASE UnlockAccess(s) BY <2>6 DEF UnlockAccess, Finish
  <2>. QED BY <1>7, <2>1, <2>2, <2>3, <2>4, <2>5, <2>6 DEF JoinStep
<1>8. ASSUME NEW a \in ApiRequest,
            (\E n \in Name : AcceptApiRequest(a, n)) \/ ReadCount(a)
      PROVE  AccessLockOwned'
  <2>1. ASSUME NEW n \in Name, AcceptApiRequest(a, n) PROVE AccessLockOwned'
    BY <2>1 DEF AcceptApiRequest
  <2>2. CASE ReadCount(a) BY <2>2 DEF ReadCount, Finish
  <2>. QED BY <1>8, <2>1, <2>2
<1>9. CASE UNCHANGED vars BY <1>9 DEF vars
<1>. QED BY <1>1, <1>2, <1>3, <1>4, <1>5, <1>6, <1>7, <1>8, <1>9
  DEF Next, PublisherStep, ClientStep, ClientEvent

(* The publisher holds the lock of the list it sends to, and no other. *)
LEMMA ListLockStep ==
  ASSUME TypeOK, ListLockOwned, [Next]_vars
  PROVE  ListLockOwned'
<1>. USE ThreadAssumption DEF TypeOK, ListLockOwned, Kind, PublisherPc,
   ClientPc, Goto, Thread, Client, registryVars, streamVars, loopVars
<1>1. ASSUME NEW p \in Publisher, PublisherEvent(p)
      PROVE  ListLockOwned'
  BY <1>1 DEF PublisherEvent, AcceptPublisher, PublisherAccepted,
     PublisherRejected, ReceivePacket, ReceiveFails
<1>2. ASSUME NEW p \in Publisher, PublishStep(p)
      PROVE  ListLockOwned'
  BY <1>2 DEF PublishStep, CreateRefused, CreateStreamData
<1>3. ASSUME NEW p \in Publisher, SendStep(p)
      PROVE  ListLockOwned'
  BY <1>3 DEF SendStep, LockSubscribers, SendSucceeds, SendTolerated,
     SendFails, CountOut, UnlockSubscribers
<1>4. ASSUME NEW p \in Publisher, RemoveStep(p)
      PROVE  ListLockOwned'
  BY <1>4 DEF RemoveStep, LockMapToRemove, RemoveName, LockAccessToCleanUp,
     CloseSubscribers, FreeData
<1>5. ASSUME NEW s \in Subscriber, SubscriberEvent(s)
      PROVE  ListLockOwned'
  BY <1>5 DEF SubscriberEvent, AcceptSubscriber, SubscriberAccepted,
     SubscriberRejected, SlotFree
<1>6. ASSUME NEW c \in Client, LookupStep(c)
      PROVE  ListLockOwned'
  BY <1>6 DEF LookupStep, StreamNotFound, FindStream, LockAccess, Finish,
     Disconnect
<1>7. ASSUME NEW s \in Subscriber, JoinStep(s)
      PROVE  ListLockOwned'
  BY <1>7 DEF JoinStep, RejectSubscriber, AdmitSubscriber, SetFlagFails,
     InsertNode, CountIn, UnlockAccess, Finish, Disconnect
<1>8. ASSUME NEW a \in ApiRequest,
            (\E n \in Name : AcceptApiRequest(a, n)) \/ ReadCount(a)
      PROVE  ListLockOwned' BY <1>8 DEF AcceptApiRequest, ReadCount, Finish
<1>9. CASE UNCHANGED vars BY <1>9 DEF vars
<1>. QED BY <1>1, <1>2, <1>3, <1>4, <1>5, <1>6, <1>7, <1>8, <1>9
  DEF Next, PublisherStep, ClientStep, ClientEvent

(* The map holds the published streams under distinct names: a name is looked *)
(* up and inserted under one map_lock, and remove_name_from_map takes out the *)
(* very stream of the thread that calls it.                                   *)
LEMMA MapContentsStep ==
  ASSUME TypeOK, MapLockOwned, MapContents, [Next]_vars
  PROVE  MapContents'
<1>. USE ThreadAssumption DEF TypeOK, MapLockOwned, MapContents, NamesUnique,
   Published, PublisherPc, ClientPc, Goto, Thread, Client, registryVars,
   streamVars, loopVars
<1>1. ASSUME NEW p \in Publisher, PublisherEvent(p)
      PROVE  MapContents'
  <2>1. CASE AcceptPublisher(p) BY <2>1 DEF AcceptPublisher
  <2>2. ASSUME NEW n \in Name, PublisherAccepted(p, n) PROVE MapContents'
    BY <2>2 DEF PublisherAccepted
  <2>3. CASE PublisherRejected(p) BY <2>3 DEF PublisherRejected
  <2>4. CASE ReceivePacket(p) BY <2>4 DEF ReceivePacket
  <2>5. CASE ReceiveFails(p) BY <2>5 DEF ReceiveFails
  <2>. QED BY <1>1, <2>1, <2>2, <2>3, <2>4, <2>5 DEF PublisherEvent
<1>2. ASSUME NEW p \in Publisher, PublishStep(p)
      PROVE  MapContents'
  <2>1. CASE CreateRefused(p) BY <2>1 DEF CreateRefused
  <2>2. CASE CreateStreamData(p) BY <2>2 DEF CreateStreamData, NodesWithName
  <2>. QED BY <1>2, <2>1, <2>2 DEF PublishStep
<1>3. ASSUME NEW p \in Publisher, SendStep(p)
      PROVE  MapContents'
  <2>1. CASE LockSubscribers(p) BY <2>1 DEF LockSubscribers
  <2>2. ASSUME NEW s \in Subscriber, SendSucceeds(p, s) PROVE MapContents'
    BY <2>2 DEF SendSucceeds
  <2>3. ASSUME NEW s \in Subscriber, SendTolerated(p, s) PROVE MapContents'
    BY <2>3 DEF SendTolerated
  <2>4. ASSUME NEW s \in Subscriber, SendFails(p, s) PROVE MapContents'
    BY <2>4 DEF SendFails
  <2>5. CASE CountOut(p) BY <2>5 DEF CountOut
  <2>6. CASE UnlockSubscribers(p) BY <2>6 DEF UnlockSubscribers
  <2>. QED BY <1>3, <2>1, <2>2, <2>3, <2>4, <2>5, <2>6 DEF SendStep
<1>4. ASSUME NEW p \in Publisher, RemoveStep(p)
      PROVE  MapContents'
  <2>1. CASE LockMapToRemove(p) BY <2>1 DEF LockMapToRemove
  <2>2. CASE RemoveName(p) BY <2>2 DEF RemoveName, NodesWithName
  <2>3. CASE LockAccessToCleanUp(p) BY <2>3 DEF LockAccessToCleanUp
  <2>4. CASE CloseSubscribers(p)
    <3>1. CASE phase[p] = "srt" BY <2>4, <3>1 DEF CloseSubscribers
    <3>2. CASE phase[p] # "srt"
      <4>1. p \notin inMap BY <2>4, <3>2 DEF CloseSubscribers
      <4>2. \A q \in Publisher \ {p} : name'[q] = name[q] /\ pc'[q] = pc[q]
        BY <2>4, <3>2 DEF CloseSubscribers
      <4>3. \A c \in Client : name'[c] = name[c] /\ pc'[c] = pc[c] /\ data'[c] = data[c]
        BY <2>4, <3>2 DEF CloseSubscribers
      <4>4. inMap' = inMap BY <2>4, <3>2 DEF CloseSubscribers
      <4>5. p \in Publisher /\ pc'[p] = "destroy"
        BY <2>4, <3>2 DEF CloseSubscribers
      <4>6. \A q \in Publisher : q \in inMap' <=> pc'[q] \in Published
        BY <4>1, <4>2, <4>4, <4>5
      <4>7. \A q \in Publisher :
              pc'[q] \notin {"idle", "auth", "destroy"} => name'[q] \in Name
        BY <4>2, <4>5
      <4>8. NamesUnique' BY <4>1, <4>2, <4>4
      <4>. QED BY <4>6, <4>7, <4>8
    <3>. QED BY <3>1, <3>2
  <2>5. CASE FreeData(p) BY <2>5 DEF FreeData
  <2>. QED BY <1>4, <2>1, <2>2, <2>3, <2>4, <2>5 DEF RemoveStep
<1>5. ASSUME NEW s \in Subscriber, SubscriberEvent(s)
      PROVE  MapContents'
  <2>1. CASE AcceptSubscriber(s) BY <2>1 DEF AcceptSubscriber, SlotFree
  <2>2. ASSUME NEW n \in Name, SubscriberAccepted(s, n) PROVE MapContents'
    BY <2>2 DEF SubscriberAccepted
  <2>3. CASE SubscriberRejected(s) BY <2>3 DEF SubscriberRejected
  <2>. QED BY <1>5, <2>1, <2>2, <2>3 DEF SubscriberEvent
<1>6. ASSUME NEW c \in Client, LookupStep(c)
      PROVE  MapContents'
  <2>1. CASE StreamNotFound(c) BY <2>1 DEF StreamNotFound, Finish, Disconnect
  <2>2. ASSUME NEW p \in Publisher, FindStream(c, p) PROVE MapContents'
    BY <2>2 DEF FindStream, NodesWithName
  <2>3. CASE LockAccess(c) BY <2>3 DEF LockAccess
  <2>. QED BY <1>6, <2>1, <2>2, <2>3 DEF LookupStep
<1>7. ASSUME NEW s \in Subscriber, JoinStep(s)
      PROVE  MapContents'
  <2>1. CASE RejectSubscriber(s)
    BY <2>1 DEF RejectSubscriber, Finish, Disconnect
  <2>2. CASE AdmitSubscriber(s) BY <2>2 DEF AdmitSubscriber
  <2>3. CASE SetFlagFails(s) BY <2>3 DEF SetFlagFails, Finish, Disconnect
  <2>4. CASE InsertNode(s) BY <2>4 DEF InsertNode
  <2>5. CASE CountIn(s) BY <2>5 DEF CountIn
  <2>6. CASE UnlockAccess(s) BY <2>6 DEF UnlockAccess, Finish
  <2>. QED BY <1>7, <2>1, <2>2, <2>3, <2>4, <2>5, <2>6 DEF JoinStep
<1>8. ASSUME NEW a \in ApiRequest,
            (\E n \in Name : AcceptApiRequest(a, n)) \/ ReadCount(a)
      PROVE  MapContents'
  <2>1. ASSUME NEW n \in Name, AcceptApiRequest(a, n) PROVE MapContents'
    BY <2>1 DEF AcceptApiRequest
  <2>2. CASE ReadCount(a) BY <2>2 DEF ReadCount, Finish
  <2>. QED BY <1>8, <2>1, <2>2
<1>9. CASE UNCHANGED vars BY <1>9 DEF vars
<1>. QED BY <1>1, <1>2, <1>3, <1>4, <1>5, <1>6, <1>7, <1>8, <1>9
  DEF Next, PublisherStep, ClientStep, ClientEvent

(* The stream a client points to stays in the map: remove_name_from_map needs *)
(* map_lock and the stream's access_lock, one of which the client holds.      *)
LEMMA PointersStep ==
  ASSUME TypeOK, MapLockOwned, AccessLockOwned, MapContents, PointersGood,
     [Next]_vars
  PROVE  PointersGood'
<1>. USE ThreadAssumption DEF TypeOK, MapLockOwned, AccessLockOwned,
   MapContents, NamesUnique, PointersGood, Published, Holding, PublisherPc,
   ClientPc, Goto, Thread, Client, registryVars, streamVars, loopVars
<1>1. ASSUME NEW p \in Publisher, PublisherEvent(p)
      PROVE  PointersGood'
  <2>1. CASE AcceptPublisher(p) BY <2>1 DEF AcceptPublisher
  <2>2. ASSUME NEW n \in Name, PublisherAccepted(p, n) PROVE PointersGood'
    BY <2>2 DEF PublisherAccepted
  <2>3. CASE PublisherRejected(p) BY <2>3 DEF PublisherRejected
  <2>4. CASE ReceivePacket(p) BY <2>4 DEF ReceivePacket
  <2>5. CASE ReceiveFails(p) BY <2>5 DEF ReceiveFails
  <2>. QED BY <1>1, <2>1, <2>2, <2>3, <2>4, <2>5 DEF PublisherEvent
<1>2. ASSUME NEW p \in Publisher, PublishStep(p)
      PROVE  PointersGood'
  <2>1. CASE CreateRefused(p)
    <3>1. p \notin inMap BY <2>1 DEF CreateRefused
    <3>2. \A q \in Publisher \ {p} : name'[q] = name[q] /\ pc'[q] = pc[q]
      BY <2>1 DEF CreateRefused
    <3>3. \A c \in Client : name'[c] = name[c] /\ pc'[c] = pc[c] /\ data'[c] = data[c]
      BY <2>1 DEF CreateRefused
    <3>4. inMap' = inMap BY <2>1 DEF CreateRefused
    <3>. QED BY <3>1, <3>2, <3>3, <3>4
  <2>2. CASE CreateStreamData(p) BY <2>2 DEF CreateStreamData, NodesWithName
  <2>. QED BY <1>2, <2>1, <2>2 DEF PublishStep
<1>3. ASSUME NEW p \in Publisher, SendStep(p)
      PROVE  PointersGood'
  <2>1. CASE LockSubscribers(p) BY <2>1 DEF LockSubscribers
  <2>2. ASSUME NEW s \in Subscriber, SendSucceeds(p, s) PROVE PointersGood'
    BY <2>2 DEF SendSucceeds
  <2>3. ASSUME NEW s \in Subscriber, SendTolerated(p, s) PROVE PointersGood'
    BY <2>3 DEF SendTolerated
  <2>4. ASSUME NEW s \in Subscriber, SendFails(p, s) PROVE PointersGood'
    BY <2>4 DEF SendFails
  <2>5. CASE CountOut(p) BY <2>5 DEF CountOut
  <2>6. CASE UnlockSubscribers(p) BY <2>6 DEF UnlockSubscribers
  <2>. QED BY <1>3, <2>1, <2>2, <2>3, <2>4, <2>5, <2>6 DEF SendStep
<1>4. ASSUME NEW p \in Publisher, RemoveStep(p)
      PROVE  PointersGood'
  <2>1. CASE LockMapToRemove(p) BY <2>1 DEF LockMapToRemove
  <2>2. CASE RemoveName(p) BY <2>2 DEF RemoveName, NodesWithName
  <2>3. CASE LockAccessToCleanUp(p) BY <2>3 DEF LockAccessToCleanUp
  <2>4. CASE CloseSubscribers(p)
    <3>1. CASE phase[p] = "srt" BY <2>4, <3>1 DEF CloseSubscribers
    <3>2. CASE phase[p] # "srt"
      <4>1. p \notin inMap BY <2>4, <3>2 DEF CloseSubscribers
      <4>2. \A q \in Publisher \ {p} : name'[q] = name[q] /\ pc'[q] = pc[q]
        BY <2>4, <3>2 DEF CloseSubscribers
      <4>3. \A c \in Client : name'[c] = name[c] /\ pc'[c] = pc[c] /\ data'[c] = data[c]
        BY <2>4, <3>2 DEF CloseSubscribers
      <4>4. inMap' = inMap BY <2>4, <3>2 DEF CloseSubscribers
      <4>5. p \in Publisher /\ pc'[p] = "destroy"
        BY <2>4, <3>2 DEF CloseSubscribers
      <4>. QED BY <4>1, <4>2, <4>3, <4>4, <4>5
    <3>. QED BY <3>1, <3>2
  <2>5. CASE FreeData(p) BY <2>5 DEF FreeData
  <2>. QED BY <1>4, <2>1, <2>2, <2>3, <2>4, <2>5 DEF RemoveStep
<1>5. ASSUME NEW s \in Subscriber, SubscriberEvent(s)
      PROVE  PointersGood'
  <2>1. CASE AcceptSubscriber(s) BY <2>1 DEF AcceptSubscriber, SlotFree
  <2>2. ASSUME NEW n \in Name, SubscriberAccepted(s, n) PROVE PointersGood'
    BY <2>2 DEF SubscriberAccepted
  <2>3. CASE SubscriberRejected(s) BY <2>3 DEF SubscriberRejected
  <2>. QED BY <1>5, <2>1, <2>2, <2>3 DEF SubscriberEvent
<1>6. ASSUME NEW c \in Client, LookupStep(c)
      PROVE  PointersGood'
  <2>1. CASE StreamNotFound(c) BY <2>1 DEF StreamNotFound, Finish, Disconnect
  <2>2. ASSUME NEW p \in Publisher, FindStream(c, p) PROVE PointersGood'
    BY <2>2 DEF FindStream, NodesWithName
  <2>3. CASE LockAccess(c) BY <2>3 DEF LockAccess
  <2>. QED BY <1>6, <2>1, <2>2, <2>3 DEF LookupStep
<1>7. ASSUME NEW s \in Subscriber, JoinStep(s)
      PROVE  PointersGood'
  <2>1. CASE RejectSubscriber(s)
    BY <2>1 DEF RejectSubscriber, Finish, Disconnect
  <2>2. CASE AdmitSubscriber(s) BY <2>2 DEF AdmitSubscriber
  <2>3. CASE SetFlagFails(s) BY <2>3 DEF SetFlagFails, Finish, Disconnect
  <2>4. CASE InsertNode(s) BY <2>4 DEF InsertNode
  <2>5. CASE CountIn(s) BY <2>5 DEF CountIn
  <2>6. CASE UnlockAccess(s) BY <2>6 DEF UnlockAccess, Finish
  <2>. QED BY <1>7, <2>1, <2>2, <2>3, <2>4, <2>5, <2>6 DEF JoinStep
<1>8. ASSUME NEW a \in ApiRequest,
            (\E n \in Name : AcceptApiRequest(a, n)) \/ ReadCount(a)
      PROVE  PointersGood'
  <2>1. ASSUME NEW n \in Name, AcceptApiRequest(a, n) PROVE PointersGood'
    BY <2>1 DEF AcceptApiRequest
  <2>2. CASE ReadCount(a) BY <2>2 DEF ReadCount, Finish
  <2>. QED BY <1>8, <2>1, <2>2
<1>9. CASE UNCHANGED vars BY <1>9 DEF vars
<1>. QED BY <1>1, <1>2, <1>3, <1>4, <1>5, <1>6, <1>7, <1>8, <1>9
  DEF Next, PublisherStep, ClientStep, ClientEvent

(* The publisher visits nodes of the list it locked, and only those. *)
LEMMA PhaseStep ==
  ASSUME TypeOK, PhaseGood, MapContents, PointersGood, [Next]_vars
  PROVE  PhaseGood'
<1>. USE ThreadAssumption DEF TypeOK, PhaseGood, MapContents, Published,
   PointersGood, Holding, Kind, PublisherPc, ClientPc, Goto, Thread, Client,
   registryVars, streamVars, loopVars
<1>1. ASSUME NEW p \in Publisher, PublisherEvent(p)
      PROVE  PhaseGood'
  BY <1>1 DEF PublisherEvent, AcceptPublisher, PublisherAccepted,
     PublisherRejected, ReceivePacket, ReceiveFails
<1>2. ASSUME NEW p \in Publisher, PublishStep(p)
      PROVE  PhaseGood' BY <1>2 DEF PublishStep, CreateRefused, CreateStreamData
<1>3. ASSUME NEW p \in Publisher, SendStep(p)
      PROVE  PhaseGood'
  BY <1>3 DEF SendStep, LockSubscribers, SendSucceeds, SendTolerated,
     SendFails, CountOut, UnlockSubscribers
<1>4. ASSUME NEW p \in Publisher, RemoveStep(p)
      PROVE  PhaseGood'
  BY <1>4 DEF RemoveStep, LockMapToRemove, RemoveName, LockAccessToCleanUp,
     CloseSubscribers, FreeData
<1>5. ASSUME NEW s \in Subscriber, SubscriberEvent(s)
      PROVE  PhaseGood'
  BY <1>5 DEF SubscriberEvent, AcceptSubscriber, SubscriberAccepted,
     SubscriberRejected, SlotFree
<1>6. ASSUME NEW c \in Client, LookupStep(c)
      PROVE  PhaseGood'
  BY <1>6 DEF LookupStep, StreamNotFound, FindStream, LockAccess, Finish,
     Disconnect
<1>7. ASSUME NEW s \in Subscriber, JoinStep(s)
      PROVE  PhaseGood'
  BY <1>7 DEF JoinStep, RejectSubscriber, AdmitSubscriber, SetFlagFails,
     InsertNode, CountIn, UnlockAccess, Finish, Disconnect
<1>8. ASSUME NEW a \in ApiRequest,
            (\E n \in Name : AcceptApiRequest(a, n)) \/ ReadCount(a)
      PROVE  PhaseGood' BY <1>8 DEF AcceptApiRequest, ReadCount, Finish
<1>9. CASE UNCHANGED vars BY <1>9 DEF vars
<1>. QED BY <1>1, <1>2, <1>3, <1>4, <1>5, <1>6, <1>7, <1>8, <1>9
  DEF Next, PublisherStep, ClientStep, ClientEvent

(* A node is in one list, while its connection is open. *)
LEMMA NodesStep ==
  ASSUME TypeOK, MapContents, PointersGood, PhaseGood, NodesGood, ClosedOnce,
     [Next]_vars
  PROVE  NodesGood'
<1>. USE ThreadAssumption DEF TypeOK, PhaseGood, NodesGood, ClosedOnce,
   MapContents, Published, PointersGood, Holding, Kind, OfKind, Subscriber,
   PublisherPc, ClientPc, Goto, Thread, Client, registryVars, streamVars,
   loopVars
<1>1. ASSUME NEW p \in Publisher, PublisherEvent(p)
      PROVE  NodesGood'
  <2>1. CASE AcceptPublisher(p) BY <2>1 DEF AcceptPublisher
  <2>2. ASSUME NEW n \in Name, PublisherAccepted(p, n) PROVE NodesGood'
    BY <2>2 DEF PublisherAccepted
  <2>3. CASE PublisherRejected(p) BY <2>3 DEF PublisherRejected
  <2>4. CASE ReceivePacket(p) BY <2>4 DEF ReceivePacket
  <2>5. CASE ReceiveFails(p) BY <2>5 DEF ReceiveFails
  <2>. QED BY <1>1, <2>1, <2>2, <2>3, <2>4, <2>5 DEF PublisherEvent
<1>2. ASSUME NEW p \in Publisher, PublishStep(p)
      PROVE  NodesGood'
  <2>1. CASE CreateRefused(p) BY <2>1 DEF CreateRefused
  <2>2. CASE CreateStreamData(p) BY <2>2 DEF CreateStreamData
  <2>. QED BY <1>2, <2>1, <2>2 DEF PublishStep
<1>3. ASSUME NEW p \in Publisher, SendStep(p)
      PROVE  NodesGood'
  <2>1. CASE LockSubscribers(p) BY <2>1 DEF LockSubscribers
  <2>2. ASSUME NEW s \in Subscriber, SendSucceeds(p, s) PROVE NodesGood'
    BY <2>2 DEF SendSucceeds
  <2>3. ASSUME NEW s \in Subscriber, SendTolerated(p, s) PROVE NodesGood'
    BY <2>3 DEF SendTolerated
  <2>4. ASSUME NEW s \in Subscriber, SendFails(p, s) PROVE NodesGood'
    BY <2>4 DEF SendFails
  <2>5. CASE CountOut(p) BY <2>5 DEF CountOut
  <2>6. CASE UnlockSubscribers(p) BY <2>6 DEF UnlockSubscribers
  <2>. QED BY <1>3, <2>1, <2>2, <2>3, <2>4, <2>5, <2>6 DEF SendStep
<1>4. ASSUME NEW p \in Publisher, RemoveStep(p)
      PROVE  NodesGood'
  <2>1. CASE LockMapToRemove(p) BY <2>1 DEF LockMapToRemove
  <2>2. CASE RemoveName(p) BY <2>2 DEF RemoveName
  <2>3. CASE LockAccessToCleanUp(p) BY <2>3 DEF LockAccessToCleanUp
  <2>4. CASE CloseSubscribers(p)
    <3>1. CASE phase[p] = "srt" BY <2>4, <3>1 DEF CloseSubscribers
    <3>2. CASE phase[p] # "srt" BY <2>4, <3>2 DEF CloseSubscribers
    <3>. QED BY <3>1, <3>2
  <2>5. CASE FreeData(p) BY <2>5 DEF FreeData
  <2>. QED BY <1>4, <2>1, <2>2, <2>3, <2>4, <2>5 DEF RemoveStep
<1>5. ASSUME NEW s \in Subscriber, SubscriberEvent(s)
      PROVE  NodesGood'
  <2>1. CASE AcceptSubscriber(s) BY <2>1 DEF AcceptSubscriber, SlotFree
  <2>2. ASSUME NEW n \in Name, SubscriberAccepted(s, n) PROVE NodesGood'
    BY <2>2 DEF SubscriberAccepted
  <2>3. CASE SubscriberRejected(s) BY <2>3 DEF SubscriberRejected
  <2>. QED BY <1>5, <2>1, <2>2, <2>3 DEF SubscriberEvent
<1>6. ASSUME NEW c \in Client, LookupStep(c)
      PROVE  NodesGood'
  <2>1. CASE StreamNotFound(c) BY <2>1 DEF StreamNotFound, Finish, Disconnect
  <2>2. ASSUME NEW p \in Publisher, FindStream(c, p) PROVE NodesGood'
    BY <2>2 DEF FindStream
  <2>3. CASE LockAccess(c) BY <2>3 DEF LockAccess
  <2>. QED BY <1>6, <2>1, <2>2, <2>3 DEF LookupStep
<1>7. ASSUME NEW s \in Subscriber, JoinStep(s)
      PROVE  NodesGood'
  <2>1. CASE RejectSubscriber(s)
    BY <2>1 DEF RejectSubscriber, Finish, Disconnect
  <2>2. CASE AdmitSubscriber(s) BY <2>2 DEF AdmitSubscriber
  <2>3. CASE SetFlagFails(s) BY <2>3 DEF SetFlagFails, Finish, Disconnect
  <2>4. CASE InsertNode(s)
    <3>p. PICK p \in Publisher : p = data[s] BY <2>4 DEF InsertNode
    <3>1. \A q \in Publisher : s \notin nodes[q] BY <2>4 DEF InsertNode
    <3>2. nodes'[p] = nodes[p] \cup {s} /\ \A q \in Publisher \ {p} : nodes'[q] = nodes[q]
      BY <2>4, <3>p DEF InsertNode
    <3>3. /\ closes[s] = 0 /\ closes' = closes /\ phase' = phase /\ p \in inMap
         /\ pc'[s] = "increment" /\ \A t \in Thread \ {s} : pc'[t] = pc[t]
      BY <2>4, <3>p DEF InsertNode
    <3>. QED BY <3>1, <3>2, <3>3
  <2>5. CASE CountIn(s) BY <2>5 DEF CountIn
  <2>6. CASE UnlockAccess(s) BY <2>6 DEF UnlockAccess, Finish
  <2>. QED BY <1>7, <2>1, <2>2, <2>3, <2>4, <2>5, <2>6 DEF JoinStep
<1>8. ASSUME NEW a \in ApiRequest,
            (\E n \in Name : AcceptApiRequest(a, n)) \/ ReadCount(a)
      PROVE  NodesGood'
  <2>1. ASSUME NEW n \in Name, AcceptApiRequest(a, n) PROVE NodesGood'
    BY <2>1 DEF AcceptApiRequest
  <2>2. CASE ReadCount(a) BY <2>2 DEF ReadCount, Finish
  <2>. QED BY <1>8, <2>1, <2>2
<1>9. CASE UNCHANGED vars BY <1>9 DEF vars
<1>. QED BY <1>1, <1>2, <1>3, <1>4, <1>5, <1>6, <1>7, <1>8, <1>9
  DEF Next, PublisherStep, ClientStep, ClientEvent

(* No step closes a connection again, or forgets one that is open. *)
LEMMA ClosedOnceStep ==
  ASSUME TypeOK, MapContents, PointersGood, PhaseGood, NodesGood, ClosedOnce,
     [Next]_vars
  PROVE  ClosedOnce'
<1>. USE ThreadAssumption DEF TypeOK, PhaseGood, NodesGood, ClosedOnce,
   MapContents, Published, PointersGood, Holding, Kind, OfKind, PublisherPc,
   ClientPc, Goto, Thread, Client, registryVars, streamVars, loopVars
<1>1. ASSUME NEW p \in Publisher, PublisherEvent(p)
      PROVE  ClosedOnce'
  <2>1. CASE AcceptPublisher(p) BY <2>1 DEF AcceptPublisher
  <2>2. ASSUME NEW n \in Name, PublisherAccepted(p, n) PROVE ClosedOnce'
    BY <2>2 DEF PublisherAccepted
  <2>3. CASE PublisherRejected(p) BY <2>3 DEF PublisherRejected
  <2>4. CASE ReceivePacket(p) BY <2>4 DEF ReceivePacket
  <2>5. CASE ReceiveFails(p) BY <2>5 DEF ReceiveFails
  <2>. QED BY <1>1, <2>1, <2>2, <2>3, <2>4, <2>5 DEF PublisherEvent
<1>2. ASSUME NEW p \in Publisher, PublishStep(p)
      PROVE  ClosedOnce'
  <2>1. CASE CreateRefused(p) BY <2>1 DEF CreateRefused
  <2>2. CASE CreateStreamData(p) BY <2>2 DEF CreateStreamData
  <2>. QED BY <1>2, <2>1, <2>2 DEF PublishStep
<1>3. ASSUME NEW p \in Publisher, SendStep(p)
      PROVE  ClosedOnce'
  <2>1. CASE LockSubscribers(p) BY <2>1 DEF LockSubscribers
  <2>2. ASSUME NEW s \in Subscriber, SendSucceeds(p, s) PROVE ClosedOnce'
    BY <2>2 DEF SendSucceeds
  <2>3. ASSUME NEW s \in Subscriber, SendTolerated(p, s) PROVE ClosedOnce'
    BY <2>3 DEF SendTolerated
  <2>4. ASSUME NEW s \in Subscriber, SendFails(p, s) PROVE ClosedOnce'
    BY <2>4 DEF SendFails
  <2>5. CASE CountOut(p) BY <2>5 DEF CountOut
  <2>6. CASE UnlockSubscribers(p) BY <2>6 DEF UnlockSubscribers
  <2>. QED BY <1>3, <2>1, <2>2, <2>3, <2>4, <2>5, <2>6 DEF SendStep
<1>4. ASSUME NEW p \in Publisher, RemoveStep(p)
      PROVE  ClosedOnce'
  <2>1. CASE LockMapToRemove(p) BY <2>1 DEF LockMapToRemove
  <2>2. CASE RemoveName(p) BY <2>2 DEF RemoveName
  <2>3. CASE LockAccessToCleanUp(p) BY <2>3 DEF LockAccessToCleanUp
  <2>4. CASE CloseSubscribers(p) BY <2>4 DEF CloseSubscribers
  <2>5. CASE FreeData(p) BY <2>5 DEF FreeData
  <2>. QED BY <1>4, <2>1, <2>2, <2>3, <2>4, <2>5 DEF RemoveStep
<1>5. ASSUME NEW s \in Subscriber, SubscriberEvent(s)
      PROVE  ClosedOnce'
  <2>1. CASE AcceptSubscriber(s) BY <2>1 DEF AcceptSubscriber, SlotFree
  <2>2. ASSUME NEW n \in Name, SubscriberAccepted(s, n) PROVE ClosedOnce'
    BY <2>2 DEF SubscriberAccepted
  <2>3. CASE SubscriberRejected(s) BY <2>3 DEF SubscriberRejected
  <2>. QED BY <1>5, <2>1, <2>2, <2>3 DEF SubscriberEvent
<1>6. ASSUME NEW c \in Client, LookupStep(c)
      PROVE  ClosedOnce'
  <2>1. CASE StreamNotFound(c) BY <2>1 DEF StreamNotFound, Finish, Disconnect
  <2>2. ASSUME NEW p \in Publisher, FindStream(c, p) PROVE ClosedOnce'
    BY <2>2 DEF FindStream
  <2>3. CASE LockAccess(c) BY <2>3 DEF LockAccess
  <2>. QED BY <1>6, <2>1, <2>2, <2>3 DEF LookupStep
<1>7. ASSUME NEW s \in Subscriber, JoinStep(s)
      PROVE  ClosedOnce'
  <2>1. CASE RejectSubscriber(s)
    BY <2>1 DEF RejectSubscriber, Finish, Disconnect
  <2>2. CASE AdmitSubscriber(s) BY <2>2 DEF AdmitSubscriber
  <2>3. CASE SetFlagFails(s) BY <2>3 DEF SetFlagFails, Finish, Disconnect
  <2>4. CASE InsertNode(s) BY <2>4 DEF InsertNode
  <2>5. CASE CountIn(s) BY <2>5 DEF CountIn
  <2>6. CASE UnlockAccess(s) BY <2>6 DEF UnlockAccess, Finish
  <2>. QED BY <1>7, <2>1, <2>2, <2>3, <2>4, <2>5, <2>6 DEF JoinStep
<1>8. ASSUME NEW a \in ApiRequest,
            (\E n \in Name : AcceptApiRequest(a, n)) \/ ReadCount(a)
      PROVE  ClosedOnce'
  <2>1. ASSUME NEW n \in Name, AcceptApiRequest(a, n) PROVE ClosedOnce'
    BY <2>1 DEF AcceptApiRequest
  <2>2. CASE ReadCount(a) BY <2>2 DEF ReadCount, Finish
  <2>. QED BY <1>8, <2>1, <2>2
<1>9. CASE UNCHANGED vars BY <1>9 DEF vars
<1>. QED BY <1>1, <1>2, <1>3, <1>4, <1>5, <1>6, <1>7, <1>8, <1>9
  DEF Next, PublisherStep, ClientStep, ClientEvent

(* num_publishers follows the map. *)
LEMMA CountedStep ==
  ASSUME TypeOK, MapContents, PublishersCounted, [Next]_vars
  PROVE  PublishersCounted'
<1>. USE ThreadAssumption DEF TypeOK, PublishersCounted, Goto, Thread, Client,
   registryVars, streamVars, loopVars
<1>1. ASSUME NEW p \in Publisher, PublisherEvent(p)
      PROVE  PublishersCounted'
  BY <1>1 DEF PublisherEvent, AcceptPublisher, PublisherAccepted,
     PublisherRejected, ReceivePacket, ReceiveFails
<1>2. ASSUME NEW p \in Publisher, PublishStep(p)
      PROVE  PublishersCounted'
  <2>1. CASE CreateRefused(p) BY <2>1 DEF CreateRefused
  <2>2. CASE CreateStreamData(p)
    <3>1. p \notin inMap BY <2>2 DEF CreateStreamData, MapContents, Published
    <3>2. IsFiniteSet(inMap) /\ Cardinality(inMap) \in Nat
         /\ Cardinality(inMap) <= Cardinality(Publisher)
         /\ Cardinality(Publisher) \in Nat BY FS_Subset, FS_CardinalityType
    <3>3. Cardinality(inMap') = Cardinality(inMap) + 1
      BY <2>2, <3>1, <3>2, FS_AddElement DEF CreateStreamData
    <3>4. numPublishers' = numPublishers + 1
      BY <2>2, <3>2, LimitAssumption DEF CreateStreamData, UintInc
    <3>. QED BY <2>2, <3>2, <3>3, <3>4, LimitAssumption
        DEF CreateStreamData, MaxPublishersExceeded
  <2>. QED BY <1>2, <2>1, <2>2 DEF PublishStep
<1>3. ASSUME NEW p \in Publisher, SendStep(p)
      PROVE  PublishersCounted'
  BY <1>3 DEF SendStep, LockSubscribers, SendSucceeds, SendTolerated,
     SendFails, CountOut, UnlockSubscribers
<1>4. ASSUME NEW p \in Publisher, RemoveStep(p)
      PROVE  PublishersCounted'
  <2>1. CASE LockMapToRemove(p) BY <2>1 DEF LockMapToRemove
  <2>2. CASE RemoveName(p)
    <3>1. p \in inMap /\ NodesWithName(name[p]) = {p}
      BY <2>2 DEF RemoveName, MapContents, NamesUnique, Published, NodesWithName
    <3>2. IsFiniteSet(inMap) /\ Cardinality(inMap) \in Nat
      BY FS_Subset, FS_CardinalityType
    <3>3. inMap' = inMap \ {p} BY <2>2, <3>1 DEF RemoveName
    <3>4. Cardinality(inMap') = Cardinality(inMap) - 1 /\ Cardinality(inMap') \in Nat
      BY <3>1, <3>2, <3>3, FS_RemoveElement, FS_CardinalityType
    <3>5. numPublishers' = numPublishers - 1
      BY <2>2, <3>2, <3>4 DEF RemoveName, UintDec
    <3>. QED BY <3>2, <3>4, <3>5, LimitAssumption
  <2>3. CASE LockAccessToCleanUp(p) BY <2>3 DEF LockAccessToCleanUp
  <2>4. CASE CloseSubscribers(p) BY <2>4 DEF CloseSubscribers
  <2>5. CASE FreeData(p) BY <2>5 DEF FreeData
  <2>. QED BY <1>4, <2>1, <2>2, <2>3, <2>4, <2>5 DEF RemoveStep
<1>5. ASSUME NEW s \in Subscriber, SubscriberEvent(s)
      PROVE  PublishersCounted'
  BY <1>5 DEF SubscriberEvent, AcceptSubscriber, SubscriberAccepted,
     SubscriberRejected, SlotFree
<1>6. ASSUME NEW c \in Client, LookupStep(c)
      PROVE  PublishersCounted'
  BY <1>6 DEF LookupStep, StreamNotFound, FindStream, LockAccess, Finish,
     Disconnect, NodesWithName
<1>7. ASSUME NEW s \in Subscriber, JoinStep(s)
      PROVE  PublishersCounted'
  BY <1>7 DEF JoinStep, RejectSubscriber, AdmitSubscriber, SetFlagFails,
     InsertNode, CountIn, UnlockAccess, Finish, Disconnect
<1>8. ASSUME NEW a \in ApiRequest,
            (\E n \in Name : AcceptApiRequest(a, n)) \/ ReadCount(a)
      PROVE  PublishersCounted' BY <1>8 DEF AcceptApiRequest, ReadCount, Finish
<1>9. CASE UNCHANGED vars BY <1>9 DEF vars
<1>. QED BY <1>1, <1>2, <1>3, <1>4, <1>5, <1>6, <1>7, <1>8, <1>9
  DEF Next, PublisherStep, ClientStep, ClientEvent

(* Among the steps that touch the counter of a stream in the map, or what it is *)
(* compared with, all keep it exact.                                            *)
LEMMA CounterExactStep ==
  ASSUME TypeOK, AccessLockOwned, MapContents, PointersGood, PhaseGood,
     NodesGood, NEW q \in inMap', q \in inMap => CounterExact(q),
     ~CountUntouched(q), [Next]_vars
  PROVE  CounterExact(q)'
<1>. USE ThreadAssumption DEF TypeOK, MapContents, PointersGood, Published,
   Holding, CountUntouched, Goto, Thread, Client, registryVars, streamVars,
   loopVars
<1>1. ASSUME NEW p \in Publisher, PublisherEvent(p)
      PROVE  CounterExact(q)'
  <2>1. CASE AcceptPublisher(p) BY <2>1 DEF AcceptPublisher
  <2>2. ASSUME NEW n \in Name, PublisherAccepted(p, n) PROVE CounterExact(q)'
    BY <2>2 DEF PublisherAccepted
  <2>3. CASE PublisherRejected(p) BY <2>3 DEF PublisherRejected
  <2>4. CASE ReceivePacket(p) BY <2>4 DEF ReceivePacket
  <2>5. CASE ReceiveFails(p) BY <2>5 DEF ReceiveFails
  <2>. QED BY <1>1, <2>1, <2>2, <2>3, <2>4, <2>5 DEF PublisherEvent
<1>2. ASSUME NEW p \in Publisher, PublishStep(p)
      PROVE  CounterExact(q)'
  <2>1. CASE CreateRefused(p) BY <2>1 DEF CreateRefused
  <2>2. CASE CreateStreamData(p)
    <3>1. CASE q # p BY <2>2, <3>1 DEF CreateStreamData
    <3>2. CASE q = p
      <4>1. numSubscribers'[p] = 0 /\ nodes'[p] = {} /\ pc'[p] = "lockList"
        BY <2>2 DEF CreateStreamData
      <4>2. \A s \in Subscriber : ~(pc'[s] = "increment" /\ data'[s] = p)
        BY <2>2 DEF CreateStreamData
      <4>. QED BY <3>2, <4>1, <4>2, FS_EmptySet
        DEF CounterExact, CounterValue, Departing, Joining
    <3>. QED BY <3>1, <3>2
  <2>. QED BY <1>2, <2>1, <2>2 DEF PublishStep
<1>3. ASSUME NEW p \in Publisher, SendStep(p)
      PROVE  CounterExact(q)'
  <2>1. CASE LockSubscribers(p) BY <2>1 DEF LockSubscribers
  <2>2. ASSUME NEW s \in Subscriber, SendSucceeds(p, s) PROVE CounterExact(q)'
    BY <2>2 DEF SendSucceeds
  <2>3. ASSUME NEW s \in Subscriber, SendTolerated(p, s) PROVE CounterExact(q)'
    BY <2>3 DEF SendTolerated
  <2>4. ASSUME NEW s \in Subscriber, SendFails(p, s) PROVE CounterExact(q)'
    <3>1. CASE q # p BY <2>4, <3>1 DEF SendFails
    <3>2. CASE q = p
      <4>1. s \in nodes[p] /\ p \in inMap /\ pc[p] = "send" /\ pc'[p] = "decrement"
        BY <2>4 DEF SendFails, PhaseGood
      <4>2. nodes'[p] = nodes[p] \ {s} /\ numSubscribers'[p] = numSubscribers[p]
        BY <2>4 DEF SendFails
      <4>3. Joining(p)' <=> Joining(p) BY <2>4 DEF SendFails, Joining
      <4>4. CounterExact(p) BY <3>2, <4>1
      <4>. QED BY <3>2, <4>1, <4>2, <4>3, <4>4, NodesFinite, NodeUnlinked
    <3>. QED BY <3>1, <3>2
  <2>5. CASE CountOut(p)
    <3>1. CASE q # p BY <2>5, <3>1 DEF CountOut
    <3>2. CASE q = p
      <4>1. pc[p] = "decrement" /\ pc'[p] = "send" /\ p \in inMap
        BY <2>5 DEF CountOut
      <4>2. nodes'[p] = nodes[p] /\ numSubscribers'[p] = UintDec(numSubscribers[p])
        BY <2>5 DEF CountOut
      <4>3. Joining(p)' <=> Joining(p) BY <2>5 DEF CountOut, Joining
      <4>4. CounterExact(p) BY <3>2, <4>1
      <4>. QED BY <3>2, <4>1, <4>2, <4>3, <4>4, NodesFinite, NodeCountedOut
    <3>. QED BY <3>1, <3>2
  <2>6. CASE UnlockSubscribers(p) BY <2>6 DEF UnlockSubscribers
  <2>. QED BY <1>3, <2>1, <2>2, <2>3, <2>4, <2>5, <2>6 DEF SendStep
<1>4. ASSUME NEW p \in Publisher, RemoveStep(p)
      PROVE  CounterExact(q)'
  <2>1. CASE LockMapToRemove(p) BY <2>1 DEF LockMapToRemove
  <2>2. CASE RemoveName(p) BY <2>2 DEF RemoveName
  <2>3. CASE LockAccessToCleanUp(p) BY <2>3 DEF LockAccessToCleanUp
  <2>4. CASE CloseSubscribers(p)
    <3>1. p \notin inMap /\ inMap' = inMap BY <2>4 DEF CloseSubscribers
    <3>2. numSubscribers' = numSubscribers /\ data' = data
      BY <2>4 DEF CloseSubscribers
    <3>3. \A t \in Thread \ {p} : pc'[t] = pc[t] BY <2>4 DEF CloseSubscribers
    <3>4. \A r \in Publisher \ {p} : nodes'[r] = nodes[r]
      BY <2>4 DEF CloseSubscribers
    <3>5. q \in inMap /\ q \in Publisher /\ q # p BY <3>1
    <3>6. pc'[q] = pc[q] BY <3>3, <3>5
    <3>7. ASSUME NEW s \in Subscriber PROVE pc'[s] = pc[s]
      <4>1. s \in Thread \ {p} BY ThreadAssumption
      <4>. QED BY <3>3, <4>1
    <3>8. nodes'[q] = nodes[q] BY <3>4, <3>5
    <3>9. CountUntouched(q) BY <3>2, <3>5, <3>6, <3>7, <3>8
    <3>. QED BY <3>9
  <2>5. CASE FreeData(p) BY <2>5 DEF FreeData
  <2>. QED BY <1>4, <2>1, <2>2, <2>3, <2>4, <2>5 DEF RemoveStep
<1>5. ASSUME NEW s \in Subscriber, SubscriberEvent(s)
      PROVE  CounterExact(q)'
  <2>1. CASE AcceptSubscriber(s) BY <2>1 DEF AcceptSubscriber, SlotFree
  <2>2. ASSUME NEW n \in Name, SubscriberAccepted(s, n) PROVE CounterExact(q)'
    BY <2>2 DEF SubscriberAccepted
  <2>3. CASE SubscriberRejected(s) BY <2>3 DEF SubscriberRejected
  <2>. QED BY <1>5, <2>1, <2>2, <2>3 DEF SubscriberEvent
<1>6. ASSUME NEW c \in Client, LookupStep(c)
      PROVE  CounterExact(q)'
  <2>1. CASE StreamNotFound(c) BY <2>1 DEF StreamNotFound, Finish, Disconnect
  <2>2. ASSUME NEW p \in Publisher, FindStream(c, p) PROVE CounterExact(q)'
    BY <2>2 DEF FindStream
  <2>3. CASE LockAccess(c) BY <2>3 DEF LockAccess
  <2>. QED BY <1>6, <2>1, <2>2, <2>3 DEF LookupStep
<1>7. ASSUME NEW s \in Subscriber, JoinStep(s)
      PROVE  CounterExact(q)'
  <2>1. CASE RejectSubscriber(s)
    BY <2>1 DEF RejectSubscriber, Finish, Disconnect
  <2>2. CASE AdmitSubscriber(s) BY <2>2 DEF AdmitSubscriber
  <2>3. CASE SetFlagFails(s) BY <2>3 DEF SetFlagFails, Finish, Disconnect
  <2>4. CASE InsertNode(s)
    <3>p. PICK p \in Publisher : p = data[s] BY <2>4 DEF InsertNode
    <3>1. CASE q # p BY <2>4, <3>p, <3>1 DEF InsertNode
    <3>2. CASE q = p
      <4>1. s \notin nodes[p] /\ p \in inMap /\ pc'[p] = pc[p]
        BY <2>4, <3>p DEF InsertNode, NodesGood
      <4>2. nodes'[p] = nodes[p] \cup {s} /\ numSubscribers'[p] = numSubscribers[p]
        BY <2>4, <3>p DEF InsertNode
      <4>3. ~Joining(p) BY <2>4, <3>p, OneJoins DEF InsertNode
      <4>4. Joining(p)' BY <2>4, <3>p DEF InsertNode, Joining
      <4>5. CounterExact(p) BY <3>2, <4>1
      <4>. QED BY <3>p, <3>2, <4>1, <4>2, <4>3, <4>4, <4>5, NodesFinite, NodeLinked
    <3>. QED BY <3>1, <3>2
  <2>5. CASE CountIn(s)
    <3>p. PICK p \in Publisher : p = data[s] BY <2>5 DEF CountIn
    <3>1. CASE q # p BY <2>5, <3>p, <3>1 DEF CountIn
    <3>2. CASE q = p
      <4>1. p \in inMap /\ pc'[p] = pc[p] /\ nodes'[p] = nodes[p]
        BY <2>5, <3>p DEF CountIn
      <4>2. numSubscribers'[p] = UintInc(numSubscribers[p])
        BY <2>5, <3>p DEF CountIn
      <4>3. Joining(p) BY <2>5, <3>p DEF CountIn, Joining
      <4>4. ~Joining(p)' BY <2>5, <3>p DEF CountIn, Joining, AccessLockOwned
      <4>5. CounterExact(p) BY <3>2, <4>1
      <4>. QED BY <3>p, <3>2, <4>1, <4>2, <4>3, <4>4, <4>5, NodesFinite, NodeCountedIn
    <3>. QED BY <3>1, <3>2
  <2>6. CASE UnlockAccess(s) BY <2>6 DEF UnlockAccess, Finish
  <2>. QED BY <1>7, <2>1, <2>2, <2>3, <2>4, <2>5, <2>6 DEF JoinStep
<1>8. ASSUME NEW a \in ApiRequest,
            (\E n \in Name : AcceptApiRequest(a, n)) \/ ReadCount(a)
      PROVE  CounterExact(q)'
  <2>1. ASSUME NEW n \in Name, AcceptApiRequest(a, n) PROVE CounterExact(q)'
    BY <2>1 DEF AcceptApiRequest
  <2>2. CASE ReadCount(a) BY <2>2 DEF ReadCount, Finish
  <2>. QED BY <1>8, <2>1, <2>2
<1>9. CASE UNCHANGED vars BY <1>9 DEF vars
<1>. QED BY <1>1, <1>2, <1>3, <1>4, <1>5, <1>6, <1>7, <1>8, <1>9
  DEF Next, PublisherStep, ClientStep, ClientEvent

(* The check of the limit reserves a place that only its own insertion takes. *)
LEMMA PlaceStep ==
  ASSUME TypeOK, AccessLockOwned, MapContents, PointersGood, CounterGood,
     PlaceKept, [Next]_vars
  PROVE  PlaceKept'
<1>. USE ThreadAssumption DEF TypeOK, PlaceKept, AccessLockOwned, MapContents,
   Published, PointersGood, Holding, PublisherPc, ClientPc, Goto, Thread,
   Client, registryVars, streamVars, loopVars
<1>1. ASSUME NEW p \in Publisher, PublisherEvent(p)
      PROVE  PlaceKept'
  BY <1>1 DEF PublisherEvent, AcceptPublisher, PublisherAccepted,
     PublisherRejected, ReceivePacket, ReceiveFails
<1>2. ASSUME NEW p \in Publisher, PublishStep(p)
      PROVE  PlaceKept'
  <2>1. CASE CreateRefused(p) BY <2>1 DEF CreateRefused
  <2>2. CASE CreateStreamData(p)
    <3>1. \A t \in Subscriber : pc'[t] = "insert" => pc[t] = "insert" /\ data'[t] = data[t]
      BY <2>2 DEF CreateStreamData
    <3>2. \A q \in Publisher \ {p} : nodes'[q] = nodes[q]
      BY <2>2 DEF CreateStreamData
    <3>3. \A t \in Subscriber : pc[t] = "insert" => data[t] \in inMap /\ data[t] # p
      BY <2>2 DEF CreateStreamData
    <3>. QED BY <3>1, <3>2, <3>3
  <2>. QED BY <1>2, <2>1, <2>2 DEF PublishStep
<1>3. ASSUME NEW p \in Publisher, SendStep(p)
      PROVE  PlaceKept'
  <2>1. CASE LockSubscribers(p) BY <2>1 DEF LockSubscribers
  <2>2. ASSUME NEW s \in Subscriber, SendSucceeds(p, s) PROVE PlaceKept'
    BY <2>2 DEF SendSucceeds
  <2>3. ASSUME NEW s \in Subscriber, SendTolerated(p, s) PROVE PlaceKept'
    BY <2>3 DEF SendTolerated
  <2>4. ASSUME NEW s \in Subscriber, SendFails(p, s) PROVE PlaceKept'
    <3>1. \A t \in Subscriber : pc'[t] = "insert" => pc[t] = "insert" /\ data'[t] = data[t]
      BY <2>4 DEF SendFails
    <3>2. \A q \in Publisher \ {p} : nodes'[q] = nodes[q] BY <2>4 DEF SendFails
    <3>3. nodes'[p] \subseteq nodes[p] BY <2>4 DEF SendFails
    <3>4. \A t \in Subscriber : pc[t] = "insert" => data[t] \in Publisher
      OBVIOUS
    <3>5. /\ Cardinality(nodes'[p]) \in Nat /\ Cardinality(nodes[p]) \in Nat
         /\ Cardinality(nodes'[p]) <= Cardinality(nodes[p]) BY <3>3, FewerNodes
    <3>. QED BY <3>1, <3>2, <3>4, <3>5, LimitAssumption
  <2>5. CASE CountOut(p) BY <2>5 DEF CountOut
  <2>6. CASE UnlockSubscribers(p) BY <2>6 DEF UnlockSubscribers
  <2>. QED BY <1>3, <2>1, <2>2, <2>3, <2>4, <2>5, <2>6 DEF SendStep
<1>4. ASSUME NEW p \in Publisher, RemoveStep(p)
      PROVE  PlaceKept'
  <2>1. CASE LockMapToRemove(p) BY <2>1 DEF LockMapToRemove
  <2>2. CASE RemoveName(p) BY <2>2 DEF RemoveName
  <2>3. CASE LockAccessToCleanUp(p) BY <2>3 DEF LockAccessToCleanUp
  <2>4. CASE CloseSubscribers(p) BY <2>4 DEF CloseSubscribers
  <2>5. CASE FreeData(p) BY <2>5 DEF FreeData
  <2>. QED BY <1>4, <2>1, <2>2, <2>3, <2>4, <2>5 DEF RemoveStep
<1>5. ASSUME NEW s \in Subscriber, SubscriberEvent(s)
      PROVE  PlaceKept'
  BY <1>5 DEF SubscriberEvent, AcceptSubscriber, SubscriberAccepted,
     SubscriberRejected, SlotFree
<1>6. ASSUME NEW c \in Client, LookupStep(c)
      PROVE  PlaceKept'
  BY <1>6 DEF LookupStep, StreamNotFound, FindStream, LockAccess, Finish,
     Disconnect
<1>7. ASSUME NEW s \in Subscriber, JoinStep(s)
      PROVE  PlaceKept'
  <2>1. CASE RejectSubscriber(s)
    BY <2>1 DEF RejectSubscriber, Finish, Disconnect
  <2>2. CASE AdmitSubscriber(s)
    <3>1. data[s] \in inMap /\ data[s] \in Publisher BY <2>2 DEF AdmitSubscriber
    <3>2. ~Joining(data[s]) BY <2>2, <3>1, OneJoins DEF AdmitSubscriber
    <3>3. Cardinality(nodes[data[s]]) \in Nat BY <3>1, NodesFinite
    <3>4. MaxSubscribers > 0 => Cardinality(nodes[data[s]]) < MaxSubscribers
      BY <2>2, <3>1, <3>2, <3>3, LimitAssumption
         DEF AdmitSubscriber, MaxSubscribersExceeded, CounterGood, CounterExact,
             CounterValue, Departing
    <3>5. \A t \in Subscriber \ {s} : pc'[t] = pc[t] BY <2>2 DEF AdmitSubscriber
    <3>6. nodes' = nodes /\ data' = data BY <2>2 DEF AdmitSubscriber
    <3>. QED BY <3>4, <3>5, <3>6
  <2>3. CASE SetFlagFails(s) BY <2>3 DEF SetFlagFails, Finish, Disconnect
  <2>4. CASE InsertNode(s) BY <2>4 DEF InsertNode
  <2>5. CASE CountIn(s) BY <2>5 DEF CountIn
  <2>6. CASE UnlockAccess(s) BY <2>6 DEF UnlockAccess, Finish
  <2>. QED BY <1>7, <2>1, <2>2, <2>3, <2>4, <2>5, <2>6 DEF JoinStep
<1>8. ASSUME NEW a \in ApiRequest,
            (\E n \in Name : AcceptApiRequest(a, n)) \/ ReadCount(a)
      PROVE  PlaceKept' BY <1>8 DEF AcceptApiRequest, ReadCount, Finish
<1>9. CASE UNCHANGED vars BY <1>9 DEF vars
<1>. QED BY <1>1, <1>2, <1>3, <1>4, <1>5, <1>6, <1>7, <1>8, <1>9
  DEF Next, PublisherStep, ClientStep, ClientEvent

(* The limit on watchers is never exceeded. *)
LEMMA BoundedStep ==
  ASSUME TypeOK, PointersGood, PlaceKept, SubscribersBounded, [Next]_vars
  PROVE  SubscribersBounded'
<1>. USE ThreadAssumption DEF TypeOK, SubscribersBounded, Goto, Thread,
   Client, registryVars, streamVars, loopVars
<1>1. ASSUME NEW p \in Publisher, PublisherEvent(p)
      PROVE  SubscribersBounded'
  BY <1>1 DEF PublisherEvent, AcceptPublisher, PublisherAccepted,
     PublisherRejected, ReceivePacket, ReceiveFails
<1>2. ASSUME NEW p \in Publisher, PublishStep(p)
      PROVE  SubscribersBounded'
  <2>1. CASE CreateRefused(p) BY <2>1 DEF CreateRefused
  <2>2. CASE CreateStreamData(p)
    <3>1. \A q \in Publisher \ {p} : nodes'[q] = nodes[q]
      BY <2>2 DEF CreateStreamData
    <3>2. Cardinality(nodes'[p]) = 0 BY <2>2, FS_EmptySet DEF CreateStreamData
    <3>. QED BY <3>1, <3>2, LimitAssumption
  <2>. QED BY <1>2, <2>1, <2>2 DEF PublishStep
<1>3. ASSUME NEW p \in Publisher, SendStep(p)
      PROVE  SubscribersBounded'
  <2>1. CASE LockSubscribers(p) BY <2>1 DEF LockSubscribers
  <2>2. ASSUME NEW s \in Subscriber, SendSucceeds(p, s) PROVE SubscribersBounded'
    BY <2>2 DEF SendSucceeds
  <2>3. ASSUME NEW s \in Subscriber, SendTolerated(p, s) PROVE SubscribersBounded'
    BY <2>3 DEF SendTolerated
  <2>4. ASSUME NEW s \in Subscriber, SendFails(p, s) PROVE SubscribersBounded'
    <3>1. nodes'[p] \subseteq nodes[p] BY <2>4 DEF SendFails
    <3>2. \A q \in Publisher \ {p} : nodes'[q] = nodes[q] BY <2>4 DEF SendFails
    <3>3. /\ Cardinality(nodes'[p]) \in Nat /\ Cardinality(nodes[p]) \in Nat
         /\ Cardinality(nodes'[p]) <= Cardinality(nodes[p]) BY <3>1, FewerNodes
    <3>. QED BY <3>2, <3>3, LimitAssumption
  <2>5. CASE CountOut(p) BY <2>5 DEF CountOut
  <2>6. CASE UnlockSubscribers(p) BY <2>6 DEF UnlockSubscribers
  <2>. QED BY <1>3, <2>1, <2>2, <2>3, <2>4, <2>5, <2>6 DEF SendStep
<1>4. ASSUME NEW p \in Publisher, RemoveStep(p)
      PROVE  SubscribersBounded'
  <2>1. CASE LockMapToRemove(p) BY <2>1 DEF LockMapToRemove
  <2>2. CASE RemoveName(p) BY <2>2 DEF RemoveName
  <2>3. CASE LockAccessToCleanUp(p) BY <2>3 DEF LockAccessToCleanUp
  <2>4. CASE CloseSubscribers(p)
    <3>1. nodes'[p] \subseteq nodes[p] BY <2>4 DEF CloseSubscribers
    <3>2. \A q \in Publisher \ {p} : nodes'[q] = nodes[q]
      BY <2>4 DEF CloseSubscribers
    <3>3. /\ Cardinality(nodes'[p]) \in Nat /\ Cardinality(nodes[p]) \in Nat
         /\ Cardinality(nodes'[p]) <= Cardinality(nodes[p]) BY <3>1, FewerNodes
    <3>. QED BY <3>2, <3>3, LimitAssumption
  <2>5. CASE FreeData(p) BY <2>5 DEF FreeData
  <2>. QED BY <1>4, <2>1, <2>2, <2>3, <2>4, <2>5 DEF RemoveStep
<1>5. ASSUME NEW s \in Subscriber, SubscriberEvent(s)
      PROVE  SubscribersBounded'
  BY <1>5 DEF SubscriberEvent, AcceptSubscriber, SubscriberAccepted,
     SubscriberRejected, SlotFree
<1>6. ASSUME NEW c \in Client, LookupStep(c)
      PROVE  SubscribersBounded'
  BY <1>6 DEF LookupStep, StreamNotFound, FindStream, LockAccess, Finish,
     Disconnect
<1>7. ASSUME NEW s \in Subscriber, JoinStep(s)
      PROVE  SubscribersBounded'
  <2>1. CASE RejectSubscriber(s)
    BY <2>1 DEF RejectSubscriber, Finish, Disconnect
  <2>2. CASE AdmitSubscriber(s) BY <2>2 DEF AdmitSubscriber
  <2>3. CASE SetFlagFails(s) BY <2>3 DEF SetFlagFails, Finish, Disconnect
  <2>4. CASE InsertNode(s)
    <3>1. data[s] \in Publisher BY <2>4 DEF InsertNode, PointersGood, Holding
    <3>2. nodes'[data[s]] = nodes[data[s]] \cup {s} BY <2>4, <3>1 DEF InsertNode
    <3>3. \A q \in Publisher \ {data[s]} : nodes'[q] = nodes[q]
      BY <2>4, <3>1 DEF InsertNode
    <3>4. MaxSubscribers > 0 => Cardinality(nodes[data[s]]) < MaxSubscribers
      BY <2>4 DEF InsertNode, PlaceKept
    <3>5. /\ Cardinality(nodes'[data[s]]) \in Nat /\ Cardinality(nodes[data[s]]) \in Nat
         /\ Cardinality(nodes'[data[s]]) <= Cardinality(nodes[data[s]]) + 1
      BY <3>1, <3>2, OneMoreNode
    <3>. QED BY <3>3, <3>4, <3>5, LimitAssumption
  <2>5. CASE CountIn(s) BY <2>5 DEF CountIn
  <2>6. CASE UnlockAccess(s) BY <2>6 DEF UnlockAccess, Finish
  <2>. QED BY <1>7, <2>1, <2>2, <2>3, <2>4, <2>5, <2>6 DEF JoinStep
<1>8. ASSUME NEW a \in ApiRequest,
            (\E n \in Name : AcceptApiRequest(a, n)) \/ ReadCount(a)
      PROVE  SubscribersBounded' BY <1>8 DEF AcceptApiRequest, ReadCount, Finish
<1>9. CASE UNCHANGED vars BY <1>9 DEF vars
<1>. QED BY <1>1, <1>2, <1>3, <1>4, <1>5, <1>6, <1>7, <1>8, <1>9
  DEF Next, PublisherStep, ClientStep, ClientEvent

(* Every counter stays exact. *)
LEMMA CounterStep ==
  ASSUME TypeOK, AccessLockOwned, MapContents, PointersGood, PhaseGood,
         NodesGood, CounterGood, [Next]_vars, TypeOK'
  PROVE  CounterGood'
<1>. SUFFICES ASSUME NEW q \in inMap' PROVE CounterExact(q)'
  BY DEF CounterGood
<1>1. q \in Publisher
  BY DEF TypeOK
<1>2. q \in inMap => CounterExact(q)
  BY DEF CounterGood
<1>3. CASE CountUntouched(q)
  BY <1>1, <1>2, <1>3, CounterFrame DEF CountUntouched
<1>4. CASE ~CountUntouched(q)
  BY <1>2, <1>4, CounterExactStep
<1>. QED BY <1>3, <1>4

(* The empty map satisfies the invariant ... *)
LEMMA InvInit == Init => IInv
<1>. SUFFICES ASSUME Init PROVE IInv
  OBVIOUS
<1>1. TypeOK
  BY TypeInit
<1>2. MapLockOwned /\ AccessLockOwned /\ ListLockOwned
  BY ThreadAssumption
  DEF Init, MapLockOwned, AccessLockOwned, ListLockOwned, Holding, Thread, Client
<1>3. MapContents /\ PointersGood
  BY DEF Init, MapContents, NamesUnique, PointersGood, Published, Holding, Thread,
         Client
<1>4. PhaseGood /\ NodesGood /\ ClosedOnce
  BY DEF Init, PhaseGood, NodesGood, ClosedOnce, Thread, Client
<1>5. CounterGood /\ PlaceKept
  BY DEF Init, CounterGood, PlaceKept, Thread, Client
<1>6. PublishersCounted
  BY FS_EmptySet, LimitAssumption DEF Init, PublishersCounted
<1>7. SubscribersBounded
  BY FS_EmptySet, LimitAssumption DEF Init, SubscribersBounded
<1>. QED BY <1>1, <1>2, <1>3, <1>4, <1>5, <1>6, <1>7 DEF IInv

(* ... and every step of every thread preserves it. *)
LEMMA InvStep == IInv /\ [Next]_vars => IInv'
<1>. SUFFICES ASSUME IInv, [Next]_vars PROVE IInv'
  OBVIOUS
<1>. USE DEF IInv
<1>1. TypeOK'
  BY TypeStep
<1>2. MapLockOwned' /\ AccessLockOwned' /\ ListLockOwned'
  BY MapLockStep, AccessLockStep, ListLockStep
<1>3. MapContents' /\ PublishersCounted' /\ PointersGood'
  BY MapContentsStep, CountedStep, PointersStep
<1>4. PhaseGood' /\ NodesGood' /\ ClosedOnce'
  BY PhaseStep, NodesStep, ClosedOnceStep
<1>5. CounterGood' /\ PlaceKept' /\ SubscribersBounded'
  BY <1>1, CounterStep, PlaceStep, BoundedStep
<1>. QED BY <1>1, <1>2, <1>3, <1>4, <1>5

(* The invariant holds in every state of the program. *)
THEOREM Invariance == Spec => []IInv
BY InvInit, InvStep, PTL DEF Spec

(* Types are kept, and the counters stay within an unsigned int. *)
THEOREM TypeCorrect == Spec => []TypeOK
<1>1. IInv => TypeOK
  BY DEF IInv
<1>. QED BY Invariance, <1>1, PTL

(* A client never uses the memory of a stream that was freed, nor of another *)
(* stream than the one it asked for: get_stream_from_map keeps its promise.  *)
THEOREM NoUseAfterFreeHolds == Spec => []NoUseAfterFree
<1>1. IInv => NoUseAfterFree
  BY DEF IInv, NoUseAfterFree, PointersGood, MapContents, TypeOK, Published, Allocated
<1>. QED BY Invariance, <1>1, PTL

(* remove_stream_from_map destroys locks that nobody holds or waits for. *)
THEOREM QuietWhenDestroyedHolds == Spec => []QuietWhenDestroyed
<1>1. ASSUME IInv, NEW p \in Publisher, pc[p] = "destroy"
      PROVE  /\ p \notin inMap
             /\ accessLock[p] = None
             /\ \A k \in Kind : listLock[k][p] = None
             /\ nodes[p] = {}
             /\ \A c \in Client : data[c] # p
  <2>1. p \notin inMap
    BY <1>1 DEF IInv, MapContents, Published
  <2>2. \A c \in Client : data[c] # p
    BY <1>1, <2>1, ThreadAssumption DEF IInv, PointersGood, Thread
  <2>3. accessLock[p] = None
    BY <1>1, <2>2, ThreadAssumption DEF IInv, TypeOK, AccessLockOwned, LockOwner
  <2>4. \A k \in Kind : listLock[k][p] = None
    BY <1>1 DEF IInv, ListLockOwned
  <2>5. nodes[p] = {}
    BY <1>1 DEF IInv, NodesGood
  <2>. QED BY <2>1, <2>2, <2>3, <2>4, <2>5
<1>2. IInv => QuietWhenDestroyed
  BY <1>1 DEF QuietWhenDestroyed
<1>. QED BY Invariance, <1>2, PTL

(* Two published streams never have the same name. *)
THEOREM NamesUniqueHolds == Spec => []NamesUnique
<1>1. IInv => NamesUnique
  BY DEF IInv, MapContents
<1>. QED BY Invariance, <1>1, PTL

(* num_publishers is exact under map_lock, and --max-streams is kept. *)
THEOREM PublishersCountedHolds == Spec => []PublishersCounted
<1>1. IInv => PublishersCounted
  BY DEF IInv
<1>. QED BY Invariance, <1>1, PTL

(* --max-subscribers is kept, although check, insertion and count are separate *)
(* critical sections and the counter is off in between.                        *)
THEOREM SubscribersBoundedHolds == Spec => []SubscribersBounded
<1>1. IInv => SubscribersBounded
  BY DEF IInv
<1>. QED BY Invariance, <1>1, PTL

(* Whoever reads num_subscribers under access_lock reads the number of nodes, *)
(* or one more while the publisher is dropping one: never a wrapped value.    *)
THEOREM CountReadIsExactHolds == Spec => []CountReadIsExact
<1>1. ASSUME IInv, NEW c \in Client, pc[c] \in {"checkMax", "readCount"}
      PROVE  numSubscribers[data[c]]
               = Cardinality(nodes[data[c]]) + Departing(data[c])
  <2>1. PICK p \in inMap : p = data[c]
    BY <1>1 DEF IInv, PointersGood, Holding
  <2>2. p \in Publisher
    BY <1>1 DEF IInv, TypeOK
  <2>3. ~Joining(p)
    BY <1>1, <2>1, <2>2
    DEF IInv, AccessLockOwned, Joining, Holding, Thread, Client
  <2>4. Cardinality(nodes[p]) \in Nat
    BY <1>1, <2>2, NodesFinite DEF IInv
  <2>5. CounterExact(p)
    BY <1>1 DEF IInv, CounterGood
  <2>. QED BY <2>1, <2>3, <2>4, <2>5 DEF CounterExact, CounterValue, Departing
<1>2. IInv => CountReadIsExact
  BY <1>1 DEF CountReadIsExact
<1>. QED BY Invariance, <1>2, PTL

(* No connection is closed twice, lost, or in two lists. *)
THEOREM ConnectionsAccountedForHolds == Spec => []ConnectionsAccountedFor
<1>1. ASSUME IInv, NEW s \in Subscriber
      PROVE  /\ closes[s] <= 1
             /\ closes[s] = 1 => \A p \in Publisher : s \notin nodes[p]
             /\ pc[s] = "ended" /\ closes[s] = 0 =>
                  \E p \in Publisher :
                    /\ s \in nodes[p]
                    /\ Allocated(p)
                    /\ \A q \in Publisher \ {p} : s \notin nodes[q]
  <2>1. closes[s] \in {0, 1}
    BY <1>1 DEF IInv, ClosedOnce
  <2>2. \A p \in Publisher : s \in nodes[p] => closes[s] = 0 /\ Allocated(p)
    BY <1>1 DEF IInv, NodesGood, Allocated
  <2>3. pc[s] = "ended" /\ closes[s] = 0 => \E p \in Publisher : s \in nodes[p]
    BY <1>1 DEF IInv, ClosedOnce
  <2>. QED BY <1>1, <2>1, <2>2, <2>3 DEF IInv, NodesGood
<1>2. IInv => ConnectionsAccountedFor
  BY <1>1 DEF ConnectionsAccountedFor
<1>. QED BY Invariance, <1>2, PTL

(* The order in which locks are taken: the level of the lock that a thread is *)
(* at, map_lock first, then access_lock, then a list's, then none any more.   *)
Level(t) ==
  CASE pc[t] \in {"create", "lockMap", "lookup"} -> 1
    [] pc[t] \in {"unlink", "lockAccess"} -> 2
    [] pc[t] \in {"lockList", "cleanUp", "insert"} -> 3
    [] OTHER -> 4

(* Who owns a lock is past it: he waits for a later one, or for none. *)
LEMMA OwnersAreLater ==
  ASSUME IInv, NEW t \in Thread, NEW u \in Thread, WaitsFor(t, u)
  PROVE  Level(t) < Level(u)
<1>1. CASE pc[t] \in {"create", "lockMap", "lookup"} /\ mapLock = u
  <2>1. pc[u] \in {"lockAccess", "unlink"}
    BY <1>1 DEF IInv, MapLockOwned
  <2>. QED
    BY <1>1, <2>1 DEF Level
<1>2. ASSUME NEW p \in Publisher, accessLock[p] = u, pc[t] \in {"unlink", "lockAccess"}
      PROVE  Level(t) < Level(u)
  <2>1. pc[u] \in Holding \cup {"cleanUp"}
    BY <1>2 DEF IInv, AccessLockOwned
  <2>. QED
    BY <1>2, <2>1 DEF Level, Holding
<1>3. ASSUME NEW k \in Kind, NEW p \in Publisher, listLock[k][p] = u,
             pc[t] \in {"lockList", "cleanUp", "insert"}
      PROVE  Level(t) < Level(u)
  <2>1. u # None
    BY ThreadAssumption
  <2>2. u = p /\ pc[p] \in {"send", "decrement"}
    BY <1>3, <2>1 DEF IInv, ListLockOwned
  <2>. QED
    BY <1>3, <2>2 DEF Level
<1>4. \A n : NodesWithName(n) \subseteq Publisher
  BY DEF IInv, TypeOK, NodesWithName
<1>5. t \in Client /\ pc[t] \in {"lockAccess", "insert"} => data[t] \in Publisher
  BY DEF IInv, TypeOK, PointersGood, Holding
<1>6. (t \in Publisher => phase[t] \in Kind) /\ KindOf(t) \in Kind
  BY DEF IInv, TypeOK, KindOf, Kind
<1>7. t \in Subscriber => t \in Client
  BY DEF Client
<1>. QED
  BY <1>1, <1>2, <1>3, <1>4, <1>5, <1>6, <1>7 DEF WaitsFor

(* The locks of the registry are taken in an order: no circle of threads that *)
(* wait for each other is possible, whatever their number.                    *)
THEOREM NoCircularWaitHolds == Spec => []NoCircularWait
<1>1. ASSUME IInv, NEW S \in (SUBSET Thread) \ {{}}
      PROVE  \E t \in S : \A u \in S : ~WaitsFor(t, u)
  <2>1. \A t \in S : Level(t) \in 1 .. 4
    BY DEF Level
  <2>2. PICK t \in S : \A u \in S : Level(u) <= Level(t)
    <3>1. CASE \E t \in S : Level(t) = 4
      BY <2>1, <3>1
    <3>2. CASE (\A t \in S : Level(t) < 4) /\ \E t \in S : Level(t) = 3
      BY <2>1, <3>2
    <3>3. CASE (\A t \in S : Level(t) < 3) /\ \E t \in S : Level(t) = 2
      BY <2>1, <3>3
    <3>4. CASE \A t \in S : Level(t) < 2
      <4>1. PICK t \in S : TRUE
        BY <1>1
      <4>2. \A u \in S : Level(u) = 1
        BY <2>1, <3>4
      <4>. QED
        BY <4>1, <4>2
    <3>. QED
      BY <2>1, <3>1, <3>2, <3>3, <3>4
  <2>3. ASSUME NEW u \in S PROVE ~WaitsFor(t, u)
    <3>1. Level(u) <= Level(t) /\ Level(t) \in Int /\ Level(u) \in Int
      BY <2>1, <2>2
    <3>. QED
      BY <1>1, <3>1, OwnersAreLater
  <2>. QED
    BY <2>3
<1>2. IInv => NoCircularWait
  BY <1>1 DEF NoCircularWait
<1>. QED BY Invariance, <1>2, PTL
-----------------------------------------------------------------------------
(***************************************************************************)
(* PublishedStream implements StreamDirectory: what callers see of the     *)
(* registry changes in single steps, whatever its locks do.                *)
(***************************************************************************)

(* A step that callers cannot see, and the actions that they can. *)
DirectoryUntouched ==
  inMap' = inMap /\ nodes' = nodes /\ \A p \in inMap : name'[p] = name[p]

DirectoryStep ==
  \/ \E p \in Publisher :
       \/ CreateStreamData(p) \/ RemoveName(p) \/ CloseSubscribers(p)
       \/ \E s \in Subscriber : SendFails(p, s)
  \/ \E s \in Subscriber : InsertNode(s)

(* Every other step is invisible to callers. *)
LEMMA StepsVisible ==
  ASSUME TypeOK, MapContents, PointersGood, [Next]_vars
  PROVE  DirectoryUntouched \/ DirectoryStep
<1>. USE ThreadAssumption DEF TypeOK, MapContents, Published,
   DirectoryUntouched, Goto, Thread, Client, registryVars, streamVars,
   loopVars
<1>1. ASSUME NEW p \in Publisher, PublisherEvent(p)
      PROVE  DirectoryUntouched \/ DirectoryStep
  BY <1>1 DEF PublisherEvent, AcceptPublisher, PublisherAccepted,
     PublisherRejected, ReceivePacket, ReceiveFails
<1>2. ASSUME NEW p \in Publisher, PublishStep(p)
      PROVE  DirectoryUntouched \/ DirectoryStep
  <2>1. CASE CreateRefused(p) BY <2>1 DEF CreateRefused
  <2>2. CASE CreateStreamData(p) BY <2>2 DEF CreateStreamData, DirectoryStep
  <2>. QED BY <1>2, <2>1, <2>2 DEF PublishStep
<1>3. ASSUME NEW p \in Publisher, SendStep(p)
      PROVE  DirectoryUntouched \/ DirectoryStep
  <2>1. CASE LockSubscribers(p) BY <2>1 DEF LockSubscribers
  <2>2. ASSUME NEW s \in Subscriber, SendSucceeds(p, s) PROVE DirectoryUntouched \/ DirectoryStep
    BY <2>2 DEF SendSucceeds
  <2>3. ASSUME NEW s \in Subscriber, SendTolerated(p, s) PROVE DirectoryUntouched \/ DirectoryStep
    BY <2>3 DEF SendTolerated
  <2>4. ASSUME NEW s \in Subscriber, SendFails(p, s) PROVE DirectoryUntouched \/ DirectoryStep
    BY <2>4 DEF SendFails, DirectoryStep
  <2>5. CASE CountOut(p) BY <2>5 DEF CountOut
  <2>6. CASE UnlockSubscribers(p) BY <2>6 DEF UnlockSubscribers
  <2>. QED BY <1>3, <2>1, <2>2, <2>3, <2>4, <2>5, <2>6 DEF SendStep
<1>4. ASSUME NEW p \in Publisher, RemoveStep(p)
      PROVE  DirectoryUntouched \/ DirectoryStep
  <2>1. CASE LockMapToRemove(p) BY <2>1 DEF LockMapToRemove
  <2>2. CASE RemoveName(p) BY <2>2 DEF RemoveName, DirectoryStep
  <2>3. CASE LockAccessToCleanUp(p) BY <2>3 DEF LockAccessToCleanUp
  <2>4. CASE CloseSubscribers(p) BY <2>4 DEF CloseSubscribers, DirectoryStep
  <2>5. CASE FreeData(p) BY <2>5 DEF FreeData
  <2>. QED BY <1>4, <2>1, <2>2, <2>3, <2>4, <2>5 DEF RemoveStep
<1>5. ASSUME NEW s \in Subscriber, SubscriberEvent(s)
      PROVE  DirectoryUntouched \/ DirectoryStep
  BY <1>5 DEF SubscriberEvent, AcceptSubscriber, SubscriberAccepted,
     SubscriberRejected, SlotFree
<1>6. ASSUME NEW c \in Client, LookupStep(c)
      PROVE  DirectoryUntouched \/ DirectoryStep
  BY <1>6 DEF LookupStep, StreamNotFound, FindStream, LockAccess, Finish,
     Disconnect
<1>7. ASSUME NEW s \in Subscriber, JoinStep(s)
      PROVE  DirectoryUntouched \/ DirectoryStep
  <2>1. CASE RejectSubscriber(s)
    BY <2>1 DEF RejectSubscriber, Finish, Disconnect
  <2>2. CASE AdmitSubscriber(s) BY <2>2 DEF AdmitSubscriber
  <2>3. CASE SetFlagFails(s) BY <2>3 DEF SetFlagFails, Finish, Disconnect
  <2>4. CASE InsertNode(s) BY <2>4 DEF InsertNode, DirectoryStep
  <2>5. CASE CountIn(s) BY <2>5 DEF CountIn
  <2>6. CASE UnlockAccess(s) BY <2>6 DEF UnlockAccess, Finish
  <2>. QED BY <1>7, <2>1, <2>2, <2>3, <2>4, <2>5, <2>6 DEF JoinStep
<1>8. ASSUME NEW a \in ApiRequest,
            (\E n \in Name : AcceptApiRequest(a, n)) \/ ReadCount(a)
      PROVE  DirectoryUntouched \/ DirectoryStep
  BY <1>8 DEF AcceptApiRequest, ReadCount, Finish
<1>9. CASE UNCHANGED vars BY <1>9 DEF vars
<1>. QED BY <1>1, <1>2, <1>3, <1>4, <1>5, <1>6, <1>7, <1>8, <1>9
  DEF Next, PublisherStep, ClientStep, ClientEvent

(* The name of a stream that is neither published nor withdrawn stays. *)
LEMMA TitleFrame ==
  ASSUME TypeOK, inMap' = inMap, \A p \in inMap : name'[p] = name[p]
  PROVE  Title' = Title
BY DEF Title, TypeOK

(* The instance's Cardinality is the library's. *)
LEMMA DirectoryCardinality ==
  ASSUME NEW S PROVE Directory!Cardinality(S) = Cardinality(S)
BY DEF Directory!Cardinality, Cardinality

(* create_stream_data_in_map is a publication, ... *)
LEMMA PublishMapped ==
  ASSUME IInv, NEW p \in Publisher, CreateStreamData(p)
  PROVE  name[p] \in Name /\ Directory!Publish(p, name[p])
<1>. USE ThreadAssumption DEF IInv, TypeOK, Goto, Thread, Client
<1>1. p \notin inMap /\ nodes[p] = {} /\ name[p] \in Name
  BY DEF CreateStreamData, MapContents, Published, NodesGood
<1>2. inMap' = inMap \cup {p} /\ name' = name /\ nodes' = nodes
  <2>1. nodes' = [nodes EXCEPT ![p] = {}]
    BY DEF CreateStreamData
  <2>2. nodes' = nodes
    BY <1>1, <2>1
  <2>. QED BY <2>2 DEF CreateStreamData
<1>3. \A q \in inMap : Title[q] # name[p]
  BY DEF CreateStreamData, NodesWithName, Title
<1>4. MaxPublishers > 0 => Cardinality(inMap) < MaxPublishers
  <2>1. Cardinality(inMap) \in Nat
    BY FS_Subset, FS_CardinalityType
  <2>. QED
    BY <2>1, LimitAssumption
    DEF CreateStreamData, MaxPublishersExceeded, PublishersCounted
<1>5. Title' = [Title EXCEPT ![p] = name[p]]
  BY <1>1, <1>2 DEF Title
<1>. QED 
  BY <1>1, <1>2, <1>3, <1>4, <1>5, DirectoryCardinality DEF Directory!Publish

(* ... remove_name_from_map is the end of one, ... *)
LEMMA UnpublishMapped ==
  ASSUME IInv, NEW p \in Publisher, RemoveName(p)
  PROVE  Directory!Unpublish(p)
<1>. USE ThreadAssumption DEF IInv, TypeOK, Goto, Thread, Client
<1>1. p \in inMap /\ NodesWithName(name[p]) = {p}
  BY DEF RemoveName, MapContents, NamesUnique, Published, NodesWithName
<1>2. inMap' = inMap \ {p} /\ name' = name /\ nodes' = nodes
  BY <1>1 DEF RemoveName, streamVars
<1>3. Title' = [Title EXCEPT ![p] = None]
  BY <1>1, <1>2 DEF Title
<1>. QED BY <1>1, <1>2, <1>3 DEF Directory!Unpublish

(* ... dropping a subscriber is a departure, ... *)
LEMMA SendFailsMapped ==
  ASSUME IInv, NEW p \in Publisher, NEW s \in Subscriber, SendFails(p, s)
  PROVE  Directory!Leave(p, {s})
<1>1. s \in nodes[p] /\ nodes' = [nodes EXCEPT ![p] = @ \ {s}]
  BY DEF SendFails, IInv, PhaseGood
<1>2. inMap' = inMap /\ name' = name
  BY DEF SendFails, registryVars
<1>3. Title' = Title
  BY <1>2, TitleFrame DEF IInv
<1>. QED BY <1>1, <1>2, <1>3 DEF Directory!Leave

(* ... so is closing a whole list, unless it is empty, ... *)
LEMMA CloseSubscribersMapped ==
  ASSUME IInv, NEW p \in Publisher, CloseSubscribers(p)
  PROVE  \/ \E S \in SUBSET Subscriber : Directory!Leave(p, S)
         \/ UNCHANGED Directory!directoryVars
<1>. DEFINE S == nodes[p] \cap OfKind(phase[p])
<1>1. nodes' = [nodes EXCEPT ![p] = @ \ S] /\ S \subseteq nodes[p]
  <2>1. nodes[p] \ OfKind(phase[p]) = nodes[p] \ S
    OBVIOUS
  <2>. QED BY <2>1 DEF CloseSubscribers
<1>2. S \in SUBSET Subscriber
  BY <1>1 DEF IInv, TypeOK
<1>3. inMap' = inMap /\ \A q \in inMap : name'[q] = name[q]
  <2>1. inMap' = inMap
    BY DEF CloseSubscribers, registryVars
  <2>2. p \notin inMap
    BY DEF CloseSubscribers, IInv, MapContents, Published
  <2>3. name' = name \/ name' = [name EXCEPT ![p] = None]
    BY DEF CloseSubscribers
  <2>4. \A q \in Thread \ {p} : name'[q] = name[q]
    BY <2>3 DEF IInv, TypeOK
  <2>. QED BY <2>1, <2>2, <2>4 DEF IInv, TypeOK, Thread
<1>4. Title' = Title
  BY <1>3, TitleFrame DEF IInv
<1>5. CASE S = {}
  <2>1. nodes' = nodes
    BY <1>1, <1>5 DEF IInv, TypeOK
  <2>. QED BY <2>1, <1>3, <1>4 DEF Directory!directoryVars
<1>6. CASE S # {}
  <2>. HIDE DEF S
  <2>1. Directory!Leave(p, S)
    BY <1>1, <1>3, <1>4, <1>6 DEF Directory!Leave
  <2>. QED BY <1>2, <2>1
<1>. QED BY <1>5, <1>6

(* ... and inserting a node is a subscriber joining. *)
LEMMA JoinMapped ==
  ASSUME IInv, NEW s \in Subscriber, InsertNode(s)
  PROVE  \E p \in Publisher : Directory!Join(s, p)
<1>1. PICK p \in inMap : p = data[s]
  BY DEF InsertNode, IInv, PointersGood, Holding, Client
<1>2. p \in Publisher
  BY DEF IInv, TypeOK
<1>3. \A q \in Publisher : s \notin nodes[q]
  BY DEF InsertNode, IInv, NodesGood
<1>4. MaxSubscribers > 0 => Cardinality(nodes[p]) < MaxSubscribers
  BY <1>1 DEF InsertNode, IInv, PlaceKept
<1>5. nodes' = [nodes EXCEPT ![p] = @ \cup {s}]
  BY <1>1 DEF InsertNode
<1>6. inMap' = inMap /\ name' = name
  BY DEF InsertNode, registryVars
<1>7. Title' = Title
  BY <1>6, TitleFrame DEF IInv
<1>. QED 
  BY <1>1, <1>2, <1>3, <1>4, <1>5, <1>6, <1>7, DirectoryCardinality
  DEF Directory!Join

(* Every step of the registry is a step of the directory, or none. *)
LEMMA StepMapped ==
  ASSUME IInv, [Next]_vars
  PROVE  [Directory!Next]_(Directory!directoryVars)
<1>1. CASE DirectoryUntouched
  <2>1. Title' = Title
    BY <1>1, TitleFrame DEF IInv, DirectoryUntouched
  <2>. QED BY <1>1, <2>1 DEF DirectoryUntouched, Directory!directoryVars
<1>2. ASSUME NEW p \in Publisher, CreateStreamData(p)
      PROVE  Directory!Next
  BY <1>2, PublishMapped DEF Directory!Next
<1>3. ASSUME NEW p \in Publisher, RemoveName(p)
      PROVE  Directory!Next
  BY <1>3, UnpublishMapped DEF Directory!Next
<1>4. ASSUME NEW p \in Publisher, NEW s \in Subscriber, SendFails(p, s)
      PROVE  Directory!Next
  <2>1. Directory!Leave(p, {s}) /\ {s} \in SUBSET Subscriber
    BY <1>4, SendFailsMapped
  <2>. QED BY <2>1 DEF Directory!Next
<1>5. ASSUME NEW p \in Publisher, CloseSubscribers(p)
      PROVE  [Directory!Next]_(Directory!directoryVars)
  BY <1>5, CloseSubscribersMapped DEF Directory!Next
<1>6. ASSUME NEW s \in Subscriber, InsertNode(s)
      PROVE  Directory!Next
  BY <1>6, JoinMapped DEF Directory!Next
<1>7. DirectoryUntouched \/ DirectoryStep
  BY StepsVisible DEF IInv
<1>. QED BY <1>1, <1>2, <1>3, <1>4, <1>5, <1>6, <1>7 DEF DirectoryStep

(* The registry implements the directory. *)
THEOREM Refinement == Spec => ImplementsDirectory
<1>1. Init => Directory!Init
  BY DEF Init, Directory!Init, Title
<1>2. IInv /\ [Next]_vars => [Directory!Next]_(Directory!directoryVars)
  BY StepMapped
<1>. QED BY Invariance, <1>1, <1>2, PTL DEF Spec, ImplementsDirectory, Directory!Spec
=============================================================================
