--------------------------- MODULE PublishedStream ---------------------------
(***************************************************************************)
(* The registry of published streams (published_stream.c) and the threads  *)
(* that work on it: one per publisher (srt_publisher.c), one per new SRT   *)
(* or HTTP subscriber, and one per /api/stream/NAME request.  Every lock   *)
(* that is held across a point where another thread can be waited for is a *)
(* variable; a critical section that takes no other lock is one step.      *)
(*                                                                         *)
(* Threads are slots: a slot whose connection is over serves a later one.  *)
(* The published_stream_data of a stream is named by its publisher's slot, *)
(* so that memory freed by one stream is the memory of a later one.        *)
(***************************************************************************)
EXTENDS Integers, FiniteSets

CONSTANTS
  Publisher,        \* publisher connections
  SrtSubscriber,    \* SRT connections that ask to watch a stream
  WebSubscriber,    \* HTTP connections that ask to watch a stream
  ApiRequest,       \* HTTP connections that ask for a viewer count
  Name,             \* stream names
  MaxPublishers,    \* max_publishers, 0 for no limit
  MaxSubscribers,   \* max_subscribers_per_publisher, 0 for no limit
  MaxWebSendFails,  \* MAX_WEB_SEND_FAILS
  UintSize,         \* number of values of an unsigned int, 2^32
  None              \* NULL, and the owner of a free lock

Subscriber == SrtSubscriber \cup WebSubscriber
Client == Subscriber \cup ApiRequest
Thread == Publisher \cup Client
Kind == {"srt", "web"}

ASSUME ThreadAssumption ==
  /\ IsFiniteSet(Publisher) /\ IsFiniteSet(Subscriber)
  /\ SrtSubscriber \cap WebSubscriber = {}
  /\ Publisher \cap Client = {}
  /\ Subscriber \cap ApiRequest = {}
  /\ None \notin Thread \cup Name

ASSUME LimitAssumption ==
  /\ MaxPublishers \in Nat /\ MaxSubscribers \in Nat /\ MaxWebSendFails \in Nat
  /\ UintSize \in Nat
  /\ Cardinality(Publisher) + 1 < UintSize
  /\ Cardinality(Subscriber) + 1 < UintSize

VARIABLES
  pc,            \* where each thread is
  name,          \* the stream name each thread works with
  data,          \* the published_stream_data * a client got from the map
  inMap,         \* the streams that have a node in a bucket
  numPublishers, \* map->num_publishers
  mapLock,       \* owner of map->map_lock
  accessLock,    \* owner of each stream's access_lock
  listLock,      \* owner of srt_subscribers_lock and web_subscribers_lock
  nodes,         \* the subscriber nodes in a stream's two lists
  numSubscribers,\* num_subscribers of each stream
  phase,         \* which list the publisher sends to
  todo,          \* the nodes the publisher has still to visit in this pass
  numFails,      \* num_fails of each web subscriber's node
  closes         \* how often the connection of each subscriber was closed

registryVars == <<inMap, numPublishers, mapLock>>
streamVars == <<accessLock, listLock, nodes, numSubscribers>>
loopVars == <<phase, todo, numFails>>
vars == <<pc, name, data, registryVars, streamVars, loopVars, closes>>

PublisherPc == {"idle", "auth", "create", "lockList", "send", "decrement",
                "recv", "lockMap", "unlink", "lockAccess", "cleanUp", "destroy"}
ClientPc == {"idle", "auth", "lookup", "lockAccess", "checkMax", "insert",
             "increment", "unlock", "readCount", "ended"}
-----------------------------------------------------------------------------
(* unsigned int arithmetic wraps around. *)
UintInc(n) == IF n = UintSize - 1 THEN 0 ELSE n + 1

UintDec(n) == IF n = 0 THEN UintSize - 1 ELSE n - 1

KindOf(s) == IF s \in SrtSubscriber THEN "srt" ELSE "web"
OfKind(k) == IF k = "srt" THEN SrtSubscriber ELSE WebSubscriber

(* get_node_with_name: the nodes of the bucket of n whose name is n. *)
NodesWithName(n) == {p \in inMap : name[p] = n}

(* Mutant of MaxPublishersExceeded: one more than the limit. *)
MaxPublishersPassed == MaxPublishers > 0 /\ numPublishers > MaxPublishers

MaxPublishersExceeded == MaxPublishers > 0 /\ numPublishers >= MaxPublishers

(* Mutant of MaxSubscribersExceeded: one more than the limit. *)
MaxSubscribersPassed(p) ==
  MaxSubscribers > 0 /\ numSubscribers[p] > MaxSubscribers

MaxSubscribersExceeded(p) ==
  MaxSubscribers > 0 /\ numSubscribers[p] >= MaxSubscribers

Goto(t, label) == pc' = [pc EXCEPT ![t] = label]

Init ==
  /\ pc = [t \in Thread |-> "idle"]
  /\ name = [t \in Thread |-> None]
  /\ data = [c \in Client |-> None]
  /\ inMap = {} /\ numPublishers = 0 /\ mapLock = None
  /\ accessLock = [p \in Publisher |-> None]
  /\ listLock = [k \in Kind |-> [p \in Publisher |-> None]]
  /\ nodes = [p \in Publisher |-> {}]
  /\ numSubscribers = [p \in Publisher |-> 0]
  /\ phase = [p \in Publisher |-> "srt"]
  /\ todo = [p \in Publisher |-> {}]
  /\ numFails = [s \in Subscriber |-> 0]
  /\ closes = [s \in Subscriber |-> 0]
-----------------------------------------------------------------------------
(* The publisher's thread. *)

(* srt_listener accepts a connection and starts srt_publisher. *)
AcceptPublisher(p) ==
  /\ pc[p] = "idle"
  /\ Goto(p, "auth")
  /\ UNCHANGED <<name, data, registryVars, streamVars, loopVars, closes>>

(* authenticate returns the name to publish under, or NULL: the socket is *)
(* closed and the thread ends.                                            *)
PublisherAccepted(p, n) ==
  /\ pc[p] = "auth"
  /\ name' = [name EXCEPT ![p] = n]
  /\ Goto(p, "create")
  /\ UNCHANGED <<data, registryVars, streamVars, loopVars, closes>>

PublisherRejected(p) ==
  /\ pc[p] = "auth"
  /\ Goto(p, "idle")
  /\ UNCHANGED <<name, data, registryVars, streamVars, loopVars, closes>>

(* create_stream_data_in_map refuses: srt_close, the name is freed. *)
CreateRefused(p) ==
  /\ pc[p] = "create"
  /\ mapLock = None
  /\ MaxPublishersExceeded \/ NodesWithName(name[p]) # {}
  /\ name' = [name EXCEPT ![p] = None]
  /\ Goto(p, "idle")
  /\ UNCHANGED <<data, registryVars, streamVars, loopVars, closes>>

(* Mutant of CreateStreamData: the name is not looked up before it is added. *)
CreateUnderAnyName(p) ==
  /\ pc[p] = "create"
  /\ mapLock = None
  /\ ~MaxPublishersExceeded
  /\ inMap' = inMap \cup {p}
  /\ numPublishers' = UintInc(numPublishers)
  /\ numSubscribers' = [numSubscribers EXCEPT ![p] = 0]
  /\ Goto(p, "lockList")
  /\ UNCHANGED <<name, data, mapLock, accessLock, listLock, nodes, loopVars, closes>>

(* create_stream_data_in_map: fresh data, a node in the name's bucket. *)
CreateStreamData(p) ==
  /\ pc[p] = "create"
  /\ mapLock = None
  /\ ~MaxPublishersExceeded /\ NodesWithName(name[p]) = {}
  /\ inMap' = inMap \cup {p}
  /\ numPublishers' = UintInc(numPublishers)
  /\ nodes' = [nodes EXCEPT ![p] = {}]
  /\ numSubscribers' = [numSubscribers EXCEPT ![p] = 0]
  /\ phase' = [phase EXCEPT ![p] = "srt"]
  /\ Goto(p, "lockList")
  /\ UNCHANGED <<name, data, mapLock, accessLock, listLock, todo, numFails, closes>>

(* The start of a pass over one list, under its lock. *)
LockSubscribers(p) ==
  /\ pc[p] = "lockList"
  /\ listLock[phase[p]][p] = None
  /\ listLock' = [listLock EXCEPT ![phase[p]][p] = p]
  /\ todo' = [todo EXCEPT ![p] = nodes[p] \cap OfKind(phase[p])]
  /\ Goto(p, "send")
  /\ UNCHANGED <<name, data, registryVars, accessLock, nodes, numSubscribers,
                 phase, numFails, closes>>

SendSucceeds(p, s) ==
  /\ pc[p] = "send"
  /\ s \in todo[p]
  /\ todo' = [todo EXCEPT ![p] = @ \ {s}]
  /\ UNCHANGED <<pc, name, data, registryVars, streamVars, phase, numFails, closes>>

(* EAGAIN from a web subscriber that has not failed too often yet. *)
SendTolerated(p, s) ==
  /\ pc[p] = "send"
  /\ s \in todo[p] \cap WebSubscriber
  /\ numFails[s] <= MaxWebSendFails
  /\ numFails' = [numFails EXCEPT ![s] = @ + 1]
  /\ todo' = [todo EXCEPT ![p] = @ \ {s}]
  /\ UNCHANGED <<pc, name, data, registryVars, streamVars, phase, closes>>

(* Mutants of SendFails: the node is not counted out; the node stays in its list. *)
SendFailsUncounted(p, s) ==
  /\ pc[p] = "send"
  /\ s \in todo[p]
  /\ todo' = [todo EXCEPT ![p] = @ \ {s}]
  /\ nodes' = [nodes EXCEPT ![p] = @ \ {s}]
  /\ closes' = [closes EXCEPT ![s] = @ + 1]
  /\ UNCHANGED <<pc, name, data, registryVars, accessLock, listLock,
                 numSubscribers, phase, numFails>>

SendFailsKeepingNode(p, s) ==
  /\ pc[p] = "send"
  /\ s \in todo[p]
  /\ todo' = [todo EXCEPT ![p] = @ \ {s}]
  /\ closes' = [closes EXCEPT ![s] = @ + 1]
  /\ Goto(p, "decrement")
  /\ UNCHANGED <<name, data, registryVars, streamVars, phase, numFails>>

(* Any other failure: remove_{srt,web}_subscriber_node unlinks the node and *)
(* closes its socket, with the list still locked ...                        *)
SendFails(p, s) ==
  /\ pc[p] = "send"
  /\ s \in todo[p]
  /\ todo' = [todo EXCEPT ![p] = @ \ {s}]
  /\ nodes' = [nodes EXCEPT ![p] = @ \ {s}]
  /\ closes' = [closes EXCEPT ![s] = @ + 1]
  /\ Goto(p, "decrement")
  /\ UNCHANGED <<name, data, registryVars, accessLock, listLock, numSubscribers,
                 phase, numFails>>

(* ... and then counts it out, under num_subscribers_lock. *)
CountOut(p) ==
  /\ pc[p] = "decrement"
  /\ numSubscribers' = [numSubscribers EXCEPT ![p] = UintDec(@)]
  /\ Goto(p, "send")
  /\ UNCHANGED <<name, data, registryVars, accessLock, listLock, nodes, loopVars,
                 closes>>

(* Mutant of UnlockSubscribers: the list stays locked. *)
EndPassHolding(p) ==
  /\ pc[p] = "send"
  /\ todo[p] = {}
  /\ phase' = [phase EXCEPT ![p] = IF @ = "srt" THEN "web" ELSE "srt"]
  /\ Goto(p, IF phase[p] = "srt" THEN "lockList" ELSE "recv")
  /\ UNCHANGED <<name, data, registryVars, streamVars, todo, numFails, closes>>

(* The pass over one list is over: the SRT list is followed by the web list, *)
(* the web list by a wait for the next packet.                               *)
UnlockSubscribers(p) ==
  /\ pc[p] = "send"
  /\ todo[p] = {}
  /\ listLock' = [listLock EXCEPT ![phase[p]][p] = None]
  /\ phase' = [phase EXCEPT ![p] = IF @ = "srt" THEN "web" ELSE "srt"]
  /\ Goto(p, IF phase[p] = "srt" THEN "lockList" ELSE "recv")
  /\ UNCHANGED <<name, data, registryVars, accessLock, nodes, numSubscribers,
                 todo, numFails, closes>>

ReceivePacket(p) ==
  /\ pc[p] = "recv"
  /\ Goto(p, "lockList")
  /\ UNCHANGED <<name, data, registryVars, streamVars, loopVars, closes>>

(* srt_recvmsg2 fails: the loop ends, the publisher's socket is closed. *)
ReceiveFails(p) ==
  /\ pc[p] = "recv"
  /\ Goto(p, "lockMap")
  /\ UNCHANGED <<name, data, registryVars, streamVars, loopVars, closes>>

(* remove_name_from_map takes map_lock, then the access_lock of the node it *)
(* finds: a client that holds the stream makes it, and the map, wait.       *)
LockMapToRemove(p) ==
  /\ pc[p] = "lockMap"
  /\ mapLock = None
  /\ mapLock' = p
  /\ Goto(p, "unlink")
  /\ UNCHANGED <<name, data, inMap, numPublishers, streamVars, loopVars, closes>>

(* Mutant of RemoveName: the node is unlinked without its access_lock. *)
RemoveNameInUse(p) ==
  /\ pc[p] = "unlink"
  /\ inMap' = inMap \ NodesWithName(name[p])
  /\ numPublishers' = UintDec(numPublishers)
  /\ mapLock' = None
  /\ Goto(p, "lockAccess")
  /\ UNCHANGED <<name, data, streamVars, loopVars, closes>>

RemoveName(p) ==
  /\ pc[p] = "unlink"
  /\ \/ \E node \in NodesWithName(name[p]) :
          /\ accessLock[node] = None
          /\ inMap' = inMap \ {node}
     \/ NodesWithName(name[p]) = {} /\ inMap' = inMap
  /\ numPublishers' = UintDec(numPublishers)
  /\ mapLock' = None
  /\ Goto(p, "lockAccess")
  /\ UNCHANGED <<name, data, streamVars, loopVars, closes>>

(* remove_stream_from_map, once the name is gone. *)
LockAccessToCleanUp(p) ==
  /\ pc[p] = "lockAccess"
  /\ accessLock[p] = None
  /\ accessLock' = [accessLock EXCEPT ![p] = p]
  /\ Goto(p, "cleanUp")
  /\ UNCHANGED <<name, data, registryVars, listLock, nodes, numSubscribers,
                 loopVars, closes>>

(* Mutant of CloseSubscribers: the web list is forgotten. *)
CloseSrtSubscribers(p) ==
  /\ pc[p] = "cleanUp"
  /\ listLock["srt"][p] = None
  /\ nodes' = [nodes EXCEPT ![p] = @ \ SrtSubscriber]
  /\ closes' = [s \in Subscriber |->
                  IF s \in nodes[p] \cap SrtSubscriber THEN closes[s] + 1 ELSE closes[s]]
  /\ accessLock' = [accessLock EXCEPT ![p] = None]
  /\ name' = [name EXCEPT ![p] = None]
  /\ Goto(p, "destroy")
  /\ UNCHANGED <<data, registryVars, listLock, numSubscribers, loopVars>>

(* Every connection of one list is closed and its node freed.  The second *)
(* list done, the stream's locks are destroyed and access_lock released.  *)
CloseSubscribers(p) ==
  /\ pc[p] = "cleanUp"
  /\ listLock[phase[p]][p] = None
  /\ nodes' = [nodes EXCEPT ![p] = @ \ OfKind(phase[p])]
  /\ closes' = [s \in Subscriber |->
                  IF s \in nodes[p] \cap OfKind(phase[p]) THEN closes[s] + 1
                                                          ELSE closes[s]]
  /\ phase' = [phase EXCEPT ![p] = IF @ = "srt" THEN "web" ELSE "srt"]
  /\ IF phase[p] = "srt"
       THEN UNCHANGED <<pc, name, accessLock>>
       ELSE /\ accessLock' = [accessLock EXCEPT ![p] = None]
            /\ name' = [name EXCEPT ![p] = None]
            /\ Goto(p, "destroy")
  /\ UNCHANGED <<data, registryVars, listLock, numSubscribers, todo, numFails>>

(* access_lock is destroyed and the data freed: its memory can be reused. *)
FreeData(p) ==
  /\ pc[p] = "destroy"
  /\ Goto(p, "idle")
  /\ UNCHANGED <<name, data, registryVars, streamVars, loopVars, closes>>
-----------------------------------------------------------------------------
(* The thread of a client: a new subscriber, or a viewer count request. *)

(* A slot is free until its first connection, and again once the thread of *)
(* its last one has ended and the connection has been closed.              *)
SlotFree(c) == pc[c] = "idle" \/ (c \in Subscriber /\ pc[c] = "ended" /\ closes[c] > 0)

AcceptSubscriber(s) ==
  /\ SlotFree(s)
  /\ closes' = [closes EXCEPT ![s] = 0]
  /\ numFails' = [numFails EXCEPT ![s] = 0]
  /\ Goto(s, "auth")
  /\ UNCHANGED <<name, data, registryVars, streamVars, phase, todo>>

SubscriberAccepted(s, n) ==
  /\ pc[s] = "auth"
  /\ name' = [name EXCEPT ![s] = n]
  /\ Goto(s, "lookup")
  /\ UNCHANGED <<data, registryVars, streamVars, loopVars, closes>>

SubscriberRejected(s) ==
  /\ pc[s] = "auth"
  /\ closes' = [closes EXCEPT ![s] = @ + 1]
  /\ Goto(s, "ended")
  /\ UNCHANGED <<name, data, registryVars, streamVars, loopVars>>

(* web_api parsed /api/stream/NAME. *)
AcceptApiRequest(a, n) ==
  /\ pc[a] = "idle"
  /\ name' = [name EXCEPT ![a] = n]
  /\ Goto(a, "lookup")
  /\ UNCHANGED <<data, registryVars, streamVars, loopVars, closes>>

(* What a client does with its socket when it gives up: a subscriber closes *)
(* it, and an API request is answered with 404 or with the count.           *)
Finish(c) ==
  /\ name' = [name EXCEPT ![c] = None]
  /\ data' = [data EXCEPT ![c] = None]
  /\ Goto(c, IF c \in Subscriber THEN "ended" ELSE "idle")

Disconnect(c) ==
  closes' = IF c \in Subscriber THEN [closes EXCEPT ![c] = @ + 1] ELSE closes

(* get_stream_from_map finds no node: NULL. *)
StreamNotFound(c) ==
  /\ pc[c] = "lookup"
  /\ mapLock = None
  /\ NodesWithName(name[c]) = {}
  /\ Finish(c)
  /\ Disconnect(c)
  /\ UNCHANGED <<registryVars, streamVars, loopVars>>

(* Mutant of FindStream: map_lock is released before access_lock is asked for. *)
FindStreamLettingMapGo(c, p) ==
  /\ pc[c] = "lookup"
  /\ mapLock = None
  /\ p \in NodesWithName(name[c])
  /\ data' = [data EXCEPT ![c] = p]
  /\ Goto(c, "lockAccess")
  /\ UNCHANGED <<name, registryVars, streamVars, loopVars, closes>>

(* get_stream_from_map finds a node and waits for its access_lock with *)
(* map_lock held.                                                      *)
FindStream(c, p) ==
  /\ pc[c] = "lookup"
  /\ mapLock = None
  /\ p \in NodesWithName(name[c])
  /\ mapLock' = c
  /\ data' = [data EXCEPT ![c] = p]
  /\ Goto(c, "lockAccess")
  /\ UNCHANGED <<name, inMap, numPublishers, streamVars, loopVars, closes>>

LockAccess(c) ==
  /\ pc[c] = "lockAccess"
  /\ accessLock[data[c]] = None
  /\ accessLock' = [accessLock EXCEPT ![data[c]] = c]
  /\ mapLock' = None
  /\ Goto(c, IF c \in Subscriber THEN "checkMax" ELSE "readCount")
  /\ UNCHANGED <<name, data, inMap, numPublishers, listLock, nodes, numSubscribers,
                 loopVars, closes>>

(* add_subscriber_common: the limit is checked with access_lock held, *)
(* which is kept when there is room.                                  *)
RejectSubscriber(s) ==
  /\ pc[s] = "checkMax"
  /\ MaxSubscribersExceeded(data[s])
  /\ accessLock' = [accessLock EXCEPT ![data[s]] = None]
  /\ Finish(s)
  /\ Disconnect(s)
  /\ UNCHANGED <<registryVars, listLock, nodes, numSubscribers, loopVars>>

(* Mutant of AdmitSubscriber: access_lock is released after the check. *)
AdmitSubscriberLettingGo(s) ==
  /\ pc[s] = "checkMax"
  /\ ~MaxSubscribersExceeded(data[s])
  /\ accessLock' = [accessLock EXCEPT ![data[s]] = None]
  /\ Goto(s, "insert")
  /\ UNCHANGED <<name, data, registryVars, listLock, nodes, numSubscribers,
                 loopVars, closes>>

AdmitSubscriber(s) ==
  /\ pc[s] = "checkMax"
  /\ ~MaxSubscribersExceeded(data[s])
  /\ Goto(s, "insert")
  /\ UNCHANGED <<name, data, registryVars, streamVars, loopVars, closes>>

(* Mutant of SetFlagFails: access_lock is not released when the socket fails. *)
SetFlagFailsHolding(s) ==
  /\ pc[s] = "insert"
  /\ s \in SrtSubscriber
  /\ Finish(s)
  /\ Disconnect(s)
  /\ UNCHANGED <<registryVars, streamVars, loopVars>>

(* An SRT socket that cannot be made non-blocking is closed. *)
SetFlagFails(s) ==
  /\ pc[s] = "insert"
  /\ s \in SrtSubscriber
  /\ accessLock' = [accessLock EXCEPT ![data[s]] = None]
  /\ Finish(s)
  /\ Disconnect(s)
  /\ UNCHANGED <<registryVars, listLock, nodes, numSubscribers, loopVars>>

(* add_{srt,web}_subscriber_to_stream: a node at the head of the list, under *)
(* the list's lock, and then, with that lock released, the count.            *)
InsertNode(s) ==
  /\ pc[s] = "insert"
  /\ listLock[KindOf(s)][data[s]] = None
  /\ nodes' = [nodes EXCEPT ![data[s]] = @ \cup {s}]
  /\ Goto(s, "increment")
  /\ UNCHANGED <<name, data, registryVars, accessLock, listLock, numSubscribers,
                 loopVars, closes>>

CountIn(s) ==
  /\ pc[s] = "increment"
  /\ numSubscribers' = [numSubscribers EXCEPT ![data[s]] = UintInc(@)]
  /\ Goto(s, "unlock")
  /\ UNCHANGED <<name, data, registryVars, accessLock, listLock, nodes, loopVars,
                 closes>>

(* The thread ends; its connection stays with the stream. *)
UnlockAccess(s) ==
  /\ pc[s] = "unlock"
  /\ accessLock' = [accessLock EXCEPT ![data[s]] = None]
  /\ Finish(s)
  /\ UNCHANGED <<registryVars, listLock, nodes, numSubscribers, loopVars, closes>>

(* Mutant of ReadCount: access_lock is not released. *)
ReadCountHolding(a) ==
  /\ pc[a] = "readCount"
  /\ Finish(a)
  /\ UNCHANGED <<registryVars, streamVars, loopVars, closes>>

(* single_stream_data: get_num_subscribers, then access_lock is released. *)
ReadCount(a) ==
  /\ pc[a] = "readCount"
  /\ accessLock' = [accessLock EXCEPT ![data[a]] = None]
  /\ Finish(a)
  /\ UNCHANGED <<registryVars, listLock, nodes, numSubscribers, loopVars, closes>>
-----------------------------------------------------------------------------
(* The steps a publisher's thread takes on its own: add_stream_to_map, the   *)
(* loop over the subscribers, remove_stream_from_map.                       *)
PublishStep(p) == CreateRefused(p) \/ CreateStreamData(p)

SendStep(p) ==
  \/ LockSubscribers(p)
  \/ \E s \in Subscriber : SendSucceeds(p, s) \/ SendTolerated(p, s) \/ SendFails(p, s)
  \/ CountOut(p) \/ UnlockSubscribers(p)

RemoveStep(p) ==
  \/ LockMapToRemove(p) \/ RemoveName(p)
  \/ LockAccessToCleanUp(p) \/ CloseSubscribers(p) \/ FreeData(p)

PublisherStep(p) == PublishStep(p) \/ SendStep(p) \/ RemoveStep(p)

(* What its peer and the authentication command decide for it. *)
PublisherEvent(p) ==
  \/ AcceptPublisher(p)
  \/ \E n \in Name : PublisherAccepted(p, n)
  \/ PublisherRejected(p)
  \/ ReceivePacket(p) \/ ReceiveFails(p)

(* get_stream_from_map, and what its callers do with the stream. *)
LookupStep(c) ==
  \/ StreamNotFound(c)
  \/ \E p \in Publisher : FindStream(c, p)
  \/ LockAccess(c)

JoinStep(s) ==
  \/ RejectSubscriber(s) \/ AdmitSubscriber(s) \/ SetFlagFails(s)
  \/ InsertNode(s) \/ CountIn(s) \/ UnlockAccess(s)

ClientStep(c) ==
  \/ LookupStep(c)
  \/ c \in Subscriber /\ JoinStep(c)
  \/ c \in ApiRequest /\ ReadCount(c)

SubscriberEvent(s) ==
  \/ AcceptSubscriber(s)
  \/ \E n \in Name : SubscriberAccepted(s, n)
  \/ SubscriberRejected(s)

ClientEvent(c) ==
  \/ c \in Subscriber /\ SubscriberEvent(c)
  \/ c \in ApiRequest /\ \E n \in Name : AcceptApiRequest(c, n)

Next ==
  \/ \E p \in Publisher : PublisherStep(p) \/ PublisherEvent(p)
  \/ \E c \in Client : ClientStep(c) \/ ClientEvent(c)

(* A thread that can run does, and one that competes for a lock which is *)
(* released again and again gets it.  Peers owe nothing.                 *)
Fairness ==
  /\ \A p \in Publisher : SF_vars(PublisherStep(p))
  /\ \A c \in Client : SF_vars(ClientStep(c))

Spec == Init /\ [][Next]_vars
FairSpec == Spec /\ Fairness
-----------------------------------------------------------------------------
LockOwner == Thread \cup {None}

(* Every variable keeps the type of the C object it stands for; the counters *)
(* stay within an unsigned int.                                              *)
TypeOK ==
  /\ pc \in [Thread -> PublisherPc \cup ClientPc]
  /\ \A p \in Publisher : pc[p] \in PublisherPc
  /\ \A s \in Subscriber : pc[s] \in ClientPc \ {"readCount"}
  /\ \A a \in ApiRequest : pc[a] \in {"idle", "lookup", "lockAccess", "readCount"}
  /\ name \in [Thread -> Name \cup {None}]
  /\ data \in [Client -> Publisher \cup {None}]
  /\ inMap \subseteq Publisher
  /\ numPublishers \in 0 .. UintSize - 1
  /\ mapLock \in LockOwner
  /\ accessLock \in [Publisher -> LockOwner]
  /\ listLock \in [Kind -> [Publisher -> LockOwner]]
  /\ nodes \in [Publisher -> SUBSET Subscriber]
  /\ numSubscribers \in [Publisher -> 0 .. UintSize - 1]
  /\ phase \in [Publisher -> Kind]
  /\ todo \in [Publisher -> SUBSET Subscriber]
  /\ numFails \in [Subscriber -> 0 .. MaxWebSendFails + 1]
  /\ closes \in [Subscriber -> Nat]

(* The memory of p's published_stream_data is allocated. *)
Allocated(p) == pc[p] \notin {"idle", "auth", "create"}

(* A stream a client holds a pointer to is still allocated, and is the one   *)
(* published under the name it asked for: neither freed nor renamed between  *)
(* get_stream_from_map and the release of access_lock (the promise of        *)
(* published_stream.h about access_lock).                                    *)
NoUseAfterFree ==
  \A c \in Client : data[c] # None =>
    /\ Allocated(data[c])
    /\ data[c] \in inMap
    /\ name[data[c]] = name[c]

(* A stream whose locks are being destroyed is out of the map, has no lock   *)
(* held and no subscriber left, and no client waits for it.                  *)
QuietWhenDestroyed ==
  \A p \in Publisher : pc[p] = "destroy" =>
    /\ p \notin inMap
    /\ accessLock[p] = None
    /\ \A k \in Kind : listLock[k][p] = None
    /\ nodes[p] = {}
    /\ \A c \in Client : data[c] # p

(* Two published streams never share a name, so that remove_name_from_map,   *)
(* which looks for a name, takes its own stream out of the map.              *)
NamesUnique ==
  \A p, q \in inMap : name[p] = name[q] => p = q

(* num_publishers is the number of streams in the map whenever the map is    *)
(* unlocked, and --max-streams is never exceeded.                            *)
PublishersCounted ==
  /\ numPublishers = Cardinality(inMap)
  /\ MaxPublishers > 0 => Cardinality(inMap) <= MaxPublishers

(* A stream never has more watchers than --max-subscribers, although the     *)
(* check, the insertion and the counting are separate critical sections.     *)
SubscribersBounded ==
  MaxSubscribers > 0 =>
    \A p \in Publisher : Cardinality(nodes[p]) <= MaxSubscribers

(* The node that is out of its list but not counted out yet. *)
Departing(p) == IF pc[p] = "decrement" THEN 1 ELSE 0

(* The count a thread reads under access_lock is the number of watchers, but *)
(* for one the publisher is just dropping: the wrapped values the counter    *)
(* can take are never reported by /api/stream/NAME or compared with the      *)
(* limit.                                                                    *)
CountReadIsExact ==
  \A c \in Client : pc[c] \in {"checkMax", "readCount"} =>
    numSubscribers[data[c]] = Cardinality(nodes[data[c]]) + Departing(data[c])

(* When the thread of a subscriber is over, its connection was closed once   *)
(* and is in no list, or it is open and in the list of one stream that       *)
(* somebody will clean up: no connection is lost, closed twice or shared.    *)
ConnectionsAccountedFor ==
  \A s \in Subscriber :
    /\ closes[s] <= 1
    /\ closes[s] = 1 => \A p \in Publisher : s \notin nodes[p]
    /\ pc[s] = "ended" /\ closes[s] = 0 =>
         \E p \in Publisher :
           /\ s \in nodes[p]
           /\ Allocated(p)
           /\ \A q \in Publisher \ {p} : s \notin nodes[q]

(* t can only go on when u releases map_lock, the access_lock of a stream or *)
(* one of its lists.                                                         *)
WaitsFor(t, u) ==
  \/ pc[t] \in {"create", "lockMap", "lookup"} /\ mapLock = u
  \/ t \in Publisher /\ pc[t] = "unlink"
       /\ \E p \in NodesWithName(name[t]) : accessLock[p] = u
  \/ t \in Publisher /\ pc[t] = "lockAccess" /\ accessLock[t] = u
  \/ t \in Publisher /\ pc[t] \in {"lockList", "cleanUp"} /\ listLock[phase[t]][t] = u
  \/ t \in Client /\ pc[t] = "lockAccess" /\ accessLock[data[t]] = u
  \/ t \in Subscriber /\ pc[t] = "insert" /\ listLock[KindOf(t)][data[t]] = u

(* However many threads wait, some thread among them waits for none of them: *)
(* the removal of a stream, which takes map_lock before access_lock, and the *)
(* subscribers, who take access_lock before a list's, never block each other *)
(* for good, and no thread waits for itself.                                 *)
NoCircularWait ==
  \A S \in (SUBSET Thread) \ {{}} : \E t \in S : \A u \in S : ~WaitsFor(t, u)

(* A publisher whose connection failed gets through the removal of its       *)
(* stream, whatever the clients that hold or look for it do.                 *)
RemovalCompletes == \A p \in Publisher : pc[p] = "lockMap" ~> pc[p] = "idle"

(* Every client that looks a stream up comes to an end.                      *)
ClientsServed == \A c \in Client : pc[c] = "lookup" ~> pc[c] \in {"ended", "idle"}

(* The names under which streams can be found. *)
Title == [p \in Publisher |-> IF p \in inMap THEN name[p] ELSE None]

(* The registry implements the directory: whatever the interleaving, the     *)
(* steps that change what callers can see are single steps of StreamDirectory. *)
Directory ==
  INSTANCE StreamDirectory
    WITH live <- inMap, title <- Title, watching <- nodes
ImplementsDirectory == Directory!Spec
=============================================================================
