---------------------- MODULE PublishedStreamInvariant ----------------------
(***************************************************************************)
(* The inductive invariant of PublishedStream: why its safety properties   *)
(* hold.  None of them is inductive alone.  That memory is not used after  *)
(* it is freed rests on who holds which lock; that the limit on watchers   *)
(* is kept rests on what the counter is worth between the two halves of an *)
(* insertion and of a removal.                                             *)
(***************************************************************************)
EXTENDS PublishedStream

(* From create_stream_data_in_map to remove_name_from_map. *)
Published == {"lockList", "send", "decrement", "recv", "lockMap", "unlink"}

(* From get_stream_from_map's lock to the caller's unlock of access_lock. *)
Holding == {"checkMax", "insert", "increment", "unlock", "readCount"}

(* Who owns which lock can be told from where the threads are. *)
MapLockOwned ==
  \A t \in Thread :
    mapLock = t <=> \/ t \in Client /\ pc[t] = "lockAccess"
                    \/ t \in Publisher /\ pc[t] = "unlink"

AccessLockOwned ==
  \A p \in Publisher : \A t \in Thread :
    accessLock[p] = t <=> \/ t \in Client /\ pc[t] \in Holding /\ data[t] = p
                          \/ t = p /\ pc[p] = "cleanUp"

ListLockOwned ==
  \A k \in Kind : \A p \in Publisher :
    listLock[k][p] = IF pc[p] \in {"send", "decrement"} /\ phase[p] = k THEN p
                                                                        ELSE None

(* The map holds the streams of the publishers between the two calls, each *)
(* under a name of its own.                                                *)
MapContents ==
  /\ \A p \in Publisher : p \in inMap <=> pc[p] \in Published
  /\ \A p \in Publisher :
       pc[p] \notin {"idle", "auth", "destroy"} => name[p] \in Name
  /\ NamesUnique

(* A client has a pointer from the moment it finds a node until it lets the *)
(* access_lock go, and the stream it points to stays in the map meanwhile.  *)
PointersGood ==
  \A c \in Client :
    /\ pc[c] \in Holding \cup {"lockAccess"} <=> data[c] # None
    /\ data[c] # None => data[c] \in inMap /\ name[data[c]] = name[c]

(* The list the publisher works on. *)
PhaseGood ==
  \A p \in Publisher :
    /\ pc[p] \in {"recv", "lockMap", "unlink", "lockAccess"} => phase[p] = "srt"
    /\ pc[p] \notin {"send", "decrement"} => todo[p] = {}
    /\ todo[p] \subseteq nodes[p]

(* A node stands for a connection that nobody closed yet, and is in one list. *)
NodesGood ==
  \A p \in Publisher :
    /\ pc[p] \in {"idle", "auth", "create", "destroy"} => nodes[p] = {}
    /\ pc[p] = "cleanUp" /\ phase[p] = "web" => nodes[p] \cap SrtSubscriber = {}
    /\ \A s \in nodes[p] :
         /\ pc[s] \in {"increment", "unlock", "ended"}
         /\ closes[s] = 0
         /\ \A q \in Publisher \ {p} : s \notin nodes[q]

(* A connection is closed once, and not while its thread is still going to *)
(* hand it to a stream; once handed over it is open only inside a list.    *)
ClosedOnce ==
  \A s \in Subscriber :
    /\ closes[s] \in {0, 1}
    /\ pc[s] \notin {"idle", "increment", "unlock", "ended"} => closes[s] = 0
    /\ pc[s] \in {"increment", "unlock", "ended"} /\ closes[s] = 0 =>
         \E p \in Publisher : s \in nodes[p]

(* A client that has put its node into p's list but not counted it yet. *)
Joining(p) == \E s \in Subscriber : pc[s] = "increment" /\ data[s] = p

(* What num_subscribers is worth: the nodes, one more while the publisher is *)
(* between unlinking a node and counting it out, one less while a client is  *)
(* between inserting a node and counting it in; both at once can take the    *)
(* counter below zero.                                                       *)
CounterValue(p) ==
  Cardinality(nodes[p]) + Departing(p) - (IF Joining(p) THEN 1 ELSE 0)

CounterExact(p) ==
  numSubscribers[p] = IF CounterValue(p) < 0 THEN UintSize - 1 ELSE CounterValue(p)

CounterGood == \A p \in inMap : CounterExact(p)

(* The place of a client that passed the check is kept for it: only the *)
(* holder of access_lock adds nodes.                                    *)
PlaceKept ==
  MaxSubscribers > 0 =>
    \A s \in Subscriber :
      pc[s] = "insert" => Cardinality(nodes[data[s]]) < MaxSubscribers

(* The inductive invariant. *)
IInv ==
  /\ TypeOK
  /\ MapLockOwned /\ AccessLockOwned /\ ListLockOwned
  /\ MapContents /\ PublishersCounted /\ PointersGood
  /\ PhaseGood /\ NodesGood /\ ClosedOnce
  /\ CounterGood /\ PlaceKept /\ SubscribersBounded
=============================================================================
