--------------------------- MODULE StreamDirectory ---------------------------
(***************************************************************************)
(* What the published-stream component promises to its callers, with no    *)
(* locks, threads or counters: a directory of the streams being published, *)
(* each under a name of its own, and for each stream the connections that  *)
(* watch it.  A publication, the end of one, a subscriber joining and      *)
(* subscribers leaving are single steps.  Module PublishedStream, which    *)
(* models the threads and the locks of published_stream.c, implements it.  *)
(***************************************************************************)
EXTENDS Integers, FiniteSets

CONSTANTS
  Publisher,       \* publisher connections; each publishes at most one stream at a time
  Subscriber,      \* watching connections, SRT and HTTP
  Name,            \* stream names
  MaxPublishers,   \* --max-streams, 0 for no limit
  MaxSubscribers,  \* --max-subscribers, 0 for no limit
  None             \* no name

VARIABLES
  live,      \* the streams that can be found by name
  title,     \* the name of each live stream
  watching   \* the connections each stream is broadcast to

directoryVars == <<live, title, watching>>

Init ==
  /\ live = {}
  /\ title = [p \in Publisher |-> None]
  /\ watching = [p \in Publisher |-> {}]

(* A stream appears under a name nobody else uses, within --max-streams. *)
Publish(p, n) ==
  /\ p \notin live
  /\ watching[p] = {}
  /\ \A q \in live : title[q] # n
  /\ MaxPublishers > 0 => Cardinality(live) < MaxPublishers
  /\ live' = live \cup {p}
  /\ title' = [title EXCEPT ![p] = n]
  /\ UNCHANGED watching

(* The stream cannot be found any more; its watchers are still connected. *)
Unpublish(p) ==
  /\ p \in live
  /\ live' = live \ {p}
  /\ title' = [title EXCEPT ![p] = None]
  /\ UNCHANGED watching

(* Only a stream that can still be found is joined, within --max-subscribers, *)
(* by a connection that watches nothing else.                                 *)
Join(s, p) ==
  /\ p \in live
  /\ \A q \in Publisher : s \notin watching[q]
  /\ MaxSubscribers > 0 => Cardinality(watching[p]) < MaxSubscribers
  /\ watching' = [watching EXCEPT ![p] = @ \cup {s}]
  /\ UNCHANGED <<live, title>>

(* Connections are dropped: one that failed, or those of a stream that ended. *)
Leave(p, S) ==
  /\ S # {}
  /\ S \subseteq watching[p]
  /\ watching' = [watching EXCEPT ![p] = @ \ S]
  /\ UNCHANGED <<live, title>>

Next ==
  \E p \in Publisher :
    \/ \E n \in Name : Publish(p, n)
    \/ Unpublish(p)
    \/ \E s \in Subscriber : Join(s, p)
    \/ \E S \in SUBSET Subscriber : Leave(p, S)

Spec == Init /\ [][Next]_directoryVars
=============================================================================
