---------------------------- MODULE StreamListing ----------------------------
(***************************************************************************)
(* What stream_names promises, without buckets, locks or arrays: a list is *)
(* made while streams come and go, and it has every stream published all   *)
(* the while and none that was never published meanwhile.  StreamNames     *)
(* implements it, and StreamListCache hands its lists to requests.         *)
(***************************************************************************)
CONSTANT
  Stream  \* names that can be listed

VARIABLES
  registry,    \* the streams being published
  making,      \* a list is being made
  throughout,  \* meanwhile, the streams published ever since that began
  sometime,    \* and those published at some moment since then
  ready        \* the finished list, if there is one: a set of at most one list

listingVars == <<registry, making, throughout, sometime, ready>>

Init ==
  /\ registry = {}
  /\ making = FALSE /\ throughout = {} /\ sometime = {}
  /\ ready = {}

(* A stream is published, or ends. *)
PublishOrEnd(s) ==
  /\ registry' = IF s \in registry THEN registry \ {s} ELSE registry \cup {s}
  /\ throughout' = throughout \cap registry'
  /\ sometime' = IF making THEN sometime \cup registry' ELSE {}
  /\ UNCHANGED <<making, ready>>

Begin ==
  /\ ~making /\ ready = {}
  /\ making' = TRUE /\ throughout' = registry /\ sometime' = registry
  /\ UNCHANGED <<registry, ready>>

Finish(listed) ==
  /\ making
  /\ throughout \subseteq listed /\ listed \subseteq sometime
  /\ ready' = {listed}
  /\ making' = FALSE /\ throughout' = {} /\ sometime' = {}
  /\ UNCHANGED registry

(* The whole list is made at a moment at which nothing changes. *)
ListAtOnce ==
  /\ ~making /\ ready = {}
  /\ ready' = {registry}
  /\ UNCHANGED <<registry, making, throughout, sometime>>

(* The caller takes the list. *)
HandOver ==
  /\ ready # {}
  /\ ready' = {}
  /\ UNCHANGED <<registry, making, throughout, sometime>>

MakeList ==
  \/ \E s \in Stream : PublishOrEnd(s)
  \/ Begin \/ ListAtOnce
  \/ \E listed \in SUBSET sometime : Finish(listed)

Next == MakeList \/ HandOver

Spec == Init /\ [][Next]_listingVars
=============================================================================
