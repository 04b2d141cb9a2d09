-------------------------------- MODULE WebApi --------------------------------
(***************************************************************************)
(* The cached list of streams (web_api.c): requests for /api/streams/ read *)
(* the most recent list, count themselves in and out of it, and then, like *)
(* the timer's thread, try to replace it by a new one.  A list is freed by *)
(* its last reader, or by the thread that replaces it.                     *)
(*                                                                         *)
(* stream_names, which makes a list out of the map while streams come and  *)
(* go, is represented by what StreamNames shows of it: the list has every  *)
(* stream that was published all the time it took, and none that was not   *)
(* published at any moment of it.                                          *)
(***************************************************************************)
EXTENDS Integers, FiniteSets

CONSTANTS
  Request,       \* threads that answer /api/streams/ requests
  Timer,         \* the thread of update_stream_list_timer
  Stream,        \* names that can be published and are not unlisted
  List,          \* addresses a struct stream_names can be allocated at
  MaxInstances,  \* MAX_STREAM_NAMES_INSTANCES
  None           \* NULL, and the owner of a free lock

Thread == Request \cup {Timer}

ASSUME ThreadAssumption == IsFiniteSet(Request) /\ Timer \notin Request
ASSUME ListAssumption == IsFiniteSet(List) /\ None \notin List \cup Thread
ASSUME LimitAssumption == MaxInstances \in Nat \ {0}

VARIABLES
  pc,           \* where each thread is
  held,         \* the local stream_names of each request, the list it reads
  current,      \* data->stream_names
  numInstances, \* data->num_stream_names_instances
  allocated,    \* the lists that are allocated
  numRequests,  \* num_requests of each list
  names,        \* names of each list
  updateLock,   \* owner of data->update_lock
  fresh,        \* the list that the owner of update_lock has generated
  crashed,      \* a NULL list was dereferenced: the process is gone
  registry,     \* the streams in the map
  throughout,   \* those published ever since the running generation began
  sometime      \* those published at some moment since then

cacheVars == <<current, numInstances, allocated, numRequests, names>>
registryVars == <<registry, throughout, sometime>>
vars == <<pc, held, cacheVars, updateLock, fresh, crashed, registryVars>>

Init ==
  /\ pc = [t \in Thread |-> "idle"]
  /\ held = [r \in Request |-> None]
  /\ current = None /\ numInstances = 0 /\ allocated = {}
  /\ numRequests = [l \in List |-> 0]
  /\ names = [l \in List |-> {}]
  /\ updateLock = None /\ fresh = None
  /\ crashed = FALSE
  /\ registry = {} /\ throughout = {} /\ sometime = {}

Goto(t, label) == pc' = [pc EXCEPT ![t] = label]

(* Mutant of Free: num_stream_names_instances is forgotten. *)
FreeUncounted(lists) ==
  /\ allocated' = allocated \ lists
  /\ UNCHANGED numInstances

(* Frees the lists of a set and takes them off the count. *)
Free(lists) ==
  /\ allocated' = allocated \ lists
  /\ numInstances' = numInstances - Cardinality(lists)
-----------------------------------------------------------------------------

(* Mutant of TakeList: the reader does not count itself in. *)
TakeListUncounted(r) ==
  /\ pc[r] = "idle"
  /\ current # None
  /\ held' = [held EXCEPT ![r] = current]
  /\ Goto(r, "reading")
  /\ UNCHANGED <<cacheVars, updateLock, fresh, crashed, registryVars>>

(* A request takes the most recent list.  Nothing asks whether there is one: *)
(* num_requests of NULL is written, and the process is killed.               *)
TakeList(r) ==
  /\ pc[r] = "idle"
  /\ current # None
  /\ held' = [held EXCEPT ![r] = current]
  /\ numRequests' = [numRequests EXCEPT ![current] = @ + 1]
  /\ Goto(r, "reading")
  /\ UNCHANGED <<current, numInstances, allocated, names, updateLock, fresh,
                 crashed, registryVars>>

TakeMissingList(r) ==
  /\ pc[r] = "idle"
  /\ current = None
  /\ crashed' = TRUE
  /\ UNCHANGED <<pc, held, cacheVars, updateLock, fresh, registryVars>>

(* Mutant of PutList: the last reader frees the list even if it is the current one. *)
PutListFreeing(r) ==
  /\ pc[r] = "reading"
  /\ numRequests' = [numRequests EXCEPT ![held[r]] = @ - 1]
  /\ Free(IF numRequests[held[r]] = 1 THEN {held[r]} ELSE {})
  /\ held' = [held EXCEPT ![r] = None]
  /\ Goto(r, "update")
  /\ UNCHANGED <<current, names, updateLock, fresh, crashed, registryVars>>

(* The answer is written, which has no names if no stream is published any *)
(* more (only the text is another), and the socket closed: the request     *)
(* counts itself out, and frees the list if it was the last reader of an   *)
(* outdated one.                                                           *)
PutList(r) ==
  /\ pc[r] = "reading"
  /\ numRequests' = [numRequests EXCEPT ![held[r]] = @ - 1]
  /\ Free(IF numRequests[held[r]] = 1 /\ held[r] # current THEN {held[r]} ELSE {})
  /\ held' = [held EXCEPT ![r] = None]
  /\ Goto(r, "update")
  /\ UNCHANGED <<current, names, updateLock, fresh, crashed, registryVars>>

(* The timer wakes up. *)
TimerFires ==
  /\ pc[Timer] = "idle"
  /\ Goto(Timer, "update")
  /\ UNCHANGED <<held, cacheVars, updateLock, fresh, crashed, registryVars>>
-----------------------------------------------------------------------------
(* update_stream_list: one thread at a time, the others leave. *)
LockUpdate(t) ==
  /\ pc[t] = "update"
  /\ updateLock = None
  /\ updateLock' = t
  /\ Goto(t, "check")
  /\ UNCHANGED <<held, cacheVars, fresh, crashed, registryVars>>

SkipUpdate(t) ==
  /\ pc[t] = "update"
  /\ updateLock # None
  /\ Goto(t, "idle")
  /\ UNCHANGED <<held, cacheVars, updateLock, fresh, crashed, registryVars>>

(* Mutant of NoMoreInstances: an early return that keeps update_lock. *)
NoMoreInstancesHolding(t) ==
  /\ pc[t] = "check"
  /\ numInstances >= MaxInstances
  /\ Goto(t, "idle")
  /\ UNCHANGED <<held, cacheVars, updateLock, fresh, crashed, registryVars>>

(* Too many lists are in use: no new one is made. *)
NoMoreInstances(t) ==
  /\ pc[t] = "check"
  /\ numInstances >= MaxInstances
  /\ Goto(t, "unlock")
  /\ UNCHANGED <<held, cacheVars, updateLock, fresh, crashed, registryVars>>

(* Mutant of BeginList: one instance more than the limit. *)
BeginOneMore(t) ==
  /\ pc[t] = "check"
  /\ numInstances <= MaxInstances
  /\ throughout' = registry
  /\ sometime' = registry
  /\ Goto(t, "generate")
  /\ UNCHANGED <<held, cacheVars, updateLock, fresh, crashed, registry>>

BeginList(t) ==
  /\ pc[t] = "check"
  /\ numInstances < MaxInstances
  /\ throughout' = registry
  /\ sometime' = registry
  /\ Goto(t, "generate")
  /\ UNCHANGED <<held, cacheVars, updateLock, fresh, crashed, registry>>

(* stream_names returns, and the list gets an address. *)
EndList(t) ==
  /\ pc[t] = "generate"
  /\ \E l \in List \ allocated, listed \in SUBSET sometime :
       /\ throughout \subseteq listed
       /\ allocated' = allocated \cup {l}
       /\ names' = [names EXCEPT ![l] = listed]
       /\ numRequests' = [numRequests EXCEPT ![l] = 0]
       /\ fresh' = l
  /\ Goto(t, "install")
  /\ UNCHANGED <<held, current, numInstances, updateLock, crashed, registryVars>>

(* Mutant of InstallList: a list without readers is replaced and not freed. *)
InstallOverUnread(t) ==
  /\ pc[t] = "install"
  /\ numInstances' = numInstances + 1
  /\ current' = fresh
  /\ fresh' = None
  /\ Goto(t, "unlock")
  /\ UNCHANGED <<held, allocated, numRequests, names, updateLock, crashed, registryVars>>

(* The new list replaces the current one, which is freed here if nobody *)
(* reads it, because then nobody else will.                             *)
InstallList(t) ==
  /\ pc[t] = "install"
  /\ LET unread == IF current # None /\ numRequests[current] = 0 THEN {current} ELSE {}
     IN  /\ allocated' = allocated \ unread
         /\ numInstances' = numInstances - Cardinality(unread) + 1
  /\ current' = fresh
  /\ fresh' = None
  /\ Goto(t, "unlock")
  /\ UNCHANGED <<held, numRequests, names, updateLock, crashed, registryVars>>

UnlockUpdate(t) ==
  /\ pc[t] = "unlock"
  /\ updateLock' = None
  /\ Goto(t, "idle")
  /\ UNCHANGED <<held, cacheVars, fresh, crashed, registryVars>>
-----------------------------------------------------------------------------
(* Publishers come and go (PublishedStream). *)
PublishOrEnd(s) ==
  /\ registry' = IF s \in registry THEN registry \ {s} ELSE registry \cup {s}
  /\ throughout' = throughout \cap registry'
  /\ sometime' = sometime \cup registry'
  /\ UNCHANGED <<pc, held, cacheVars, updateLock, fresh, crashed>>

UpdateStep(t) ==
  \/ LockUpdate(t) \/ SkipUpdate(t)
  \/ NoMoreInstances(t) \/ BeginList(t) \/ EndList(t) \/ InstallList(t)
  \/ UnlockUpdate(t)

Next ==
  /\ ~crashed
  /\ \/ \E r \in Request : TakeList(r) \/ TakeMissingList(r) \/ PutList(r)
     \/ TimerFires
     \/ \E t \in Thread : UpdateStep(t)
     \/ \E s \in Stream : PublishOrEnd(s)

(* Answers are written to non-blocking sockets, trylock does not wait, and    *)
(* names_lock and map_lock, which threads do wait for, are held for a         *)
(* bounded time, so that threads go on; the timer fires again and again.      *)
(* Nobody has to send a request.                                              *)
Fairness ==
  /\ WF_vars(~crashed /\ TimerFires)
  /\ \A t \in Thread : WF_vars(~crashed /\ UpdateStep(t))
  /\ \A r \in Request : WF_vars(~crashed /\ PutList(r))

Spec == Init /\ [][Next]_vars
FairSpec == Spec /\ Fairness
-----------------------------------------------------------------------------
TypeOK ==
  /\ pc \in [Thread -> {"idle", "reading", "update", "check", "generate",
                        "install", "unlock"}]
  /\ held \in [Request -> List \cup {None}]
  /\ {current, fresh} \subseteq List \cup {None}
  /\ numInstances \in Nat
  /\ allocated \subseteq List
  /\ numRequests \in [List -> Nat]
  /\ names \in [List -> SUBSET Stream]
  /\ updateLock \in Thread \cup {None}
  /\ crashed \in BOOLEAN
  /\ {registry, throughout, sometime} \subseteq SUBSET Stream

Readers(l) == {r \in Request : held[r] = l}

(* A list that a thread can still reach, the current one, one it reads or    *)
(* one it has just made, is allocated: whoever frees a list is the last.     *)
ReachableIsAllocated ==
  /\ \A l \in {current, fresh} \ {None} : l \in allocated
  /\ \A r \in Request : pc[r] = "reading" => held[r] \in allocated

(* A list that is neither the current one nor the one being installed has    *)
(* a reader, who will free it: no list is leaked by a replacement that meets *)
(* the last reader.                                                          *)
NothingLeaked ==
  \A l \in allocated \ {current, fresh} : Readers(l) # {}

(* num_requests is the number of readers, and num_stream_names_instances the *)
(* number of lists that were installed and not freed.                        *)
CountsExact ==
  /\ \A l \in allocated : numRequests[l] = Cardinality(Readers(l))
  /\ numInstances = Cardinality(allocated \ {fresh})

(* Never more lists at once than MAX_STREAM_NAMES_INSTANCES, the one that is *)
(* being made included, although it is made long after the limit is checked. *)
InstancesBounded == Cardinality(allocated) <= MaxInstances

(* When the set of streams no longer changes, the list that requests get is  *)
(* that set, from some moment on: neither the instance limit nor a skipped   *)
(* update leaves it outdated for ever.                                       *)
ListFollowsRegistry ==
  \A streams \in SUBSET Stream :
    <>[](registry = streams)
      => <>[](crashed \/ (current # None /\ names[current] = streams))

(* web_api.c says of a request that comes before the first list "make sure   *)
(* an empty list gets returned".                                             *)
AnsweredBeforeFirstList == ~crashed

(* A thread is in stream_names. *)
Making == \E t \in Thread : pc[t] = "generate"

(* What is read at an address. *)
ListAt(l) == IF l = None THEN {} ELSE {names[l]}

(* The lists that requests answer with are those of StreamListCache: no list *)
(* changes under a request that writes it out, although addresses are freed  *)
(* and reused, and what a new request gets is the list that was made last.   *)
Cache ==
  INSTANCE StreamListCache
    WITH making <- Making,
         throughout <- IF Making THEN throughout ELSE {},
         sometime <- IF Making THEN sometime ELSE {},
         ready <- ListAt(fresh), current <- ListAt(current),
         reading <- [r \in Request |-> ListAt(held[r])]
ImplementsListCache == Cache!CacheSpec
=============================================================================
