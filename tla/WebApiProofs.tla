----------------------------- MODULE WebApiProofs -----------------------------
(***************************************************************************)
(* Proofs about WebApi, for any number of requests, addresses and streams, *)
(* and any limit on the number of lists.                                   *)
(***************************************************************************)
EXTENDS WebApi, FiniteSetTheorems, TLAPS

Updating == {"check", "generate", "install", "unlock"}

(* update_lock is owned by the thread that is past its trylock. *)
UpdateLockOwned == \A t \in Thread : pc[t] \in Updating => updateLock = t

(* The list being installed is its owner's alone: neither current nor read. *)
FreshIsNew ==
  /\ \A t \in Thread : pc[t] = "install" => fresh # None
  /\ fresh # None =>
       /\ updateLock \in Thread /\ pc[updateLock] = "install"
       /\ fresh # current
       /\ \A r \in Request : held[r] # fresh

HeldWhileReading == \A r \in Request : held[r] # None <=> pc[r] = "reading"

(* The limit, with a place kept for the list that is being made. *)
PlaceKept ==
  /\ numInstances <= MaxInstances
  /\ \A t \in Thread : pc[t] \in {"generate", "install"} => numInstances < MaxInstances

Types ==
  /\ pc \in [Thread -> {"idle", "reading", "update"} \cup Updating]
  /\ held \in [Request -> List \cup {None}]
  /\ current \in List \cup {None} /\ fresh \in List \cup {None}
  /\ allocated \subseteq List
  /\ numRequests \in [List -> Nat]
  /\ numInstances \in Nat
  /\ updateLock \in Thread \cup {None}

IInv ==
  /\ Types
  /\ UpdateLockOwned
  /\ FreshIsNew
  /\ HeldWhileReading
  /\ PlaceKept
  /\ ReachableIsAllocated
  /\ NothingLeaked
  /\ CountsExact
-----------------------------------------------------------------------------
LEMMA Finite ==
  ASSUME IInv
  PROVE  /\ IsFiniteSet(allocated) /\ Cardinality(allocated) \in Nat
         /\ \A l : IsFiniteSet(Readers(l)) /\ Cardinality(Readers(l)) \in Nat
<1>1. IsFiniteSet(allocated)
  BY ListAssumption, FS_Subset DEF IInv, Types
<1>2. ASSUME NEW l PROVE IsFiniteSet(Readers(l))
  BY ThreadAssumption, FS_Subset DEF Readers
<1>. QED
  BY <1>1, <1>2, FS_CardinalityType

(* The number of lists: those counted, and the one being installed. *)
LEMMA Allocated ==
  ASSUME IInv
  PROVE  Cardinality(allocated) =
           IF fresh = None THEN numInstances ELSE numInstances + 1
<1>1. numInstances = Cardinality(allocated \ {fresh})
  BY DEF IInv, CountsExact
<1>2. CASE fresh = None
  <2>1. allocated \ {fresh} = allocated
    BY <1>2, ListAssumption DEF IInv, Types
  <2>. QED
    BY <1>1, <1>2, <2>1
<1>3. CASE fresh # None
  <2>1. fresh \in allocated
    BY <1>3 DEF IInv, ReachableIsAllocated
  <2>2. Cardinality(allocated \ {fresh}) = Cardinality(allocated) - 1
    BY <2>1, Finite, FS_RemoveElement
  <2>. QED
    BY <1>1, <1>3, <2>2, Finite
<1>. QED
  BY <1>2, <1>3

LEMMA InvInit == Init => IInv
<1>. SUFFICES ASSUME Init PROVE IInv
  OBVIOUS
<1>1. Types
  BY DEF Init, Types, Updating
<1>2. UpdateLockOwned /\ FreshIsNew /\ HeldWhileReading
  BY ThreadAssumption
  DEF Init, UpdateLockOwned, FreshIsNew, HeldWhileReading, Updating, Thread
<1>3. PlaceKept
  BY LimitAssumption DEF Init, PlaceKept
<1>4. ReachableIsAllocated /\ NothingLeaked
  BY DEF Init, ReachableIsAllocated, NothingLeaked, Thread
<1>5. CountsExact
  <2>1. allocated \ {fresh} = {} /\ allocated = {} /\ numInstances = 0
    BY DEF Init
  <2>. QED
    BY <2>1, FS_EmptySet DEF CountsExact
<1>. QED
  BY <1>1, <1>2, <1>3, <1>4, <1>5 DEF IInv
-----------------------------------------------------------------------------
(* A request takes the current list. *)
LEMMA TakeListInv ==
  ASSUME IInv, NEW r \in Request, TakeList(r)
  PROVE  IInv'
<1>. USE DEF Goto
<1>1. /\ pc[r] = "idle" /\ held[r] = None /\ current \in allocated
      /\ current \in List /\ current # fresh
  BY DEF TakeList, IInv, Types, HeldWhileReading, ReachableIsAllocated, FreshIsNew
<1>2. /\ held' = [held EXCEPT ![r] = current]
      /\ numRequests' = [numRequests EXCEPT ![current] = @ + 1]
      /\ pc' = [pc EXCEPT ![r] = "reading"]
      /\ UNCHANGED <<current, numInstances, allocated, updateLock, fresh>>
  BY DEF TakeList
<1>3. Readers(current)' = Readers(current) \cup {r} /\ r \notin Readers(current)
  BY <1>1, <1>2, ListAssumption DEF Readers, IInv, Types
<1>4. \A l \in List \ {current} : Readers(l)' = Readers(l)
  BY <1>1, <1>2, ListAssumption DEF Readers, IInv, Types
<1>5. Cardinality(Readers(current)') = Cardinality(Readers(current)) + 1
  BY <1>3, Finite, FS_AddElement
<1>6. Types'
  BY <1>1, <1>2 DEF IInv, Types, Thread
<1>7. UpdateLockOwned' /\ FreshIsNew' /\ HeldWhileReading' /\ PlaceKept'
  BY <1>1, <1>2, ListAssumption, ThreadAssumption
  DEF IInv, Types, Updating, UpdateLockOwned, FreshIsNew, HeldWhileReading, PlaceKept, Thread
<1>8. ReachableIsAllocated'
  BY <1>1, <1>2 DEF IInv, Types, ReachableIsAllocated
<1>9. NothingLeaked'
  BY <1>2, <1>4 DEF IInv, Types, NothingLeaked
<1>10. CountsExact'
  <2>1. \A l \in allocated : numRequests'[l] = Cardinality(Readers(l)')
    BY <1>1, <1>2, <1>4, <1>5 DEF IInv, Types, CountsExact
  <2>. QED
    BY <1>2, <2>1 DEF IInv, CountsExact
<1>. QED
  BY <1>6, <1>7, <1>8, <1>9, <1>10 DEF IInv

(* A request is done with its list, which is freed if nobody else can reach it. *)
LEMMA PutListInv ==
  ASSUME IInv, NEW r \in Request, PutList(r)
  PROVE  IInv'
<1>. USE DEF Goto
<1>1. PICK l \in List : /\ held[r] = l /\ pc[r] = "reading" /\ l \in allocated
                        /\ l # fresh /\ r \in Readers(l)
  <2>1. held[r] \in List
    BY DEF PutList, IInv, Types, HeldWhileReading
  <2>2. pc[r] = "reading" /\ held[r] \in allocated
    BY DEF PutList, IInv, ReachableIsAllocated
  <2>3. held[r] # fresh /\ r \in Readers(held[r])
    BY <2>1, ListAssumption DEF IInv, FreshIsNew, Readers
  <2>. QED
    BY <2>1, <2>2, <2>3
<1>. DEFINE freed == IF numRequests[l] = 1 /\ l # current THEN {l} ELSE {}
<1>2. /\ held' = [held EXCEPT ![r] = None]
      /\ numRequests' = [numRequests EXCEPT ![l] = @ - 1]
      /\ allocated' = allocated \ freed
      /\ numInstances' = numInstances - Cardinality(freed)
      /\ pc' = [pc EXCEPT ![r] = "update"]
      /\ UNCHANGED <<current, updateLock, fresh>>
  BY <1>1 DEF PutList, Free
<1>3. numRequests[l] = Cardinality(Readers(l))
  BY <1>1 DEF IInv, CountsExact
<1>4. Readers(l)' = Readers(l) \ {r}
  BY <1>1, <1>2, ListAssumption DEF Readers, IInv, Types
<1>5. Cardinality(Readers(l)') = Cardinality(Readers(l)) - 1
  BY <1>1, <1>4, Finite, FS_RemoveElement
<1>6. \A k \in List \ {l} : Readers(k)' = Readers(k)
  BY <1>1, <1>2, ListAssumption DEF Readers, IInv, Types
<1>7. numRequests'[l] \in Nat /\ (numRequests[l] = 1 <=> Readers(l)' = {})
  <2>1. Readers(l)' = {} <=> Cardinality(Readers(l)') = 0
    BY <1>4, Finite, FS_EmptySet, FS_RemoveElement
  <2>2. Cardinality(Readers(l)') \in Nat
    BY <1>4, Finite, FS_RemoveElement, FS_CardinalityType
  <2>. QED
    BY <1>1, <1>2, <1>3, <1>5, <2>1, <2>2 DEF IInv, Types
<1>8. /\ freed \in SUBSET allocated /\ freed \in SUBSET (allocated \ {fresh})
      /\ IsFiniteSet(freed) /\ Cardinality(freed) \in {0, 1}
  BY <1>1, FS_EmptySet, FS_Singleton
<1>9. numInstances' = Cardinality(allocated' \ {fresh'})
  <2>1. numInstances = Cardinality(allocated \ {fresh}) /\ IsFiniteSet(allocated \ {fresh})
    BY Finite, FS_Subset DEF IInv, CountsExact
  <2>2. CASE freed = {}
    <3>1. Cardinality(freed) = 0
      BY <2>2, FS_EmptySet
    <3>2. numInstances' = numInstances
      BY <1>2, <3>1 DEF IInv, Types
    <3>3. allocated' \ {fresh'} = allocated \ {fresh}
      BY <1>2, <2>2
    <3>. QED
      BY <2>1, <3>2, <3>3
  <2>3. CASE freed = {l}
    <3>1. allocated' \ {fresh'} = (allocated \ {fresh}) \ {l}
      BY <1>2, <2>3
    <3>2. Cardinality((allocated \ {fresh}) \ {l}) = Cardinality(allocated \ {fresh}) - 1
      BY <1>1, <2>1, FS_RemoveElement
    <3>3. Cardinality(freed) = 1
      BY <2>3, FS_Singleton
    <3>. QED
      BY <1>2, <2>1, <3>1, <3>2, <3>3
  <2>. QED
    BY <2>2, <2>3
<1>10. numInstances' \in Nat /\ numInstances' <= numInstances
  <2>1. numInstances' \in Nat
    BY <1>2, <1>9, Finite, FS_Subset, FS_CardinalityType
  <2>. QED
    BY <1>2, <1>8, <2>1 DEF IInv, Types
<1>11. Types'
  <2>1. numRequests' \in [List -> Nat]
    BY <1>1, <1>2, <1>7 DEF IInv, Types
  <2>2. pc' \in [Thread -> {"idle", "reading", "update"} \cup Updating]
    BY <1>2 DEF IInv, Types
  <2>3. held' \in [Request -> List \cup {None}] /\ allocated' \subseteq List
    BY <1>2, <1>8 DEF IInv, Types
  <2>. QED
    BY <1>2, <1>10, <2>1, <2>2, <2>3 DEF IInv, Types
<1>12. UpdateLockOwned' /\ FreshIsNew' /\ HeldWhileReading'
  BY <1>1, <1>2, ListAssumption, ThreadAssumption
  DEF IInv, Types, Updating, UpdateLockOwned, FreshIsNew, HeldWhileReading, Thread
<1>13. PlaceKept'
  <2>1. \A t \in Thread : pc'[t] \in {"generate", "install"} => pc[t] \in {"generate", "install"}
    BY <1>2 DEF IInv, Types
  <2>. QED
    BY <1>10, <2>1, LimitAssumption DEF IInv, Types, PlaceKept
<1>14. ReachableIsAllocated'
  <2>1. \A k \in {current', fresh'} \ {None} : k \in allocated'
    BY <1>1, <1>2 DEF IInv, ReachableIsAllocated
  <2>2. ASSUME NEW q \in Request, pc'[q] = "reading"
        PROVE  held'[q] \in allocated'
    <3>1. q # r /\ pc[q] = "reading" /\ held'[q] = held[q] /\ held[q] \in allocated
      BY <1>2, <2>2 DEF IInv, Types, ReachableIsAllocated, Thread
    <3>2. held[q] = l => Readers(l)' # {}
      BY <1>4, <3>1 DEF Readers
    <3>. QED
      BY <1>2, <1>7, <3>1, <3>2
  <2>. QED
    BY <2>1, <2>2 DEF ReachableIsAllocated
<1>15. NothingLeaked'
  <2>. SUFFICES ASSUME NEW k \in allocated' \ {current', fresh'}
                PROVE  Readers(k)' # {}
    BY DEF NothingLeaked
  <2>1. k \in allocated /\ k \in List /\ k \notin {current, fresh} /\ k \notin freed
    BY <1>2 DEF IInv, Types
  <2>. QED
    BY <1>6, <1>7, <2>1 DEF IInv, NothingLeaked
<1>16. CountsExact'
  <2>1. ASSUME NEW k \in allocated' PROVE numRequests'[k] = Cardinality(Readers(k)')
    <3>1. k \in allocated /\ k \in List
      BY <1>2 DEF IInv, Types
    <3>. QED
      BY <1>1, <1>2, <1>3, <1>5, <1>6, <3>1 DEF IInv, Types, CountsExact
  <2>. QED
    BY <1>9, <2>1 DEF CountsExact
<1>. QED
  BY <1>11, <1>12, <1>13, <1>14, <1>15, <1>16 DEF IInv

(* A new list gets a free address. *)
LEMMA EndListInv ==
  ASSUME IInv, NEW t \in Thread, EndList(t)
  PROVE  IInv'
<1>. USE DEF Goto
<1>1. PICK l \in List \ allocated :
        /\ allocated' = allocated \cup {l}
        /\ numRequests' = [numRequests EXCEPT ![l] = 0]
        /\ fresh' = l
  BY DEF EndList
<1>2. /\ pc[t] = "generate" /\ pc' = [pc EXCEPT ![t] = "install"]
      /\ UNCHANGED <<held, current, numInstances, updateLock>>
  BY DEF EndList
<1>3. updateLock = t /\ fresh = None
  BY <1>2 DEF IInv, UpdateLockOwned, FreshIsNew, Updating
<1>4. l # None /\ l # current /\ \A r \in Request : held[r] # l
  BY ListAssumption DEF IInv, ReachableIsAllocated, HeldWhileReading
<1>5. \A k : Readers(k)' = Readers(k)
  BY <1>2 DEF Readers
<1>6. Types'
  BY <1>1, <1>2 DEF IInv, Types, Updating
<1>7. UpdateLockOwned' /\ HeldWhileReading'
  BY <1>2, <1>3, ThreadAssumption
  DEF IInv, Types, Updating, UpdateLockOwned, HeldWhileReading, Thread
<1>8. FreshIsNew'
  BY <1>1, <1>2, <1>3, <1>4 DEF IInv, Types, FreshIsNew
<1>9. PlaceKept'
  BY <1>2 DEF IInv, Types, PlaceKept
<1>10. ReachableIsAllocated'
  BY <1>1, <1>2 DEF IInv, Types, ReachableIsAllocated, Thread
<1>11. NothingLeaked'
  BY <1>1, <1>2, <1>3, <1>5, ListAssumption DEF IInv, Types, NothingLeaked
<1>12. CountsExact'
  <2>1. Readers(l) = {} /\ Cardinality(Readers(l)) = 0
    BY <1>4, FS_EmptySet DEF Readers
  <2>2. \A k \in allocated' : numRequests'[k] = Cardinality(Readers(k)')
    BY <1>1, <1>5, <2>1 DEF IInv, Types, CountsExact
  <2>3. allocated' \ {fresh'} = allocated \ {fresh}
    BY <1>1, <1>3, ListAssumption DEF IInv, Types
  <2>. QED
    BY <1>2, <2>2, <2>3 DEF IInv, CountsExact
<1>. QED
  BY <1>6, <1>7, <1>8, <1>9, <1>10, <1>11, <1>12 DEF IInv

(* The new list replaces the current one, which is freed if nobody reads it. *)
LEMMA InstallListInv ==
  ASSUME IInv, NEW t \in Thread, InstallList(t)
  PROVE  IInv'
<1>. USE DEF Goto
<1>. DEFINE unread == IF current # None /\ numRequests[current] = 0 THEN {current} ELSE {}
<1>1. /\ pc[t] = "install" /\ pc' = [pc EXCEPT ![t] = "unlock"]
      /\ allocated' = allocated \ unread
      /\ numInstances' = numInstances - Cardinality(unread) + 1
      /\ current' = fresh /\ fresh' = None
      /\ UNCHANGED <<held, numRequests, updateLock>>
  BY DEF InstallList
<1>2. /\ updateLock = t /\ fresh # None /\ fresh \in allocated /\ fresh # current
      /\ \A r \in Request : held[r] # fresh
  BY <1>1 DEF IInv, UpdateLockOwned, FreshIsNew, ReachableIsAllocated, Updating
<1>3. unread \subseteq allocated \ {fresh} /\ IsFiniteSet(unread) /\ Cardinality(unread) \in {0, 1}
  BY <1>2, FS_EmptySet, FS_Singleton DEF IInv, ReachableIsAllocated
<1>4. \A k : Readers(k)' = Readers(k)
  BY <1>1 DEF Readers
<1>5. unread # {} => Readers(current) = {}
  <2>1. ASSUME unread # {} PROVE Cardinality(Readers(current)) = 0
    BY <2>1 DEF IInv, ReachableIsAllocated, CountsExact
  <2>. QED
    BY <2>1, Finite, FS_EmptySet
<1>6. numInstances' = Cardinality(allocated')
  <2>1. Cardinality(allocated) = numInstances + 1
    BY <1>2, Allocated
  <2>2. CASE unread = {}
    <3>1. Cardinality(unread) = 0 /\ allocated' = allocated
      BY <1>1, <2>2, FS_EmptySet
    <3>. QED
      BY <1>1, <2>1, <3>1 DEF IInv, Types
  <2>3. CASE unread = {current}
    <3>1. Cardinality(unread) = 1 /\ allocated' = allocated \ {current}
      BY <1>1, <2>3, FS_Singleton
    <3>2. Cardinality(allocated \ {current}) = Cardinality(allocated) - 1
      BY <1>3, <2>3, Finite, FS_RemoveElement
    <3>3. Cardinality(allocated') = numInstances
      BY <2>1, <3>1, <3>2 DEF IInv, Types
    <3>4. numInstances' = numInstances
      BY <1>1, <3>1 DEF IInv, Types
    <3>. QED
      BY <3>3, <3>4
  <2>. QED
    BY <2>2, <2>3
<1>7. numInstances' \in Nat /\ numInstances' <= MaxInstances
  <2>1. numInstances' \in Nat
    BY <1>1, <1>6, Finite, FS_Subset, FS_CardinalityType
  <2>2. numInstances < MaxInstances
    BY <1>1 DEF IInv, PlaceKept
  <2>. QED
    BY <1>1, <1>3, <2>1, <2>2, LimitAssumption DEF IInv, Types
<1>8. Types'
  BY <1>1, <1>2, <1>7 DEF IInv, Types, Updating
<1>9. \A u \in Thread : pc'[u] \notin {"generate", "install"}
  BY <1>1, <1>2 DEF IInv, Types, UpdateLockOwned, Updating
<1>10. UpdateLockOwned' /\ HeldWhileReading'
  BY <1>1, <1>2, ThreadAssumption
  DEF IInv, Types, Updating, UpdateLockOwned, HeldWhileReading, Thread
<1>11. FreshIsNew' /\ PlaceKept'
  BY <1>1, <1>7, <1>9 DEF FreshIsNew, PlaceKept
<1>12. ReachableIsAllocated'
  <2>1. \A k \in {current', fresh'} \ {None} : k \in allocated'
    BY <1>1, <1>2, <1>3
  <2>2. ASSUME NEW r \in Request, pc'[r] = "reading"
        PROVE  held'[r] \in allocated'
    <3>1. pc[r] = "reading" /\ held'[r] = held[r] /\ held[r] \in allocated
      BY <1>1, <2>2 DEF IInv, Types, ReachableIsAllocated, Thread
    <3>2. r \in Readers(held[r])
      BY DEF Readers
    <3>. QED
      BY <1>1, <1>5, <3>1, <3>2
  <2>. QED
    BY <2>1, <2>2 DEF ReachableIsAllocated
<1>13. NothingLeaked'
  <2>. SUFFICES ASSUME NEW k \in allocated' \ {current', fresh'}
                PROVE  Readers(k)' # {}
    BY DEF NothingLeaked
  <2>1. k \in allocated /\ k # fresh /\ k \notin unread
    BY <1>1
  <2>2. CASE k = current
    <3>1. current # None /\ numRequests[current] # 0
      BY <2>1, <2>2, ListAssumption DEF IInv, Types
    <3>2. Cardinality(Readers(k)) # 0
      BY <2>1, <2>2, <3>1 DEF IInv, CountsExact
    <3>. QED
      BY <1>4, <3>2, FS_EmptySet
  <2>3. CASE k # current
    BY <1>4, <2>1, <2>3 DEF IInv, NothingLeaked
  <2>. QED
    BY <2>2, <2>3
<1>14. CountsExact'
  <2>1. allocated' \ {fresh'} = allocated'
    BY <1>1, ListAssumption DEF IInv, Types
  <2>2. \A k \in allocated' : numRequests'[k] = Cardinality(Readers(k)')
    BY <1>1, <1>4 DEF IInv, CountsExact
  <2>. QED
    BY <1>6, <2>1, <2>2 DEF CountsExact
<1>. QED
  BY <1>8, <1>10, <1>11, <1>12, <1>13, <1>14 DEF IInv
-----------------------------------------------------------------------------
(* Steps that leave the lists and their readers alone. *)
LEMMA ControlInv ==
  ASSUME IInv, UNCHANGED <<held, cacheVars, fresh>>,
         Types', UpdateLockOwned', HeldWhileReading', PlaceKept',
         \A t \in Thread : pc'[t] = "install" <=> pc[t] = "install",
         fresh # None => updateLock' = updateLock
  PROVE  IInv'
<1>1. FreshIsNew'
  BY DEF cacheVars, IInv, FreshIsNew
<1>2. ReachableIsAllocated'
  BY DEF cacheVars, IInv, ReachableIsAllocated, HeldWhileReading
<1>3. NothingLeaked' /\ CountsExact'
  BY DEF cacheVars, IInv, NothingLeaked, CountsExact, Readers
<1>. QED
  BY <1>1, <1>2, <1>3 DEF IInv

(* A thread that is not reading goes on, without making a list. *)
LEMMA GoOnInv ==
  ASSUME IInv, UNCHANGED <<held, cacheVars, fresh>>,
         NEW t \in Thread, pc[t] \in {"idle", "update", "check", "unlock"},
         NEW label \in {"idle", "update", "check", "generate", "unlock"},
         pc' = [pc EXCEPT ![t] = label],
         \/ updateLock' = updateLock /\ (label \in Updating => pc[t] \in Updating)
         \/ updateLock = None /\ updateLock' = t
         \/ pc[t] = "unlock" /\ updateLock' = None /\ label = "idle",
         label = "generate" => numInstances < MaxInstances
  PROVE  IInv'
<1>. USE DEF cacheVars
<1>1. Types'
  BY DEF IInv, Types, Updating
<1>2. \A u \in Thread \ {t} : pc'[u] = pc[u]
  BY DEF IInv, Types
<1>3. pc'[t] = label
  BY DEF IInv, Types
<1>4. UpdateLockOwned'
  <2>1. \A u \in Thread : pc[u] \in Updating => updateLock = u
    BY DEF IInv, UpdateLockOwned
  <2>. QED
    BY <1>2, <1>3, <2>1, ListAssumption DEF UpdateLockOwned, Updating
<1>5. HeldWhileReading'
  BY <1>2, <1>3 DEF IInv, HeldWhileReading, Thread
<1>6. PlaceKept'
  BY <1>2, <1>3 DEF IInv, PlaceKept
<1>7. \A u \in Thread : pc'[u] = "install" <=> pc[u] = "install"
  BY <1>2, <1>3
<1>8. fresh # None => updateLock' = updateLock
  BY ListAssumption DEF IInv, FreshIsNew, UpdateLockOwned, Updating
<1>. QED
  BY <1>1, <1>4, <1>5, <1>6, <1>7, <1>8, ControlInv

LEMMA InvStep == IInv /\ [Next]_vars => IInv'
<1>. SUFFICES ASSUME IInv, [Next]_vars PROVE IInv'
  OBVIOUS
<1>. USE DEF Goto, Updating
<1>1. ASSUME NEW r \in Request, TakeList(r) PROVE IInv'
  BY <1>1, TakeListInv
<1>2. ASSUME NEW r \in Request, PutList(r) PROVE IInv'
  BY <1>2, PutListInv
<1>3. ASSUME UNCHANGED <<pc, held, cacheVars, updateLock, fresh>> PROVE IInv'
  BY <1>3 DEF cacheVars, IInv, Types, UpdateLockOwned, FreshIsNew, HeldWhileReading,
              PlaceKept, ReachableIsAllocated, NothingLeaked, CountsExact, Readers
<1>4. ASSUME NEW r \in Request, TakeMissingList(r) PROVE IInv'
  BY <1>3, <1>4 DEF TakeMissingList
<1>5. CASE TimerFires
  BY <1>5, GoOnInv DEF TimerFires, Thread
<1>6. ASSUME NEW t \in Thread, LockUpdate(t) PROVE IInv'
  BY <1>6, GoOnInv DEF LockUpdate
<1>7. ASSUME NEW t \in Thread, SkipUpdate(t) PROVE IInv'
  BY <1>7, GoOnInv DEF SkipUpdate
<1>8. ASSUME NEW t \in Thread, NoMoreInstances(t) PROVE IInv'
  BY <1>8, GoOnInv DEF NoMoreInstances
<1>9. ASSUME NEW t \in Thread, BeginList(t) PROVE IInv'
  BY <1>9, GoOnInv DEF BeginList
<1>10. ASSUME NEW t \in Thread, EndList(t) PROVE IInv'
  BY <1>10, EndListInv
<1>11. ASSUME NEW t \in Thread, InstallList(t) PROVE IInv'
  BY <1>11, InstallListInv
<1>12. ASSUME NEW t \in Thread, UnlockUpdate(t) PROVE IInv'
  BY <1>12, GoOnInv DEF UnlockUpdate
<1>13. ASSUME NEW s \in Stream, PublishOrEnd(s) PROVE IInv'
  BY <1>3, <1>13 DEF PublishOrEnd
<1>14. CASE UNCHANGED vars
  BY <1>3, <1>14 DEF vars
<1>. QED
  BY <1>1, <1>2, <1>4, <1>5, <1>6, <1>7, <1>8, <1>9, <1>10, <1>11, <1>12, <1>13, <1>14
  DEF Next, UpdateStep
-----------------------------------------------------------------------------
(* The inductive invariant of the cached list. *)
THEOREM Invariance == Spec => []IInv
BY InvInit, InvStep, PTL DEF Spec

(* Whoever frees a list is the last who could reach it. *)
THEOREM ReachableIsAllocatedHolds == Spec => []ReachableIsAllocated
<1>1. IInv => ReachableIsAllocated
  BY DEF IInv
<1>. QED BY <1>1, Invariance, PTL

(* A list that is neither current nor being installed has a reader to free it. *)
THEOREM NothingLeakedHolds == Spec => []NothingLeaked
<1>1. IInv => NothingLeaked
  BY DEF IInv
<1>. QED BY <1>1, Invariance, PTL

(* num_requests and num_stream_names_instances count what they say. *)
THEOREM CountsExactHolds == Spec => []CountsExact
<1>1. IInv => CountsExact
  BY DEF IInv
<1>. QED BY <1>1, Invariance, PTL

(* The limit on lists holds although it is checked long before a list is made: *)
(* only the owner of update_lock adds one.                                     *)
THEOREM InstancesBoundedHolds == Spec => []InstancesBounded
<1>1. ASSUME IInv PROVE InstancesBounded
  <2>1. fresh # None => numInstances < MaxInstances
    BY <1>1 DEF IInv, FreshIsNew, PlaceKept
  <2>. QED
    BY <1>1, <2>1, Allocated, LimitAssumption DEF IInv, Types, PlaceKept, InstancesBounded
<1>. QED BY <1>1, Invariance, PTL
-----------------------------------------------------------------------------
(* Every variable has its type. *)
THEOREM TypeCorrect == Spec => []TypeOK
<1>1. ASSUME Init PROVE TypeOK
  <2>1. Types
    BY <1>1, InvInit DEF IInv
  <2>2. names \in [List -> SUBSET Stream] /\ crashed \in BOOLEAN
    BY <1>1 DEF Init
  <2>3. {registry, throughout, sometime} \subseteq SUBSET Stream
    BY <1>1 DEF Init
  <2>. QED
    BY <2>1, <2>2, <2>3 DEF Types, TypeOK, Updating
<1>2. ASSUME TypeOK, IInv', [Next]_vars PROVE TypeOK'
  <2>1. Types' /\ (crashed' = crashed \/ crashed' = TRUE)
    BY <1>2 DEF IInv, Next, vars, TakeList, TakeMissingList, PutList, TimerFires, UpdateStep,
       LockUpdate, SkipUpdate, NoMoreInstances, BeginList, EndList, InstallList, UnlockUpdate,
       PublishOrEnd
  <2>2. /\ names' \in [List -> SUBSET Stream]
        /\ registry' \subseteq Stream /\ throughout' \subseteq Stream /\ sometime' \subseteq Stream
    <3>1. CASE \E t \in Thread : EndList(t)
      BY <1>2, <3>1 DEF TypeOK, EndList, registryVars
    <3>2. CASE \E t \in Thread : BeginList(t)
      BY <1>2, <3>2 DEF TypeOK, BeginList, cacheVars
    <3>3. CASE \E s \in Stream : PublishOrEnd(s)
      BY <1>2, <3>3 DEF TypeOK, PublishOrEnd, cacheVars
    <3>4. CASE UNCHANGED <<names, registryVars>>
      BY <1>2, <3>4 DEF TypeOK, registryVars
    <3>. QED
      BY <1>2, <3>1, <3>2, <3>3, <3>4
      DEF Next, vars, cacheVars, TakeList, TakeMissingList, PutList, TimerFires, UpdateStep,
          LockUpdate, SkipUpdate, NoMoreInstances, InstallList, UnlockUpdate
  <2>. QED
    BY <1>2, <2>1, <2>2 DEF Types, TypeOK, Updating
<1>. QED BY Invariance, <1>1, <1>2, PTL DEF Spec

-----------------------------------------------------------------------------
(* The variables of StreamListCache, as WebApi has them. *)
cacheView == <<Cache!listingVars, ListAt(current), [r \in Request |-> ListAt(held[r])]>>

(* Steps that nobody can see who only looks at the lists. *)
LEMMA InvisibleStep ==
  ASSUME UNCHANGED <<held, current, names, fresh, registryVars>>,
         Making' = Making
  PROVE  UNCHANGED cacheView
BY DEF cacheView, Cache!listingVars, ListAt, registryVars

(* Nobody is in stream_names after a step that takes nobody there. *)
LEMMA MakingFrame ==
  ASSUME IInv, NEW t \in Thread, NEW label,
         pc' = [pc EXCEPT ![t] = label], pc[t] # "generate", label # "generate"
  PROVE  Making' = Making
<1>1. \A u \in Thread : pc'[u] = "generate" <=> pc[u] = "generate"
  BY DEF IInv, Types
<1>. QED
  BY <1>1 DEF Making

(* While a list is made, its maker is the only one, and none is finished. *)
LEMMA OneMaker ==
  ASSUME IInv, NEW t \in Thread, pc[t] \in Updating \ {"install"}
  PROVE  fresh = None /\ \A u \in Thread \ {t} : pc[u] \notin Updating
<1>1. updateLock = t
  BY DEF IInv, UpdateLockOwned, Updating
<1>. QED
  BY <1>1 DEF IInv, UpdateLockOwned, FreshIsNew, Updating

(* A request takes the list made last, ... *)
LEMMA TakeListMapped ==
  ASSUME IInv, NEW r \in Request, TakeList(r)
  PROVE  Cache!Take(r) /\ UNCHANGED Cache!listingVars
<1>1. held[r] = None /\ current # None
  BY DEF TakeList, IInv, HeldWhileReading
<1>2. held' = [held EXCEPT ![r] = current]
      /\ UNCHANGED <<current, names, fresh, registryVars>>
  BY DEF TakeList
<1>3. Making' = Making
  BY MakingFrame DEF TakeList, Goto, Thread
<1>4. [q \in Request |-> ListAt(held[q])]' =
        [[q \in Request |-> ListAt(held[q])] EXCEPT ![r] = ListAt(current)]
  BY <1>2 DEF ListAt, IInv, Types
<1>5. UNCHANGED <<Cache!listingVars, ListAt(current)>>
  BY <1>2, <1>3 DEF Cache!listingVars, ListAt, registryVars
<1>. QED
  BY <1>1, <1>4, <1>5 DEF Cache!Take, ListAt

(* ... reads it until it puts it back, ... *)
LEMMA PutListMapped ==
  ASSUME IInv, NEW r \in Request, PutList(r)
  PROVE  Cache!Put(r) /\ UNCHANGED Cache!listingVars
<1>1. held[r] # None
  BY DEF PutList, IInv, HeldWhileReading
<1>2. held' = [held EXCEPT ![r] = None]
      /\ UNCHANGED <<current, names, fresh, registryVars>>
  BY DEF PutList
<1>3. Making' = Making
  BY MakingFrame DEF PutList, Goto, Thread
<1>4. [q \in Request |-> ListAt(held[q])]' =
        [[q \in Request |-> ListAt(held[q])] EXCEPT ![r] = {}]
  BY <1>2 DEF ListAt, IInv, Types
<1>5. UNCHANGED <<Cache!listingVars, ListAt(current)>>
  BY <1>2, <1>3 DEF Cache!listingVars, ListAt, registryVars
<1>. QED
  BY <1>1, <1>4, <1>5 DEF Cache!Put, ListAt

(* ... a thread that may make a list begins it, ... *)
LEMMA BeginListMapped ==
  ASSUME IInv, NEW t \in Thread, BeginList(t)
  PROVE  Cache!Begin /\ UNCHANGED <<ListAt(current), [r \in Request |-> ListAt(held[r])]>>
<1>1. pc[t] = "check" /\ fresh = None /\ ~Making
  BY OneMaker DEF BeginList, Updating, Making
<1>2. Making'
  BY DEF BeginList, Goto, Making, IInv, Types
<1>3. /\ throughout' = registry /\ sometime' = registry
      /\ UNCHANGED <<registry, fresh, names, current, held>>
  BY DEF BeginList, cacheVars
<1>. QED
  BY <1>1, <1>2, <1>3 DEF Cache!Begin, ListAt

(* ... finishes it at an address where nobody reads, ... *)
LEMMA EndListMapped ==
  ASSUME IInv, TypeOK, NEW t \in Thread, EndList(t)
  PROVE  /\ \E listed \in SUBSET sometime : Making /\ Cache!Finish(listed)
         /\ UNCHANGED <<ListAt(current), [r \in Request |-> ListAt(held[r])]>>
<1>1. PICK l \in List \ allocated, listed \in SUBSET sometime :
        /\ throughout \subseteq listed
        /\ names' = [names EXCEPT ![l] = listed]
        /\ fresh' = l
  BY DEF EndList
<1>2. /\ pc[t] = "generate" /\ pc' = [pc EXCEPT ![t] = "install"]
      /\ UNCHANGED <<held, current, registryVars>>
  BY DEF EndList, Goto
<1>3. Making /\ ~Making'
  BY <1>2, OneMaker DEF Making, Updating, IInv, Types
<1>4. ListAt(fresh)' = {listed}
  BY <1>1, ListAssumption DEF ListAt, TypeOK
<1>5. current # l /\ \A r \in Request : held[r] # l
  BY <1>1, ListAssumption DEF IInv, ReachableIsAllocated, HeldWhileReading
<1>6. UNCHANGED <<ListAt(current), [r \in Request |-> ListAt(held[r])]>>
  BY <1>1, <1>2, <1>5 DEF ListAt, TypeOK
<1>7. Cache!Finish(listed)
  BY <1>1, <1>2, <1>3, <1>4 DEF Cache!Finish, registryVars
<1>. QED
  BY <1>3, <1>6, <1>7

(* ... and installs it. *)
LEMMA InstallListMapped ==
  ASSUME IInv, NEW t \in Thread, InstallList(t)
  PROVE  Cache!Install
<1>1. fresh # None /\ fresh' = None /\ current' = fresh
      /\ UNCHANGED <<held, names, registryVars>>
  BY DEF InstallList, IInv, FreshIsNew
<1>2. Making' = Making
  BY MakingFrame DEF InstallList, Goto
<1>. QED
  BY <1>1, <1>2 DEF Cache!Install, Cache!HandOver, ListAt, registryVars

LEMMA PublishOrEndMapped ==
  ASSUME IInv, NEW s \in Stream, PublishOrEnd(s)
  PROVE  Cache!PublishOrEnd(s)
         /\ UNCHANGED <<ListAt(current), [r \in Request |-> ListAt(held[r])]>>
<1>1. Making' = Making /\ UNCHANGED <<held, current, fresh, names>>
  BY DEF PublishOrEnd, Making, cacheVars
<1>. QED
  BY <1>1 DEF PublishOrEnd, Cache!PublishOrEnd, ListAt

LEMMA StepMapped ==
  ASSUME IInv, TypeOK, [Next]_vars
  PROVE  [Cache!CacheNext]_cacheView
<1>. USE DEF Cache!CacheNext, Cache!MakeList
<1>1. ASSUME NEW r \in Request, TakeList(r) PROVE Cache!CacheNext
  BY <1>1, TakeListMapped
<1>2. ASSUME NEW r \in Request, PutList(r) PROVE Cache!CacheNext
  BY <1>2, PutListMapped
<1>3. ASSUME NEW t \in Thread, BeginList(t) PROVE Cache!CacheNext
  BY <1>3, BeginListMapped
<1>4. ASSUME NEW t \in Thread, EndList(t) PROVE Cache!CacheNext
  BY <1>4, EndListMapped
<1>5. ASSUME NEW t \in Thread, InstallList(t) PROVE Cache!CacheNext
  BY <1>5, InstallListMapped
<1>6. ASSUME NEW s \in Stream, PublishOrEnd(s) PROVE Cache!CacheNext
  BY <1>6, PublishOrEndMapped
<1>7. ASSUME NEW r \in Request, TakeMissingList(r) PROVE UNCHANGED cacheView
  BY <1>7, InvisibleStep DEF TakeMissingList, cacheVars, Making
<1>8. ASSUME NEW t \in Thread,
             \/ LockUpdate(t) \/ SkipUpdate(t) \/ NoMoreInstances(t) \/ UnlockUpdate(t)
             \/ t = Timer /\ TimerFires
      PROVE  UNCHANGED cacheView
  <2>1. Making' = Making
    BY <1>8, MakingFrame
    DEF LockUpdate, SkipUpdate, NoMoreInstances, UnlockUpdate, TimerFires, Goto
  <2>2. UNCHANGED <<held, current, names, fresh, registryVars>>
    BY <1>8
    DEF LockUpdate, SkipUpdate, NoMoreInstances, UnlockUpdate, TimerFires, cacheVars
  <2>. QED
    BY <2>1, <2>2, InvisibleStep
<1>9. CASE UNCHANGED vars
  BY <1>9, InvisibleStep DEF vars, cacheVars, Making
<1>. QED
  BY <1>1, <1>2, <1>3, <1>4, <1>5, <1>6, <1>7, <1>8, <1>9 DEF Next, UpdateStep, Thread

(* The cached list implements StreamListCache: a request reads one list, the *)
(* newest when it began, whatever is freed and replaced while it writes.     *)
THEOREM Refinement == Spec => ImplementsListCache
<1>1. Init => Cache!CacheInit
  BY ThreadAssumption DEF Init, Cache!CacheInit, Cache!Init, ListAt, Making
<1>2. IInv /\ TypeOK /\ [Next]_vars => [Cache!CacheNext]_cacheView
  BY StepMapped
<1>. QED
  BY Invariance, TypeCorrect, <1>1, <1>2, PTL
  DEF Spec, ImplementsListCache, Cache!CacheSpec, cacheView
=============================================================================
