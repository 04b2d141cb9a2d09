--------------------------- MODULE StreamListCache ---------------------------
(***************************************************************************)
(* What /api/streams/ promises, without addresses, counters or threads:    *)
(* each request reads, from its beginning to its end, one list, which was  *)
(* the most recent when the request began; and lists replace each other in *)
(* the order in which they are made.  WebApi implements it.                *)
(***************************************************************************)
EXTENDS StreamListing

CONSTANT
  Request  \* those that answer /api/streams/ requests

VARIABLES
  current,  \* the most recent list, if there is one yet
  reading   \* what each request reads: nothing, or a list

CacheInit ==
  /\ Init
  /\ current = {}
  /\ reading = [r \in Request |-> {}]

Install ==
  /\ HandOver
  /\ current' = ready
  /\ UNCHANGED reading

Take(r) ==
  /\ reading[r] = {} /\ current # {}
  /\ reading' = [reading EXCEPT ![r] = current]
  /\ UNCHANGED <<listingVars, current>>

Put(r) ==
  /\ reading[r] # {}
  /\ reading' = [reading EXCEPT ![r] = {}]
  /\ UNCHANGED <<listingVars, current>>

CacheNext ==
  \/ MakeList /\ UNCHANGED <<current, reading>>
  \/ Install
  \/ \E r \in Request : Take(r) \/ Put(r)

CacheSpec == CacheInit /\ [][CacheNext]_<<listingVars, current, reading>>
=============================================================================
