---------------------------- MODULE Authenticator ----------------------------
(***************************************************************************)
(* authenticate (authenticator.c): how many connections may be waiting for *)
(* the external authentication command at once.  Every publisher and       *)
(* subscriber thread goes through it before it touches the stream map.     *)
(* The counter is only touched under num_connections_lock, and nothing     *)
(* else happens under that lock: each critical section is one step.        *)
(***************************************************************************)
EXTENDS Integers, FiniteSets

CONSTANTS
  Caller,      \* threads that authenticate a connection, one connection after another
  MaxPending,  \* max_pending_connections, 0 for no limit
  UintSize     \* number of values of an unsigned int, 2^32

ASSUME CallerAssumption ==
  /\ IsFiniteSet(Caller)
  /\ MaxPending \in Nat
  /\ UintSize \in Nat
  /\ MaxPending < UintSize

VARIABLES
  numPending,  \* auth->num_pending_connections
  pc,          \* where each caller is
  returned,    \* what authenticate returned to each caller last: a name, or NULL
  unreturned   \* ghost: how many calls took a place and never gave it back

vars == <<numPending, pc, returned, unreturned>>

Init ==
  /\ numPending = 0
  /\ pc = [t \in Caller |-> "out"]
  /\ returned = [t \in Caller |-> "none"]
  /\ unreturned = 0

(* Mutant of Exceeded: one more than the limit. *)
Passed == MaxPending # 0 /\ numPending > MaxPending

(* max_pending_connections_exceeded *)
Exceeded == MaxPending # 0 /\ numPending >= MaxPending

UintInc(n) == IF n = UintSize - 1 THEN 0 ELSE n + 1
UintDec(n) == IF n = 0 THEN UintSize - 1 ELSE n - 1

Goto(t, label) == pc' = [pc EXCEPT ![t] = label]
Return(t, value) ==
  /\ Goto(t, "out")
  /\ returned' = [returned EXCEPT ![t] = value]

(* No place is left: NULL, and the caller closes the connection. *)
Refuse(t) ==
  /\ pc[t] = "out"
  /\ Exceeded
  /\ Return(t, "null")
  /\ UNCHANGED <<numPending, unreturned>>

(* Mutant of TakePlace: the limit is checked, the place is not taken. *)
TakeNoPlace(t) ==
  /\ pc[t] = "out"
  /\ ~Exceeded
  /\ Goto(t, "sanitize")
  /\ UNCHANGED <<numPending, returned, unreturned>>

TakePlace(t) ==
  /\ pc[t] = "out"
  /\ ~Exceeded
  /\ numPending' = UintInc(numPending)
  /\ Goto(t, "sanitize")
  /\ UNCHANGED <<returned, unreturned>>

(* The address or the name has a character a shell could act on: NULL at once. *)
RejectIllegal(t) ==
  /\ pc[t] = "sanitize"
  /\ Return(t, "null")
  /\ unreturned' = unreturned + 1
  /\ UNCHANGED numPending

(* Mutant of RunCommand: when popen fails, NULL is returned at once. *)
RunCommandOrReturn(t) ==
  /\ pc[t] = "sanitize"
  /\ \/ Goto(t, "running") /\ UNCHANGED returned
     \/ Return(t, "null")
  /\ UNCHANGED <<numPending, unreturned>>

(* popen: the command runs, or could not be started. *)
RunCommand(t) ==
  /\ pc[t] = "sanitize"
  /\ \E label \in {"running", "failed"} : Goto(t, label)
  /\ UNCHANGED <<numPending, returned, unreturned>>

(* The output is read to its end; the exit status decides what it is worth. *)
CommandExits(t) ==
  /\ pc[t] = "running"
  /\ \E label \in {"accepted", "failed"} : Goto(t, label)
  /\ UNCHANGED <<numPending, returned, unreturned>>

ReturnPlace(t) ==
  /\ pc[t] \in {"accepted", "failed"}
  /\ numPending' = UintDec(numPending)
  /\ Return(t, IF pc[t] = "accepted" THEN "name" ELSE "null")
  /\ UNCHANGED unreturned

Next ==
  \E t \in Caller :
    \/ Refuse(t) \/ TakePlace(t)
    \/ RejectIllegal(t) \/ RunCommand(t) \/ CommandExits(t)
    \/ ReturnPlace(t)

Spec == Init /\ [][Next]_vars
-----------------------------------------------------------------------------
(* The calls that are between taking a place and returning. *)
InFlight == {t \in Caller : pc[t] # "out"}

TypeOK ==
  /\ numPending \in 0 .. (IF MaxPending > 0 THEN MaxPending ELSE UintSize - 1)
  /\ pc \in [Caller -> {"out", "sanitize", "running", "accepted", "failed"}]
  /\ returned \in [Caller -> {"none", "name", "null"}]
  /\ unreturned \in Nat

(* With a limit set, never more commands run than the limit allows, whatever *)
(* the calls did before: lost places make the limit tighter, never looser.   *)
InFlightBounded ==
  MaxPending > 0 => Cardinality(InFlight) + unreturned <= MaxPending

(* The counter is the number of calls in flight and of places lost for good, *)
(* so that it neither wraps below zero nor ever recovers a lost place.       *)
PlacesAccountedFor ==
  MaxPending > 0 => numPending = Cardinality(InFlight) + unreturned

(* The limit is "the maximum number of pending connections at one time"      *)
(* (config.h): a connection is turned away for it only when that many are    *)
(* pending.                                                                  *)
RefusedOnlyWhenFull == Exceeded => Cardinality(InFlight) = MaxPending
=============================================================================
