------------------------- MODULE AuthenticatorProofs -------------------------
(***************************************************************************)
(* Proofs about Authenticator, for any number of callers and any limit.    *)
(* The three invariants are inductive together: the counter is exact, and  *)
(* a place is taken only while the counter is below the limit.             *)
(***************************************************************************)
EXTENDS Authenticator, FiniteSetTheorems, TLAPS

Inv == TypeOK /\ PlacesAccountedFor /\ InFlightBounded

(* The number of calls in flight is a number. *)
LEMMA InFlightCount ==
  IsFiniteSet(InFlight) /\ Cardinality(InFlight) \in Nat
BY CallerAssumption, FS_Subset, FS_CardinalityType DEF InFlight

LEMMA InvInit == Init => Inv
<1>1. ASSUME Init PROVE InFlight = {}
  BY <1>1 DEF Init, InFlight
<1>. QED
  BY <1>1, FS_EmptySet, CallerAssumption
  DEF Inv, Init, TypeOK, PlacesAccountedFor, InFlightBounded

(* A step that takes a place, one that gives it back, one that loses it: the *)
(* number of calls in flight changes by one, and so does the counter or the  *)
(* number of lost places.                                                    *)
LEMMA InvStep == Inv /\ [Next]_vars => Inv'
<1>. SUFFICES ASSUME Inv, [Next]_vars PROVE Inv'
  OBVIOUS
<1>. USE InFlightCount, CallerAssumption
     DEF Inv, TypeOK, PlacesAccountedFor, InFlightBounded
<1>1. ASSUME NEW t \in Caller, Refuse(t) PROVE Inv'
  <2>1. InFlight' = InFlight
    BY <1>1 DEF Refuse, Return, Goto, InFlight
  <2>. QED BY <1>1, <2>1 DEF Refuse, Return, Goto
<1>2. ASSUME NEW t \in Caller, TakePlace(t) PROVE Inv'
  <2>1. t \notin InFlight /\ InFlight' = InFlight \cup {t}
    BY <1>2 DEF TakePlace, Goto, InFlight
  <2>2. Cardinality(InFlight \cup {t}) = Cardinality(InFlight) + 1
    BY <2>1, FS_AddElement
  <2>3. TypeOK'
    BY <1>2 DEF TakePlace, Goto, UintInc, Exceeded
  <2>. QED BY <1>2, <2>1, <2>2, <2>3 DEF TakePlace, UintInc, Exceeded
<1>3. ASSUME NEW t \in Caller, RejectIllegal(t) PROVE Inv'
  <2>1. t \in InFlight /\ InFlight' = InFlight \ {t}
    BY <1>3 DEF RejectIllegal, Return, Goto, InFlight
  <2>2. Cardinality(InFlight \ {t}) = Cardinality(InFlight) - 1
    BY <2>1, FS_RemoveElement
  <2>3. TypeOK'
    BY <1>3 DEF RejectIllegal, Return, Goto
  <2>. QED BY <1>3, <2>1, <2>2, <2>3 DEF RejectIllegal
<1>4. ASSUME NEW t \in Caller, RunCommand(t) \/ CommandExits(t) PROVE Inv'
  <2>1. InFlight' = InFlight
    BY <1>4 DEF RunCommand, CommandExits, Goto, InFlight
  <2>2. TypeOK'
    BY <1>4 DEF RunCommand, CommandExits, Goto
  <2>. QED BY <1>4, <2>1, <2>2 DEF RunCommand, CommandExits
<1>5. ASSUME NEW t \in Caller, ReturnPlace(t) PROVE Inv'
  <2>1. t \in InFlight /\ InFlight' = InFlight \ {t}
    BY <1>5 DEF ReturnPlace, Return, Goto, InFlight
  <2>2. Cardinality(InFlight \ {t}) = Cardinality(InFlight) - 1
    BY <2>1, FS_RemoveElement
  <2>3. Cardinality(InFlight \ {t}) \in Nat
    BY FS_RemoveElement, FS_CardinalityType
  <2>5. CASE MaxPending = 0
    <3>1. TypeOK'
      BY <1>5, <2>5 DEF ReturnPlace, Return, Goto, UintDec
    <3>. QED BY <2>5, <3>1
  <2>6. CASE MaxPending > 0
    <3>1. numPending = Cardinality(InFlight) + unreturned /\ numPending > 0
      BY <2>2, <2>3, <2>6
    <3>2. numPending' = numPending - 1 /\ unreturned' = unreturned
      BY <1>5, <3>1 DEF ReturnPlace, UintDec
    <3>3. Cardinality(InFlight') = Cardinality(InFlight) - 1
      BY <2>1, <2>2
    <3>4. PlacesAccountedFor'
      BY <3>1, <3>2, <3>3
    <3>5. InFlightBounded'
      BY <3>2, <3>3
    <3>6. TypeOK'
      BY <1>5, <3>1, <3>2 DEF ReturnPlace, Return, Goto
    <3>. QED BY <3>4, <3>5, <3>6
  <2>. QED BY <2>5, <2>6
<1>6. CASE UNCHANGED vars
  BY <1>6 DEF vars, InFlight
<1>. QED BY <1>1, <1>2, <1>3, <1>4, <1>5, <1>6 DEF Next

(* The limit holds, the counter is exact, the types are kept. *)
THEOREM Invariance == Spec => []Inv
BY InvInit, InvStep, PTL DEF Spec

(* Every variable has its type: the counter of pending authentications stays *)
(* within the limit, or within the unsigned int when there is none.          *)
THEOREM TypeCorrect == Spec => []TypeOK
<1>1. Inv => TypeOK
  BY DEF Inv
<1>. QED BY Invariance, <1>1, PTL

(* Never more authentication commands at once than --max-pending-connections. *)
THEOREM InFlightBoundedHolds == Spec => []InFlightBounded
<1>1. Inv => InFlightBounded
  BY DEF Inv
<1>. QED BY Invariance, <1>1, PTL

(* Every place is in use or was lost by a rejected name or address. *)
THEOREM PlacesAccountedForHolds == Spec => []PlacesAccountedFor
<1>1. Inv => PlacesAccountedFor
  BY DEF Inv
<1>. QED BY Invariance, <1>1, PTL
=============================================================================
