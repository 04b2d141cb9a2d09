---------------------------- MODULE DoublingProofs ----------------------------
(***************************************************************************)
(* Doubling finds room, whatever is needed.  Power is a recursive function *)
(* whose existence and growth are proved by induction over a set of        *)
(* numbers, which is all the induction that is needed.                     *)
(***************************************************************************)
EXTENDS Doubling, WellFoundedInduction, TLAPS

(* A set of natural numbers has a least one. *)
Less == {ss \in Nat \X Nat : ss[1] < ss[2]}

LEMMA LessWellFounded == IsWellFoundedOn(Less, Nat)
BY NatLessThanWellFounded, Zenon DEF OpToRel, Less

LEMMA Least ==
  ASSUME NEW T, T \subseteq Nat, T # {}
  PROVE  \E x \in T : \A y \in T : x <= y
<1>1. PICK x \in T : \A y \in T : ~ (<<y, x>> \in Less)
  BY LessWellFounded, WFMin
<1>2. ASSUME NEW y \in T PROVE x <= y
  <2>1. x \in Nat /\ y \in Nat
    OBVIOUS
  <2>2. y < x => <<y, x>> \in Less
    BY <2>1 DEF Less
  <2>3. ~ (y < x)
    BY <1>1, <2>2
  <2>. QED
    BY <2>1, <2>3
<1>. QED
  BY <1>2

LEMMA MinFacts ==
  ASSUME NEW T, T \subseteq Nat, T # {}
  PROVE  Min(T) \in T /\ \A y \in T : Min(T) <= y
BY Least DEF Min

(* A set of numbers with 0 and all successors has all of them. *)
LEMMA Induction ==
  ASSUME NEW S \in SUBSET Nat, 0 \in S, \A n \in S : n + 1 \in S
  PROVE  S = Nat
<1>1. SUFFICES ASSUME Nat \ S # {} PROVE FALSE
  OBVIOUS
<1>2. PICK x \in Nat \ S : \A y \in Nat \ S : x <= y
  BY <1>1, Least
<1>3. x - 1 \in Nat /\ x - 1 < x
  BY <1>2
<1>4. x - 1 \in S
  BY <1>2, <1>3
<1>. QED
  BY <1>2, <1>4
-----------------------------------------------------------------------------
(* The powers of two up to the n-th, as a finite function. *)
UpTo(n) == {f \in [0 .. n -> Nat] : f[0] = 1 /\ \A j \in 1 .. n : f[j] = 2 * f[j - 1]}

LEMMA UpToExists ==
  ASSUME NEW n \in Nat PROVE UpTo(n) # {}
<1>. DEFINE S == {m \in Nat : UpTo(m) # {}}
<1>1. 0 \in S
  <2>1. [j \in 0 .. 0 |-> 1] \in UpTo(0)
    BY DEF UpTo
  <2>. QED
    BY <2>1
<1>2. ASSUME NEW m \in S PROVE m + 1 \in S
  <2>1. PICK f : f \in UpTo(m)
    BY <1>2
  <2>. DEFINE g == [j \in 0 .. m + 1 |-> IF j <= m THEN f[j] ELSE 2 * f[m]]
  <2>2. m \in Nat /\ f \in [0 .. m -> Nat] /\ f[0] = 1 /\ \A j \in 1 .. m : f[j] = 2 * f[j - 1]
    BY <2>1 DEF UpTo
  <2>3. g \in [0 .. m + 1 -> Nat] /\ g[0] = 1
    BY <2>2
  <2>4. ASSUME NEW j \in 1 .. m + 1 PROVE g[j] = 2 * g[j - 1]
    <3>1. j - 1 \in 0 .. m /\ g[j - 1] = f[j - 1]
      BY <2>2
    <3>2. CASE j <= m
      BY <2>2, <3>1, <3>2
    <3>3. CASE j = m + 1
      BY <2>2, <3>1, <3>3
    <3>. QED
      BY <2>2, <3>2, <3>3
  <2>5. g \in UpTo(m + 1)
    BY <2>3, <2>4 DEF UpTo
  <2>. QED
    BY <2>2, <2>5
<1>3. S \in SUBSET Nat
  OBVIOUS
<1>. HIDE DEF S
<1>4. S = Nat
  BY <1>1, <1>2, <1>3, Induction
<1>. QED
  BY <1>4 DEF S

(* Two of them agree as far as both go. *)
LEMMA UpToAgrees ==
  ASSUME NEW n \in Nat, NEW m \in Nat, NEW f \in UpTo(n), NEW g \in UpTo(m),
         NEW j \in Nat, j <= n, j <= m
  PROVE  f[j] = g[j]
<1>. DEFINE S == {k \in Nat : k <= n /\ k <= m => f[k] = g[k]}
<1>1. 0 \in S
  BY DEF UpTo
<1>2. ASSUME NEW k \in S PROVE k + 1 \in S
  <2>. SUFFICES ASSUME k + 1 <= n, k + 1 <= m PROVE f[k + 1] = g[k + 1]
    OBVIOUS
  <2>1. k \in Nat /\ f[k] = g[k] /\ (k + 1) - 1 = k
    OBVIOUS
  <2>2. k + 1 \in 1 .. n /\ k + 1 \in 1 .. m
    BY <2>1
  <2>. QED
    BY <2>1, <2>2 DEF UpTo
<1>3. S \in SUBSET Nat
  OBVIOUS
<1>. HIDE DEF S
<1>4. S = Nat
  BY <1>1, <1>2, <1>3, Induction
<1>. QED
  BY <1>4 DEF S

(* Power is what its recursive definition says. *)
LEMMA PowerDef == Power = [j \in Nat |-> IF j = 0 THEN 1 ELSE 2 * Power[j - 1]]
<1>. DEFINE Best(j) == CHOOSE f : f \in UpTo(j)
            P == [j \in Nat |-> Best(j)[j]]
<1>1. \A j \in Nat : Best(j) \in UpTo(j)
  BY UpToExists
<1>. HIDE DEF Best
<1>2. P[0] = 1
  BY <1>1 DEF UpTo
<1>3. ASSUME NEW j \in Nat, j # 0 PROVE P[j] = 2 * P[j - 1]
  <2>1. j - 1 \in Nat /\ j \in 1 .. j /\ j - 1 <= j
    BY <1>3
  <2>2. Best(j)[j] = 2 * Best(j)[j - 1]
    BY <1>1, <2>1 DEF UpTo
  <2>3. Best(j)[j - 1] = Best(j - 1)[j - 1]
    BY <1>1, <2>1, UpToAgrees
  <2>. QED
    BY <2>1, <2>2, <2>3
<1>4. P = [j \in Nat |-> IF j = 0 THEN 1 ELSE 2 * P[j - 1]]
  BY <1>2, <1>3
<1>. HIDE DEF P
<1>. QED
  BY <1>4 DEF Power

(* The powers grow without bound. *)
LEMMA PowerGrows ==
  ASSUME NEW j \in Nat PROVE Power[j] \in Nat /\ Power[j] > j
<1>. DEFINE S == {k \in Nat : Power[k] \in Nat /\ Power[k] > k}
<1>1. 0 \in S
  BY PowerDef
<1>2. ASSUME NEW k \in S PROVE k + 1 \in S
  <2>1. Power[k + 1] = 2 * Power[k]
    BY PowerDef
  <2>. QED
    BY <2>1
<1>3. S \in SUBSET Nat
  OBVIOUS
<1>. HIDE DEF S
<1>4. S = Nat
  BY <1>1, <1>2, <1>3, Induction
<1>. QED
  BY <1>4 DEF S
-----------------------------------------------------------------------------
(* Doubling finds room for what is needed, and never gives any up. *)
LEMMA DoubledFacts ==
  ASSUME NEW room \in Nat \ {0}, NEW needed \in Nat
  PROVE  /\ Doubled(room, needed) \in Nat
         /\ Doubled(room, needed) >= needed
         /\ Doubled(room, needed) >= room
         /\ needed <= room => Doubled(room, needed) = room
<1>. DEFINE Rooms == {room * Power[j] : j \in 0 .. needed}
            Enough == {c \in Rooms : c >= needed}
<1>1. ASSUME NEW j \in 0 .. needed
      PROVE  room * Power[j] \in Nat /\ room * Power[j] >= room /\ room * Power[j] >= Power[j]
  <2>1. Power[j] \in Nat /\ Power[j] >= 1
    BY PowerGrows
  <2>. HIDE DEF Power
  <2>2. ASSUME NEW a \in Nat \ {0}, NEW b \in Nat \ {0} 
        PROVE a * b \in Nat /\ a * b >= a /\ a * b >= b
    BY <2>2
  <2>. QED
    BY <2>1, <2>2
<1>2. room * Power[needed] \in Enough
  BY <1>1, PowerGrows
<1>3. Enough \subseteq Nat
  BY <1>1
<1>4. Min(Enough) \in Enough /\ \A c \in Enough : Min(Enough) <= c
  BY <1>2, <1>3, MinFacts
<1>5. needed <= room => room \in Enough
  <2>1. Power[0] = 1 /\ room * 1 = room
    BY PowerDef
  <2>2. room \in Rooms
    BY <2>1
  <2>. QED
    BY <2>2
<1>6. Doubled(room, needed) = Min(Enough)
  BY DEF Doubled
<1>7. \A c \in Enough : c \in Nat /\ c >= needed /\ c >= room
  BY <1>1
<1>. HIDE DEF Enough
<1>. QED
  BY <1>4, <1>5, <1>6, <1>7
=============================================================================
