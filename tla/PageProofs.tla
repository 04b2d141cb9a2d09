------------------------------ MODULE PageProofs ------------------------------
(***************************************************************************)
(* Proofs about the two scripts of the page: StreamPlayer, for any names,  *)
(* any number of players and any number of requests under way, and, at the *)
(* end, StreamList beside it.                                              *)
(***************************************************************************)
EXTENDS StreamPlayer, TLAPS

(* Without overlapping requests there is one request or one player, never   *)
(* both, and either is for what was asked for last.  OnlyPlaysNewest is not *)
(* inductive without it: a player and a request would give two players.     *)
OneAtATime ==
  ~overlapped =>
    /\ Len(pending) <= 1
    /\ \A i \in DOMAIN pending : pending[i] = asked
    /\ player # None => pending = <<>>

IInv ==
  /\ TypeOK
  /\ PageAgrees
  /\ OneAtATime
  /\ OnlyPlaysNewest
  /\ ReplayAsksForSame
-----------------------------------------------------------------------------
(* Facts about sequences.  A response leaves one request fewer, and the others as they are. *)
LEMMA EmptySeqFacts ==
  /\ \A S : <<>> \in Seq(S)
  /\ Len(<<>>) = 0 /\ DOMAIN <<>> = {}
OBVIOUS

LEMMA ConcatFacts ==
  ASSUME NEW S, NEW a \in Seq(S), NEW b \in Seq(S)
  PROVE  a \o b \in Seq(S) /\ Len(a \o b) = Len(a) + Len(b)
OBVIOUS

LEMMA RemoveAtFacts ==
  ASSUME NEW S, NEW s \in Seq(S), NEW i \in DOMAIN s
  PROVE  /\ RemoveAt(s, i) \in Seq(S)
         /\ Len(RemoveAt(s, i)) = Len(s) - 1
<1>. DEFINE front == SubSeq(s, 1, i - 1)
            back == SubSeq(s, i + 1, Len(s))
<1>1. i \in 1 .. Len(s) /\ Len(s) \in Nat
  OBVIOUS
<1>2. front \in Seq(S) /\ Len(front) = i - 1
  BY <1>1
<1>3. back \in Seq(S) /\ Len(back) = Len(s) - i
  BY <1>1
<1>4. RemoveAt(s, i) = front \o back
  BY DEF RemoveAt
<1>. HIDE DEF front, back
<1>5. front \o back \in Seq(S) /\ Len(front \o back) = Len(front) + Len(back)
  BY <1>2, <1>3, ConcatFacts
<1>. QED
  BY <1>1, <1>2, <1>3, <1>4, <1>5
-----------------------------------------------------------------------------
(* A page on which nothing has been asked for yet. *)
Fresh ==
  /\ script = "list" /\ field = None /\ pending = <<>>
  /\ hash \in Name \cup {None}
  /\ stream = [p \in Player |-> None]
  /\ player = None /\ source = None /\ ended = FALSE
  /\ asked = None /\ overlapped = FALSE /\ edited = FALSE /\ moved = FALSE

LEMMA FreshPage == Fresh => IInv
<1>. SUFFICES ASSUME Fresh PROVE IInv
  OBVIOUS
<1>. USE DEF Fresh
<1>1. TypeOK
  <2>1. pending \in Seq(Name \cup {None})
    BY EmptySeqFacts
  <2>2. stream \in [Player -> Name \cup {None}]
    OBVIOUS
  <2>. QED
    BY <2>1, <2>2 DEF TypeOK
<1>2. OneAtATime
  BY EmptySeqFacts DEF OneAtATime
<1>3. PageAgrees /\ OnlyPlaysNewest /\ ReplayAsksForSame
  BY DEF PageAgrees, OnlyPlaysNewest, ReplayAsksForSame
<1>. QED
  BY <1>1, <1>2, <1>3 DEF IInv

LEMMA InvInit == Init => IInv
BY FreshPage DEF Init, Fresh

(* No player is left after cleanupPlayer, if there was only the current one, *)
(* and the video has no source.                                              *)
LEMMA CleanupFacts ==
  ASSUME IInv, CleanupPlayer
  PROVE  /\ player' = None /\ source' = None
         /\ stream' \in [Player -> Name \cup {None}]
         /\ ended' \in BOOLEAN
         /\ ~overlapped => \A p \in Player : stream'[p] = None
<1>1. CASE player = None
  BY <1>1, PlayerAssumption
  DEF CleanupPlayer, playerVars, IInv, TypeOK, PageAgrees, OnlyPlaysNewest
<1>2. CASE player # None
  BY <1>2, PlayerAssumption
  DEF CleanupPlayer, IInv, TypeOK, PageAgrees, OnlyPlaysNewest
<1>. QED
  BY <1>1, <1>2

(* What playStream makes true, whoever calls it with whatever argument. *)
LEMMA PlayStreamFacts ==
  ASSUME IInv, NEW n \in Name \cup {None}, PlayStream(n)
  PROVE  /\ pending' \in Seq(Name \cup {None})
         /\ asked' = n
         /\ overlapped' \in BOOLEAN
         /\ ~overlapped' => /\ ~overlapped /\ pending = <<>>
                            /\ Len(pending') = 1 /\ pending'[1] = n
         /\ player' = None /\ source' = None
         /\ stream' \in [Player -> Name \cup {None}]
         /\ ended' \in BOOLEAN
         /\ ~overlapped => \A p \in Player : stream'[p] = None
<1>1. pending \in Seq(Name \cup {None}) /\ overlapped \in BOOLEAN
  BY DEF IInv, TypeOK
<1>2. CleanupPlayer
  BY DEF PlayStream
<1>3. pending' \in Seq(Name \cup {None})
  BY <1>1 DEF PlayStream
<1>4. ASSUME ~overlapped'
      PROVE  /\ ~overlapped /\ pending = <<>>
             /\ Len(pending') = 1 /\ pending'[1] = n
  <2>1. ~overlapped /\ pending = <<>> /\ pending' = Append(pending, n)
    BY <1>1, <1>4 DEF PlayStream
  <2>2. Len(pending) = 0
    BY <2>1
  <2>3. Len(pending') = 1 /\ pending'[1] = n
    BY <1>1, <2>1, <2>2
  <2>. QED
    BY <2>1, <2>3
<1>5. asked' = n /\ overlapped' \in BOOLEAN
  BY <1>1 DEF PlayStream
<1>. QED
  BY <1>2, <1>3, <1>4, <1>5, CleanupFacts

(* A call of playStream that leaves the field, or writes into it what it *)
(* asks for, keeps the invariant.                                        *)
LEMMA PlayStreamKeepsInv ==
  ASSUME IInv, NEW n \in Name \cup {None}, PlayStream(n),
         script' = script, hash' = hash, moved' = moved,
         field' \in Name \cup {None}, edited' \in BOOLEAN,
         ~overlapped' /\ ~edited' /\ n # None => field' = n
  PROVE  IInv'
<1>. USE PlayStreamFacts
<1>1. TypeOK'
  BY DEF IInv, TypeOK
<1>2. PageAgrees'
  BY DEF PageAgrees
<1>3. ASSUME ~overlapped'
      PROVE  Len(pending') <= 1 /\ \A i \in DOMAIN pending' : pending'[i] = asked'
  <2>1. Len(pending') = 1 /\ pending'[1] = n /\ asked' = n
    BY <1>3
  <2>2. pending' \in Seq(Name \cup {None})
    OBVIOUS
  <2>3. DOMAIN pending' = {1}
    BY <2>1, <2>2
  <2>. QED
    BY <2>1, <2>3
<1>4. OneAtATime'
  <2>1. player' = None
    OBVIOUS
  <2>. QED
    BY <1>3, <2>1 DEF OneAtATime
<1>5. OnlyPlaysNewest'
  BY DEF OnlyPlaysNewest
<1>6. ReplayAsksForSame'
  BY DEF ReplayAsksForSame
<1>. QED
  BY <1>1, <1>2, <1>4, <1>5, <1>6 DEF IInv

(* A response that brings a player, and one that does not. *)
LEMMA FoundKeepsInv ==
  ASSUME IInv, NEW i \in DOMAIN pending, Found(i)
  PROVE  IInv'
<1>1. pending \in Seq(Name \cup {None}) /\ pending[i] \in Name
  BY DEF Found, IInv, TypeOK
<1>2. /\ pending' \in Seq(Name \cup {None})
      /\ Len(pending') = Len(pending) - 1
  BY <1>1, RemoveAtFacts DEF Found
<1>3. PICK p \in Player :
        /\ stream[p] = None
        /\ stream' = [stream EXCEPT ![p] = pending[i]]
        /\ player' = p /\ source' = p /\ ended' = FALSE
  BY DEF Found
<1>4. /\ hash' = pending[i] /\ moved' = FALSE
      /\ UNCHANGED <<script, field, asked, overlapped, edited>>
  BY DEF Found, historyVars
<1>5. ASSUME ~overlapped
      PROVE  /\ pending' = <<>> /\ pending[i] = asked
             /\ \A q \in Player : stream[q] = None
  <2>1. pending # <<>> /\ Len(pending) <= 1 /\ pending[i] = asked
    BY <1>1, <1>5 DEF IInv, OneAtATime
  <2>2. Len(pending') = 0
    BY <1>1, <1>2, <2>1
  <2>3. player = None
    BY <1>5, <2>1 DEF IInv, OneAtATime
  <2>. QED
    BY <1>2, <1>5, <2>1, <2>2, <2>3, PlayerAssumption DEF IInv, OnlyPlaysNewest
<1>6. TypeOK'
  BY <1>1, <1>2, <1>3, <1>4 DEF IInv, TypeOK
<1>7. stream'[p] = pending[i] /\ \A q \in Player \ {p} : stream'[q] = stream[q]
  BY <1>3 DEF IInv, TypeOK
<1>8. PageAgrees'
  BY <1>1, <1>3, <1>4, <1>7 DEF PageAgrees
<1>9. OneAtATime'
  BY <1>4, <1>5 DEF OneAtATime
<1>10. OnlyPlaysNewest'
  BY <1>3, <1>4, <1>5, <1>7 DEF OnlyPlaysNewest
<1>11. ReplayAsksForSame'
  BY <1>4 DEF IInv, ReplayAsksForSame
<1>. QED
  BY <1>6, <1>8, <1>9, <1>10, <1>11 DEF IInv

LEMMA NotFoundKeepsInv ==
  ASSUME IInv, NEW i \in DOMAIN pending, NotFound(i)
  PROVE  IInv'
<1>1. pending \in Seq(Name \cup {None})
  BY DEF IInv, TypeOK
<1>2. /\ pending' \in Seq(Name \cup {None})
      /\ Len(pending') = Len(pending) - 1
  BY <1>1, RemoveAtFacts DEF NotFound
<1>3. UNCHANGED <<script, field, hash, playerVars, historyVars, moved>>
  BY DEF NotFound
<1>4. ~overlapped => pending' = <<>>
  <2>. SUFFICES ASSUME ~overlapped PROVE pending' = <<>>
    OBVIOUS
  <2>1. Len(pending') = 0
    BY <1>1, <1>2 DEF IInv, OneAtATime
  <2>. QED
    BY <1>2, <2>1
<1>. QED
  BY <1>2, <1>3, <1>4
  DEF playerVars, historyVars, IInv, TypeOK, PageAgrees, OneAtATime, OnlyPlaysNewest,
      ReplayAsksForSame
-----------------------------------------------------------------------------
LEMMA InvStep == IInv /\ [Next]_vars => IInv'
<1>. SUFFICES ASSUME IInv, [Next]_vars PROVE IInv'
  OBVIOUS
<1>. USE DEF playerVars, historyVars
<1>1. CASE RunScript
  BY <1>1 DEF RunScript, IInv, TypeOK, PageAgrees, OneAtATime, OnlyPlaysNewest,
              ReplayAsksForSame
<1>2. CASE Setup
  BY <1>2 DEF Setup, IInv, TypeOK, PageAgrees, OneAtATime, OnlyPlaysNewest,
              ReplayAsksForSame
<1>3. CASE Reload
  <2>1. Fresh'
    BY <1>3 DEF Reload, Fresh, IInv, TypeOK
  <2>2. Fresh' => IInv'
    BY FreshPage, PTL
  <2>. QED
    BY <2>1, <2>2
<1>4. ASSUME NEW n \in Name \cup {None}, MoveTo(n) PROVE IInv'
  BY <1>4 DEF MoveTo, IInv, TypeOK, PageAgrees, OneAtATime, OnlyPlaysNewest,
              ReplayAsksForSame
<1>5. CASE StartPlayer
  <2>1. /\ field \in Name \cup {None} /\ PlayStream(field)
        /\ edited' = FALSE /\ UNCHANGED <<script, field, hash, moved>>
    BY <1>5 DEF StartPlayer, IInv, TypeOK
  <2>. QED BY <2>1, PlayStreamKeepsInv
<1>6. ASSUME NEW n \in Name, Type(n) PROVE IInv'
  BY <1>6 DEF Type, IInv, TypeOK, PageAgrees, OneAtATime, OnlyPlaysNewest,
              ReplayAsksForSame
<1>7. ASSUME NEW n \in Name, ClickListed(n) PROVE IInv'
  <2>1. /\ PlayStream(n) /\ field' = n
        /\ edited' = FALSE /\ UNCHANGED <<script, hash, moved>>
    BY <1>7 DEF ClickListed
  <2>. QED BY <2>1, PlayStreamKeepsInv
<1>8. CASE Response
  BY <1>8, FoundKeepsInv, NotFoundKeepsInv DEF Response
<1>9. CASE StreamEnds
  BY <1>9 DEF StreamEnds, IInv, TypeOK, PageAgrees, OneAtATime, OnlyPlaysNewest,
              ReplayAsksForSame
<1>10. ASSUME NEW p \in Player, PlayerError(p) PROVE IInv'
  <2>1. /\ stream[p] \in Name /\ PlayStream(stream[p])
        /\ UNCHANGED <<script, field, hash, edited, moved>>
        /\ field \in Name \cup {None} /\ edited \in BOOLEAN
    BY <1>10 DEF PlayerError, IInv, TypeOK
  <2>2. ~overlapped' /\ ~edited' => field = stream[p]
    BY <1>10, <2>1, PlayStreamFacts, NameAssumption
    DEF PlayerError, IInv, OnlyPlaysNewest, ReplayAsksForSame
  <2>. QED BY <2>1, <2>2, PlayStreamKeepsInv
<1>11. CASE UNCHANGED vars
  BY <1>11 DEF vars, IInv, TypeOK, PageAgrees, OneAtATime, OnlyPlaysNewest,
               ReplayAsksForSame
<1>. QED
  BY <1>1, <1>2, <1>3, <1>4, <1>5, <1>6, <1>7, <1>8, <1>9, <1>10, <1>11 DEF Next

(* The inductive invariant of the page. *)
THEOREM Invariance == Spec => []IInv
BY InvInit, InvStep, PTL DEF Spec

(* The screen, the current player and the address agree, also after requests *)
(* have overlapped and players were lost.                                    *)
THEOREM PageAgreesHolds == Spec => []PageAgrees
<1>1. IInv => PageAgrees
  BY DEF IInv
<1>. QED BY <1>1, Invariance, PTL

(* Without overlapping requests there is one player, for what was asked last. *)
THEOREM OnlyPlaysNewestHolds == Spec => []OnlyPlaysNewest
<1>1. IInv => OnlyPlaysNewest
  BY DEF IInv
<1>. QED BY <1>1, Invariance, PTL

(* Without overlapping requests and edits, pressing play asks for the same. *)
THEOREM ReplayAsksForSameHolds == Spec => []ReplayAsksForSame
<1>1. IInv => ReplayAsksForSame
  BY DEF IInv
<1>. QED BY <1>1, Invariance, PTL
-----------------------------------------------------------------------------
(* The list of streams, which is for the same names and has a state of its   *)
(* own: the player's script writes nothing of it.                            *)
CONSTANTS Malformed, Fetch

VARIABLES served, up, stage, list, shown, displayed, hovered

List == INSTANCE StreamList

(* Every variable of the list's script has its type; in particular it shows  *)
(* only names that the server gave it, however late the answer was.          *)
THEOREM ListTypeCorrect == List!Spec => []List!TypeOK
<1>1. List!Init => List!TypeOK
  <2>. SUFFICES ASSUME List!Init PROVE List!TypeOK
    OBVIOUS
  <2>1. PICK f \in Fetch : stage = [g \in Fetch |-> IF g = f THEN "sent" ELSE "idle"]
    BY DEF List!Init
  <2>. QED
    BY <2>1 DEF List!Init, List!TypeOK
<1>2. ASSUME List!TypeOK, [List!Next]_(List!vars) PROVE List!TypeOK'
  <2>. USE DEF List!TypeOK
  <2>1. ASSUME NEW names \in SUBSET Name, List!ShowActiveStreams(names)
        PROVE  shown' \in SUBSET Name /\ displayed' \in BOOLEAN
    BY <1>2, <2>1 DEF List!ShowActiveStreams
  <2>2. ASSUME NEW f \in Fetch, List!GetActiveStreams(f) \/ List!Response(f)
        PROVE  List!TypeOK'
    <3>1. CASE List!Refused(f)
      BY <1>2, <2>1, <3>1 DEF List!Refused, List!Goto, List!serverVars
    <3>2. CASE List!BodyRead(f)
      <4>1. list[f] \in SUBSET Name
        BY <1>2
      <4>. QED
        BY <1>2, <2>1, <3>2, <4>1 DEF List!BodyRead, List!Goto, List!serverVars
    <3>3. CASE List!GetActiveStreams(f)
      BY <1>2, <3>3 DEF List!GetActiveStreams, List!Goto, List!serverVars, List!pageVars
    <3>4. CASE List!Answer(f)
      BY <1>2, <3>4 DEF List!Answer, List!Goto, List!serverVars, List!pageVars
    <3>5. CASE List!BodyLost(f)
      BY <1>2, <3>5 DEF List!BodyLost, List!Goto, List!serverVars, List!pageVars
    <3>. QED
      BY <2>2, <3>1, <3>2, <3>3, <3>4, <3>5 DEF List!Response
  <2>3. CASE List!Hover
    BY <1>2, <2>3 DEF List!Hover, List!serverVars
  <2>4. ASSUME NEW n \in Name, List!ServedChanges(n) PROVE List!TypeOK'
    BY <1>2, <2>4 DEF List!ServedChanges, List!pageVars
  <2>5. CASE List!ServerFailsOrRecovers
    BY <1>2, <2>5 DEF List!ServerFailsOrRecovers, List!pageVars
  <2>6. CASE UNCHANGED List!vars
    BY <1>2, <2>6 DEF List!vars, List!serverVars, List!pageVars
  <2>. QED
    BY <1>2, <2>2, <2>3, <2>4, <2>5, <2>6 DEF List!Next
<1>. QED
  BY <1>1, <1>2, PTL DEF List!Spec
=============================================================================
