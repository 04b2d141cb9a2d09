------------------------- MODULE WebConnectionsProofs -------------------------
(***************************************************************************)
(* Proofs about WebConnections, for any number of connections and          *)
(* descriptors, any buffer, any sizes of reads and any allowance of        *)
(* failures.                                                               *)
(***************************************************************************)
EXTENDS WebConnections, TLAPS

Frame == {"none", "head", "whole", "ended", "torn", "cut"}

(* Who has begun has a descriptor, whether or not it is still his. *)
HasSocket == \A c \in Conn : pc[c] # "out" => sock[c] \in Fd

(* Only a request too short to be parsed has been searched too far back. *)
UnderrunEarly == \A c \in Conn : underrun[c] => pc[c] = "parse" /\ bytesRead[c] < 4

(* What is left to do is about nodes; while a stream is taken down, nobody  *)
(* joins it, and what is left is all of them.                               *)
TodoGood ==
  /\ todo \subseteq Node
  /\ publisher \notin {"pass", "closing"} => todo = {}
  /\ publisher = "closing" => Node \subseteq todo
  /\ publisher = "absent" => Node = {}
  /\ publisher \in {"absent", "closing"} => \A c \in Conn : pc[c] # "insert"

(* Chunks are only sent to watchers, with data only after the first packet. *)
FrameGood ==
  ~stray => \A c \in Conn :
    /\ pc[c] # "watching" => frame[c] \in {"none", "head"}
    /\ chunk = "empty" => frame[c] # "whole"

IInv ==
  /\ TypeOK
  /\ HasSocket
  /\ OwnDescriptor
  /\ UnderrunEarly
  /\ TodoGood
  /\ FrameGood
-----------------------------------------------------------------------------
(* The steps of Next, sorted by what they do. *)

(* A connection is closed for the last time, by its thread or the publisher's. *)
EndStep(c) ==
  /\ pc[c] # "out"
  /\ CloseAndEnd(c, frame) \/ CloseAndEnd(c, Misdirected(c))
  /\ todo' = todo \ {c}
  /\ UNCHANGED <<publisher, chunk>>

(* A turn of the read loop that does not end the connection. *)
ReadOn(c) ==
  /\ pc[c] = "reading"
  /\ \E size \in ReadSize, ends \in BOOLEAN :
       LET b == Returned(bytesRead[c], size)
           total == Filled(bytesRead[c], b)
       IN  /\ ends \/ b >= MinRead
           /\ bytesRead' = [bytesRead EXCEPT ![c] = total]
           /\ underrun' = [underrun EXCEPT ![c] = @ \/ total < 4]
           /\ IF ends \/ total = BufSize THEN Goto(c, "parse") ELSE UNCHANGED pc
  /\ UNCHANGED <<owner, sock, clientVars, publisherVars, processVars>>

(* The external command has ended, and the stream's name is looked up. *)
Admit(c) ==
  /\ pc[c] = "authenticate"
  /\ Goto(c, "join")
  /\ UNCHANGED <<owner, sock, bytesRead, underrun, clientVars, publisherVars, processVars>>

(* The publisher goes from one phase to another. *)
PublisherMoves ==
  \/ Publish \/ BeginPass \/ EndPass \/ Receive \/ BeginClosing \/ EndClosing

LEMMA StepCases ==
  ASSUME IInv, Next
  PROVE  \/ \E c \in Conn : \/ Accept(c) \/ EndStep(c) \/ ReadOn(c) \/ Abort(c)
                            \/ Route(c) \/ AnswerApi(c) \/ Admit(c) \/ WriteHead(c)
                            \/ Insert(c) \/ SendChunk(c) \/ SendTolerated(c)
         \/ PublisherMoves
<1>1. ASSUME NEW c \in Conn, pc[c] \notin {"out", "watching"},
             CloseAndEnd(c, frame) \/ CloseAndEnd(c, Misdirected(c)),
             UNCHANGED publisherVars
      PROVE  EndStep(c)
  <2>1. c \notin todo
    BY <1>1 DEF IInv, TodoGood, Node
  <2>. QED
    BY <1>1, <2>1 DEF EndStep, publisherVars
<1>2. ASSUME NEW c \in Conn, Read(c) PROVE ReadOn(c) \/ EndStep(c)
  <2>. DEFINE Brought(size) == Returned(bytesRead[c], size)
              Total(size) == Filled(bytesRead[c], Brought(size))
  <2>1. PICK size \in ReadSize, ends \in BOOLEAN :
          IF ~ends /\ Brought(size) < MinRead THEN CloseAndEnd(c, frame)
          ELSE /\ bytesRead' = [bytesRead EXCEPT ![c] = Total(size)]
               /\ underrun' = [underrun EXCEPT ![c] = @ \/ Total(size) < 4]
               /\ IF ends \/ Total(size) = BufSize
                    THEN Goto(c, "parse") ELSE UNCHANGED pc
               /\ UNCHANGED <<owner, sock, clientVars, processVars>>
    BY <1>2 DEF Read
  <2>2. pc[c] = "reading" /\ UNCHANGED publisherVars
    BY <1>2 DEF Read
  <2>3. CASE ~ends /\ Brought(size) < MinRead
    BY <1>1, <2>1, <2>2, <2>3
  <2>4. CASE ~(~ends /\ Brought(size) < MinRead)
    <3>1. Brought(size) \in Int /\ MinRead \in Nat
      BY SizeAssumption DEF Returned, IInv, TypeOK
    <3>2. ends \/ Brought(size) >= MinRead
      BY <2>4, <3>1
    <3>. QED
      BY <2>1, <2>2, <2>4, <3>2 DEF ReadOn
  <2>. QED
    BY <2>3, <2>4
<1>3. ASSUME NEW c \in Conn, Drop(c) \/ BadRequest(c) \/ CloseAgain(c) \/ NotAdmitted(c)
      PROVE  EndStep(c)
  BY <1>1, <1>3 DEF Drop, BadRequest, CloseAgain, NotAdmitted
<1>4. ASSUME NEW c \in Conn, SendFails(c) \/ CloseNode(c)
      PROVE  EndStep(c)
  <2>1. pc[c] = "watching"
    BY <1>4 DEF SendFails, CloseNode, IInv, TodoGood, Node
  <2>. QED
    BY <1>4, <2>1 DEF SendFails, CloseNode, EndStep
<1>5. ASSUME NEW c \in Conn, Authenticate(c) PROVE Admit(c) \/ EndStep(c)
  BY <1>1, <1>5 DEF Authenticate, Admit, publisherVars
<1>. QED
  BY <1>2, <1>3, <1>4, <1>5 DEF Next, ThreadStep, PassStep, ClosingStep, PublisherMoves
-----------------------------------------------------------------------------
LEMMA InvInit == Init => IInv
<1>. SUFFICES ASSUME Init PROVE IInv
  OBVIOUS
<1>1. TypeOK
  <2>1. /\ owner \in [Fd -> Conn \cup {None}] /\ sock \in [Conn -> Fd \cup {None}]
        /\ pc \in [Conn -> {"out"}] /\ frame \in [Conn -> Frame]
    BY DEF Init, All, Frame
  <2>2. bytesRead \in [Conn -> 0 .. BufSize] /\ numFails \in [Conn -> Nat]
    BY SizeAssumption DEF Init, All
  <2>3. corked \in [Conn -> BOOLEAN] /\ underrun \in [Conn -> BOOLEAN]
    BY DEF Init, All
  <2>. QED
    BY <2>1, <2>2, <2>3 DEF Init, TypeOK, Frame
<1>2. HasSocket /\ OwnDescriptor /\ UnderrunEarly /\ TodoGood
  BY DEF Init, All, HasSocket, OwnDescriptor, Live, UnderrunEarly, TodoGood, Node
<1>3. FrameGood
  BY DEF Init, All, FrameGood
<1>. QED
  BY <1>1, <1>2, <1>3 DEF IInv

(* What a client has got is one of the kinds, also when it got another's answer. *)
LEMMA MisdirectedType ==
  ASSUME IInv, NEW c \in Conn
  PROVE  Misdirected(c) \in [Conn -> Frame]
BY DEF Misdirected, IInv, TypeOK, Frame

LEMMA FilledType ==
  ASSUME NEW got \in 0 .. BufSize, NEW size \in ReadSize
  PROVE  Filled(got, Returned(got, size)) \in 0 .. BufSize
<1>1. size \in Int /\ got \in Nat /\ BufSize \in Nat
  BY SizeAssumption
<1>2. Returned(got, size) \in Int /\ Returned(got, size) <= BufSize - got
  BY <1>1 DEF Returned
<1>. QED
  BY <1>1, <1>2 DEF Filled

(* A turn that goes on has brought the end of the request or MinRead bytes. *)
LEMMA FilledGrows ==
  ASSUME NEW got \in 0 .. BufSize, NEW size \in ReadSize, Returned(got, size) >= MinRead
  PROVE  Filled(got, Returned(got, size)) >= 4
<1>1. got \in Nat /\ MinRead \in Nat /\ 4 <= MinRead
  BY SizeAssumption
<1>2. Returned(got, size) \in Int
  BY SizeAssumption DEF Returned
<1>. QED
  BY <1>1, <1>2 DEF Filled

LEMMA TypeStep == IInv /\ [Next]_vars => TypeOK'
<1>. SUFFICES ASSUME IInv, [Next]_vars PROVE TypeOK'
  OBVIOUS
<1>. USE DEF threadVars, clientVars, publisherVars, processVars, Goto
<1>1. ASSUME NEW c \in Conn, Accept(c) PROVE TypeOK'
  BY <1>1 DEF Accept, IInv, TypeOK
<1>2. ASSUME NEW c \in Conn, EndStep(c) PROVE TypeOK'
  <2>1. PICK got \in [Conn -> Frame] : CloseAndEnd(c, got)
    BY <1>2, MisdirectedType DEF EndStep, IInv, TypeOK, Frame
  <2>2. /\ pc' = [pc EXCEPT ![c] = "out"] /\ sock' = [sock EXCEPT ![c] = None]
        /\ bytesRead' = [bytesRead EXCEPT ![c] = 0]
        /\ underrun' = [underrun EXCEPT ![c] = FALSE]
        /\ frame' = [got EXCEPT ![c] = "none"]
        /\ corked' = [corked EXCEPT ![c] = FALSE]
        /\ numFails' = [numFails EXCEPT ![c] = 0]
        /\ owner' = [owner EXCEPT ![sock[c]] = None]
        /\ stray' = (stray \/ owner[sock[c]] \notin {c, None}) /\ aborted' = aborted
    BY <2>1 DEF CloseAndEnd, Close
  <2>3. todo' \subseteq Conn /\ UNCHANGED <<publisher, chunk>>
    BY <1>2 DEF EndStep, IInv, TypeOK
  <2>4. corked' \in [Conn -> BOOLEAN] /\ underrun' \in [Conn -> BOOLEAN]
    BY <2>2 DEF IInv, TypeOK
  <2>5. stray' \in BOOLEAN /\ aborted' \in BOOLEAN
    BY <2>2 DEF IInv, TypeOK
  <2>6. bytesRead' \in [Conn -> 0 .. BufSize] /\ numFails' \in [Conn -> Nat]
    BY <2>2, SizeAssumption DEF IInv, TypeOK
  <2>7. /\ owner' \in [Fd -> Conn \cup {None}]
        /\ sock' \in [Conn -> Fd \cup {None}]
        /\ frame' \in [Conn -> Frame]
    BY <2>2 DEF IInv, TypeOK, Frame
  <2>8. pc' \in [Conn -> {"out", "reading", "parse", "api", "answered",
                         "authenticate", "join", "insert", "watching"}]
    BY <2>2 DEF IInv, TypeOK
  <2>. QED
    BY <2>3, <2>4, <2>5, <2>6, <2>7, <2>8 DEF IInv, TypeOK, Frame
<1>3. ASSUME NEW c \in Conn, ReadOn(c) PROVE TypeOK'
  <2>1. PICK total \in 0 .. BufSize :
          /\ bytesRead' = [bytesRead EXCEPT ![c] = total]
          /\ underrun' = [underrun EXCEPT ![c] = @ \/ total < 4]
          /\ pc' = [pc EXCEPT ![c] = "parse"] \/ pc' = pc
    BY <1>3, FilledType DEF ReadOn, IInv, TypeOK
  <2>2. UNCHANGED <<owner, sock, clientVars, publisherVars, processVars>>
    BY <1>3 DEF ReadOn
  <2>3. underrun' \in [Conn -> BOOLEAN]
    BY <2>1 DEF IInv, TypeOK
  <2>. QED
    BY <2>1, <2>2, <2>3 DEF IInv, TypeOK
<1>4. ASSUME NEW c \in Conn, Route(c) \/ Admit(c) \/ Insert(c) PROVE TypeOK'
  BY <1>4, SizeAssumption DEF Route, Admit, Insert, IInv, TypeOK
<1>5. ASSUME NEW c \in Conn, AnswerApi(c) PROVE TypeOK'
  BY <1>5, MisdirectedType DEF AnswerApi, Close, IInv, TypeOK, Frame
<1>6. ASSUME NEW c \in Conn, WriteHead(c) PROVE TypeOK'
  BY <1>6 DEF WriteHead, IInv, TypeOK
<1>7. ASSUME NEW c \in Conn, SendChunk(c) PROVE TypeOK'
  BY <1>7 DEF SendChunk, AfterChunk, AfterPart, IInv, TypeOK
<1>8. ASSUME NEW c \in Conn, SendTolerated(c) PROVE TypeOK'
  <2>1. PICK o \in Conn :
          /\ corked' = [corked EXCEPT ![o] = TRUE]
          /\ frame' = frame \/ frame' = [frame EXCEPT ![o] = AfterPart(@, "torn")]
    BY <1>8 DEF SendTolerated, IInv, TypeOK, HasSocket, TodoGood, Node
  <2>2. corked' \in [Conn -> BOOLEAN]
    BY <2>1 DEF IInv, TypeOK
  <2>3. frame' \in [Conn -> Frame]
    BY <2>1 DEF AfterPart, IInv, TypeOK, Frame
  <2>4. numFails' \in [Conn -> Nat] /\ todo' \subseteq Conn
    BY <1>8 DEF SendTolerated, IInv, TypeOK
  <2>. QED
    BY <1>8, <2>2, <2>3, <2>4 DEF SendTolerated, IInv, TypeOK, Frame
<1>9. CASE PublisherMoves
  <2>1. UNCHANGED <<owner, threadVars, clientVars, processVars>>
    BY <1>9 DEF PublisherMoves, Publish, BeginPass, EndPass, Receive, BeginClosing,
                EndClosing
  <2>2. /\ publisher' \in {"absent", "open", "pass", "receive", "closing"}
        /\ chunk' \in {"empty", "data"} /\ todo' \subseteq Conn
    BY <1>9 DEF PublisherMoves, Publish, BeginPass, EndPass, Receive, BeginClosing,
                EndClosing, Node, IInv, TypeOK
  <2>. QED
    BY <2>1, <2>2 DEF IInv, TypeOK
<1>10. CASE UNCHANGED vars
  BY <1>10 DEF vars, IInv, TypeOK
<1>11. ASSUME NEW c \in Conn, Abort(c) PROVE TypeOK'
  <2>1. /\ pc' = All("out") /\ frame' = All("none") /\ sock' = All(None)
        /\ owner' = [f \in Fd |-> None]
        /\ corked' = All(FALSE) /\ underrun' = All(FALSE)
        /\ bytesRead' = All(0) /\ numFails' = All(0)
        /\ publisher' = "absent" /\ chunk' = "empty" /\ todo' = {}
        /\ aborted' = TRUE /\ stray' = stray
    BY <1>11 DEF Abort
  <2>2. corked' \in [Conn -> BOOLEAN] /\ underrun' \in [Conn -> BOOLEAN]
    BY <2>1 DEF All
  <2>3. bytesRead' \in [Conn -> 0 .. BufSize] /\ numFails' \in [Conn -> Nat]
    BY <2>1, SizeAssumption DEF All
  <2>4. /\ owner' \in [Fd -> Conn \cup {None}] /\ sock' \in [Conn -> Fd \cup {None}]
        /\ pc' \in [Conn -> {"out"}] /\ frame' \in [Conn -> Frame]
    BY <2>1 DEF All, Frame
  <2>. QED
    BY <2>1, <2>2, <2>3, <2>4 DEF IInv, TypeOK, Frame
<1>. QED
  BY <1>1, <1>2, <1>3, <1>4, <1>5, <1>6, <1>7, <1>8, <1>9, <1>10, <1>11, StepCases
-----------------------------------------------------------------------------
(* Under no second close, who is at work works with his own descriptor. *)
LEMMA OwnSocket ==
  ASSUME IInv, ~stray, NEW c \in Conn, Live(c)
  PROVE  owner[sock[c]] = c
BY DEF IInv, OwnDescriptor

(* What an end changes; and what its client got, unless it closed or answered *)
(* somebody else's connection.                                                *)
LEMMA EndFacts ==
  ASSUME IInv, NEW c \in Conn, EndStep(c)
  PROVE  /\ pc[c] # "out" /\ sock[c] \in Fd
         /\ owner' = [owner EXCEPT ![sock[c]] = None]
         /\ stray' = (stray \/ owner[sock[c]] \notin {c, None}) /\ aborted' = aborted
         /\ pc' = [pc EXCEPT ![c] = "out"]
         /\ sock' = [sock EXCEPT ![c] = None]
         /\ bytesRead' = [bytesRead EXCEPT ![c] = 0]
         /\ underrun' = [underrun EXCEPT ![c] = FALSE]
         /\ ~stray' => frame' = [frame EXCEPT ![c] = "none"]
         /\ corked' = [corked EXCEPT ![c] = FALSE]
         /\ numFails' = [numFails EXCEPT ![c] = 0]
         /\ todo' = todo \ {c}
         /\ UNCHANGED <<publisher, chunk>>
<1>1. PICK got \in {frame, Misdirected(c)} : CloseAndEnd(c, got)
  BY DEF EndStep
<1>2. ~stray' => Misdirected(c) = frame
  BY <1>1 DEF CloseAndEnd, Close, Misdirected
<1>3. ~stray' => frame' = [frame EXCEPT ![c] = "none"]
  BY <1>1, <1>2 DEF CloseAndEnd
<1>. QED
  BY <1>1, <1>3 DEF EndStep, CloseAndEnd, Close, Goto, IInv, HasSocket

LEMMA SocketStep == IInv /\ [Next]_vars => HasSocket' /\ OwnDescriptor'
<1>. SUFFICES ASSUME IInv, [Next]_vars PROVE HasSocket' /\ OwnDescriptor'
  OBVIOUS
<1>. USE DEF threadVars, clientVars, publisherVars, processVars, Goto
<1>1. ASSUME NEW c \in Conn, Accept(c) PROVE HasSocket' /\ OwnDescriptor'
  <2>1. PICK f \in Fd : /\ owner[f] = None
                        /\ owner' = [owner EXCEPT ![f] = c]
                        /\ sock' = [sock EXCEPT ![c] = f]
    BY <1>1 DEF Accept
  <2>2. pc[c] = "out" /\ pc' = [pc EXCEPT ![c] = "reading"]
        /\ UNCHANGED <<aborted, stray>>
    BY <1>1 DEF Accept
  <2>3. HasSocket'
    BY <2>1, <2>2 DEF IInv, TypeOK, HasSocket
  <2>4. ASSUME NEW g \in Fd, owner'[g] # None
        PROVE  Live(owner[g])' /\ sock'[owner'[g]] = g
    <3>1. CASE g = f
      BY <2>1, <2>2, <2>4, <3>1 DEF IInv, TypeOK, Live
    <3>2. CASE g # f
      <4>1. /\ owner'[g] = owner[g] /\ owner[g] \in Conn
            /\ Live(owner[g]) /\ sock[owner[g]] = g
        BY <2>1, <2>4, <3>2 DEF IInv, TypeOK, OwnDescriptor
      <4>2. owner[g] # c
        BY <2>2, <4>1 DEF Live
      <4>. QED
        BY <2>1, <2>2, <4>1, <4>2 DEF IInv, TypeOK, Live
    <3>. QED
      BY <3>1, <3>2
  <2>5. ASSUME ~stray', NEW d \in Conn, Live(d)'
        PROVE  owner'[sock'[d]] = d
    <3>1. CASE d = c
      BY <2>1, <3>1 DEF IInv, TypeOK
    <3>2. CASE d # c
      <4>1. Live(d) /\ sock'[d] = sock[d] /\ sock[d] \in Fd
        BY <2>1, <2>2, <2>5, <3>2 DEF IInv, TypeOK, Live, HasSocket
      <4>2. owner[sock[d]] = d
        BY <2>2, <2>5, <4>1, OwnSocket
      <4>. QED
        BY <2>1, <4>1, <4>2, ConnAssumption DEF IInv, TypeOK
    <3>. QED
      BY <3>1, <3>2
  <2>. QED
    BY <2>2, <2>3, <2>4, <2>5 DEF IInv, OwnDescriptor
<1>2. ASSUME NEW c \in Conn, pc[c] # "out", sock[c] \in Fd,
             owner' = [owner EXCEPT ![sock[c]] = None],
             stray' = (stray \/ owner[sock[c]] \notin {c, None}), aborted' = aborted,
             NEW label \in {"out", "answered"},
             pc' = [pc EXCEPT ![c] = label],
             \/ label = "out" /\ sock' = [sock EXCEPT ![c] = None]
             \/ sock' = sock
      PROVE  HasSocket' /\ OwnDescriptor'
  <2>1. HasSocket'
    BY <1>2 DEF IInv, TypeOK, HasSocket
  <2>2. \A d \in Conn \ {c} : pc'[d] = pc[d] /\ sock'[d] = sock[d]
    BY <1>2 DEF IInv, TypeOK
  <2>3. ASSUME NEW g \in Fd, owner'[g] # None
        PROVE  Live(owner[g])' /\ sock'[owner'[g]] = g
    <3>1. g # sock[c] /\ owner'[g] = owner[g]
      BY <1>2, <2>3 DEF IInv, TypeOK
    <3>2. owner[g] \in Conn /\ Live(owner[g]) /\ sock[owner[g]] = g
      BY <2>3, <3>1 DEF IInv, TypeOK, OwnDescriptor
    <3>3. owner[g] # c
      BY <3>1, <3>2
    <3>. QED
      BY <2>2, <3>1, <3>2, <3>3 DEF Live
  <2>4. ASSUME ~stray', NEW d \in Conn, Live(d)'
        PROVE  owner'[sock'[d]] = d
    <3>1. d # c
      BY <1>2, <2>4 DEF Live, IInv, TypeOK
    <3>2. Live(d) /\ sock'[d] = sock[d] /\ sock[d] \in Fd
      BY <2>2, <2>4, <3>1 DEF Live, IInv, HasSocket
    <3>3. ~stray /\ owner[sock[c]] \in {c, None} /\ owner[sock[d]] = d
      BY <1>2, <2>4, <3>2, OwnSocket
    <3>4. sock[d] # sock[c]
      BY <3>1, <3>3, ConnAssumption
    <3>. QED
      BY <1>2, <3>2, <3>3, <3>4 DEF IInv, TypeOK
  <2>. QED
    BY <1>2, <2>1, <2>3, <2>4 DEF IInv, OwnDescriptor
<1>3. ASSUME NEW c \in Conn, EndStep(c) PROVE HasSocket' /\ OwnDescriptor'
  BY <1>2, <1>3, EndFacts
<1>4. ASSUME NEW c \in Conn, AnswerApi(c) PROVE HasSocket' /\ OwnDescriptor'
  <2>1. /\ pc[c] = "api" /\ sock[c] \in Fd /\ sock' = sock
        /\ owner' = [owner EXCEPT ![sock[c]] = None]
        /\ stray' = (stray \/ owner[sock[c]] \notin {c, None}) /\ aborted' = aborted
        /\ pc' = [pc EXCEPT ![c] = "answered"]
    BY <1>4 DEF AnswerApi, Close, IInv, HasSocket
  <2>. QED
    BY <1>2, <2>1
<1>5. ASSUME NEW c \in Conn, Live(c),
             NEW label \in {"parse", "authenticate", "join", "api", "insert", "watching"},
             pc' = [pc EXCEPT ![c] = label] \/ pc' = pc,
             UNCHANGED <<owner, sock, processVars>>
      PROVE  HasSocket' /\ OwnDescriptor'
  BY <1>5 DEF IInv, TypeOK, HasSocket, OwnDescriptor, Live
<1>6. ASSUME NEW c \in Conn, ReadOn(c) \/ Route(c) \/ Admit(c) \/ WriteHead(c) \/ Insert(c)
      PROVE  HasSocket' /\ OwnDescriptor'
  <2>1. Live(c) /\ UNCHANGED <<owner, sock, processVars>>
    BY <1>6 DEF ReadOn, Route, Admit, WriteHead, Insert, Live
  <2>2. \E label \in {"parse", "authenticate", "join", "api", "insert", "watching"} :
          pc' = [pc EXCEPT ![c] = label] \/ pc' = pc
    BY <1>6 DEF ReadOn, Route, Admit, WriteHead, Insert
  <2>. QED
    BY <1>5, <2>1, <2>2
<1>7. ASSUME UNCHANGED <<owner, pc, sock, processVars>> PROVE HasSocket' /\ OwnDescriptor'
  BY <1>7 DEF IInv, HasSocket, OwnDescriptor, Live
<1>8. ASSUME NEW c \in Conn, SendChunk(c) \/ SendTolerated(c)
      PROVE  HasSocket' /\ OwnDescriptor'
  BY <1>7, <1>8 DEF SendChunk, SendTolerated
<1>9. CASE PublisherMoves
  BY <1>7, <1>9 DEF PublisherMoves, Publish, BeginPass, EndPass, Receive, BeginClosing,
                    EndClosing
<1>10. CASE UNCHANGED vars
  BY <1>7, <1>10 DEF vars
<1>11. ASSUME NEW c \in Conn, Abort(c) PROVE HasSocket' /\ OwnDescriptor'
  <2>1. stray
    BY <1>11, OwnSocket, ConnAssumption DEF Abort, Live
  <2>. QED
    BY <1>11, <2>1 DEF Abort, All, HasSocket, OwnDescriptor, Live
<1>. QED
  BY <1>1, <1>3, <1>4, <1>6, <1>8, <1>9, <1>10, <1>11, StepCases
-----------------------------------------------------------------------------
LEMMA UnderrunStep == IInv /\ [Next]_vars => UnderrunEarly'
<1>. SUFFICES ASSUME IInv, [Next]_vars PROVE UnderrunEarly'
  OBVIOUS
<1>. USE DEF threadVars, clientVars, publisherVars, Goto
<1>1. ASSUME UNCHANGED <<bytesRead, underrun>>,
             NEW c \in Conn, pc[c] # "parse",
             NEW label \in {"reading", "answered", "join", "insert", "watching"},
             pc' = [pc EXCEPT ![c] = label] \/ pc' = pc
      PROVE  UnderrunEarly'
  BY <1>1 DEF IInv, TypeOK, UnderrunEarly
<1>2. ASSUME NEW c \in Conn, Accept(c) \/ AnswerApi(c) \/ Admit(c) \/ WriteHead(c) \/ Insert(c)
      PROVE  UnderrunEarly'
  BY <1>1, <1>2 DEF Accept, AnswerApi, Admit, WriteHead, Insert
<1>3. ASSUME UNCHANGED <<pc, bytesRead, underrun>> PROVE UnderrunEarly'
  BY <1>3 DEF IInv, UnderrunEarly
<1>4. ASSUME NEW c \in Conn, SendChunk(c) \/ SendTolerated(c) PROVE UnderrunEarly'
  BY <1>3, <1>4 DEF SendChunk, SendTolerated
<1>5. ASSUME NEW c \in Conn, EndStep(c) PROVE UnderrunEarly'
  <2>1. /\ underrun' = [underrun EXCEPT ![c] = FALSE]
        /\ bytesRead' = [bytesRead EXCEPT ![c] = 0]
        /\ pc' = [pc EXCEPT ![c] = "out"]
    BY <1>5, EndFacts
  <2>. QED
    BY <2>1 DEF IInv, TypeOK, UnderrunEarly
<1>6. ASSUME NEW c \in Conn, Route(c) PROVE UnderrunEarly'
  <2>1. ~underrun[c]
    BY <1>6, SizeAssumption DEF Route, IInv, TypeOK, UnderrunEarly
  <2>2. /\ UNCHANGED underrun /\ bytesRead' = [bytesRead EXCEPT ![c] = 0]
        /\ \E label \in {"authenticate", "api"} : pc' = [pc EXCEPT ![c] = label]
    BY <1>6 DEF Route
  <2>. QED
    BY <2>1, <2>2 DEF IInv, TypeOK, UnderrunEarly
<1>7. ASSUME NEW c \in Conn, ReadOn(c) PROVE UnderrunEarly'
  <2>1. PICK total \in 0 .. BufSize, ends \in BOOLEAN :
          /\ ends \/ total >= 4
          /\ bytesRead' = [bytesRead EXCEPT ![c] = total]
          /\ underrun' = [underrun EXCEPT ![c] = @ \/ total < 4]
          /\ IF ends \/ total = BufSize
               THEN pc' = [pc EXCEPT ![c] = "parse"] ELSE UNCHANGED pc
    BY <1>7, FilledType, FilledGrows DEF ReadOn, IInv, TypeOK
  <2>2. pc[c] = "reading" /\ ~underrun[c] /\ total \in Int
    BY <1>7, SizeAssumption DEF ReadOn, IInv, UnderrunEarly
  <2>3. \A d \in Conn \ {c} : underrun'[d] = underrun[d] /\ bytesRead'[d] = bytesRead[d]
                              /\ pc'[d] = pc[d]
    BY <2>1 DEF IInv, TypeOK
  <2>4. bytesRead'[c] = total
    BY <2>1 DEF IInv, TypeOK
  <2>5. underrun'[c] <=> total < 4
    BY <2>1, <2>2 DEF IInv, TypeOK
  <2>6. CASE ends \/ total = BufSize
    <3>1. pc'[c] = "parse"
      BY <2>1, <2>6 DEF IInv, TypeOK
    <3>. QED
      BY <2>3, <2>4, <2>5, <3>1 DEF IInv, UnderrunEarly
  <2>7. CASE ~(ends \/ total = BufSize)
    <3>1. ~underrun'[c]
      BY <2>1, <2>2, <2>5, <2>7
    <3>. QED
      BY <2>3, <3>1 DEF IInv, UnderrunEarly
  <2>. QED
    BY <2>6, <2>7
<1>8. CASE PublisherMoves
  BY <1>3, <1>8 DEF PublisherMoves, Publish, BeginPass, EndPass, Receive, BeginClosing,
                    EndClosing
<1>9. CASE UNCHANGED vars
  BY <1>3, <1>9 DEF vars
<1>10. ASSUME NEW c \in Conn, Abort(c) PROVE UnderrunEarly'
  BY <1>10 DEF Abort, All, UnderrunEarly
<1>. QED
  BY <1>2, <1>4, <1>5, <1>6, <1>7, <1>8, <1>9, <1>10, StepCases

LEMMA TodoStep == IInv /\ [Next]_vars => TodoGood'
<1>. SUFFICES ASSUME IInv, [Next]_vars PROVE TodoGood'
  OBVIOUS
<1>. USE DEF threadVars, clientVars, publisherVars, Goto
<1>1. ASSUME UNCHANGED publisherVars, NEW c \in Conn, pc[c] # "watching",
             NEW label \in {"reading", "parse", "authenticate", "join", "api", "answered"},
             pc' = [pc EXCEPT ![c] = label] \/ pc' = pc
      PROVE  TodoGood'
  BY <1>1 DEF IInv, TypeOK, TodoGood, Node
<1>2. ASSUME NEW c \in Conn, Accept(c) \/ AnswerApi(c) \/ Route(c) \/ Admit(c) \/ ReadOn(c)
      PROVE  TodoGood'
  BY <1>1, <1>2 DEF Accept, AnswerApi, Route, Admit, ReadOn
<1>3. ASSUME NEW c \in Conn, WriteHead(c) PROVE TodoGood'
  BY <1>3 DEF WriteHead, IInv, TypeOK, TodoGood, Node
<1>4. ASSUME NEW c \in Conn, Insert(c) PROVE TodoGood'
  BY <1>4 DEF Insert, IInv, TypeOK, TodoGood, Node
<1>5. ASSUME NEW c \in Conn, EndStep(c) PROVE TodoGood'
  <2>1. pc' = [pc EXCEPT ![c] = "out"] /\ todo' = todo \ {c} /\ UNCHANGED publisher
    BY <1>5, EndFacts
  <2>. QED
    BY <2>1 DEF IInv, TypeOK, TodoGood, Node
<1>6. ASSUME NEW c \in Conn, SendChunk(c) \/ SendTolerated(c) PROVE TodoGood'
  BY <1>6 DEF SendChunk, SendTolerated, IInv, TypeOK, TodoGood, Node
<1>7. CASE PublisherMoves
  BY <1>7 DEF PublisherMoves, Publish, BeginPass, EndPass, Receive, BeginClosing,
              EndClosing, IInv, TypeOK, TodoGood, Node
<1>8. CASE UNCHANGED vars
  BY <1>8 DEF vars, IInv, TodoGood, Node
<1>9. ASSUME NEW c \in Conn, Abort(c) PROVE TodoGood'
  BY <1>9 DEF Abort, All, TodoGood, Node
<1>. QED
  BY <1>2, <1>3, <1>4, <1>5, <1>6, <1>7, <1>8, <1>9, StepCases
-----------------------------------------------------------------------------
(* A write for c under no second close reaches the client of c. *)
LEMMA ReachesOwn ==
  ASSUME IInv, ~stray, NEW c \in Conn, c \in todo \/ pc[c] = "join"
  PROVE  owner[sock[c]] = c
BY OwnSocket DEF IInv, TodoGood, Node, Live

LEMMA FrameStep == IInv /\ [Next]_vars => FrameGood'
<1>. SUFFICES ASSUME IInv, [Next]_vars, ~stray' PROVE FrameGood'
  BY DEF FrameGood
<1>. USE DEF threadVars, clientVars, publisherVars, processVars, Goto
<1>1. ASSUME UNCHANGED <<stray, frame, chunk>>,
             NEW c \in Conn, pc[c] # "watching",
             NEW label \in {"reading", "parse", "authenticate", "join", "api", "insert",
                           "watching"},
             pc' = [pc EXCEPT ![c] = label] \/ pc' = pc
      PROVE  FrameGood'
  BY <1>1 DEF IInv, TypeOK, FrameGood
<1>2. ASSUME NEW c \in Conn, Accept(c) \/ Route(c) \/ Admit(c) \/ ReadOn(c) \/ Insert(c)
      PROVE  FrameGood'
  BY <1>1, <1>2 DEF Accept, Route, Admit, ReadOn, Insert
<1>3. ASSUME NEW c \in Conn, AnswerApi(c) PROVE FrameGood'
  <2>1. ~stray /\ frame' = frame /\ UNCHANGED chunk
    BY <1>3 DEF AnswerApi, Close, Misdirected
  <2>2. pc[c] = "api" /\ pc' = [pc EXCEPT ![c] = "answered"]
    BY <1>3 DEF AnswerApi
  <2>. QED
    BY <2>1, <2>2 DEF IInv, TypeOK, FrameGood
<1>4. ASSUME NEW c \in Conn, WriteHead(c) PROVE FrameGood'
  <2>1. ~stray /\ pc[c] = "join" /\ pc' = [pc EXCEPT ![c] = "insert"]
        /\ UNCHANGED chunk
    BY <1>4 DEF WriteHead
  <2>2. frame' = [frame EXCEPT ![c] = "head"]
    BY <1>4, <2>1, ReachesOwn, ConnAssumption DEF WriteHead
  <2>. QED
    BY <2>1, <2>2 DEF IInv, TypeOK, FrameGood
<1>5. ASSUME NEW c \in Conn, EndStep(c) PROVE FrameGood'
  <2>1. /\ ~stray /\ frame' = [frame EXCEPT ![c] = "none"]
        /\ pc' = [pc EXCEPT ![c] = "out"] /\ UNCHANGED chunk
    BY <1>5, EndFacts
  <2>. QED
    BY <2>1 DEF IInv, TypeOK, FrameGood
<1>6. ASSUME NEW c \in Conn, SendChunk(c) PROVE FrameGood'
  <2>1. ~stray /\ c \in todo /\ pc[c] = "watching" /\ UNCHANGED <<pc, chunk>>
    BY <1>6 DEF SendChunk, IInv, TodoGood, Node
  <2>2. \/ frame' = [frame EXCEPT ![c] = AfterChunk(@)]
        \/ frame' = [frame EXCEPT ![c] = AfterPart(@, "cut")]
    BY <1>6, <2>1, ReachesOwn DEF SendChunk
  <2>. QED
    BY <2>1, <2>2 DEF AfterChunk, AfterPart, IInv, TypeOK, FrameGood
<1>7. ASSUME NEW c \in Conn, SendTolerated(c) PROVE FrameGood'
  <2>1. ~stray /\ c \in todo /\ pc[c] = "watching" /\ UNCHANGED <<pc, chunk>>
    BY <1>7 DEF SendTolerated, IInv, TodoGood, Node
  <2>2. frame' = frame \/ frame' = [frame EXCEPT ![c] = AfterPart(@, "torn")]
    BY <1>7, <2>1, ReachesOwn DEF SendTolerated
  <2>. QED
    BY <2>1, <2>2 DEF AfterPart, IInv, TypeOK, FrameGood
<1>8. CASE PublisherMoves
  <2>1. UNCHANGED <<pc, frame, stray>>
    BY <1>8 DEF PublisherMoves, Publish, BeginPass, EndPass, Receive, BeginClosing,
                EndClosing
  <2>2. CASE chunk' = "empty" /\ chunk # "empty"
    <3>1. Node = {}
      BY <1>8, <2>2 DEF PublisherMoves, Publish, BeginPass, EndPass, Receive,
                        BeginClosing, EndClosing, IInv, TodoGood
    <3>. QED
      BY <2>1, <3>1 DEF IInv, FrameGood, Node
  <2>3. CASE ~(chunk' = "empty" /\ chunk # "empty")
    BY <2>1, <2>3 DEF IInv, FrameGood
  <2>. QED
    BY <2>2, <2>3
<1>9. CASE UNCHANGED vars
  BY <1>9 DEF vars, IInv, FrameGood
<1>10. ASSUME NEW c \in Conn, Abort(c) PROVE FrameGood'
  BY <1>10 DEF Abort, All, FrameGood
<1>. QED
  BY <1>2, <1>3, <1>4, <1>5, <1>6, <1>7, <1>8, <1>9, <1>10, StepCases

LEMMA InvStep == IInv /\ [Next]_vars => IInv'
BY TypeStep, SocketStep, UnderrunStep, TodoStep, FrameStep DEF IInv
-----------------------------------------------------------------------------
(* The inductive invariant of connections and descriptors. *)
THEOREM Invariance == Spec => []IInv
BY InvInit, InvStep, PTL DEF Spec

(* Every open descriptor is closed by its connection, and without a second    *)
(* close that has hit a stranger nobody works with a descriptor not his own.  *)
THEOREM OwnDescriptorHolds == Spec => []OwnDescriptor
<1>1. IInv => OwnDescriptor
  BY DEF IInv
<1>. QED BY <1>1, Invariance, PTL

(* A request searched before the start of the buffer is not answered. *)
THEOREM UnderrunIsHarmlessHolds == Spec => []UnderrunIsHarmless
<1>1. IInv => UnderrunIsHarmless
  BY DEF IInv, UnderrunEarly, UnderrunIsHarmless
<1>. QED BY <1>1, Invariance, PTL

(* Only a chunk can end an answer that has had data, and an empty one is   *)
(* never sent to a client that has.                                        *)
LEMMA DataStep ==
  ASSUME IInv, Next, ~stray', NEW d \in Conn, frame[d] = "whole"
  PROVE  frame'[d] # "ended"
<1>. USE DEF threadVars, clientVars, publisherVars, processVars
<1>1. ASSUME NEW c \in Conn,
             \/ Accept(c) \/ ReadOn(c) \/ Route(c) \/ Admit(c) \/ Insert(c)
             \/ PublisherMoves
      PROVE  frame' = frame
  BY <1>1 DEF Accept, ReadOn, Route, Admit, Insert, PublisherMoves, Publish, BeginPass,
              EndPass, Receive, BeginClosing, EndClosing
<1>2. ASSUME NEW c \in Conn, AnswerApi(c) PROVE frame' = frame
  BY <1>2 DEF AnswerApi, Close, Misdirected
<1>3. ASSUME NEW c \in Conn, EndStep(c) PROVE frame'[d] # "ended"
  <2>1. frame' = [frame EXCEPT ![c] = "none"]
    BY <1>3, EndFacts
  <2>. QED
    BY <2>1 DEF IInv, TypeOK
<1>4. ASSUME NEW c \in Conn, WriteHead(c) PROVE frame'[d] # "ended"
  BY <1>4 DEF WriteHead, IInv, TypeOK
<1>5. ASSUME NEW c \in Conn, SendTolerated(c) PROVE frame'[d] # "ended"
  BY <1>5 DEF SendTolerated, AfterPart, IInv, TypeOK
<1>6. ASSUME NEW c \in Conn, SendChunk(c) PROVE frame'[d] # "ended"
  <2>1. ~stray /\ c \in todo
    BY <1>6 DEF SendChunk
  <2>2. chunk # "empty"
    BY <2>1 DEF IInv, FrameGood
  <2>3. \/ frame' = [frame EXCEPT ![c] = AfterChunk(@)]
        \/ frame' = [frame EXCEPT ![c] = AfterPart(@, "cut")]
    BY <1>6, <2>1, ReachesOwn DEF SendChunk
  <2>4. AfterChunk("whole") = "whole" /\ AfterPart("whole", "cut") = "cut"
    BY <2>2 DEF AfterChunk, AfterPart
  <2>5. CASE d = c
    BY <2>3, <2>4, <2>5 DEF IInv, TypeOK
  <2>6. CASE d # c
    BY <2>3, <2>6 DEF IInv, TypeOK
  <2>. QED
    BY <2>5, <2>6
<1>7. ASSUME NEW c \in Conn, Abort(c) PROVE frame'[d] # "ended"
  BY <1>7 DEF Abort, All
<1>. QED
  BY <1>1, <1>2, <1>3, <1>4, <1>5, <1>6, <1>7, StepCases

(* Once a watcher was sent data, nothing ends its answer but its own end. *)
THEOREM NeverEndedAfterDataHolds == Spec => NeverEndedAfterData
<1>1. IInv /\ [Next]_vars
      => [~stray' => \A c \in Conn : ~(frame[c] = "whole" /\ frame'[c] = "ended")]_vars
  BY DataStep
<1>. QED
  BY <1>1, Invariance, PTL DEF Spec, NeverEndedAfterData
=============================================================================
