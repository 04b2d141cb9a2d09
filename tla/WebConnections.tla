----------------------------- MODULE WebConnections -----------------------------
(***************************************************************************)
(* HTTP connections from accept to close: the thread that reads, parses    *)
(* and routes a request (run_web_subscriber, web_api), the publisher's     *)
(* thread that owns the connection of a watcher from then on and writes    *)
(* chunks to it (srt_publisher, write_to_web_subscriber), and the          *)
(* descriptors they name sockets by.  A descriptor that is closed is free  *)
(* for the next accept: who still holds its number then names somebody     *)
(* else's socket.                                                          *)
(*                                                                         *)
(* There is one stream at a time.  access_lock and web_subscribers_lock    *)
(* show in the guards of BeginClosing and Insert; the registry, its other  *)
(* locks, the cached list and the counter of pending authentications are   *)
(* PublishedStream's, WebApi's and Authenticator's.  What the answers say  *)
(* is left out, what a watcher's parser sees of the chunked encoding is    *)
(* not.                                                                    *)
(***************************************************************************)
EXTENDS Integers, FiniteSets

CONSTANTS
  Conn,        \* HTTP connections; a slot that is over serves a later one
  Fd,          \* descriptors that accept can return
  ReadSize,    \* what read can return: -1 or a number of bytes
  BufSize,     \* buf_size, 1023
  MinRead,     \* a read of fewer bytes must bring the end of the request, 256
  MinRequest,  \* bytes in the shortest request that can be parsed
  MaxWebSendFails,
  None         \* nobody, and nothing

ASSUME ConnAssumption == None \notin Conn /\ None \notin Fd
ASSUME SizeAssumption ==
  /\ BufSize \in Nat /\ MinRead \in Nat /\ MinRequest \in Nat
  /\ ReadSize \subseteq Int
  /\ 4 <= MinRequest /\ 4 <= MinRead
ASSUME FailsAssumption == MaxWebSendFails \in Nat

VARIABLES
  owner,     \* the kernel's table: the connection whose socket a descriptor names
  pc,        \* where the thread of a connection is; "watching" once it has ended
             \* and left a web_subscriber_node behind
  sock,      \* its local sock, and the node's
  bytesRead, \* its bytes_read
  frame,     \* what the client has of a stream: "none", the "head" of the answer,
             \* "whole" chunks after it, an "ended" answer, a chunk "torn" by an
             \* error, a chunk "cut" by a write that took a part of its bytes
  corked,    \* TCP_CORK is set
  numFails,  \* num_fails of the node
  publisher, \* the stream: "absent", "open" between two passes over its nodes,
             \* "pass", "receive", "closing"
  chunk,     \* bytes_read of the publisher's thread: "empty" or "data"
  todo,      \* nodes that the pass, or the closing, has yet to come to
  underrun,  \* history: the request was searched before the start of buf
  aborted,   \* the process is gone
  stray      \* history: a close hit the socket of another connection

threadVars == <<pc, sock, bytesRead, underrun>>
clientVars == <<frame, corked, numFails>>
publisherVars == <<publisher, chunk, todo>>
processVars == <<aborted, stray>>
vars == <<owner, threadVars, clientVars, publisherVars, processVars>>

All(value) == [c \in Conn |-> value]

Init ==
  /\ owner = [f \in Fd |-> None]
  /\ pc = All("out") /\ sock = All(None) /\ bytesRead = All(0) /\ underrun = All(FALSE)
  /\ frame = All("none") /\ corked = All(FALSE) /\ numFails = All(0)
  /\ publisher = "absent" /\ chunk = "empty" /\ todo = {}
  /\ aborted = FALSE /\ stray = FALSE

Goto(c, label) == pc' = [pc EXCEPT ![c] = label]

(* close(sock) by whoever acts for c.  Closing a free descriptor does nothing. *)
Close(c) ==
  /\ owner' = [owner EXCEPT ![sock[c]] = None]
  /\ stray' = (stray \/ owner[sock[c]] \notin {c, None})
  /\ UNCHANGED aborted

(* What the clients have got after an answer for c, which arrives at whoever *)
(* has the descriptor now.                                                   *)
Misdirected(c) ==
  LET o == owner[sock[c]]
  IN  IF o \in {c, None} THEN frame ELSE [frame EXCEPT ![o] = "torn"]

(* The last act of a thread, or of the publisher for a node: all that was *)
(* known of the connection goes with it.                                  *)
CloseAndEnd(c, got) ==
  /\ Close(c)
  /\ Goto(c, "out")
  /\ sock' = [sock EXCEPT ![c] = None]
  /\ bytesRead' = [bytesRead EXCEPT ![c] = 0]
  /\ underrun' = [underrun EXCEPT ![c] = FALSE]
  /\ frame' = [got EXCEPT ![c] = "none"]
  /\ corked' = [corked EXCEPT ![c] = FALSE]
  /\ numFails' = [numFails EXCEPT ![c] = 0]
-----------------------------------------------------------------------------
(* accept returns a free descriptor, and a thread starts.  A connection whose *)
(* socket options cannot be set is closed at once and leaves no trace.        *)
Accept(c) ==
  /\ ~aborted
  /\ pc[c] = "out"
  /\ \E f \in Fd :
       /\ owner[f] = None
       /\ owner' = [owner EXCEPT ![f] = c]
       /\ sock' = [sock EXCEPT ![c] = f]
  /\ Goto(c, "reading")
  /\ UNCHANGED <<bytesRead, underrun, clientVars, publisherVars, processVars>>

(* What read returns when b is there for it, and bytes_read after it. *)
Returned(got, b) == IF b > BufSize - got THEN BufSize - got ELSE b
Filled(got, b) == IF b > 0 THEN got + b ELSE got

(* Mutant of Read: short reads are tried again, only an error gives up. *)
ReadPatiently(c) ==
  /\ pc[c] = "reading"
  /\ \E size \in ReadSize, ends \in BOOLEAN :
       LET b == Returned(bytesRead[c], size)
           total == Filled(bytesRead[c], b)
       IN  /\ owner[sock[c]] = None => b = -1
           /\ total = bytesRead[c] /\ total > 0 => ~ends
           /\ IF ~ends /\ b < 0 THEN CloseAndEnd(c, frame)
              ELSE /\ bytesRead' = [bytesRead EXCEPT ![c] = total]
                   /\ underrun' = [underrun EXCEPT ![c] = @ \/ total < 4]
                   /\ IF ends \/ total = BufSize THEN Goto(c, "parse") ELSE UNCHANGED pc
                   /\ UNCHANGED <<owner, sock, clientVars, processVars>>
  /\ UNCHANGED publisherVars

(* One turn of the loop.  read brings bytes, nothing (the client has closed) *)
(* or an error (1.5 seconds have passed).  Then the last four bytes are      *)
(* compared with an empty line: with fewer than four, what lies before buf   *)
(* decides, and else a turn that brought nothing cannot find the line that   *)
(* was not there before.  A full buffer ends the loop without one, if what   *)
(* filled it was not too short a read.                                       *)
Read(c) ==
  /\ pc[c] = "reading"
  /\ \E size \in ReadSize, ends \in BOOLEAN :
       LET b == Returned(bytesRead[c], size)
           total == Filled(bytesRead[c], b)
       IN  /\ owner[sock[c]] = None => b = -1
           /\ total = bytesRead[c] /\ total > 0 => ~ends
           /\ IF ~ends /\ b < MinRead THEN CloseAndEnd(c, frame)
              ELSE /\ bytesRead' = [bytesRead EXCEPT ![c] = total]
                   /\ underrun' = [underrun EXCEPT ![c] = @ \/ total < 4]
                   /\ IF ends \/ total = BufSize THEN Goto(c, "parse") ELSE UNCHANGED pc
                   /\ UNCHANGED <<owner, sock, clientVars, processVars>>
  /\ UNCHANGED publisherVars

(* The socket is made non-blocking, which is asserted to succeed: it fails if *)
(* the descriptor is closed, and the process ends with all its sockets.       *)
Abort(c) ==
  /\ pc[c] = "parse"
  /\ owner[sock[c]] = None
  /\ owner' = [f \in Fd |-> None]
  /\ pc' = All("out") /\ sock' = All(None) /\ bytesRead' = All(0) /\ underrun' = All(FALSE)
  /\ frame' = All("none") /\ corked' = All(FALSE) /\ numFails' = All(0)
  /\ publisher' = "absent" /\ chunk' = "empty" /\ todo' = {}
  /\ aborted' = TRUE
  /\ UNCHANGED stray

(* phr_parse_request fails, or the path is none of ours. *)
Drop(c) ==
  /\ pc[c] = "parse"
  /\ owner[sock[c]] # None
  /\ CloseAndEnd(c, frame)
  /\ UNCHANGED publisherVars

(* /stream/ or /api/, if there is enough of a request to be one.  bytes_read *)
(* is not looked at any more.                                                *)
Route(c) ==
  /\ pc[c] = "parse"
  /\ owner[sock[c]] # None
  /\ bytesRead[c] >= MinRequest
  /\ \E label \in {"authenticate", "api"} : Goto(c, label)
  /\ bytesRead' = [bytesRead EXCEPT ![c] = 0]
  /\ UNCHANGED <<owner, sock, underrun, clientVars, publisherVars, processVars>>
-----------------------------------------------------------------------------
(* web_api: neither stream/ nor streams/. *)
BadRequest(c) ==
  /\ pc[c] = "api"
  /\ CloseAndEnd(c, Misdirected(c))
  /\ UNCHANGED publisherVars

(* single_stream_data and active_stream_list close the socket themselves... *)
AnswerApi(c) ==
  /\ pc[c] = "api"
  /\ Close(c)
  /\ frame' = Misdirected(c)
  /\ Goto(c, "answered")
  /\ UNCHANGED <<sock, bytesRead, underrun, corked, numFails, publisherVars>>

(* ...and web_api closes it once more, for a list after update_stream_list. *)
CloseAgain(c) ==
  /\ pc[c] = "answered"
  /\ CloseAndEnd(c, frame)
  /\ UNCHANGED publisherVars

(* The external command has ended: add_web_subscriber goes on, or answers *)
(* that there is no such stream.                                          *)
Authenticate(c) ==
  /\ pc[c] = "authenticate"
  /\ \/ /\ Goto(c, "join")
        /\ UNCHANGED <<owner, sock, bytesRead, underrun, clientVars, processVars>>
     \/ CloseAndEnd(c, Misdirected(c))
  /\ UNCHANGED publisherVars

(* Too many watchers, or no such stream. *)
NotAdmitted(c) ==
  /\ pc[c] = "join"
  /\ CloseAndEnd(c, Misdirected(c))
  /\ UNCHANGED publisherVars

(* The stream is found, and its access_lock held until Insert. *)
WriteHead(c) ==
  /\ pc[c] = "join"
  /\ publisher \notin {"absent", "closing"}
  /\ \A d \in Conn : pc[d] # "insert"
  /\ LET o == owner[sock[c]]
     IN  frame' = IF o = None THEN frame
                  ELSE [frame EXCEPT ![o] = IF o = c THEN "head" ELSE "torn"]
  /\ Goto(c, "insert")
  /\ UNCHANGED <<owner, sock, bytesRead, underrun, corked, numFails,
                 publisherVars, processVars>>

(* Mutant of Insert: the publisher keeps the lock while it receives. *)
InsertNotInReceive(c) ==
  /\ pc[c] = "insert"
  /\ publisher \notin {"pass", "receive"}
  /\ Goto(c, "watching")
  /\ UNCHANGED <<owner, sock, bytesRead, underrun, clientVars, publisherVars, processVars>>

(* The node is added under web_subscribers_lock, hence not during a pass. *)
Insert(c) ==
  /\ pc[c] = "insert"
  /\ publisher # "pass"
  /\ Goto(c, "watching")
  /\ UNCHANGED <<owner, sock, bytesRead, underrun, clientVars, publisherVars, processVars>>
-----------------------------------------------------------------------------
Node == {c \in Conn : pc[c] = "watching"}

(* A stream is published.  Its first pass comes before its first packet. *)
Publish ==
  /\ ~aborted
  /\ publisher = "absent"
  /\ publisher' = "open"
  /\ UNCHANGED <<owner, threadVars, clientVars, chunk, todo, processVars>>

BeginPass ==
  /\ publisher = "open"
  /\ publisher' = "pass" /\ todo' = Node
  /\ UNCHANGED <<owner, threadVars, clientVars, chunk, processVars>>

(* A whole chunk, in the eyes of a client: one of length zero ends the answer, *)
(* and after the end nothing counts.                                           *)
AfterChunk(seen) ==
  CASE seen \in {"head", "whole"} -> IF chunk = "empty" THEN "ended" ELSE "whole"
    [] OTHER -> seen

(* The client has been sent a part of a chunk, no more. *)
AfterPart(seen, how) == IF seen \in {"head", "whole"} THEN how ELSE seen

(* The parts of a chunk are written one after the other: all go, or one of   *)
(* them goes in part, which nobody notices.                                  *)
SendChunk(c) ==
  /\ c \in todo /\ publisher = "pass"
  /\ LET o == owner[sock[c]]
     IN  /\ o # None
         /\ corked' = [corked EXCEPT ![o] = FALSE]
         /\ \/ frame' = [frame EXCEPT ![o] = IF o = c THEN AfterChunk(@) ELSE "torn"]
            \/ frame' = [frame EXCEPT ![o] = AfterPart(@, "cut")]
  /\ todo' = todo \ {c}
  /\ UNCHANGED <<owner, threadVars, numFails, publisher, chunk, processVars>>

(* Mutant of SendTolerated: a failure in the middle of a chunk is not counted. *)
SendToleratedUncounted(c) ==
  /\ c \in todo /\ publisher = "pass"
  /\ numFails[c] <= MaxWebSendFails
  /\ LET o == owner[sock[c]]
     IN  /\ o # None
         /\ corked' = [corked EXCEPT ![o] = TRUE]
         /\ \/ UNCHANGED frame
            \/ frame' = [frame EXCEPT ![o] = AfterPart(@, "torn")]
  /\ todo' = todo \ {c}
  /\ UNCHANGED <<owner, threadVars, numFails, publisher, chunk, processVars>>

(* The socket's buffer is full, before the first part or in the middle.  The *)
(* function returns without uncorking the socket.                            *)
SendTolerated(c) ==
  /\ c \in todo /\ publisher = "pass"
  /\ numFails[c] <= MaxWebSendFails
  /\ LET o == owner[sock[c]]
     IN  /\ o # None
         /\ corked' = [corked EXCEPT ![o] = TRUE]
         /\ \/ UNCHANGED frame
            \/ frame' = [frame EXCEPT ![o] = AfterPart(@, "torn")]
  /\ numFails' = [numFails EXCEPT ![c] = @ + 1]
  /\ todo' = todo \ {c}
  /\ UNCHANGED <<owner, threadVars, publisher, chunk, processVars>>

(* Mutant of SendFails: the connection is closed and its node stays. *)
SendFailsKeepingNode(c) ==
  /\ c \in todo /\ publisher = "pass"
  /\ Close(c)
  /\ todo' = todo \ {c}
  /\ UNCHANGED <<threadVars, clientVars, publisher, chunk>>

(* Another error, as it is when the descriptor is closed, or one full buffer *)
(* too many: remove_web_subscriber_node.                                     *)
SendFails(c) ==
  /\ c \in todo /\ publisher = "pass"
  /\ CloseAndEnd(c, frame)
  /\ todo' = todo \ {c}
  /\ UNCHANGED <<publisher, chunk>>

EndPass ==
  /\ publisher = "pass" /\ todo = {}
  /\ publisher' = "receive"
  /\ UNCHANGED <<owner, threadVars, clientVars, chunk, todo, processVars>>

(* Mutant of Receive: when nothing comes in time, the loop goes on. *)
ReceiveOrTimeOut ==
  /\ publisher = "receive"
  /\ publisher' = "open" /\ chunk' \in {"data", "empty"}
  /\ UNCHANGED <<owner, threadVars, clientVars, todo, processVars>>

Receive ==
  /\ publisher = "receive"
  /\ publisher' = "open" /\ chunk' = "data"
  /\ UNCHANGED <<owner, threadVars, clientVars, todo, processVars>>

(* srt_recvmsg2 fails: remove_stream_from_map waits for access_lock. *)
BeginClosing ==
  /\ publisher = "receive"
  /\ \A c \in Conn : pc[c] # "insert"
  /\ publisher' = "closing" /\ todo' = Node
  /\ UNCHANGED <<owner, threadVars, clientVars, chunk, processVars>>

(* The node's answer is ended, and its connection closed. *)
CloseNode(c) ==
  /\ c \in todo /\ publisher = "closing"
  /\ CloseAndEnd(c, Misdirected(c))
  /\ todo' = todo \ {c}
  /\ UNCHANGED <<publisher, chunk>>

(* The publisher's thread ends; the next one starts with bytes_read = 0. *)
EndClosing ==
  /\ publisher = "closing" /\ todo = {}
  /\ publisher' = "absent" /\ chunk' = "empty"
  /\ UNCHANGED <<owner, threadVars, clientVars, todo, processVars>>
-----------------------------------------------------------------------------
(* What a thread does without waiting for more than its own socket. *)
ThreadStep(c) ==
  \/ Read(c) \/ Abort(c) \/ Drop(c) \/ Route(c)
  \/ BadRequest(c) \/ AnswerApi(c) \/ CloseAgain(c)
  \/ NotAdmitted(c) \/ WriteHead(c)

PassStep == EndPass \/ \E c \in Conn : SendChunk(c) \/ SendTolerated(c) \/ SendFails(c)
ClosingStep == EndClosing \/ \E c \in Conn : CloseNode(c)

Next ==
  \/ \E c \in Conn : Accept(c) \/ ThreadStep(c) \/ Authenticate(c) \/ Insert(c)
  \/ Publish \/ BeginPass \/ PassStep \/ Receive \/ BeginClosing \/ ClosingStep

Spec == Init /\ [][Next]_vars

(* Threads go on: reads time out, writes do not wait, and whoever waits for a *)
(* list's lock gets it in the end.  Clients and publishers owe nothing, and   *)
(* neither does the authentication command, for which nobody sets a time      *)
(* limit: there is no fairness of Authenticate.                               *)
Fairness ==
  /\ \A c \in Conn : WF_vars(ThreadStep(c)) /\ SF_vars(Insert(c))
  /\ WF_vars(PassStep) /\ WF_vars(ClosingStep)

FairSpec == Spec /\ Fairness
-----------------------------------------------------------------------------
TypeOK ==
  /\ owner \in [Fd -> Conn \cup {None}]
  /\ pc \in [Conn -> {"out", "reading", "parse", "api", "answered", "authenticate",
                      "join", "insert", "watching"}]
  /\ sock \in [Conn -> Fd \cup {None}]
  /\ bytesRead \in [Conn -> 0 .. BufSize]
  /\ frame \in [Conn -> {"none", "head", "whole", "ended", "torn", "cut"}]
  /\ corked \in [Conn -> BOOLEAN] /\ underrun \in [Conn -> BOOLEAN]
  /\ numFails \in [Conn -> Nat]
  /\ publisher \in {"absent", "open", "pass", "receive", "closing"}
  /\ chunk \in {"empty", "data"}
  /\ todo \subseteq Conn
  /\ aborted \in BOOLEAN /\ stray \in BOOLEAN

(* Between accept and the close that gives the descriptor back. *)
Live(c) == pc[c] \notin {"out", "answered"}

(* Every open descriptor is that of a connection somebody will still close.  *)
(* The other way round, who still works with a descriptor works with his own *)
(* connection's, and no thread finds its own closed before it has made it    *)
(* non-blocking, which aborts the process: unless a second close of web_api  *)
(* has hit another's.  All other paths close once, and nobody uses what he   *)
(* closed.                                                                   *)
OwnDescriptor ==
  /\ \A f \in Fd : owner[f] # None => Live(owner[f]) /\ sock[owner[f]] = f
  /\ ~stray => ~aborted /\ \A c \in Conn : Live(c) => owner[sock[c]] = c

(* A request that was searched for its end before the start of the buffer is *)
(* closed without an answer, whatever was found there.                       *)
UnderrunIsHarmless ==
  \A c \in Conn : underrun[c] => pc[c] \in {"out", "parse"}

(* "Allow up to MAX_WEB_SEND_FAILS EAGAIN/EWOULDBLOCK errors before removing  *)
(* the web node" (srt_publisher.c).  The code compares before it counts.      *)
FailuresWithinLimit == \A c \in Node : numFails[c] <= MaxWebSendFails

(* Once a watcher was sent data, nothing ends its answer before its          *)
(* connection is closed.  The empty chunk of the first pass ends the answer  *)
(* of those who came before it, who then never get any data.                 *)
NeverEndedAfterData ==
  [][~stray' => \A c \in Conn : ~(frame[c] = "whole" /\ frame'[c] = "ended")]_vars

(* A client that is too slow does not stay so: while its stream goes on, a    *)
(* watcher whose sends fail again and again is dropped, also if there are     *)
(* successes in between, and one that is never dropped comes to get every     *)
(* chunk, its socket never again left corked by a send that gave up halfway.  *)
SlowWatchersSettle ==
  \A c \in Conn :
    <>[](c \in Node /\ owner[sock[c]] = c) /\ []<>(publisher = "pass")
      => <>[]~corked[c]

(* The thread of each connection comes to its end, whatever its client sends  *)
(* or does not send; the one thing it may wait for in vain is the             *)
(* authentication command.                                                    *)
ThreadsEnd ==
  \A c \in Conn : pc[c] # "out" ~> pc[c] \in {"out", "authenticate", "watching"}
=============================================================================
