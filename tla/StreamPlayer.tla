------------------------------ MODULE StreamPlayer ------------------------------
(***************************************************************************)
(* The player of the web page (www/js/play_stream.js).  The page runs on   *)
(* one thread: each handler runs to its end, and between two handlers the  *)
(* user, the network and the players made by mpegts.js may do anything.    *)
(* playStream asks the server whether a stream exists and makes a player   *)
(* when the answer comes, whatever has happened to the page in between.    *)
(*                                                                         *)
(* Name stands for what can be written in the text field, in a link or in  *)
(* the fragment of the address.  decodeURI turns a fragment into a form    *)
(* that leads to the same URL, and the two are not told apart here; or it  *)
(* throws, for the fragments in Undecodable (a '%' that escapes nothing,   *)
(* which neither the server nor fetch objects to).                         *)
(***************************************************************************)
EXTENDS Integers, Sequences, SequencesExt

CONSTANTS
  Name,         \* what can be asked for
  Undecodable,  \* the names on which decodeURI throws
  Player,       \* mpegts players, named anew once they are destroyed
  MaxPending,   \* bound on the requests whose answers are awaited
  None          \* null, the empty field, the empty fragment

ASSUME NameAssumption == None \notin Name /\ Undecodable \subseteq Name
ASSUME PlayerAssumption == None \notin Player
ASSUME PendingAssumption == MaxPending \in Nat

VARIABLES
  script,   \* what has run: "list" stream_list.js, "player" play_stream.js too,
            \* "ready" setup too, "failed" setup threw
  field,    \* streamNameInput.value
  hash,     \* window.location.hash
  pending,  \* arguments of the calls of playStream that await a response, oldest first
  stream,   \* what each player plays; None if there is no such player
  player,   \* the variable of that name
  source,   \* the player whose media source the video element plays
  ended,    \* the video element has played its source to the end
  asked,      \* history: the argument of the last call of playStream
  overlapped, \* history: a call was made while another awaited its response
  edited,     \* history: the field was written since the user last asked for a stream
  moved       \* history: the fragment was changed by hand, or by going back, since
              \* the page last wrote it

playerVars == <<stream, player, source, ended>>
historyVars == <<asked, overlapped, edited>>
vars == <<script, field, hash, pending, playerVars, historyVars, moved>>

(* The page is opened, with any link. *)
Init ==
  /\ script = "list" /\ field = None
  /\ hash \in Name \cup {None}
  /\ pending = <<>>
  /\ stream = [p \in Player |-> None]
  /\ player = None /\ source = None /\ ended = FALSE
  /\ asked = None /\ overlapped = FALSE /\ edited = FALSE /\ moved = FALSE
-----------------------------------------------------------------------------
(* Mutant of CleanupPlayer: the variable keeps the destroyed player. *)
CleanupKeepingReference ==
  IF player = None THEN UNCHANGED playerVars
  ELSE /\ stream' = [stream EXCEPT ![player] = None]
       /\ source' = None /\ ended' = FALSE
       /\ UNCHANGED player

(* Detaching a player takes the source off the video, whoever's it is. *)
CleanupPlayer ==
  IF player = None THEN UNCHANGED playerVars
  ELSE /\ stream' = [stream EXCEPT ![player] = None]
       /\ player' = None /\ source' = None /\ ended' = FALSE

(* Mutant of PlayStream: the old player is left until the answer comes. *)
PlayWithoutCleanup(n) ==
  /\ Len(pending) < MaxPending
  /\ pending' = Append(pending, n)
  /\ asked' = n
  /\ overlapped' = (overlapped \/ pending # <<>>)
  /\ UNCHANGED playerVars

PlayStream(n) ==
  /\ Len(pending) < MaxPending
  /\ CleanupPlayer
  /\ pending' = Append(pending, n)
  /\ asked' = n
  /\ overlapped' = (overlapped \/ pending # <<>>)

Found(i) ==
  /\ pending[i] # None
  /\ \E p \in Player :
       /\ stream[p] = None
       /\ stream' = [stream EXCEPT ![p] = pending[i]]
       /\ player' = p /\ source' = p /\ ended' = FALSE
  /\ hash' = pending[i] /\ moved' = FALSE
  /\ pending' = RemoveAt(pending, i)
  /\ UNCHANGED <<script, field, historyVars>>

(* The stream does not exist, the browser cannot play it, or fetch failed, *)
(* which nobody handles.  /api/stream/ with nothing behind it is refused.  *)
NotFound(i) ==
  /\ pending' = RemoveAt(pending, i)
  /\ UNCHANGED <<script, field, hash, playerVars, historyVars, moved>>

(* Responses come in any order. *)
Response == \E i \in DOMAIN pending : Found(i) \/ NotFound(i)
-----------------------------------------------------------------------------
(* A player reports an error, once it cannot load or append any more: a     *)
(* connection broke, or the video was given to another player.  The handler *)
(* destroys whatever player is current and asks for this player's stream.   *)
PlayerError(p) ==
  /\ stream[p] # None
  /\ PlayStream(stream[p])
  /\ UNCHANGED <<script, field, hash, edited, moved>>

(* The server ended its answer: the video reaches the end of its source, *)
(* and the player stays.                                                  *)
StreamEnds ==
  /\ source # None /\ ~ended
  /\ ended' = TRUE
  /\ UNCHANGED <<script, field, hash, pending, stream, player, source, historyVars, moved>>
-----------------------------------------------------------------------------
(* play_stream.js runs, after stream_list.js and while the page goes on. *)
RunScript ==
  /\ script = "list"
  /\ script' = "player"
  /\ UNCHANGED <<field, hash, pending, playerVars, historyVars, moved>>

(* window.onload.  When decodeURI throws, the form never gets its handler. *)
Setup ==
  /\ script = "player"
  /\ IF hash \in Undecodable
       THEN script' = "failed" /\ UNCHANGED <<field, edited>>
       ELSE script' = "ready" /\ field' = hash /\ edited' = TRUE
  /\ UNCHANGED <<hash, pending, playerVars, asked, overlapped, moved>>

Type(n) ==
  /\ field' = n
  /\ edited' = TRUE
  /\ UNCHANGED <<script, hash, pending, playerVars, asked, overlapped, moved>>

(* startPlayer, by the form once it has its handler, or by the video's play *)
(* button when it has nothing left to play.                                 *)
StartPlayer ==
  /\ \/ script = "ready"
     \/ script # "list" /\ (source = None \/ ended)
  /\ PlayStream(field)
  /\ edited' = FALSE
  /\ UNCHANGED <<script, field, hash, moved>>

(* Mutant of ClickListed: the field is left as it is. *)
ClickWithoutField(n) ==
  /\ script # "list"
  /\ PlayStream(n)
  /\ edited' = FALSE
  /\ UNCHANGED <<script, field, hash, moved>>

(* A button of the list of streams.  Before play_stream.js has run, its     *)
(* handler throws at its first statement.                                   *)
ClickListed(n) ==
  /\ script # "list"
  /\ field' = n
  /\ PlayStream(n)
  /\ edited' = FALSE
  /\ UNCHANGED <<script, hash, moved>>

(* The page is opened anew, and keeps its fragment only. *)
Reload ==
  /\ script' = "list" /\ field' = None
  /\ pending' = <<>>
  /\ stream' = [p \in Player |-> None]
  /\ player' = None /\ source' = None /\ ended' = FALSE
  /\ asked' = None /\ overlapped' = FALSE /\ edited' = FALSE /\ moved' = FALSE
  /\ UNCHANGED hash

(* The user goes back to an older fragment, which nobody listens for. *)
MoveTo(n) ==
  /\ hash' = n /\ moved' = TRUE
  /\ UNCHANGED <<script, field, pending, playerVars, historyVars>>

Next ==
  \/ RunScript \/ Setup \/ Reload
  \/ \E n \in Name \cup {None} : MoveTo(n)
  \/ StartPlayer
  \/ \E n \in Name : Type(n) \/ ClickListed(n)
  \/ Response
  \/ StreamEnds
  \/ \E p \in Player : PlayerError(p)

Spec == Init /\ [][Next]_vars
-----------------------------------------------------------------------------
TypeOK ==
  /\ script \in {"list", "player", "ready", "failed"}
  /\ {field, hash, asked} \subseteq Name \cup {None}
  /\ pending \in Seq(Name \cup {None})
  /\ stream \in [Player -> Name \cup {None}]
  /\ {player, source} \subseteq Player \cup {None}
  /\ {ended, overlapped, edited, moved} \subseteq BOOLEAN

(* The video plays the source of the current player, which exists, and the    *)
(* address of the page names its stream unless the user has changed it, so    *)
(* that a link or a reload leads to what is seen: also after overlapping      *)
(* requests and errors of players that the page has lost track of.            *)
PageAgrees ==
  /\ source = player
  /\ player # None =>
       /\ stream[player] \in Name
       /\ hash = stream[player] \/ moved

(* As long as no request was made while another awaited its answer, there is *)
(* never a second player, which would go on loading and take over the screen *)
(* at its first error, and what plays is what was asked for last.            *)
OnlyPlaysNewest ==
  ~overlapped =>
    \A p \in Player : stream[p] # None => p = player /\ stream[p] = asked

(* As long as requests do not overlap and nobody writes into the field,      *)
(* pressing play again asks for what was asked for last, whichever of the    *)
(* form, the list and a retry after an error asked for it.                   *)
ReplayAsksForSame ==
  ~overlapped /\ ~edited /\ asked # None => field = asked
=============================================================================
