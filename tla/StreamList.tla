------------------------------- MODULE StreamList -------------------------------
(***************************************************************************)
(* The list of active streams on the web page (www/js/stream_list.js).     *)
(* Every five seconds, whether or not earlier requests were answered, the  *)
(* page asks the server for the list; what comes back is shown when it     *)
(* comes, unless the pointer is over the list.  The page runs on one       *)
(* thread: each callback is one step.                                      *)
(*                                                                         *)
(* served is the list that the server gives; it changes as WebApi says,    *)
(* and its order is left out.  Malformed are the names on which            *)
(* decodeURIComponent throws: SRT publishers choose names freely.          *)
(***************************************************************************)
EXTENDS Naturals

CONSTANTS
  Name,       \* names of listed streams
  Malformed,  \* those that are not well-formed percent-encodings
  Fetch       \* requests that can be under way at once

VARIABLES
  served,    \* the list the server answers with
  up,        \* the server can be reached, and what it answers arrives whole
  stage,     \* of each request: "idle", "sent", "refused" or, when its body is read, "body"
  list,      \* the body of each request in that stage
  shown,     \* the names that have a button on the page
  displayed, \* the container of the list is displayed
  hovered    \* streamListContainer.matches(':hover')

serverVars == <<served, up>>
pageVars == <<shown, displayed, hovered>>
vars == <<serverVars, stage, list, pageVars>>

(* The script has asked for a list and set its timer. *)
Init ==
  /\ served \in SUBSET Name /\ up = TRUE
  /\ \E f \in Fetch : stage = [g \in Fetch |-> IF g = f THEN "sent" ELSE "idle"]
  /\ list = [f \in Fetch |-> {}]
  /\ shown = {} /\ displayed = FALSE /\ hovered = FALSE

Goto(f, label) == stage' = [stage EXCEPT ![f] = label]
-----------------------------------------------------------------------------
(* Mutant of GetActiveStreams: the timer asks only while a list is displayed. *)
GetWhileDisplayed(f) ==
  /\ stage[f] = "idle"
  /\ displayed
  /\ Goto(f, "sent")
  /\ UNCHANGED <<serverVars, list, pageVars>>

GetActiveStreams(f) ==
  /\ stage[f] = "idle"
  /\ Goto(f, "sent")
  /\ UNCHANGED <<serverVars, list, pageVars>>

(* The server writes the list it has, or what stands in front of it answers *)
(* with an error, or fetch rejects, which nobody handles.                   *)
Answer(f) ==
  /\ stage[f] = "sent"
  /\ IF up
       THEN Goto(f, "body") /\ list' = [list EXCEPT ![f] = served]
       ELSE (Goto(f, "refused") \/ Goto(f, "idle")) /\ UNCHANGED list
  /\ UNCHANGED <<serverVars, pageVars>>

(* The old list is removed and the new one built up name by name.  At the  *)
(* first malformed name the callback ends with an exception: the names     *)
(* before it, whichever they are, are all the page shows.                  *)
ShowActiveStreams(names) ==
  IF hovered THEN UNCHANGED <<shown, displayed>>
  ELSE /\ displayed' = (names # {})
       /\ IF names \cap Malformed = {} THEN shown' = names
          ELSE shown' \in SUBSET (names \ Malformed)

Refused(f) ==
  /\ stage[f] = "refused"
  /\ ShowActiveStreams({})
  /\ Goto(f, "idle")
  /\ UNCHANGED <<serverVars, list, hovered>>

(* response.json() is ready. *)
BodyRead(f) ==
  /\ stage[f] = "body"
  /\ ShowActiveStreams(list[f])
  /\ Goto(f, "idle")
  /\ list' = [list EXCEPT ![f] = {}]
  /\ UNCHANGED <<serverVars, hovered>>

(* The connection breaks within the body, or the body is no JSON:     *)
(* response.json() rejects.  That is what up = FALSE stands for then. *)
BodyLost(f) ==
  /\ stage[f] = "body" /\ ~up
  /\ Goto(f, "idle")
  /\ list' = [list EXCEPT ![f] = {}]
  /\ UNCHANGED <<serverVars, pageVars>>
-----------------------------------------------------------------------------
(* The pointer enters the list, if there is one to enter, and leaves it. *)
Hover ==
  /\ displayed
  /\ hovered' = ~hovered
  /\ UNCHANGED <<serverVars, stage, list, shown, displayed>>

(* Streams come and go. *)
ServedChanges(n) ==
  /\ served' = IF n \in served THEN served \ {n} ELSE served \cup {n}
  /\ UNCHANGED <<up, stage, list, pageVars>>

ServerFailsOrRecovers ==
  /\ up' = ~up
  /\ UNCHANGED <<served, stage, list, pageVars>>

Response(f) == Answer(f) \/ Refused(f) \/ BodyRead(f) \/ BodyLost(f)

Next ==
  \/ \E f \in Fetch : GetActiveStreams(f) \/ Response(f)
  \/ Hover
  \/ \E n \in Name : ServedChanges(n)
  \/ ServerFailsOrRecovers

Spec == Init /\ [][Next]_vars

(* The timer goes on, and each request comes to an end.  Nothing is assumed *)
(* of the server, the streams and the pointer, and nothing of the order.    *)
Fairness ==
  /\ \A f \in Fetch : WF_vars(Response(f))
  /\ WF_vars(\E f \in Fetch : GetActiveStreams(f))

FairSpec == Spec /\ Fairness
-----------------------------------------------------------------------------
TypeOK ==
  /\ {served, shown} \subseteq SUBSET Name
  /\ {up, displayed, hovered} \subseteq BOOLEAN
  /\ stage \in [Fetch -> {"idle", "sent", "refused", "body"}]
  /\ list \in [Fetch -> SUBSET Name]

(* When streams no longer come and go, answers arrive whole from then on and *)
(* the pointer stays away, the page comes to show what is served, or, as     *)
(* long as a malformed name is served, nothing that is not: answers that     *)
(* overtake each other, errors, lost answers and a callback that an earlier  *)
(* malformed name has cut short cannot leave it outdated for ever.           *)
PageFollowsServer ==
  \A names \in SUBSET Name :
    <>[](served = names /\ up /\ ~hovered)
      => <>[](/\ shown \subseteq names \ Malformed
              /\ displayed = (names # {})
              /\ names \cap Malformed = {} => shown = names)
=============================================================================
