-------------------------------- MODULE MCPage --------------------------------
(* The page for TLC.  Its two scripts share no variable, and StreamPlayer    *)
(* lets any name be clicked, whether or not StreamList shows it: what one    *)
(* script does leaves the other as it is.  So TLC follows either of them     *)
(* while the other stands still, instead of all pairs of their states.  The  *)
(* fairness is that of the list's script; behaviours that follow the player  *)
(* count for the invariants only.                                            *)
EXTENDS StreamPlayer

CONSTANTS Malformed, Fetch

VARIABLES
  served, up, stage, list, shown, displayed, hovered,
  followed  \* the script that TLC follows

listVars == <<served, up, stage, list, shown, displayed, hovered>>

List == INSTANCE StreamList

PageInit ==
  /\ Init /\ List!Init
  /\ \/ followed = "player" /\ served = {} /\ stage[CHOOSE f \in Fetch : TRUE] = "sent"
     \/ followed = "list" /\ hash = None

PageNext ==
  \/ /\ followed = "player" /\ Next
     /\ UNCHANGED <<listVars, followed>>
  \/ /\ followed = "list" /\ List!Next
     /\ UNCHANGED <<vars, followed>>

PageSpec == PageInit /\ [][PageNext]_<<vars, listVars, followed>> /\ List!Fairness

(* The list of streams comes to show what the server serves: see StreamList. *)
PageFollowsServer == List!PageFollowsServer
=============================================================================
