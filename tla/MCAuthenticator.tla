--------------------------- MODULE MCAuthenticator ---------------------------
(* Instances of Authenticator for TLC. *)
EXTENDS Authenticator, TLC

(* Callers are interchangeable. *)
Symmetry == Permutations(Caller)
=============================================================================
