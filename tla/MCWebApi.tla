------------------------------- MODULE MCWebApi -------------------------------
(* Instances of WebApi for TLC. *)
EXTENDS WebApi, TLC

(* Requests, stream names and addresses are interchangeable. *)
Symmetry == UNION {Permutations(S) : S \in {Request, Stream, List}}
=============================================================================
