-------------------------- MODULE MCPublishedStream --------------------------
(* Instances of PublishedStream for TLC. *)
EXTENDS PublishedStreamInvariant, TLC

(* Slots of one kind, and names, are interchangeable: no definition tells  *)
(* them apart.  Used by the safety runs only.                              *)
Symmetry ==
  UNION {Permutations(S) : S \in {Publisher, SrtSubscriber, WebSubscriber,
                                  ApiRequest, Name}}
=============================================================================
