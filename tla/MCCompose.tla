----------------------------- MODULE MCCompose ------------------------------
(* The instance of Compose that TLC checks.  Requests and texts are interchangeable. *)
EXTENDS Compose, TLC

RequestSymmetry == Permutations(Requests) \cup Permutations(Texts)
=============================================================================
