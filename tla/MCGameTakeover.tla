---- MODULE MCGameTakeover ----
(* An instance of GameTakeover for TLC. *)
EXTENDS GameTakeover, TLC

Symmetry == Permutations(Requests) \cup Permutations(Subjects)
====
