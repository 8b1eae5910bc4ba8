---- MODULE MCGameConsole ----
(* Instances of GameConsole for TLC. *)
EXTENDS GameConsole, TLC

Symmetry == Permutations(Ids) \cup Permutations(Handlers)
====
