---- MODULE MCRegistrationCapacity ----
(* The instance of RegistrationCapacity for TLC. *)
EXTENDS RegistrationCapacity, TLC

Symmetry == Permutations(Teams) \cup Permutations(Workers)
====
