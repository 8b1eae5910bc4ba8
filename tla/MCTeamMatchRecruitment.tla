---- MODULE MCTeamMatchRecruitment ----
(* Instances of TeamMatchRecruitment for TLC. *)
EXTENDS TeamMatchRecruitment, TLC

CONSTANTS host, a, b, u, v

MCManages == {<<u, a>>, <<u, b>>, <<v, b>>}
MCManagesOne == {<<u, a>>}
MCPlans == {[start |-> 1, deadline |-> NoDeadline], [start |-> 2, deadline |-> 1]}
Symmetry == Permutations(Workers)
====
