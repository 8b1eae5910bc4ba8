---- MODULE MCLiveGame ----
(* Instances of LiveGame for TLC; the bounds are in the configurations. *)
EXTENDS LiveGame
====
