-------------------------- MODULE MCResultRevision --------------------------
(* Small instance of ResultRevision: one game of any lane. *)
EXTENDS ResultRevision
=============================================================================
