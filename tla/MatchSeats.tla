----------------------------- MODULE MatchSeats -----------------------------
(***************************************************************************)
(* What a team match promises the teams that apply to it: teams ask, some  *)
(* of those that ask are seated, one at a time and never more than there   *)
(* are places, a seat is never taken back, and nobody asks for, or waits   *)
(* for, a match that is full.  TeamMatchRecruitment implements it.         *)
(***************************************************************************)
EXTENDS Naturals, FiniteSets

CONSTANTS Teams

VARIABLES places, asking, seated

vars == <<places, asking, seated>>

Init ==
    /\ places \in {1, 2}
    /\ asking = {} /\ seated = {}

Full == Cardinality(seated) = places

Ask(t) ==
    /\ ~Full
    /\ t \notin seated
    /\ asking' = asking \cup {t}
    /\ UNCHANGED <<places, seated>>

\* Applications are withdrawn, refused or expire, one or several at a time.
Leave ==
    /\ asking' \in SUBSET asking
    /\ UNCHANGED <<places, seated>>

Take(t) ==
    /\ ~Full
    /\ t \in asking
    /\ seated' = seated \cup {t}
    /\ asking' = IF Cardinality(seated') = places THEN {} ELSE asking \ {t}
    /\ UNCHANGED places

Next == Leave \/ \E t \in Teams : Ask(t) \/ Take(t)

Spec == Init /\ [][Next]_vars
=============================================================================
