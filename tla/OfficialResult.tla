--------------------------- MODULE OfficialResult ---------------------------
(***************************************************************************)
(* What a game promises about its result to everybody who reads it: at     *)
(* most one revision is the result, a corrected or voided one is withdrawn *)
(* for good, a game that had a result has one or says that it is void, and *)
(* the public is only ever moved to the result of the moment.              *)
(* ResultRevision implements this specification.                           *)
(***************************************************************************)
EXTENDS Naturals

CONSTANT Revisions    \* numbers of revisions; 0 is none of them

VARIABLES
    result,      \* the revision that is the result, or 0
    void,        \* the last result, or what was to become one, was annulled
    withdrawn,   \* the results there were before
    public       \* the revision the public sees, or 0

vars == <<result, void, withdrawn, public>>

Init ==
    /\ result = 0
    /\ void = FALSE
    /\ withdrawn = {}
    /\ public = 0

\* No result is withdrawn and confirmed again.
Fresh(r) == r # result /\ r \notin withdrawn

Confirm(r) ==
    /\ result = 0
    /\ Fresh(r)
    /\ result' = r
    /\ void' = FALSE
    /\ UNCHANGED <<withdrawn, public>>

Correct(r) ==
    /\ result # 0
    /\ Fresh(r)
    /\ result' = r
    /\ withdrawn' = withdrawn \cup {result}
    /\ UNCHANGED <<void, public>>

Void ==
    /\ result # 0
    /\ result' = 0
    /\ void' = TRUE
    /\ withdrawn' = withdrawn \cup {result}
    /\ UNCHANGED public

\* What was submitted, but not confirmed, is annulled.
Discard ==
    /\ result = 0
    /\ void' = TRUE
    /\ UNCHANGED <<result, withdrawn, public>>

Publish ==
    /\ result # 0
    /\ public' = result
    /\ UNCHANGED <<result, void, withdrawn>>

Hide ==
    /\ void
    /\ public' = 0
    /\ UNCHANGED <<result, void, withdrawn>>

Next ==
    \/ \E r \in Revisions : Confirm(r) \/ Correct(r)
    \/ Void \/ Discard \/ Publish \/ Hide

Spec == Init /\ [][Next]_vars
=============================================================================
