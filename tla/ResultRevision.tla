--------------------------- MODULE ResultRevision ---------------------------
(***************************************************************************)
(* The revisions of one game's result, from the first draft to the         *)
(* corrections of a confirmed result, with the jobs that the outbox worker *)
(* runs afterwards in any order: the public cache of the confirmed result, *)
(* and the review queue of a submitted one.                                *)
(*                                                                         *)
(* Every command holds the row lock of the game and compares its version,  *)
(* so commands are atomic; what they race is the worker.  A command may    *)
(* name any revision: the version it is checked against is the game's.     *)
(* Who may call a command depends on the lane the fixture plays in:        *)
(* a friendly whose result the host submits (FRIENDLY) or both teams keep  *)
(* on one sheet (SHARED), a regular league or a tournament.                *)
(***************************************************************************)
EXTENDS Naturals, Sequences, FiniteSets

CONSTANT MaxRevisions    \* bound: how many revisions a game may collect

ASSUME MaxRevisionsAssumption == MaxRevisions \in Nat \ {0}

VARIABLES
  lane,      \* which competition the fixture belongs to; never changes
  goals,     \* the event log of the game holds a goal
  ended,     \* V1Game.state is ENDED
  revs,      \* v1_game_result_revisions by number: state and supersedesId (0: null)
  official,  \* V1Game.currentOfficialRevisionId (0: null)
  jobs,      \* outbox events not yet applied: <<type, revision>>
  review,    \* v1_result_escalations of a revision: none, open (PENDING or
             \* ACKNOWLEDGED) or closed
  shown      \* the revision whose row of the public cache is_current (0: no row)

vars == <<lane, goals, ended, revs, official, jobs, review, shown>>

Lanes == {"FRIENDLY", "SHARED", "LEAGUE", "TOURNAMENT"}
Submitted == lane \in {"FRIENDLY", "LEAGUE"}
Managed == lane \in {"LEAGUE", "TOURNAMENT"}
States == {"DRAFT", "SUBMITTED", "CHANGE_REQUESTED", "OFFICIAL", "VOID"}
Terminal == {"CHANGE_REQUESTED", "OFFICIAL", "VOID"}

Latest == Len(revs)
State(r) == IF r = 0 THEN "none" ELSE revs[r].state
In(state) == {r \in DOMAIN revs : revs[r].state = state}
Superseded(r) == \E s \in DOMAIN revs : revs[s].supersedes = r
HasRoom == Latest < MaxRevisions

ProjectionJobs == {"OFFICIAL", "VOIDED"}

(***************************************************************************)
(* The reminder and the escalation of a review do the same to this state   *)
(* and are cancelled together: one job stands for the later of the two.    *)
(***************************************************************************)
SlaJobs(rows) == {"ESCALATION"} \X rows

(***************************************************************************)
(* closeRevisionReviewSla and its three copies: the open review rows of a  *)
(* revision and its reminders that have not fired.                         *)
(***************************************************************************)
Closed(rows) ==
  [r \in DOMAIN review |-> IF r \in rows /\ review[r] = "open" THEN "closed" ELSE review[r]]
CloseSla(rows, new) ==
  /\ review' = Closed(rows)
  /\ jobs' = (jobs \ SlaJobs(rows)) \union new

(***************************************************************************)
(* A new row carries the next number.                                      *)
(***************************************************************************)
With(rows, state, base) == Append(rows, [state |-> state, supersedes |-> base])
Write(state, base) == revs' = With(revs, state, base)
Decided(r, state) == [revs EXCEPT ![r].state = state]
Job(type, r) == {<<type, r>>}

Init ==
  /\ lane \in Lanes
  /\ goals \in BOOLEAN
  /\ ended = FALSE
  /\ revs = <<>>
  /\ official = 0
  /\ jobs = {}
  /\ review = [r \in 1..MaxRevisions |-> "none"]
  /\ shown = 0

(***************************************************************************)
(* Commands of the games service.                                          *)
(***************************************************************************)
CreateResultRevision ==
  /\ Submitted /\ HasRoom
  /\ Latest # 0 => State(Latest) \in {"CHANGE_REQUESTED", "VOID"}
  /\ Write("DRAFT", Latest)
  /\ UNCHANGED <<lane, goals, ended, official, jobs, review, shown>>

SubmitResultRevision(r) ==
  /\ Submitted
  /\ State(r) = "DRAFT"
  /\ revs' = Decided(r, "SUBMITTED")
  /\ ended' = TRUE
  /\ jobs' = jobs \union Job("SUBMITTED", r)
  /\ UNCHANGED <<lane, goals, official, review, shown>>

Approve(r) ==
  /\ Submitted
  /\ State(r) = "SUBMITTED"
  /\ revs' = Decided(r, "OFFICIAL")
  /\ official' = r
  /\ jobs' = jobs \union Job("OFFICIAL", r)
  /\ UNCHANGED <<lane, goals, ended, review, shown>>

RequestChange(r) ==
  /\ Submitted
  /\ State(r) = "SUBMITTED"
  /\ revs' = Decided(r, "CHANGE_REQUESTED")
  /\ UNCHANGED <<lane, goals, ended, official, jobs, review, shown>>

(***************************************************************************)
(* The end command of a managed fixture submits what the events say.       *)
(***************************************************************************)
DeriveOnEnd ==
  /\ Managed /\ ~ended /\ HasRoom
  /\ Write("SUBMITTED", 0)
  /\ ended' = TRUE
  /\ jobs' = jobs \union Job("SUBMITTED", Latest + 1)
  /\ UNCHANGED <<lane, goals, official, review, shown>>

(***************************************************************************)
(* An assist is attached to a recorded goal.  The submitted revision with  *)
(* the highest number gets a successor numbered one more; where a later    *)
(* revision has that number already the command fails and changes nothing. *)
(***************************************************************************)
AssignGoalAssist(r) ==
  /\ lane # "SHARED" /\ goals
  /\ State(official) # "OFFICIAL" /\ HasRoom
  /\ r \in In("SUBMITTED") /\ \A s \in In("SUBMITTED") : s <= r
  /\ r = Latest
  /\ Write("SUBMITTED", r)
  /\ CloseSla({r}, Job("SUBMITTED", Latest + 1))
  /\ UNCHANGED <<lane, goals, ended, official, shown>>

(***************************************************************************)
(* Commands of the tournament result review, for managed fixtures.         *)
(***************************************************************************)
SupersedeAndSubmit(r) ==
  /\ Managed /\ HasRoom
  /\ State(r) = "SUBMITTED"
  /\ Write("SUBMITTED", r)
  /\ jobs' = jobs \union Job("SUBMITTED", Latest + 1)
  /\ UNCHANGED <<lane, goals, ended, official, review, shown>>

\* Mutant: a review that does not ask whether the game has a result already.
MayOfficializeAgain(r) ==
  \/ State(r) = "DRAFT" /\ revs[r].supersedes # 0 /\ revs[r].supersedes = official
  \/ State(r) = "SUBMITTED" /\ ~Superseded(r)

MayOfficialize(r) ==
  \/ State(r) = "DRAFT" /\ revs[r].supersedes # 0 /\ revs[r].supersedes = official
  \/ State(r) = "SUBMITTED" /\ ~Superseded(r) /\ official = 0

OfficializeResultRevision(r) ==
  /\ Managed
  /\ MayOfficialize(r)
  /\ revs' = Decided(r, "OFFICIAL")
  /\ official' = r
  /\ jobs' = jobs \union Job("OFFICIAL", r)
  /\ UNCHANGED <<lane, goals, ended, review, shown>>

VoidResultRevision ==
  /\ Managed /\ HasRoom
  /\ State(official) = "OFFICIAL"
  /\ Write("VOID", official)
  /\ official' = Latest + 1
  /\ CloseSla({official}, Job("VOIDED", Latest + 1))
  /\ UNCHANGED <<lane, goals, ended, shown>>

CreateResultCorrection ==
  /\ Managed /\ HasRoom
  /\ State(official) \in {"OFFICIAL", "VOID"}
  /\ Write("DRAFT", official)
  /\ UNCHANGED <<lane, goals, ended, official, jobs, review, shown>>

QuickResult ==
  /\ Managed /\ ~goals /\ HasRoom
  /\ \/ ~ended /\ Latest = 0
     \/ ended /\ State(Latest) = "VOID" /\ official = Latest
  /\ Write("OFFICIAL", official)
  /\ official' = Latest + 1
  /\ ended' = TRUE
  /\ jobs' = jobs \union Job("OFFICIAL", Latest + 1)
  /\ UNCHANGED <<lane, goals, review, shown>>

(***************************************************************************)
(* A team of a started tournament fixture is replaced: the result nobody   *)
(* confirmed is discarded, and the events of that team with it.            *)
(***************************************************************************)
Unconfirmed == In("DRAFT") \union In("SUBMITTED")

\* Mutant: every row of the game goes VOID, the decided ones too.
DiscardAll(rows) == [r \in DOMAIN revs |-> [revs[r] EXCEPT !.state = "VOID"]]

Discard(rows) ==
  [r \in DOMAIN revs |-> IF r \in rows THEN [revs[r] EXCEPT !.state = "VOID"] ELSE revs[r]]

DiscardUnconfirmedResultRevisions ==
  /\ lane = "TOURNAMENT" /\ ended /\ HasRoom
  /\ State(official) # "OFFICIAL"
  /\ State(Latest) \in {"DRAFT", "SUBMITTED", "CHANGE_REQUESTED"}
  /\ revs' = With(Discard(Unconfirmed), "VOID", Latest)
  /\ official' = Latest + 1
  /\ CloseSla(Unconfirmed \union {Latest}, {})
  /\ goals' \in {goals, FALSE}
  /\ UNCHANGED <<lane, ended, shown>>

(***************************************************************************)
(* An administrator corrects who played: the confirmed result, or the      *)
(* submitted one where nothing is confirmed, gets a successor in the same  *)
(* state.                                                                  *)
(***************************************************************************)
RosterBase == IF official = 0 THEN Latest ELSE official

SyncAdminEndedGameRoster ==
  /\ Managed /\ ended /\ HasRoom
  /\ \/ /\ State(RosterBase) = "OFFICIAL"
        /\ Write("OFFICIAL", RosterBase)
        /\ official' = Latest + 1
        /\ jobs' = jobs \union Job("OFFICIAL", Latest + 1)
        /\ UNCHANGED review
     \/ /\ State(RosterBase) = "SUBMITTED"
        /\ Write("SUBMITTED", RosterBase)
        /\ CloseSla({RosterBase}, Job("SUBMITTED", Latest + 1))
        /\ UNCHANGED official
  /\ UNCHANGED <<lane, goals, ended, shown>>

(***************************************************************************)
(* The score sheet both friendly teams share: confirmed by both it is the  *)
(* result, and an administrator corrects it in one step.  The commands     *)
(* above refuse a game that has such a sheet.                              *)
(***************************************************************************)
OfficializeShared ==
  /\ lane = "SHARED" /\ ~ended /\ Latest = 0
  /\ Write("OFFICIAL", 0)
  /\ official' = 1
  /\ ended' = TRUE
  /\ jobs' = jobs \union Job("OFFICIAL", 1)
  /\ UNCHANGED <<lane, goals, review, shown>>

SupersedeOfficialResult ==
  /\ lane = "SHARED" /\ HasRoom
  /\ State(Latest) = "OFFICIAL" /\ official = Latest
  /\ Write("OFFICIAL", Latest)
  /\ official' = Latest + 1
  /\ jobs' = jobs \union Job("OFFICIAL", Latest + 1)
  /\ UNCHANGED <<lane, goals, ended, review, shown>>

(***************************************************************************)
(* The worker.  A job is applied once, in its own transaction, and jobs of *)
(* one game are applied in any order.                                      *)
(***************************************************************************)
InReview(r) == State(r) = "SUBMITTED"

\* Mutant: a review is opened for a submission that was replaced meanwhile.
AsksForReviewStale(r) == InReview(r) /\ lane # "LEAGUE"

AsksForReview(r) == InReview(r) /\ lane # "LEAGUE" /\ ~Superseded(r)

SubmittedHandler(r) ==
  /\ <<"SUBMITTED", r>> \in jobs
  /\ LET rest == jobs \ Job("SUBMITTED", r) IN
     \/ /\ AsksForReview(r)
        /\ review' = [review EXCEPT ![r] = IF @ = "none" THEN "open" ELSE @]
        /\ jobs' = rest \union SlaJobs({r})
     \/ /\ InReview(r) /\ lane # "LEAGUE" /\ Superseded(r)
        /\ review' = Closed({r})
        /\ jobs' = rest \ SlaJobs({r})
     \/ /\ ~InReview(r) \/ lane = "LEAGUE"
        /\ jobs' = rest
        /\ UNCHANGED review
  /\ UNCHANGED <<lane, goals, ended, revs, official, shown>>

\* Mutant: the delivery looks at the state of the revision only.
EscalationHandlerBlind(r) ==
  /\ <<"ESCALATION", r>> \in jobs
  /\ jobs' = jobs \ SlaJobs({r})
  /\ UNCHANGED <<lane, goals, ended, revs, official, review, shown>>

EscalationHandler(r) ==
  /\ <<"ESCALATION", r>> \in jobs
  /\ jobs' = jobs \ SlaJobs({r})
  /\ review' = IF InReview(r) /\ Superseded(r) THEN Closed({r}) ELSE review
  /\ UNCHANGED <<lane, goals, ended, revs, official, shown>>

\* Mutant: whatever result was confirmed last to be projected is the public one.
AlwaysCurrent(r) == TRUE

Current(r) == official = r

OfficialHandler(r) ==
  /\ <<"OFFICIAL", r>> \in jobs
  /\ \/ /\ Current(r)
        /\ shown' = r
        /\ review' = Closed({r})
        /\ jobs' = jobs \ (SlaJobs({r}) \union Job("OFFICIAL", r))
     \/ /\ ~Current(r)
        /\ jobs' = jobs \ Job("OFFICIAL", r)
        /\ UNCHANGED <<review, shown>>
  /\ UNCHANGED <<lane, goals, ended, revs, official>>

VoidedHandler(r) ==
  /\ <<"VOIDED", r>> \in jobs
  /\ jobs' = jobs \ Job("VOIDED", r)
  /\ shown' = IF Current(r) THEN 0 ELSE shown
  /\ UNCHANGED <<lane, goals, ended, revs, official, review>>

Worker(r) ==
  \/ SubmittedHandler(r) \/ EscalationHandler(r)
  \/ OfficialHandler(r) \/ VoidedHandler(r)

Next ==
  \/ CreateResultRevision \/ DeriveOnEnd \/ VoidResultRevision
  \/ CreateResultCorrection \/ QuickResult \/ DiscardUnconfirmedResultRevisions
  \/ SyncAdminEndedGameRoster \/ OfficializeShared \/ SupersedeOfficialResult
  \/ \E r \in DOMAIN revs :
       \/ SubmitResultRevision(r) \/ Approve(r) \/ RequestChange(r)
       \/ AssignGoalAssist(r) \/ SupersedeAndSubmit(r)
       \/ OfficializeResultRevision(r) \/ Worker(r)

Spec == Init /\ [][Next]_vars
-----------------------------------------------------------------------------
(***************************************************************************)
(* The abstract result: the revision the pointer names, if it is official; *)
(* every other official row has been the result before.                    *)
(***************************************************************************)
Result == INSTANCE OfficialResult WITH
  Revisions <- 1..MaxRevisions,
  result <- IF State(official) = "OFFICIAL" THEN official ELSE 0,
  void <- State(official) = "VOID",
  withdrawn <- In("OFFICIAL") \ {official},
  public <- shown

\* In every lane, and however late the worker applies the projections: one result
\* at a time, none that is confirmed, corrected or voided outside of it, none that
\* comes back, and a public that is only moved to the result of the moment.
ImplementsResult == Result!Spec

\* Types, and the shape of the table: a revision supersedes an earlier one.
TypeOK ==
  /\ lane \in Lanes /\ goals \in BOOLEAN /\ ended \in BOOLEAN
  /\ revs \in Seq([state : States, supersedes : 0..MaxRevisions])
  /\ Latest <= MaxRevisions
  /\ \A r \in DOMAIN revs : revs[r].supersedes < r
  /\ official \in 0..Latest /\ shown \in 0..Latest
  /\ official # 0 => State(official) \in {"OFFICIAL", "VOID"}
  /\ shown # 0 => State(shown) = "OFFICIAL"
  /\ jobs \in SUBSET ({"SUBMITTED", "ESCALATION", "OFFICIAL", "VOIDED"} \X DOMAIN revs)
  /\ review \in [1..MaxRevisions -> {"none", "open", "closed"}]

\* What was decided about a revision is final, and a game that has an official
\* pointer keeps one: a correction, a void or a replaced team moves it only to a
\* revision with a higher number, except where a decision of a friendly or of a
\* league names an older revision that was still waiting.
DecisionsStand ==
  [][/\ \A r \in DOMAIN revs : State(r) \in Terminal => revs'[r] = revs[r]
     /\ official # 0 => official' # 0
     /\ lane = "TOURNAMENT" => official' >= official]_vars

\* A confirmed tournament result is replaced only by a revision that supersedes
\* it, or by the void of a discarded one: a stale reviewer, an old submission or
\* a correction of an older result never takes its place.
OfficialReplacesOfficial ==
  [][lane = "TOURNAMENT" /\ official # 0 /\ official' # official =>
       \/ revs'[official'].supersedes = official
       \/ State(official) = "VOID" /\ revs'[official'].state = "VOID"]_vars

\* Once the worker has applied every projection, in whatever order, the public
\* shows the confirmed result and nothing older; a void hides it, where no team
\* can be replaced behind its back.
Projected == \A job \in jobs : job[1] \notin ProjectionJobs
PublicFollowsOfficial ==
  Projected =>
    /\ State(official) = "OFFICIAL" => shown = official
    /\ State(official) = "VOID" /\ lane # "TOURNAMENT" => shown = 0

\* A friendly's submitted revision that an assist replaced asks nobody for a
\* review, whether the worker saw it before the assist or after.
NoReviewOfReplaced ==
  lane = "FRIENDLY" => \A r \in In("SUBMITTED") : Superseded(r) => review[r] # "open"

\* The worker never lets the last due delivery of a replaced submission pass and
\* leaves its review open: nothing else would ever come back to close it.
Stale(r) == r \in In("SUBMITTED") /\ Superseded(r) /\ review[r] = "open"
Due(r) == jobs \intersect SlaJobs({r}) # {}
LastDeliveryEndsReview ==
  [][\A r \in DOMAIN revs : Stale(r) /\ Due(r) => Due(r)' \/ ~Stale(r)']_vars

\* tournament-result-review.service.ts, STANDARD flow: a game that has an official
\* result is confirmed again by a correction of it only.  So whatever was confirmed
\* is the official result, or was superseded by a later confirmation or a void.
ConfirmedAgainByCorrection ==
  Managed => \A r \in In("OFFICIAL") :
    r = official \/ \E s \in In("OFFICIAL") \union In("VOID") : revs[s].supersedes = r
=============================================================================
