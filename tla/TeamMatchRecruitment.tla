------------------------ MODULE TeamMatchRecruitment ------------------------
(***************************************************************************)
(* The recruitment of one friendly team match, from its creation to its    *)
(* result: applications, approval, edits, closing, cancellation, the scan  *)
(* that ends a match without an opponent, and the dissolution of teams     *)
(* (team-matches.service.ts, admin-team-match-recruitments.service.ts,     *)
(* admin.service.ts, team-dissolution-tx.ts and                            *)
(* team-match-no-opponent-cancel.service.ts of apps/v1_api/src).  The      *)
(* match is run by a host team, or by the platform, which seats two        *)
(* applicants.                                                             *)
(*                                                                         *)
(* Transactions are PostgreSQL's Read Committed ones: a statement reads    *)
(* what is committed, FOR UPDATE and foreign keys take row locks.  The     *)
(* requests that decide on something read earlier, or lock in another      *)
(* order than the rest, take several steps; what they hold follows from    *)
(* the step they are at, and what they write appears when they commit.     *)
(* The others take one step, when the rows they lock are free.             *)
(***************************************************************************)
EXTENDS Naturals, FiniteSets

CONSTANTS Teams, Users,
          Creator,    \* the team that runs the match, unless the platform does
          Manages,    \* <<user, team>>: owners and managers
          Leavers,    \* bound: the teams that may be dissolved
          Workers,    \* requests in flight that take several steps
          Plans,      \* what a match may be planned for: its start and deadline
          NoDeadline,
          MaxTime,    \* bound: the last instant
          None

ASSUME NoneAssumption == None \notin Teams /\ None \notin Users
ASSUME TeamsAssumption == Creator \in Teams /\ Leavers \subseteq Teams
ASSUME ManagesAssumption == Manages \subseteq Users \X Teams
ASSUME PlansAssumption ==
    /\ NoDeadline \notin Nat
    /\ Plans \subseteq [start : Nat, deadline : Nat \cup {NoDeadline}]

VARIABLES
    platform,     \* platformManaged
    match,        \* the v1_team_matches row
    application,  \* status of each team's application
    appliedBy,    \* and its user
    outdated,     \* history: teams that were left waiting when the host moved the start
    game, away,   \* state of the match's game, team of its AWAY side
    calendar, marked,     \* each team's schedule of the match, and its start
    team,         \* status of each team
    tx,           \* the request each worker serves
    now,
    told          \* history: opponents that were told of a cancellation

applications == <<application, appliedBy, outdated>>
calendars == <<calendar, marked>>
vars == <<platform, match, applications, game, away, calendars, team, tx, now, told>>

Statuses == {"recruiting", "closed", "matched", "cancelled", "completed", "archived"}
Answers == {"none", "requested", "approved", "rejected", "withdrawn", "expired"}
Match == [status : Statuses, host : Teams \cup {None}, opponent : Teams \cup {None},
          plan : [start : Nat, deadline : Nat \cup {NoDeadline}], deleted : BOOLEAN, cancelled : BOOLEAN]
Idle == [op |-> "idle"]
ApplyRequest == [op : {"apply"}, team : Teams, by : Users]
ApproveRequest == [op : {"approve"}, stage : {"read", "locked", "seated"}, team : Teams, start : Nat]
AssignRequest == [op : {"assign"}, stage : {"locked", "read", "listed"}, team : Teams, seen : SUBSET Teams]
CancelRequest == [op : {"cancel"}, stage : {"read", "locked"}, seen : Teams \cup {None}]
DissolveRequest == [op : {"dissolve"}, stage : {"locked", "chosen", "written"}, team : Teams, at : Nat,
                    takes : BOOLEAN, cancels : BOOLEAN, seen : SUBSET Teams]
Requests == {Idle} \cup ApplyRequest \cup ApproveRequest \cup AssignRequest \cup CancelRequest \cup DissolveRequest

TypeOK ==
    /\ platform \in BOOLEAN
    /\ match \in Match
    /\ application \in [Teams -> Answers]
    /\ appliedBy \in [Teams -> Users \cup {None}]
    /\ outdated \in SUBSET Teams
    /\ game \in {"none", "SCHEDULED", "LIVE", "ENDED", "CANCELLED"}
    /\ away \in Teams \cup {None}
    /\ calendar \in [Teams -> {"none", "SCHEDULED", "CANCELLED", "COMPLETED"}]
    /\ marked \in [Teams -> Nat]
    /\ team \in [Teams -> {"active", "archived"}]
    /\ tx \in [Workers -> Requests]
    /\ now \in Nat
    /\ told \in SUBSET Teams

\* validateTeamMatchDates, with the deadline an edit may keep
Future(plan, kept) ==
    /\ plan.start > now
    /\ plan.deadline # NoDeadline =>
        /\ plan.deadline < plan.start
        /\ plan.deadline > now \/ plan.deadline = kept

\* create: a host's match comes with its game and the host's schedule, the
\* platform's only with the recruitment.
Init ==
    /\ platform \in BOOLEAN
    /\ now = 0
    /\ \E plan \in Plans :
        /\ Future(plan, NoDeadline)
        /\ match = [status |-> "recruiting", host |-> IF platform THEN None ELSE Creator,
                    opponent |-> None, plan |-> plan, deleted |-> FALSE, cancelled |-> FALSE]
        /\ marked = [t \in Teams |-> IF ~platform /\ t = Creator THEN plan.start ELSE 0]
    /\ application = [t \in Teams |-> "none"]
    /\ appliedBy = [t \in Teams |-> None]
    /\ outdated = {}
    /\ game = (IF platform THEN "none" ELSE "SCHEDULED")
    /\ away = None
    /\ calendar = [t \in Teams |-> IF ~platform /\ t = Creator THEN "SCHEDULED" ELSE "none"]
    /\ team = [t \in Teams |-> "active"]
    /\ tx = [w \in Workers |-> Idle]
    /\ told = {}

-----------------------------------------------------------------------------
(* Row locks.                                                              *)

InStage(op, stages) == {w \in Workers : tx[w].op = op /\ tx[w].stage \in stages}

\* An approval that has written holds its application and the keys of its team
\* and of the game, which its rows refer to.
Writers == InStage("approve", {"seated"}) \cup InStage("assign", {"listed"})
\* A dissolution that has written holds the applications it withdraws or
\* rejects, and the match when it cancels it.
Leaving == InStage("dissolve", {"written"})

MatchHolders == InStage("approve", {"locked", "seated"}) \cup InStage("assign", {"locked", "read", "listed"})
                \cup {w \in Leaving : tx[w].cancels}
GameHolders == InStage("cancel", {"locked"}) \cup {w \in InStage("dissolve", {"chosen", "written"}) : tx[w].takes}
Dissolvers(t) == {w \in InStage("dissolve", {"locked", "chosen", "written"}) : tx[w].team = t}

MatchFree == MatchHolders = {}
GameFree == GameHolders \cup Writers = {}
\* for a row that refers to the team, and for the team's row itself
TeamKeyFree(t) == Dissolvers(t) = {}
TeamFree(t) == TeamKeyFree(t) /\ \A w \in Writers : tx[w].team # t
AnswerFree(t) ==
    /\ \A w \in Writers : tx[w].team # t
    /\ \A w \in Leaving : t \notin tx[w].seen
\* The participants of the AWAY side refer to the game.
RosterUnlinked == TRUE
RosterFree == GameHolders = {}

-----------------------------------------------------------------------------
(* What the operations share.                                              *)

Open == match.status \in {"recruiting", "closed"}
Manageable == ~platform /\ ~match.deleted /\ match.status \notin {"cancelled", "archived"}
              /\ team[Creator] = "active"
Started == match.plan.start <= now
IntakeOver == match.plan.deadline # NoDeadline /\ match.plan.deadline <= now
\* canConfirmTeamMatch
CanConfirm == match.status = "recruiting" /\ ~Started
Asking == {t \in Teams : application[t] = "requested"}
Approved == {t \in Teams : application[t] = "approved"}

\* updateMany where status = 'requested', which waits for the rows it changes
Answer(some, answer) ==
    /\ \A t \in some : AnswerFree(t)
    /\ application' = [t \in Teams |-> IF t \in some /\ application[t] = "requested" THEN answer ELSE application[t]]
\* a conditional update of one application
PendingOrTaken(t) == application[t] \in {"requested", "approved"}
Pending(t) == application[t] = "requested"

\* the opponent's application, and the others'
SeatAlone(t, others) == application' = [application EXCEPT ![t] = "approved"]
Seat(t, others) ==
    application' = [s \in Teams |-> CASE s = t -> "approved"
                                      [] s \in others \ {t} -> "rejected"
                                      [] OTHER -> application[s]]

\* cascadeCancelTeamMatchSchedulesInTx, syncTeamMatchScheduleInTx and
\* cascadeCompleteTeamMatchSchedulesInTx: the match's SCHEDULED schedules
CascadeHost(state) ==
    calendar' = [t \in Teams |-> IF calendar[t] = "SCHEDULED" /\ t = match.host THEN state ELSE calendar[t]]
Cascade(state) ==
    calendar' = [t \in Teams |-> IF calendar[t] = "SCHEDULED" THEN state ELSE calendar[t]]
Sync(start) ==
    marked' = [t \in Teams |-> IF calendar[t] = "SCHEDULED" THEN start ELSE marked[t]]
CancelGame == game' = IF game = "SCHEDULED" THEN "CANCELLED" ELSE game

Cancelled == [match EXCEPT !.status = "cancelled", !.cancelled = TRUE]
Step(w, request) == tx' = [tx EXCEPT ![w] = request]
Waits == UNCHANGED <<platform, match, applications, game, away, calendars, team, now, told>>

\* A request is refused, runs into its time limit, is the victim of a
\* deadlock, or dies with its process: nothing of it is written.
Abort(w) ==
    /\ tx[w] # Idle
    /\ Step(w, Idle)
    /\ Waits

-----------------------------------------------------------------------------
(* Applications of teams.                                                  *)

\* judgeApplicationAttempt
JudgeTeam(t, u) ==
    /\ t # match.host
    /\ application[t] \notin {"requested", "approved"}
    /\ match.status = "recruiting"
    /\ match.plan.start >= now
    /\ ~IntakeOver
Judge(t, u) ==
    /\ JudgeTeam(t, u)
    /\ \A s \in Asking \cup Approved : appliedBy[s] # u

\* the ledger is read again under the lock of the match
JudgedBefore(t, u) == TRUE
JudgeAgain(t, u) == Judge(t, u)

\* createApplication: the manager's team is looked at before the transaction.
BeginApply(w, t, u) ==
    /\ tx[w] = Idle
    /\ <<u, t>> \in Manages /\ team[t] = "active"
    /\ ~match.deleted
    /\ match.host # None => team[match.host] = "active"
    /\ Judge(t, u)
    /\ Step(w, [op |-> "apply", team |-> t, by |-> u])
    /\ Waits

\* A new row refers to its team; a resubmission updates the row there is.
CommitApply(w) ==
    /\ tx[w].op = "apply"
    /\ LET t == tx[w].team IN
        /\ MatchFree /\ (application[t] = "none" => TeamKeyFree(t))
        /\ ~match.deleted
        /\ JudgeAgain(t, tx[w].by)
        /\ application' = [application EXCEPT ![t] = "requested"]
        /\ appliedBy' = [appliedBy EXCEPT ![t] = tx[w].by]
        /\ outdated' = outdated \ {t}
    /\ Step(w, Idle)
    /\ UNCHANGED <<platform, match, game, away, calendars, team, now, told>>

\* withdrawApplication
Withdraw(t) ==
    /\ ~match.deleted /\ match.status \notin {"cancelled", "archived"}
    /\ team[t] = "active"
    /\ Pending(t) /\ AnswerFree(t)
    /\ application' = [application EXCEPT ![t] = "withdrawn"]
    /\ UNCHANGED <<platform, match, appliedBy, outdated, game, away, calendars, team, tx, now, told>>

-----------------------------------------------------------------------------
(* The host's decisions.                                                   *)

\* rejectApplication
Reject(t) ==
    /\ Manageable
    /\ Pending(t) /\ AnswerFree(t)
    /\ application' = [application EXCEPT ![t] = "rejected"]
    /\ UNCHANGED <<platform, match, appliedBy, outdated, game, away, calendars, team, tx, now, told>>

\* approveApplication reads the application and the match, whose start it will
\* note in the opponent's schedule, before its transaction.
ReadForApproval(w, t) ==
    /\ tx[w] = Idle
    /\ Manageable
    /\ Pending(t) /\ CanConfirm
    /\ Step(w, [op |-> "approve", stage |-> "read", team |-> t, start |-> match.plan.start])
    /\ Waits

LockForApproval(w) ==
    /\ tx[w].op = "approve" /\ tx[w].stage = "read"
    /\ MatchFree
    /\ ~match.deleted /\ CanConfirm /\ match.opponent = None
    /\ Step(w, [tx[w] EXCEPT !.stage = "locked"])
    /\ Waits

\* hydrateApprovedTeamMatchAwaySnapshot
AwayUnchecked(t) == game # "none" /\ away \in {None, t}
AwayReady(t) == team[t] = "active" /\ game # "none" /\ away \in {None, t}

\* The application is approved and the match refers to the team, whose key it
\* takes with that, before the team is read and its AWAY side filled.
SeatAway(w) ==
    /\ tx[w].op = "approve" /\ tx[w].stage = "locked"
    /\ LET t == tx[w].team IN
        /\ Pending(t) /\ AnswerFree(t)
        /\ TeamKeyFree(t) /\ RosterFree
        /\ AwayReady(t)
    /\ Step(w, [tx[w] EXCEPT !.stage = "seated"])
    /\ Waits

CommitApproval(w) ==
    /\ tx[w].op = "approve" /\ tx[w].stage = "seated"
    /\ LET t == tx[w].team IN
        /\ \A s \in Asking \ {t} : AnswerFree(s)
        /\ match' = [match EXCEPT !.status = "matched", !.opponent = t]
        /\ Seat(t, Asking)
        /\ away' = t
        /\ calendar' = [calendar EXCEPT ![t] = "SCHEDULED"]
        /\ marked' = [marked EXCEPT ![t] = tx[w].start]
    /\ Step(w, Idle)
    /\ UNCHANGED <<platform, appliedBy, outdated, game, team, now, told>>

\* cancel reads the match under the lock of its game alone, and overwrites it.
ReadForCancel(w) ==
    /\ tx[w] = Idle
    /\ Manageable /\ match.status # "completed"
    /\ Step(w, [op |-> "cancel", stage |-> "read", seen |-> None])
    /\ Waits

LockForCancel(w) ==
    /\ tx[w].op = "cancel" /\ tx[w].stage = "read"
    /\ GameFree
    /\ ~match.deleted /\ match.status \notin {"completed", "cancelled"}
    /\ Step(w, [tx[w] EXCEPT !.stage = "locked", !.seen = match.opponent])
    /\ Waits

CommitCancel(w) ==
    /\ tx[w].op = "cancel" /\ tx[w].stage = "locked"
    /\ MatchFree
    /\ match' = Cancelled
    /\ Answer(Teams, "rejected")
    /\ Cascade("CANCELLED")
    /\ CancelGame
    /\ told' = told \cup ({tx[w].seen} \ {None})
    /\ Step(w, Idle)
    /\ UNCHANGED <<platform, appliedBy, outdated, away, marked, team, now>>

\* update: pending applications end when the schedule changes.
NeverReconfirm(plan) == FALSE
Reconfirm(plan) == plan.start # match.plan.start

Update(plan) ==
    /\ Manageable /\ Open /\ match.opponent = None
    /\ Future(plan, match.plan.deadline)
    /\ GameFree /\ MatchFree
    /\ match' = [match EXCEPT !.plan = plan, !.status = IF Reconfirm(plan) THEN "recruiting" ELSE @]
    /\ Answer(IF Reconfirm(plan) THEN Teams ELSE {}, "expired")
    /\ outdated' = IF plan.start = match.plan.start THEN outdated
                   ELSE outdated \cup {t \in Teams : application'[t] = "requested"}
    /\ Sync(plan.start)
    /\ UNCHANGED <<platform, appliedBy, game, away, calendar, team, tx, now, told>>

\* remove: only a match nobody ever applied to
Remove ==
    /\ Manageable /\ Open /\ match.opponent = None
    /\ GameFree /\ MatchFree
    /\ \A t \in Teams : application[t] = "none"
    /\ match' = [match EXCEPT !.status = "archived", !.deleted = TRUE]
    /\ Cascade("CANCELLED")
    /\ CancelGame
    /\ UNCHANGED <<platform, applications, away, marked, team, tx, now, told>>

Closed == [match EXCEPT !.status = "closed"]

Close ==
    /\ Manageable /\ CanConfirm /\ match.opponent = None
    /\ MatchFree
    /\ match' = Closed
    /\ Answer(Teams, "expired")
    /\ UNCHANGED <<platform, appliedBy, outdated, game, away, calendars, team, tx, now, told>>

Reopen ==
    /\ Manageable /\ match.status = "closed"
    /\ ~Started
    /\ ~IntakeOver
    /\ MatchFree
    /\ match' = [match EXCEPT !.status = "recruiting"]
    /\ UNCHANGED <<platform, applications, game, away, calendars, team, tx, now, told>>

-----------------------------------------------------------------------------
(* The platform's decisions.                                               *)

\* approveApplication reads the applications and their teams under the lock of
\* the match, before it writes anything that refers to a team.
LockForAssign(w, t) ==
    /\ tx[w] = Idle
    /\ platform /\ ~match.deleted /\ CanConfirm
    /\ MatchFree
    /\ Pending(t) /\ team[t] = "active"
    /\ Approved \subseteq {match.host} /\ \A s \in Approved : team[s] = "active"
    /\ Step(w, [op |-> "assign", stage |-> "locked", team |-> t, seen |-> {}])
    /\ Waits

\* The first team becomes the host: the game and the team's schedule are made
\* with it.
ApproveFirst(w) ==
    /\ tx[w].op = "assign" /\ tx[w].stage = "locked"
    /\ Approved = {}
    /\ LET t == tx[w].team IN
        /\ Pending(t) /\ AnswerFree(t) /\ TeamKeyFree(t)
        /\ match' = [match EXCEPT !.host = t]
        /\ application' = [application EXCEPT ![t] = "approved"]
        /\ calendar' = [calendar EXCEPT ![t] = "SCHEDULED"]
        /\ marked' = [marked EXCEPT ![t] = match.plan.start]
    /\ game' = "SCHEDULED"
    /\ Step(w, Idle)
    /\ UNCHANGED <<platform, appliedBy, outdated, away, team, now, told>>

\* The second is looked at once more, with the game.
ReadAway(w) ==
    /\ tx[w].op = "assign" /\ tx[w].stage = "locked"
    /\ Approved # {}
    /\ AwayReady(tx[w].team)
    /\ Step(w, [tx[w] EXCEPT !.stage = "read"])
    /\ Waits

\* Its writes of the AWAY side, the match and the application wait for the
\* team's key, the game's and the application; the other pending ones are listed.
ListOthers(w) ==
    /\ tx[w].op = "assign" /\ tx[w].stage = "read"
    /\ LET t == tx[w].team IN
        /\ RosterFree /\ TeamKeyFree(t)
        /\ Pending(t) /\ AnswerFree(t)
        /\ Step(w, [tx[w] EXCEPT !.stage = "listed", !.seen = Asking \ {t}])
    /\ Waits

\* The listed ones are rejected by their ids, whatever became of them.
CommitAssign(w) ==
    /\ tx[w].op = "assign" /\ tx[w].stage = "listed"
    /\ LET t == tx[w].team IN
        /\ \A s \in tx[w].seen : AnswerFree(s)
        /\ match' = [match EXCEPT !.status = "matched", !.opponent = t]
        /\ Seat(t, tx[w].seen)
        /\ away' = t
        /\ calendar' = [calendar EXCEPT ![t] = "SCHEDULED"]
        /\ marked' = [marked EXCEPT ![t] = match.plan.start]
    /\ Step(w, Idle)
    /\ UNCHANGED <<platform, appliedBy, outdated, game, team, now, told>>

\* rejectApplication
RejectByAdmin(t) ==
    /\ platform /\ ~match.deleted /\ match.status = "recruiting"
    /\ MatchFree
    /\ Pending(t) /\ AnswerFree(t)
    /\ application' = [application EXCEPT ![t] = "rejected"]
    /\ UNCHANGED <<platform, match, appliedBy, outdated, game, away, calendars, team, tx, now, told>>

\* update: by version and status, without asking anybody again
UpdateByAdmin(plan) ==
    /\ platform /\ ~match.deleted /\ Open
    /\ Future(plan, match.plan.deadline)
    /\ MatchFree
    /\ match' = [match EXCEPT !.plan = plan]
    /\ Sync(plan.start)
    /\ UNCHANGED <<platform, applications, game, away, calendar, team, tx, now, told>>

\* changeTeamMatchStatus, for each status that may be asked for.
AdminMay ==
    /\ GameFree /\ MatchFree
    /\ ~match.deleted
    /\ match.status # "completed"

ReopenByAdmin ==
    /\ AdminMay
    /\ ~Started /\ match.opponent = None
    /\ match.status # "cancelled" /\ ~match.cancelled
    /\ game \in {"none", "SCHEDULED"}
    /\ match' = [match EXCEPT !.status = "recruiting",
                              !.plan.deadline = IF IntakeOver THEN NoDeadline ELSE @]
    /\ UNCHANGED <<platform, applications, game, away, calendars, team, tx, now, told>>

CloseByAdmin ==
    /\ AdminMay
    /\ match.opponent = None
    /\ match.status # "cancelled" /\ ~match.cancelled
    /\ game \in {"none", "SCHEDULED"}
    /\ match' = Closed
    /\ UNCHANGED <<platform, applications, game, away, calendars, team, tx, now, told>>

\* TEAM_MATCH_ALREADY_STARTED
NotPlayed ==
    /\ game \in {"none", "SCHEDULED", "CANCELLED"}
    /\ ~(match.status = "matched" /\ match.opponent # None /\ Started)

ArchiveByAdmin ==
    /\ AdminMay
    /\ NotPlayed /\ match.status # "matched"
    /\ match' = [match EXCEPT !.status = "archived"]
    /\ UNCHANGED <<platform, applications, game, away, calendars, team, tx, now, told>>

CancelByAdmin ==
    /\ AdminMay
    /\ NotPlayed /\ match.status # "cancelled"
    /\ match' = Cancelled
    /\ Answer(Teams, "rejected")
    /\ Cascade("CANCELLED")
    /\ CancelGame
    /\ told' = told \cup ({match.opponent} \ {None})
    /\ UNCHANGED <<platform, appliedBy, outdated, away, marked, team, tx, now>>

-----------------------------------------------------------------------------
(* The end of a team.                                                      *)

\* findDissolutionBlockers, under the lock of the team
Blocked(t) ==
    \/ game = "LIVE" /\ t \in {match.host, away}
    \/ match.status = "matched" /\ ~match.deleted /\ t \in {match.host, match.opponent}

LockForDissolution(w, t) ==
    /\ tx[w] = Idle
    /\ team[t] = "active"
    /\ TeamFree(t)
    /\ ~Blocked(t)
    /\ Step(w, [op |-> "dissolve", stage |-> "locked", team |-> t, at |-> now,
                takes |-> FALSE, cancels |-> FALSE, seen |-> {}])
    /\ Waits

\* loadTeamMatchCandidates and classifyTeamMatch, a statement later: the match
\* is cancelled, after its game is locked, or left alone.
ChooseMatches(w) ==
    /\ tx[w].op = "dissolve" /\ tx[w].stage = "locked"
    /\ LET takes == /\ Open /\ ~match.deleted
                    /\ ~platform /\ tx[w].team = Creator
                    /\ match.plan.start > tx[w].at
       IN  /\ takes => GameFree
           /\ Step(w, [tx[w] EXCEPT !.stage = "chosen", !.takes = takes])
    /\ Waits

\* The match is cancelled if it is still open, with the applications that wait;
\* of a match left alone the team's own application is withdrawn.
CancelAndWithdraw(w) ==
    /\ tx[w].op = "dissolve" /\ tx[w].stage = "chosen"
    /\ tx[w].takes => MatchFree
    /\ LET cancels == tx[w].takes /\ Open /\ ~match.deleted
           seen == IF cancels THEN Asking ELSE {tx[w].team} \cap Asking
       IN  /\ \A t \in seen : AnswerFree(t)
           /\ Step(w, [tx[w] EXCEPT !.stage = "written", !.cancels = cancels, !.seen = seen])
    /\ Waits

\* dissolveTeamInTx then cancels the team's schedule to come and archives the
\* team: an application that arrived meanwhile stays as it is.
CommitDissolution(w) ==
    /\ tx[w].op = "dissolve" /\ tx[w].stage = "written"
    /\ LET t == tx[w].team
           cancels == tx[w].cancels
           answer == IF cancels THEN "rejected" ELSE "withdrawn"
       IN  /\ match' = IF cancels THEN Cancelled ELSE match
           /\ application' = [s \in Teams |-> IF s \in tx[w].seen THEN answer ELSE application[s]]
           /\ calendar' = [s \in Teams |->
                IF calendar[s] = "SCHEDULED" /\ (cancels \/ (s = t /\ marked[s] > tx[w].at))
                THEN "CANCELLED" ELSE calendar[s]]
           /\ team' = [team EXCEPT ![t] = "archived"]
    /\ Step(w, Idle)
    /\ UNCHANGED <<platform, appliedBy, outdated, game, away, marked, now, told>>

\* restoreTeamInTx
Restore(t) ==
    /\ team[t] = "archived"
    /\ TeamFree(t)
    /\ team' = [team EXCEPT ![t] = "active"]
    /\ UNCHANGED <<platform, match, applications, game, away, calendars, tx, now, told>>

-----------------------------------------------------------------------------
(* The clock, the scan and the game.                                       *)

\* noOpponentCancelVerdict
VerdictWithoutStart == IntakeOver /\ Asking = {}
Verdict == VerdictWithoutStart \/ Started

\* cancelIfNoOpponent, for a candidate of the scan
Scan ==
    /\ GameFree /\ MatchFree
    /\ Open /\ match.opponent = None /\ ~match.deleted
    /\ Verdict
    /\ match' = Cancelled
    /\ Answer(Teams, "expired")
    /\ Cascade("CANCELLED")
    /\ CancelGame
    /\ UNCHANGED <<platform, appliedBy, outdated, away, marked, team, tx, now, told>>

\* A friendly's start and cancel look at its game only.
StartGame ==
    /\ game = "SCHEDULED" /\ GameFree
    /\ game' = "LIVE"
    /\ UNCHANGED <<platform, match, applications, away, calendars, team, tx, now, told>>

CancelGameOnly ==
    /\ game \in {"SCHEDULED", "LIVE"} /\ GameFree
    /\ game' = "CANCELLED"
    /\ UNCHANGED <<platform, match, applications, away, calendars, team, tx, now, told>>

\* A submitted result ends the game and, by
\* completeTeamMatchAtResultBoundary, the match.
SubmitResult ==
    /\ game \in {"SCHEDULED", "LIVE"} /\ GameFree
    /\ match.status = "matched"
    /\ MatchFree
    /\ game' = "ENDED"
    /\ match' = [match EXCEPT !.status = "completed"]
    /\ Cascade("COMPLETED")
    /\ UNCHANGED <<platform, applications, away, marked, team, tx, now, told>>

Tick ==
    /\ now < MaxTime
    /\ now' = now + 1
    /\ UNCHANGED <<platform, match, applications, game, away, calendars, team, tx, told>>

-----------------------------------------------------------------------------

WorkerStep(w) ==
    \/ Abort(w)
    \/ \E t \in Teams :
        \/ \E u \in Users : BeginApply(w, t, u)
        \/ ReadForApproval(w, t)
        \/ LockForAssign(w, t)
    \/ \E t \in Leavers : LockForDissolution(w, t)
    \/ CommitApply(w)
    \/ LockForApproval(w) \/ SeatAway(w) \/ CommitApproval(w)
    \/ ReadForCancel(w) \/ LockForCancel(w) \/ CommitCancel(w)
    \/ ApproveFirst(w)
    \/ ReadAway(w) \/ ListOthers(w) \/ CommitAssign(w)
    \/ ChooseMatches(w) \/ CancelAndWithdraw(w) \/ CommitDissolution(w)

TeamStep(t) == Withdraw(t) \/ Reject(t) \/ RejectByAdmin(t) \/ Restore(t)

MatchStep ==
    \/ \E plan \in Plans : Update(plan) \/ UpdateByAdmin(plan)
    \/ Remove \/ Close \/ Reopen
    \/ ReopenByAdmin \/ CloseByAdmin \/ ArchiveByAdmin \/ CancelByAdmin
    \/ StartGame \/ CancelGameOnly \/ SubmitResult

Next ==
    \/ \E w \in Workers : WorkerStep(w)
    \/ \E t \in Teams : TeamStep(t)
    \/ MatchStep
    \/ Scan
    \/ Tick

\* Time passes, every request ends, and the worker scans again and again.
Fairness ==
    /\ WF_vars(Tick)
    /\ \A w \in Workers : WF_vars(Abort(w))
    /\ SF_vars(Scan)

Spec == Init /\ [][Next]_vars
FairSpec == Spec /\ Fairness
-----------------------------------------------------------------------------
(* What the recruitment promises.                                          *)

Seated == {match.opponent} \cup (IF platform THEN {match.host} ELSE {})

\* The approved teams are the ones the match names, the AWAY side is the
\* opponent's, and a match is matched exactly until something ends it: however
\* approvals, rejections and withdrawals overlap, nobody is approved beside or
\* instead of the opponent.
OneOpponent ==
    /\ Approved = Seated \ {None}
    /\ away = match.opponent
    /\ match.status \in {"matched", "completed"} => match.opponent # None /\ game # "none"
    /\ Open => match.opponent = None

\* Once the match is decided nobody is left waiting for an answer, also not a
\* team that applied while the decision was under way.
NothingPends == match.status \in {"matched", "completed", "cancelled"} => Asking = {}

\* A cancelled match stays off, whoever was approving, editing or reopening it
\* at the time, and keeps no team's calendar busy.
CancelledIsOver ==
    match.cancelled =>
        /\ match.status \in {"cancelled", "archived"}
        /\ \A t \in Teams : calendar[t] # "SCHEDULED"

\* The opponent of a cancelled match was told, although the host's cancel reads
\* the match without locking it while an approval may be under way.
CancelledOpponentKnows ==
    match.status = "cancelled" /\ match.opponent # None => match.opponent \in told

\* A team is waiting for, or was given, the match it applied to: its start has
\* not been moved since by the host.
AppliedToThisStart ==
    (Asking \cup Approved) \cap outdated = {}

\* A user who manages several teams has one of them in the match at most.
OneLivePerUser ==
    \A s, t \in Asking \cup Approved : s # t => appliedBy[s] # appliedBy[t]

\* A team the host makes the opponent is still there when the approval commits,
\* although its dissolution may have begun before the approval, and its
\* application arrived during it: the approval takes the team's key before it
\* reads its status.  (The platform's second approval reads first.)
OpponentIsActive ==
    [][~platform /\ match.opponent' # match.opponent
       => team[match.opponent'] = "active" /\ team'[match.opponent'] = "active"]_vars

\* A match whose start has come without an opponent does not stay on offer: the
\* scan cancels it.
EndsWithoutOpponent == (Started /\ Open) ~> ~(Started /\ Open)

\* What the applicants are promised: MatchSeats.
Seats == INSTANCE MatchSeats WITH
    places <- IF platform THEN 2 ELSE 1,
    asking <- Asking,
    seated <- Approved
ImplementsSeats == Seats!Spec

\* dissolveTeamInTx: what keeps a team from being dissolved is looked at under
\* the lock, so that no dissolved team is left with a matched match.
DissolvedTeamHasNoMatch ==
    match.status = "matched" => \A t \in {match.host, match.opponent} : team[t] = "active"
=============================================================================
