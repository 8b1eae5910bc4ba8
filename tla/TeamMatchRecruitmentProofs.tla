--------------------- MODULE TeamMatchRecruitmentProofs ---------------------
(***************************************************************************)
(* Proofs about TeamMatchRecruitment, for any teams, users, requests and   *)
(* plans, and without the bounds.                                          *)
(***************************************************************************)
EXTENDS TeamMatchRecruitment, FiniteSetTheorems, TLAPS

(***************************************************************************)
(* Types.                                                                  *)
(***************************************************************************)

\* What a request holds follows from what it is for.
LEMMA Kinds == ASSUME TypeOK, NEW w \in Workers PROVE
    /\ tx[w].op = "apply" => tx[w] \in ApplyRequest
    /\ tx[w].op = "approve" => tx[w] \in ApproveRequest
    /\ tx[w].op = "assign" => tx[w] \in AssignRequest
    /\ tx[w].op = "cancel" => tx[w] \in CancelRequest
    /\ tx[w].op = "dissolve" => tx[w] \in DissolveRequest
<1>1. tx[w] \in Requests
  BY DEF TypeOK
<1> QED
  BY <1>1 DEF Requests, Idle, ApplyRequest, ApproveRequest, AssignRequest, CancelRequest, DissolveRequest

LEMMA StepType == ASSUME TypeOK, NEW w \in Workers, NEW r \in Requests, Step(w, r) PROVE tx' \in [Workers -> Requests]
  BY DEF Step, TypeOK

LEMMA IdleStep == ASSUME TypeOK, NEW w \in Workers, Step(w, Idle) PROVE tx' \in [Workers -> Requests]
<1>1. Idle \in Requests
  BY DEF Requests
<1> QED
  BY <1>1, StepType

\* A step that only moves a request.
LEMMA WaitType == ASSUME TypeOK, Waits, tx' \in [Workers -> Requests] PROVE TypeOK'
  BY DEF TypeOK, Waits, applications, calendars

LEMMA AnswerType ==
    ASSUME TypeOK, NEW some \in SUBSET Teams, NEW answer \in Answers, Answer(some, answer)
    PROVE  application' \in [Teams -> Answers]
  BY DEF TypeOK, Answer

LEMMA CascadeType ==
    ASSUME TypeOK, NEW state \in {"CANCELLED", "COMPLETED"}, Cascade(state)
    PROVE  calendar' \in [Teams -> {"none", "SCHEDULED", "CANCELLED", "COMPLETED"}]
  BY DEF TypeOK, Cascade

LEMMA CancelType == ASSUME TypeOK PROVE Cancelled \in Match
  BY DEF TypeOK, Match, Cancelled, Statuses

LEMMA CancelGameType == ASSUME TypeOK, CancelGame PROVE game' \in {"none", "SCHEDULED", "LIVE", "ENDED", "CANCELLED"}
  BY DEF TypeOK, CancelGame

LEMMA Plan == ASSUME NEW plan \in Plans PROVE plan \in [start : Nat, deadline : Nat \cup {NoDeadline}]
  BY PlansAssumption

LEMMA InitType == Init => TypeOK
<1> SUFFICES ASSUME Init PROVE TypeOK
  OBVIOUS
<1>1. PICK plan \in Plans :
        /\ match = [status |-> "recruiting", host |-> IF platform THEN None ELSE Creator,
                    opponent |-> None, plan |-> plan, deleted |-> FALSE, cancelled |-> FALSE]
        /\ marked = [t \in Teams |-> IF ~platform /\ t = Creator THEN plan.start ELSE 0]
  BY DEF Init
<1>2. match \in Match
  BY <1>1, Plan, TeamsAssumption DEF Match, Statuses
<1>3. marked \in [Teams -> Nat]
  BY <1>1, Plan
<1>4. tx \in [Workers -> Requests]
  BY DEF Init, Requests
<1> QED
  BY <1>2, <1>3, <1>4 DEF Init, TypeOK, Answers

\* Requests that take several steps.
LEMMA WorkerType == ASSUME TypeOK, NEW w \in Workers, WorkerStep(w) PROVE TypeOK'
<1>1. ASSUME Abort(w) PROVE TypeOK'
  BY <1>1, IdleStep, WaitType DEF Abort
<1>2. ASSUME NEW t \in Teams, NEW u \in Users, BeginApply(w, t, u) PROVE TypeOK'
  <2>1. [op |-> "apply", team |-> t, by |-> u] \in Requests
    BY DEF Requests, ApplyRequest
  <2> QED
    BY <1>2, <2>1, StepType, WaitType DEF BeginApply
<1>3. ASSUME NEW t \in Teams, ReadForApproval(w, t) PROVE TypeOK'
  <2>1. [op |-> "approve", stage |-> "read", team |-> t, start |-> match.plan.start] \in Requests
    BY DEF Requests, ApproveRequest, TypeOK, Match
  <2> QED
    BY <1>3, <2>1, StepType, WaitType DEF ReadForApproval
<1>4. ASSUME NEW t \in Teams, LockForAssign(w, t) PROVE TypeOK'
  <2>1. [op |-> "assign", stage |-> "locked", team |-> t, seen |-> {}] \in Requests
    BY DEF Requests, AssignRequest
  <2> QED
    BY <1>4, <2>1, StepType, WaitType DEF LockForAssign
<1>5. ASSUME NEW t \in Leavers, LockForDissolution(w, t) PROVE TypeOK'
  <2>1. [op |-> "dissolve", stage |-> "locked", team |-> t, at |-> now,
         takes |-> FALSE, cancels |-> FALSE, seen |-> {}] \in Requests
    BY TeamsAssumption DEF Requests, DissolveRequest, TypeOK
  <2> QED
    BY <1>5, <2>1, StepType, WaitType DEF LockForDissolution
<1>6. ASSUME CommitApply(w) PROVE TypeOK'
  <2>1. tx[w] \in ApplyRequest
    BY <1>6, Kinds DEF CommitApply
  <2>2. tx[w].team \in Teams /\ tx[w].by \in Users
    BY <2>1 DEF ApplyRequest
  <2>3. /\ application' = [application EXCEPT ![tx[w].team] = "requested"]
        /\ appliedBy' = [appliedBy EXCEPT ![tx[w].team] = tx[w].by]
        /\ outdated' = outdated \ {tx[w].team}
    BY <1>6 DEF CommitApply
  <2>4. /\ application' \in [Teams -> Answers]
        /\ appliedBy' \in [Teams -> Users \cup {None}]
        /\ outdated' \in SUBSET Teams
    BY <2>2, <2>3 DEF TypeOK, Answers
  <2>5. tx' \in [Workers -> Requests]
    BY <1>6, IdleStep DEF CommitApply
  <2> QED
    BY <1>6, <2>4, <2>5 DEF CommitApply, TypeOK, calendars
<1>7. ASSUME LockForApproval(w) PROVE TypeOK'
  <2>1. tx[w] \in ApproveRequest
    BY <1>7, Kinds DEF LockForApproval
  <2>2. [tx[w] EXCEPT !.stage = "locked"] \in Requests
    BY <2>1 DEF ApproveRequest, Requests
  <2> QED
    BY <1>7, <2>2, StepType, WaitType DEF LockForApproval
<1>8. ASSUME CommitApproval(w) PROVE TypeOK'
  <2>1. tx[w] \in ApproveRequest
    BY <1>8, Kinds DEF CommitApproval
  <2>2. tx[w].team \in Teams /\ tx[w].start \in Nat
    BY <2>1 DEF ApproveRequest
  <2>3. match' \in Match
    BY <1>8, <2>2 DEF CommitApproval, TypeOK, Match, Statuses
  <2>4. application' \in [Teams -> Answers]
    BY <1>8, <2>2 DEF CommitApproval, Seat, TypeOK, Answers
  <2>5. /\ calendar' \in [Teams -> {"none", "SCHEDULED", "CANCELLED", "COMPLETED"}]
        /\ marked' \in [Teams -> Nat]
        /\ away' \in Teams \cup {None}
    BY <1>8, <2>2 DEF CommitApproval, TypeOK
  <2>6. tx' \in [Workers -> Requests]
    BY <1>8, IdleStep DEF CommitApproval
  <2> QED
    BY <1>8, <2>3, <2>4, <2>5, <2>6 DEF CommitApproval, TypeOK
<1>9. ASSUME ReadForCancel(w) PROVE TypeOK'
  <2>1. [op |-> "cancel", stage |-> "read", seen |-> None] \in Requests
    BY DEF Requests, CancelRequest
  <2> QED
    BY <1>9, <2>1, StepType, WaitType DEF ReadForCancel
<1>10. ASSUME LockForCancel(w) PROVE TypeOK'
  <2>1. tx[w] \in CancelRequest
    BY <1>10, Kinds DEF LockForCancel
  <2>2. match.opponent \in Teams \cup {None}
    BY DEF TypeOK, Match
  <2>3. [tx[w] EXCEPT !.stage = "locked", !.seen = match.opponent] \in CancelRequest
    BY <2>1, <2>2 DEF CancelRequest
  <2> QED
    BY <1>10, <2>3, StepType, WaitType DEF LockForCancel, Requests
<1>11. ASSUME CommitCancel(w) PROVE TypeOK'
  <2>1. tx[w] \in CancelRequest
    BY <1>11, Kinds DEF CommitCancel
  <2>2. tx[w].seen \in Teams \cup {None}
    BY <2>1 DEF CancelRequest
  <2>3. application' \in [Teams -> Answers]
    BY <1>11, AnswerType DEF CommitCancel, Answers
  <2>4. tx' \in [Workers -> Requests]
    BY <1>11, IdleStep DEF CommitCancel
  <2>5. told' \in SUBSET Teams
    BY <1>11, <2>2 DEF CommitCancel, TypeOK
  <2> QED
    BY <1>11, <2>3, <2>4, <2>5, CancelType, CascadeType, CancelGameType DEF CommitCancel, TypeOK
<1>12. ASSUME ListOthers(w) PROVE TypeOK'
  <2>1. tx[w] \in AssignRequest
    BY <1>12, Kinds DEF ListOthers
  <2>2. [tx[w] EXCEPT !.stage = "listed", !.seen = Asking \ {tx[w].team}] \in AssignRequest
    BY <2>1 DEF AssignRequest, Asking
  <2> QED
    BY <1>12, <2>2, StepType, WaitType DEF ListOthers, Requests
<1>13. ASSUME CommitAssign(w) PROVE TypeOK'
  <2>1. tx[w] \in AssignRequest
    BY <1>13, Kinds DEF CommitAssign
  <2>2. tx[w].team \in Teams /\ match.plan.start \in Nat
    BY <2>1 DEF AssignRequest, TypeOK, Match
  <2>3. match' \in Match
    BY <1>13, <2>2 DEF CommitAssign, TypeOK, Match, Statuses
  <2>4. application' \in [Teams -> Answers]
    BY <1>13, <2>2 DEF CommitAssign, Seat, TypeOK, Answers
  <2>5. /\ calendar' \in [Teams -> {"none", "SCHEDULED", "CANCELLED", "COMPLETED"}]
        /\ marked' \in [Teams -> Nat]
        /\ away' \in Teams \cup {None}
    BY <1>13, <2>2 DEF CommitAssign, TypeOK
  <2>6. tx' \in [Workers -> Requests]
    BY <1>13, IdleStep DEF CommitAssign
  <2> QED
    BY <1>13, <2>3, <2>4, <2>5, <2>6 DEF CommitAssign, TypeOK
<1>14. ASSUME ChooseMatches(w) PROVE TypeOK'
  <2>1. tx[w] \in DissolveRequest
    BY <1>14, Kinds DEF ChooseMatches
  <2>2. PICK takes \in BOOLEAN : Step(w, [tx[w] EXCEPT !.stage = "chosen", !.takes = takes])
    BY <1>14 DEF ChooseMatches
  <2>3. [tx[w] EXCEPT !.stage = "chosen", !.takes = takes] \in DissolveRequest
    BY <2>1 DEF DissolveRequest
  <2> QED
    BY <1>14, <2>2, <2>3, StepType, WaitType DEF ChooseMatches, Requests
<1>15. ASSUME CommitDissolution(w) PROVE TypeOK'
  <2>1. match' \in Match
    BY <1>15, CancelType DEF CommitDissolution, TypeOK
  <2>2. application' \in [Teams -> Answers]
    BY <1>15 DEF CommitDissolution, TypeOK, Answers
  <2>3. calendar' \in [Teams -> {"none", "SCHEDULED", "CANCELLED", "COMPLETED"}]
    BY <1>15 DEF CommitDissolution, TypeOK
  <2>4. team' \in [Teams -> {"active", "archived"}]
    BY <1>15 DEF CommitDissolution, TypeOK
  <2>5. tx' \in [Workers -> Requests]
    BY <1>15, IdleStep DEF CommitDissolution
  <2> QED
    BY <1>15, <2>1, <2>2, <2>3, <2>4, <2>5 DEF CommitDissolution, TypeOK
<1>16. ASSUME SeatAway(w) PROVE TypeOK'
  <2>1. tx[w] \in ApproveRequest
    BY <1>16, Kinds DEF SeatAway
  <2>2. [tx[w] EXCEPT !.stage = "seated"] \in Requests
    BY <2>1 DEF ApproveRequest, Requests
  <2> QED
    BY <1>16, <2>2, StepType, WaitType DEF SeatAway
<1>17. ASSUME ReadAway(w) PROVE TypeOK'
  <2>1. tx[w] \in AssignRequest
    BY <1>17, Kinds DEF ReadAway
  <2>2. [tx[w] EXCEPT !.stage = "read"] \in Requests
    BY <2>1 DEF AssignRequest, Requests
  <2> QED
    BY <1>17, <2>2, StepType, WaitType DEF ReadAway
<1>18. ASSUME ApproveFirst(w) PROVE TypeOK'
  <2>1. tx[w].team \in Teams /\ match.plan.start \in Nat
    BY <1>18, Kinds DEF ApproveFirst, AssignRequest, TypeOK, Match
  <2>2. match' \in Match
    BY <1>18, <2>1 DEF ApproveFirst, TypeOK, Match
  <2>3. application' \in [Teams -> Answers]
    BY <1>18, <2>1 DEF ApproveFirst, TypeOK, Answers
  <2>4. /\ calendar' \in [Teams -> {"none", "SCHEDULED", "CANCELLED", "COMPLETED"}]
        /\ marked' \in [Teams -> Nat]
    BY <1>18, <2>1 DEF ApproveFirst, TypeOK
  <2>5. tx' \in [Workers -> Requests]
    BY <1>18, IdleStep DEF ApproveFirst
  <2> QED
    BY <1>18, <2>2, <2>3, <2>4, <2>5 DEF ApproveFirst, TypeOK
<1>19. ASSUME CancelAndWithdraw(w) PROVE TypeOK'
  <2>1. tx[w] \in DissolveRequest
    BY <1>19, Kinds DEF CancelAndWithdraw
  <2>2. \E cancels \in BOOLEAN, seen \in SUBSET Teams :
          Step(w, [tx[w] EXCEPT !.stage = "written", !.cancels = cancels, !.seen = seen])
    BY <1>19, <2>1 DEF CancelAndWithdraw, DissolveRequest, Asking
  <2>3. \A cancels \in BOOLEAN, seen \in SUBSET Teams :
          [tx[w] EXCEPT !.stage = "written", !.cancels = cancels, !.seen = seen] \in DissolveRequest
    BY <2>1 DEF DissolveRequest
  <2> QED
    BY <1>19, <2>2, <2>3, StepType, WaitType DEF CancelAndWithdraw, Requests
<1> QED
  BY <1>1, <1>2, <1>3, <1>4, <1>5, <1>6, <1>7, <1>8, <1>9, <1>10, <1>11, <1>12, <1>13, <1>14, <1>15,
     <1>16, <1>17, <1>18, <1>19 DEF WorkerStep

LEMMA TeamType == ASSUME TypeOK, NEW t \in Teams, TeamStep(t) PROVE TypeOK'
<1>1. ASSUME Withdraw(t) \/ Reject(t) \/ RejectByAdmin(t) PROVE TypeOK'
  BY <1>1 DEF Withdraw, Reject, RejectByAdmin, TypeOK, Answers, calendars
<1>2. ASSUME Restore(t) PROVE TypeOK'
  BY <1>2 DEF Restore, TypeOK, applications, calendars
<1> QED
  BY <1>1, <1>2 DEF TeamStep

\* The operations on the match that take one step, and the scan.
LEMMA MatchType == ASSUME TypeOK, MatchStep \/ Scan \/ Tick PROVE TypeOK'
<1>1. ASSUME NEW plan \in Plans, Update(plan) PROVE TypeOK'
  <2>1. plan \in [start : Nat, deadline : Nat \cup {NoDeadline}]
    BY Plan
  <2>2. match' \in Match
    BY <1>1, <2>1 DEF Update, TypeOK, Match, Statuses
  <2>3. application' \in [Teams -> Answers]
    BY <1>1, AnswerType DEF Update, Answers
  <2>4. outdated' \in SUBSET Teams
    BY <1>1 DEF Update, TypeOK
  <2>5. marked' \in [Teams -> Nat]
    BY <1>1, <2>1 DEF Update, Sync, TypeOK
  <2> QED
    BY <1>1, <2>2, <2>3, <2>4, <2>5 DEF Update, TypeOK
<1>2. ASSUME NEW plan \in Plans, UpdateByAdmin(plan) PROVE TypeOK'
  <2>1. plan \in [start : Nat, deadline : Nat \cup {NoDeadline}]
    BY Plan
  <2>2. match' \in Match
    BY <1>2, <2>1 DEF UpdateByAdmin, TypeOK, Match
  <2>3. marked' \in [Teams -> Nat]
    BY <1>2, <2>1 DEF UpdateByAdmin, Sync, TypeOK
  <2> QED
    BY <1>2, <2>2, <2>3 DEF UpdateByAdmin, TypeOK, applications
<1>3. ASSUME Remove PROVE TypeOK'
  <2>1. match' \in Match
    BY <1>3 DEF Remove, TypeOK, Match, Statuses
  <2> QED
    BY <1>3, <2>1, CascadeType, CancelGameType DEF Remove, TypeOK, applications
<1>4. ASSUME Close PROVE TypeOK'
  <2>1. match' \in Match
    BY <1>4 DEF Close, Closed, TypeOK, Match, Statuses
  <2>2. application' \in [Teams -> Answers]
    BY <1>4, AnswerType DEF Close, Answers
  <2> QED
    BY <1>4, <2>1, <2>2 DEF Close, TypeOK, calendars
<1>5. ASSUME Reopen \/ ArchiveByAdmin \/ CloseByAdmin PROVE TypeOK'
  <2>1. match' \in Match
    BY <1>5 DEF Reopen, ArchiveByAdmin, CloseByAdmin, Closed, TypeOK, Match, Statuses
  <2> QED
    BY <1>5, <2>1 DEF Reopen, ArchiveByAdmin, CloseByAdmin, TypeOK, applications, calendars
<1>6. ASSUME ReopenByAdmin PROVE TypeOK'
  <2>1. match' \in Match
    BY <1>6 DEF ReopenByAdmin, TypeOK, Match, Statuses
  <2> QED
    BY <1>6, <2>1 DEF ReopenByAdmin, TypeOK, applications, calendars
<1>7. ASSUME CancelByAdmin PROVE TypeOK'
  <2>1. application' \in [Teams -> Answers]
    BY <1>7, AnswerType DEF CancelByAdmin, Answers
  <2>2. told' \in SUBSET Teams
    BY <1>7 DEF CancelByAdmin, TypeOK, Match
  <2> QED
    BY <1>7, <2>1, <2>2, CancelType, CascadeType, CancelGameType DEF CancelByAdmin, TypeOK
<1>8. ASSUME StartGame \/ CancelGameOnly PROVE TypeOK'
  BY <1>8 DEF StartGame, CancelGameOnly, TypeOK, applications, calendars
<1>9. ASSUME SubmitResult PROVE TypeOK'
  <2>1. match' \in Match
    BY <1>9 DEF SubmitResult, TypeOK, Match, Statuses
  <2> QED
    BY <1>9, <2>1, CascadeType DEF SubmitResult, TypeOK, applications
<1>10. ASSUME Scan PROVE TypeOK'
  <2>1. application' \in [Teams -> Answers]
    BY <1>10, AnswerType DEF Scan, Answers
  <2> QED
    BY <1>10, <2>1, CancelType, CascadeType, CancelGameType DEF Scan, TypeOK
<1>11. ASSUME Tick PROVE TypeOK'
  BY <1>11 DEF Tick, TypeOK, applications, calendars
<1> QED
  BY <1>1, <1>2, <1>3, <1>4, <1>5, <1>6, <1>7, <1>8, <1>9, <1>10, <1>11 DEF MatchStep

LEMMA StutterType == ASSUME TypeOK, UNCHANGED vars PROVE TypeOK'
  BY DEF vars, TypeOK, applications, calendars

\* The match, its applications, its game, the teams' schedules and the requests
\* in flight keep their types.
THEOREM TypeCorrect == Spec => []TypeOK
<1>1. TypeOK /\ [Next]_vars => TypeOK'
  BY WorkerType, TeamType, MatchType, StutterType DEF Next
<1> QED
  BY <1>1, InitType, PTL DEF Spec

(***************************************************************************)
(* The inductive invariant: the promises, and what the row locks of the    *)
(* requests in flight protect.                                             *)
(***************************************************************************)

HostKnown ==
    /\ ~platform => match.host = Creator
    /\ match.host # None => game # "none"
    /\ match.opponent # None => match.host # None

Promises ==
    /\ HostKnown /\ OneOpponent /\ NothingPends
    /\ CancelledIsOver /\ CancelledOpponentKnows
    /\ AppliedToThisStart /\ OneLivePerUser

\* Requests that hold the match, approvals that have written, and dissolutions
\* that have.
Cancels(r) == r.op = "dissolve" /\ r.stage = "written" /\ r.cancels
Holds(r) == r.op = "assign" \/ (r.op = "approve" /\ r.stage \in {"locked", "seated"}) \/ Cancels(r)
Lists(r) == r.op = "assign" /\ r.stage = "listed"
Fills(r) == r.op = "approve" /\ r.stage = "seated"
Written(r) == r.op = "dissolve" /\ r.stage = "written"

\* Who holds the match holds it alone, and decides on a match still to be had.
MatchHeld ==
    \A w \in Workers :
        /\ tx[w].op \in {"approve", "cancel"} => ~platform
        /\ tx[w].op = "assign" => platform /\ Approved \subseteq {match.host}
        /\ tx[w].op = "assign" /\ tx[w].stage # "locked" => Approved = {match.host}
        /\ Holds(tx[w]) =>
            /\ Open /\ (Cancels(tx[w]) \/ match.status = "recruiting")
            /\ \A v \in Workers : Holds(tx[v]) => v = w

\* An approval that has written holds its application, which still waits: a
\* dissolution neither has it nor gets it.
WriterHolds ==
    \A w \in Workers : Lists(tx[w]) \/ Fills(tx[w]) =>
        /\ application[tx[w].team] = "requested"
        /\ \A v \in Workers : Written(tx[v]) => tx[w].team \notin tx[v].seen

\* An assignment has listed everyone else who waits.
ListComplete ==
    \A w \in Workers : Lists(tx[w]) =>
        /\ Asking \subseteq tx[w].seen \cup {tx[w].team}
        /\ match.host \notin tx[w].seen

\* The team a host's approval has read stays until it commits, and no
\* cancellation reads the match meanwhile: it holds the keys of team and game.
KeyHeld ==
    \A w \in Workers : Fills(tx[w]) =>
        /\ team[tx[w].team] = "active"
        /\ \A v \in Workers : /\ tx[v].op = "dissolve" => tx[v].team # tx[w].team
                              /\ ~(tx[v].op = "cancel" /\ tx[v].stage = "locked")

\* What a dissolution has answered still waits, is nobody else's, and is all
\* that waits when it cancels the match.
LeaverHolds ==
    \A w \in Workers : Written(tx[w]) =>
        /\ tx[w].seen \subseteq Asking
        /\ tx[w].cancels => Asking \subseteq tx[w].seen
        /\ \A v \in Workers : Written(tx[v]) /\ v # w => tx[v].seen \cap tx[w].seen = {}

\* What a cancellation has read holds until it commits.
CancelSees ==
    \A w \in Workers : tx[w].op = "cancel" /\ tx[w].stage = "locked" => tx[w].seen = match.opponent

Locks == MatchHeld /\ WriterHolds /\ ListComplete /\ KeyHeld /\ LeaverHolds /\ CancelSees

IInv == TypeOK /\ Promises /\ Locks

-----------------------------------------------------------------------------

LEMMA AnswerEffect ==
    ASSUME TypeOK, NEW some \in SUBSET Teams, NEW answer \in {"rejected", "expired", "withdrawn"}, Answer(some, answer)
    PROVE  Approved' = Approved /\ Asking' = Asking \ some
  BY DEF TypeOK, Answer, Approved, Asking

LEMMA OneAnswer ==
    ASSUME TypeOK, NEW t \in Teams, NEW answer \in {"rejected", "withdrawn"}, Pending(t),
           application' = [application EXCEPT ![t] = answer]
    PROVE  Approved' = Approved /\ Asking' = Asking \ {t}
  BY DEF TypeOK, Pending, Approved, Asking

LEMMA CascadeEffect ==
    ASSUME TypeOK, NEW state \in {"CANCELLED", "COMPLETED"}, Cascade(state)
    PROVE  \A t \in Teams : calendar'[t] # "SCHEDULED"
  BY DEF TypeOK, Cascade

\* The match keeps its teams, nobody is added, and its status moves to nothing
\* it has to earn.
LEMMA Kept ==
    ASSUME TypeOK, Promises,
           platform' = platform, away' = away, outdated' = outdated, appliedBy' = appliedBy, told' = told,
           match'.host = match.host, match'.opponent = match.opponent, match'.cancelled = match.cancelled,
           Approved' = Approved, Asking' \subseteq Asking,
           game # "none" => game' # "none",
           \A t \in Teams : calendar'[t] = "SCHEDULED" => calendar[t] = "SCHEDULED",
           match.cancelled => match'.status \in {"cancelled", "archived"},
           match'.status \in {"matched", "completed"} => match.status \in {"matched", "completed"},
           match'.status = "cancelled" => match.status = "cancelled",
           Open' => match.opponent = None
    PROVE  Promises'
<1>1. HostKnown'
  BY DEF Promises, HostKnown
<1>2. OneOpponent'
  BY DEF Promises, OneOpponent, Seated, HostKnown
<1>3. NothingPends'
  BY DEF Promises, NothingPends
<1>4. CancelledIsOver' /\ CancelledOpponentKnows'
  BY DEF Promises, CancelledIsOver, CancelledOpponentKnows
<1>5. AppliedToThisStart' /\ OneLivePerUser'
  BY DEF Promises, AppliedToThisStart, OneLivePerUser
<1> QED
  BY <1>1, <1>2, <1>3, <1>4, <1>5 DEF Promises

\* The match is cancelled.
LEMMA Ended ==
    ASSUME TypeOK, Promises,
           platform' = platform, away' = away, outdated' = outdated, appliedBy' = appliedBy,
           match' = Cancelled, Approved' = Approved, Asking' = {},
           game # "none" => game' # "none",
           \A t \in Teams : calendar'[t] # "SCHEDULED",
           match.opponent # None => match.opponent \in told'
    PROVE  Promises'
<1>1. /\ match'.host = match.host /\ match'.opponent = match.opponent
      /\ match'.status = "cancelled"
  BY DEF TypeOK, Match, Cancelled
<1>2. HostKnown'
  BY <1>1 DEF Promises, HostKnown
<1>3. OneOpponent'
  BY <1>1 DEF Promises, OneOpponent, Seated, Open
<1>4. NothingPends' /\ CancelledIsOver' /\ CancelledOpponentKnows'
  BY <1>1 DEF NothingPends, CancelledIsOver, CancelledOpponentKnows
<1>5. AppliedToThisStart' /\ OneLivePerUser'
  BY DEF Promises, AppliedToThisStart, OneLivePerUser
<1> QED
  BY <1>2, <1>3, <1>4, <1>5 DEF Promises

-----------------------------------------------------------------------------
(* Locks, request by request.                                              *)

LEMMA StepEffect ==
    ASSUME TypeOK, NEW w \in Workers, NEW r, Step(w, r)
    PROVE  tx'[w] = r /\ \A v \in Workers \ {w} : tx'[v] = tx[v]
  BY DEF Step, TypeOK

LEMMA FreeMatch == ASSUME TypeOK, MatchFree PROVE \A w \in Workers : ~Holds(tx[w])
<1> SUFFICES ASSUME NEW w \in Workers, Holds(tx[w]) PROVE FALSE
  OBVIOUS
<1>1. tx[w].op = "assign" => tx[w].stage \in {"locked", "read", "listed"}
  BY Kinds DEF AssignRequest
<1>2. w \in MatchHolders
  BY <1>1 DEF Holds, Cancels, MatchHolders, Leaving, InStage
<1> QED
  BY <1>2 DEF MatchFree

LEMMA FreeTeam ==
    ASSUME TypeOK, NEW t, TeamKeyFree(t)
    PROVE  \A w \in Workers : tx[w].op = "dissolve" => tx[w].team # t
<1> SUFFICES ASSUME NEW w \in Workers, tx[w].op = "dissolve", tx[w].team = t PROVE FALSE
  OBVIOUS
<1>1. tx[w].stage \in {"locked", "chosen", "written"}
  BY Kinds DEF DissolveRequest
<1>2. w \in Dissolvers(t)
  BY <1>1 DEF Dissolvers, InStage
<1> QED
  BY <1>2 DEF TeamKeyFree

LEMMA FreeTeamRow ==
    ASSUME NEW t, TeamFree(t)
    PROVE  \A w \in Workers : Fills(tx[w]) => tx[w].team # t
  BY DEF TeamFree, Writers, Fills, InStage

LEMMA FreeAnswers ==
    ASSUME NEW S, \A t \in S : AnswerFree(t)
    PROVE  \A w \in Workers : /\ Lists(tx[w]) \/ Fills(tx[w]) => tx[w].team \notin S
                              /\ Written(tx[w]) => tx[w].seen \cap S = {}
  BY DEF AnswerFree, Writers, Leaving, Lists, Fills, Written, InStage

LEMMA FreeRoster ==
    ASSUME RosterFree
    PROVE  \A w \in Workers : ~(tx[w].op = "cancel" /\ tx[w].stage = "locked")
<1> SUFFICES ASSUME NEW w \in Workers, tx[w].op = "cancel", tx[w].stage = "locked" PROVE FALSE
  OBVIOUS
<1>1. w \in GameHolders
  BY DEF GameHolders, InStage
<1> QED
  BY <1>1 DEF RosterFree

\* Steps that need the match free leave every lock as it was, or let go of one.
LEMMA FreeLocks ==
    ASSUME TypeOK, Locks, MatchFree, platform' = platform, match'.opponent = match.opponent,
           \A v \in Workers : tx'[v] \in {tx[v], Idle},
           \A v \in Workers : Written(tx[v]) => tx[v].seen \subseteq Asking'
    PROVE  Locks'
<1>1. \A v \in Workers : ~Holds(tx'[v])
  BY FreeMatch DEF Holds, Cancels, Idle
<1>2. MatchHeld'
  BY <1>1 DEF Locks, MatchHeld, Holds, Idle
<1>3. WriterHolds' /\ ListComplete' /\ KeyHeld'
  BY <1>1 DEF WriterHolds, ListComplete, KeyHeld, Lists, Fills, Holds
<1>4. LeaverHolds'
  BY <1>1 DEF Locks, LeaverHolds, Written, Holds, Cancels, Idle
<1>5. CancelSees'
  BY DEF Locks, CancelSees, Idle
<1> QED
  BY <1>2, <1>3, <1>4, <1>5 DEF Locks

\* Steps that leave the match alone, take no lock, and none of what a request
\* holds.
LEMMA SameLocks ==
    ASSUME TypeOK, Locks, platform' = platform, match' = match, Approved' = Approved, Asking' \subseteq Asking,
           \A v \in Workers : tx'[v] \in {tx[v], Idle},
           \A v \in Workers : Lists(tx[v]) \/ Fills(tx[v]) => application'[tx[v].team] = "requested",
           \A v \in Workers : Fills(tx[v]) => team'[tx[v].team] = "active",
           \A v \in Workers : Written(tx'[v]) => tx'[v].seen \subseteq Asking'
    PROVE  Locks'
<1>1. MatchHeld'
  BY DEF Locks, MatchHeld, Holds, Cancels, Open, Idle
<1>2. WriterHolds' /\ ListComplete' /\ KeyHeld'
  BY DEF Locks, WriterHolds, ListComplete, KeyHeld, Lists, Fills, Written, Idle
<1>3. LeaverHolds'
  BY DEF Locks, LeaverHolds, Written, Idle
<1>4. CancelSees'
  BY DEF Locks, CancelSees, Idle
<1> QED
  BY <1>1, <1>2, <1>3, <1>4 DEF Locks

\* Steps without any request that answer no application, and those that do.
LEMMA SameRequests ==
    ASSUME TypeOK, Locks, MatchFree, platform' = platform, match'.opponent = match.opponent, tx' = tx, Asking' = Asking
    PROVE  Locks'
  BY FreeLocks DEF Locks, LeaverHolds

LEMMA AnswerRows ==
    ASSUME TypeOK, Locks, NEW some \in SUBSET Teams, NEW answer \in {"rejected", "expired"}, Answer(some, answer)
    PROVE  \A v \in Workers : Written(tx[v]) => tx[v].seen \subseteq Asking'
<1>1. Asking' = Asking \ some
  BY AnswerEffect
<1>2. \A v \in Workers : Written(tx[v]) => tx[v].seen \cap some = {}
  BY FreeAnswers DEF Answer
<1> QED
  BY <1>1, <1>2 DEF Locks, LeaverHolds

LEMMA AnswerRequests ==
    ASSUME TypeOK, Locks, MatchFree, platform' = platform, match'.opponent = match.opponent, tx' = tx,
           NEW some \in SUBSET Teams, NEW answer \in {"rejected", "expired"}, Answer(some, answer)
    PROVE  Locks'
  BY AnswerRows, FreeLocks

LEMMA InitPromises == Init => Promises /\ Locks
<1> SUFFICES ASSUME Init PROVE Promises /\ Locks
  OBVIOUS
<1>1. TypeOK /\ Asking = {} /\ Approved = {}
  BY InitType DEF Init, Asking, Approved
<1>2. /\ match.status = "recruiting" /\ match.opponent = None /\ match.cancelled = FALSE
      /\ match.host = IF platform THEN None ELSE Creator
  BY DEF Init
<1>3. Promises
  BY <1>1, <1>2, NoneAssumption, TeamsAssumption DEF Init, Promises, HostKnown, OneOpponent, Seated, NothingPends, CancelledIsOver,
        CancelledOpponentKnows, AppliedToThisStart, OneLivePerUser
<1>4. \A w \in Workers : tx[w].op = "idle"
  BY DEF Init, Idle
<1>5. Locks
  BY <1>4 DEF Locks, MatchHeld, WriterHolds, ListComplete, KeyHeld, LeaverHolds, CancelSees, Holds, Cancels, Lists, Fills, Written
<1> QED
  BY <1>3, <1>5

-----------------------------------------------------------------------------
(* Steps that only move a request.                                         *)

LEMMA WaitPromises == ASSUME Promises, Waits PROVE Promises'
  BY DEF Waits, applications, calendars, Promises, HostKnown, OneOpponent, Seated, Open, NothingPends, CancelledIsOver,
         CancelledOpponentKnows, AppliedToThisStart, OneLivePerUser, Asking, Approved

\* A request that takes nothing of the match.
LEMMA Unlocked ==
    ASSUME TypeOK, Locks, Waits, NEW w \in Workers, NEW r, Step(w, r), ~Holds(r), ~Written(r),
           r.op \in {"approve", "cancel"} => ~platform,
           r.op = "cancel" /\ r.stage = "locked" => r.seen = match.opponent /\ \A v \in Workers : ~Fills(tx[v]),
           r.op = "dissolve" => \A v \in Workers : Fills(tx[v]) => r.team # tx[v].team
    PROVE  Locks'
<1>1. tx'[w] = r /\ \A v \in Workers \ {w} : tx'[v] = tx[v]
  BY StepEffect
<1>2. /\ Asking' = Asking /\ Approved' = Approved /\ match' = match /\ platform' = platform
      /\ application' = application /\ team' = team
  BY DEF Waits, applications, Asking, Approved
<1>3. MatchHeld'
  BY <1>1, <1>2 DEF Locks, MatchHeld, Holds, Cancels, Open
<1>4. WriterHolds' /\ ListComplete' /\ KeyHeld'
  BY <1>1, <1>2 DEF Locks, WriterHolds, ListComplete, KeyHeld, Lists, Fills, Written, Holds
<1>5. LeaverHolds'
  BY <1>1, <1>2 DEF Locks, LeaverHolds, Written
<1>6. CancelSees'
  BY <1>1, <1>2 DEF Locks, CancelSees
<1> QED
  BY <1>3, <1>4, <1>5, <1>6 DEF Locks

\* A request that takes the match.
LEMMA LockMatch ==
    ASSUME TypeOK, Locks, Waits, MatchFree, NEW w \in Workers, NEW r, Step(w, r), r.stage = "locked",
           match.status = "recruiting",
           \/ r.op = "approve" /\ ~platform
           \/ r.op = "assign" /\ platform /\ Approved \subseteq {match.host}
    PROVE  Locks'
<1>1. tx'[w] = r /\ \A v \in Workers \ {w} : tx'[v] = tx[v]
  BY StepEffect
<1>2. Asking' = Asking /\ Approved' = Approved /\ match' = match /\ platform' = platform
  BY DEF Waits, applications, Asking, Approved
<1>3. \A v \in Workers : ~Holds(tx[v])
  BY FreeMatch
<1>4. MatchHeld'
  BY <1>1, <1>2, <1>3 DEF Locks, MatchHeld, Holds, Cancels, Open
<1>5. WriterHolds' /\ ListComplete' /\ KeyHeld'
  BY <1>1, <1>3 DEF WriterHolds, ListComplete, KeyHeld, Lists, Fills, Holds
<1>6. LeaverHolds'
  BY <1>1, <1>2 DEF Locks, LeaverHolds, Written
<1>7. CancelSees'
  BY <1>1, <1>2 DEF Locks, CancelSees
<1> QED
  BY <1>4, <1>5, <1>6, <1>7 DEF Locks

\* An approval that holds the match goes on.
LEMMA HeldStep ==
    ASSUME TypeOK, Locks, Waits, NEW w \in Workers, NEW r, Step(w, r), Holds(tx[w]), Holds(r),
           r.op = tx[w].op, r.op \in {"approve", "assign"}, r.op = "assign" => Approved = {match.host},
           Lists(r) \/ Fills(r) => /\ application[r.team] = "requested"
                                  /\ \A v \in Workers : Written(tx[v]) => r.team \notin tx[v].seen,
           Lists(r) => Asking \subseteq r.seen \cup {r.team} /\ match.host \notin r.seen,
           Fills(r) => /\ team[r.team] = "active"
                       /\ \A v \in Workers : /\ tx[v].op = "dissolve" => tx[v].team # r.team
                                             /\ ~(tx[v].op = "cancel" /\ tx[v].stage = "locked")
    PROVE  Locks'
<1>1. tx'[w] = r /\ \A v \in Workers \ {w} : tx'[v] = tx[v]
  BY StepEffect
<1>2. /\ Asking' = Asking /\ Approved' = Approved /\ match' = match /\ platform' = platform
      /\ application' = application /\ team' = team
  BY DEF Waits, applications, Asking, Approved
<1>3. MatchHeld'
  BY <1>1, <1>2 DEF Locks, MatchHeld, Holds, Cancels, Open
<1>4. WriterHolds'
  BY <1>1, <1>2 DEF Locks, WriterHolds, Written
<1>5. ListComplete'
  BY <1>1, <1>2 DEF Locks, ListComplete
<1>6. KeyHeld'
  BY <1>1, <1>2 DEF Locks, KeyHeld
<1>7. LeaverHolds'
  BY <1>1, <1>2 DEF Locks, LeaverHolds, Written
<1>8. CancelSees'
  BY <1>1, <1>2 DEF Locks, CancelSees
<1> QED
  BY <1>3, <1>4, <1>5, <1>6, <1>7, <1>8 DEF Locks

\* A dissolution answers applications, and takes the match if it cancels it.
LEMMA LeaverWrites == ASSUME IInv, NEW w \in Workers, CancelAndWithdraw(w) PROVE Locks'
<1> USE DEF IInv
<1> DEFINE cancels == tx[w].takes /\ Open /\ ~match.deleted
           seen == IF cancels THEN Asking ELSE {tx[w].team} \cap Asking
           r == [tx[w] EXCEPT !.stage = "written", !.cancels = cancels, !.seen = seen]
<1>1. tx[w] \in DissolveRequest /\ tx[w].op = "dissolve" /\ tx[w].stage = "chosen"
  BY Kinds DEF CancelAndWithdraw
<1>2. r.op = "dissolve" /\ r.stage = "written" /\ r.team = tx[w].team /\ r.cancels = cancels /\ r.seen = seen
  BY <1>1 DEF DissolveRequest
<1>3. Step(w, r) /\ Waits /\ (cancels => MatchFree /\ Open) /\ \A t \in seen : AnswerFree(t)
  BY DEF CancelAndWithdraw
<1>4. seen \subseteq Asking /\ (cancels => seen = Asking)
  OBVIOUS
<1> HIDE DEF r, seen, cancels
<1>5. tx'[w] = r /\ \A v \in Workers \ {w} : tx'[v] = tx[v]
  BY <1>3, StepEffect
<1>6. /\ Asking' = Asking /\ Approved' = Approved /\ match' = match /\ platform' = platform
      /\ application' = application /\ team' = team
  BY <1>3 DEF Waits, applications, Asking, Approved
<1>7. \A v \in Workers : /\ Lists(tx[v]) \/ Fills(tx[v]) => tx[v].team \notin seen
                         /\ Written(tx[v]) => tx[v].seen \cap seen = {}
  BY <1>3, FreeAnswers
<1>8. cancels => \A v \in Workers : ~Holds(tx[v])
  BY <1>3, FreeMatch
<1>9. MatchHeld'
  BY <1>2, <1>3, <1>5, <1>6, <1>8 DEF Locks, MatchHeld, Holds, Cancels, Open
<1>10. WriterHolds'
  BY <1>2, <1>5, <1>6, <1>7 DEF Locks, WriterHolds, Lists, Fills, Written
<1>11. ListComplete'
  BY <1>2, <1>5, <1>6 DEF Locks, ListComplete, Lists
<1>12. KeyHeld'
  BY <1>1, <1>2, <1>5, <1>6 DEF Locks, KeyHeld, Fills
<1>13. LeaverHolds'
  BY <1>2, <1>4, <1>5, <1>6, <1>7 DEF Locks, LeaverHolds, Written
<1>14. CancelSees'
  BY <1>2, <1>5, <1>6 DEF Locks, CancelSees
<1> QED
  BY <1>9, <1>10, <1>11, <1>12, <1>13, <1>14 DEF Locks

LEMMA WaitLocks ==
    ASSUME IInv, NEW w \in Workers,
        \/ Abort(w)
        \/ \E t \in Teams : (\E u \in Users : BeginApply(w, t, u)) \/ ReadForApproval(w, t) \/ LockForAssign(w, t)
        \/ \E t \in Leavers : LockForDissolution(w, t)
        \/ LockForApproval(w) \/ SeatAway(w) \/ ReadForCancel(w) \/ LockForCancel(w)
        \/ ReadAway(w) \/ ListOthers(w) \/ ChooseMatches(w) \/ CancelAndWithdraw(w)
    PROVE  Locks'
<1> USE DEF IInv
<1>1. ASSUME Abort(w) PROVE Locks'
  BY <1>1, Unlocked DEF Abort, Holds, Cancels, Written, Idle
<1>2. ASSUME NEW t \in Teams, NEW u \in Users, BeginApply(w, t, u) PROVE Locks'
  BY <1>2, Unlocked DEF BeginApply, Holds, Cancels, Written
<1>3. ASSUME NEW t \in Teams, ReadForApproval(w, t) PROVE Locks'
  BY <1>3, Unlocked DEF ReadForApproval, Manageable, Holds, Cancels, Written
<1>4. ASSUME NEW t \in Teams, LockForAssign(w, t) PROVE Locks'
  BY <1>4, LockMatch DEF LockForAssign, CanConfirm
<1>5. ASSUME NEW t \in Leavers, LockForDissolution(w, t) PROVE Locks'
  BY <1>5, FreeTeamRow, Unlocked DEF LockForDissolution, Holds, Cancels, Written
<1>6. ASSUME LockForApproval(w) PROVE Locks'
  <2>1. tx[w] \in ApproveRequest
    BY <1>6, Kinds DEF LockForApproval
  <2>2. /\ [tx[w] EXCEPT !.stage = "locked"].stage = "locked"
        /\ [tx[w] EXCEPT !.stage = "locked"].op = "approve"
    BY <2>1 DEF ApproveRequest
  <2>3. ~platform
    BY <1>6 DEF LockForApproval, Locks, MatchHeld
  <2> QED
    BY <1>6, <2>2, <2>3, LockMatch DEF LockForApproval, CanConfirm
<1>7. ASSUME ReadForCancel(w) PROVE Locks'
  BY <1>7, Unlocked DEF ReadForCancel, Manageable, Holds, Cancels, Written
<1>8. ASSUME LockForCancel(w) PROVE Locks'
  <2> DEFINE r == [tx[w] EXCEPT !.stage = "locked", !.seen = match.opponent]
  <2>1. tx[w] \in CancelRequest
    BY <1>8, Kinds DEF LockForCancel
  <2>2. r.op = "cancel" /\ r.seen = match.opponent
    BY <2>1 DEF CancelRequest
  <2>3. ~platform
    BY <1>8 DEF LockForCancel, Locks, MatchHeld
  <2>4. Step(w, r) /\ Waits
    BY <1>8 DEF LockForCancel
  <2>5. \A v \in Workers : ~Fills(tx[v])
    BY <1>8 DEF LockForCancel, GameFree, Writers, Fills, InStage
  <2> HIDE DEF r
  <2> QED
    BY <2>2, <2>3, <2>4, <2>5, Unlocked DEF Holds, Cancels, Written
<1>9. ASSUME ListOthers(w) PROVE Locks'
  <2> DEFINE r == [tx[w] EXCEPT !.stage = "listed", !.seen = Asking \ {tx[w].team}]
  <2>1. tx[w] \in AssignRequest /\ tx[w].op = "assign" /\ tx[w].stage = "read"
    BY <1>9, Kinds DEF ListOthers
  <2>2. r.op = "assign" /\ r.stage = "listed" /\ r.team = tx[w].team /\ r.seen = Asking \ {tx[w].team}
    BY <2>1 DEF AssignRequest
  <2>3. Step(w, r) /\ Waits
    BY <1>9 DEF ListOthers
  <2>4. Approved = {match.host}
    BY <2>1 DEF Locks, MatchHeld
  <2>5. match.host \notin Asking
    BY <2>4 DEF Approved, Asking
  <2>6. application[tx[w].team] = "requested" /\ \A t \in {tx[w].team} : AnswerFree(t)
    BY <1>9 DEF ListOthers, Pending
  <2>7. \A v \in Workers : Written(tx[v]) => tx[w].team \notin tx[v].seen
    BY <2>6, FreeAnswers
  <2> HIDE DEF r
  <2> QED
    BY <2>1, <2>2, <2>3, <2>4, <2>5, <2>6, <2>7, HeldStep DEF Holds, Fills
<1>10. ASSUME ChooseMatches(w) PROVE Locks'
  <2>1. tx[w] \in DissolveRequest /\ tx[w].op = "dissolve"
    BY <1>10, Kinds DEF ChooseMatches
  <2>2. PICK takes \in BOOLEAN : Step(w, [tx[w] EXCEPT !.stage = "chosen", !.takes = takes])
    BY <1>10 DEF ChooseMatches
  <2> DEFINE r == [tx[w] EXCEPT !.stage = "chosen", !.takes = takes]
  <2>3. r.op = "dissolve" /\ r.stage = "chosen" /\ r.team = tx[w].team
    BY <2>1 DEF DissolveRequest
  <2>4. \A v \in Workers : Fills(tx[v]) => tx[w].team # tx[v].team
    BY <2>1 DEF Locks, KeyHeld
  <2>5. Step(w, r) /\ Waits
    BY <1>10, <2>2 DEF ChooseMatches
  <2> HIDE DEF r
  <2> QED
    BY <2>3, <2>4, <2>5, Unlocked DEF Holds, Cancels, Written
<1>11. ASSUME SeatAway(w) PROVE Locks'
  <2> DEFINE r == [tx[w] EXCEPT !.stage = "seated"]
  <2>1. tx[w] \in ApproveRequest /\ tx[w].op = "approve" /\ tx[w].stage = "locked"
    BY <1>11, Kinds DEF SeatAway
  <2>2. r.op = "approve" /\ r.stage = "seated" /\ r.team = tx[w].team
    BY <2>1 DEF ApproveRequest
  <2>3. Step(w, r) /\ Waits
    BY <1>11 DEF SeatAway
  <2>4. /\ application[tx[w].team] = "requested" /\ team[tx[w].team] = "active"
        /\ \A t \in {tx[w].team} : AnswerFree(t)
    BY <1>11 DEF SeatAway, Pending, AwayReady
  <2>5. \A v \in Workers : Written(tx[v]) => tx[w].team \notin tx[v].seen
    BY <2>4, FreeAnswers
  <2>6. \A v \in Workers : tx[v].op = "dissolve" => tx[v].team # tx[w].team
    BY <1>11, FreeTeam DEF SeatAway
  <2>7. \A v \in Workers : ~(tx[v].op = "cancel" /\ tx[v].stage = "locked")
    BY <1>11, FreeRoster DEF SeatAway
  <2> HIDE DEF r
  <2> QED
    BY <2>1, <2>2, <2>3, <2>4, <2>5, <2>6, <2>7, HeldStep DEF Holds, Lists
<1>12. ASSUME ReadAway(w) PROVE Locks'
  <2> DEFINE r == [tx[w] EXCEPT !.stage = "read"]
  <2>1. tx[w] \in AssignRequest /\ tx[w].op = "assign"
    BY <1>12, Kinds DEF ReadAway
  <2>2. r.op = "assign" /\ r.stage = "read"
    BY <2>1 DEF AssignRequest
  <2>3. Step(w, r) /\ Waits
    BY <1>12 DEF ReadAway
  <2>4. Approved = {match.host}
    BY <1>12, <2>1 DEF ReadAway, Locks, MatchHeld
  <2> HIDE DEF r
  <2> QED
    BY <2>1, <2>2, <2>3, <2>4, HeldStep DEF Holds, Lists, Fills
<1> QED
  BY <1>1, <1>2, <1>3, <1>4, <1>5, <1>6, <1>7, <1>8, <1>9, <1>10, <1>11, <1>12, LeaverWrites

-----------------------------------------------------------------------------
(* Commits of the requests that take several steps.                        *)

LEMMA ApplyStep == ASSUME IInv, NEW w \in Workers, CommitApply(w) PROVE Promises' /\ Locks'
<1> USE DEF IInv
<1> DEFINE t == tx[w].team
           u == tx[w].by
<1>1. tx[w] \in ApplyRequest
  BY Kinds DEF CommitApply
<1>2. t \in Teams /\ u \in Users
  BY <1>1 DEF ApplyRequest
<1>3. /\ application' = [application EXCEPT ![t] = "requested"]
      /\ appliedBy' = [appliedBy EXCEPT ![t] = u]
      /\ outdated' = outdated \ {t}
      /\ match.status = "recruiting" /\ application[t] \notin {"requested", "approved"}
      /\ \A s \in Asking \cup Approved : appliedBy[s] # u
  BY DEF CommitApply, JudgeAgain, Judge, JudgeTeam
<1> HIDE DEF t, u
<1>4. /\ Asking' = Asking \cup {t} /\ Approved' = Approved
      /\ t \notin Asking \cup Approved
  BY <1>2, <1>3 DEF Asking, Approved, TypeOK
<1>5. /\ platform' = platform /\ match' = match /\ game' = game /\ away' = away
      /\ calendar' = calendar /\ team' = team /\ told' = told
  BY DEF CommitApply, calendars
<1>6. HostKnown' /\ OneOpponent'
  BY <1>4, <1>5 DEF Promises, HostKnown, OneOpponent, Seated, Open
<1>7. NothingPends' /\ CancelledIsOver' /\ CancelledOpponentKnows'
  BY <1>3, <1>5 DEF Promises, NothingPends, CancelledIsOver, CancelledOpponentKnows
<1>8. AppliedToThisStart'
  BY <1>3, <1>4 DEF Promises, AppliedToThisStart
<1>9. \A s \in Asking \cup Approved : s \in Teams /\ appliedBy'[s] = appliedBy[s]
  BY <1>3, <1>4 DEF TypeOK, Asking, Approved
<1>10. appliedBy'[t] = u
  BY <1>2, <1>3 DEF TypeOK
<1>11. OneLivePerUser'
  BY <1>3, <1>4, <1>9, <1>10 DEF Promises, OneLivePerUser
<1>12. \A v \in Workers : tx'[v] \in {tx[v], Idle}
  BY StepEffect DEF CommitApply
<1>13. Locks'
  BY <1>4, <1>5, <1>12, FreeLocks DEF CommitApply, Locks, LeaverHolds
<1> QED
  BY <1>6, <1>7, <1>8, <1>11, <1>13 DEF Promises

\* What seating the opponent does to the promises, whoever does it.
LEMMA Seating ==
    ASSUME TypeOK, Promises, NEW t \in Teams, NEW others \in SUBSET Teams,
           application[t] = "requested", Asking \subseteq others \cup {t}, others \cap Approved = {},
           match.status = "recruiting", match.opponent = None,
           Approved = IF platform THEN {match.host} ELSE {},
           game # "none",
           match' = [match EXCEPT !.status = "matched", !.opponent = t], Seat(t, others), away' = t,
           platform' = platform, appliedBy' = appliedBy, outdated' = outdated, game' = game
    PROVE  Promises' /\ Asking' = {} /\ Approved' = Approved \cup {t}
<1>1. Asking' = {} /\ Approved' = Approved \cup {t} /\ t \in Asking
  BY DEF Seat, TypeOK, Asking, Approved
<1>2. /\ match'.status = "matched" /\ match'.opponent = t /\ match'.host = match.host
      /\ match'.cancelled = match.cancelled
  BY DEF TypeOK, Match
<1>3. t # None /\ (match.host \in Teams \/ match.host = None) /\ ~match.cancelled
  BY NoneAssumption DEF Promises, CancelledIsOver, TypeOK, Match
<1>4. match.host # None
  BY TeamsAssumption, NoneAssumption DEF Promises, HostKnown, Approved
<1>5. HostKnown'
  BY <1>2, <1>4 DEF Promises, HostKnown
<1>6. OneOpponent'
  BY <1>1, <1>2, <1>3, <1>4 DEF OneOpponent, Seated, Open
<1>7. NothingPends' /\ CancelledIsOver' /\ CancelledOpponentKnows'
  BY <1>1, <1>2, <1>3 DEF NothingPends, CancelledIsOver, CancelledOpponentKnows
<1>8. AppliedToThisStart' /\ OneLivePerUser'
  BY <1>1 DEF Promises, AppliedToThisStart, OneLivePerUser
<1> QED
  BY <1>1, <1>5, <1>6, <1>7, <1>8 DEF Promises

\* When the holder of the match commits, nobody holds it.
LEMMA LastLock ==
    ASSUME TypeOK, Locks, NEW w \in Workers, Holds(tx[w]), Step(w, Idle), platform' = platform,
           \/ match'.opponent = match.opponent
           \/ \A v \in Workers : ~(tx[v].op = "cancel" /\ tx[v].stage = "locked"),
           \A v \in Workers \ {w} : Written(tx[v]) => tx[v].seen \subseteq Asking'
    PROVE  Locks'
<1>1. tx'[w] = Idle /\ \A v \in Workers \ {w} : tx'[v] = tx[v]
  BY StepEffect
<1>2. \A v \in Workers : ~Holds(tx'[v])
  BY <1>1 DEF Locks, MatchHeld, Holds, Cancels, Idle
<1>3. MatchHeld'
  BY <1>1, <1>2 DEF Locks, MatchHeld, Holds, Idle
<1>4. WriterHolds' /\ ListComplete' /\ KeyHeld'
  BY <1>2 DEF WriterHolds, ListComplete, KeyHeld, Lists, Fills, Holds
<1>5. LeaverHolds'
  BY <1>1, <1>2 DEF Locks, LeaverHolds, Written, Holds, Cancels, Idle
<1>6. CancelSees'
  BY <1>1 DEF Locks, CancelSees, Idle
<1> QED
  BY <1>3, <1>4, <1>5, <1>6 DEF Locks

\* Who holds the match otherwise than to cancel it finds it without an opponent.
LEMMA HeldMatch ==
    ASSUME IInv, NEW w \in Workers, Holds(tx[w])
    PROVE  match.opponent = None /\ (Cancels(tx[w]) \/ match.status = "recruiting")
  BY DEF IInv, Locks, MatchHeld, Promises, OneOpponent

\* An approval waits for everybody it answers.
LEMMA NobodyAnswers ==
    ASSUME TypeOK, Locks, NEW w \in Workers, Lists(tx[w]) \/ Fills(tx[w]),
           NEW others, Asking \subseteq others \cup {tx[w].team}, \A s \in others : AnswerFree(s)
    PROVE  \A v \in Workers : Written(tx[v]) => tx[v].seen = {}
<1>1. \A v \in Workers : Written(tx[v]) => tx[v].seen \cap others = {}
  BY FreeAnswers
<1>2. \A v \in Workers : Written(tx[v]) => tx[v].seen \subseteq Asking /\ tx[w].team \notin tx[v].seen
  BY DEF Locks, WriterHolds, LeaverHolds
<1> QED
  BY <1>1, <1>2

LEMMA ApprovalStep == ASSUME IInv, NEW w \in Workers, CommitApproval(w) PROVE Promises' /\ Locks'
<1> USE DEF IInv
<1> DEFINE t == tx[w].team
<1>1. tx[w] \in ApproveRequest /\ t \in Teams
  BY Kinds DEF CommitApproval, ApproveRequest
<1>2. Holds(tx[w]) /\ Fills(tx[w]) /\ ~Cancels(tx[w])
  BY DEF CommitApproval, Holds, Fills, Cancels
<1>3. ~platform /\ match.status = "recruiting" /\ match.opponent = None /\ application[t] = "requested"
  BY <1>2, HeldMatch DEF Fills, Locks, MatchHeld, WriterHolds
<1>4. Approved = {} /\ Asking \in SUBSET Teams /\ Asking \cap Approved = {}
  BY <1>3 DEF Promises, OneOpponent, Seated, Asking
<1>5. game # "none"
  BY <1>3, TeamsAssumption, NoneAssumption DEF Promises, HostKnown
<1>6. Promises'
  BY <1>1, <1>3, <1>4, <1>5, Seating DEF CommitApproval
<1>7. \A v \in Workers : Written(tx[v]) => tx[v].seen = {}
  <2>1. \A s \in Asking \ {t} : AnswerFree(s)
    BY DEF CommitApproval
  <2> QED
    BY <1>2, <2>1, NobodyAnswers
<1>8. \A v \in Workers : ~(tx[v].op = "cancel" /\ tx[v].stage = "locked")
  BY <1>2 DEF Locks, KeyHeld
<1> QED
  BY <1>2, <1>6, <1>7, <1>8, LastLock DEF CommitApproval

LEMMA AssignStep == ASSUME IInv, NEW w \in Workers, CommitAssign(w) PROVE Promises' /\ Locks'
<1> USE DEF IInv
<1> DEFINE t == tx[w].team
<1>1. tx[w] \in AssignRequest /\ t \in Teams /\ tx[w].seen \in SUBSET Teams
  BY Kinds DEF CommitAssign, AssignRequest
<1>2. Holds(tx[w]) /\ Lists(tx[w]) /\ ~Cancels(tx[w])
  BY DEF CommitAssign, Holds, Lists, Cancels
<1>3. /\ platform /\ Approved = {match.host}
      /\ match.status = "recruiting" /\ match.opponent = None
  BY <1>2, HeldMatch DEF Lists, Locks, MatchHeld
<1>4. /\ application[t] = "requested" /\ Asking \subseteq tx[w].seen \cup {t}
      /\ tx[w].seen \cap Approved = {}
  BY <1>2, <1>3 DEF Locks, WriterHolds, ListComplete
<1>5. game # "none"
  BY <1>3, NoneAssumption DEF Promises, HostKnown, Approved
<1>6. Promises'
  BY <1>1, <1>3, <1>4, <1>5, Seating DEF CommitAssign
<1>7. \A v \in Workers : ~(tx[v].op = "cancel" /\ tx[v].stage = "locked")
  BY <1>3 DEF Locks, MatchHeld
<1>8. \A v \in Workers : Written(tx[v]) => tx[v].seen = {}
  BY <1>2, <1>4, NobodyAnswers DEF CommitAssign
<1> QED
  BY <1>2, <1>6, <1>7, <1>8, LastLock DEF CommitAssign

LEMMA FirstStep == ASSUME IInv, NEW w \in Workers, ApproveFirst(w) PROVE Promises' /\ Locks'
<1> USE DEF IInv
<1> DEFINE t == tx[w].team
<1>1. tx[w] \in AssignRequest /\ t \in Teams
  BY Kinds DEF ApproveFirst, AssignRequest
<1>2. Holds(tx[w]) /\ ~Cancels(tx[w])
  BY DEF ApproveFirst, Holds, Cancels
<1>3. platform /\ match.status = "recruiting" /\ match.opponent = None
  BY <1>2, HeldMatch DEF ApproveFirst, Locks, MatchHeld
<1>4. /\ Approved = {} /\ application[t] = "requested"
      /\ match' = [match EXCEPT !.host = t] /\ application' = [application EXCEPT ![t] = "approved"]
      /\ game' = "SCHEDULED" /\ platform' = platform /\ away' = away /\ appliedBy' = appliedBy
      /\ outdated' = outdated /\ told' = told
  BY DEF ApproveFirst, Pending
<1>5. Approved' = {t} /\ Asking' = Asking \ {t} /\ t \in Asking
  BY <1>1, <1>4 DEF TypeOK, Approved, Asking
<1>6. /\ match'.host = t /\ match'.opponent = match.opponent
      /\ match'.status = match.status /\ match'.cancelled = match.cancelled
  BY <1>4 DEF TypeOK, Match
<1>7. t # None
  BY <1>1, NoneAssumption
<1>8. HostKnown'
  BY <1>3, <1>4, <1>6, <1>7 DEF HostKnown
<1>9. OneOpponent'
  BY <1>3, <1>4, <1>5, <1>6, <1>7 DEF Promises, OneOpponent, Seated, Open
<1>10. NothingPends' /\ CancelledIsOver' /\ CancelledOpponentKnows'
  BY <1>3, <1>4, <1>6 DEF Promises, NothingPends, CancelledIsOver, CancelledOpponentKnows
<1>11. AppliedToThisStart' /\ OneLivePerUser'
  BY <1>4, <1>5 DEF Promises, AppliedToThisStart, OneLivePerUser
<1>12. \A v \in Workers : Written(tx[v]) => tx[v].seen \subseteq Asking'
  <2>1. \A s \in {t} : AnswerFree(s)
    BY DEF ApproveFirst
  <2> QED
    BY <1>5, <2>1, FreeAnswers DEF Locks, LeaverHolds
<1>13. Locks'
  BY <1>2, <1>6, <1>12, LastLock DEF ApproveFirst
<1> QED
  BY <1>8, <1>9, <1>10, <1>11, <1>13 DEF Promises

LEMMA CancelStep == ASSUME IInv, NEW w \in Workers, CommitCancel(w) PROVE Promises' /\ Locks'
<1> USE DEF IInv
<1>1. Approved' = Approved /\ Asking' = {}
  <2>1. Asking \subseteq Teams
    BY DEF Asking
  <2> QED
    BY <2>1, AnswerEffect DEF CommitCancel
<1>2. \A t \in Teams : calendar'[t] # "SCHEDULED"
  BY CascadeEffect DEF CommitCancel
<1>3. match.opponent # None => match.opponent \in told'
  BY DEF CommitCancel, Locks, CancelSees
<1>4. match'.opponent = match.opponent
  BY DEF CommitCancel, Cancelled, TypeOK, Match
<1>5. Promises'
  BY <1>1, <1>2, <1>3, Ended DEF CommitCancel, CancelGame
<1>6. \A v \in Workers : tx'[v] \in {tx[v], Idle}
  BY StepEffect DEF CommitCancel
<1>7. Locks'
  BY <1>4, <1>6, AnswerRows, FreeLocks DEF CommitCancel
<1> QED
  BY <1>5, <1>7

\* A dissolution answers what it has seen, and nothing else.
LEMMA LeaverAnswers ==
    ASSUME IInv, NEW w \in Workers, CommitDissolution(w)
    PROVE  /\ Approved' = Approved /\ Asking' = Asking \ tx[w].seen
           /\ \A s \in Teams \ tx[w].seen : application'[s] = application[s]
<1>1. tx[w].seen \subseteq Asking
  BY DEF IInv, Locks, LeaverHolds, Written, CommitDissolution
<1> DEFINE answer == IF tx[w].cancels THEN "rejected" ELSE "withdrawn"
<1>2. application' = [s \in Teams |-> IF s \in tx[w].seen THEN answer ELSE application[s]]
  BY DEF CommitDissolution
<1>3. answer \in {"rejected", "withdrawn"}
  OBVIOUS
<1> HIDE DEF answer
<1> QED
  BY <1>1, <1>2, <1>3 DEF Approved, Asking

LEMMA DissolutionStep == ASSUME IInv, NEW w \in Workers, CommitDissolution(w) PROVE Promises' /\ Locks'
<1> USE DEF IInv
<1> DEFINE t == tx[w].team
           cancels == tx[w].cancels
<1>1. tx[w] \in DissolveRequest /\ t \in Teams /\ cancels \in BOOLEAN
  BY Kinds DEF CommitDissolution, DissolveRequest
<1>2. Written(tx[w])
  BY DEF CommitDissolution, Written
<1>3. tx'[w] = Idle /\ \A v \in Workers \ {w} : tx'[v] = tx[v]
  BY StepEffect DEF CommitDissolution
<1>4. /\ Approved' = Approved /\ Asking' = Asking \ tx[w].seen
      /\ \A s \in Teams \ tx[w].seen : application'[s] = application[s]
  BY LeaverAnswers
<1>5. \A s \in Teams : calendar'[s] = "SCHEDULED" => calendar[s] = "SCHEDULED" /\ ~cancels
  BY DEF CommitDissolution, TypeOK
<1>6. \A v \in Workers \ {w} : Written(tx[v]) => tx[v].seen \subseteq Asking'
  BY <1>2, <1>4 DEF Locks, LeaverHolds
<1>7. CASE cancels
  <2>1. Holds(tx[w])
    BY <1>7 DEF CommitDissolution, Holds, Cancels
  <2>2. Asking' = {} /\ match' = Cancelled
    BY <1>2, <1>4, <1>7 DEF CommitDissolution, Locks, LeaverHolds
  <2>3. match.opponent = None /\ match'.opponent = match.opponent
    BY <2>1, <2>2, HeldMatch DEF Cancelled, TypeOK, Match
  <2>4. Promises'
    BY <1>4, <1>5, <1>7, <2>2, <2>3, Ended DEF CommitDissolution
  <2> QED
    BY <1>6, <2>1, <2>3, <2>4, LastLock DEF CommitDissolution
<1>8. CASE ~cancels
  <2>1. match' = match
    BY <1>8 DEF CommitDissolution
  <2>2. Promises'
    BY <1>4, <1>5, <2>1, Kept DEF CommitDissolution, Promises, OneOpponent, CancelledIsOver, Open
  <2>3. \A v \in Workers : Lists(tx[v]) \/ Fills(tx[v]) => application'[tx[v].team] = "requested"
    <3> SUFFICES ASSUME NEW v \in Workers, Lists(tx[v]) \/ Fills(tx[v]) PROVE application'[tx[v].team] = "requested"
      OBVIOUS
    <3>1. tx[v].team \in Teams
      BY Kinds DEF Lists, Fills, AssignRequest, ApproveRequest
    <3>2. application[tx[v].team] = "requested" /\ tx[v].team \notin tx[w].seen
      BY <1>2 DEF Locks, WriterHolds
    <3> QED
      BY <1>4, <3>1, <3>2
  <2>4. \A v \in Workers : Fills(tx[v]) => team'[tx[v].team] = "active"
    <3> SUFFICES ASSUME NEW v \in Workers, Fills(tx[v]) PROVE team'[tx[v].team] = "active"
      OBVIOUS
    <3>1. tx[v].team \in Teams
      BY Kinds DEF Fills, ApproveRequest
    <3>2. team[tx[v].team] = "active" /\ tx[v].team # t
      BY DEF Locks, KeyHeld, CommitDissolution
    <3>3. team' = [team EXCEPT ![t] = "archived"]
      BY DEF CommitDissolution
    <3> QED
      BY <3>1, <3>2, <3>3 DEF TypeOK
  <2>5. \A v \in Workers : tx'[v] \in {tx[v], Idle} /\ (Written(tx'[v]) => tx'[v].seen \subseteq Asking')
    BY <1>3, <1>6 DEF Written, Idle
  <2>6. Locks'
    BY <1>4, <2>1, <2>3, <2>4, <2>5, SameLocks DEF CommitDissolution
  <2> QED
    BY <2>2, <2>6
<1> QED
  BY <1>1, <1>7, <1>8

-----------------------------------------------------------------------------
(* Operations that take one step.                                          *)

\* One application that nobody holds is answered.
LEMMA OneAnswerLocks ==
    ASSUME IInv, NEW t \in Teams, NEW answer \in {"rejected", "withdrawn"}, Pending(t), AnswerFree(t),
           application' = [application EXCEPT ![t] = answer],
           platform' = platform, match' = match, team' = team, tx' = tx
    PROVE  Locks'
<1> USE DEF IInv
<1>1. Approved' = Approved /\ Asking' = Asking \ {t}
  BY OneAnswer
<1>2. \A v \in Workers : /\ Lists(tx[v]) \/ Fills(tx[v]) => tx[v].team \notin {t}
                         /\ Written(tx[v]) => tx[v].seen \cap {t} = {}
  BY FreeAnswers
<1>3. \A v \in Workers : Lists(tx[v]) \/ Fills(tx[v]) => tx[v].team \in Teams
  BY Kinds DEF Lists, Fills, AssignRequest, ApproveRequest
<1>4. \A v \in Workers : Lists(tx[v]) \/ Fills(tx[v]) => application'[tx[v].team] = "requested"
  BY <1>2, <1>3 DEF Locks, WriterHolds, TypeOK
<1>5. \A v \in Workers : Fills(tx[v]) => team'[tx[v].team] = "active"
  BY DEF Locks, KeyHeld
<1>6. \A v \in Workers : Written(tx'[v]) => tx'[v].seen \subseteq Asking'
  BY <1>1, <1>2 DEF Locks, LeaverHolds
<1> QED
  BY <1>1, <1>4, <1>5, <1>6, SameLocks

LEMMA TeamSteps == ASSUME IInv, NEW t \in Teams, TeamStep(t) PROVE Promises' /\ Locks'
<1> USE DEF IInv
<1>1. ASSUME Withdraw(t) PROVE Promises' /\ Locks'
  <2>1. Approved' = Approved /\ Asking' = Asking \ {t}
    BY <1>1, OneAnswer DEF Withdraw
  <2>2. Promises'
    BY <1>1, <2>1, Kept DEF Withdraw, calendars, Promises, OneOpponent, CancelledIsOver, Open
  <2> QED
    BY <1>1, <2>2, OneAnswerLocks DEF Withdraw
<1>2. ASSUME Reject(t) PROVE Promises' /\ Locks'
  <2>1. Approved' = Approved /\ Asking' = Asking \ {t}
    BY <1>2, OneAnswer DEF Reject
  <2>2. Promises'
    BY <1>2, <2>1, Kept DEF Reject, calendars, Promises, OneOpponent, CancelledIsOver, Open
  <2> QED
    BY <1>2, <2>2, OneAnswerLocks DEF Reject
<1>3. ASSUME RejectByAdmin(t) PROVE Promises' /\ Locks'
  <2>1. Approved' = Approved /\ Asking' = Asking \ {t}
    BY <1>3, OneAnswer DEF RejectByAdmin
  <2>2. Promises'
    BY <1>3, <2>1, Kept DEF RejectByAdmin, calendars, Promises, OneOpponent, CancelledIsOver, Open
  <2> QED
    BY <1>3, <2>2, OneAnswerLocks DEF RejectByAdmin
<1>4. ASSUME Restore(t) PROVE Promises' /\ Locks'
  <2>1. Approved' = Approved /\ Asking' = Asking
    BY <1>4 DEF Restore, applications, Approved, Asking
  <2>2. Promises'
    BY <1>4, <2>1, Kept DEF Restore, applications, calendars, Promises, OneOpponent, CancelledIsOver, Open
  <2>3. \A v \in Workers : Lists(tx[v]) \/ Fills(tx[v]) => application'[tx[v].team] = "requested"
    BY <1>4 DEF Restore, applications, Locks, WriterHolds
  <2>4. \A v \in Workers : Fills(tx[v]) => team'[tx[v].team] = "active"
    <3>1. \A v \in Workers : Fills(tx[v]) => tx[v].team \in Teams
      BY Kinds DEF Fills, ApproveRequest
    <3> QED
      BY <1>4, <3>1 DEF Restore, Locks, KeyHeld, TypeOK
  <2>5. \A v \in Workers : Written(tx'[v]) => tx'[v].seen \subseteq Asking'
    BY <1>4, <2>1 DEF Restore, Locks, LeaverHolds
  <2> QED
    BY <1>4, <2>1, <2>2, <2>3, <2>4, <2>5, SameLocks DEF Restore
<1> QED
  BY <1>1, <1>2, <1>3, <1>4 DEF TeamStep

LEMMA MatchSteps == ASSUME IInv, MatchStep \/ Scan \/ Tick PROVE Promises' /\ Locks'
<1> USE DEF IInv
<1>0. Asking \subseteq Teams /\ Asking \ Teams = {}
  BY DEF Asking
<1>1. ASSUME NEW plan \in Plans, Update(plan) PROVE Promises' /\ Locks'
  <2>1. /\ match'.host = match.host /\ match'.opponent = match.opponent
        /\ match'.status = (IF Reconfirm(plan) THEN "recruiting" ELSE match.status)
        /\ match'.cancelled = match.cancelled
    BY <1>1 DEF Update, TypeOK, Match
  <2>2. Approved' = Approved /\ Asking' = Asking \ (IF Reconfirm(plan) THEN Teams ELSE {})
    BY <1>1, AnswerEffect DEF Update
  <2>3. outdated' = outdated
    BY <1>0, <1>1, <2>2 DEF Update, Reconfirm, Asking
  <2>4. Promises'
    BY <1>1, <2>1, <2>2, <2>3, Kept DEF Update, Manageable, Promises, CancelledIsOver, Open
  <2> QED
    BY <1>1, <2>1, <2>4, AnswerRequests DEF Update
<1>2. ASSUME NEW plan \in Plans, UpdateByAdmin(plan) PROVE Promises' /\ Locks'
  <2>1. /\ match'.host = match.host /\ match'.opponent = match.opponent
        /\ match'.status = match.status /\ match'.cancelled = match.cancelled
    BY <1>2 DEF UpdateByAdmin, TypeOK, Match
  <2>2. Approved' = Approved /\ Asking' = Asking
    BY <1>2 DEF UpdateByAdmin, applications, Approved, Asking
  <2>3. Promises'
    BY <1>2, <2>1, <2>2, Kept DEF UpdateByAdmin, applications, Promises, OneOpponent, CancelledIsOver, Open
  <2> QED
    BY <1>2, <2>1, <2>2, <2>3, SameRequests DEF UpdateByAdmin
<1>3. ASSUME Remove PROVE Promises' /\ Locks'
  <2>1. /\ match'.host = match.host /\ match'.opponent = match.opponent
        /\ match'.status = "archived" /\ match'.cancelled = match.cancelled
    BY <1>3 DEF Remove, TypeOK, Match
  <2>2. Approved' = Approved /\ Asking' = Asking
    BY <1>3 DEF Remove, applications, Approved, Asking
  <2>3. \A t \in Teams : calendar'[t] # "SCHEDULED"
    BY <1>3, CascadeEffect DEF Remove
  <2>4. Promises'
    BY <1>3, <2>1, <2>2, <2>3, Kept DEF Remove, applications, CancelGame, Open
  <2> QED
    BY <1>3, <2>1, <2>2, <2>4, SameRequests DEF Remove
<1>4. ASSUME Close PROVE Promises' /\ Locks'
  <2>1. /\ match'.host = match.host /\ match'.opponent = match.opponent
        /\ match'.status = "closed" /\ match'.cancelled = match.cancelled
    BY <1>4 DEF Close, Closed, TypeOK, Match
  <2>2. Approved' = Approved /\ Asking' = {}
    BY <1>0, <1>4, AnswerEffect DEF Close
  <2>3. ~match.cancelled
    BY <1>4 DEF Close, CanConfirm, Promises, CancelledIsOver
  <2>4. Promises'
    BY <1>4, <2>1, <2>2, <2>3, Kept DEF Close, calendars
  <2> QED
    BY <1>4, <2>1, <2>4, AnswerRequests DEF Close
<1>5. ASSUME Reopen \/ ReopenByAdmin \/ CloseByAdmin PROVE Promises' /\ Locks'
  <2>1. /\ match'.host = match.host /\ match'.opponent = match.opponent
        /\ match'.status \in {"recruiting", "closed"} /\ match'.cancelled = match.cancelled
    BY <1>5 DEF Reopen, ReopenByAdmin, CloseByAdmin, Closed, TypeOK, Match
  <2>2. Approved' = Approved /\ Asking' = Asking
    BY <1>5 DEF Reopen, ReopenByAdmin, CloseByAdmin, applications, Approved, Asking
  <2>3. match.opponent = None /\ ~match.cancelled
    BY <1>5 DEF Reopen, ReopenByAdmin, CloseByAdmin, Promises, OneOpponent, CancelledIsOver, Open
  <2>4. /\ platform' = platform /\ game' = game /\ away' = away /\ calendar' = calendar /\ told' = told
        /\ outdated' = outdated /\ appliedBy' = appliedBy
    BY <1>5 DEF Reopen, ReopenByAdmin, CloseByAdmin, applications, calendars
  <2>5. Promises'
    BY <2>1, <2>2, <2>3, <2>4, Kept
  <2>6. MatchFree /\ tx' = tx
    BY <1>5 DEF Reopen, ReopenByAdmin, CloseByAdmin, AdminMay
  <2> QED
    BY <2>1, <2>2, <2>4, <2>5, <2>6, SameRequests
<1>6. ASSUME ArchiveByAdmin PROVE Promises' /\ Locks'
  <2>1. /\ match'.host = match.host /\ match'.opponent = match.opponent
        /\ match'.status = "archived" /\ match'.cancelled = match.cancelled
    BY <1>6 DEF ArchiveByAdmin, TypeOK, Match
  <2>2. Approved' = Approved /\ Asking' = Asking
    BY <1>6 DEF ArchiveByAdmin, applications, Approved, Asking
  <2>3. Promises'
    BY <1>6, <2>1, <2>2, Kept DEF ArchiveByAdmin, applications, calendars, Open
  <2> QED
    BY <1>6, <2>1, <2>2, <2>3, SameRequests DEF ArchiveByAdmin, AdminMay
<1>7. ASSUME CancelByAdmin PROVE Promises' /\ Locks'
  <2>1. Approved' = Approved /\ Asking' = {}
    BY <1>0, <1>7, AnswerEffect DEF CancelByAdmin
  <2>2. \A t \in Teams : calendar'[t] # "SCHEDULED"
    BY <1>7, CascadeEffect DEF CancelByAdmin
  <2>3. match.opponent # None => match.opponent \in told'
    BY <1>7 DEF CancelByAdmin
  <2>4. Promises'
    BY <1>7, <2>1, <2>2, <2>3, Ended DEF CancelByAdmin, CancelGame
  <2>5. match'.opponent = match.opponent
    BY <1>7 DEF CancelByAdmin, Cancelled, TypeOK, Match
  <2> QED
    BY <1>7, <2>4, <2>5, AnswerRequests DEF CancelByAdmin, AdminMay
<1>8. ASSUME StartGame \/ CancelGameOnly \/ Tick PROVE Promises' /\ Locks'
  <2>1. Approved' = Approved /\ Asking' = Asking
    BY <1>8 DEF StartGame, CancelGameOnly, Tick, applications, Approved, Asking
  <2>2. /\ platform' = platform /\ match' = match /\ away' = away /\ calendar' = calendar /\ told' = told
        /\ outdated' = outdated /\ appliedBy' = appliedBy /\ application' = application /\ team' = team /\ tx' = tx
        /\ game # "none" => game' # "none"
    BY <1>8 DEF StartGame, CancelGameOnly, Tick, applications, calendars
  <2>3. Promises'
    BY <2>1, <2>2, Kept DEF Promises, OneOpponent, CancelledIsOver, Open
  <2> QED
    BY <2>1, <2>2, <2>3, SameLocks DEF Locks, WriterHolds, KeyHeld, LeaverHolds
<1>9. ASSUME SubmitResult PROVE Promises' /\ Locks'
  <2>1. /\ match'.host = match.host /\ match'.opponent = match.opponent
        /\ match'.status = "completed" /\ match'.cancelled = match.cancelled
    BY <1>9 DEF SubmitResult, TypeOK, Match
  <2>2. Approved' = Approved /\ Asking' = Asking
    BY <1>9 DEF SubmitResult, applications, Approved, Asking
  <2>3. \A t \in Teams : calendar'[t] # "SCHEDULED"
    BY <1>9, CascadeEffect DEF SubmitResult
  <2>4. ~match.cancelled /\ match.status = "matched"
    BY <1>9 DEF SubmitResult, Promises, CancelledIsOver
  <2>5. Promises'
    BY <1>9, <2>1, <2>2, <2>3, <2>4, Kept DEF SubmitResult, applications, Open
  <2> QED
    BY <1>9, <2>1, <2>2, <2>5, SameRequests DEF SubmitResult
<1>10. ASSUME Scan PROVE Promises' /\ Locks'
  <2>1. Approved' = Approved /\ Asking' = {}
    BY <1>0, <1>10, AnswerEffect DEF Scan
  <2>2. \A t \in Teams : calendar'[t] # "SCHEDULED"
    BY <1>10, CascadeEffect DEF Scan
  <2>3. Promises'
    BY <1>10, <2>1, <2>2, Ended DEF Scan, CancelGame
  <2>4. match'.opponent = match.opponent
    BY <1>10 DEF Scan, Cancelled, TypeOK, Match
  <2> QED
    BY <1>10, <2>3, <2>4, AnswerRequests DEF Scan
<1> QED
  BY <1>1, <1>2, <1>3, <1>4, <1>5, <1>6, <1>7, <1>8, <1>9, <1>10 DEF MatchStep

LEMMA WorkerSteps == ASSUME IInv, NEW w \in Workers, WorkerStep(w) PROVE Promises' /\ Locks'
<1>1. CASE \/ CommitApply(w) \/ CommitApproval(w) \/ CommitCancel(w)
           \/ ApproveFirst(w) \/ CommitAssign(w) \/ CommitDissolution(w)
  BY <1>1, ApplyStep, ApprovalStep, CancelStep, FirstStep, AssignStep, DissolutionStep
<1>2. CASE \/ Abort(w)
           \/ \E t \in Teams : (\E u \in Users : BeginApply(w, t, u)) \/ ReadForApproval(w, t) \/ LockForAssign(w, t)
           \/ \E t \in Leavers : LockForDissolution(w, t)
           \/ LockForApproval(w) \/ SeatAway(w) \/ ReadForCancel(w) \/ LockForCancel(w)
           \/ ReadAway(w) \/ ListOthers(w) \/ ChooseMatches(w) \/ CancelAndWithdraw(w)
  <2>1. Waits
    BY <1>2 DEF Abort, BeginApply, ReadForApproval, LockForAssign, LockForDissolution, LockForApproval, SeatAway,
           ReadForCancel, LockForCancel, ReadAway, ListOthers, ChooseMatches, CancelAndWithdraw
  <2> QED
    BY <1>2, <2>1, WaitLocks, WaitPromises DEF IInv
<1> QED
  BY <1>1, <1>2 DEF WorkerStep

LEMMA StutterPromises == ASSUME IInv, UNCHANGED vars PROVE Promises' /\ Locks'
<1>1. Waits /\ tx' = tx
  BY DEF vars, Waits
<1>2. Approved' = Approved /\ Asking' = Asking
  BY DEF vars, applications, Approved, Asking
<1>3. Locks'
  BY <1>1, <1>2, SameLocks DEF IInv, Waits, applications, Locks, WriterHolds, KeyHeld, LeaverHolds
<1> QED
  BY <1>1, <1>3, WaitPromises DEF IInv

THEOREM Invariance == Spec => []IInv
<1>1. Init => IInv
  BY InitType, InitPromises DEF IInv
<1>2. IInv /\ [Next]_vars => IInv'
  BY WorkerType, TeamType, MatchType, StutterType, WorkerSteps, TeamSteps, MatchSteps, StutterPromises DEF Next, IInv
<1> QED
  BY <1>1, <1>2, PTL DEF Spec

-----------------------------------------------------------------------------
(* What every run checks, for any instance.                                *)

\* Whoever is approved is who the match names, and its game's AWAY side, in
\* every interleaving of approvals, rejections, withdrawals and cancellations.
THEOREM OneOpponentCorrect == Spec => []OneOpponent
BY Invariance, PTL DEF IInv, Promises

\* A match that is decided leaves no application waiting.
THEOREM NothingPendsCorrect == Spec => []NothingPends
BY Invariance, PTL DEF IInv, Promises

\* A cancelled match is never brought back and frees its teams' calendars.
THEOREM CancelledIsOverCorrect == Spec => []CancelledIsOver
BY Invariance, PTL DEF IInv, Promises

\* A cancellation tells the opponent the match has when it commits.
THEOREM CancelledOpponentKnowsCorrect == Spec => []CancelledOpponentKnows
BY Invariance, PTL DEF IInv, Promises

\* No application outlives a change of the start by the host.
THEOREM AppliedToThisStartCorrect == Spec => []AppliedToThisStart
BY Invariance, PTL DEF IInv, Promises

\* Two live applications are of two users.
THEOREM OneLivePerUserCorrect == Spec => []OneLivePerUser
BY Invariance, PTL DEF IInv, Promises

-----------------------------------------------------------------------------
(* The abstract specification.                                             *)

\* Every operation but those that add an application or an opponent.
LEMMA Leaves ==
    ASSUME IInv, Next,
           ~\E w \in Workers : CommitApply(w) \/ CommitApproval(w) \/ ApproveFirst(w) \/ CommitAssign(w)
    PROVE  /\ Approved' = Approved /\ Asking' \subseteq Asking
           /\ platform' = platform /\ match'.opponent = match.opponent
<1> USE DEF IInv
<1>0. Asking \subseteq Teams
  BY DEF Asking
<1>1. ASSUME Waits PROVE Approved' = Approved /\ Asking' = Asking /\ platform' = platform /\ match' = match
  BY <1>1 DEF Waits, applications, Approved, Asking
<1>2. ASSUME NEW w \in Workers, WorkerStep(w)
      PROVE  Waits \/ CommitCancel(w) \/ CommitDissolution(w)
  BY <1>2 DEF WorkerStep, Abort, BeginApply, ReadForApproval, LockForAssign, LockForDissolution, LockForApproval,
         SeatAway, ReadForCancel, LockForCancel, ReadAway, ListOthers, ChooseMatches, CancelAndWithdraw
<1>3. Cancelled.opponent = match.opponent
  BY DEF Cancelled, TypeOK, Match
<1>4. ASSUME NEW w \in Workers, CommitCancel(w)
      PROVE  Approved' = Approved /\ Asking' \subseteq Asking /\ platform' = platform /\ match' = Cancelled
  BY <1>4, <1>0, AnswerEffect DEF CommitCancel
<1>5. ASSUME NEW w \in Workers, CommitDissolution(w)
      PROVE  Approved' = Approved /\ Asking' \subseteq Asking /\ platform' = platform /\ match' \in {match, Cancelled}
  BY <1>5, LeaverAnswers DEF CommitDissolution
<1>6. ASSUME NEW t \in Teams, TeamStep(t)
      PROVE  Approved' = Approved /\ Asking' \subseteq Asking /\ platform' = platform /\ match' = match
  <2>1. CASE Withdraw(t) \/ Reject(t) \/ RejectByAdmin(t)
    BY <2>1, OneAnswer DEF Withdraw, Reject, RejectByAdmin
  <2>2. CASE Restore(t)
    BY <2>2 DEF Restore, applications, Approved, Asking
  <2> QED
    BY <1>6, <2>1, <2>2 DEF TeamStep
<1>7. ASSUME NEW plan \in Plans, Update(plan)
      PROVE  Approved' = Approved /\ Asking' \subseteq Asking /\ platform' = platform /\ match'.opponent = match.opponent
  <2>1. match'.opponent = match.opponent
    BY <1>7 DEF Update, TypeOK, Match
  <2> QED
    BY <1>7, <2>1, AnswerEffect DEF Update
<1>8. ASSUME Close \/ CancelByAdmin \/ Scan
      PROVE  Approved' = Approved /\ Asking' \subseteq Asking /\ platform' = platform /\ match' \in {Closed, Cancelled}
  BY <1>8, <1>0, AnswerEffect DEF Close, CancelByAdmin, Scan
<1>9. Closed.opponent = match.opponent
  BY DEF Closed, TypeOK, Match
<1>10. ASSUME \/ \E plan \in Plans : UpdateByAdmin(plan)
              \/ Remove \/ Reopen \/ ReopenByAdmin \/ CloseByAdmin \/ ArchiveByAdmin
              \/ StartGame \/ CancelGameOnly \/ SubmitResult \/ Tick
       PROVE  Approved' = Approved /\ Asking' \subseteq Asking /\ platform' = platform /\ match'.opponent = match.opponent
  <2>1. match'.opponent = match.opponent
    BY <1>10, <1>9 DEF UpdateByAdmin, Remove, Reopen, ReopenByAdmin, CloseByAdmin, ArchiveByAdmin, StartGame, CancelGameOnly,
           SubmitResult, Tick, TypeOK, Match
  <2>2. UNCHANGED <<platform, application>>
    BY <1>10 DEF UpdateByAdmin, Remove, Reopen, ReopenByAdmin, CloseByAdmin, ArchiveByAdmin, StartGame, CancelGameOnly,
           SubmitResult, Tick, applications
  <2> QED
    BY <2>1, <2>2 DEF Approved, Asking
<1> QED
  BY <1>1, <1>2, <1>3, <1>4, <1>5, <1>6, <1>7, <1>8, <1>9, <1>10 DEF Next, MatchStep

\* No team is made a host's opponent while it is being, or after it has been,
\* dissolved: the approval holds its key from before it reads it, see KeyHeld.
THEOREM OpponentIsActiveCorrect == Spec => OpponentIsActive
<1> DEFINE StaysActive == ~platform /\ match.opponent' # match.opponent
                          => team[match.opponent'] = "active" /\ team'[match.opponent'] = "active"
<1>1. ASSUME IInv, Next PROVE StaysActive
  <2> USE <1>1 DEF IInv
  <2>1. CASE \E w \in Workers : CommitApply(w)
    BY <2>1 DEF CommitApply
  <2>2. ASSUME NEW w \in Workers, CommitApproval(w) PROVE StaysActive
    <3>1. Fills(tx[w])
      BY <2>2 DEF CommitApproval, Fills
    <3>2. team[tx[w].team] = "active"
      BY <3>1 DEF Locks, KeyHeld
    <3>3. match'.opponent = tx[w].team /\ team' = team
      BY <2>2 DEF CommitApproval, TypeOK, Match
    <3> QED
      BY <3>2, <3>3
  <2>3. CASE \E w \in Workers : ApproveFirst(w) \/ CommitAssign(w)
    BY <2>3 DEF ApproveFirst, CommitAssign, Locks, MatchHeld
  <2> QED
    BY <2>1, <2>2, <2>3, Leaves
<1>2. IInv /\ [Next]_vars => [StaysActive]_vars
  BY <1>1
<1> QED
  BY <1>2, Invariance, PTL DEF Spec, OpponentIsActive

\* How many teams are seated.
LEMMA Counts ==
    /\ Cardinality({}) = 0
    /\ \A s : Cardinality({s}) = 1
    /\ \A s, t : s # t => Cardinality({s} \cup {t}) = 2
<1>1. Cardinality({}) = 0
  BY FS_EmptySet
<1>2. ASSUME NEW s PROVE IsFiniteSet({s}) /\ Cardinality({s}) = 1
  BY FS_Singleton
<1>3. ASSUME NEW s, NEW t, s # t PROVE Cardinality({s} \cup {t}) = 2
  <2>1. t \notin {s} /\ IsFiniteSet({s}) /\ Cardinality({s}) = 1
    BY <1>2, <1>3
  <2>2. Cardinality({s} \cup {t}) = Cardinality({s}) + 1
    BY <2>1, FS_AddElement
  <2> QED
    BY <2>1, <2>2
<1> QED
  BY <1>1, <1>2, <1>3

\* The instance counts as this module does.
LEMMA SameCount == \A S : Seats!Cardinality(S) = Cardinality(S)
  BY DEF Seats!Cardinality, Cardinality

\* A match to be had has a seat left.
LEMMA SeatLeft == ASSUME IInv, match.status = "recruiting" PROVE ~Seats!Full
<1>1. Approved = {} \/ (platform /\ Approved = {match.host})
  BY DEF IInv, Promises, OneOpponent, Seated, Open
<1>2. Cardinality({}) = 0 /\ Cardinality({match.host}) = 1
  BY Counts
<1>3. CASE Approved = {}
  BY <1>2, <1>3, SameCount DEF Seats!Full
<1>4. CASE platform /\ Approved = {match.host}
  BY <1>2, <1>4, SameCount DEF Seats!Full
<1> QED
  BY <1>1, <1>3, <1>4

LEMMA SeatsStep == ASSUME IInv, Next PROVE [Seats!Next]_Seats!vars
<1> USE DEF IInv
<1>1. ASSUME NEW w \in Workers, CommitApply(w) PROVE Seats!Next
  <2> DEFINE t == tx[w].team
  <2>1. t \in Teams
    BY <1>1, Kinds DEF CommitApply, ApplyRequest
  <2>2. /\ application' = [application EXCEPT ![t] = "requested"] /\ platform' = platform
        /\ match.status = "recruiting" /\ application[t] \notin {"requested", "approved"}
    BY <1>1 DEF CommitApply, JudgeAgain, Judge, JudgeTeam
  <2> HIDE DEF t
  <2>3. Asking' = Asking \cup {t} /\ Approved' = Approved /\ t \notin Approved
    BY <2>1, <2>2 DEF Asking, Approved, TypeOK
  <2>4. Seats!Ask(t)
    BY <2>2, <2>3, SeatLeft DEF Seats!Ask
  <2> QED
    BY <2>1, <2>4 DEF Seats!Next
<1>2. ASSUME NEW w \in Workers, ApproveFirst(w) PROVE Seats!Next
  <2> DEFINE t == tx[w].team
  <2>1. tx[w] \in AssignRequest /\ t \in Teams /\ tx[w].op = "assign"
    BY <1>2, Kinds DEF ApproveFirst, AssignRequest
  <2>2. platform /\ match.status = "recruiting"
    BY <2>1, HeldMatch DEF Holds, Cancels, Locks, MatchHeld
  <2>3. /\ platform' = platform /\ Approved = {}
        /\ application[t] = "requested" /\ application' = [application EXCEPT ![t] = "approved"]
    BY <1>2 DEF ApproveFirst, Pending
  <2> HIDE DEF t
  <2>4. Approved' = {t} /\ Asking' = Asking \ {t} /\ t \in Asking
    BY <2>1, <2>3 DEF TypeOK, Approved, Asking
  <2>5. Cardinality(Approved') = 1
    BY <2>4, Counts
  <2>6. Seats!Take(t)
    BY <2>2, <2>3, <2>4, <2>5, SeatLeft, SameCount DEF Seats!Take
  <2> QED
    BY <2>1, <2>6 DEF Seats!Next
<1>3. ASSUME NEW w \in Workers, CommitApproval(w) PROVE Seats!Next
  <2> DEFINE t == tx[w].team
  <2>1. tx[w] \in ApproveRequest /\ t \in Teams /\ Fills(tx[w]) /\ Holds(tx[w]) /\ ~Cancels(tx[w])
    BY <1>3, Kinds DEF CommitApproval, ApproveRequest, Fills, Holds, Cancels
  <2>2. match.status = "recruiting" /\ match.opponent = None
    BY <2>1, HeldMatch
  <2>3. /\ ~platform /\ platform' = platform
        /\ application[t] = "requested" /\ Seat(t, Asking)
    BY <1>3, <2>1 DEF CommitApproval, Locks, MatchHeld, WriterHolds
  <2> HIDE DEF t
  <2>4. Approved = {}
    BY <2>2, <2>3 DEF Promises, OneOpponent, Seated
  <2>5. Approved' = {t} /\ Asking' = {} /\ t \in Asking
    BY <2>1, <2>3, <2>4 DEF Seat, TypeOK, Approved, Asking
  <2>6. Cardinality(Approved') = 1
    BY <2>5, Counts
  <2>7. Seats!Take(t)
    BY <2>2, <2>3, <2>4, <2>5, <2>6, SeatLeft, SameCount DEF Seats!Take
  <2> QED
    BY <2>1, <2>7 DEF Seats!Next
<1>4. ASSUME NEW w \in Workers, CommitAssign(w) PROVE Seats!Next
  <2> DEFINE t == tx[w].team
  <2>1. tx[w] \in AssignRequest /\ t \in Teams /\ Lists(tx[w]) /\ Holds(tx[w]) /\ ~Cancels(tx[w])
    BY <1>4, Kinds DEF CommitAssign, AssignRequest, Lists, Holds, Cancels
  <2>2. /\ match.status = "recruiting"
        /\ platform /\ Approved = {match.host} /\ platform' = platform
    BY <1>4, <2>1, HeldMatch DEF CommitAssign, Lists, Locks, MatchHeld
  <2>3. /\ application[t] = "requested" /\ Asking \subseteq tx[w].seen \cup {t} /\ match.host \notin tx[w].seen
        /\ Seat(t, tx[w].seen)
    BY <1>4, <2>1 DEF CommitAssign, Locks, WriterHolds, ListComplete
  <2> HIDE DEF t
  <2>4. Approved' = {match.host} \cup {t} /\ Asking' = {} /\ t \in Asking /\ t # match.host
    BY <2>1, <2>2, <2>3 DEF Seat, TypeOK, Approved, Asking
  <2>5. Cardinality(Approved') = 2
    BY <2>4, Counts
  <2>6. Seats!Take(t)
    BY <2>2, <2>3, <2>4, <2>5, SeatLeft, SameCount DEF Seats!Take
  <2> QED
    BY <2>1, <2>6 DEF Seats!Next
<1>5. ASSUME Approved' = Approved, Asking' \subseteq Asking, platform' = platform PROVE Seats!Next
  BY <1>5 DEF Seats!Next, Seats!Leave
<1> QED
  BY <1>1, <1>2, <1>3, <1>4, <1>5, Leaves

\* Whatever the operations do at once, what the teams see is MatchSeats: one
\* seat taken at a time, none given twice or back, and no one left waiting for
\* a full match.
THEOREM ImplementsSeatsCorrect == Spec => ImplementsSeats
<1>1. Init => Seats!Init
  <2> SUFFICES ASSUME Init PROVE Seats!Init
    OBVIOUS
  <2>1. Asking = {} /\ Approved = {}
    BY DEF Init, Asking, Approved
  <2> QED
    BY <2>1 DEF Seats!Init
<1>2. IInv /\ [Next]_vars => [Seats!Next]_Seats!vars
  <2>1. ASSUME UNCHANGED vars PROVE UNCHANGED Seats!vars
    BY <2>1 DEF vars, applications, Seats!vars, Asking, Approved
  <2> QED
    BY <2>1, SeatsStep
<1> QED
  BY <1>1, <1>2, Invariance, PTL DEF Spec, ImplementsSeats, Seats!Spec
=============================================================================
