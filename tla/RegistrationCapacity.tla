----------------------- MODULE RegistrationCapacity -----------------------
(***************************************************************************)
(* The registrations of teams in one tournament or regular league, the     *)
(* places they hold and their seats in the bracket                         *)
(* (tournament-registrations.service.ts, admin-registrations.service.ts,   *)
(* registration-capacity.ts, tournament-slot.service.ts and, for leagues,  *)
(* league-team-admission.ts and league-match-admin.service.ts of           *)
(* apps/v1_api/src).                                                       *)
(*                                                                         *)
(* Whatever takes a place locks the tournament's row, counts the places    *)
(* that are held and writes; a bracket change takes the bracket's lock,    *)
(* which is another one in tournaments and the same row in leagues.  The   *)
(* requests of a team that give a place back read the registration and     *)
(* write it later with no lock at all.  A write and its commit are one     *)
(* step, since nothing reads what is not committed.                        *)
(***************************************************************************)
EXTENDS Naturals, FiniteSets

CONSTANTS Teams,
          Workers,        \* requests in flight
          Limits,         \* teamCount or maxTeams: the limits operators choose
          LeagueMinimum   \* teams a removal leaves in a league (2 in the code)

ASSUME TeamsAssumption == IsFiniteSet(Teams)
ASSUME LimitsAssumption == Limits \subseteq Nat
ASSUME MinimumAssumption == LeagueMinimum \in Nat

VARIABLES
    kind,      \* regular tournament or regular league
    phase,     \* status of the tournament; "closed" also stands for draft and in_progress
    limit,     \* capacityLimitOf; no limit is one that no count reaches
    reg,       \* each team's row: its status and cancelPreviousStatus
    unpaid,    \* registrations with a payment that is ready; the others have none, a paid or a cancelled one
    placed,    \* teams that have a seat in the bracket of which no fixture has started
    tx         \* the request each worker serves

vars == <<kind, phase, limit, reg, unpaid, placed, tx>>
tournament == <<kind, phase, limit>>

Pending == {"awaiting_payment", "payment_checking", "paid"}
\* CAPACITY_HOLD_STATUSES
Hold == Pending \cup {"confirmed"}
\* CANCELLABLE_VIA_REQUEST, and ADMIN_CANCELLABLE_STATUSES
Cancellable == Hold \cup {"waitlisted"}
AdminCancellable == Cancellable \cup {"cancel_requested"}
\* ADMIN_CONFIRMABLE_STATUSES
Confirmable == {"payment_checking", "paid", "waitlisted"}
Statuses == AdminCancellable \cup {"none", "draft", "cancelled"}
Row == [status : Statuses, prev : Cancellable \cup {"none"}]

\* The requests that write only the version of the row they have read.
Checked == {"confirm_payment", "confirm", "waitlist", "withdraw", "reject"}
RowOps == Checked \cup {"submit", "add", "remove"}

Idle == [op |-> "idle"]
JudgedRequest == [op : {"create", "submit", "cancel"}, stage : {"judged"}, team : Teams,
                  seen : Statuses, was : BOOLEAN]
AskRequest == [op : {"request_cancel"}, stage : {"judged"}, team : Teams,
               seen : Cancellable \cup {"draft"}, was : BOOLEAN]
LockedRequest == [op : {"submit", "add", "assign"} \cup Checked, stage : {"locked"}, team : Teams, fresh : BOOLEAN]
RemoveRequest == [op : {"remove"}, stage : {"locked"}, team : Teams, frees : BOOLEAN]
CancelRequest == [op : {"cancel"}, stage : {"locked"}, team : Teams, seen : Statuses, frees : BOOLEAN]
Requests == {Idle} \cup JudgedRequest \cup AskRequest \cup LockedRequest \cup RemoveRequest \cup CancelRequest

TypeOK ==
    /\ kind \in {"tournament", "league"}
    /\ phase \in {"open", "closed", "completed", "cancelled"}
    /\ limit \in Limits
    /\ reg \in [Teams -> Row]
    /\ unpaid \in SUBSET Teams
    /\ placed \in SUBSET Teams
    /\ tx \in [Workers -> Requests]

Init ==
    /\ kind \in {"tournament", "league"}
    /\ phase = "open"
    /\ limit \in Limits
    /\ reg = [t \in Teams |-> [status |-> "none", prev |-> "none"]]
    /\ unpaid = {}
    /\ placed = {}
    /\ tx = [w \in Workers |-> Idle]

-----------------------------------------------------------------------------
(* The two locks.                                                          *)

\* The bracket's lane on its own, whatever the competition.
LockByLane(op) == IF op \in RowOps THEN "row" ELSE "bracket"
\* lockCompetitionForSlotReleaseInTx: the row in a league, an advisory lock
\* of the bracket in a tournament.
LockOf(op) == IF op \in RowOps \/ kind = "league" THEN "row" ELSE "bracket"
Holders(lock) == {w \in Workers : tx[w] # Idle /\ tx[w].stage = "locked" /\ LockOf(tx[w].op) = lock}
\* A confirmation that does not wait for the row.
FreeToConfirm(op) == op = "confirm" \/ Holders(LockOf(op)) = {}
Free(op) == Holders(LockOf(op)) = {}

\* countCapacityReservations and isCapacityFull
Reserved == {t \in Teams : reg[t].status \in Hold}
Full(holders) == Cardinality(holders) >= limit
\* The row of a cancel request that is taken back.
Restored(t, default) == IF reg[t].prev = "none" THEN default ELSE reg[t].prev

Locked(w, op, t) ==
    /\ tx[w] = Idle
    /\ Free(op)
    /\ tx' = [tx EXCEPT ![w] = [op |-> op, stage |-> "locked", team |-> t, fresh |-> TRUE]]
    /\ UNCHANGED <<tournament, reg, unpaid, placed>>

\* The request of w writes the row of t: its updatedAt moves.
Write(w, t, row) ==
    /\ reg' = [reg EXCEPT ![t] = row]
    /\ tx' = [x \in Workers |->
                IF x = w THEN Idle
                ELSE IF tx[x].op \in Checked /\ tx[x].team = t THEN [tx[x] EXCEPT !.fresh = FALSE]
                ELSE tx[x]]

Done(w) == tx' = [tx EXCEPT ![w] = Idle]
In(w, op, stage) == tx[w].op = op /\ tx[w].stage = stage

-----------------------------------------------------------------------------
(* The team's requests.                                                    *)

Judged(w, op, t) ==
    /\ tx[w] = Idle
    /\ tx' = [tx EXCEPT ![w] = [op |-> op, stage |-> "judged", team |-> t, seen |-> reg[t].status,
                                was |-> "confirmed" = (IF reg[t].status = "cancel_requested" THEN reg[t].prev
                                                       ELSE reg[t].status)]]
    /\ UNCHANGED <<tournament, reg, unpaid, placed>>

Create(w, t) ==
    /\ phase = "open"
    /\ reg[t].status \in {"none", "cancelled"}
    /\ ~Full(Reserved)
    /\ Judged(w, "create", t)

\* A row that another request made first is returned as it is; the row of a
\* cancelled registration is revived whatever it has become.  Only a new row
\* waits for the tournament's, to which its foreign key refers.
CommitCreate(w) ==
    /\ In(w, "create", "judged")
    /\ tx[w].seen = "none" => Free("submit")
    /\ LET t == tx[w].team IN
        IF tx[w].seen = "none" /\ reg[t].status # "none"
            THEN Done(w) /\ UNCHANGED reg
            ELSE Write(w, t, [status |-> "draft", prev |-> "none"])
    /\ UNCHANGED <<tournament, unpaid, placed>>

Submit(w, t) ==
    /\ phase = "open"
    /\ reg[t].status = "draft"
    /\ Judged(w, "submit", t)

\* The tournament is read again under its lock, the registration is not.
LockSubmit(w) ==
    /\ In(w, "submit", "judged")
    /\ Free("submit")
    /\ phase = "open"
    /\ ~Full(Reserved)
    /\ tx' = [tx EXCEPT ![w] = [op |-> "submit", stage |-> "locked", team |-> tx[w].team, fresh |-> TRUE]]
    /\ UNCHANGED <<tournament, reg, unpaid, placed>>

\* Where there is no entry fee nothing is left to pay.
CommitSubmit(w) ==
    /\ In(w, "submit", "locked")
    /\ \E fee \in BOOLEAN :
        /\ Write(w, tx[w].team, [status |-> IF fee THEN "awaiting_payment" ELSE "payment_checking",
                                 prev |-> "none"])
        /\ unpaid' = IF fee THEN unpaid \cup {tx[w].team} ELSE unpaid \ {tx[w].team}
    /\ UNCHANGED <<tournament, placed>>

RequestCancel(w, t) ==
    /\ phase \notin {"completed", "cancelled"}
    /\ reg[t].status \in Cancellable \cup {"draft"}
    /\ Judged(w, "request_cancel", t)

CommitRequestCancel(w) ==
    /\ In(w, "request_cancel", "judged")
    /\ Write(w, tx[w].team, IF tx[w].seen = "draft" THEN [status |-> "cancelled", prev |-> "none"]
                            ELSE [status |-> "cancel_requested", prev |-> tx[w].seen])
    /\ UNCHANGED <<tournament, unpaid, placed>>

\* withdrawCancelRequest, and rejectCancelRequest of the operator
HasRoom(t, status) == status \in Hold => ~Full(Reserved \ {t})

Withdraw(w, t) ==
    /\ reg[t].status = "cancel_requested"
    /\ phase # "cancelled"
    /\ HasRoom(t, Restored(t, "awaiting_payment"))
    /\ Locked(w, "withdraw", t)

RejectCancel(w, t) ==
    /\ reg[t].status = "cancel_requested"
    /\ HasRoom(t, Restored(t, "confirmed"))
    /\ Locked(w, "reject", t)

-----------------------------------------------------------------------------
(* The operator's requests.                                                *)

ConfirmPayment(w, t) ==
    /\ reg[t].status = "awaiting_payment"
    /\ t \in unpaid
    /\ Locked(w, "confirm_payment", t)

Confirm(w, t) ==
    /\ reg[t].status \in Confirmable
    /\ ~Full(Reserved \ {t})
    /\ Locked(w, "confirm", t)

Waitlist(w, t) ==
    /\ reg[t].status \in Confirmable \ {"waitlisted"}
    /\ Locked(w, "waitlist", t)

AnyVersion(w) == TRUE
\* The row carries the updatedAt that was read under the lock.
Unmoved(w) == tx[w].fresh

\* What a checked request writes, when the row is still the one it read.
Decided(op, t) ==
    CASE op = "confirm_payment" -> [reg[t] EXCEPT !.status = "payment_checking"]
      [] op = "confirm" -> [reg[t] EXCEPT !.status = "confirmed"]
      [] op = "waitlist" -> [reg[t] EXCEPT !.status = "waitlisted"]
      [] op = "withdraw" -> [status |-> Restored(t, "awaiting_payment"), prev |-> "none"]
      [] op = "reject" -> [status |-> Restored(t, "confirmed"), prev |-> "none"]

CommitDecision(w) ==
    /\ tx[w].op \in Checked
    /\ Unmoved(w)
    /\ Write(w, tx[w].team, Decided(tx[w].op, tx[w].team))
    /\ unpaid' = IF tx[w].op = "confirm_payment" THEN unpaid \ {tx[w].team} ELSE unpaid
    /\ UNCHANGED <<tournament, placed>>

Cancel(w, t) ==
    /\ reg[t].status \in AdminCancellable
    /\ Judged(w, "cancel", t)

\* A team judged confirmed leaves the bracket first.
LockCancel(w) ==
    /\ In(w, "cancel", "judged")
    /\ tx[w].was
    /\ Free("cancel")
    /\ tx' = [tx EXCEPT ![w] = [op |-> "cancel", stage |-> "locked", team |-> tx[w].team,
                                seen |-> tx[w].seen, frees |-> tx[w].team \in placed]]
    /\ UNCHANGED <<tournament, reg, unpaid, placed>>

CommitCancel(w) ==
    /\ tx[w].op = "cancel"
    /\ tx[w].stage = "judged" => ~tx[w].was
    /\ reg[tx[w].team].status = tx[w].seen
    /\ LET t == tx[w].team IN
        /\ Write(w, t, [status |-> "cancelled", prev |-> "none"])
        /\ unpaid' = unpaid \ {t}
        /\ placed' = IF tx[w].stage = "locked" /\ tx[w].frees THEN placed \ {t} ELSE placed
    /\ UNCHANGED tournament

-----------------------------------------------------------------------------
(* Teams a league's operator adds or removes, and the bracket.             *)

\* createLeagueRosterRegistration
Add(w, t) ==
    /\ kind = "league"
    /\ reg[t].status \in {"none", "draft", "cancelled"}
    /\ ~Full(Reserved \ {t})
    /\ Locked(w, "add", t)

CommitAdd(w) ==
    /\ In(w, "add", "locked")
    /\ Write(w, tx[w].team, [reg[tx[w].team] EXCEPT !.status = "confirmed"])
    /\ UNCHANGED <<tournament, unpaid, placed>>

Remove(w, t) ==
    /\ kind = "league"
    /\ tx[w] = Idle
    /\ Free("remove")
    /\ reg[t].status = "confirmed"
    /\ Cardinality({s \in Teams \ {t} : reg[s].status = "confirmed"}) >= LeagueMinimum
    /\ tx' = [tx EXCEPT ![w] = [op |-> "remove", stage |-> "locked", team |-> t, frees |-> t \in placed]]
    /\ UNCHANGED <<tournament, reg, unpaid, placed>>

CommitRemove(w) ==
    /\ In(w, "remove", "locked")
    /\ LET t == tx[w].team IN
        /\ IF reg[t].status = "confirmed"
            THEN Write(w, t, [status |-> "cancelled", prev |-> "confirmed"])
            ELSE Done(w) /\ UNCHANGED reg
        /\ placed' = IF tx[w].frees THEN placed \ {t} ELSE placed
    /\ UNCHANGED <<tournament, unpaid>>

\* assignSlot puts a confirmed team in a seat, or empties one.
Assign(w, t) ==
    /\ reg[t].status = "confirmed"
    /\ t \notin placed
    /\ Locked(w, "assign", t)

CommitAssign(w) ==
    /\ In(w, "assign", "locked")
    /\ placed' = placed \cup {tx[w].team}
    /\ Done(w)
    /\ UNCHANGED <<tournament, reg, unpaid>>

Vacate(t) ==
    /\ Free("assign")
    /\ t \in placed
    /\ placed' = placed \ {t}
    /\ UNCHANGED <<tournament, reg, unpaid, tx>>

\* A fixture starts, and the seats it uses are not given back any more.  The
\* game it starts takes neither of the locks.
StartFixture(t) ==
    /\ t \in placed
    /\ placed' = placed \ {t}
    /\ UNCHANGED <<tournament, reg, unpaid, tx>>

-----------------------------------------------------------------------------
(* The tournament itself.                                                  *)

\* TOURNAMENT_TRANSITIONS; a league keeps the status it has.
Successors(p) ==
    CASE p = "open" -> {"closed", "cancelled"}
      [] p = "closed" -> {"open", "completed", "cancelled"}
      [] OTHER -> {"closed"}

\* changeStatus, under both locks
ChangeStatus ==
    /\ kind = "tournament"
    /\ Free("submit") /\ Free("assign")
    /\ phase' \in Successors(phase)
    /\ UNCHANGED <<kind, limit, reg, unpaid, placed, tx>>

\* update: a tournament's limit may go below the places that are held.
EditLimit ==
    /\ kind = "tournament"
    /\ Free("submit")
    /\ limit' \in Limits
    /\ UNCHANGED <<kind, phase, reg, unpaid, placed, tx>>

\* updateLeagueSettings: a league's may not.
EditLeagueLimit ==
    /\ kind = "league"
    /\ phase \notin {"completed", "cancelled"}
    /\ Free("submit")
    /\ limit' \in Limits
    /\ Cardinality(Reserved) <= limit'
    /\ UNCHANGED <<kind, phase, reg, unpaid, placed, tx>>

\* A check under the lock fails, the version has moved, or the transaction
\* is rolled back.
Abort(w) ==
    /\ tx[w] # Idle
    /\ Done(w)
    /\ UNCHANGED <<tournament, reg, unpaid, placed>>

Begin(w, t) ==
    \/ Create(w, t) \/ Submit(w, t) \/ RequestCancel(w, t) \/ Withdraw(w, t) \/ RejectCancel(w, t)
    \/ ConfirmPayment(w, t) \/ Confirm(w, t) \/ Waitlist(w, t) \/ Cancel(w, t)
    \/ Add(w, t) \/ Remove(w, t) \/ Assign(w, t)
Commit(w) ==
    \/ CommitCreate(w) \/ CommitSubmit(w) \/ CommitRequestCancel(w) \/ CommitDecision(w)
    \/ CommitCancel(w) \/ CommitAdd(w) \/ CommitRemove(w) \/ CommitAssign(w)

Next ==
    \/ \E w \in Workers, t \in Teams : Begin(w, t)
    \/ \E w \in Workers : LockSubmit(w) \/ LockCancel(w) \/ Commit(w) \/ Abort(w)
    \/ \E t \in Teams : Vacate(t) \/ StartFixture(t)
    \/ ChangeStatus
    \/ EditLimit \/ EditLeagueLimit

Spec == Init /\ [][Next]_vars

-----------------------------------------------------------------------------
(* Properties.                                                             *)

\* A step that gives a team a place leaves no more teams with a place than
\* the limit, whoever else applies, is confirmed, is added or takes a
\* cancellation back at the same moment; only the operator's own edit of a
\* tournament's limit may leave more (registration-capacity.ts:33, "R17-005").
NeverOverbooked == [][~(Reserved' \subseteq Reserved) => Cardinality(Reserved') <= limit']_vars

\* A decision made on a registration never undoes a cancellation that came
\* between its reading and its writing: a cancelled team comes back by its
\* own request or by the league's operator adding it
\* (admin-registrations.service.ts:140).
CancellationStands ==
    [][\A w \in Workers : tx[w].op \in Checked /\ tx'[w] = Idle /\ reg[tx[w].team].status = "cancelled" =>
            reg'[tx[w].team] = reg[tx[w].team]]_vars

\* A cancellation or removal that took the team for a confirmed one leaves
\* it no seat but those of fixtures that have started, although seats are
\* given by requests that do not lock the registration and fixtures start
\* under neither lock (admin-registrations.service.ts:364,
\* tournament-slot.service.ts:255-257, 266, 282).
OutOfTheBracket ==
    [][\A w \in Workers : tx[w].op \in {"cancel", "remove"} =>
        LET t == tx[w].team IN
            tx[w].stage = "locked" /\ tx'[w] = Idle /\ reg[t].status # "cancelled" /\ reg'[t].status = "cancelled"
                => t \notin placed']_vars
=============================================================================
