----------------------------- MODULE GameConsole -----------------------------
(***************************************************************************)
(* Several consoles operate one game at once.  A request carries the id    *)
(* its client chose and the version of the game its client had seen; the   *)
(* client may deliver it again, and replies may be lost.  The server takes *)
(* a request in two steps, as withCommand and retryEvent of                *)
(* games/games.service.ts do:                                              *)
(*   - a Serializable transaction begins, whose snapshot is taken by the   *)
(*     statement that then waits for the game's row lock;                  *)
(*   - the lock is granted and the rest of the transaction runs.  If the   *)
(*     row was updated since the snapshot, PostgreSQL fails the lock       *)
(*     (40001).  A row that was only locked, as cancelFixture's            *)
(*     Read Committed transaction does, fails nothing, and the snapshot    *)
(*     keeps showing the fixture as it was.                                *)
(* What the commands do to the game is LiveGame's.                         *)
(***************************************************************************)
EXTENDS LiveGame

CONSTANTS Ids,       \* client command ids and client event ids
          Handlers,  \* transactions of the API servers
          None,      \* no transaction, no reply
          Commands   \* the commands clients send in this instance

AllCommands == {"start", "pause", "resume", "end", "cancel", "next-period", "end-period",
                "start-period", "revert-period", "append", "reverse", "submit"}

ASSUME CommandsAssumption == Commands \subseteq AllCommands

VARIABLES
    version,      \* V1Game.version
    sent,         \* the request of each id, or none
    tx,           \* the transaction of each handler
    recorded,     \* ids with a V1IdempotencyRecord
    reply,        \* the last answer the server gave, and to which id
    appliedAt     \* history: the version an id's command was applied to

consoleVars == <<version, sent, tx, recorded, reply, appliedAt>>
allVars == <<vars, consoleVars>>

NotApplied == -1
NoRequest == [cmd |-> "none", expected |-> 0]
Request == [cmd : Commands \cup {"none"}, expected : Nat]
Tx == [id : Ids, retry : BOOLEAN, expected : Nat, version : Nat,
       fixture : {"matched", "completed", "cancelled"}]
Answers == {"ok", "raced", "stale", "refused"}

ConsoleTypeOK ==
    /\ TypeOK
    /\ version \in Nat
    /\ sent \in [Ids -> Request]
    /\ tx \in [Handlers -> Tx \cup {None}]
    /\ recorded \in SUBSET Ids
    /\ reply \in [to : Ids, answer : Answers] \cup {None}
    /\ appliedAt \in [Ids -> Nat \cup {NotApplied}]

ConsoleInit ==
    /\ Init
    /\ version = 0
    /\ sent = [i \in Ids |-> NoRequest]
    /\ tx = [h \in Handlers |-> None]
    /\ recorded = {}
    /\ reply = None
    /\ appliedAt = [i \in Ids |-> NotApplied]

-----------------------------------------------------------------------------
(* The client. *)

\* A client makes up a request on the game as it sees it; the request may
\* reach the server at any later time.
Send(i, cmd) ==
    /\ sent[i] = NoRequest
    /\ sent' = [sent EXCEPT ![i] = [cmd |-> cmd, expected |-> version]]
    /\ UNCHANGED <<vars, version, tx, recorded, reply, appliedAt>>

-----------------------------------------------------------------------------
(* The server. *)

\* A delivery of the request of i, the first or a repeated one, begins its
\* transaction.
Begin(h, i) ==
    /\ tx[h] = None
    /\ sent[i] # NoRequest
    /\ tx' = [tx EXCEPT ![h] = [id |-> i, retry |-> FALSE, expected |-> sent[i].expected,
                                version |-> version, fixture |-> fixture]]
    /\ UNCHANGED <<vars, version, sent, recorded, reply, appliedAt>>

\* An event is delivered again rebased on a newer version (retryEvent), under
\* the same client event id.
BeginRetry(h, i, rebased) ==
    /\ tx[h] = None
    /\ sent[i].cmd = "append"
    /\ tx' = [tx EXCEPT ![h] = [id |-> i, retry |-> TRUE, expected |-> rebased,
                                version |-> version, fixture |-> fixture]]
    /\ UNCHANGED <<vars, version, sent, recorded, reply, appliedAt>>

Busy(h) == tx[h] # None

\* The row lock fails: the game was updated after the snapshot.
OutOfDate(h) == tx[h].version # version

\* The lookup of the idempotency record, in the scope of actor and action.
NeverRecorded(i) == FALSE
Recorded(i) == i \in recorded

\* The handler answers; the reply may be lost on its way.
Reply(h, a) ==
    /\ tx' = [tx EXCEPT ![h] = None]
    /\ reply' = [to |-> tx[h].id, answer |-> a]

\* COMMAND_CONCURRENCY_CONFLICT
Raced(h) ==
    /\ Busy(h) /\ OutOfDate(h)
    /\ Reply(h, "raced")
    /\ UNCHANGED <<vars, version, sent, recorded, appliedAt>>

\* A request that was recorded is answered with the stored response.
Replay(h) ==
    /\ Busy(h) /\ ~OutOfDate(h)
    /\ Recorded(tx[h].id)
    /\ Reply(h, "ok")
    /\ UNCHANGED <<vars, version, sent, recorded, appliedAt>>

\* VERSION_CONFLICT, or OFFLINE_EVENT_REBASE_CONFLICT for a retry.
StaleBeforeReplay(h) ==
    /\ Busy(h) /\ ~OutOfDate(h)
    /\ tx[h].expected # version
    /\ Reply(h, "stale")
    /\ UNCHANGED <<vars, version, sent, recorded, appliedAt>>
Stale(h) ==
    /\ Busy(h) /\ ~OutOfDate(h)
    /\ ~Recorded(tx[h].id)
    /\ tx[h].expected # version
    /\ Reply(h, "stale")
    /\ UNCHANGED <<vars, version, sent, recorded, appliedAt>>

\* A check of the command refuses it.  Which checks there are (roles,
\* lineups, payloads, besides the state of the game) is left open, so any
\* request may be refused.
RefuseRecorded(h) ==
    /\ Busy(h) /\ ~OutOfDate(h)
    /\ ~Recorded(tx[h].id)
    /\ tx[h].expected = version
    /\ Reply(h, "refused")
    /\ recorded' = recorded \cup {tx[h].id}
    /\ UNCHANGED <<vars, version, sent, appliedAt>>
Refuse(h) ==
    /\ Busy(h) /\ ~OutOfDate(h)
    /\ ~Recorded(tx[h].id)
    /\ tx[h].expected = version
    /\ Reply(h, "refused")
    /\ UNCHANGED <<vars, version, sent, recorded, appliedAt>>

\* What a command does, where the fixture read is f.
Perform(cmd, retry, f) ==
    \/ cmd = "start" /\ Start(f)
    \/ cmd = "pause" /\ Pause
    \/ cmd = "resume" /\ Resume
    \/ cmd = "end" /\ (End(f) \/ CloseCancelled(f))
    \/ cmd = "cancel" /\ Cancel
    \/ cmd = "next-period" /\ NextPeriod
    \/ cmd = "end-period" /\ EndPeriod
    \/ cmd = "start-period" /\ StartPeriod
    \/ cmd = "revert-period" /\ RevertPeriod
    \/ cmd = "append" /\ ~retry /\ \E n \in Periods : AppendEvent(n)
    \/ cmd = "append" /\ retry /\ \E n \in Periods : RetryEvent(n)
    \/ cmd = "reverse" /\ \E e \in DOMAIN events : ReverseEvent(e)
    \/ cmd = "submit" /\ SubmitResult(f)

\* Every command increments the version of the game.
VersionAfterUnlessCancel(cmd) == IF cmd = "cancel" THEN version ELSE version + 1
VersionAfter(cmd) == version + 1

\* What lets a transaction commit what it does: its game is the one of its
\* snapshot, its client has seen that version, and a fixture it writes is the
\* one of its snapshot.
DecidedOnSnapshot(h) == tx[h].expected = tx[h].version
Serializable(h) ==
    /\ ~OutOfDate(h)
    /\ tx[h].expected = version
    /\ fixture' # fixture => tx[h].fixture = fixture

\* The command is performed; the record of the id is stored, and the version
\* incremented, in the same transaction.
Apply(h) ==
    LET t == tx[h]
        cmd == sent[t.id].cmd
    IN  /\ Busy(h)
        /\ ~Recorded(t.id)
        /\ Perform(cmd, t.retry, t.fixture)
        /\ Serializable(h)
        /\ version' = VersionAfter(cmd)
        /\ recorded' = recorded \cup {t.id}
        /\ appliedAt' = [appliedAt EXCEPT ![t.id] = version]
        /\ Reply(h, "ok")
        /\ UNCHANGED sent

\* A process of the API dies, or the connection to the database breaks: the
\* transaction is rolled back and nobody is answered.
Abort(h) ==
    /\ Busy(h)
    /\ tx' = [tx EXCEPT ![h] = None]
    /\ UNCHANGED <<vars, version, sent, recorded, reply, appliedAt>>

\* The administrator cancels the fixture; the game and its version stay.
AdminCancelsFixture == CancelFixture /\ UNCHANGED consoleVars

\* The worker ends a period whose clock ran out, as a command of its own.
WorkerExpiresClock ==
    /\ ClockExpire
    /\ version' = version + 1
    /\ UNCHANGED <<sent, tx, recorded, reply, appliedAt>>

Time == Tick /\ UNCHANGED consoleVars

ConsoleNext ==
    \/ \E i \in Ids, cmd \in Commands : Send(i, cmd)
    \/ \E h \in Handlers, i \in Ids : Begin(h, i) \/ \E seen \in 0..version : BeginRetry(h, i, seen)
    \/ \E h \in Handlers : Raced(h) \/ Replay(h) \/ Stale(h) \/ Refuse(h) \/ Apply(h) \/ Abort(h)
    \/ AdminCancelsFixture \/ WorkerExpiresClock \/ Time

ConsoleSpec == ConsoleInit /\ [][ConsoleNext]_allVars

-----------------------------------------------------------------------------
(* Properties. *)

\* The client is told a command succeeded only if it did, replayed answers
\* included.
OkMeansApplied ==
    reply # None /\ reply.answer = "ok" => appliedAt[reply.to] # NotApplied

\* Two commands decided on the same state of the game never both apply.
OneWinnerPerVersion ==
    \A i, j \in Ids : appliedAt[i] # NotApplied /\ appliedAt[i] = appliedAt[j] => i = j

\* A command is applied once, however often it is delivered and whatever
\* version it is rebased on.
AppliedOnce ==
    [][\A i \in Ids : appliedAt[i] # NotApplied => appliedAt'[i] = appliedAt[i]]_allVars

\* Once a command is applied, a repeated delivery is not told that it failed:
\* at most that another command won the race, after which it asks again.  The
\* record is looked up before the version is compared.
AppliedIsNeverRefused ==
    [][reply' # reply /\ appliedAt[reply'.to] # NotApplied =>
          reply'.answer \in {"ok", "raced"}]_allVars

\* A cancelled fixture never gets a result, nor becomes a completed one,
\* although its game can be running in the console: the way from cancelled to
\* completed to an automatic confirmation that the comments of the end
\* command describe (finding 29 C-1 of the repository).
CancelledFixtureGetsNoResult ==
    [][fixture = "cancelled" => UNCHANGED <<fixture, submitted>>]_allVars

\* A start that read the fixture before it was cancelled.
StartFromOldFixture ==
    fixture = "cancelled" /\ \E f \in {"matched", "completed"} : Start(f)

\* Whatever overlaps, the consoles, the worker and the administrator do to the
\* game only what commands that run one after the other could do to it, save
\* for a start that read the fixture before it was cancelled.
SerialGame ==
    Init /\ [][UNCHANGED vars \/ Next \/ StartFromOldFixture]_allVars
=============================================================================
