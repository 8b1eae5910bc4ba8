-------------------------- MODULE GameConsoleProofs --------------------------
(***************************************************************************)
(* Proofs about GameConsole, for any number of requests, of transactions   *)
(* and of consoles.                                                        *)
(***************************************************************************)
EXTENDS GameConsole, LiveGameProofs

\* A command is recorded with what it does to the game, at a version that
\* passes with it; only what is recorded is answered as done.
RecordInv ==
    /\ \A i \in Ids : i \in recorded <=> appliedAt[i] # NotApplied
    /\ \A i \in Ids : appliedAt[i] < version
    /\ reply # None /\ reply.answer = "ok" => reply.to \in recorded

ConsoleInv == ConsoleTypeOK /\ RecordInv

-----------------------------------------------------------------------------
(* The transaction of a handler. *)

LEMMA BusyTx == ASSUME ConsoleTypeOK, NEW h \in Handlers, Busy(h) PROVE
    /\ tx[h] \in Tx
    /\ tx[h].id \in Ids /\ tx[h].fixture \in Fixtures
BY DEF ConsoleTypeOK, Busy, Tx, Fixtures

LEMMA PerformIsGameStep == ASSUME NEW cmd, NEW retry, NEW f \in Fixtures, Perform(cmd, retry, f)
                           PROVE GameStep
BY DEF Perform, GameStep

LEMMA ReplyType == ASSUME ConsoleTypeOK, NEW h \in Handlers, Busy(h), NEW a \in Answers, Reply(h, a)
                   PROVE /\ tx' \in [Handlers -> Tx \cup {None}]
                         /\ reply' = [to |-> tx[h].id, answer |-> a]
                         /\ reply' \in [to : Ids, answer : Answers]
<1>1. tx[h].id \in Ids
  BY BusyTx
<1> QED
  BY <1>1 DEF ConsoleTypeOK, Reply

\* What a step does that leaves the game and the records alone.
LEMMA NoEffect == ASSUME ConsoleInv, UNCHANGED <<vars, version, recorded, appliedAt>>,
                         sent' \in [Ids -> Request], tx' \in [Handlers -> Tx \cup {None}],
                         \/ UNCHANGED reply
                         \/ \E i \in Ids, a \in Answers :
                               /\ reply' = [to |-> i, answer |-> a]
                               /\ a = "ok" => i \in recorded
                  PROVE ConsoleInv'
<1>1. TypeOK'
  BY TypeStep DEF ConsoleInv, ConsoleTypeOK
<1>2. reply' \in [to : Ids, answer : Answers] \cup {None}
  BY DEF ConsoleInv, ConsoleTypeOK
<1>3. ConsoleTypeOK'
  BY <1>1, <1>2 DEF ConsoleInv, ConsoleTypeOK
<1>4. RecordInv'
  BY DEF ConsoleInv, RecordInv
<1> QED
  BY <1>3, <1>4 DEF ConsoleInv

LEMMA ApplyStep == ASSUME ConsoleInv, NEW h \in Handlers, Apply(h) PROVE
    /\ ConsoleInv'
    /\ tx[h].id \in Ids /\ tx[h].id \notin recorded
    /\ appliedAt' = [appliedAt EXCEPT ![tx[h].id] = version]
    /\ reply' = [to |-> tx[h].id, answer |-> "ok"]
<1> DEFINE i == tx[h].id
<1>1. i \in Ids /\ tx[h].fixture \in Fixtures /\ i \notin recorded
  BY BusyTx DEF ConsoleInv, Apply, Recorded
<1>2. TypeOK'
  <2>1. GameStep
    BY <1>1, PerformIsGameStep DEF Apply
  <2> QED BY <2>1, TypeStep DEF ConsoleInv, ConsoleTypeOK
<1>3. /\ version \in Nat /\ version' = version + 1
      /\ recorded' = recorded \cup {i} /\ recorded \in SUBSET Ids
      /\ appliedAt \in [Ids -> Nat \cup {NotApplied}]
      /\ appliedAt' = [appliedAt EXCEPT ![i] = version]
      /\ UNCHANGED sent
  BY DEF Apply, VersionAfter, ConsoleInv, ConsoleTypeOK
<1>4. /\ tx' \in [Handlers -> Tx \cup {None}]
      /\ reply' = [to |-> i, answer |-> "ok"] /\ reply' \in [to : Ids, answer : Answers]
  <2>1. "ok" \in Answers /\ Busy(h) /\ Reply(h, "ok")
    BY DEF Answers, Apply
  <2> QED BY <2>1, ReplyType DEF ConsoleInv
<1>5. ConsoleTypeOK'
  BY <1>1, <1>2, <1>3, <1>4 DEF ConsoleInv, ConsoleTypeOK
<1>6. RecordInv'
  <2>1. \A j \in Ids : j \in recorded' <=> appliedAt'[j] # NotApplied
    BY <1>1, <1>3 DEF ConsoleInv, RecordInv, NotApplied
  <2>2. \A j \in Ids : appliedAt'[j] < version'
    BY <1>1, <1>3 DEF ConsoleInv, RecordInv, NotApplied
  <2>3. reply'.to \in recorded'
    BY <1>3, <1>4
  <2> QED BY <2>1, <2>2, <2>3 DEF RecordInv
<1> QED
  BY <1>1, <1>3, <1>4, <1>5, <1>6 DEF ConsoleInv

-----------------------------------------------------------------------------
(* The invariant. *)

\* The steps that answer without an effect.
Answered(h) == Raced(h) \/ Replay(h) \/ Stale(h) \/ Refuse(h)

LEMMA AnsweredStep == ASSUME ConsoleInv, NEW h \in Handlers, Answered(h) PROVE
    /\ ConsoleInv'
    /\ UNCHANGED <<vars, version, recorded, appliedAt>>
    /\ \E a \in Answers : /\ reply' = [to |-> tx[h].id, answer |-> a]
                          /\ tx[h].id \in recorded => a \in {"ok", "raced"}
<1>1. UNCHANGED <<vars, version, sent, recorded, appliedAt>> /\ Busy(h)
  BY DEF Answered, Raced, Replay, Stale, Refuse
<1>2. PICK a \in Answers : /\ Reply(h, a)
                           /\ a = "ok" => tx[h].id \in recorded
                           /\ tx[h].id \in recorded => a \in {"ok", "raced"}
  BY DEF Answered, Raced, Replay, Stale, Refuse, Recorded, Answers
<1>3. /\ tx' \in [Handlers -> Tx \cup {None}] /\ tx[h].id \in Ids
      /\ reply' = [to |-> tx[h].id, answer |-> a]
  BY <1>1, <1>2, BusyTx, ReplyType DEF ConsoleInv
<1>4. sent' \in [Ids -> Request]
  BY <1>1 DEF ConsoleInv, ConsoleTypeOK
<1> QED
  BY <1>1, <1>2, <1>3, <1>4, NoEffect

LEMMA WorkerStep == ASSUME ConsoleInv, WorkerExpiresClock PROVE ConsoleInv'
<1>1. TypeOK'
  <2>1. GameStep
    BY DEF WorkerExpiresClock, GameStep
  <2> QED BY <2>1, TypeStep DEF ConsoleInv, ConsoleTypeOK
<1>2. version \in Nat /\ version' = version + 1 /\ UNCHANGED <<sent, tx, recorded, reply, appliedAt>>
  BY DEF WorkerExpiresClock, ConsoleInv, ConsoleTypeOK
<1>3. ConsoleTypeOK'
  BY <1>1, <1>2 DEF ConsoleInv, ConsoleTypeOK
<1>4. RecordInv'
  <2>1. \A j \in Ids : appliedAt[j] \in Int
    BY DEF ConsoleInv, ConsoleTypeOK, NotApplied
  <2> QED BY <1>2, <2>1 DEF ConsoleInv, RecordInv
<1> QED
  BY <1>3, <1>4 DEF ConsoleInv

LEMMA OutsideStep == ASSUME ConsoleInv, UNCHANGED consoleVars, [GameStep]_vars PROVE ConsoleInv'
<1>1. TypeOK'
  BY TypeStep DEF ConsoleInv, ConsoleTypeOK
<1> QED
  BY <1>1 DEF ConsoleInv, ConsoleTypeOK, RecordInv, consoleVars

LEMMA ConsoleStep == ASSUME ConsoleInv, [ConsoleNext]_allVars PROVE ConsoleInv'
<1>1. ASSUME NEW i \in Ids, NEW cmd \in Commands, Send(i, cmd) PROVE ConsoleInv'
  <2>1. [cmd |-> cmd, expected |-> version] \in Request
    BY DEF Request, ConsoleInv, ConsoleTypeOK
  <2>2. sent' \in [Ids -> Request]
    BY <1>1, <2>1 DEF Send, ConsoleInv, ConsoleTypeOK
  <2>3. tx' \in [Handlers -> Tx \cup {None}]
    BY <1>1 DEF Send, ConsoleInv, ConsoleTypeOK
  <2> QED BY <1>1, <2>2, <2>3, NoEffect DEF Send
<1>2. ASSUME NEW h \in Handlers, NEW t \in Tx \cup {None}, tx' = [tx EXCEPT ![h] = t],
             UNCHANGED <<vars, version, sent, recorded, reply, appliedAt>>
      PROVE ConsoleInv'
  <2>1. tx' \in [Handlers -> Tx \cup {None}] /\ sent' \in [Ids -> Request]
    BY <1>2 DEF ConsoleInv, ConsoleTypeOK
  <2> QED BY <1>2, <2>1, NoEffect
<1>3. ASSUME NEW h \in Handlers, NEW i \in Ids, NEW retry \in BOOLEAN, NEW e \in Nat
      PROVE [id |-> i, retry |-> retry, expected |-> e, version |-> version, fixture |-> fixture] \in Tx
  BY DEF Tx, ConsoleInv, ConsoleTypeOK, TypeOK, GameType
<1>4. ASSUME NEW h \in Handlers, NEW i \in Ids, Begin(h, i) PROVE ConsoleInv'
  <2>1. sent[i].expected \in Nat
    BY DEF ConsoleInv, ConsoleTypeOK, Request
  <2> QED BY <1>2, <1>3, <1>4, <2>1 DEF Begin
<1>5. ASSUME NEW h \in Handlers, NEW i \in Ids, NEW e \in 0..version, BeginRetry(h, i, e)
      PROVE ConsoleInv'
  <2>1. e \in Nat
    BY DEF ConsoleInv, ConsoleTypeOK
  <2> QED BY <1>2, <1>3, <1>5, <2>1 DEF BeginRetry
<1>6. ASSUME NEW h \in Handlers, Abort(h) PROVE ConsoleInv'
  BY <1>2, <1>6 DEF Abort
<1>7. ASSUME AdminCancelsFixture \/ Time PROVE ConsoleInv'
  BY <1>7, OutsideStep DEF AdminCancelsFixture, Time, GameStep
<1>8. CASE UNCHANGED allVars
  BY <1>8, OutsideStep DEF allVars
<1> QED
  BY <1>1, <1>4, <1>5, <1>6, <1>7, <1>8, AnsweredStep, ApplyStep, WorkerStep DEF ConsoleNext, Answered

THEOREM ConsoleCorrect == ConsoleSpec => []ConsoleInv
<1>1. ConsoleInit => ConsoleInv
  <2> SUFFICES ASSUME ConsoleInit PROVE ConsoleInv
    OBVIOUS
  <2>1. TypeOK
    BY InitType DEF ConsoleInit
  <2>2. NoRequest \in Request
    BY DEF NoRequest, Request
  <2>3. ConsoleTypeOK
    BY <2>1, <2>2 DEF ConsoleInit, ConsoleTypeOK
  <2>4. RecordInv
    BY DEF ConsoleInit, RecordInv, NotApplied
  <2> QED BY <2>3, <2>4 DEF ConsoleInv
<1>2. ConsoleInv /\ [ConsoleNext]_allVars => ConsoleInv'
  BY ConsoleStep
<1> QED
  BY <1>1, <1>2, PTL DEF ConsoleSpec

-----------------------------------------------------------------------------
(* What a console may rely on. *)

\* A console is told that its command succeeded only if it did, the stored
\* answers of repeated deliveries included.
THEOREM OkIsTrue == ConsoleSpec => []OkMeansApplied
<1>1. ConsoleInv => OkMeansApplied
  BY DEF ConsoleInv, ConsoleTypeOK, RecordInv, OkMeansApplied
<1> QED
  BY <1>1, ConsoleCorrect, PTL

\* The steps by which commands, or nothing, are applied.
LEMMA AppliedBy == ASSUME ConsoleInv, [ConsoleNext]_allVars PROVE
    UNCHANGED appliedAt \/ \E h \in Handlers : Apply(h)
BY DEF ConsoleNext, allVars, consoleVars, Send, Begin, BeginRetry, Raced, Replay, Stale, Refuse, Abort,
   AdminCancelsFixture, WorkerExpiresClock, Time

\* However many consoles decide on the same state of the game, one command
\* is applied to it.
THEOREM OneWinner == ConsoleSpec => []OneWinnerPerVersion
<1>1. ConsoleInit => OneWinnerPerVersion
  BY DEF ConsoleInit, OneWinnerPerVersion
<1>2. ASSUME ConsoleInv, OneWinnerPerVersion, [ConsoleNext]_allVars PROVE OneWinnerPerVersion'
  <2>1. CASE UNCHANGED appliedAt
    BY <1>2, <2>1 DEF OneWinnerPerVersion
  <2>2. ASSUME NEW h \in Handlers, Apply(h) PROVE OneWinnerPerVersion'
    <3> DEFINE k == tx[h].id
    <3>1. k \in Ids /\ appliedAt' = [appliedAt EXCEPT ![k] = version]
      BY <1>2, <2>2, ApplyStep
    <3>2. /\ appliedAt \in [Ids -> Nat \cup {NotApplied}] /\ version \in Nat
          /\ \A i \in Ids : appliedAt[i] # version
      BY <1>2 DEF ConsoleInv, ConsoleTypeOK, RecordInv, NotApplied
    <3> QED BY <1>2, <3>1, <3>2 DEF OneWinnerPerVersion
  <2> QED BY <1>2, <2>1, <2>2, AppliedBy
<1> QED
  BY <1>1, <1>2, ConsoleCorrect, PTL DEF ConsoleSpec

\* A command is applied once, whatever is delivered again or rebased.
THEOREM AppliedAtMostOnce == ConsoleSpec => AppliedOnce
<1>1. ASSUME ConsoleInv, [ConsoleNext]_allVars
      PROVE \A i \in Ids : appliedAt[i] # NotApplied => appliedAt'[i] = appliedAt[i]
  <2>1. ASSUME NEW h \in Handlers, Apply(h)
        PROVE \A i \in Ids : appliedAt[i] # NotApplied => appliedAt'[i] = appliedAt[i]
    <3>1. /\ appliedAt' = [appliedAt EXCEPT ![tx[h].id] = version]
          /\ tx[h].id \notin recorded /\ tx[h].id \in Ids
      BY <1>1, <2>1, ApplyStep
    <3>2. appliedAt[tx[h].id] = NotApplied /\ appliedAt \in [Ids -> Nat \cup {NotApplied}]
      BY <1>1, <3>1 DEF ConsoleInv, ConsoleTypeOK, RecordInv
    <3> QED BY <3>1, <3>2
  <2> QED BY <1>1, <2>1, AppliedBy
<1>2. ConsoleInv /\ [ConsoleNext]_allVars =>
        [\A i \in Ids : appliedAt[i] # NotApplied => appliedAt'[i] = appliedAt[i]]_allVars
  BY <1>1
<1> QED
  BY <1>2, ConsoleCorrect, PTL DEF ConsoleSpec, AppliedOnce

\* A command that was applied is never answered with a refusal.
THEOREM NeverRefused == ConsoleSpec => AppliedIsNeverRefused
<1>1. ASSUME ConsoleInv, ConsoleNext, reply' # reply, appliedAt[reply'.to] # NotApplied
      PROVE  reply'.answer \in {"ok", "raced"}
  <2>1. ASSUME NEW h \in Handlers, Apply(h) PROVE reply'.answer \in {"ok", "raced"}
    BY <1>1, <2>1, ApplyStep
  <2>2. ASSUME NEW h \in Handlers, Answered(h) PROVE reply'.answer \in {"ok", "raced"}
    <3>1. PICK a \in Answers : /\ reply' = [to |-> tx[h].id, answer |-> a]
                               /\ tx[h].id \in recorded => a \in {"ok", "raced"}
      BY <1>1, <2>2, AnsweredStep
    <3>2. tx[h].id \in Ids
      BY <1>1, <2>2, BusyTx DEF ConsoleInv, Answered, Raced, Replay, Stale, Refuse
    <3>3. tx[h].id \in recorded
      BY <1>1, <3>1, <3>2 DEF ConsoleInv, RecordInv
    <3> QED BY <3>1, <3>3
  <2>3. \/ UNCHANGED reply
        \/ \E h \in Handlers : Apply(h) \/ Answered(h)
    BY <1>1 DEF ConsoleNext, consoleVars, Send, Begin, BeginRetry, Abort, AdminCancelsFixture,
       WorkerExpiresClock, Time, Answered
  <2> QED BY <1>1, <2>1, <2>2, <2>3
<1>2. ConsoleInv /\ [ConsoleNext]_allVars =>
        [(reply' # reply /\ appliedAt[reply'.to] # NotApplied => reply'.answer \in {"ok", "raced"})]_allVars
  BY <1>1
<1> QED
  BY <1>2, ConsoleCorrect, PTL DEF ConsoleSpec, AppliedIsNeverRefused

-----------------------------------------------------------------------------
(* What the transactions do to the game. *)

\* A step of the game in which a command may have read any fixture.
LEMMA ConsoleGameStep == ASSUME ConsoleInv, [ConsoleNext]_allVars PROVE [GameStep]_vars
<1>1. ASSUME NEW h \in Handlers, Apply(h) PROVE GameStep
  <2>1. tx[h].fixture \in Fixtures
    BY <1>1, BusyTx DEF Apply, ConsoleInv
  <2> QED BY <1>1, <2>1, PerformIsGameStep DEF Apply
<1>2. [GameStep]_vars \/ \E h \in Handlers : Apply(h)
  BY DEF ConsoleNext, allVars, Send, Begin, BeginRetry, Raced, Replay, Stale, Refuse, Abort,
     AdminCancelsFixture, WorkerExpiresClock, Time, GameStep
<1> QED
  BY <1>1, <1>2

\* The game of the consoles is a game, so what holds of any game holds of it.
LEMMA ConsoleGame == ConsoleSpec => GameSpec
<1>1. ConsoleInit => Init
  BY DEF ConsoleInit
<1>2. ConsoleInv /\ [ConsoleNext]_allVars => [GameStep]_vars
  BY ConsoleGameStep
<1> QED
  BY <1>1, <1>2, ConsoleCorrect, PTL DEF ConsoleSpec, GameSpec

\* What ended stays ended, whatever requests are still under way.
THEOREM ConsoleEndedFrozen == ConsoleSpec => EndedGameFrozen
BY ConsoleGame, GameFrozen, PTL

\* Paused time shrinks only where a period is rewound.
THEOREM ConsolePausedTimeGrows == ConsoleSpec => PausedTimeNeverShrinks
BY ConsoleGame, GamePausedTime, PTL

\* Several consoles go through the periods in order, as one does.
THEOREM ConsolePeriodsInOrder == ASSUME ~AnyClient PROVE ConsoleSpec => []PeriodShape
BY ConsoleGame, GameOrdered, OrderImpliesShape, PTL

\* Several consoles take the game through its periods as MatchPeriods promises:
\* no command that was overtaken ends, starts or takes back a second period.
THEOREM ConsoleImplementsPeriods == ASSUME ~AnyClient PROVE ConsoleSpec => ImplementsPeriods
BY ConsoleGame, GamePeriods, PTL

\* Whoever paused the game, resume finds the clock that was stopped.
THEOREM ConsolePauseStopsClock == ASSUME ~AnyClient PROVE ConsoleSpec => []PausedHasLiveClock
BY ConsoleGame, GameStopped, StoppedIsPaused, PTL

\* No event, delivered again and rebased or not, is in a period yet to start.
THEOREM ConsoleEventsInPlay == ASSUME ~AnyClient PROVE ConsoleSpec => []EventsInPlayedPeriods
BY ConsoleGame, GameEvents, PTL

\* The clock of a period shows the time it was played, whoever operated it.
THEOREM ConsoleClockCorrect == ASSUME ~AnyClient PROVE ConsoleSpec => []ClockCountsPlay
BY ConsoleGame, GameClock, PTL

-----------------------------------------------------------------------------
(* The fixture. *)

FriendlyKept == kind = "friendly" => fixture # "cancelled"

LEMMA FriendlyStep == ASSUME FriendlyKept, [GameStep]_vars PROVE FriendlyKept'
<1>1. CASE UNCHANGED <<kind, fixture>>
  BY <1>1 DEF FriendlyKept
<1>2. CASE fixture' # "cancelled"
  BY <1>2 DEF FriendlyKept
<1>3. CASE CancelFixture
  BY <1>3 DEF CancelFixture, FriendlyKept
<1>4. UNCHANGED <<kind, fixture>> \/ fixture' # "cancelled" \/ CancelFixture
  BY DEF GameStep, vars, gameVars, Start, End, CloseCancelled, SubmitResult, Pause, Resume, Cancel,
     NextPeriod, EndPeriod, StartPeriod, RevertPeriod, AppendEvent, RetryEvent, ReverseEvent, Record,
     ClockExpire, Tick, ClockStepsBack
<1> QED
  BY <1>1, <1>2, <1>3, <1>4

\* A snapshot that is not older than the game's row shows the fixture as it
\* is, unless it was cancelled since, while the game was not in progress.
SnapshotInv ==
    \A h \in Handlers : Busy(h) =>
       /\ tx[h].version <= version
       /\ tx[h].version = version /\ tx[h].fixture # fixture =>
             fixture = "cancelled" /\ state \notin {"LIVE", "PAUSED"}

\* A version that passes outdates every snapshot taken before.
LEMMA VersionPasses == ASSUME ConsoleInv, SnapshotInv, version' = version + 1,
                              \A h \in Handlers : tx'[h] \in {tx[h], None}
                       PROVE SnapshotInv'
<1> SUFFICES ASSUME NEW h \in Handlers, Busy(h)'
             PROVE tx'[h].version <= version' /\ tx'[h].version # version'
  BY DEF SnapshotInv
<1>1. tx'[h] = tx[h] /\ Busy(h)
  BY DEF Busy
<1>2. tx[h].version <= version
  BY <1>1 DEF SnapshotInv
<1>3. tx[h].version \in Nat /\ version \in Nat
  BY <1>1, BusyTx DEF ConsoleInv, ConsoleTypeOK, Tx
<1> QED
  BY <1>1, <1>2, <1>3

\* Transactions that end, and one that begins, while game and version stay.
LEMMA SnapshotTaken ==
    ASSUME ConsoleInv, SnapshotInv, UNCHANGED <<version, fixture, state>>,
           \A h \in Handlers : \/ tx'[h] \in {tx[h], None}
                               \/ tx'[h].version = version /\ tx'[h].fixture = fixture
    PROVE  SnapshotInv'
<1> SUFFICES ASSUME NEW h \in Handlers, Busy(h)'
             PROVE /\ tx'[h].version <= version'
                   /\ tx'[h].version = version' /\ tx'[h].fixture # fixture' =>
                         fixture' = "cancelled" /\ state' \notin {"LIVE", "PAUSED"}
  BY DEF SnapshotInv
<1>1. CASE tx'[h] = tx[h]
  <2>1. Busy(h)
    BY <1>1 DEF Busy
  <2> QED BY <1>1, <2>1 DEF SnapshotInv
<1>2. CASE tx'[h].version = version /\ tx'[h].fixture = fixture
  BY <1>2 DEF ConsoleInv, ConsoleTypeOK
<1> QED
  BY <1>1, <1>2 DEF Busy

LEMMA SnapshotStep == ASSUME ConsoleInv, SnapshotInv, [ConsoleNext]_allVars PROVE SnapshotInv'
<1>0. tx \in [Handlers -> Tx \cup {None}]
  BY DEF ConsoleInv, ConsoleTypeOK
<1>1. ASSUME NEW h \in Handlers, NEW i \in Ids,
             Begin(h, i) \/ \E e \in 0..version : BeginRetry(h, i, e)
      PROVE  SnapshotInv'
  <2>1. UNCHANGED <<version, fixture, state>>
    BY <1>1 DEF Begin, BeginRetry, vars
  <2>2. /\ tx'[h].version = version /\ tx'[h].fixture = fixture
        /\ \A k \in Handlers \ {h} : tx'[k] = tx[k]
    <3>1. CASE Begin(h, i)
      BY <1>0, <3>1 DEF Begin
    <3>2. ASSUME NEW e \in 0..version, BeginRetry(h, i, e) PROVE
          /\ tx'[h].version = version /\ tx'[h].fixture = fixture
          /\ \A k \in Handlers \ {h} : tx'[k] = tx[k]
      BY <1>0, <3>2 DEF BeginRetry
    <3> QED BY <1>1, <3>1, <3>2
  <2> QED BY <2>1, <2>2, SnapshotTaken
<1>2. ASSUME NEW h \in Handlers, Answered(h) \/ Abort(h) PROVE SnapshotInv'
  <2>1. tx' = [tx EXCEPT ![h] = None] /\ UNCHANGED <<version, fixture, state>>
    BY <1>2 DEF Answered, Raced, Replay, Stale, Refuse, Abort, Reply, vars
  <2>2. \A k \in Handlers : tx'[k] \in {tx[k], None}
    BY <1>0, <2>1
  <2> QED BY <2>1, <2>2, SnapshotTaken
<1>3. ASSUME NEW h \in Handlers, Apply(h) PROVE SnapshotInv'
  <2>1. tx' = [tx EXCEPT ![h] = None] /\ version' = version + 1
    BY <1>3 DEF Apply, Reply, VersionAfter
  <2>2. \A k \in Handlers : tx'[k] \in {tx[k], None}
    BY <1>0, <2>1
  <2> QED BY <2>1, <2>2, VersionPasses
<1>4. CASE WorkerExpiresClock
  <2>1. version' = version + 1 /\ UNCHANGED tx
    BY <1>4 DEF WorkerExpiresClock
  <2> QED BY <2>1, VersionPasses
<1>5. CASE AdminCancelsFixture
  <2>1. /\ UNCHANGED <<version, tx>> /\ fixture' = "cancelled"
        /\ state' = state /\ state \notin {"LIVE", "PAUSED"}
    BY <1>5 DEF AdminCancelsFixture, CancelFixture, consoleVars
  <2> QED BY <2>1 DEF SnapshotInv, Busy
<1>6. CASE Time \/ (\E i \in Ids, cmd \in Commands : Send(i, cmd)) \/ UNCHANGED allVars
  <2>1. UNCHANGED <<version, fixture, state, tx>>
    BY <1>6 DEF Time, Tick, gameVars, consoleVars, Send, vars, allVars
  <2> QED BY <2>1, SnapshotTaken
<1> QED
  BY <1>1, <1>2, <1>3, <1>4, <1>5, <1>6 DEF ConsoleNext, Answered

\* A command whose transaction commits did what it would have done alone, at
\* that moment, except for the start from a fixture since cancelled.
LEMMA AppliedSerially == ASSUME ConsoleInv, SnapshotInv, FriendlyKept, NEW h \in Handlers, Apply(h)
                         PROVE Next \/ StartFromOldFixture
<1> DEFINE f == tx[h].fixture
<1>1. Busy(h) /\ ~OutOfDate(h) /\ f \in Fixtures
  BY BusyTx DEF Apply, Serializable, ConsoleInv
<1>2. PICK cmd, retry : Perform(cmd, retry, f)
  BY DEF Apply
<1>3. CASE f = fixture
  BY <1>2, <1>3 DEF Perform, Next, Operate
<1>4. CASE f # fixture
  <2>1. fixture = "cancelled" /\ state \notin {"LIVE", "PAUSED"}
    BY <1>1, <1>4 DEF SnapshotInv, OutOfDate
  <2>2. f \in {"matched", "completed"}
    BY <1>1, <1>4, <2>1 DEF Fixtures
  <2>3. ~End(f) /\ ~CloseCancelled(f) /\ ~SubmitResult(f)
    BY <2>1, <2>2 DEF End, CloseCancelled, SubmitResult, FriendlyKept
  <2>4. Start(f) => StartFromOldFixture
    BY <2>1, <2>2 DEF StartFromOldFixture
  <2> QED BY <1>2, <2>3, <2>4 DEF Perform, Next, Operate
<1> QED
  BY <1>3, <1>4

LEMMA SerialStep == ASSUME ConsoleInv, SnapshotInv, FriendlyKept, [ConsoleNext]_allVars
                    PROVE UNCHANGED vars \/ Next \/ StartFromOldFixture
<1>1. UNCHANGED vars \/ Next \/ \E h \in Handlers : Apply(h)
  BY DEF ConsoleNext, allVars, Send, Begin, BeginRetry, Raced, Replay, Stale, Refuse, Abort,
     AdminCancelsFixture, WorkerExpiresClock, Time, Next
<1> QED
  BY <1>1, AppliedSerially

LEMMA SnapshotAlways == ConsoleSpec => [](SnapshotInv /\ FriendlyKept)
<1>1. ConsoleInit => SnapshotInv /\ FriendlyKept
  BY DEF ConsoleInit, Init, SnapshotInv, FriendlyKept, Busy
<1>2. ConsoleInv /\ SnapshotInv /\ FriendlyKept /\ [ConsoleNext]_allVars => SnapshotInv' /\ FriendlyKept'
  BY SnapshotStep, ConsoleGameStep, FriendlyStep
<1> QED
  BY <1>1, <1>2, ConsoleCorrect, PTL DEF ConsoleSpec

\* Overlapping transactions of any number of consoles do to the game what
\* commands that run one after the other could do, a start from an old
\* snapshot apart.
THEOREM ConsoleIsSerial == ConsoleSpec => SerialGame
<1>1. ConsoleInit => Init
  BY DEF ConsoleInit
<1>2. ConsoleInv /\ SnapshotInv /\ FriendlyKept /\ [ConsoleNext]_allVars =>
        [(UNCHANGED vars \/ Next \/ StartFromOldFixture)]_allVars
  BY SerialStep
<1> QED
  BY <1>1, <1>2, SnapshotAlways, ConsoleCorrect, PTL DEF ConsoleSpec, SerialGame

\* A transaction that still sees the fixture as it was before its
\* cancellation completes nothing and submits no result.
THEOREM CancelledStaysCancelled == ConsoleSpec => CancelledFixtureGetsNoResult
<1>1. ASSUME FriendlyKept, fixture = "cancelled", UNCHANGED vars \/ Next \/ StartFromOldFixture
      PROVE  UNCHANGED <<fixture, submitted>>
  <2>1. ~End(fixture) /\ ~SubmitResult(fixture) /\ ~CancelFixture
    BY <1>1 DEF End, Playable, SubmitResult, CancelFixture, FriendlyKept
  <2>2. StartFromOldFixture => UNCHANGED <<fixture, submitted>>
    BY DEF StartFromOldFixture, Start
  <2>3. Next => UNCHANGED <<fixture, submitted>>
    BY <2>1 DEF Next, Operate, Start, CloseCancelled, Pause, Resume, Cancel, NextPeriod, EndPeriod,
       StartPeriod, RevertPeriod, AppendEvent, RetryEvent, ReverseEvent, Record, ClockExpire, Tick,
       ClockStepsBack, gameVars
  <2> QED BY <1>1, <2>2, <2>3 DEF vars
<1>2. ConsoleInv /\ SnapshotInv /\ FriendlyKept /\ [ConsoleNext]_allVars =>
        [(fixture = "cancelled" => UNCHANGED <<fixture, submitted>>)]_allVars
  BY <1>1, SerialStep
<1> QED
  BY <1>2, SnapshotAlways, ConsoleCorrect, PTL DEF ConsoleSpec, CancelledFixtureGetsNoResult
=============================================================================
