# matchup-sports-platform: TLA+ models, checks and proofs

This directory specifies the parts of the platform's API (`apps/v1_api`) in which several
processes, transactions or consoles meet: the durable job queue, the operation of a live game,
the transactions that carry the commands of several consoles, the exclusive takeover of a game,
the revisions of a game's result with the jobs that follow them, the recruitment of a team match,
and the registrations of a tournament or league with the places they hold. TLC checks the models on
small instances, TLAPS proves the safety properties for every value of the constants. Paths below are relative to the repository's `src/`.

Contents: 1 inventory of the system · 2 the modules and how they correspond to the code ·
3 the runs and their bounds · 4 fairness · 5 disagreements found · 6 the proofs · 7 what is not
modelled · 8 plan.

## 1. The system

`apps/v1_api` is a NestJS application over PostgreSQL (Prisma). It runs as API processes (REST and
a Socket.IO gateway) and as worker processes (`jobs/v1-game-operations-worker.main.ts`).
`apps/v1_web` is the console and public site, with an offline queue for events recorded without a
connection; `apps/ios`/`apps/android` are web view shells.

| Component | State | Operations | Meets |
|---|---|---|---|
| Outbox worker (`jobs/v1-game-operations-worker.service.ts`) | rows of `v1_outbox_events` (status, attempts, version, owner, lease, available_at), in memory: the claim of each process | claim with recovery of expired leases, heartbeat, effect transaction, completion, failure/poisoning, release on shutdown | every producer of an event; its own replicas; the operator's requeue |
| Requeue and flags (`config/game-operation-flags.ts`) | gate settings with a version, audit rows | requeue of a poisoned event, change of a gate | worker (the gate admits claims) |
| Live game (`games/games.service.ts`, `games/core`) | `v1_games`, `v1_game_periods` (state, started/ended/paused instants, paused total), `v1_game_events` | start, pause, resume, end, cancel, next-/end-/start-/revert-period, append/retry/reverse an event | fixture, clock expiry, result revisions |
| Clock expiry (`jobs/game-clock-expiry.service.ts`) | a scan cursor | ends a running period whose time is over | live game |
| Command transactions (`withCommand`, `retryEvent`) | `V1Game.version`, `V1IdempotencyRecord` | lock, replay, version check, command, record | consoles, administrators |
| Takeover (`games/game-takeover.service.ts`, `realtime/realtime.gateway.ts`) | grants and pending order, in the memory of one process | reserve, authorize, grant, renew, revoke | consoles |
| League fixtures (`league-matches/league-match-admin.service.ts`) | `v1_team_matches` | cancelFixture, generation, regeneration | live game |
| Result revisions, shared record, result review | revisions with states, the official pointer, review rows (`v1_result_escalations`) | draft, submit, approve, request a change, supersede, officialize, void, correct, quick result, replaced team, roster edit | live game, projections, escalation |
| Projections, roster resync, advancement | standings, results, roster rows | handlers of the outbox | worker, revisions |
| Line-ups and substitutions | revisions per side, current rows | put, change, fold of substitutions | live game |
| Team matches (`team-matches/`, with the administrator's endpoints) | `v1_team_matches`, applications, the match's game, each team's schedule | create, edit, apply, withdraw, approve, reject, close, reopen, cancel, remove; the platform's own matches seat two applicants | live game, dissolution, scan, schedules |
| Team dissolution (`teams/team-dissolution*.ts`) | teams | dissolve (cancels or leaves matches, withdraws applications), restore | team matches, schedules |
| No-opponent scan (`jobs/team-match-no-opponent/`) | an outbox event that books its successor | cancels matches that found no opponent | team matches |
| Registrations (`tournaments/*registrations.service.ts`, `registration-capacity.ts`) | registrations with status and `updatedAt`, payments | apply, submit, request a cancellation and take it back; confirm a payment, confirm, put on the waiting list, cancel, refuse a cancellation | bracket, league rosters |
| League rosters, bracket seats (`league-matches/league-team-admission.ts`, `tournaments/slots/`) | confirmed registrations, seats | add, remove a team; give, empty, release a seat | registrations, fixtures |
| Individual matches, brackets | participants, groups, fixtures | join, leave, draw | notifications, live game |
| Schedules, reminders, retention scans | rows, self-booked outbox events | scan, book the successor | worker |
| Notifications, chat, reviews, verification, administration, files | rows | mostly CRUD | – |

`PROJECT.json` lists every component with its sources and status.

What is hard here, and what must hold:

* **Delivery of events.** Replicas claim the same rows, leases expire under a handler that is
  still at work, a commit's reply is lost, a process dies between two statements, an operator
  requeues. An event's effect must be committed exactly once and its push sent only after that;
  every event must end applied or parked for an operator.
* **A game's clock and periods.** Long sequences of legal commands add up in one clock. The clock
  must show what was played; periods must be gone through in order; what ended must stay ended;
  a period whose time is over must be ended although nobody is at the console.
* **Several consoles, an unreliable network.** Requests are delivered again, replies are lost,
  events recorded offline are rebased, the snapshot of a Serializable transaction is older than
  the lock it waits for. A command must be applied once, one per version, and answered truthfully;
  a cancelled fixture must not get a result.
* **Results.** A result is confirmed, corrected, voided and replaced by people who look at older
  pages, while the worker applies the projections and the reviews of earlier revisions in any order.
  A decision must be final; a confirmed result must be replaced by a correction of it only; the
  public must end with the confirmed result; nobody must be asked to review what was replaced.
* **Team matches.** Approval locks the match and then the game, cancellation, edits, dissolution
  and the scan the other way round; applications are judged before they wait for a lock; a
  dissolution reads in several statements. There must be one opponent, nobody may wait for a match
  that is decided or was moved, what is cancelled must stay so, its opponent must hear of it, and a
  match without an opponent must go off offer.
* **Places.** Five requests give a team a place, each after counting, while the team's own requests
  write without a lock, and seats in the bracket are given under another lock than places. The last
  place must be given once, a cancellation must not be undone by a decision, and a cancelled team
  must not keep a seat.
* **Takeover.** The checks of a request are awaited and overtake each other. A request must not
  win against one that arrived later, nor silently against another operator.

`PROJECT.json` "hazards" lists these one by one, each at its line.

## 2. The modules

| Module | Models | Uses |
|---|---|---|
| `JobLedger` | what the outbox promises to producers (abstract) | – |
| `OutboxWorker` | queue rows, worker processes, requeue | implements `JobLedger` |
| `MatchPeriods` | what the operation of a game promises about its periods (abstract) | – |
| `LiveGame` | one game: lifecycle, periods, clock, events, fixture, clock expiry | implements `MatchPeriods` |
| `GameConsole` | requests and transactions of several consoles on that game | extends `LiveGame` |
| `GameTakeover` | takeover registry and its requests | – |
| `OfficialResult` | what a game promises its readers about its result (abstract) | – |
| `ResultRevision` | revisions, official pointer, review rows and public cache of one game, the jobs on them | implements `OfficialResult` |
| `MatchSeats` | what a match promises the teams that apply (abstract) | – |
| `TeamMatchRecruitment` | one team match, its applications, schedules and game, dissolution, scan | implements `MatchSeats` |
| `RegistrationCapacity` | the registrations of one tournament or league, their places and seats | – |
| `MC…` | symmetry sets and constant definitions of the runs | |
| `…Proofs` | the theorems of each | TLAPS |

### OutboxWorker

One atomic step is one SQL statement or one transaction. `status`, `attempts`, `version`, `gen`,
`owner`, `lease`, `due` are the columns of a row (`gen` counts requeues); instants are abstracted
to the two comparisons made with `CURRENT_TIMESTAMP`. `mode`, `pc`, `job`, `seen`, `beat` are one
process incarnation (its owner id is a random UUID, so a restarted process is another element of
`Workers`). The correspondence:

* `ClaimStart`, `Claim`, `ClaimNothing`, `ClaimRefused`, `ClaimBreaks` – `claimOne()`: the test of
  `acceptingClaims`, the gate, the sweep of expired leases and the `SKIP LOCKED` selection in one
  transaction, and its rejection on a database error, committed or not.
* `BeginTx`, `NoTx`, `Commit`, `Rollback`, `AfterCommit` – `processOne()`: `lockClaim`, the
  handler and `completeWith` in one transaction, then the after-commit pushes. `Rollback` also
  stands for a commit whose reply was lost, as the worker then takes the failure path.
* `Fail`, `FailBreaks`, `Close` – `fail()` and the `finally` block.
* `Heartbeat`, `HeartbeatReply` – the renewal and the moment its reply updates the version the
  worker holds.
* `Shutdown`, `ReleaseOwned`, `Exit`, `Crash` – the shutdown sequence and the ways it is cut short.
* `Enqueue`, `Requeue`, `BecomesDue`, `LeaseExpires` – producers, operator and time.

The data of an event and the writes of its handler are one counted effect (`effects`), which is
what exactly-once needs to tell apart.

### LiveGame

`state`, `period`, `startedAt`, `endedAt`, `pausedAt`, `pausedTotal`, `events`, `fixture` are the
columns of the game, its periods, events and fixture; `now` is the server clock, `played` a history
variable that counts the ticks a period really ran. One action per command; the helpers keep the
code's names (`CloseOpenPeriods`, `EndRunningPeriod` for `endLiveGamePeriod`, `FoldedPause` for
`resolveOpenPause`). Here a command is atomic: it runs under the row lock of its game and compares
the version it expects. `GameConsole` takes that apart, which is why commands that read the fixture
take what they read as a parameter `f`.

`AnyClient` separates two populations of clients. The transition table lets `start` and `resume`
each leave both `SCHEDULED` and `PAUSED`; the web console offers `start` only on a scheduled game
and `resume` only on a paused one. With `AnyClient = FALSE` the model takes the console's commands,
with `TRUE` every command the endpoint accepts. The theorems say which they need.

`RetryEvent` is guarded by the period only, `Cancel` leaves the periods alone and `SubmitResult`
does not fold a pause, as in the code; section 5 says where that disagrees with its documents.

`MatchPeriods` is what the periods promise: they are gone through one at a time from the first, only
the last step between two of them is taken back, the end of the game takes what is open with it, and
a game that is over leaves them alone. `ImplementsPeriods` maps `gone`, `running` and `waiting` to the
periods that are `ENDED`, `LIVE` and at `HALFTIME`, `over` to a game that is `ENDED` or `CANCELLED`.
Each period command is the step of its name, `Start` is `KickOff`, the clock expiry is `EndPeriod`;
`End`, `CloseCancelled` and `SubmitResult` are `Finish`, `Cancel` is `CallOff`; pauses, events, the
fixture and time are stutters.

### GameConsole

A request has the id its client chose and the version it had seen. `Begin` takes the snapshot
(with `SELECT … FOR UPDATE` the first statement of the Serializable transaction) and the other
actions are what follows the lock: `Raced` (the row was updated since: SQLSTATE 40001), `Replay`
(the stored response), `Stale`, `Refuse`, `Apply`, `Abort`. A row that was only locked, as
`cancelFixture` does, does not fail the waiting transaction, and the fixture it reads is the
snapshot's. `Send`, `Begin` and `BeginRetry` deliver any request any number of times, at any later
time and in any order; `reply` is only what the server answered, so a lost reply is one no client
acts on. Which checks beyond the state of the game refuse a request (roles, payloads, line-ups) is left open:
any request may be refused.

`Apply` performs an action of `LiveGame` and the bookkeeping around it, `WorkerExpiresClock` and
`AdminCancelsFixture` are the two actors that do not go through `withCommand`. `Serializable` is what
lets a transaction commit: the game is the one of its snapshot and of the version its client had seen,
and if it writes the fixture, that too is the one of its snapshot.

`SerialGame` says what all this amounts to: behind the requests, the game changes only as
`LiveGame`'s atomic commands change it, each reading the fixture of the moment. There is one
exception, which the property names (`StartFromOldFixture`, section 5): `start` reads the fixture and
does not write it, so nothing fails when the fixture was cancelled after the snapshot.

### GameTakeover

A request reserves its ordinal before its first `await` and is decided in one synchronous step
after its authorization; the two steps of other requests interleave in between. The actions are
those of `game-takeover.service.ts` and the two gateway handlers. One API process is modelled, as
the registry is in its memory.

### ResultRevision

`revs` is the table of one game's revisions by number, `official` the pointer
`currentOfficialRevisionId`, `review` the rows of `v1_result_escalations`, `shown` the row of the
public cache that `is_current`, `jobs` the outbox events not yet applied. Commands run under the row
lock of the game and compare its version, so one action is one command; the version is the game's
and not the revision's, so a command may name any revision. The worker's handlers are actions of
their own, and their jobs wait for any time and are taken in any order. One job stands for the
reminder and the escalation of a review, which do the same to this state and are cancelled together.

`lane` says whose commands apply. A FRIENDLY's host submits and the opponent decides
(`games.service.ts`); in a LEAGUE both an operations administrator through the same endpoints and the
result review do; a TOURNAMENT has the result review only; SHARED is a friendly whose teams confirm
one sheet (`team-match-record.service.ts`), for which the other endpoints answer
`SHARED_RECORD_REQUIRED`. The actions carry the names of the methods. What a reader would not guess:

* `SupersedeAndSubmit` and `AssignGoalAssist` leave the revision they replace `SUBMITTED`; only its
  successor's `supersedesId` tells. `OfficializeResultRevision` looks for that, `Approve` does not.
* `AssignGoalAssist` picks the submitted row with the highest number and adds one, and fails on the
  unique number where a later row exists.
* `DiscardUnconfirmedResultRevisions` (a team of a started tournament fixture is replaced) moves the
  pointer without an outbox event.
* `goals` abstracts the event log to whether it has a goal an assist can be given to; for the quick
  result, which refuses any event, that means no event at all.

`OfficialResult` is what this promises to whoever reads the game: at most one revision is the result;
one that is corrected or voided is withdrawn for good; a game that had a result has one or says that it
is void; the public is only moved to the result of the moment, and taken back when it is void.
`ImplementsResult` maps the result to the revision the pointer names while it is `OFFICIAL`, `void` to
a pointer at a `VOID` one, `withdrawn` to the other `OFFICIAL` rows, `public` to the row the cache
shows. It holds in every lane: the overwrite of section 5 is a correction there, of which the
abstract result does not ask who wanted it.

### TeamMatchRecruitment and MatchSeats

`match` is the row of `v1_team_matches`, `application`/`appliedBy` the application of each team,
`game` and `away` the match's game and the team of its AWAY side, `calendar`/`marked` each team's
schedule of the match and the start noted in it, `team` the teams' statuses. `platform` tells a match
of the platform, which has no host until the first applicant is approved, from one of a host.
`outdated` and `told` are history: who was left waiting when the start moved, and who was told of a
cancellation.

Transactions are Read Committed. An operation that locks everything before it decides is one action,
enabled when its rows are free. Those that decide on something read earlier, or that lock in the
other order, are served by a worker in several steps, each of which reads, or waits and writes:

| Request | Steps | Holds after its writes, until it commits |
|---|---|---|
| application | `BeginApply`, `CommitApply` | – |
| host's approval | `ReadForApproval`, `LockForApproval` (match), `SeatAway`, `CommitApproval` | the application, the keys of team and game; the team is read *after* its key is taken |
| platform's approval | `LockForAssign` (match; reads the teams), then `ApproveFirst`, or `ReadAway` (reads the team again), `ListOthers`, `CommitAssign` | the same, but the teams are read *before* a key is waited for, and not again |
| host's cancellation | `ReadForCancel`, `LockForCancel` (game), `CommitCancel` | – |
| dissolution | `LockForDissolution` (team), `ChooseMatches` (game), `CancelAndWithdraw`, `CommitDissolution` | the team from the first step, the match it cancels, the applications it rejects or withdraws; the team is archived at the end, and what arrived after the withdrawal is not looked at |

What a transaction has written appears when it commits; until then the rows are locked. Which rows
those are follows from the steps the workers are at (`MatchHolders`, `GameHolders`, `Dissolvers`,
`Writers`, `Leaving`), foreign keys included: a participant refers to its game, an application, a
match and a side to their team; `FOR UPDATE` of a team waits for those keys (`TeamFree`). A
resubmission updates the application there is and takes no key. Two workers can wait for each other;
`Abort` is the database ending one of them, or any other end without a commit.

Instants are compared only, so a few are enough; a plan is a start and a deadline or none. The data of
a match (place, level, fee), its texts and notifications are left out, except who hears of a
cancellation.

`MatchSeats` is what this promises to teams: they ask, are seated one at a time up to the number of
places (one, or two where the platform seats both), a seat is never taken back and a full match has
nobody waiting. `ImplementsSeats` maps asking to the applications `requested`, seats to `approved`.

### RegistrationCapacity

`reg` is each team's row in `v1_tournament_registrations` (its status and `cancelPreviousStatus`),
`unpaid` the registrations whose payment is `ready`, `placed` the teams that have a seat, `kind` and
`limit` what `capacityLimitOf` reads. A request is first `judged` (what was read before the
transaction: `seen`, and `was` for a team taken for confirmed) and then `locked`; requests that judge
again under the lock begin there. There are two locks (`LockOf`): the tournament's row for whatever
takes a place or removes a league's team, and the lane of the bracket for seats, which is an advisory
lock in tournaments and that same row in leagues. `fresh` says that the row's `updatedAt` is still the
one read under the lock, which is what the conditional update of a decision tests. The team's
`create` and `cancelRequest`, and the administrator's cancellation of an unconfirmed team, take no lock.

What a reader would not guess: `submit` reads the tournament again under its lock but not the
registration (`LockSubmit`); `CommitRequestCancel` writes what it read; `CommitCancel` tests the status
it judged. `closed` also stands for draft and in progress, between which no modelled request
distinguishes; where the code forbids a change among the three, the model allows it. A league keeps the
status `open`: its other statuses only refuse requests. Its limit is never set below the places that
are held (`EditLeagueLimit`), a tournament's may be (`EditLimit`). No limit is a limit no count
reaches. Whether there is an entry fee is open at each submission. `placed` are the teams with a seat
whose fixtures have not started: a release leaves the others alone (`StartFixture` takes a team out,
and no lock). Rosters are left out.

## 3. Runs

| Run | Instance | Shows |
|---|---|---|
| `outbox_safety` | 2 replicas, 2 events, 2 attempts, 1 requeue, 1 exit, 1 heartbeat, 1 lease that expires under its handler | effects once, pushes after commits, claims kept under the row lock, versions fence every change, `JobLedger` implemented (safety) |
| `outbox_live` | the same with 1 attempt and no heartbeat | abandoned claims return, every event settles |
| `live_game` | 3 periods, instants 0..3, 2 events, one step back of the clock | order, `MatchPeriods` implemented, clocks, frozen end, expiry |
| `game_console` | all 12 commands, 3 requests, 2 concurrent transactions, 2 periods | applied once, one per version, truthful replies, no result for a cancelled fixture, the game changes as by commands in a row |
| `result_revision` | one game of any lane, up to 4 revisions | decisions final, a confirmed tournament result replaced by its successor only, public follows the pointer, no review of a replaced submission, `OfficialResult` implemented (safety) |
| `game_takeover` | 4 requests of 2 operators, instants 0..2, grants of 1 tick | grants in order, order forgotten |
| `team_match` | 3 teams, of which two have a common manager, 2 users, 2 workers, 2 plans, instants 0..1, one team may dissolve | one opponent, nobody left waiting, cancelled stays cancelled and is told, no stale start, one team per user, no dissolved opponent of a host, `MatchSeats` implemented |
| `team_match_ends` | 2 teams, 1 user, instants 0..2, the host may dissolve | a match without an opponent goes off offer |
| `registration_capacity` | 2 teams, 2 workers, limits 1 and 2, tournament or league | the last place once, cancellations stand, no free seat kept after a cancellation |

The types of every model are proved for every instance (section 6); `live_game` also checks them
on one. The bounds are named in the modules. Why they are enough for the cases that matter:

* *Outbox.* A lost claim needs two replicas and one row; a second event is needed for a requeue
  (whose audit event is a row of its own), for a worker that takes a job after losing one, and for
  the sweep to meet two rows. Two attempts give a first and a last one; one requeue gives a row a
  second life with late statements of its first.
* *Live game.* Three periods give a middle one, which has both a predecessor to revert into and a
  successor. Length 1 and instants up to 3 let a period expire, be paused and be
  reverted in one behaviour; two events give an event and its correction.
* *Console.* Three requests on two handlers give a rival, its redelivery and a third command that
  moves the version in between.
* *Results.* Four revisions give a submission, its replacement, a confirmation or void of either and
  a correction of that; everything else in the state is finite. The theorems need no bound.
* *Team matches.* Three teams give a host and two rivals, or for the platform two seats and a third
  applicant; two workers give every pair of overlapping requests, and the one-step operations run
  between their steps. Two plans, with and without a deadline, give an edit that moves the start. In
  `team_match` an applicant may dissolve; the host's dissolution is in `team_match_ends` and
  `team_match_dissolved`, and in the proofs. Instants to 2 let a match pass its deadline and then its
  start.
* *Registrations.* Two teams and a limit of one give a last place and a rival for it, two workers
  every pair of requests; the limit of two gives a place that is free and one that an operator takes
  away. `LeagueMinimum` is 2 in the code and 1 here, so that a league of two teams may lose one.
* *Takeover.* Four requests give three in flight and one that begins a new order after the others
  are forgotten.

Deadlock is checked for the outbox, where a process that lives goes on polling, and for the
registrations, where somebody can always do something. The other models
really stop (a game that is over, every request answered), and their configurations say so.

Violation runs check one statement of a document or comment each; see section 5. `Symmetry` is
used only where no liveness property is checked and permutes model values only.

## 4. Fairness

* **Outbox.** Weak fairness for the steps of a process that is running (its loop polls, and a
  statement sent to the database returns), for instants passing (`BecomesDue`, `LeaseExpires`), and
  strong fairness for the claim of each event: the claim takes the oldest `available_at` first and
  the cutover lock is held for a finite time, so an event claimable again and again is claimed.
  Nothing is assumed of producers, operators, crashes, heartbeats or of the outcome of a database
  call: under `Step`, a transaction may fail whenever it is attempted. What makes every event
  settle nevertheless is the cap of attempts.
* **Live game.** Weak fairness for `ClockExpire` only: the worker polls the persisted clocks once a
  second. Nothing is assumed of operators. `ExpiredPeriodEnds` therefore holds because of the worker
  (or of an operator who happens to come first).

* **Team matches.** Weak fairness for time and for `Abort` of every request: Prisma's interactive
  transactions have a time limit, and PostgreSQL ends the victim of a deadlock, so that no lock is
  held for ever. Strong fairness for `Scan`: the scan books its successor five minutes ahead, again
  and again, and meets the match whenever its rows are free. Nothing is assumed of hosts, applicants,
  administrators or of a request's success.

The bound on exits leaves one of two replicas running in `outbox_live`; with every replica dead
nothing settles, as in reality.

## 5. Where code and documents disagree

Each is a run that TLC must find violated; `PROJECT.json` "findings" quotes both sides.

1. `live_game_retry` – a rebased offline event is recorded into a cancelled game, whose running
   period `cancel()` leaves `LIVE`. (After an *ended* game this cannot happen: `EndedGameFrozen`.)
2. `result_revision_overwrite` – in a league, a submission replaced by an administrator can still be
   approved through the games endpoint after its successor was confirmed, and takes its place.
   (In a tournament it cannot: `OfficialReplacesOfficial`.)
3. `team_match_dissolved` – an approval of the host's match that commits between the two reads of a
   dissolution is seen by neither: the team is archived with a matched match. (No host seats a team that is
   dissolved already: `OpponentIsActive`.)

The models contain others, for which no run is kept:

* A claim in flight when shutdown begins commits after the release of the worker's leases and leaves a
  lease that only expiry frees.
* The sweep of expired leases does not look at the attempts, so an event whose last attempt ends by an
  expired lease is claimed once more than
  `docs/api/domains/tournament-operations-escalations.md:59` says.
* The endpoint accepts `start` on a paused game, which sets period 1 running beside the current one;
  the console never offers it.
* Submitting a friendly's result while its game is paused closes the period without folding the pause.
* A `start` that waited for the lock of the fixture's cancellation reads the fixture from its older
  snapshot and starts the game. (It cannot get a result: `CancelledFixtureGetsNoResult`.)
* A team replaced between a void and its projection leaves the voided result in the public cache.
  (Where no team can be replaced it cannot happen: `PublicFollowsOfficial`.)
* The platform's second approval can seat a dissolved team. The comment at
  `team-dissolution-tx.ts:100` says why a dissolution withdraws the team's applications: "남겨 두면
  상대가 보관된 팀을 상대로 확정할 수 있다" (left there, an opponent could confirm an archived team), and
  `admin-team-match-recruitments.service.ts:319` refuses teams that are not active. But that team is read
  before the approval waits for its key (`:186-226` and `team-match-game-snapshot.ts:23-24`, before
  `:63` and `:394` there), and a resubmission waits for no key: the dissolution withdraws what there is
  (`:101-109`), the team's manager applies again, the approval reads the team active and waits, the
  dissolution archives the team (`:145`) and commits, the approval finds the application `requested`
  and seats the team. TLC finds these steps when `~platform` is taken out of `OpponentIsActive`. In a
  host's match the order is the other one (`team-matches.service.ts:1606` before `:1613`), and the
  property holds.
* A dissolution cancels the open match and its schedules and leaves the match's game `SCHEDULED`; the
  second team's assignment overwrites a withdrawal with a rejection; an approval may note in the
  opponent's schedule a start the match no longer has, where that team applied again in between.
* `cancelRequest` reads the registration without a lock and writes it without a condition. A
  registration cancelled in between becomes `cancel_requested` again; one confirmed in between notes
  the older status in `cancelPreviousStatus`, so that the approval of the cancellation does not take
  the team out of the bracket, although the comment at `admin-registrations.service.ts:364` wants every
  confirmed team out first. (A cancellation that took the team for confirmed leaves it no seat:
  `OutOfTheBracket`.)
* `submit` tests that the registration is a draft before its transaction only: one cancelled, or
  confirmed by a league's operator, in between is set back to waiting for its payment.
* `rejectCancelRequest` restores a registration in a cancelled tournament, which
  `withdrawCancelRequest` refuses ("R16-001"); an edit may lower a tournament's `teamCount` below the
  places that are held, after which `NeverOverbooked` only lets the count fall.

## 6. Proofs

All theorems hold for any sets of events, workers, requests, handlers and ids, any number and
length of periods, and without any of the bounds (the bounds appear only as guards). Assumptions:
`None` is not a worker, a job, a team or a user; the cap, the lengths and the number of periods are
positive; the sets of teams of `RegistrationCapacity` are finite, as its places are counted.

* **`OutboxWorkerProofs`.** `TypeCorrect`; then `Inv` of `OutboxWorker`, which is inductive. `EffectExactlyOnce`, `PushAfterCommit` and `HandlerKeepsClaim`
  are not inductive alone: what carries them is that a row lock belongs to a handler in its
  transaction, that a heartbeat whose reply is outstanding has made the worker's version stale, and
  that a worker about to push is the only one for its event. `VersionsFence` is an action property
  from the types; `WorkerImplementsLedger` maps every step to a step or stutter of `JobLedger`.
* **`LiveGameProofs`.** The steps are collected in `GameStep`, in which a command may have read any
  state of the fixture, so that `GameConsoleProofs` can use the same lemmas. For any client:
  `TypeCorrect`, `EndedClosed`, `EndedFrozen` (`EndedGameIsClosed` is inductive; after the end no
  period is `LIVE`, which is what refuses a retried event) and `PausedTimeGrows`. Each is proved of
  `GameSpec`, a game to which `GameStep`s happen, and follows for `Spec` by `SpecIsGameSpec`. With
  the console's commands (`~AnyClient`, without which the first of these is false, see the end of
  section 5): `OrderInv` (earlier periods of one that has begun are ended; nothing has begun in a
  scheduled game) gives `PeriodsInOrder`; with `Stopped` (no stopped clock in a running game,
  exactly one in a paused game) it gives `PauseStopsClock`; `EventsInPlay` rests on the order, as
  ending a period turns the next one to halftime; `ClockInv` (the clock of a period yet to run never
  ran, an ended period knows its end, no instant lies ahead of the clock) gives `ClockCorrect`.
  `ImplementsPeriodsCorrect` rests on the order: a game with an open period `StandsAt` it, so that
  what came before is ended and what comes after is not begun, and each command is then one step of
  `MatchPeriods` (`KickOffMapped`, `EndMapped`, `AdvanceMapped`, `StartMapped`, `RevertMapped`,
  `CloseMapped`). A result submitted again after the end is a stutter, by `EndedGameIsClosed`.
  `CancelledNotPlayed` is proved for atomic commands; for transactions it is false (section 5, the
  `start` from an older snapshot). `EndedClosed`, `PausedTimeGrows`, `PauseStopsClock` and
  `CancelledNotPlayed` have no run of their own.
* **`GameConsoleProofs`.** `ConsoleInv`: a request is recorded exactly when its command was
  applied, at a version that has passed since, and `ok` is answered only for recorded requests.
  From it `OkIsTrue`, `OneWinner`, `AppliedAtMostOnce`, `NeverRefused`. Every step of a console is a
  `GameStep` with the fixture it has read (`ConsoleGameStep`), so `ConsoleGame` says that the game of
  the consoles is a `GameSpec`, and what is proved of one game holds under any number of concurrent
  transactions: the `Console…` theorems, `ConsoleImplementsPeriods` among them. `ConsoleIsSerial`
  says more, namely which fixture a command acts on. Its invariant `SnapshotInv` relates the
  snapshot of every open transaction to the game: as long as the version is the one of the snapshot,
  the fixture is the one of the snapshot too, or it was cancelled and the game is not in progress.
  (Only `cancelFixture` changes the fixture and leaves the version, and it is refused while the game
  is in progress; whoever completes the fixture increments the version.) So `end`, and a friendly's
  `submit`, act on the fixture of the moment, and only `start` can act on an older one.
  `CancelledStaysCancelled` follows from that step. The proof does not use the last conjunct of
  `Serializable`: the version protects a cancelled fixture, and the write conflict of the database
  is never what is needed.
* **`GameTakeoverProofs`.** `OrderInv` (reservations are under way, ordinals follow arrival, the
  watermark follows the newest grant as long as it is kept, and nothing is kept when nothing is
  pending) gives `GrantsInOrder` and `OrderForgotten`; `NoSilentLoss` follows from the step.

* **`ResultRevisionProofs`**, for any number of revisions. The effect of a step on the table is
  proved once (`AppendGrows`, `DecideGrows`, `DiscardGrows`), and `Effect` collects what every command
  and review job does to pointer, jobs and reviews, so that preservation is proved once for all of
  them (`EffectKeeps`). The inductive `Inv` adds to the types that a waiting projection is one of a
  revision in the state it projects (`JobsMatch`: decided rows never change, so this stays so), and
  that what the public shows of the pointer is right or its projection waits (`Projecting`). It gives
  `TypeCorrect` and `PublicCorrect`; `DecisionsAreFinal` and `ReplacedBySuccessor` follow from the
  steps under `Inv`. `ReplacedAsksNobody` needs in addition that an open review is one of a row that
  was submitted. `ReviewEnds` follows from the types.
  `ImplementsResultCorrect` rests on three lemmas about the table: an appended row
  (`AppendOfficial`) and a decided one (`DecideOfficial`) add at most themselves to the `OFFICIAL`
  rows, and discarding (`DiscardedOfficial`) changes none of them. `CommandMoves` concludes that a
  command either leaves pointer and `OFFICIAL` rows alone or moves the pointer to a row that was never
  `OFFICIAL`; `MovesMapped` reads that as `Confirm`, `Correct`, `Void` or `Discard`. A projection is
  `Publish` or `Hide`, because it acts only for the current pointer, whose state `Inv` knows
  (`ProjectionMapped`).

* **`TeamMatchRecruitmentProofs`.** `IInv` is the types, `Promises` (the invariants of the runs and
  that a match's host is known) and `Locks`. `Locks` is what makes the promises inductive: who holds
  the match holds it alone and finds it recruiting (`MatchHeld`), an approval that has written finds
  its application as it was when it commits (`WriterHolds`), the list of an assignment
  misses nobody who waits (`ListComplete`), what a dissolution has written stays so (`LeaverHolds`), and
  a cancellation has seen the opponent the match has (`CancelSees`), because the opponent's participants
  refer to the game the cancellation locks. A host's approval that is `seated` has read its team under
  the team's key, which no dissolution passes: `KeyHeld` says that the team stays active until the
  approval commits, and is what `OpponentIsActiveCorrect` rests on. Nothing of the kind is claimed of
  the platform's assignment (section 5). One lemma per request (`ApplyStep`, `ApprovalStep`, `AssignStep`, `CancelStep`,
  `DissolutionStep`) and one per group of one-step operations show it preserved. From `Invariance`
  follow the six invariants, `OpponentIsActiveCorrect` and `ImplementsSeatsCorrect`, for which `Leaves`
  and `Counts` say how applications and seats move in a step.
* **`RegistrationCapacityProofs`.** `IInv` is the types, that each lock has one holder, and for each
  request what it knows (`Requesting`): one that will give a place has counted fewer than the limit
  without its own team (`Roomy`), a decision whose row is `fresh` still decides on a row it may
  decide on (`Decidable`), and a cancellation or removal that holds the lane sees every seat of its
  team (`SeesSeat`). The argument for the places: only holders of the row add a place or change the
  limit, and whoever writes without it gives places back, so a count is at most too high when its
  request commits (`Fewer`). `NeverOverbookedCorrect` needs `Filling` for the place that is added;
  `CancellationStandsCorrect` and `OutOfTheBracketCorrect` follow from the step.

Only model-checked: every liveness property (`AbandonedClaimReturns`, `EventSettles`,
`ExpiredPeriodEnds`, `EndsWithoutOpponent`), and anything about `ENABLED`; the proof system cannot
reach them.

## 7. Not modelled

* Permissions, validation of payloads, wording, audit text, rendering: inputs are already
  admissible, or any request may be refused.
* Line-ups, assists and goalkeepers of an event; an event is its period and what it corrects.
* The cancellation of a friendly's fixture. In `LiveGame` and `GameConsole` no action makes a result
  official (`submitted` records only that one exists), so the refusals after that are left out; what
  becomes of a submitted result is `ResultRevision`, whose link to the live game is `ended`, `goals`.
* Of the results: content, participants and score rules; recovery derivation; the composed resume of a
  league forfeit (its parts are commands modelled here); acknowledgement and resolution of a review by
  operators; the locks of downstream fixtures; the sheet of the shared record before both teams
  confirmed it; standings, advancement and facts that the projections write next to the public cache.
* The cursor and batches of the clock scan: every due game is reached.
* Of the team matches: reading and searching, the booking of the next scan, attendance and guests of a
  schedule, the other consequences of a dissolution (invitations, links, competition entries). Of the
  cancelled match's game only its state.
* Of the registrations: rosters and their locks, terms, the payment provider, what a season carries
  over, kinds and swaps of seats and the fixtures that use them.
* Several API processes for takeover grants.
* Authentication and sessions are not a subject of this project. CRUD modules (teams, notices,
  terms, inquiries, chat, files) have no coordination beyond a single database statement.

## 8. Plan

In order of importance; each with its run, mutants and, except where noted, theorems.

1. `ResultProjection` – the other effects of the result handlers (standings, advancement, roster
   resync) over `OutboxWorker`'s promise: applied out of order or twice they agree with the official
   result; with the shared sheet and the review's acknowledgement and resolution.
2. `ScanChain` – scans that book their successor in their own transaction (reminders, automatic
   cancellation, retention): the chain never breaks and never forks; with the cursor of the clock
   scan.
3. `Lineup` – per-side revisions with their own version; the substitution fold and the shoot-out
   outcome as functions checked against reference definitions over bounded inputs.
4. `EventRecovery` – the gateway's recovery of missed events by sequence, with the client's
   offline queue.
5. Takeover over several processes.
