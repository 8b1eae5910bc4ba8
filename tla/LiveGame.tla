------------------------------ MODULE LiveGame ------------------------------
(***************************************************************************)
(* One game of a team match while it is operated: the lifecycle of         *)
(* v1_games, its periods with their pause-aware clock, the recorded        *)
(* events, and the fixture (v1_team_matches) it belongs to.  The commands  *)
(* are those of apps/v1_api/src/games/games.service.ts, the clock expiry   *)
(* of the worker (jobs/game-clock-expiry.service.ts) and the fixture's     *)
(* cancellation (league-matches/league-match-admin.service.ts).            *)
(*                                                                         *)
(* A command is one atomic step here: it runs under the lock of the game   *)
(* row and compares the version it expects.  GameConsole takes that apart; *)
(* for it, the commands that read the fixture take what they read as a     *)
(* parameter f.  Time is a discrete server clock.                          *)
(***************************************************************************)
EXTENDS Integers, Sequences

CONSTANTS NPeriods,    \* periods of the competition's configuration
          Duration,    \* length of a period, in ticks
          AnyClient,   \* TRUE: any API client; FALSE: the commands the console offers
          MaxTime,     \* bound: the last instant
          MaxEvents,   \* bound: recorded events, corrections included
          MaxBacksteps \* bound: times the server clock is set back by one tick

ASSUME NPeriodsAssumption == NPeriods \in Nat \ {0}
ASSUME DurationAssumption == Duration \in Nat \ {0}
ASSUME AnyClientAssumption == AnyClient \in BOOLEAN

VARIABLES
    kind,         \* "competition" (league or tournament) or "friendly"
    fixture,      \* V1TeamMatch.status
    state,        \* V1Game.state
    period,       \* V1GamePeriod.state
    startedAt, endedAt, pausedAt, pausedTotal,  \* the clock of each period
    events,       \* v1_game_events in order of sequence
    submitted,    \* a result revision has been submitted
    now,          \* the clock of the server
    played,       \* history: ticks each period really ran
    backsteps     \* bound

clocks == <<startedAt, endedAt, pausedAt, pausedTotal>>
time == <<now, played, backsteps>>
gameVars == <<kind, fixture, state, period, clocks, events, submitted>>
vars == <<kind, fixture, state, period, clocks, events, submitted, time>>

Periods == 1..NPeriods
NoTime == -1    \* null
NoEvent == 0    \* reversesEventId is null
GameStates == {"SCHEDULED", "LIVE", "PAUSED", "ENDED", "CANCELLED"}
PeriodStates == {"SCHEDULED", "HALFTIME", "LIVE", "ENDED"}
Event == [period : Periods, reverses : Nat]

GameType ==
    /\ kind \in {"competition", "friendly"}
    /\ fixture \in {"matched", "completed", "cancelled"}
    /\ state \in GameStates
    /\ period \in [Periods -> PeriodStates]
    /\ events \in Seq(Event)
    /\ submitted \in BOOLEAN

ClockType ==
    /\ startedAt \in [Periods -> Int]
    /\ endedAt \in [Periods -> Int]
    /\ pausedAt \in [Periods -> Int]
    /\ pausedTotal \in [Periods -> Nat]
    /\ now \in Nat
    /\ played \in [Periods -> Nat]
    /\ backsteps \in Nat

TypeOK == GameType /\ ClockType

Init ==
    /\ kind \in {"competition", "friendly"}
    /\ fixture = "matched"
    /\ state = "SCHEDULED"
    /\ period = [n \in Periods |-> "SCHEDULED"]
    /\ startedAt = [n \in Periods |-> NoTime]
    /\ endedAt = [n \in Periods |-> NoTime]
    /\ pausedAt = [n \in Periods |-> NoTime]
    /\ pausedTotal = [n \in Periods |-> 0]
    /\ events = <<>>
    /\ submitted = FALSE
    /\ now = 0
    /\ played = [n \in Periods |-> 0]
    /\ backsteps = 0

-----------------------------------------------------------------------------
(* The clock of a period. *)

LivePeriods == {n \in Periods : period[n] = "LIVE"}
OpenPeriods == {n \in Periods : period[n] \in {"LIVE", "HALFTIME"}}

\* Math.max(0, later - earlier): a server clock that was set back never
\* makes a stretch negative.
Stretch(earlier, later) == IF later < earlier THEN 0 ELSE later - earlier

\* resolveOpenPause: the paused stretch of period n is added to its total.
FoldedPause(n) ==
    IF pausedAt[n] = NoTime THEN pausedTotal[n]
    ELSE pausedTotal[n] + Stretch(pausedAt[n], now)

\* closeOpenPeriods: every LIVE or HALFTIME period ends now.
NothingToClose == {}
ToClose == OpenPeriods

CloseOpenPeriods ==
    /\ period' = [n \in Periods |-> IF n \in ToClose THEN "ENDED" ELSE period[n]]
    /\ endedAt' = [n \in Periods |-> IF n \in ToClose THEN now ELSE endedAt[n]]
    /\ pausedTotal' = [n \in Periods |-> IF n \in ToClose THEN FoldedPause(n) ELSE pausedTotal[n]]
    /\ pausedAt' = [n \in Periods |-> IF n \in ToClose THEN NoTime ELSE pausedAt[n]]
    /\ UNCHANGED startedAt

-----------------------------------------------------------------------------
(* executeCommand: start, pause, resume, end.                              *)

\* Whether the fixture, as read, can still be played to a result.
PlayableAlways(f) == TRUE
Playable(f) == f # "cancelled"

\* start.  The transition table allows SCHEDULED -> LIVE and PAUSED -> LIVE
\* to both start and resume; the console offers start on a SCHEDULED game
\* and resume on a PAUSED one.
Start(f) ==
    /\ state = "SCHEDULED" \/ (AnyClient /\ state = "PAUSED")
    /\ kind = "competition" => Playable(f)
    /\ state' = "LIVE"
    /\ period' = [period EXCEPT ![1] = "LIVE"]
    /\ startedAt' = [startedAt EXCEPT ![1] = now]
    /\ UNCHANGED <<kind, fixture, endedAt, pausedAt, pausedTotal, events, submitted, time>>

\* pause: refused during halftime, when no period runs.
Pause ==
    /\ state = "LIVE"
    /\ state' = "PAUSED"
    /\ \E n \in LivePeriods :
          pausedAt' = IF pausedAt[n] = NoTime THEN [pausedAt EXCEPT ![n] = now] ELSE pausedAt
    /\ UNCHANGED <<kind, fixture, period, startedAt, endedAt, pausedTotal, events, submitted, time>>

Resume ==
    /\ state = "PAUSED" \/ (AnyClient /\ state = "SCHEDULED")
    /\ state' = "LIVE"
    /\ \/ /\ LivePeriods = {}
          /\ UNCHANGED <<pausedAt, pausedTotal>>
       \/ \E n \in LivePeriods :
             /\ pausedAt' = [pausedAt EXCEPT ![n] = NoTime]
             /\ pausedTotal' = [pausedTotal EXCEPT ![n] = FoldedPause(n)]
    /\ UNCHANGED <<kind, fixture, period, startedAt, endedAt, events, submitted, time>>

\* end of a competition game: the periods close, the fixture completes
\* (completeTeamMatchAtResultBoundary) and the derived result is submitted
\* (deriveTournamentRevision), all in one transaction.
End(f) ==
    /\ kind = "competition"
    /\ state \in {"LIVE", "PAUSED"}
    /\ Playable(f)
    /\ state' = "ENDED"
    /\ CloseOpenPeriods
    /\ fixture' = "completed"
    /\ submitted' = TRUE
    /\ UNCHANGED <<kind, events, time>>

\* end of a game whose fixture was cancelled: closed as CANCELLED, with
\* neither a result nor a completed fixture.
CloseCancelled(f) ==
    /\ kind = "competition"
    /\ f = "cancelled"
    /\ state \in {"SCHEDULED", "LIVE", "PAUSED"}
    /\ state' = "CANCELLED"
    /\ CloseOpenPeriods
    /\ UNCHANGED <<kind, fixture, events, submitted, time>>

\* cancel(): the periods stay as they are.
Cancel ==
    /\ state \in {"SCHEDULED", "LIVE", "PAUSED"}
    /\ state' = "CANCELLED"
    /\ UNCHANGED <<kind, fixture, period, clocks, events, submitted, time>>

-----------------------------------------------------------------------------
(* Period commands.                                                        *)

\* next-period, the fused form old clients still send (advancePeriod).
NextPeriod ==
    /\ state = "LIVE"
    /\ \E n \in LivePeriods :
          /\ n + 1 \in Periods
          /\ period' = [period EXCEPT ![n] = "ENDED", ![n + 1] = "LIVE"]
          /\ endedAt' = [endedAt EXCEPT ![n] = now]
          /\ startedAt' = [startedAt EXCEPT ![n + 1] = now]
    /\ UNCHANGED <<kind, fixture, state, pausedAt, pausedTotal, events, submitted, time>>

\* endLiveGamePeriod, of the operator's end-period and of the clock expiry.
EndRunningPeriodIfNext(n) ==
    /\ n + 1 \in Periods
    /\ period' = [period EXCEPT ![n] = "ENDED", ![n + 1] = "HALFTIME"]
    /\ endedAt' = [endedAt EXCEPT ![n] = now]
EndRunningPeriod(n) ==
    /\ period' = [m \in Periods |-> IF m = n THEN "ENDED"
                                    ELSE IF m = n + 1 THEN "HALFTIME" ELSE period[m]]
    /\ endedAt' = [endedAt EXCEPT ![n] = now]

EndPeriod ==
    /\ state = "LIVE"
    /\ \E n \in LivePeriods : EndRunningPeriod(n)
    /\ UNCHANGED <<kind, fixture, state, startedAt, pausedAt, pausedTotal, events, submitted, time>>

StartPeriod ==
    /\ state = "LIVE"
    /\ \E n \in {m \in Periods : period[m] = "HALFTIME"} :
          /\ period' = [period EXCEPT ![n] = "LIVE"]
          /\ startedAt' = [startedAt EXCEPT ![n] = now]
    /\ UNCHANGED <<kind, fixture, state, endedAt, pausedAt, pausedTotal, events, submitted, time>>

\* The transition revert-period takes back: into the last period that is at
\* halftime, or runs and is not the first.
RevertTargets == {n \in Periods : period[n] = "HALFTIME" \/ (period[n] = "LIVE" /\ n > 1)}
LastRevertTarget(n) == n \in RevertTargets /\ \A m \in RevertTargets : m <= n
HasEventsNever(n) == FALSE
HasEvents(n) == \E e \in DOMAIN events : events[e].period = n

\* The time a period was ended counts as paused when it runs again.
EndedStretchIgnored(n) == 0
EndedStretchSwapped(n) == endedAt[n] - now
EndedStretch(n) == IF endedAt[n] = NoTime THEN 0 ELSE Stretch(endedAt[n], now)

\* The period that is taken back looks as if it had never begun.
RewindToHalftime == "HALFTIME"
Rewound == "SCHEDULED"

\* revertPeriodTransition
RevertPeriod ==
    /\ state = "LIVE"
    /\ \E n \in Periods :
          /\ LastRevertTarget(n)
          /\ n > 1 /\ period[n - 1] = "ENDED"
          /\ ~HasEvents(n)
          /\ period' = [period EXCEPT ![n] = Rewound, ![n - 1] = "LIVE"]
          /\ startedAt' = [startedAt EXCEPT ![n] = NoTime]
          /\ endedAt' = [endedAt EXCEPT ![n - 1] = NoTime]
          /\ pausedAt' = [pausedAt EXCEPT ![n] = NoTime]
          /\ pausedTotal' = [pausedTotal EXCEPT ![n] = 0,
                                                ![n - 1] = pausedTotal[n - 1] + EndedStretch(n - 1)]
          /\ played' = [played EXCEPT ![n] = 0]
    /\ UNCHANGED <<kind, fixture, state, events, submitted, now, backsteps>>

-----------------------------------------------------------------------------
(* Events.                                                                 *)

Record(n, target) ==
    /\ Len(events) < MaxEvents
    /\ events' = Append(events, [period |-> n, reverses |-> target])
    /\ UNCHANGED <<kind, fixture, state, period, clocks, submitted, time>>

\* appendEvent: only into the running period of a game that is not over.
AppendEvent(n) ==
    /\ state \notin {"ENDED", "CANCELLED"}
    /\ period[n] = "LIVE"
    /\ Record(n, NoEvent)

\* retryEvent, the rebased delivery of an event captured offline: only the
\* period is looked at.
RetryEvent(n) ==
    /\ period[n] = "LIVE"
    /\ Record(n, NoEvent)

\* reverseEvent: once per event, whatever the state of the game.  Its
\* refusal after the result is OFFICIAL is not modelled (no action here
\* makes a result official); the correction carries its target's period.
ReverseEvent(e) ==
    /\ \A c \in DOMAIN events : events[c].reverses # e
    /\ Record(events[e].period, e)

-----------------------------------------------------------------------------
(* The friendly's result, the worker's clock expiry, the fixture, time.    *)

\* submitResultRevision of a friendly: ends the game and closes its open
\* periods without folding an open pause.
SubmitResult(f) ==
    /\ kind = "friendly"
    /\ f \in {"matched", "completed"}
    /\ state \in {"SCHEDULED", "LIVE", "PAUSED", "ENDED"}
    /\ state' = "ENDED"
    /\ period' = [n \in Periods |-> IF n \in OpenPeriods THEN "ENDED" ELSE period[n]]
    /\ endedAt' = [n \in Periods |-> IF n \in OpenPeriods THEN now ELSE endedAt[n]]
    /\ fixture' = "completed"
    /\ submitted' = TRUE
    /\ UNCHANGED <<kind, startedAt, pausedAt, pausedTotal, events, time>>

\* expiredPeriod(): n is the lowest running period and its clock has run out.
Expired(n) ==
    /\ state = "LIVE"
    /\ n \in LivePeriods /\ \A m \in LivePeriods : n <= m
    /\ startedAt[n] # NoTime /\ pausedAt[n] = NoTime
    /\ now - startedAt[n] - pausedTotal[n] >= Duration

ClockExpire ==
    /\ \E n \in Periods : Expired(n)
    /\ \E n \in LivePeriods : EndRunningPeriod(n)
    /\ UNCHANGED <<kind, fixture, state, startedAt, pausedAt, pausedTotal, events, submitted, time>>

\* cancelFixture: refused while the game is in progress, allowed after its
\* end, and it leaves the game alone.
CancelFixture ==
    /\ kind = "competition"
    /\ fixture # "cancelled"
    /\ state \notin {"LIVE", "PAUSED"}
    /\ fixture' = "cancelled"
    /\ UNCHANGED <<kind, state, period, clocks, events, submitted, time>>

Tick ==
    /\ now < MaxTime
    /\ now' = now + 1
    /\ played' = [n \in Periods |-> IF state = "LIVE" /\ n \in LivePeriods
                                    THEN played[n] + 1 ELSE played[n]]
    /\ UNCHANGED <<gameVars, backsteps>>

\* An NTP step or a migrated machine sets the server clock back.
ClockStepsBack ==
    /\ backsteps < MaxBacksteps /\ now > 0
    /\ now' = now - 1
    /\ backsteps' = backsteps + 1
    /\ UNCHANGED <<gameVars, played>>

Operate ==
    \/ Start(fixture) \/ Pause \/ Resume \/ End(fixture) \/ CloseCancelled(fixture)
    \/ Cancel \/ NextPeriod \/ EndPeriod \/ StartPeriod \/ RevertPeriod
    \/ SubmitResult(fixture)
    \/ \E n \in Periods : AppendEvent(n) \/ RetryEvent(n)
    \/ \E e \in DOMAIN events : ReverseEvent(e)

Next == Operate \/ ClockExpire \/ CancelFixture \/ Tick \/ ClockStepsBack

Spec == Init /\ [][Next]_vars

\* The worker polls every persisted clock once a second, so an expiry that
\* stays due is carried out.
FairSpec == Spec /\ WF_vars(ClockExpire)

-----------------------------------------------------------------------------
(* Properties.                                                             *)

\* Periods are gone through in order: the ended ones, then at most one that
\* is at halftime or runs, then the ones to come - through ends, starts,
\* reverts and expiries, of both kinds of game.  (That two periods can never
\* be at halftime is said above startNextPeriod.)
PeriodShape ==
    \A n \in Periods :
       /\ period[n] \in {"LIVE", "HALFTIME"} => OpenPeriods = {n}
       /\ period[n] # "SCHEDULED" => \A m \in 1..(n - 1) : period[m] = "ENDED"

\* A paused game has a running period whose clock is stopped, and a game that
\* runs has no stopped clock: resume can always find what pause stopped, and
\* needs no guard of its own (the comment above the pause guard).
PausedHasLiveClock ==
    /\ state = "PAUSED" => \E n \in LivePeriods : pausedAt[n] # NoTime
    /\ state = "LIVE" => \A n \in Periods : pausedAt[n] = NoTime

\* What the clock of a period shows, to the console and to the expiry.
Shown(n) ==
    LET until == IF period[n] = "ENDED" THEN endedAt[n]
                 ELSE IF pausedAt[n] # NoTime THEN pausedAt[n] ELSE now
    IN  until - startedAt[n] - pausedTotal[n]

\* While the server's clock only advances, the clock of a period shows the
\* time it was played, whatever sequence of pauses, ends, reverts and restarts
\* it went through; also after the end command, with the pause it may find
\* open.  (A friendly's result submission, and cancel(), leave the clock of a
\* paused period as it is.)
ClockCountsPlay ==
    /\ backsteps = 0
    /\ state \in {"LIVE", "PAUSED"} \/ (state = "ENDED" /\ kind = "competition")
    => \A n \in Periods : startedAt[n] # NoTime => Shown(n) = played[n]

\* No event belongs to a period that is yet to start: revert-period refuses
\* once its period has events, whoever recorded them.
EventsInPlayedPeriods ==
    \A e \in DOMAIN events : period[events[e].period] \in {"LIVE", "ENDED"}

\* A game that ended has no open period, halftime included.
EndedGameIsClosed == state = "ENDED" => OpenPeriods = {}

\* The step records an event that is not the correction of another.
CapturesEvent ==
    \E e \in (DOMAIN events') \ (DOMAIN events) : (events')[e].reverses = NoEvent

\* The states of a game's periods are those of a game that goes through them one
\* at a time, takes back the last step only, and leaves them alone when it is
\* over, ended or cancelled: whoever operates it, and whatever clock runs out.
Order == INSTANCE MatchPeriods WITH
    gone <- {n \in Periods : period[n] = "ENDED"},
    running <- LivePeriods,
    waiting <- {n \in Periods : period[n] = "HALFTIME"},
    over <- state \in {"ENDED", "CANCELLED"}

ImplementsPeriods == Order!Spec

\* What ended stays ended: neither the state nor a period changes any more,
\* and only corrections of recorded events are added.  retryEvent does not
\* look at the state of the game: the closed periods are what refuses it.
EndedGameFrozen ==
    [][state = "ENDED" => UNCHANGED <<state, period>> /\ ~CapturesEvent]_vars

\* The game of a cancelled fixture is not in progress: start and the
\* fixture's cancellation exclude each other (assertFixtureGamesNotInProgress
\* and the refusal TOURNAMENT_MATCH_CANCELLED).
CancelledFixtureNotPlayed == fixture = "cancelled" => state \notin {"LIVE", "PAUSED"}

\* Even when the server clock is set back, the paused time of a period that
\* is not rewound never shrinks (the comment in resolveOpenPause).
PausedTimeNeverShrinks ==
    [][\A n \in Periods :
          pausedTotal'[n] < pausedTotal[n] => period'[n] = "SCHEDULED"]_vars

\* A period whose time has run out does not stay running: the worker ends
\* it, the last one too, with no operator at the console.
ExpiredPeriodEnds ==
    \A n \in Periods : Expired(n) ~> ~Expired(n)

\* The code says terminal games reject event mutation (the refusal in
\* appendEvent): no event is captured into a game that is over.
TerminalGameTakesNoEvent ==
    [][(state \in {"ENDED", "CANCELLED"}) => ~CapturesEvent]_vars
=============================================================================
