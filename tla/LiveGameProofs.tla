--------------------------- MODULE LiveGameProofs ---------------------------
(***************************************************************************)
(* Proofs about LiveGame, for any number of periods of any length, any     *)
(* number of events and any instants.                                      *)
(***************************************************************************)
EXTENDS LiveGame, TLAPS

Fixtures == {"matched", "completed", "cancelled"}

\* A step of the game in which a command may have read any state of the
\* fixture, as the commands of GameConsole do.
GameStep ==
    \/ \E f \in Fixtures : Start(f) \/ End(f) \/ CloseCancelled(f) \/ SubmitResult(f)
    \/ Pause \/ Resume \/ Cancel
    \/ NextPeriod \/ EndPeriod \/ StartPeriod \/ RevertPeriod
    \/ \E n \in Periods : AppendEvent(n) \/ RetryEvent(n)
    \/ \E e \in DOMAIN events : ReverseEvent(e)
    \/ ClockExpire \/ CancelFixture \/ Tick \/ ClockStepsBack

\* A game to which such steps happen, whatever surrounds it.
GameSpec == Init /\ [][GameStep]_vars

LEMMA NextIsGameStep == ASSUME TypeOK, [Next]_vars PROVE [GameStep]_vars
BY DEF TypeOK, GameType, Next, Operate, GameStep, Fixtures

LEMMA FoldedPauseType == ASSUME ClockType, NEW n \in Periods PROVE
    FoldedPause(n) \in Nat /\ FoldedPause(n) >= pausedTotal[n]
BY DEF ClockType, FoldedPause, Stretch

LEMMA EndedStretchType == ASSUME ClockType, NEW n \in Periods PROVE EndedStretch(n) \in Nat
BY DEF ClockType, EndedStretch, Stretch

LEMMA PreviousPeriod == ASSUME NEW n \in Periods, n > 1 PROVE n - 1 \in Periods
BY NPeriodsAssumption DEF Periods

-----------------------------------------------------------------------------
(* Types. *)

LEMMA CloseType == ASSUME TypeOK, CloseOpenPeriods PROVE
    /\ period' \in [Periods -> PeriodStates]
    /\ startedAt' \in [Periods -> Int] /\ endedAt' \in [Periods -> Int]
    /\ pausedAt' \in [Periods -> Int] /\ pausedTotal' \in [Periods -> Nat]
<1>1. \A n \in Periods : FoldedPause(n) \in Nat
  BY FoldedPauseType DEF TypeOK
<1>2. pausedTotal' \in [Periods -> Nat]
  BY <1>1 DEF TypeOK, ClockType, CloseOpenPeriods
<1> QED
  BY <1>2 DEF TypeOK, GameType, ClockType, CloseOpenPeriods, PeriodStates, NoTime

LEMMA RecordType == ASSUME TypeOK, NEW n \in Periods, NEW e \in Nat, Record(n, e) PROVE TypeOK'
<1>1. [period |-> n, reverses |-> e] \in Event
  BY DEF Event
<1>2. events' \in Seq(Event)
  BY <1>1 DEF Record, TypeOK, GameType
<1> QED
  BY <1>2 DEF Record, TypeOK, GameType, ClockType, clocks, time

LEMMA TypeStep == ASSUME TypeOK, [GameStep]_vars PROVE TypeOK'
<1> USE DEF GameStates, PeriodStates, Fixtures, NoTime, time, clocks
<1>1. ASSUME NEW f \in Fixtures, Start(f) PROVE TypeOK'
  <2>1. period' \in [Periods -> PeriodStates]
    BY <1>1 DEF TypeOK, GameType, Start
  <2>2. startedAt' \in [Periods -> Int]
    <3>1. startedAt' = [startedAt EXCEPT ![1] = now]
      BY <1>1 DEF Start
    <3>2. startedAt \in [Periods -> Int] /\ now \in Int
      BY DEF TypeOK, ClockType
    <3> QED BY <3>1, <3>2
  <2>3. GameType'
    BY <1>1, <2>1 DEF TypeOK, GameType, Start
  <2>4. ClockType'
    BY <1>1, <2>2 DEF TypeOK, ClockType, Start
  <2> QED BY <2>3, <2>4 DEF TypeOK
<1>2. ASSUME NEW f \in Fixtures, End(f) PROVE TypeOK'
  BY <1>2, CloseType DEF TypeOK, GameType, ClockType, End
<1>3. ASSUME NEW f \in Fixtures, CloseCancelled(f) PROVE TypeOK'
  BY <1>3, CloseType DEF TypeOK, GameType, ClockType, CloseCancelled
<1>4. ASSUME NEW f \in Fixtures, SubmitResult(f) PROVE TypeOK'
  BY <1>4 DEF TypeOK, GameType, ClockType, SubmitResult
<1>5. CASE Pause
  BY <1>5 DEF TypeOK, GameType, ClockType, Pause, LivePeriods
<1>6. CASE Resume
  <2>1. \A n \in Periods : FoldedPause(n) \in Nat
    BY FoldedPauseType DEF TypeOK
  <2>2. pausedAt' \in [Periods -> Int] /\ pausedTotal' \in [Periods -> Nat]
    BY <1>6, <2>1 DEF TypeOK, ClockType, Resume, LivePeriods
  <2> QED BY <1>6, <2>2 DEF TypeOK, GameType, ClockType, Resume
<1>7. CASE Cancel
  BY <1>7 DEF TypeOK, GameType, ClockType, Cancel
<1>8. CASE NextPeriod
  <2>1. period' \in [Periods -> PeriodStates]
    BY <1>8 DEF TypeOK, GameType, NextPeriod
  <2>2. startedAt' \in [Periods -> Int]
    BY <1>8 DEF TypeOK, ClockType, NextPeriod
  <2>3. endedAt' \in [Periods -> Int]
    <3>1. PICK n \in Periods : endedAt' = [endedAt EXCEPT ![n] = now]
      BY <1>8 DEF NextPeriod, LivePeriods
    <3> QED BY <3>1 DEF TypeOK, ClockType
  <2> QED BY <1>8, <2>1, <2>2, <2>3 DEF TypeOK, GameType, ClockType, NextPeriod
<1>9. CASE EndPeriod
  BY <1>9 DEF TypeOK, GameType, ClockType, EndPeriod, EndRunningPeriod, LivePeriods
<1>10. CASE StartPeriod
  BY <1>10 DEF TypeOK, GameType, ClockType, StartPeriod
<1>11. CASE RevertPeriod
  <2> PICK n \in Periods :
        /\ n - 1 \in Periods
        /\ period' = [period EXCEPT ![n] = Rewound, ![n - 1] = "LIVE"]
        /\ startedAt' = [startedAt EXCEPT ![n] = NoTime]
        /\ endedAt' = [endedAt EXCEPT ![n - 1] = NoTime]
        /\ pausedAt' = [pausedAt EXCEPT ![n] = NoTime]
        /\ pausedTotal' = [pausedTotal EXCEPT ![n] = 0,
                                              ![n - 1] = pausedTotal[n - 1] + EndedStretch(n - 1)]
        /\ played' = [played EXCEPT ![n] = 0]
    BY <1>11, PreviousPeriod DEF RevertPeriod
  <2>1. EndedStretch(n - 1) \in Nat
    BY EndedStretchType DEF TypeOK
  <2>2. period' \in [Periods -> PeriodStates]
    BY DEF TypeOK, GameType, Rewound
  <2>3. pausedTotal' \in [Periods -> Nat] /\ played' \in [Periods -> Nat]
    BY <2>1 DEF TypeOK, ClockType
  <2>4. startedAt' \in [Periods -> Int] /\ endedAt' \in [Periods -> Int] /\ pausedAt' \in [Periods -> Int]
    BY DEF TypeOK, ClockType
  <2> QED BY <1>11, <2>2, <2>3, <2>4 DEF TypeOK, GameType, ClockType, RevertPeriod
<1>12. ASSUME NEW n \in Periods, AppendEvent(n) PROVE TypeOK'
  BY <1>12, RecordType DEF AppendEvent, NoEvent
<1>13. ASSUME NEW n \in Periods, RetryEvent(n) PROVE TypeOK'
  BY <1>13, RecordType DEF RetryEvent, NoEvent
<1>14. ASSUME NEW e \in DOMAIN events, ReverseEvent(e) PROVE TypeOK'
  <2>1. e \in Nat /\ events[e].period \in Periods
    <3>1. e \in 1..Len(events) /\ Len(events) \in Nat
      BY DEF TypeOK, GameType
    <3>2. events[e] \in Event
      BY <3>1 DEF TypeOK, GameType
    <3> QED BY <3>1, <3>2 DEF Event
  <2> QED BY <1>14, <2>1, RecordType DEF ReverseEvent
<1>15. CASE ClockExpire
  BY <1>15 DEF TypeOK, GameType, ClockType, ClockExpire, EndRunningPeriod, LivePeriods
<1>16. CASE CancelFixture
  BY <1>16 DEF TypeOK, GameType, ClockType, CancelFixture
<1>17. CASE Tick
  BY <1>17 DEF TypeOK, GameType, ClockType, Tick, gameVars
<1>18. CASE ClockStepsBack
  BY <1>18 DEF TypeOK, GameType, ClockType, ClockStepsBack, gameVars
<1>19. CASE UNCHANGED vars
  BY <1>19 DEF TypeOK, GameType, ClockType, vars
<1> QED
  BY <1>1, <1>2, <1>3, <1>4, <1>5, <1>6, <1>7, <1>8, <1>9, <1>10, <1>11, <1>12, <1>13, <1>14,
     <1>15, <1>16, <1>17, <1>18, <1>19 DEF GameStep

LEMMA InitType == Init => TypeOK
<1> SUFFICES ASSUME Init PROVE TypeOK
  OBVIOUS
<1>1. GameType
  <2>1. events \in Seq(Event)
    BY DEF Init
  <2>2. period \in [Periods -> PeriodStates]
    BY DEF Init, PeriodStates
  <2> QED BY <2>1, <2>2 DEF Init, GameType, GameStates
<1>2. ClockType
  BY DEF Init, ClockType, NoTime
<1> QED
  BY <1>1, <1>2 DEF TypeOK

LEMMA GameTyped == GameSpec => []TypeOK
<1>1. TypeOK /\ [GameStep]_vars => TypeOK'
  BY TypeStep
<1> QED
  BY <1>1, InitType, PTL DEF GameSpec

LEMMA SpecIsGameSpec == Spec => GameSpec
<1>1. TypeOK /\ [Next]_vars => TypeOK'
  BY NextIsGameStep, TypeStep
<1>2. TypeOK /\ [Next]_vars => [GameStep]_vars
  BY NextIsGameStep
<1> QED
  BY <1>1, <1>2, InitType, PTL DEF Spec, GameSpec

\* Every variable of the game keeps its type.
THEOREM TypeCorrect == Spec => []TypeOK
BY SpecIsGameSpec, GameTyped, PTL

-----------------------------------------------------------------------------
(* What ended stays ended, and paused time only grows: for any client.     *)

\* Closing leaves no open period.
LEMMA ClosedByClosing == ASSUME CloseOpenPeriods PROVE OpenPeriods' = {}
BY DEF CloseOpenPeriods, ToClose, OpenPeriods

LEMMA ClosedStep == ASSUME TypeOK, EndedGameIsClosed, [GameStep]_vars PROVE EndedGameIsClosed'
<1>1. ASSUME NEW f \in Fixtures, End(f) PROVE EndedGameIsClosed'
  BY <1>1, ClosedByClosing DEF End, EndedGameIsClosed
<1>2. ASSUME NEW f \in Fixtures, CloseCancelled(f) PROVE EndedGameIsClosed'
  BY <1>2, ClosedByClosing DEF CloseCancelled, EndedGameIsClosed
<1>3. ASSUME NEW f \in Fixtures, SubmitResult(f) PROVE EndedGameIsClosed'
  BY <1>3 DEF SubmitResult, EndedGameIsClosed, OpenPeriods
<1>4. CASE state' # "ENDED"
  BY <1>4 DEF EndedGameIsClosed
<1>5. CASE UNCHANGED <<state, period>>
  BY <1>5 DEF EndedGameIsClosed, OpenPeriods
<1>6. ASSUME state' = "ENDED" PROVE
        \/ \E f \in Fixtures : End(f) \/ CloseCancelled(f) \/ SubmitResult(f)
        \/ UNCHANGED <<state, period>>
  <2>1. ~Pause /\ ~Resume /\ ~Cancel /\ \A f \in Fixtures : ~Start(f)
    BY <1>6 DEF Start, Pause, Resume, Cancel
  <2>2. ~NextPeriod /\ ~EndPeriod /\ ~StartPeriod /\ ~RevertPeriod /\ ~ClockExpire
    <3>1. ~(state = "LIVE" /\ UNCHANGED state)
      BY <1>6
    <3> QED BY <3>1 DEF NextPeriod, EndPeriod, StartPeriod, RevertPeriod, ClockExpire, Expired
  <2>3. CASE \/ \E n \in Periods : AppendEvent(n) \/ RetryEvent(n)
             \/ \E e \in DOMAIN events : ReverseEvent(e)
             \/ CancelFixture \/ Tick \/ ClockStepsBack \/ UNCHANGED vars
    BY <2>3 DEF AppendEvent, RetryEvent, ReverseEvent, Record, CancelFixture, Tick, ClockStepsBack,
       gameVars, vars
  <2> QED BY <2>1, <2>2, <2>3 DEF GameStep
<1>7. CASE \E f \in Fixtures : End(f) \/ CloseCancelled(f) \/ SubmitResult(f)
  BY <1>1, <1>2, <1>3, <1>7
<1> QED
  BY <1>4, <1>5, <1>6, <1>7

LEMMA GameClosed == GameSpec => []EndedGameIsClosed
<1>1. Init => EndedGameIsClosed
  BY DEF Init, EndedGameIsClosed
<1>2. TypeOK /\ EndedGameIsClosed /\ [GameStep]_vars => EndedGameIsClosed'
  BY ClosedStep
<1> QED
  BY <1>1, <1>2, GameTyped, PTL DEF GameSpec

\* A game that ended has no open period, halftime included.
THEOREM EndedClosed == Spec => []EndedGameIsClosed
BY SpecIsGameSpec, GameClosed, PTL

LEMMA CorrectionCapturesNothing == ASSUME TypeOK, NEW e \in DOMAIN events, ReverseEvent(e)
                                   PROVE ~CapturesEvent
<1>1. events' = Append(events, [period |-> events[e].period, reverses |-> e])
  BY DEF ReverseEvent, Record
<1>2. events \in Seq(Event) /\ e \in 1..Len(events) /\ Len(events) \in Nat
  BY DEF TypeOK, GameType
<1>3. ASSUME NEW c \in (DOMAIN events') \ DOMAIN events PROVE (events')[c].reverses = e
  <2>1. c = Len(events) + 1
    BY <1>1, <1>2, <1>3
  <2>2. (events')[c] = [period |-> events[e].period, reverses |-> e]
    BY <1>1, <1>2, <2>1
  <2> QED BY <2>2
<1> QED
  BY <1>2, <1>3 DEF CapturesEvent, NoEvent

LEMMA FrozenStep == ASSUME TypeOK, EndedGameIsClosed, [GameStep]_vars, state = "ENDED"
                    PROVE UNCHANGED <<state, period>> /\ ~CapturesEvent
<1>1. \A n \in Periods : period[n] \notin {"LIVE", "HALFTIME"}
  BY DEF EndedGameIsClosed, OpenPeriods
<1>2. ASSUME NEW f \in Fixtures, SubmitResult(f) PROVE UNCHANGED <<state, period>>
  BY <1>1, <1>2 DEF SubmitResult, OpenPeriods, TypeOK, GameType
<1>3. CASE \E e \in DOMAIN events : ReverseEvent(e)
  BY <1>3, CorrectionCapturesNothing DEF ReverseEvent, Record
<1>4. ASSUME UNCHANGED events PROVE ~CapturesEvent
  BY <1>4 DEF CapturesEvent
<1>5. ASSUME ~(\E e \in DOMAIN events : ReverseEvent(e)) PROVE
        \/ UNCHANGED <<state, period, events>>
        \/ \E f \in Fixtures : SubmitResult(f) /\ UNCHANGED events
  BY <1>1, <1>5 DEF GameStep, vars, Start, End, CloseCancelled, SubmitResult, Pause, Resume, Cancel,
     NextPeriod, EndPeriod, StartPeriod, RevertPeriod, AppendEvent, RetryEvent, ClockExpire,
     CancelFixture, Tick, ClockStepsBack, gameVars, LivePeriods
<1> QED
  BY <1>2, <1>3, <1>4, <1>5

LEMMA GameFrozen == GameSpec => EndedGameFrozen
<1>1. TypeOK /\ EndedGameIsClosed /\ [GameStep]_vars =>
        [(state = "ENDED" => UNCHANGED <<state, period>> /\ ~CapturesEvent)]_vars
  BY FrozenStep
<1> QED
  BY <1>1, GameTyped, GameClosed, PTL DEF GameSpec, EndedGameFrozen

\* After the end neither the state nor a period changes, and only corrections
\* are recorded, although retryEvent never looks at the state of the game.
THEOREM EndedFrozen == Spec => EndedGameFrozen
BY SpecIsGameSpec, GameFrozen, PTL

LEMMA PausedTimeStep == ASSUME TypeOK, [GameStep]_vars, NEW n \in Periods PROVE
    pausedTotal'[n] < pausedTotal[n] => period'[n] = "SCHEDULED"
<1> DEFINE Grows == pausedTotal'[n] >= pausedTotal[n]
<1>1. pausedTotal \in [Periods -> Nat] /\ period \in [Periods -> PeriodStates]
  BY DEF TypeOK, GameType, ClockType
<1>2. pausedTotal'[n] \in Nat
  BY TypeStep DEF TypeOK, ClockType
<1>3. \A m \in Periods : FoldedPause(m) \in Nat /\ FoldedPause(m) >= pausedTotal[m]
  BY FoldedPauseType DEF TypeOK
<1>4. CASE CloseOpenPeriods
  BY <1>1, <1>3, <1>4 DEF CloseOpenPeriods
<1>5. CASE Resume
  BY <1>1, <1>3, <1>5 DEF Resume, LivePeriods
<1>6. CASE RevertPeriod
  <2> PICK k \in Periods :
        /\ k - 1 \in Periods
        /\ period' = [period EXCEPT ![k] = Rewound, ![k - 1] = "LIVE"]
        /\ pausedTotal' = [pausedTotal EXCEPT ![k] = 0,
                                              ![k - 1] = pausedTotal[k - 1] + EndedStretch(k - 1)]
    BY <1>6, PreviousPeriod DEF RevertPeriod
  <2>1. EndedStretch(k - 1) \in Nat
    BY EndedStretchType DEF TypeOK
  <2>2. k # k - 1
    BY DEF Periods
  <2>3. CASE n = k
    <3>1. period'[n] = "SCHEDULED"
      BY <1>1, <2>2, <2>3 DEF Rewound
    <3> QED BY <3>1
  <2>4. CASE n = k - 1
    BY <1>1, <2>1, <2>4
  <2>5. CASE n # k /\ n # k - 1
    BY <1>1, <2>5
  <2> QED BY <2>3, <2>4, <2>5
<1>7. CASE UNCHANGED pausedTotal
  BY <1>1, <1>7
<1>8. CloseOpenPeriods \/ Resume \/ RevertPeriod \/ UNCHANGED pausedTotal
  BY DEF GameStep, vars, clocks, Start, End, CloseCancelled, SubmitResult, Pause, Cancel,
     NextPeriod, EndPeriod, StartPeriod, AppendEvent, RetryEvent, ReverseEvent, Record,
     ClockExpire, CancelFixture, Tick, ClockStepsBack, gameVars
<1> QED
  BY <1>4, <1>5, <1>6, <1>7, <1>8

LEMMA GamePausedTime == GameSpec => PausedTimeNeverShrinks
<1>1. TypeOK /\ [GameStep]_vars =>
        [\A n \in Periods : pausedTotal'[n] < pausedTotal[n] => period'[n] = "SCHEDULED"]_vars
  BY PausedTimeStep
<1> QED
  BY <1>1, GameTyped, PTL DEF GameSpec, PausedTimeNeverShrinks

\* The paused time of a period shrinks only when the period is rewound,
\* however the server clock is set.
THEOREM PausedTimeGrows == Spec => PausedTimeNeverShrinks
BY SpecIsGameSpec, GamePausedTime, PTL

-----------------------------------------------------------------------------
(* The order of the periods and their stopped clocks, when the game is     *)
(* operated with the commands the console offers.                          *)

InOrder ==
    \A m, n \in Periods : m < n /\ period[n] # "SCHEDULED" => period[m] = "ENDED"

NotBegun == state = "SCHEDULED" => \A n \in Periods : period[n] = "SCHEDULED"

OrderInv == TypeOK /\ InOrder /\ NotBegun

\* After a period that is not over, every period is yet to come.
LEMMA LaterPeriods == ASSUME TypeOK, InOrder, NEW n \in Periods, period[n] # "ENDED",
                             NEW m \in Periods, n < m
                      PROVE period[m] = "SCHEDULED"
BY DEF TypeOK, GameType, InOrder

\* In a game that has not begun, and in one whose state and periods are left
\* alone, the order stays.
LEMMA OrderKept == ASSUME InOrder, NotBegun, UNCHANGED <<state, period>> PROVE InOrder' /\ NotBegun'
BY DEF InOrder, NotBegun

\* What ends the open periods keeps the order.
LEMMA OrderClosed == ASSUME TypeOK, InOrder,
        period' = [n \in Periods |-> IF n \in OpenPeriods THEN "ENDED" ELSE period[n]]
    PROVE InOrder'
BY DEF TypeOK, GameType, PeriodStates, InOrder, OpenPeriods

LEMMA OrderEnded == ASSUME OrderInv, state = "LIVE", UNCHANGED state,
                           NEW n \in Periods, period[n] = "LIVE", EndRunningPeriod(n)
    PROVE InOrder' /\ NotBegun'
<1>1. \A m \in Periods : n < m => period[m] = "SCHEDULED"
  BY LaterPeriods DEF OrderInv
<1>2. \A m \in Periods : m < n => period[m] = "ENDED"
  BY DEF OrderInv, InOrder
<1>3. \A m \in Periods : /\ m < n => period'[m] = "ENDED"
                         /\ m = n => period'[m] = "ENDED"
                         /\ m > n + 1 => period'[m] = "SCHEDULED"
  BY <1>1, <1>2 DEF EndRunningPeriod, Periods
<1>4. \A m \in Periods : m \in Int /\ n \in Int
  BY DEF Periods
<1> QED
  BY <1>3, <1>4 DEF InOrder, NotBegun

\* A step to periods of which those before some k are over, and
\* those after it yet to come.
LEMMA OrderAround ==
    ASSUME NEW k \in Int,
           \A m \in Periods : /\ m < k => period'[m] = "ENDED"
                              /\ m > k => period'[m] = "SCHEDULED"
    PROVE  InOrder'
<1>1. \A m \in Periods : m \in Int
  BY DEF Periods
<1>2. SUFFICES ASSUME NEW m \in Periods, NEW n \in Periods, m < n, period'[n] # "SCHEDULED"
      PROVE period'[m] = "ENDED"
  BY DEF InOrder
<1>3. ~(n > k)
  BY <1>2
<1>4. m < k
  BY <1>1, <1>2, <1>3
<1> QED
  BY <1>4

LEMMA OrderStep == ASSUME ~AnyClient, OrderInv, [GameStep]_vars PROVE OrderInv'
<1>1. SUFFICES InOrder' /\ NotBegun'
  BY TypeStep DEF OrderInv
<1>2. period \in [Periods -> PeriodStates] /\ InOrder /\ NotBegun /\ TypeOK
  BY DEF OrderInv, TypeOK, GameType
<1>3. \A n \in Periods : n \in Int
  BY DEF Periods
<1>4. ASSUME NEW f \in Fixtures, Start(f) PROVE InOrder' /\ NotBegun'
  <2>1. \A n \in Periods : period[n] = "SCHEDULED" /\ ~(n < 1)
    BY <1>2, <1>4 DEF Start, NotBegun, Periods
  <2>2. \A n \in Periods : n # 1 => period'[n] = "SCHEDULED"
    BY <1>2, <1>4, <2>1 DEF Start
  <2> QED BY <1>3, <1>4, <2>1, <2>2 DEF Start, InOrder, NotBegun
<1>5. ASSUME NEW f \in Fixtures, End(f) \/ CloseCancelled(f) \/ SubmitResult(f)
      PROVE InOrder' /\ NotBegun'
  <2>1. period' = [n \in Periods |-> IF n \in OpenPeriods THEN "ENDED" ELSE period[n]]
    BY <1>5 DEF End, CloseCancelled, SubmitResult, CloseOpenPeriods, ToClose
  <2>2. state' # "SCHEDULED"
    BY <1>5 DEF End, CloseCancelled, SubmitResult
  <2> QED BY <1>2, <2>1, <2>2, OrderClosed DEF NotBegun
<1>6. CASE UNCHANGED <<state, period>>
  BY <1>2, <1>6, OrderKept
<1>7. CASE UNCHANGED period /\ state' # "SCHEDULED"
  BY <1>2, <1>7 DEF InOrder, NotBegun
<1>8. CASE NextPeriod
  <2> PICK n \in LivePeriods :
        /\ n + 1 \in Periods
        /\ period' = [period EXCEPT ![n] = "ENDED", ![n + 1] = "LIVE"]
    BY <1>8 DEF NextPeriod
  <2>1. n \in Periods /\ period[n] = "LIVE" /\ state' = "LIVE"
    BY <1>8 DEF LivePeriods, NextPeriod
  <2>2. \A m \in Periods : n < m => period[m] = "SCHEDULED"
    BY <1>2, <2>1, LaterPeriods
  <2>3. \A m \in Periods : m < n => period[m] = "ENDED"
    BY <1>2, <2>1 DEF InOrder
  <2>4. \A m \in Periods : /\ m < n + 1 => period'[m] = "ENDED"
                           /\ m > n + 1 => period'[m] = "SCHEDULED"
    BY <1>2, <1>3, <2>1, <2>2, <2>3
  <2>5. InOrder'
    <3> n + 1 \in Int
      BY <1>3, <2>1
    <3> QED BY <2>4, OrderAround
  <2> QED BY <2>1, <2>5 DEF NotBegun
<1>9. CASE EndPeriod
  BY <1>9, OrderEnded DEF EndPeriod, LivePeriods, OrderInv
<1>10. CASE StartPeriod
  <2> PICK n \in Periods : period[n] = "HALFTIME" /\ period' = [period EXCEPT ![n] = "LIVE"]
    BY <1>10 DEF StartPeriod
  <2>1. \A m \in Periods : m # n => period'[m] = period[m]
    BY <1>2
  <2>2. \A m \in Periods : n < m => period[m] = "SCHEDULED"
    BY <1>2, LaterPeriods
  <2>3. \A m \in Periods : m < n => period[m] = "ENDED"
    BY <1>2 DEF InOrder
  <2> QED BY <1>2, <1>3, <1>10, <2>1, <2>2, <2>3 DEF StartPeriod, InOrder, NotBegun
<1>11. CASE RevertPeriod
  <2> PICK n \in Periods :
        /\ n - 1 \in Periods /\ n \in RevertTargets
        /\ period' = [period EXCEPT ![n] = Rewound, ![n - 1] = "LIVE"]
    BY <1>11, PreviousPeriod DEF RevertPeriod, LastRevertTarget
  <2>1. period[n] # "ENDED" /\ period[n] # "SCHEDULED"
    BY DEF RevertTargets
  <2>2. \A m \in Periods : n < m => period[m] = "SCHEDULED"
    BY <1>2, <2>1, LaterPeriods
  <2>3. \A m \in Periods : m < n => period[m] = "ENDED"
    BY <1>2, <2>1 DEF InOrder
  <2>4. \A m \in Periods : /\ m < n - 1 => period'[m] = "ENDED"
                           /\ m > n - 1 => period'[m] = "SCHEDULED"
    <3>1. \A m \in Periods : m > n => period'[m] = period[m]
      BY <1>2, <1>3
    <3>2. \A m \in Periods : m < n - 1 => period'[m] = period[m]
      BY <1>2, <1>3
    <3>3. period'[n] = "SCHEDULED"
      BY <1>2, <1>3 DEF Rewound
    <3>4. \A m \in Periods : m > n - 1 => m > n \/ m = n
      BY <1>3
    <3>5. \A m \in Periods : m < n - 1 => m < n
      BY <1>3
    <3> QED BY <2>2, <2>3, <3>1, <3>2, <3>3, <3>4, <3>5
  <2>5. InOrder'
    <3> n - 1 \in Int
      BY <1>3
    <3> QED BY <2>4, OrderAround
  <2> QED BY <1>11, <2>5 DEF NotBegun, RevertPeriod
<1>12. CASE ClockExpire
  BY <1>12, OrderEnded DEF ClockExpire, Expired, LivePeriods, OrderInv
<1>13. \/ \E f \in Fixtures : Start(f) \/ End(f) \/ CloseCancelled(f) \/ SubmitResult(f)
       \/ NextPeriod \/ EndPeriod \/ StartPeriod \/ RevertPeriod \/ ClockExpire
       \/ UNCHANGED <<state, period>> \/ (UNCHANGED period /\ state' # "SCHEDULED")
  BY DEF GameStep, vars, Pause, Resume, Cancel, AppendEvent, RetryEvent, ReverseEvent, Record,
     CancelFixture, Tick, ClockStepsBack, gameVars
<1> QED
  BY <1>4, <1>5, <1>6, <1>7, <1>8, <1>9, <1>10, <1>11, <1>12, <1>13

LEMMA OrderImpliesShape == OrderInv => PeriodShape
<1> SUFFICES ASSUME OrderInv, NEW n \in Periods PROVE
      /\ period[n] \in {"LIVE", "HALFTIME"} => OpenPeriods = {n}
      /\ period[n] # "SCHEDULED" => \A m \in 1..(n - 1) : period[m] = "ENDED"
  BY DEF PeriodShape
<1>1. \A m, k \in Periods : m = k \/ m < k \/ k < m
  BY DEF Periods
<1>2. ASSUME period[n] \in {"LIVE", "HALFTIME"} PROVE OpenPeriods = {n}
  <2>1. ASSUME NEW m \in OpenPeriods PROVE m = n
    BY <1>1, <1>2, <2>1 DEF OpenPeriods, OrderInv, InOrder
  <2> QED BY <1>2, <2>1 DEF OpenPeriods
<1>3. \A m \in 1..(n - 1) : m \in Periods /\ m < n
  BY NPeriodsAssumption DEF Periods
<1> QED
  BY <1>2, <1>3 DEF OrderInv, InOrder

LEMMA GameOrdered == ASSUME ~AnyClient PROVE GameSpec => []OrderInv
<1>1. Init => OrderInv
  <2> SUFFICES ASSUME Init PROVE InOrder /\ NotBegun
    BY InitType DEF OrderInv
  <2>1. \A n \in Periods : period[n] = "SCHEDULED"
    BY DEF Init
  <2> QED BY <2>1 DEF InOrder, NotBegun
<1>2. OrderInv /\ [GameStep]_vars => OrderInv'
  BY OrderStep DEF OrderInv
<1> QED
  BY <1>1, <1>2, PTL DEF GameSpec

\* With the commands the console offers, the periods are gone through in
\* order and at most one of them is open.
THEOREM PeriodsInOrder == ASSUME ~AnyClient PROVE Spec => []PeriodShape
BY SpecIsGameSpec, GameOrdered, OrderImpliesShape, PTL

-----------------------------------------------------------------------------
(* The refinement of MatchPeriods: where a game stands, and what each      *)
(* command does to that.                                                   *)

Gone == {n \in Periods : period[n] = "ENDED"}
Waiting == {n \in Periods : period[n] = "HALFTIME"}
Over == state \in {"ENDED", "CANCELLED"}

\* A game with an open period has come to that one, and has no other.
LEMMA StandsAt == ASSUME OrderInv, NEW n \in Periods, period[n] \in {"LIVE", "HALFTIME"} PROVE
    /\ Gone = 1..(n - 1)
    /\ LivePeriods \cup Waiting = {n}
    /\ period[n] = "LIVE" => LivePeriods = {n} /\ Waiting = {}
    /\ period[n] = "HALFTIME" => LivePeriods = {} /\ Waiting = {n}
<1>1. \A m \in Periods : n < m => period[m] = "SCHEDULED"
  BY LaterPeriods DEF OrderInv
<1>2. \A m \in Periods : m < n => period[m] = "ENDED"
  BY DEF OrderInv, InOrder
<1>3. \A m \in Periods : m < n \/ m = n \/ n < m
  BY DEF Periods
<1>4. \A m : m \in 1..(n - 1) <=> m \in Periods /\ m < n
  BY NPeriodsAssumption DEF Periods
<1>5. \A m \in Periods : (period[m] = "ENDED") <=> m < n
  BY <1>1, <1>2, <1>3
<1>6. \A m \in Periods : period[m] \in {"LIVE", "HALFTIME"} <=> m = n
  BY <1>1, <1>2, <1>3
<1>7. Gone = 1..(n - 1)
  BY <1>4, <1>5 DEF Gone
<1>8. LivePeriods \cup Waiting = {n}
  BY <1>6 DEF LivePeriods, Waiting
<1> QED
  BY <1>6, <1>7, <1>8 DEF LivePeriods, Waiting

LEMMA EndMapped == ASSUME OrderInv, state = "LIVE", UNCHANGED state,
                          NEW n \in Periods, period[n] = "LIVE", EndRunningPeriod(n)
    PROVE Order!EndPeriod(n)
<1>1. Gone = 1..(n - 1) /\ LivePeriods = {n} /\ Waiting = {}
  BY StandsAt
<1>2. n + 1 # n
  BY DEF Periods
<1>3. period' = [m \in Periods |-> IF m = n THEN "ENDED"
                                  ELSE IF m = n + 1 THEN "HALFTIME" ELSE period[m]]
  BY DEF EndRunningPeriod
<1>4. n + 1 \in Periods => period[n + 1] = "SCHEDULED"
  BY LaterPeriods DEF OrderInv, Periods
<1>5. Gone' = Gone \cup {n}
  BY <1>3, <1>4 DEF Gone
<1>6. LivePeriods' = {}
  BY <1>1, <1>2, <1>3 DEF LivePeriods
<1>7. Waiting' = {n + 1} \cap Periods
  BY <1>1, <1>2, <1>3 DEF Waiting
<1> QED
  BY <1>1, <1>5, <1>6, <1>7 DEF Order!EndPeriod, Order!Reached, Gone, Waiting

\* The end of the game takes what is open with it.
LEMMA CloseMapped == ASSUME OrderInv, state \notin {"ENDED", "CANCELLED"},
        state' \in {"ENDED", "CANCELLED"},
        period' = [n \in Periods |-> IF n \in OpenPeriods THEN "ENDED" ELSE period[n]]
    PROVE Order!Finish
<1>1. Gone' = Gone \cup LivePeriods \cup Waiting
  BY DEF Gone, LivePeriods, Waiting, OpenPeriods
<1>2. LivePeriods' = {} /\ Waiting' = {}
  BY DEF LivePeriods, Waiting, OpenPeriods
<1> QED
  BY <1>1, <1>2 DEF Order!Finish, Gone, Waiting

LEMMA AdvanceMapped == ASSUME OrderInv, NextPeriod PROVE
    \E n \in Periods : Order!Advance(n)
<1> PICK n \in LivePeriods :
      /\ n + 1 \in Periods
      /\ period' = [period EXCEPT ![n] = "ENDED", ![n + 1] = "LIVE"]
  BY DEF NextPeriod
<1>1. n \in Periods /\ period[n] = "LIVE" /\ n + 1 # n
  BY DEF LivePeriods, Periods
<1>2. Gone = 1..(n - 1) /\ LivePeriods = {n} /\ Waiting = {}
  BY <1>1, StandsAt
<1>3. period[n + 1] = "SCHEDULED"
  BY <1>1, LaterPeriods DEF OrderInv, Periods
<1>4. period \in [Periods -> PeriodStates]
  BY DEF OrderInv, TypeOK, GameType
<1>5. /\ period'[n] = "ENDED" /\ period'[n + 1] = "LIVE"
      /\ \A m \in Periods \ {n, n + 1} : period'[m] = period[m]
  BY <1>1, <1>4
<1>6. \A m \in Periods : (m # n => period[m] # "LIVE") /\ period[m] # "HALFTIME"
  BY <1>2 DEF LivePeriods, Waiting
<1>7. Gone' = Gone \cup {n}
  BY <1>1, <1>3, <1>5 DEF Gone
<1>8. LivePeriods' = {n + 1} /\ Waiting' = {}
  <2>1. \A m \in Periods \ {n, n + 1} : period'[m] \notin {"LIVE", "HALFTIME"}
    BY <1>5, <1>6
  <2> QED BY <1>1, <1>5, <2>1 DEF LivePeriods, Waiting
<1>9. Order!Advance(n)
  BY <1>2, <1>7, <1>8 DEF NextPeriod, Order!Advance, Order!Reached, Gone, Waiting
<1> QED
  BY <1>1, <1>9

LEMMA StartMapped == ASSUME OrderInv, StartPeriod PROVE \E n \in Periods : Order!StartPeriod(n)
<1> PICK n \in Periods : period[n] = "HALFTIME" /\ period' = [period EXCEPT ![n] = "LIVE"]
  BY DEF StartPeriod
<1>1. Gone = 1..(n - 1) /\ LivePeriods = {} /\ Waiting = {n}
  BY StandsAt
<1>2. period \in [Periods -> PeriodStates]
  BY DEF OrderInv, TypeOK, GameType
<1>3. \A m \in Periods : period'[m] = IF m = n THEN "LIVE" ELSE period[m]
  BY <1>2
<1>4. Gone' = Gone
  BY <1>3 DEF Gone
<1>5. LivePeriods' = {n} /\ Waiting' = {}
  BY <1>1, <1>3 DEF LivePeriods, Waiting
<1>6. Order!StartPeriod(n)
  BY <1>1, <1>4, <1>5 DEF StartPeriod, Order!StartPeriod, Order!Reached, Gone, Waiting
<1> QED
  BY <1>6

LEMMA RevertMapped == ASSUME OrderInv, RevertPeriod PROVE \E n \in Periods : Order!TakeBack(n)
<1> PICK n \in Periods :
      /\ n - 1 \in Periods /\ n \in RevertTargets
      /\ period[n - 1] = "ENDED"
      /\ period' = [period EXCEPT ![n] = Rewound, ![n - 1] = "LIVE"]
  BY PreviousPeriod DEF RevertPeriod, LastRevertTarget
<1>1. period[n] \in {"LIVE", "HALFTIME"} /\ n - 1 # n
  BY DEF RevertTargets, Periods
<1>2. Gone = 1..(n - 1) /\ LivePeriods \cup Waiting = {n}
  BY <1>1, StandsAt
<1>3. period \in [Periods -> PeriodStates]
  BY DEF OrderInv, TypeOK, GameType
<1>4. /\ period'[n - 1] = "LIVE" /\ period'[n] = "SCHEDULED"
      /\ \A m \in Periods \ {n, n - 1} : period'[m] = period[m]
  BY <1>1, <1>3 DEF Rewound
<1>5. \A m \in Periods : m # n => period[m] \notin {"LIVE", "HALFTIME"}
  BY <1>2 DEF LivePeriods, Waiting
<1>6. Gone' = Gone \ {n - 1}
  <2>1. \A m \in Periods : period'[m] = "ENDED" <=> period[m] = "ENDED" /\ m # n - 1
    BY <1>1, <1>4
  <2> QED BY <2>1 DEF Gone
<1>7. LivePeriods' = {n - 1} /\ Waiting' = {}
  <2>1. \A m \in Periods \ {n, n - 1} : period'[m] \notin {"LIVE", "HALFTIME"}
    BY <1>4, <1>5
  <2> QED BY <1>1, <1>4, <2>1 DEF LivePeriods, Waiting
<1>8. Order!TakeBack(n)
  BY <1>2, <1>6, <1>7 DEF RevertPeriod, Order!TakeBack, Order!Reached, Gone, Waiting
<1> QED
  BY <1>8

LEMMA KickOffMapped == ASSUME ~AnyClient, OrderInv, NEW f \in Fixtures, Start(f)
                       PROVE Order!KickOff
<1>1. \A n \in Periods : period[n] = "SCHEDULED"
  BY DEF OrderInv, NotBegun, Start
<1>2. 1 \in Periods /\ period \in [Periods -> PeriodStates]
  BY NPeriodsAssumption DEF Periods, OrderInv, TypeOK, GameType
<1>3. \A m \in Periods : period'[m] = IF m = 1 THEN "LIVE" ELSE period[m]
  BY <1>2 DEF Start
<1>4. Gone = {} /\ LivePeriods = {} /\ Waiting = {}
  BY <1>1 DEF Gone, LivePeriods, Waiting
<1>5. Gone' = {} /\ LivePeriods' = {1} /\ Waiting' = {}
  BY <1>1, <1>2, <1>3 DEF Gone, LivePeriods, Waiting
<1> QED
  BY <1>4, <1>5 DEF Start, Order!KickOff, Gone, Waiting

LEMMA PeriodsMapped == ASSUME ~AnyClient, OrderInv, EndedGameIsClosed, [GameStep]_vars
                       PROVE [Order!Next]_(Order!vars)
<1>1. ASSUME NEW f \in Fixtures, Start(f) PROVE Order!Next
  BY <1>1, KickOffMapped DEF Order!Next
<1>2. ASSUME NEW f \in Fixtures, End(f) \/ CloseCancelled(f) PROVE Order!Next
  <2>1. Order!Finish
    BY <1>2, CloseMapped DEF End, CloseCancelled, CloseOpenPeriods, ToClose
  <2> QED BY <2>1 DEF Order!Next
<1>3. ASSUME NEW f \in Fixtures, SubmitResult(f), state # "ENDED" PROVE Order!Next
  <2>1. Order!Finish
    BY <1>3, CloseMapped DEF SubmitResult
  <2> QED BY <2>1 DEF Order!Next
<1>4. ASSUME NEW f \in Fixtures, SubmitResult(f), state = "ENDED" PROVE UNCHANGED <<state, period>>
  BY <1>4, FrozenStep DEF OrderInv, GameStep
<1>5. CASE Cancel
  <2>1. Order!CallOff
    BY <1>5 DEF Cancel, Order!CallOff, LivePeriods
  <2> QED BY <2>1 DEF Order!Next
<1>6. CASE NextPeriod
  BY <1>6, AdvanceMapped DEF Order!Next
<1>7. CASE EndPeriod
  <2>1. PICK n \in Periods : period[n] = "LIVE" /\ EndRunningPeriod(n)
    BY <1>7 DEF EndPeriod, LivePeriods
  <2> QED BY <1>7, <2>1, EndMapped DEF EndPeriod, Order!Next
<1>8. CASE StartPeriod
  BY <1>8, StartMapped DEF Order!Next
<1>9. CASE RevertPeriod
  BY <1>9, RevertMapped DEF Order!Next
<1>10. CASE ClockExpire
  <2>1. PICK n \in Periods : period[n] = "LIVE" /\ EndRunningPeriod(n)
    BY <1>10 DEF ClockExpire, LivePeriods
  <2> QED BY <1>10, <2>1, EndMapped DEF ClockExpire, Expired, Order!Next
<1>11. CASE UNCHANGED period /\ UNCHANGED Over
  BY <1>11 DEF Order!vars, LivePeriods, Over
<1>12. \/ \E f \in Fixtures : Start(f) \/ End(f) \/ CloseCancelled(f) \/ SubmitResult(f)
       \/ Cancel \/ NextPeriod \/ EndPeriod \/ StartPeriod \/ RevertPeriod \/ ClockExpire
       \/ UNCHANGED period /\ UNCHANGED Over
  <2>1. Pause \/ Resume => UNCHANGED period /\ UNCHANGED Over
    BY DEF Over, Pause, Resume
  <2>2. CASE \/ \E n \in Periods : AppendEvent(n) \/ RetryEvent(n)
             \/ \E e \in DOMAIN events : ReverseEvent(e)
             \/ CancelFixture \/ Tick \/ ClockStepsBack \/ UNCHANGED vars
    <3>1. UNCHANGED <<state, period>>
      BY <2>2 DEF AppendEvent, RetryEvent, ReverseEvent, Record, CancelFixture, Tick,
         ClockStepsBack, gameVars, vars
    <3> QED BY <3>1 DEF Over
  <2> QED BY <2>1, <2>2 DEF GameStep
<1>13. UNCHANGED <<state, period>> => UNCHANGED period /\ UNCHANGED Over
  BY DEF Over
<1> QED
  BY <1>1, <1>2, <1>3, <1>4, <1>5, <1>6, <1>7, <1>8, <1>9, <1>10, <1>11, <1>12, <1>13

LEMMA PeriodsInit == Init => Order!Init
BY DEF Init, Order!Init, LivePeriods

LEMMA GamePeriods == ASSUME ~AnyClient PROVE GameSpec => ImplementsPeriods
<1>1. OrderInv /\ EndedGameIsClosed /\ [GameStep]_vars => [Order!Next]_(Order!vars)
  BY PeriodsMapped
<1> QED
  BY <1>1, PeriodsInit, GameOrdered, GameClosed, PTL DEF GameSpec, ImplementsPeriods, Order!Spec

\* The game goes through its periods as MatchPeriods promises: every command
\* and every expiry is one of its steps, or leaves the periods alone.
THEOREM ImplementsPeriodsCorrect == ASSUME ~AnyClient PROVE Spec => ImplementsPeriods
BY SpecIsGameSpec, GamePeriods, PTL

-----------------------------------------------------------------------------
(* Stopped clocks. *)

NoneStopped == \A n \in Periods : pausedAt[n] = NoTime

OneStopped ==
    \E n \in Periods : /\ period[n] = "LIVE"
                       /\ pausedAt[n] # NoTime
                       /\ \A m \in Periods \ {n} : pausedAt[m] = NoTime

Stopped ==
    /\ state \in {"SCHEDULED", "LIVE"} => NoneStopped
    /\ state = "PAUSED" => OneStopped

LEMMA OneLive == ASSUME OrderInv, NEW n \in LivePeriods, NEW m \in LivePeriods PROVE m = n
<1>1. m = n \/ m < n \/ n < m
  BY DEF LivePeriods, Periods
<1> QED
  BY <1>1 DEF LivePeriods, OrderInv, InOrder

LEMMA StoppedStep == ASSUME ~AnyClient, OrderInv, Stopped, [GameStep]_vars PROVE Stopped'
<1>1. pausedAt \in [Periods -> Int] /\ now \in Nat /\ period \in [Periods -> PeriodStates]
  BY DEF OrderInv, TypeOK, GameType, ClockType
<1>2. CASE state' \in {"ENDED", "CANCELLED"}
  BY <1>2 DEF Stopped
<1>3. CASE UNCHANGED <<state, period, pausedAt>>
  BY <1>3 DEF Stopped, NoneStopped, OneStopped
<1>4. CASE state \in {"SCHEDULED", "LIVE"} /\ state' = "LIVE" /\ UNCHANGED pausedAt
  BY <1>4 DEF Stopped, NoneStopped
<1>5. CASE Pause
  <2>1. state' = "PAUSED" /\ NoneStopped
    BY <1>5 DEF Pause, Stopped
  <2> PICK n \in LivePeriods : pausedAt' = [pausedAt EXCEPT ![n] = now]
    BY <1>5, <2>1 DEF Pause, NoneStopped, LivePeriods
  <2>2. n \in Periods /\ period'[n] = "LIVE"
    BY <1>5 DEF Pause, LivePeriods
  <2>3. pausedAt'[n] # NoTime
    BY <1>1, <2>2 DEF NoTime
  <2>4. \A m \in Periods \ {n} : pausedAt'[m] = NoTime
    BY <1>1, <2>1, <2>2 DEF NoneStopped
  <2> QED BY <2>1, <2>2, <2>3, <2>4 DEF Stopped, OneStopped
<1>6. CASE Resume
  <2>1. state' = "LIVE" /\ OneStopped
    BY <1>6 DEF Resume, Stopped
  <2> PICK n \in Periods : /\ period[n] = "LIVE"
                           /\ \A m \in Periods \ {n} : pausedAt[m] = NoTime
    BY <2>1 DEF OneStopped
  <2>2. pausedAt' = [pausedAt EXCEPT ![n] = NoTime]
    BY <1>6, OneLive DEF Resume, LivePeriods
  <2>3. NoneStopped'
    BY <1>1, <2>2 DEF NoneStopped
  <2> QED BY <2>1, <2>3 DEF Stopped
<1>7. CASE RevertPeriod
  <2>1. state' = "LIVE" /\ NoneStopped
    BY <1>7 DEF RevertPeriod, Stopped
  <2>2. NoneStopped'
    BY <1>1, <1>7, <2>1 DEF RevertPeriod, NoneStopped
  <2> QED BY <2>1, <2>2 DEF Stopped
<1>8. \/ state' \in {"ENDED", "CANCELLED"} \/ UNCHANGED <<state, period, pausedAt>>
      \/ Pause \/ Resume \/ RevertPeriod
      \/ state \in {"SCHEDULED", "LIVE"} /\ state' = "LIVE" /\ UNCHANGED pausedAt
  BY DEF GameStep, vars, clocks, Start, End, CloseCancelled, SubmitResult, Cancel, NextPeriod,
     EndPeriod, StartPeriod, AppendEvent, RetryEvent, ReverseEvent, Record, ClockExpire, Expired,
     CancelFixture, Tick, ClockStepsBack, gameVars
<1> QED
  BY <1>2, <1>3, <1>4, <1>5, <1>6, <1>7, <1>8

LEMMA GameStopped == ASSUME ~AnyClient PROVE GameSpec => []Stopped
<1>1. Init => Stopped
  BY DEF Init, Stopped, NoneStopped
<1>2. OrderInv /\ Stopped /\ [GameStep]_vars => Stopped'
  BY StoppedStep
<1> QED
  BY <1>1, <1>2, GameOrdered, PTL DEF GameSpec

LEMMA StoppedIsPaused == Stopped => PausedHasLiveClock
BY DEF Stopped, NoneStopped, OneStopped, PausedHasLiveClock, LivePeriods

\* A paused game has a running period whose clock is stopped, a game that
\* runs has none: resume needs no guard of its own.
THEOREM PauseStopsClock == ASSUME ~AnyClient PROVE Spec => []PausedHasLiveClock
BY SpecIsGameSpec, GameStopped, StoppedIsPaused, PTL

-----------------------------------------------------------------------------
(* Events. *)

LEMMA EventPeriod == ASSUME TypeOK, NEW e \in DOMAIN events PROVE events[e].period \in Periods
<1>1. events \in Seq(Event) /\ e \in 1..Len(events)
  BY DEF TypeOK, GameType
<1>2. events[e] \in Event
  BY <1>1
<1> QED
  BY <1>2 DEF Event

LEMMA RecordInPlayed == ASSUME TypeOK, EventsInPlayedPeriods, NEW n \in Periods, NEW t \in Nat,
                               Record(n, t), period[n] \in {"LIVE", "ENDED"}
                        PROVE EventsInPlayedPeriods'
<1>1. events' = Append(events, [period |-> n, reverses |-> t]) /\ UNCHANGED period
  BY DEF Record
<1>2. events \in Seq(Event)
  BY DEF TypeOK, GameType
<1>3. SUFFICES ASSUME NEW e \in DOMAIN events' PROVE period[(events')[e].period] \in {"LIVE", "ENDED"}
  BY <1>1 DEF EventsInPlayedPeriods
<1>4. CASE e \in DOMAIN events
  <2>1. (events')[e] = events[e]
    BY <1>1, <1>2, <1>4
  <2> QED BY <1>4, <2>1 DEF EventsInPlayedPeriods
<1>5. CASE e \notin DOMAIN events
  <2>1. e = Len(events) + 1
    BY <1>1, <1>2, <1>3, <1>5
  <2>2. (events')[e] = [period |-> n, reverses |-> t]
    BY <1>1, <1>2, <2>1
  <2> QED BY <2>2
<1> QED
  BY <1>4, <1>5

\* Periods that were played stay played, those with events included.
LEMMA PlayedKept == ASSUME EventsInPlayedPeriods, UNCHANGED events,
        \A e \in DOMAIN events : period[events[e].period] \in {"LIVE", "ENDED"}
                                 => period'[events[e].period] \in {"LIVE", "ENDED"}
    PROVE EventsInPlayedPeriods'
BY DEF EventsInPlayedPeriods

LEMMA EventsStep == ASSUME ~AnyClient, OrderInv, EventsInPlayedPeriods, [GameStep]_vars
                    PROVE EventsInPlayedPeriods'
<1>1. period \in [Periods -> PeriodStates] /\ TypeOK
  BY DEF OrderInv, TypeOK, GameType
<1>2. \A n \in Periods : n \in Int
  BY DEF Periods
<1> DEFINE Kept == \A n \in Periods : period[n] \in {"LIVE", "ENDED"}
                                      => period'[n] \in {"LIVE", "ENDED"}
<1>3. CASE Kept /\ UNCHANGED events
  BY <1>1, <1>3, EventPeriod, PlayedKept
<1>4. CASE UNCHANGED period /\ UNCHANGED events
  BY <1>4 DEF EventsInPlayedPeriods
<1>5. ASSUME NEW f \in Fixtures, Start(f) PROVE Kept /\ UNCHANGED events
  BY <1>1, <1>5 DEF Start
<1>6. ASSUME NEW f \in Fixtures, End(f) \/ CloseCancelled(f) \/ SubmitResult(f)
      PROVE Kept /\ UNCHANGED events
  BY <1>1, <1>6 DEF End, CloseCancelled, SubmitResult, CloseOpenPeriods, ToClose, OpenPeriods
<1>7. ASSUME NextPeriod PROVE Kept
  BY <1>1, <1>7 DEF NextPeriod, LivePeriods
<1>8. ASSUME NEW n \in LivePeriods, EndRunningPeriod(n) PROVE Kept
  <2>1. \A m \in Periods : n < m => period[m] = "SCHEDULED"
    BY LaterPeriods DEF OrderInv, LivePeriods
  <2> QED BY <1>1, <1>2, <1>8, <2>1 DEF EndRunningPeriod, LivePeriods
<1>9. ASSUME StartPeriod PROVE Kept
  BY <1>1, <1>9 DEF StartPeriod
<1>10. CASE RevertPeriod
  <2> PICK n \in Periods :
        /\ n - 1 \in Periods /\ period[n - 1] = "ENDED" /\ ~HasEvents(n)
        /\ period' = [period EXCEPT ![n] = Rewound, ![n - 1] = "LIVE"]
    BY <1>10, PreviousPeriod DEF RevertPeriod
  <2>1. \A e \in DOMAIN events : events[e].period \in Periods /\ events[e].period # n
    BY <1>1, EventPeriod DEF HasEvents
  <2>2. \A m \in Periods : m # n /\ period[m] \in {"LIVE", "ENDED"} => period'[m] \in {"LIVE", "ENDED"}
    BY <1>1
  <2>3. UNCHANGED events
    BY <1>10 DEF RevertPeriod
  <2> QED BY <2>1, <2>2, <2>3, PlayedKept
<1>11. ASSUME NEW n \in Periods, AppendEvent(n) \/ RetryEvent(n) PROVE EventsInPlayedPeriods'
  BY <1>1, <1>11, RecordInPlayed DEF AppendEvent, RetryEvent, NoEvent
<1>12. ASSUME NEW e \in DOMAIN events, ReverseEvent(e) PROVE EventsInPlayedPeriods'
  <2>1. e \in Nat
    BY <1>1 DEF TypeOK, GameType
  <2> QED BY <1>1, <1>12, <2>1, EventPeriod, RecordInPlayed DEF ReverseEvent, EventsInPlayedPeriods
<1>13. EndPeriod \/ ClockExpire => UNCHANGED events /\ \E n \in LivePeriods : EndRunningPeriod(n)
  BY DEF EndPeriod, ClockExpire
<1>14. StartPeriod \/ NextPeriod => UNCHANGED events
  BY DEF StartPeriod, NextPeriod
<1>15. Pause \/ Resume \/ Cancel \/ CancelFixture \/ Tick \/ ClockStepsBack \/ UNCHANGED vars
       => UNCHANGED period /\ UNCHANGED events
  BY DEF vars, Pause, Resume, Cancel, CancelFixture, Tick, ClockStepsBack, gameVars
<1> QED
  BY <1>3, <1>4, <1>5, <1>6, <1>7, <1>8, <1>9, <1>10, <1>11, <1>12, <1>13, <1>14, <1>15 DEF GameStep

LEMMA GameEvents == ASSUME ~AnyClient PROVE GameSpec => []EventsInPlayedPeriods
<1>1. Init => EventsInPlayedPeriods
  BY DEF Init, EventsInPlayedPeriods
<1>2. OrderInv /\ EventsInPlayedPeriods /\ [GameStep]_vars => EventsInPlayedPeriods'
  BY EventsStep
<1> QED
  BY <1>1, <1>2, GameOrdered, PTL DEF GameSpec

\* No event, live, retried or correcting, belongs to a period yet to start.
THEOREM EventsInPlay == ASSUME ~AnyClient PROVE Spec => []EventsInPlayedPeriods
BY SpecIsGameSpec, GameEvents, PTL

-----------------------------------------------------------------------------
(* The clock of a period. *)

\* A period that is yet to run has a clock that never ran.
Fresh ==
    \A n \in Periods : period[n] \in {"SCHEDULED", "HALFTIME"} =>
        startedAt[n] = NoTime /\ played[n] = 0 /\ pausedTotal[n] = 0

EndIsKnown == \A n \in Periods : period[n] = "ENDED" => endedAt[n] # NoTime

\* No instant on the clocks lies ahead of a server clock that only advanced.
InThePast == backsteps = 0 => \A n \in Periods : pausedAt[n] <= now /\ endedAt[n] <= now

ClockInv == Fresh /\ EndIsKnown /\ InThePast /\ ClockCountsPlay

\* What the clock of a period is made of.
LEMMA ClockValues == ASSUME TypeOK, NEW n \in Periods PROVE
    /\ period[n] \in PeriodStates
    /\ startedAt[n] \in Int /\ endedAt[n] \in Int /\ pausedAt[n] \in Int
    /\ pausedTotal[n] \in Nat /\ played[n] \in Nat /\ now \in Nat /\ backsteps \in Nat
BY DEF TypeOK, GameType, ClockType

\* What a step does to the clock of period n when it leaves the period as it is.
ClockKept(n) == /\ period'[n] = period[n]
                /\ startedAt'[n] = startedAt[n] /\ endedAt'[n] = endedAt[n]
                /\ pausedAt'[n] = pausedAt[n] /\ pausedTotal'[n] = pausedTotal[n]
                /\ played'[n] = played[n]

LEMMA FreshStep == ASSUME ~AnyClient, OrderInv, Fresh, EndIsKnown, [GameStep]_vars
                   PROVE Fresh' /\ EndIsKnown'
<1>1. SUFFICES ASSUME NEW n \in Periods PROVE
        /\ period'[n] \in {"SCHEDULED", "HALFTIME"} =>
             startedAt'[n] = NoTime /\ played'[n] = 0 /\ pausedTotal'[n] = 0
        /\ period'[n] = "ENDED" => endedAt'[n] # NoTime
  BY DEF Fresh, EndIsKnown
<1>2. /\ period[n] \in {"SCHEDULED", "HALFTIME"} =>
             startedAt[n] = NoTime /\ played[n] = 0 /\ pausedTotal[n] = 0
      /\ period[n] = "ENDED" => endedAt[n] # NoTime
  BY DEF Fresh, EndIsKnown
<1>3. /\ period \in [Periods -> PeriodStates]
      /\ startedAt \in [Periods -> Int] /\ endedAt \in [Periods -> Int]
      /\ pausedTotal \in [Periods -> Nat] /\ played \in [Periods -> Nat]
      /\ now # NoTime /\ TypeOK
  BY DEF OrderInv, TypeOK, GameType, ClockType, NoTime
<1>4. n \in Int
  BY DEF Periods
<1>5. CASE ClockKept(n)
  BY <1>2, <1>5 DEF ClockKept
<1>6. ASSUME NEW f \in Fixtures, Start(f) PROVE ClockKept(n) \/ period'[n] = "LIVE"
  BY <1>3, <1>6 DEF Start, ClockKept, time
<1>7. CASE period'[n] = "LIVE"
  BY <1>7
<1>8. ASSUME NEW f \in Fixtures, End(f) \/ CloseCancelled(f) PROVE
        \/ ClockKept(n)
        \/ period'[n] = "ENDED" /\ endedAt'[n] = now
  BY <1>8 DEF End, CloseCancelled, CloseOpenPeriods, ClockKept, time
<1>9. ASSUME NEW f \in Fixtures, SubmitResult(f) PROVE
        \/ ClockKept(n)
        \/ period'[n] = "ENDED" /\ endedAt'[n] = now
  BY <1>9 DEF SubmitResult, ClockKept, time
<1>10. CASE period'[n] = "ENDED" /\ endedAt'[n] = now
  BY <1>3, <1>10
<1>11. CASE period[n] = "LIVE" /\ period'[n] = "LIVE"
  BY <1>11
<1>12. ASSUME Resume PROVE ClockKept(n) \/ period'[n] = "LIVE" \/ (period'[n] = period[n]
          /\ startedAt'[n] = startedAt[n] /\ endedAt'[n] = endedAt[n]
          /\ pausedTotal'[n] = pausedTotal[n] /\ played'[n] = played[n])
  BY <1>3, <1>12 DEF Resume, ClockKept, time, LivePeriods
<1>13. CASE /\ period'[n] = period[n]
            /\ startedAt'[n] = startedAt[n] /\ endedAt'[n] = endedAt[n]
            /\ pausedTotal'[n] = pausedTotal[n] /\ played'[n] = played[n]
  BY <1>2, <1>13
<1>14. Pause \/ CancelFixture \/ Cancel \/ ClockStepsBack \/ UNCHANGED vars
       => /\ period'[n] = period[n]
          /\ startedAt'[n] = startedAt[n] /\ endedAt'[n] = endedAt[n]
          /\ pausedTotal'[n] = pausedTotal[n] /\ played'[n] = played[n]
  BY DEF Pause, CancelFixture, Cancel, ClockStepsBack, vars, gameVars, clocks, time
<1>15. CASE Tick
  <2>1. period'[n] = period[n] /\ startedAt'[n] = startedAt[n] /\ endedAt'[n] = endedAt[n]
        /\ pausedTotal'[n] = pausedTotal[n]
    BY <1>15 DEF Tick, gameVars, clocks
  <2>2. period[n] # "LIVE" => played'[n] = played[n]
    BY <1>15 DEF Tick, LivePeriods
  <2> QED BY <1>2, <2>1, <2>2
<1>16. CASE NextPeriod
  BY <1>2, <1>3, <1>4, <1>16 DEF NextPeriod, LivePeriods, time
<1>17. ASSUME NEW k \in LivePeriods, EndRunningPeriod(k),
              UNCHANGED <<startedAt, pausedTotal, played>>
       PROVE /\ period'[n] \in {"SCHEDULED", "HALFTIME"} =>
                  startedAt'[n] = NoTime /\ played'[n] = 0 /\ pausedTotal'[n] = 0
             /\ period'[n] = "ENDED" => endedAt'[n] # NoTime
  <2>1. n = k + 1 => period[n] = "SCHEDULED"
    BY <1>3, <1>4, LaterPeriods DEF OrderInv, LivePeriods, Periods
  <2> QED BY <1>2, <1>3, <1>17, <2>1 DEF EndRunningPeriod, LivePeriods
<1>18. EndPeriod \/ ClockExpire => /\ \E k \in LivePeriods : EndRunningPeriod(k)
                                   /\ UNCHANGED <<startedAt, pausedTotal, played>>
  BY DEF EndPeriod, ClockExpire, time
<1>19. CASE StartPeriod
  BY <1>2, <1>3, <1>19 DEF StartPeriod, time
<1>20. CASE RevertPeriod
  <2> PICK k \in Periods :
        /\ k - 1 \in Periods
        /\ period' = [period EXCEPT ![k] = Rewound, ![k - 1] = "LIVE"]
        /\ startedAt' = [startedAt EXCEPT ![k] = NoTime]
        /\ endedAt' = [endedAt EXCEPT ![k - 1] = NoTime]
        /\ pausedTotal' = [pausedTotal EXCEPT ![k] = 0,
                                              ![k - 1] = pausedTotal[k - 1] + EndedStretch(k - 1)]
        /\ played' = [played EXCEPT ![k] = 0]
    BY <1>20, PreviousPeriod DEF RevertPeriod
  <2>1. k # k - 1 /\ k \in Int
    BY DEF Periods
  <2>2. CASE n = k - 1
    <3>1. period'[n] = "LIVE"
      BY <1>3, <2>2
    <3> QED BY <3>1
  <2>3. CASE n = k
    BY <1>3, <2>1, <2>3 DEF Rewound
  <2>4. CASE n # k /\ n # k - 1
    BY <1>2, <1>3, <2>4
  <2> QED BY <2>2, <2>3, <2>4
<1>21. ASSUME \/ \E m \in Periods : AppendEvent(m) \/ RetryEvent(m)
              \/ \E e \in DOMAIN events : ReverseEvent(e)
       PROVE ClockKept(n)
  BY <1>21 DEF AppendEvent, RetryEvent, ReverseEvent, Record, ClockKept, clocks, time
<1> QED
  BY <1>5, <1>6, <1>7, <1>8, <1>9, <1>10, <1>12, <1>13, <1>14, <1>15, <1>16, <1>17, <1>18, <1>19,
     <1>20, <1>21 DEF GameStep

LEMMA ClockAdvances == ASSUME TypeOK, [GameStep]_vars, backsteps' = 0
                       PROVE  backsteps = 0 /\ now <= now'
<1>1. now \in Nat /\ backsteps \in Nat
  BY DEF TypeOK, ClockType
<1>2. CASE UNCHANGED <<now, backsteps>>
  BY <1>1, <1>2
<1>3. CASE Tick
  BY <1>1, <1>3 DEF Tick
<1>4. CASE ClockStepsBack
  BY <1>1, <1>4 DEF ClockStepsBack
<1>5. \A f \in Fixtures : Start(f) \/ End(f) \/ CloseCancelled(f) \/ SubmitResult(f)
                          => UNCHANGED <<now, backsteps>>
  BY DEF Start, End, CloseCancelled, SubmitResult, time
<1>6. Pause \/ Resume \/ Cancel \/ NextPeriod \/ EndPeriod \/ StartPeriod \/ RevertPeriod
      \/ ClockExpire \/ CancelFixture \/ UNCHANGED vars => UNCHANGED <<now, backsteps>>
  BY DEF vars, time, Pause, Resume, Cancel, NextPeriod, EndPeriod, StartPeriod, RevertPeriod,
     ClockExpire, CancelFixture
<1>7. (\E n \in Periods : AppendEvent(n) \/ RetryEvent(n)) \/ (\E e \in DOMAIN events : ReverseEvent(e))
      => UNCHANGED <<now, backsteps>>
  BY DEF AppendEvent, RetryEvent, ReverseEvent, Record, time
<1> QED
  BY <1>2, <1>3, <1>4, <1>5, <1>6, <1>7 DEF GameStep

LEMMA PastStep == ASSUME TypeOK, InThePast, [GameStep]_vars PROVE InThePast'
<1>1. backsteps' = 0 => backsteps = 0 /\ now <= now'
  BY ClockAdvances
<1>2. SUFFICES ASSUME backsteps' = 0, NEW n \in Periods PROVE pausedAt'[n] <= now' /\ endedAt'[n] <= now'
  BY DEF InThePast
<1>3. TypeOK'
  BY TypeStep
<1>4. /\ pausedAt \in [Periods -> Int] /\ endedAt \in [Periods -> Int]
      /\ now \in Nat /\ now' \in Nat
      /\ pausedAt[n] <= now /\ endedAt[n] <= now
  BY <1>1, <1>2, <1>3 DEF TypeOK, ClockType, InThePast
<1>5. pausedAt'[n] \in {pausedAt[n], now, NoTime}
  BY <1>4 DEF GameStep, vars, clocks, gameVars, Start, End, CloseCancelled, CloseOpenPeriods,
     SubmitResult, Pause, Resume, Cancel, NextPeriod, EndPeriod, StartPeriod, RevertPeriod,
     AppendEvent, RetryEvent, ReverseEvent, Record, ClockExpire, CancelFixture, Tick, ClockStepsBack
<1>6. endedAt'[n] \in {endedAt[n], now, NoTime}
  <2>1. CASE CloseOpenPeriods \/ \E f \in Fixtures : SubmitResult(f)
    BY <2>1 DEF CloseOpenPeriods, SubmitResult
  <2>2. CASE \E k \in Periods : endedAt' = [endedAt EXCEPT ![k] = now]
    BY <1>4, <2>2
  <2>3. CASE RevertPeriod
    BY <1>4, <2>3 DEF RevertPeriod
  <2>4. EndPeriod \/ ClockExpire \/ NextPeriod => \E k \in Periods : endedAt' = [endedAt EXCEPT ![k] = now]
    BY DEF EndPeriod, ClockExpire, NextPeriod, EndRunningPeriod, LivePeriods
  <2>5. \/ CloseOpenPeriods \/ \E f \in Fixtures : SubmitResult(f)
        \/ EndPeriod \/ ClockExpire \/ NextPeriod \/ RevertPeriod \/ UNCHANGED endedAt
    BY DEF GameStep, vars, clocks, gameVars, Start, End, CloseCancelled, Pause, Resume, Cancel,
       StartPeriod, AppendEvent, RetryEvent, ReverseEvent, Record, CancelFixture, Tick, ClockStepsBack
  <2> QED BY <2>1, <2>2, <2>3, <2>4, <2>5
<1> QED
  BY <1>1, <1>2, <1>4, <1>5, <1>6 DEF NoTime

\* The step keeps what a started clock shows equal to the time played.
LEMMA CountStep ==
    ASSUME ~AnyClient, OrderInv, Stopped, EndedGameIsClosed, ClockInv, [GameStep]_vars,
           InThePast', backsteps' = 0,
           state' \in {"LIVE", "PAUSED"} \/ (state' = "ENDED" /\ kind' = "competition"),
           NEW n \in Periods, startedAt'[n] # NoTime
    PROVE  Shown(n)' = played'[n]
<1> DEFINE Counts == startedAt[n] # NoTime => Shown(n) = played[n]
<1>1. TypeOK /\ TypeOK' /\ InOrder /\ n \in Int /\ NotBegun
  BY TypeStep DEF OrderInv, Periods
<1>2. /\ period[n] \in PeriodStates
      /\ startedAt[n] \in Int /\ endedAt[n] \in Int /\ pausedAt[n] \in Int
      /\ pausedTotal[n] \in Nat /\ played[n] \in Nat /\ now \in Nat
  BY <1>1, ClockValues
<1>3. /\ period \in [Periods -> PeriodStates]
      /\ startedAt \in [Periods -> Int] /\ endedAt \in [Periods -> Int]
      /\ pausedAt \in [Periods -> Int]
      /\ pausedTotal \in [Periods -> Nat] /\ played \in [Periods -> Nat]
  BY <1>1 DEF TypeOK, GameType, ClockType
<1>4. backsteps = 0 /\ pausedAt[n] <= now /\ endedAt[n] <= now
  <2>1. backsteps = 0
    BY <1>1, ClockAdvances
  <2> QED BY <2>1 DEF ClockInv, InThePast
<1>5. state \in {"LIVE", "PAUSED"} \/ (state = "ENDED" /\ kind = "competition") => Counts
  BY <1>4 DEF ClockInv, ClockCountsPlay
<1>6. /\ period[n] \in {"SCHEDULED", "HALFTIME"} =>
             startedAt[n] = NoTime /\ played[n] = 0 /\ pausedTotal[n] = 0
      /\ period[n] = "ENDED" => endedAt[n] # NoTime
      /\ state = "ENDED" => period[n] \in {"SCHEDULED", "ENDED"}
  BY <1>2 DEF ClockInv, Fresh, EndIsKnown, EndedGameIsClosed, OpenPeriods, PeriodStates
<1>7. state \in {"SCHEDULED", "LIVE"} => pausedAt[n] = NoTime
  BY DEF Stopped, NoneStopped
<1>8. state = "PAUSED" /\ period[n] = "LIVE" => pausedAt[n] # NoTime
  BY OneLive DEF Stopped, OneStopped, LivePeriods
<1> DEFINE Same == ClockKept(n) /\ now' = now
<1>9. ASSUME Same, UNCHANGED <<state, kind>> PROVE Shown(n)' = played'[n]
  BY <1>5, <1>9 DEF ClockKept, Shown
<1>10. ASSUME NEW f \in Fixtures, Start(f) PROVE Shown(n)' = played'[n]
  <2>1. period[n] = "SCHEDULED" /\ pausedAt[n] = NoTime
    BY <1>1, <1>7, <1>10 DEF Start, NotBegun
  <2>2. n = 1
    BY <1>3, <1>6, <1>10, <2>1 DEF Start
  <2>3. /\ startedAt'[n] = now /\ period'[n] = "LIVE" /\ pausedAt'[n] = NoTime
        /\ pausedTotal'[n] = 0 /\ played'[n] = 0 /\ now' = now
    BY <1>3, <1>6, <1>10, <2>1, <2>2 DEF Start, time
  <2> QED BY <1>2, <2>3 DEF Shown
<1>11. ASSUME NEW f \in Fixtures, End(f) PROVE Shown(n)' = played'[n]
  <2>1. /\ startedAt'[n] = startedAt[n] /\ played'[n] = played[n] /\ now' = now
        /\ state \in {"LIVE", "PAUSED"}
    BY <1>11 DEF End, CloseOpenPeriods, time
  <2>2. period[n] \notin {"SCHEDULED", "HALFTIME"} /\ Counts
    BY <1>5, <1>6, <2>1
  <2>3. CASE period[n] = "ENDED"
    <3>1. ClockKept(n)
      BY <1>11, <2>1, <2>3 DEF End, CloseOpenPeriods, ToClose, OpenPeriods, ClockKept
    <3> QED BY <2>1, <2>2, <3>1 DEF ClockKept, Shown
  <2>4. CASE period[n] = "LIVE"
    <3>1. /\ period'[n] = "ENDED" /\ endedAt'[n] = now /\ pausedTotal'[n] = FoldedPause(n)
      BY <1>11, <2>4 DEF End, CloseOpenPeriods, ToClose, OpenPeriods
    <3>2. FoldedPause(n) = IF pausedAt[n] = NoTime THEN pausedTotal[n]
                           ELSE pausedTotal[n] + (now - pausedAt[n])
      BY <1>2, <1>4 DEF FoldedPause, Stretch
    <3> QED BY <1>2, <2>1, <2>2, <2>4, <3>1, <3>2 DEF Shown
  <2> QED BY <1>2, <2>2, <2>3, <2>4 DEF PeriodStates
<1>12. CASE Pause
  <2>1. /\ UNCHANGED <<period, startedAt, endedAt, pausedTotal, played, now>>
        /\ pausedAt'[n] \in {NoTime, now} /\ Counts /\ pausedAt[n] = NoTime
    BY <1>3, <1>5, <1>7, <1>12 DEF Pause, LivePeriods, time
  <2>2. CASE pausedAt'[n] = now
    BY <1>2, <2>1, <2>2 DEF Shown
  <2>3. CASE pausedAt'[n] = NoTime
    BY <1>2, <2>1, <2>3 DEF Shown
  <2> QED BY <2>1, <2>2, <2>3
<1>13. CASE Resume
  <2>1. UNCHANGED <<period, startedAt, endedAt, played, now>> /\ Counts /\ state = "PAUSED"
    BY <1>5, <1>13 DEF Resume, time
  <2>2. CASE period[n] = "LIVE"
    <3>1. pausedAt'[n] = NoTime /\ pausedTotal'[n] = FoldedPause(n)
      BY <1>3, <1>13, <2>2, OneLive DEF Resume, LivePeriods
    <3>2. FoldedPause(n) = pausedTotal[n] + (now - pausedAt[n])
      BY <1>2, <1>4, <1>8, <2>1, <2>2 DEF FoldedPause, Stretch
    <3> QED BY <1>2, <1>8, <2>1, <2>2, <3>1, <3>2 DEF Shown
  <2>3. CASE period[n] = "ENDED"
    <3>1. pausedTotal'[n] = pausedTotal[n]
      BY <1>3, <1>13, <2>3 DEF Resume, LivePeriods
    <3> QED BY <2>1, <2>3, <3>1 DEF Shown
  <2> QED BY <1>2, <1>6, <2>1, <2>2, <2>3 DEF PeriodStates
<1> DEFINE Begins == /\ startedAt'[n] = now /\ period'[n] = "LIVE" /\ pausedAt'[n] = NoTime
                      /\ pausedTotal'[n] = 0 /\ played'[n] = 0 /\ now' = now
<1> DEFINE Ends == /\ period[n] = "LIVE" /\ pausedAt[n] = NoTime
                   /\ period'[n] = "ENDED" /\ endedAt'[n] = now
                   /\ startedAt'[n] = startedAt[n] /\ pausedTotal'[n] = pausedTotal[n]
                   /\ played'[n] = played[n] /\ now' = now
<1>14. ASSUME Begins PROVE Shown(n)' = played'[n]
  BY <1>2, <1>14 DEF Shown
<1>15. ASSUME Ends, state = "LIVE" PROVE Shown(n)' = played'[n]
  BY <1>2, <1>5, <1>15 DEF Shown
<1>16. CASE NextPeriod
  <2>1. /\ state = "LIVE" /\ pausedAt[n] = NoTime
        /\ UNCHANGED <<state, kind, pausedAt, pausedTotal, played, now>>
    BY <1>7, <1>16 DEF NextPeriod, time
  <2> PICK k \in LivePeriods :
        /\ k + 1 \in Periods
        /\ period' = [period EXCEPT ![k] = "ENDED", ![k + 1] = "LIVE"]
        /\ endedAt' = [endedAt EXCEPT ![k] = now]
        /\ startedAt' = [startedAt EXCEPT ![k + 1] = now]
    BY <1>16 DEF NextPeriod
  <2>2. k \in Periods /\ period[k] = "LIVE" /\ k # k + 1 /\ k < k + 1
    BY DEF LivePeriods, Periods
  <2>3. CASE n = k
    <3>1. Ends
      BY <1>3, <2>1, <2>2, <2>3
    <3> QED BY <1>15, <2>1, <3>1
  <2>4. CASE n = k + 1
    <3>1. period[n] = "SCHEDULED"
      BY <1>1, <2>2, <2>4, LaterPeriods
    <3>2. Begins
      BY <1>3, <1>6, <2>1, <2>2, <2>4, <3>1
    <3> QED BY <1>14, <3>2
  <2>5. CASE n # k /\ n # k + 1
    <3>1. Same
      BY <1>3, <2>1, <2>5 DEF ClockKept
    <3> QED BY <1>9, <2>1, <3>1
  <2> QED BY <2>3, <2>4, <2>5
<1>17. CASE EndPeriod \/ ClockExpire
  <2>1. /\ state = "LIVE" /\ pausedAt[n] = NoTime
        /\ UNCHANGED <<state, kind, startedAt, pausedAt, pausedTotal, played, now>>
    BY <1>7, <1>17 DEF EndPeriod, ClockExpire, Expired, time
  <2> PICK k \in LivePeriods : EndRunningPeriod(k)
    BY <1>17 DEF EndPeriod, ClockExpire
  <2>2. k \in Periods /\ k \in Int /\ period[k] = "LIVE"
    BY DEF LivePeriods, Periods
  <2>3. CASE n = k
    <3>1. Ends
      BY <1>3, <2>1, <2>2, <2>3 DEF EndRunningPeriod
    <3> QED BY <1>15, <2>1, <3>1
  <2>4. CASE n = k + 1
    <3>1. n > k
      BY <2>2, <2>4
    <3>2. period[n] = "SCHEDULED"
      BY <1>1, <2>2, <3>1, LaterPeriods
    <3> QED BY <1>6, <2>1, <3>2
  <2>5. CASE n # k /\ n # k + 1
    <3>1. Same
      BY <1>3, <2>1, <2>5 DEF ClockKept, EndRunningPeriod
    <3> QED BY <1>9, <2>1, <3>1
  <2> QED BY <2>3, <2>4, <2>5
<1>18. CASE StartPeriod
  <2>1. /\ state = "LIVE" /\ pausedAt[n] = NoTime
        /\ UNCHANGED <<state, kind, endedAt, pausedAt, pausedTotal, played, now>>
    BY <1>7, <1>18 DEF StartPeriod, time
  <2> PICK k \in Periods : /\ period[k] = "HALFTIME"
                           /\ period' = [period EXCEPT ![k] = "LIVE"]
                           /\ startedAt' = [startedAt EXCEPT ![k] = now]
    BY <1>18 DEF StartPeriod
  <2>2. CASE n = k
    <3>1. Begins
      BY <1>3, <1>6, <2>1, <2>2
    <3> QED BY <1>14, <3>1
  <2>3. CASE n # k
    <3>1. Same
      BY <1>3, <2>1, <2>3 DEF ClockKept
    <3> QED BY <1>9, <2>1, <3>1
  <2> QED BY <2>2, <2>3
<1>19. CASE RevertPeriod
  <2>1. state = "LIVE" /\ pausedAt[n] = NoTime /\ UNCHANGED <<state, kind, now>>
    BY <1>7, <1>19 DEF RevertPeriod
  <2> PICK k \in Periods :
        /\ k - 1 \in Periods /\ period[k - 1] = "ENDED"
        /\ period' = [period EXCEPT ![k] = Rewound, ![k - 1] = "LIVE"]
        /\ startedAt' = [startedAt EXCEPT ![k] = NoTime]
        /\ endedAt' = [endedAt EXCEPT ![k - 1] = NoTime]
        /\ pausedAt' = [pausedAt EXCEPT ![k] = NoTime]
        /\ pausedTotal' = [pausedTotal EXCEPT ![k] = 0,
                                              ![k - 1] = pausedTotal[k - 1] + EndedStretch(k - 1)]
        /\ played' = [played EXCEPT ![k] = 0]
    BY <1>19, PreviousPeriod DEF RevertPeriod
  <2>2. k # k - 1
    BY DEF Periods
  <2>3. n # k
    BY <1>3
  <2>4. CASE n = k - 1
    <3>1. EndedStretch(n) = now - endedAt[n]
      BY <1>2, <1>4, <1>6, <2>4 DEF EndedStretch, Stretch
    <3>2. /\ period'[n] = "LIVE" /\ startedAt'[n] = startedAt[n] /\ pausedAt'[n] = NoTime
          /\ pausedTotal'[n] = pausedTotal[n] + EndedStretch(n) /\ played'[n] = played[n]
      BY <1>3, <2>1, <2>2, <2>4
    <3>3. Shown(n) = endedAt[n] - startedAt[n] - pausedTotal[n] /\ Shown(n) = played[n]
      BY <1>5, <2>1, <2>4, <3>2 DEF Shown
    <3> QED BY <1>2, <2>1, <3>1, <3>2, <3>3 DEF Shown
  <2>5. CASE n # k - 1
    <3>1. Same
      BY <1>3, <2>1, <2>3, <2>5 DEF ClockKept
    <3> QED BY <1>9, <2>1, <3>1
  <2> QED BY <2>4, <2>5
<1>20. CASE Tick
  <2>1. /\ now' = now + 1 /\ state' = state /\ kind' = kind
        /\ UNCHANGED <<period, startedAt, endedAt, pausedAt, pausedTotal>>
        /\ played'[n] = IF state = "LIVE" /\ period[n] = "LIVE" THEN played[n] + 1 ELSE played[n]
    BY <1>20 DEF Tick, gameVars, clocks, LivePeriods
  <2>2. Counts /\ period[n] \in {"LIVE", "ENDED"}
    BY <1>2, <1>5, <1>6, <2>1 DEF PeriodStates
  <2>3. CASE period[n] = "ENDED"
    BY <2>1, <2>2, <2>3 DEF Shown
  <2>4. CASE period[n] = "LIVE" /\ state = "LIVE"
    BY <1>2, <1>7, <2>1, <2>2, <2>4 DEF Shown
  <2>5. CASE period[n] = "LIVE" /\ state # "LIVE"
    <3>1. pausedAt[n] # NoTime
      BY <1>6, <1>8, <2>1, <2>5
    <3> QED BY <1>2, <2>1, <2>2, <2>5, <3>1 DEF Shown
  <2> QED BY <2>2, <2>3, <2>4, <2>5
<1>21. ~ClockStepsBack
  BY <1>4 DEF ClockStepsBack
<1>22. ~Cancel /\ \A f \in Fixtures : ~CloseCancelled(f) /\ ~SubmitResult(f)
  BY DEF Cancel, CloseCancelled, SubmitResult
<1>23. ASSUME \/ \E m \in Periods : AppendEvent(m) \/ RetryEvent(m)
              \/ \E e \in DOMAIN events : ReverseEvent(e)
              \/ CancelFixture \/ UNCHANGED vars
       PROVE Same /\ UNCHANGED <<state, kind>>
  BY <1>23 DEF AppendEvent, RetryEvent, ReverseEvent, Record, CancelFixture, vars, clocks, time, ClockKept
<1> QED
  BY <1>9, <1>10, <1>11, <1>12, <1>13, <1>16, <1>17, <1>18, <1>19, <1>20, <1>21, <1>22, <1>23 DEF GameStep

LEMMA ClockInvStep ==
    ASSUME ~AnyClient, OrderInv, Stopped, EndedGameIsClosed, ClockInv, [GameStep]_vars
    PROVE  ClockInv'
<1>1. Fresh' /\ EndIsKnown' /\ InThePast'
  BY FreshStep, PastStep DEF ClockInv, OrderInv
<1>2. ClockCountsPlay'
  BY <1>1, CountStep DEF ClockCountsPlay
<1> QED
  BY <1>1, <1>2 DEF ClockInv

LEMMA GameClock == ASSUME ~AnyClient PROVE GameSpec => []ClockCountsPlay
<1>1. Init => ClockInv
  <2> SUFFICES ASSUME Init PROVE ClockInv
    OBVIOUS
  <2>1. Fresh /\ EndIsKnown /\ ClockCountsPlay
    BY DEF Init, Fresh, EndIsKnown, ClockCountsPlay
  <2>2. InThePast
    BY DEF Init, InThePast, NoTime
  <2> QED BY <2>1, <2>2 DEF ClockInv
<1>2. OrderInv /\ Stopped /\ EndedGameIsClosed /\ ClockInv /\ [GameStep]_vars => ClockInv'
  BY ClockInvStep
<1>3. ClockInv => ClockCountsPlay
  BY DEF ClockInv
<1> QED
  BY <1>1, <1>2, <1>3, GameOrdered, GameStopped, GameClosed, PTL DEF GameSpec

\* While the server clock only advances, what the clock of a period shows is
\* the time it was played, through pauses, ends, reverts and restarts.
THEOREM ClockCorrect == ASSUME ~AnyClient PROVE Spec => []ClockCountsPlay
BY SpecIsGameSpec, GameClock, PTL

-----------------------------------------------------------------------------
(* The fixture. *)

\* Only the fixture of a competition's game is cancelled here.
FixtureInv == CancelledFixtureNotPlayed /\ (kind = "friendly" => fixture # "cancelled")

\* The game of a cancelled fixture is not in progress.
THEOREM CancelledNotPlayed == ASSUME ~AnyClient PROVE Spec => []CancelledFixtureNotPlayed
<1>1. Init => FixtureInv
  BY DEF Init, FixtureInv, CancelledFixtureNotPlayed
<1>2. ASSUME TypeOK, FixtureInv, [Next]_vars PROVE FixtureInv'
  <2> USE DEF FixtureInv, CancelledFixtureNotPlayed
  <2>1. CASE Start(fixture)
    BY <1>2, <2>1 DEF Start, Playable, TypeOK, GameType
  <2>2. CASE End(fixture) \/ CloseCancelled(fixture) \/ SubmitResult(fixture) \/ Cancel
    BY <1>2, <2>2 DEF End, CloseCancelled, SubmitResult, Cancel
  <2>3. CASE Pause \/ Resume
    BY <1>2, <2>3 DEF Pause, Resume
  <2>4. CASE CancelFixture
    BY <1>2, <2>4 DEF CancelFixture
  <2>5. CASE UNCHANGED <<kind, fixture, state>>
    BY <1>2, <2>5
  <2>6. \/ Start(fixture) \/ End(fixture) \/ CloseCancelled(fixture) \/ SubmitResult(fixture)
        \/ Cancel \/ Pause \/ Resume \/ CancelFixture \/ UNCHANGED <<kind, fixture, state>>
    BY <1>2 DEF Next, Operate, vars, NextPeriod, EndPeriod, StartPeriod, RevertPeriod, AppendEvent,
       RetryEvent, ReverseEvent, Record, ClockExpire, Tick, ClockStepsBack, gameVars
  <2> QED BY <2>1, <2>2, <2>3, <2>4, <2>5, <2>6
<1>3. FixtureInv => CancelledFixtureNotPlayed
  BY DEF FixtureInv
<1> QED
  BY <1>1, <1>2, <1>3, TypeCorrect, PTL DEF Spec
=============================================================================
