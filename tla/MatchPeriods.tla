---------------------------- MODULE MatchPeriods ----------------------------
(***************************************************************************)
(* What the operation of a game promises about its periods: they are gone  *)
(* through one after the other from the first, one at a time; only the     *)
(* last step between two of them is ever taken back; and once the game is  *)
(* over nothing happens to them any more.  LiveGame implements this        *)
(* specification.                                                          *)
(***************************************************************************)
EXTENDS Integers

CONSTANT Periods    \* 1..n

VARIABLES gone,     \* periods that were ended
          running,  \* the period that is played, if any
          waiting,  \* the period whose start is awaited at halftime, if any
          over      \* the game is over

vars == <<gone, running, waiting, over>>

Init ==
    /\ gone = {} /\ running = {} /\ waiting = {}
    /\ over = FALSE

\* n is the period the game has come to.
Reached(n) == gone = 1..(n - 1)

KickOff ==
    /\ ~over
    /\ gone = {} /\ running = {} /\ waiting = {}
    /\ running' = {1}
    /\ UNCHANGED <<gone, waiting, over>>

EndPeriod(n) ==
    /\ ~over
    /\ running = {n} /\ waiting = {} /\ Reached(n)
    /\ gone' = gone \cup {n}
    /\ running' = {}
    /\ waiting' = {n + 1} \cap Periods
    /\ UNCHANGED over

StartPeriod(n) ==
    /\ ~over
    /\ waiting = {n} /\ running = {} /\ Reached(n)
    /\ running' = {n}
    /\ waiting' = {}
    /\ UNCHANGED <<gone, over>>

\* The end of a period and the start of the next in one step.
Advance(n) ==
    /\ ~over
    /\ running = {n} /\ waiting = {} /\ Reached(n)
    /\ n + 1 \in Periods
    /\ gone' = gone \cup {n}
    /\ running' = {n + 1}
    /\ UNCHANGED <<waiting, over>>

\* The period before n goes on as if it had not been ended.
TakeBack(n) ==
    /\ ~over
    /\ running \cup waiting = {n} /\ Reached(n)
    /\ n - 1 \in Periods
    /\ gone' = gone \ {n - 1}
    /\ running' = {n - 1}
    /\ waiting' = {}
    /\ UNCHANGED over

\* The game ends, and with it what was open, halftime included.
Finish ==
    /\ ~over
    /\ gone' = gone \cup running \cup waiting
    /\ running' = {} /\ waiting' = {}
    /\ over' = TRUE

\* A game that is cancelled leaves its periods as they are.
CallOff ==
    /\ ~over
    /\ over' = TRUE
    /\ UNCHANGED <<gone, running, waiting>>

Next ==
    \/ KickOff \/ Finish \/ CallOff
    \/ \E n \in Periods : EndPeriod(n) \/ StartPeriod(n) \/ Advance(n) \/ TakeBack(n)

Spec == Init /\ [][Next]_vars
=============================================================================
