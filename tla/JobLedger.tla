------------------------------ MODULE JobLedger ------------------------------
(***************************************************************************)
(* What the outbox promises to the code that writes an event into it: an   *)
(* event is worked on until its effect has been applied, once, or until it *)
(* is parked as poisoned for an operator, who may release it again.        *)
(* OutboxWorker is shown to implement this specification.                  *)
(***************************************************************************)
EXTENDS Naturals

CONSTANT Jobs

VARIABLES ledger,   \* what the producer may observe of each event
          applied   \* how many times its effect has been committed

vars == <<ledger, applied>>

Init ==
    /\ ledger = [j \in Jobs |-> "absent"]
    /\ applied = [j \in Jobs |-> 0]

Submit(j) ==
    /\ ledger[j] = "absent"
    /\ ledger' = [ledger EXCEPT ![j] = "open"]
    /\ UNCHANGED applied

Finish(j) ==
    /\ ledger[j] = "open"
    /\ ledger' = [ledger EXCEPT ![j] = "done"]
    /\ applied' = [applied EXCEPT ![j] = @ + 1]

Park(j) ==
    /\ ledger[j] = "open"
    /\ ledger' = [ledger EXCEPT ![j] = "parked"]
    /\ UNCHANGED applied

\* Releasing a parked event also submits the event that records the release.
Unpark(j, record) ==
    /\ ledger[j] = "parked"
    /\ ledger[record] = "absent"
    /\ ledger' = [ledger EXCEPT ![j] = "open", ![record] = "open"]
    /\ UNCHANGED applied

Next == \E j \in Jobs :
    \/ Submit(j)
    \/ Finish(j)
    \/ Park(j)
    \/ \E record \in Jobs : Unpark(j, record)

Fairness == \A j \in Jobs : WF_vars(Finish(j) \/ Park(j))

SafeSpec == Init /\ [][Next]_vars
Spec == SafeSpec /\ Fairness
=============================================================================
