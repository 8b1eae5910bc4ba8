-------------------------- MODULE OutboxWorkerProofs --------------------------
(* What OutboxWorker guarantees for any number of events, replicas, attempts *)
(* and requeues, and without the bounds of the model-checked instances.      *)
EXTENDS OutboxWorker, TLAPS

-----------------------------------------------------------------------------
(* Type correctness *)

USE NoneAssumption, MaxAttemptsAssumption

LEMMA ClaimRowsType ==
    ASSUME RowType, NEW w \in Workers, NEW now \in SUBSET Expired,
           NEW taken \in SUBSET Jobs, ClaimRows(w, now, taken)
    PROVE  RowType'
BY DEF RowType, ClaimRows, Expired, Recovered, Statuses

\* Every column keeps its type.
LEMMA RowTypeStep == TypeOK /\ [Next]_vars => RowType'
<1> SUFFICES ASSUME TypeOK, [Next]_vars PROVE RowType'
    OBVIOUS
<1> USE DEF TypeOK, RowType, ProcType, row, proc, world, bounds, Statuses
<1>1. CASE UNCHANGED vars
    BY <1>1 DEF vars
<1>2. ASSUME NEW j \in Jobs, Enqueue(j) PROVE RowType'
    BY <1>2 DEF Enqueue
<1>3. ASSUME NEW j \in Jobs, BecomesDue(j) PROVE RowType'
    BY <1>3 DEF BecomesDue
<1>4. ASSUME NEW j \in Jobs, LeaseExpires(j) PROVE RowType'
    BY <1>4 DEF LeaseExpires
<1>5. ASSUME NEW j \in Jobs, NEW record \in Jobs, Requeue(j, record) PROVE RowType'
  <2> USE <1>5 DEF Requeue
  <2>1. status' \in [Jobs -> Statuses] /\ attempts' \in [Jobs -> Nat]
    OBVIOUS
  <2>2. version' \in [Jobs -> Nat] /\ gen' \in [Jobs -> Nat]
    OBVIOUS
  <2>3. due' \in [Jobs -> BOOLEAN]
    OBVIOUS
  <2>. QED
    BY <2>1, <2>2, <2>3
<1>6. ASSUME NEW w \in Workers, 
             \/ ClaimStart(w) \/ ClaimRefused(w) \/ FailBreaks(w) \/ NoTx(w)
             \/ AfterCommit(w) \/ Close(w) \/ HeartbeatReply(w) \/ Shutdown(w)
      PROVE  RowType'
    BY <1>6 DEF ClaimStart, ClaimRefused, FailBreaks, NoTx, AfterCommit, Close, HeartbeatReply, Shutdown
<1>7. ASSUME NEW w \in Workers, NEW j \in Jobs, Claim(w, j) PROVE RowType'
    BY <1>7, ClaimRowsType DEF Claim
<1>8. ASSUME NEW w \in Workers, ClaimNothing(w) PROVE RowType'
    BY <1>8, ClaimRowsType DEF ClaimNothing
<1>9. ASSUME NEW w \in Workers, ClaimBreaks(w) PROVE RowType'
    BY <1>9, ClaimRowsType DEF ClaimBreaks, Claimable, Expired
<1>10. ASSUME NEW w \in Workers, BeginTx(w) PROVE RowType'
    BY <1>10 DEF BeginTx, HoldsClaim
<1>11. ASSUME NEW w \in Workers, Commit(w) PROVE RowType'
    BY <1>11 DEF Commit, Places
<1>12. ASSUME NEW w \in Workers, Rollback(w) PROVE RowType'
    BY <1>12 DEF Rollback
<1>13. ASSUME NEW w \in Workers, Fail(w) PROVE RowType'
    BY <1>13 DEF Fail
<1>14. ASSUME NEW w \in Workers, Heartbeat(w) PROVE RowType'
    BY <1>14 DEF Heartbeat, Places
<1>15. ASSUME NEW w \in Workers, ReleaseOwned(w) PROVE RowType'
    BY <1>15 DEF ReleaseOwned
<1>16. ASSUME NEW w \in Workers, Exit(w) \/ Crash(w) PROVE RowType'
    BY <1>16 DEF Exit, Crash, Dies, Forgets
<1>. QED
    BY <1>1, <1>2, <1>3, <1>4, <1>5, <1>6, <1>7, <1>8, <1>9, <1>10, <1>11,
       <1>12, <1>13, <1>14, <1>15, <1>16 DEF Next

\* Every local variable of a worker keeps its type, and a worker past its
\* claim knows which event it has claimed.
LEMMA ProcTypeStep == TypeOK /\ [Next]_vars => ProcType'
<1> SUFFICES ASSUME TypeOK, [Next]_vars PROVE ProcType'
    OBVIOUS
<1> USE DEF TypeOK, RowType, ProcType, row, proc, world, bounds, Modes, Places
<1>1. CASE UNCHANGED vars
    BY <1>1 DEF vars
<1>2. ASSUME NEW j \in Jobs,
             \/ Enqueue(j) \/ BecomesDue(j) \/ LeaseExpires(j)
             \/ \E record \in Jobs : Requeue(j, record)
      PROVE  ProcType'
    BY <1>2 DEF Enqueue, BecomesDue, LeaseExpires, Requeue
<1>3. ASSUME NEW w \in Workers,
             \/ ClaimStart(w) \/ ClaimRefused(w) \/ FailBreaks(w) \/ NoTx(w)
             \/ AfterCommit(w) \/ BeginTx(w) \/ Rollback(w) \/ Fail(w)
      PROVE  ProcType'
    BY <1>3 DEF ClaimStart, ClaimRefused, Breaks, FailBreaks, NoTx, AfterCommit, BeginTx, Rollback, Fail
<1>4. ASSUME NEW w \in Workers, NEW j \in Jobs, Claim(w, j) PROVE ProcType'
  <2>1. seen' \in [Workers -> Nat]
    BY <1>4, RowTypeStep DEF Claim, Next
  <2>. QED
    BY <1>4, <2>1 DEF Claim, ClaimRows
<1>5. ASSUME NEW w \in Workers, ClaimNothing(w) \/ ClaimBreaks(w) PROVE ProcType'
    BY <1>5 DEF ClaimNothing, ClaimBreaks, Breaks, ClaimRows
<1>6. ASSUME NEW w \in Workers, Commit(w) PROVE ProcType'
    BY <1>6 DEF Commit
<1>7. ASSUME NEW w \in Workers, Close(w) PROVE ProcType'
    BY <1>7 DEF Close, Forgets
<1>8. ASSUME NEW w \in Workers, Heartbeat(w) \/ HeartbeatReply(w) PROVE ProcType'
  <2>1. beat' \in [Workers -> BOOLEAN]
    BY <1>8 DEF Heartbeat, HeartbeatReply
  <2>2. seen' \in [Workers -> Nat]
    BY <1>8 DEF Heartbeat, HeartbeatReply
  <2>3. UNCHANGED <<mode, pc, job>>
    BY <1>8 DEF Heartbeat, HeartbeatReply
  <2>. QED
    BY <2>1, <2>2, <2>3
<1>9. ASSUME NEW w \in Workers, Shutdown(w) \/ ReleaseOwned(w) PROVE ProcType'
    BY <1>9 DEF Shutdown, ReleaseOwned
<1>10. ASSUME NEW w \in Workers, Exit(w) \/ Crash(w) PROVE ProcType'
  <2> USE <1>10 DEF Exit, Crash, Dies, Forgets
  <2>1. mode' \in [Workers -> Modes]
    OBVIOUS
  <2>2. /\ pc' = [pc EXCEPT ![w] = "idle"]
        /\ job' = [job EXCEPT ![w] = None]
        /\ seen' = [seen EXCEPT ![w] = 0]
        /\ beat' = [beat EXCEPT ![w] = FALSE]
    OBVIOUS
  <2>. QED
    BY <2>1, <2>2
<1>. QED
    BY <1>1, <1>2, <1>3, <1>4, <1>5, <1>6, <1>7, <1>8, <1>9, <1>10 DEF Next

\* The counters of effects, pushes and bounded events stay natural numbers.
LEMMA WorldTypeStep == TypeOK /\ [Next]_vars => WorldType'
<1> SUFFICES ASSUME TypeOK, [Next]_vars PROVE WorldType'
    OBVIOUS
<1> USE DEF TypeOK, RowType, ProcType, WorldType, world, bounds, Places
<1>1. CASE UNCHANGED vars
    BY <1>1 DEF vars
<1>2. ASSUME NEW j \in Jobs,
             \/ Enqueue(j) \/ BecomesDue(j) \/ LeaseExpires(j)
             \/ \E record \in Jobs : Requeue(j, record)
      PROVE  WorldType'
    BY <1>2 DEF Enqueue, BecomesDue, LeaseExpires, Requeue
<1>3. ASSUME NEW w \in Workers,
             \/ ClaimStart(w) \/ ClaimRefused(w) \/ FailBreaks(w) \/ NoTx(w)
             \/ BeginTx(w) \/ Rollback(w) \/ Fail(w) \/ Close(w)
             \/ Heartbeat(w) \/ HeartbeatReply(w) \/ Shutdown(w)
             \/ ReleaseOwned(w) \/ Exit(w) \/ Crash(w)
      PROVE  WorldType'
    BY <1>3 DEF ClaimStart, ClaimRefused, Breaks, FailBreaks, NoTx, BeginTx, Rollback, Fail,
                Close, Heartbeat, HeartbeatReply, Shutdown, ReleaseOwned, Exit, Crash, Dies, Forgets
<1>4. ASSUME NEW w \in Workers,
             \/ ClaimNothing(w) \/ ClaimBreaks(w) \/ \E j \in Jobs : Claim(w, j)
      PROVE  WorldType'
    BY <1>4 DEF ClaimNothing, ClaimBreaks, Breaks, Claim, ClaimRows
<1>5. ASSUME NEW w \in Workers, Commit(w) PROVE WorldType'
    BY <1>5 DEF Commit
<1>6. ASSUME NEW w \in Workers, AfterCommit(w) PROVE WorldType'
    BY <1>6 DEF AfterCommit
<1>. QED
    BY <1>1, <1>2, <1>3, <1>4, <1>5, <1>6 DEF Next

\* The type invariant of the queue and its workers.
THEOREM TypeCorrect == Spec => []TypeOK
<1>1. Init => TypeOK
    BY DEF Init, TypeOK, RowType, ProcType, WorldType, Statuses, Modes, Places
<1>2. TypeOK /\ [Next]_vars => TypeOK'
    BY RowTypeStep, ProcTypeStep, WorldTypeStep DEF TypeOK
<1>. QED
    BY <1>1, <1>2, PTL DEF Spec
-----------------------------------------------------------------------------
(* The handler's claim, its effect and its pushes *)

\* A sweep of expired leases, with or without a claim, leaves alone every row
\* a handler works on and every completed row.
LEMMA SweepSpares ==
    ASSUME TypeOK, Inv, NEW w \in Workers, NEW now \in SUBSET Expired,
           NEW taken \in SUBSET Claimable(now), ClaimRows(w, now, taken)
    PROVE  /\ UNCHANGED <<rowLock, effects, pushes>>
           /\ \A j \in Jobs : rowLock[j] # None \/ status[j] = "COMPLETED" =>
                status'[j] = status[j] /\ owner'[j] = owner[j] /\ version'[j] = version[j]
           /\ \A j \in Jobs : version'[j] >= version[j]
           /\ \A j \in Jobs : status'[j] = "COMPLETED" => status[j] = "COMPLETED"
<1> USE DEF TypeOK, RowType, ProcType, WorldType, Inv, HandlerKeepsClaim, HoldsClaim
<1>1. \A j \in Jobs : rowLock[j] # None \/ status[j] = "COMPLETED" =>
        j \notin Expired /\ j \notin taken
    BY DEF Claimable, Expired
<1>2. \A j \in Jobs : status'[j] \in {status[j], "PROCESSING", "RETRY"}
    BY DEF ClaimRows
<1>. QED
    BY <1>1, <1>2 DEF ClaimRows, Recovered, world

\* Hence a claim transaction keeps the invariant, whatever it claims.
LEMMA SweepKeepsInv ==
    ASSUME TypeOK, TypeOK', Inv, NEW w \in Workers, NEW now \in SUBSET Expired,
           NEW taken \in SUBSET Claimable(now), ClaimRows(w, now, taken),
           pc[w] = "claiming", pc'[w] \in {"idle", "claimed"},
           \A v \in Workers \ {w} :
               pc'[v] = pc[v] /\ job'[v] = job[v] /\ seen'[v] = seen[v]
    PROVE  Inv'
<1>0. UNCHANGED beat
    BY DEF ClaimRows
<1>1. /\ UNCHANGED <<rowLock, effects, pushes>>
      /\ \A j \in Jobs : rowLock[j] # None \/ status[j] = "COMPLETED" =>
           status'[j] = status[j] /\ owner'[j] = owner[j] /\ version'[j] = version[j]
      /\ \A j \in Jobs : version'[j] >= version[j]
      /\ \A j \in Jobs : status'[j] = "COMPLETED" => status[j] = "COMPLETED"
    BY SweepSpares
<1> USE DEF TypeOK, RowType, ProcType, WorldType, Inv
<1>2. \A v \in Workers : pc'[v] \notin {"idle", "claiming", "claimed"} \/ beat'[v] =>
        v # w /\ job[v] \in Jobs
    BY <1>0, <1>1 DEF Places
<1>3. EffectExactlyOnce' /\ PushAfterCommit'
    BY <1>1 DEF EffectExactlyOnce, PushAfterCommit
<1>4. HandlerKeepsClaim'
    BY <1>1, <1>2, NoneAssumption DEF HandlerKeepsClaim, HoldsClaim
<1>5. \A j \in Jobs : rowLock'[j] # None =>
        pc'[rowLock'[j]] = "inTx" /\ job'[rowLock'[j]] = j
    BY <1>1
<1>6. \A v \in Workers : beat'[v] =>
        pc'[v] \notin {"idle", "claiming"} /\ seen'[v] < version'[job'[v]]
    BY <1>0, <1>1, <1>2
<1>7. \A v \in Workers : pc'[v] = "committed" =>
        /\ status'[job'[v]] = "COMPLETED" /\ pushes'[job'[v]] = 0
        /\ \A u \in Workers \ {v} : pc'[u] = "committed" => job'[u] # job'[v]
    BY <1>1, <1>2
<1>. QED
    BY <1>3, <1>4, <1>5, <1>6, <1>7

\* The inductive step.
LEMMA InvStep == TypeOK /\ Inv /\ [Next]_vars => Inv'
<1> SUFFICES ASSUME TypeOK, Inv, [Next]_vars PROVE Inv'
    OBVIOUS
<1>0. TypeOK'
    BY RowTypeStep, ProcTypeStep, WorldTypeStep DEF TypeOK
<1>5. ASSUME NEW w \in Workers, NEW j \in Jobs, Claim(w, j) PROVE Inv'
  <2>1. PICK now \in SUBSET Expired : j \in Claimable(now) /\ ClaimRows(w, now, {j})
    BY <1>5 DEF Claim
  <2>2. {j} \in SUBSET Claimable(now)
    BY <2>1
  <2>3. /\ pc[w] = "claiming" /\ pc'[w] \in {"idle", "claimed"}
        /\ \A v \in Workers \ {w} :
             pc'[v] = pc[v] /\ job'[v] = job[v] /\ seen'[v] = seen[v]
    BY <1>5 DEF Claim, TypeOK, ProcType
  <2>. QED
    BY <1>0, <2>1, <2>2, <2>3, SweepKeepsInv
<1>6. ASSUME NEW w \in Workers, ClaimNothing(w) PROVE Inv'
  <2>1. PICK now \in SUBSET Expired : Claimable(now) = {} /\ ClaimRows(w, now, {})
    BY <1>6 DEF ClaimNothing
  <2>2. {} \in SUBSET Claimable(now)
    OBVIOUS
  <2>3. /\ pc[w] = "claiming" /\ pc'[w] \in {"idle", "claimed"}
        /\ \A v \in Workers \ {w} :
             pc'[v] = pc[v] /\ job'[v] = job[v] /\ seen'[v] = seen[v]
    BY <1>6 DEF ClaimNothing, TypeOK, ProcType
  <2>. QED
    BY <1>0, <2>1, <2>2, <2>3, SweepKeepsInv
<1>7. ASSUME NEW w \in Workers, ClaimBreaks(w) PROVE Inv'
  <2>1. CASE UNCHANGED <<row, rowLock, beat, world>>
    BY <1>7, <2>1 DEF ClaimBreaks, world, row, TypeOK, RowType, ProcType, WorldType, Places,
         Inv, EffectExactlyOnce, PushAfterCommit, HandlerKeepsClaim, HoldsClaim
  <2>3. /\ pc[w] = "claiming" /\ pc'[w] \in {"idle", "claimed"}
        /\ \A v \in Workers \ {w} :
             pc'[v] = pc[v] /\ job'[v] = job[v] /\ seen'[v] = seen[v]
    BY <1>7 DEF ClaimBreaks, TypeOK, ProcType
  <2>2. ASSUME NEW now \in SUBSET Expired, NEW j \in Claimable(now), ClaimRows(w, now, {j})
        PROVE  Inv'
    <3>1. {j} \in SUBSET Claimable(now)
      OBVIOUS
    <3>. QED
      BY <1>0, <2>2, <2>3, <3>1, SweepKeepsInv
  <2>. QED
    BY <1>7, <2>1, <2>2 DEF ClaimBreaks
<1> USE <1>0 DEF TypeOK, RowType, ProcType, WorldType, Places, row, proc, world, bounds,
        Inv, EffectExactlyOnce, PushAfterCommit, HandlerKeepsClaim, HoldsClaim
<1>1. CASE UNCHANGED vars
    BY <1>1 DEF vars
<1>2. ASSUME NEW j \in Jobs, Enqueue(j) \/ BecomesDue(j) \/ LeaseExpires(j) PROVE Inv'
    BY <1>2 DEF Enqueue, BecomesDue, LeaseExpires
<1>3. ASSUME NEW j \in Jobs, NEW record \in Jobs, Requeue(j, record) PROVE Inv'
    BY <1>3 DEF Requeue
<1>4. ASSUME NEW w \in Workers,
             ClaimStart(w) \/ ClaimRefused(w) \/ FailBreaks(w) \/ NoTx(w) PROVE Inv'
    BY <1>4 DEF ClaimStart, ClaimRefused, FailBreaks, Breaks, NoTx
<1>8. ASSUME NEW w \in Workers, BeginTx(w) PROVE Inv'
    BY <1>8 DEF BeginTx
<1>9. ASSUME NEW w \in Workers, Commit(w) PROVE Inv'
    BY <1>9 DEF Commit
<1>10. ASSUME NEW w \in Workers, Rollback(w) PROVE Inv'
    BY <1>10 DEF Rollback
<1>11. ASSUME NEW w \in Workers, AfterCommit(w) PROVE Inv'
    BY <1>11 DEF AfterCommit
<1>12. ASSUME NEW w \in Workers, Fail(w) PROVE Inv'
    BY <1>12 DEF Fail
<1>13. ASSUME NEW w \in Workers, Close(w) PROVE Inv'
    BY <1>13 DEF Close, Forgets
<1>14. ASSUME NEW w \in Workers, Heartbeat(w) PROVE Inv'
    BY <1>14 DEF Heartbeat
<1>15. ASSUME NEW w \in Workers, HeartbeatReply(w) PROVE Inv'
    BY <1>15 DEF HeartbeatReply
<1>16. ASSUME NEW w \in Workers, Shutdown(w) PROVE Inv'
    BY <1>16 DEF Shutdown
<1>17. ASSUME NEW w \in Workers, ReleaseOwned(w) PROVE Inv'
    BY <1>17 DEF ReleaseOwned, Owned
<1>18. ASSUME NEW w \in Workers, Exit(w) \/ Crash(w) PROVE Inv'
  <2>1. /\ \A j \in Jobs : rowLock'[j] # None => rowLock[j] # w /\ rowLock'[j] = rowLock[j]
        /\ \A v \in Workers \ {w} : pc'[v] = pc[v] /\ job'[v] = job[v]
                                    /\ seen'[v] = seen[v] /\ beat'[v] = beat[v]
        /\ pc'[w] = "idle" /\ beat'[w] = FALSE
        /\ \A j \in Jobs : rowLock[j] # w => rowLock'[j] = rowLock[j]
        /\ UNCHANGED <<row, world>>
    BY <1>18 DEF Exit, Crash, Dies, Forgets
  <2>. QED
    BY <2>1
<1>. QED
    BY <1>1, <1>2, <1>3, <1>4, <1>5, <1>6, <1>7, <1>8, <1>9, <1>10, <1>11,
       <1>12, <1>13, <1>14, <1>15, <1>16, <1>17, <1>18 DEF Next
LEMMA InvInvariant == Spec => [](TypeOK /\ Inv)
<1>1. Init => TypeOK /\ Inv
    BY DEF Init, TypeOK, RowType, ProcType, WorldType, Statuses, Modes, Places,
           Inv, EffectExactlyOnce, PushAfterCommit, HandlerKeepsClaim
<1>2. TypeOK /\ Inv /\ [Next]_vars => (TypeOK /\ Inv)'
    BY InvStep, RowTypeStep, ProcTypeStep, WorldTypeStep DEF TypeOK
<1>. QED
    BY <1>1, <1>2, PTL DEF Spec

\* An event's effect is committed once, when its row completes.
THEOREM EffectsOnce == Spec => []EffectExactlyOnce
BY InvInvariant, PTL DEF Inv

\* Pushes follow the commit and are not repeated.
THEOREM PushesFollowCommits == Spec => []PushAfterCommit
BY InvInvariant, PTL DEF Inv

\* A handler that got its row keeps it until its transaction ends.
THEOREM HandlersKeepClaims == Spec => []HandlerKeepsClaim
BY InvInvariant, PTL DEF Inv

-----------------------------------------------------------------------------
(* The fence *)

\* Whatever changes a row's state, owner, attempts or generation raises its version.
THEOREM VersionsFence == Spec => VersionFencesChange
<1>1. ASSUME TypeOK, TypeOK', [Next]_vars, NEW j \in Jobs PROVE Fenced(j)
  <2> USE <1>1 DEF TypeOK, RowType, row, Fenced
  <2>1. CASE UNCHANGED row
    BY <2>1
  <2>2. ASSUME NEW w \in Workers, NEW now \in SUBSET Expired,
               NEW taken \in SUBSET Claimable(now), ClaimRows(w, now, taken)
        PROVE  Fenced(j)
    BY <2>2 DEF ClaimRows, Recovered, Expired
  <2>3. ASSUME NEW i \in Jobs, NEW record \in Jobs,
               Enqueue(i) \/ BecomesDue(i) \/ LeaseExpires(i) \/ Requeue(i, record)
        PROVE  Fenced(j)
    <3>1. CASE Requeue(i, record)
      BY <3>1 DEF Requeue
    <3>2. CASE Enqueue(i)
      BY <3>2 DEF Enqueue
    <3>3. CASE BecomesDue(i) \/ LeaseExpires(i)
      BY <3>3 DEF BecomesDue, LeaseExpires
    <3>. QED
      BY <2>3, <3>1, <3>2, <3>3
  <2>4. ASSUME NEW w \in Workers,
               \/ Commit(w) \/ Fail(w) \/ Heartbeat(w) \/ ReleaseOwned(w)
        PROVE  Fenced(j)
    <3>1. CASE ReleaseOwned(w)
      BY <3>1 DEF ReleaseOwned, Owned
    <3> USE DEF ProcType, Places
    <3>2. CASE Commit(w)
      BY <3>2 DEF Commit
    <3>3. CASE Fail(w)
      BY <3>3 DEF Fail
    <3>4. CASE Heartbeat(w)
      BY <3>4 DEF Heartbeat
    <3>. QED
      BY <2>4, <3>1, <3>2, <3>3, <3>4
  <2>5. ASSUME NEW w \in Workers,
               \/ ClaimNothing(w) \/ ClaimBreaks(w) \/ \E i \in Jobs : Claim(w, i)
        PROVE  UNCHANGED row \/ \E now \in SUBSET Expired :
                 \E taken \in SUBSET Claimable(now) : ClaimRows(w, now, taken)
    <3>1. ASSUME NEW now \in SUBSET Expired, NEW i \in Claimable(now)
          PROVE  {i} \in SUBSET Claimable(now)
      OBVIOUS
    <3>2. ASSUME NEW now \in SUBSET Expired
          PROVE  {} \in SUBSET Claimable(now)
      OBVIOUS
    <3>. QED
      BY <2>5, <3>1, <3>2 DEF ClaimNothing, ClaimBreaks, Claim
  <2>6. ASSUME NEW w \in Workers,
               \/ ClaimStart(w) \/ ClaimRefused(w) \/ FailBreaks(w) \/ BeginTx(w)
               \/ NoTx(w) \/ Rollback(w) \/ AfterCommit(w) \/ Close(w)
               \/ HeartbeatReply(w) \/ Shutdown(w) \/ Exit(w) \/ Crash(w)
        PROVE  UNCHANGED row
    BY <2>6 DEF ClaimStart, ClaimRefused, FailBreaks, BeginTx, NoTx, Rollback, AfterCommit,
                Close, HeartbeatReply, Shutdown, Exit, Crash, Dies, Forgets
  <2>7. CASE UNCHANGED vars
    BY <2>1, <2>7 DEF vars
  <2>. QED
    BY <1>1, <2>1, <2>2, <2>3, <2>4, <2>5, <2>6, <2>7 DEF Next
<1>2. TypeOK /\ TypeOK' /\ [Next]_vars => [\A j \in Jobs : Fenced(j)]_vars
    BY <1>1
<1>. QED
    BY <1>2, TypeCorrect, PTL DEF Spec, VersionFencesChange

-----------------------------------------------------------------------------
(* Refinement *)

\* A transaction of claimOne() is invisible to the producer.
LEMMA SweepStutters ==
    ASSUME TypeOK, NEW w \in Workers, NEW now \in SUBSET Expired,
           NEW taken \in SUBSET Claimable(now), ClaimRows(w, now, taken)
    PROVE  UNCHANGED <<Ledger, effects>>
<1>1. \A j \in Jobs : status'[j] = status[j]
         \/ {status[j], status'[j]} \subseteq {"PENDING", "RETRY", "PROCESSING"}
    BY DEF TypeOK, RowType, ClaimRows, Claimable, Expired, Recovered
<1>2. \A j \in Jobs : Ledger'[j] = Ledger[j]
    BY <1>1 DEF Ledger
<1>. QED
    BY <1>2 DEF Ledger, ClaimRows, world

\* Every step of the worker is a step of the ledger, or invisible in it.
LEMMA LedgerStep ==
    ASSUME TypeOK, [Next]_vars
    PROVE  [Abstract!Next]_(Abstract!vars)
<1> USE DEF Abstract!vars
<1>1. CASE UNCHANGED vars
    BY <1>1 DEF vars, row, world, Ledger
<1> USE DEF TypeOK, RowType, WorldType, ProcType, Statuses
<1>2. ASSUME NEW j \in Jobs, Enqueue(j) PROVE Abstract!Submit(j)
    BY <1>2 DEF Enqueue, Ledger, Abstract!Submit, world
<1>3. ASSUME NEW j \in Jobs, NEW record \in Jobs, Requeue(j, record)
      PROVE  Abstract!Unpark(j, record)
    BY <1>3 DEF Requeue, Ledger, Abstract!Unpark, world
<1>4. ASSUME NEW w \in Workers, Commit(w)
      PROVE  job[w] \in Jobs /\ Abstract!Finish(job[w])
    BY <1>4 DEF Commit, HoldsClaim, Ledger, Abstract!Finish
<1>5. ASSUME NEW w \in Workers, Fail(w)
      PROVE  job[w] \in Jobs /\ (Abstract!Park(job[w]) \/ UNCHANGED <<Ledger, effects>>)
  <2>1. job[w] \in Jobs
    BY <1>5 DEF Fail
  <2>2. CASE status'[job[w]] = "POISONED" /\ HoldsClaim(w, job[w])
    <3>1. status' = [status EXCEPT ![job[w]] = "POISONED"] /\ status[job[w]] = "PROCESSING"
      BY <1>5, <2>1, <2>2 DEF Fail, HoldsClaim
    <3>. QED
      BY <1>5, <2>1, <3>1 DEF Fail, Ledger, Abstract!Park, world
  <2>3. CASE ~(status'[job[w]] = "POISONED" /\ HoldsClaim(w, job[w]))
    BY <1>5, <2>1, <2>3 DEF Fail, HoldsClaim, Ledger, world
  <2>. QED
    BY <2>1, <2>2, <2>3
<1>6. ASSUME NEW w \in Workers,
             \/ ClaimNothing(w) \/ ClaimBreaks(w) \/ \E j \in Jobs : Claim(w, j)
      PROVE  UNCHANGED <<Ledger, effects>>
  <2>1. ASSUME NEW now \in SUBSET Expired, NEW j \in Claimable(now)
        PROVE  {j} \in SUBSET Claimable(now)
    OBVIOUS
  <2>2. ASSUME NEW now \in SUBSET Expired
        PROVE  {} \in SUBSET Claimable(now)
    OBVIOUS
  <2>3. \/ UNCHANGED <<row, world>>
        \/ \E now \in SUBSET Expired : \E taken \in SUBSET Claimable(now) : ClaimRows(w, now, taken)
    BY <1>6, <2>1, <2>2 DEF ClaimNothing, ClaimBreaks, Claim
  <2>. QED
    BY <2>3, SweepStutters DEF row, world, Ledger
<1>7. ASSUME NEW w \in Workers, ReleaseOwned(w) PROVE UNCHANGED <<Ledger, effects>>
  <2>1. \A j \in Jobs : Ledger'[j] = Ledger[j]
    BY <1>7 DEF ReleaseOwned, Owned, Ledger
  <2>. QED
    BY <1>7, <2>1 DEF ReleaseOwned, Ledger, world
<1>8. ASSUME NEW w \in Workers,
             \/ ClaimStart(w) \/ ClaimRefused(w) \/ FailBreaks(w) \/ BeginTx(w)
             \/ NoTx(w) \/ Rollback(w) \/ AfterCommit(w) \/ Close(w) \/ Heartbeat(w)
             \/ HeartbeatReply(w) \/ Shutdown(w) \/ Exit(w) \/ Crash(w)
      PROVE  UNCHANGED <<status, effects>>
    BY <1>8 DEF ClaimStart, ClaimRefused, FailBreaks, BeginTx, NoTx, Rollback, AfterCommit, Close,
                Heartbeat, HeartbeatReply, Shutdown, Exit, Crash, Dies, Forgets, row, world
<1>9. ASSUME NEW j \in Jobs, BecomesDue(j) \/ LeaseExpires(j) PROVE UNCHANGED <<status, effects>>
    BY <1>9 DEF BecomesDue, LeaseExpires, world
<1>10. ASSUME UNCHANGED <<status, effects>> PROVE UNCHANGED <<Ledger, effects>>
    BY <1>10 DEF Ledger
<1>. QED
    BY <1>1, <1>2, <1>3, <1>4, <1>5, <1>6, <1>7, <1>8, <1>9, <1>10 DEF Next, Abstract!Next

\* The worker's safety is the ledger's: nothing is done twice, lost, or
\* released without having been parked.
THEOREM WorkerImplementsLedger == Spec => ImplementsLedger
<1>1. Init => Abstract!Init
    BY DEF Init, Abstract!Init, Ledger
<1>. QED
    BY <1>1, LedgerStep, TypeCorrect, PTL DEF Spec, ImplementsLedger, Abstract!SafeSpec
=============================================================================
