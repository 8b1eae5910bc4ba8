---------------------------- MODULE OutboxWorker ----------------------------
(***************************************************************************)
(* The durable job queue of the game operations worker: rows of            *)
(* v1_outbox_events, and the worker processes that claim, heartbeat, run,  *)
(* complete, fail and release them                                         *)
(* (apps/v1_api/src/jobs/v1-game-operations-worker.service.ts), together   *)
(* with the operator's requeue (config/game-operation-flags.ts).           *)
(*                                                                         *)
(* One atomic step is one SQL statement or one transaction.  Instants are  *)
(* abstracted to the two comparisons the SQL makes with CURRENT_TIMESTAMP: *)
(* whether available_at has passed (due) and whether lease_until has       *)
(* passed (lease = "expired").  A worker is one process incarnation, as    *)
(* its owner id is a random UUID drawn at start.                           *)
(***************************************************************************)
EXTENDS Naturals

CONSTANTS Jobs,            \* business keys, each of which can have one row
          Workers,         \* process incarnations
          None,            \* "no worker" / "no job"
          MaxAttempts,     \* claims of a row before fail() poisons it (6)
          MaxGenerations,  \* bound: operator requeues of one row
          MaxExits,        \* bound: processes that crash, shut down or break
          MaxBeats,        \* bound: heartbeats that renew a lease
          MaxSlips         \* bound: leases that expire under a working worker

ASSUME NoneAssumption == None \notin Workers /\ None \notin Jobs
ASSUME MaxAttemptsAssumption == MaxAttempts \in Nat \ {0}

VARIABLES
    \* columns of v1_outbox_events
    status, attempts, version, gen, owner, lease, due,
    rowLock,      \* the worker whose open transaction holds the row FOR UPDATE
    \* state of a worker process
    mode,         \* the process: running, stopping, released, exited, crashed
    pc,           \* where processOne() is
    job,          \* claim.id
    seen,         \* claim.version
    beat,         \* a heartbeat has updated the row, its reply not yet seen
    \* what the outside world observes
    effects,      \* committed effects of the handler
    pushes,       \* after-commit effects performed
    \* bounds
    exits, beats, slips

row == <<status, attempts, version, gen, owner, lease, due>>
proc == <<mode, pc, job, seen, beat>>
world == <<effects, pushes>>
bounds == <<exits, beats, slips>>
vars == <<row, rowLock, proc, world, bounds>>

Statuses == {"ABSENT", "PENDING", "RETRY", "PROCESSING", "COMPLETED", "POISONED"}
Modes == {"running", "stopping", "released", "exited", "crashed"}
Places == {"idle", "claiming", "claimed", "inTx", "failing", "committed", "closing"}

RowType ==
    /\ status \in [Jobs -> Statuses]
    /\ attempts \in [Jobs -> Nat]
    /\ version \in [Jobs -> Nat]
    /\ gen \in [Jobs -> Nat]
    /\ owner \in [Jobs -> Workers \cup {None}]
    /\ lease \in [Jobs -> {"none", "live", "expired"}]
    /\ due \in [Jobs -> BOOLEAN]
    /\ rowLock \in [Jobs -> Workers \cup {None}]

ProcType ==
    /\ mode \in [Workers -> Modes]
    /\ pc \in [Workers -> Places]
    /\ job \in [Workers -> Jobs \cup {None}]
    /\ seen \in [Workers -> Nat]
    /\ beat \in [Workers -> BOOLEAN]
    /\ \A w \in Workers : pc[w] \notin {"idle", "claiming"} => job[w] \in Jobs

WorldType ==
    /\ effects \in [Jobs -> Nat]
    /\ pushes \in [Jobs -> Nat]
    /\ exits \in Nat /\ beats \in Nat /\ slips \in Nat

TypeOK == RowType /\ ProcType /\ WorldType

Init ==
    /\ status = [j \in Jobs |-> "ABSENT"]
    /\ attempts = [j \in Jobs |-> 0]
    /\ version = [j \in Jobs |-> 0]
    /\ gen = [j \in Jobs |-> 0]
    /\ owner = [j \in Jobs |-> None]
    /\ lease = [j \in Jobs |-> "none"]
    /\ due = [j \in Jobs |-> FALSE]
    /\ rowLock = [j \in Jobs |-> None]
    /\ mode = [w \in Workers |-> "running"]
    /\ pc = [w \in Workers |-> "idle"]
    /\ job = [w \in Workers |-> None]
    /\ seen = [w \in Workers |-> 0]
    /\ beat = [w \in Workers |-> FALSE]
    /\ effects = [j \in Jobs |-> 0]
    /\ pushes = [j \in Jobs |-> 0]
    /\ exits = 0
    /\ beats = 0
    /\ slips = 0

-----------------------------------------------------------------------------
(* Producers, the clock and the operator *)

\* INSERT ... ON CONFLICT (business_key) DO NOTHING: one row per business key,
\* available at once or at a later instant.
Enqueue(j) ==
    /\ status[j] = "ABSENT"
    /\ status' = [status EXCEPT ![j] = "PENDING"]
    /\ \E b \in BOOLEAN : due' = [due EXCEPT ![j] = b]
    /\ UNCHANGED <<attempts, version, gen, owner, lease, rowLock, proc, world, bounds>>

BecomesDue(j) ==
    /\ status[j] \in {"PENDING", "RETRY"}
    /\ ~due[j]
    /\ due' = [due EXCEPT ![j] = TRUE]
    /\ UNCHANGED <<status, attempts, version, gen, owner, lease, rowLock, proc, world, bounds>>

Alive(w) == mode[w] \in {"running", "stopping", "released"}

\* The WHERE clause shared by lockClaim, completeWith, heartbeat and fail.
HoldsClaim(w, j) ==
    /\ status[j] = "PROCESSING"
    /\ owner[j] = w
    /\ version[j] = seen[w]

Working(w, j) == Alive(w) /\ job[w] = j /\ pc[w] \in {"claimed", "inTx", "failing"}

\* A stalled process may let the lease of the job it is working on expire.
LeaseExpires(j) ==
    /\ lease[j] = "live"
    /\ lease' = [lease EXCEPT ![j] = "expired"]
    /\ IF \E w \in Workers : Working(w, j) /\ owner[j] = w
       THEN slips < MaxSlips /\ slips' = slips + 1
       ELSE UNCHANGED slips
    /\ UNCHANGED <<status, attempts, version, gen, owner, due, rowLock, proc, world, exits, beats>>

\* Mutant: a requeue that leaves the version where it was.
RequeueUnfenced(j, record) ==
    /\ status[j] = "POISONED"
    /\ status[record] = "ABSENT"
    /\ gen[j] < MaxGenerations
    /\ status' = [status EXCEPT ![j] = "RETRY", ![record] = "PENDING"]
    /\ attempts' = [attempts EXCEPT ![j] = 0]
    /\ gen' = [gen EXCEPT ![j] = @ + 1]
    /\ due' = [due EXCEPT ![j] = TRUE, ![record] = TRUE]
    /\ UNCHANGED <<version, owner, lease, rowLock, proc, world, bounds>>

\* requeueJob: only a POISONED row, with a fresh attempt budget.  The same
\* transaction writes the outbox event that audits the requeue.
Requeue(j, record) ==
    /\ status[j] = "POISONED"
    /\ status[record] = "ABSENT"
    /\ gen[j] < MaxGenerations
    /\ status' = [status EXCEPT ![j] = "RETRY", ![record] = "PENDING"]
    /\ attempts' = [attempts EXCEPT ![j] = 0]
    /\ gen' = [gen EXCEPT ![j] = @ + 1]
    /\ version' = [version EXCEPT ![j] = @ + 1]
    /\ due' = [due EXCEPT ![j] = TRUE, ![record] = TRUE]
    /\ UNCHANGED <<owner, lease, rowLock, proc, world, bounds>>

-----------------------------------------------------------------------------
(* One worker *)

\* The claim object is dropped.
Forgets(w) ==
    /\ pc' = [pc EXCEPT ![w] = "idle"]
    /\ job' = [job EXCEPT ![w] = None]
    /\ seen' = [seen EXCEPT ![w] = 0]
    /\ beat' = [beat EXCEPT ![w] = FALSE]

\* processOne/claimOne test acceptingClaims before they await the claim.
ClaimStart(w) ==
    /\ mode[w] = "running"
    /\ pc[w] = "idle"
    /\ pc' = [pc EXCEPT ![w] = "claiming"]
    /\ UNCHANGED <<row, rowLock, mode, job, seen, beat, world, bounds>>

\* The tournament cutover holds the advisory lock: claimOne gives up.
ClaimRefused(w) ==
    /\ Alive(w)
    /\ pc[w] = "claiming"
    /\ pc' = [pc EXCEPT ![w] = "idle"]
    /\ UNCHANGED <<row, rowLock, mode, job, seen, beat, world, bounds>>

\* Mutants: a sweep that does not skip locked rows, and one that leaves alone
\* the rows that have used up their attempts.
ExpiredLocked == {j \in Jobs : status[j] = "PROCESSING" /\ lease[j] = "expired"}
ExpiredUnderCap == {j \in Jobs : status[j] = "PROCESSING" /\ lease[j] = "expired"
                                   /\ rowLock[j] = None /\ attempts[j] < MaxAttempts}

\* First statement of the claim transaction: every expired lease that no open
\* transaction has locked (SKIP LOCKED) goes back to RETRY.
Expired == {j \in Jobs : status[j] = "PROCESSING" /\ lease[j] = "expired" /\ rowLock[j] = None}

\* Mutants: candidates chosen by their free lease alone, or only if PENDING.
ClaimableByLease(now) == now \cup {j \in Jobs : status[j] # "ABSENT" /\ lease[j] = "none"}
ClaimablePending(now) == {j \in Jobs : status[j] = "PENDING" /\ due[j]}

\* Second statement: what may be claimed once `now` of the recovered rows
\* have a retry instant (lease_until + delay) that has already passed.
Claimable(now) == now \cup {j \in Jobs : status[j] \in {"PENDING", "RETRY"} /\ due[j]}

Recovered(j) == j \in Expired

\* The row a claim transaction leaves behind when it claims `taken` (a set of
\* at most one row) after recovering every expired lease.
ClaimRows(w, now, taken) ==
    /\ status' = [j \in Jobs |-> IF j \in taken THEN "PROCESSING"
                                 ELSE IF Recovered(j) THEN "RETRY" ELSE status[j]]
    /\ attempts' = [j \in Jobs |-> IF j \in taken THEN attempts[j] + 1 ELSE attempts[j]]
    /\ version' = [j \in Jobs |-> version[j] + (IF Recovered(j) THEN 1 ELSE 0)
                                             + (IF j \in taken THEN 1 ELSE 0)]
    /\ owner' = [j \in Jobs |-> IF j \in taken THEN w
                                ELSE IF Recovered(j) THEN None ELSE owner[j]]
    /\ lease' = [j \in Jobs |-> IF j \in taken THEN "live"
                                ELSE IF Recovered(j) THEN "none" ELSE lease[j]]
    /\ due' = [j \in Jobs |-> (due[j] \/ j \in now) /\ j \notin taken]
    /\ UNCHANGED <<gen, rowLock, beat, world>>

Claim(w, j) ==
    /\ Alive(w)
    /\ pc[w] = "claiming"
    /\ \E now \in SUBSET Expired :
         /\ j \in Claimable(now)
         /\ ClaimRows(w, now, {j})
    /\ pc' = [pc EXCEPT ![w] = "claimed"]
    /\ job' = [job EXCEPT ![w] = j]
    /\ seen' = [seen EXCEPT ![w] = version'[j]]
    /\ UNCHANGED <<mode, bounds>>

ClaimNothing(w) ==
    /\ Alive(w)
    /\ pc[w] = "claiming"
    /\ \E now \in SUBSET Expired :
         /\ Claimable(now) = {}
         /\ ClaimRows(w, now, {})
    /\ pc' = [pc EXCEPT ![w] = "idle"]
    /\ UNCHANGED <<mode, job, seen, bounds>>

\* The database refuses a statement outside the effect transaction: run()
\* rejects, and bootstrap() shuts the worker down and ends the process.
Breaks(w) ==
    /\ mode[w] = "running"
    /\ exits < MaxExits
    /\ exits' = exits + 1
    /\ mode' = [mode EXCEPT ![w] = "stopping"]
    /\ UNCHANGED <<beats, slips>>

\* claimOne() rejects.  Its transaction may have committed all the same, and
\* then the row is claimed by a worker that does not know it.
ClaimBreaks(w) ==
    /\ Breaks(w)
    /\ pc[w] = "claiming"
    /\ \/ UNCHANGED <<row, rowLock, beat, world>>
       \/ \E now \in SUBSET Expired : \E j \in Claimable(now) : ClaimRows(w, now, {j})
    /\ pc' = [pc EXCEPT ![w] = "idle"]
    /\ UNCHANGED <<job, seen>>

\* fail() rejects: the finally block still runs, the row keeps its lease.
FailBreaks(w) ==
    /\ Breaks(w)
    /\ pc[w] = "failing"
    /\ pc' = [pc EXCEPT ![w] = "closing"]
    /\ UNCHANGED <<row, rowLock, job, seen, beat, world>>

\* lockClaim: SELECT ... FOR UPDATE opens the effect transaction.
BeginTx(w) ==
    LET j == job[w] IN
    /\ Alive(w)
    /\ pc[w] = "claimed"
    /\ rowLock[j] = None
    /\ HoldsClaim(w, j)
    /\ rowLock' = [rowLock EXCEPT ![j] = w]
    /\ pc' = [pc EXCEPT ![w] = "inTx"]
    /\ UNCHANGED <<row, mode, job, seen, beat, world, bounds>>

\* The claim was lost before the effect, no handler is registered, or the
\* transaction cannot be opened within maxWait.
NoTx(w) ==
    /\ Alive(w)
    /\ pc[w] = "claimed"
    /\ pc' = [pc EXCEPT ![w] = "failing"]
    /\ UNCHANGED <<row, rowLock, mode, job, seen, beat, world, bounds>>

\* The handler's writes, completeWith and COMMIT take effect together.
\* The worker either learns of the commit or gets an error for it.
Commit(w) ==
    LET j == job[w] IN
    /\ Alive(w)
    /\ pc[w] = "inTx"
    /\ HoldsClaim(w, j)
    /\ status' = [status EXCEPT ![j] = "COMPLETED"]
    /\ owner' = [owner EXCEPT ![j] = None]
    /\ lease' = [lease EXCEPT ![j] = "none"]
    /\ version' = [version EXCEPT ![j] = @ + 1]
    /\ rowLock' = [rowLock EXCEPT ![j] = None]
    /\ effects' = [effects EXCEPT ![j] = @ + 1]
    /\ \/ /\ pc' = [pc EXCEPT ![w] = "committed"]
          /\ seen' = [seen EXCEPT ![w] = @ + 1]
       \/ /\ pc' = [pc EXCEPT ![w] = "failing"]
          /\ UNCHANGED seen
    /\ UNCHANGED <<attempts, gen, due, mode, job, beat, pushes, bounds>>

\* The handler throws or overruns its deadline, or completeWith finds that
\* claim.version has moved: everything it wrote is rolled back.
Rollback(w) ==
    /\ Alive(w)
    /\ pc[w] = "inTx"
    /\ rowLock' = [rowLock EXCEPT ![job[w]] = None]
    /\ pc' = [pc EXCEPT ![w] = "failing"]
    /\ UNCHANGED <<row, mode, job, seen, beat, world, bounds>>

\* Mutant: the handler sends from inside its transaction.
PushInTx(w) ==
    /\ Alive(w)
    /\ pc[w] = "inTx"
    /\ pushes' = [pushes EXCEPT ![job[w]] = @ + 1]
    /\ UNCHANGED <<row, rowLock, proc, effects, bounds>>

\* afterCommit: web pushes and other sends that cannot be rolled back.
AfterCommit(w) ==
    /\ Alive(w)
    /\ pc[w] = "committed"
    /\ pushes' = [pushes EXCEPT ![job[w]] = @ + 1]
    /\ pc' = [pc EXCEPT ![w] = "closing"]
    /\ UNCHANGED <<row, rowLock, mode, job, seen, beat, effects, bounds>>

\* fail(): RETRY with the next delay, POISONED at the last attempt, or STALE.
\* claim.attempts equals the column while the claim holds: only a claim and
\* the requeue of a POISONED row change it.
Fail(w) ==
    LET j == job[w] IN
    /\ Alive(w)
    /\ pc[w] = "failing"
    /\ rowLock[j] = None
    /\ IF HoldsClaim(w, j)
       THEN /\ status' = [status EXCEPT
                 ![j] = IF attempts[j] >= MaxAttempts THEN "POISONED" ELSE "RETRY"]
            /\ owner' = [owner EXCEPT ![j] = None]
            /\ lease' = [lease EXCEPT ![j] = "none"]
            /\ version' = [version EXCEPT ![j] = @ + 1]
       ELSE UNCHANGED <<status, owner, lease, version>>
    /\ pc' = [pc EXCEPT ![w] = "closing"]
    /\ UNCHANGED <<attempts, gen, due, rowLock, mode, job, seen, beat, world, bounds>>

\* The finally block: stop the timer, wait for a heartbeat in flight.
Close(w) ==
    /\ Alive(w)
    /\ pc[w] = "closing"
    /\ Forgets(w)
    /\ UNCHANGED <<row, rowLock, mode, world, bounds>>

\* heartbeat(), the UPDATE.  It waits for the row lock, also for the one this
\* very worker holds through its effect transaction.
Heartbeat(w) ==
    LET j == job[w] IN
    /\ Alive(w)
    /\ pc[w] \in {"claimed", "inTx", "failing"}
    /\ ~beat[w]
    /\ rowLock[j] = None
    /\ HoldsClaim(w, j)
    /\ beats < MaxBeats
    /\ version' = [version EXCEPT ![j] = @ + 1]
    /\ lease' = [lease EXCEPT ![j] = "live"]
    /\ beat' = [beat EXCEPT ![w] = TRUE]
    /\ beats' = beats + 1
    /\ UNCHANGED <<status, attempts, gen, owner, due, rowLock, mode, pc, job, seen, world, exits, slips>>

\* heartbeat(), its continuation: claim.version += 1.
HeartbeatReply(w) ==
    /\ Alive(w)
    /\ beat[w]
    /\ seen' = [seen EXCEPT ![w] = @ + 1]
    /\ beat' = [beat EXCEPT ![w] = FALSE]
    /\ UNCHANGED <<row, rowLock, mode, pc, job, world, bounds>>

\* shutdown(): acceptingClaims = false.
Shutdown(w) ==
    /\ mode[w] = "running"
    /\ exits < MaxExits
    /\ exits' = exits + 1
    /\ mode' = [mode EXCEPT ![w] = "stopping"]
    /\ UNCHANGED <<row, rowLock, pc, job, seen, beat, world, beats, slips>>

Owned(w) == {j \in Jobs : status[j] = "PROCESSING" /\ owner[j] = w}

\* releaseOwnedLeases(), once the active handler has settled or the grace
\* period is over.  The UPDATE waits for locked rows.
ReleaseOwned(w) ==
    /\ mode[w] = "stopping"
    /\ \A j \in Owned(w) : rowLock[j] = None
    /\ mode' = [mode EXCEPT ![w] = "released"]
    /\ status' = [j \in Jobs |-> IF j \in Owned(w) THEN "RETRY" ELSE status[j]]
    /\ owner' = [j \in Jobs |-> IF j \in Owned(w) THEN None ELSE owner[j]]
    /\ lease' = [j \in Jobs |-> IF j \in Owned(w) THEN "none" ELSE lease[j]]
    /\ version' = [j \in Jobs |-> IF j \in Owned(w) THEN version[j] + 1 ELSE version[j]]
    /\ UNCHANGED <<attempts, gen, due, rowLock, pc, job, seen, beat, world, bounds>>

\* The end of a process: its connection closes, an open transaction rolls
\* back, and what it remembered is gone.
Dies(w, how) ==
    /\ mode' = [mode EXCEPT ![w] = how]
    /\ rowLock' = [j \in Jobs |-> IF rowLock[j] = w THEN None ELSE rowLock[j]]
    /\ Forgets(w)
    /\ UNCHANGED <<row, world, beats, slips>>

Exit(w) ==
    /\ mode[w] = "released"
    /\ Dies(w, "exited")
    /\ UNCHANGED exits

\* A crash also stands for a shutdown whose release could not be written.
Crash(w) ==
    /\ \/ /\ mode[w] = "running"
          /\ exits < MaxExits
          /\ exits' = exits + 1
       \/ /\ mode[w] = "stopping"
          /\ UNCHANGED exits
    /\ Dies(w, "crashed")

-----------------------------------------------------------------------------
Finished == \A j \in Jobs : status[j] \in {"COMPLETED", "POISONED"}

Next ==
    \/ \E j \in Jobs :
         \/ Enqueue(j) \/ BecomesDue(j) \/ LeaseExpires(j)
         \/ \E record \in Jobs : Requeue(j, record)
    \/ \E w \in Workers :
         \/ ClaimStart(w) \/ ClaimRefused(w) \/ ClaimNothing(w) \/ ClaimBreaks(w)
         \/ \E j \in Jobs : Claim(w, j)
         \/ BeginTx(w) \/ NoTx(w) \/ Commit(w) \/ Rollback(w)
         \/ AfterCommit(w) \/ Fail(w) \/ FailBreaks(w) \/ Close(w)
         \/ Heartbeat(w) \/ HeartbeatReply(w)
         \/ Shutdown(w) \/ ReleaseOwned(w) \/ Exit(w) \/ Crash(w)

Spec == Init /\ [][Next]_vars

-----------------------------------------------------------------------------
(* Fairness.  A process that is running keeps taking steps; instants pass;  *)
(* the claim serves the oldest available_at first and the cutover lock is   *)
(* held for a finite time, so a job that is claimable again and again is in *)
(* the end claimed.  Nothing is assumed of producers, operators, crashes,   *)
(* heartbeats, or of which outcome a database call has.                     *)

Step(w) ==
    \/ ClaimStart(w) \/ ClaimRefused(w) \/ ClaimNothing(w)
    \/ BeginTx(w) \/ NoTx(w) \/ Commit(w) \/ Rollback(w)
    \/ AfterCommit(w) \/ Fail(w) \/ Close(w)
    \/ ReleaseOwned(w) \/ Exit(w)

Fairness ==
    /\ \A w \in Workers : WF_vars(Step(w))
    /\ \A j \in Jobs :
         /\ WF_vars(BecomesDue(j))
         /\ WF_vars(LeaseExpires(j))
         /\ SF_vars(\E w \in Workers : Claim(w, j))

FairSpec == Spec /\ Fairness

-----------------------------------------------------------------------------
(* Properties *)

\* However many replicas claim, lose, retry and requeue an event, its handler's
\* effect is committed once, in the transaction that completes the row.
EffectExactlyOnce ==
    \A j \in Jobs : effects[j] = IF status[j] = "COMPLETED" THEN 1 ELSE 0

\* A push leaves the process at most once, and only for a committed effect.
PushAfterCommit == \A j \in Jobs : pushes[j] <= effects[j]

\* Once lockClaim has returned the row, no sweep, release, heartbeat or rival
\* moves it: completeWith cannot lose, and no two handlers run for one event.
HandlerKeepsClaim ==
    \A w \in Workers : pc[w] = "inTx" =>
        /\ HoldsClaim(w, job[w])
        /\ rowLock[job[w]] = w

\* The induction behind the three invariants above: a row lock belongs to a
\* handler at work on that row; a heartbeat whose reply is due has made the
\* worker's version stale; and a worker about to push is the only one about
\* to push for its event, which is complete and not yet pushed.
Inv ==
    /\ EffectExactlyOnce
    /\ PushAfterCommit
    /\ HandlerKeepsClaim
    /\ \A j \in Jobs : rowLock[j] # None =>
         pc[rowLock[j]] = "inTx" /\ job[rowLock[j]] = j
    /\ \A w \in Workers : beat[w] =>
         pc[w] \notin {"idle", "claiming"} /\ seen[w] < version[job[w]]
    /\ \A w \in Workers : pc[w] = "committed" =>
         /\ status[job[w]] = "COMPLETED" /\ pushes[job[w]] = 0
         /\ \A v \in Workers \ {w} : pc[v] = "committed" => job[v] # job[w]

\* Every change of a row's owner, state, attempts or generation moves its
\* version, which is all that fences a worker's late statement.
Fenced(j) ==
    status[j] # "ABSENT" /\ version'[j] <= version[j] =>
        /\ status'[j] = status[j] /\ owner'[j] = owner[j]
        /\ attempts'[j] = attempts[j] /\ gen'[j] = gen[j]

VersionFencesChange == [][\A j \in Jobs : Fenced(j)]_vars

\* A claim abandoned by a dead process, however it died, comes back.
AbandonedClaimReturns ==
    \A w \in Workers, j \in Jobs :
        (~Alive(w) /\ owner[j] = w) ~> (owner[j] # w)

\* Every submitted event ends up applied or parked for an operator.
EventSettles ==
    \A j \in Jobs : (status[j] # "ABSENT") ~> (status[j] \in {"COMPLETED", "POISONED"})

\* What the producer sees of the rows.
Ledger == [j \in Jobs |->
    CASE status[j] = "ABSENT" -> "absent"
      [] status[j] = "COMPLETED" -> "done"
      [] status[j] = "POISONED" -> "parked"
      [] OTHER -> "open"]

Abstract == INSTANCE JobLedger WITH ledger <- Ledger, applied <- effects

\* The worker implements the ledger: safety, and under fairness its liveness.
ImplementsLedger == Abstract!SafeSpec
ImplementsLedgerLive == Abstract!Spec
=============================================================================
