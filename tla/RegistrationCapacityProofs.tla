-------------------- MODULE RegistrationCapacityProofs --------------------
(***************************************************************************)
(* Proofs about RegistrationCapacity, for any number of teams and of       *)
(* requests and for any limits.  The invariant says what a request in      *)
(* flight may rely on: it holds its lock alone, the place it counted is    *)
(* still there, the row it may write is not a cancelled one, and the seat  *)
(* it will take away is the one the team has.                              *)
(***************************************************************************)
EXTENDS RegistrationCapacity, FiniteSetTheorems, TLAPS

\* Nobody shares a lock.
Exclusive ==
    \A x, y \in Workers :
        tx[x] # Idle /\ tx[y] # Idle /\ tx[x].stage = "locked" /\ tx[y].stage = "locked"
            /\ LockOf(tx[x].op) = LockOf(tx[y].op) => x = y

\* What a request that may take a place has counted still holds.
Roomy(w) ==
    LET t == tx[w].team IN
        /\ tx[w].op = "submit" /\ tx[w].stage = "locked" => ~Full(Reserved \ {t})
        /\ tx[w].op \in {"confirm", "add"} => ~Full(Reserved \ {t})
        /\ tx[w].op = "withdraw" /\ tx[w].fresh => HasRoom(t, Restored(t, "awaiting_payment"))
        /\ tx[w].op = "reject" /\ tx[w].fresh => HasRoom(t, Restored(t, "confirmed"))
        /\ tx[w].op = "confirm_payment" /\ tx[w].fresh => reg[t].status = "awaiting_payment"

\* A row that is as it was read is not cancelled.
Decidable(w) == tx[w].op \in Checked /\ tx[w].fresh => reg[tx[w].team].status # "cancelled"

\* A request that empties the team's seat knows of it.
SeesSeat(w) ==
    /\ tx[w].op \in {"cancel", "remove"} /\ tx[w].stage = "locked" /\ tx[w].team \in placed => tx[w].frees
    /\ tx[w].op = "remove" => kind = "league"

Requesting(w) == tx[w] # Idle => Roomy(w) /\ Decidable(w) /\ SeesSeat(w)

IInv == TypeOK /\ Exclusive /\ \A w \in Workers : Requesting(w)

-----------------------------------------------------------------------------
(* Types.                                                                  *)

\* What kind of record a request is follows from its operation and stage.
LEMMA Kinds ==
    ASSUME TypeOK, NEW w \in Workers
    PROVE  /\ tx[w].op = "idle" <=> tx[w] = Idle
           /\ tx[w] # Idle => tx[w].team \in Teams /\ tx[w].stage \in {"judged", "locked"}
           /\ tx[w] # Idle /\ tx[w].stage = "judged" => tx[w] \in JudgedRequest \cup AskRequest
           /\ tx[w].op = "request_cancel" => tx[w] \in AskRequest
           /\ tx[w] # Idle /\ tx[w].stage = "locked" /\ tx[w].op = "cancel" => tx[w] \in CancelRequest
           /\ tx[w].op = "remove" => tx[w] \in RemoveRequest
           /\ tx[w].op \in Checked \cup {"add", "assign"} => tx[w] \in LockedRequest
           /\ tx[w].op = "submit" /\ tx[w].stage = "locked" => tx[w] \in LockedRequest
  BY DEF TypeOK, Requests, Idle, JudgedRequest, AskRequest, LockedRequest, RemoveRequest, CancelRequest, Checked

LEMMA HoldStatuses == Hold \subseteq Cancellable /\ Cancellable \subseteq Statuses
  BY DEF Hold, Pending, Cancellable, AdminCancellable, Statuses

LEMMA StepType ==
    ASSUME TypeOK, NEW w \in Workers, NEW r \in Requests, tx' = [tx EXCEPT ![w] = r]
    PROVE  tx' \in [Workers -> Requests]
  BY DEF TypeOK

LEMMA StaleType ==
    ASSUME NEW r \in Requests, r.op \in Checked
    PROVE  [r EXCEPT !.fresh = FALSE] \in Requests
<1>1. r \in LockedRequest
  BY DEF Requests, Idle, JudgedRequest, AskRequest, LockedRequest, RemoveRequest, CancelRequest, Checked
<1>2. [r EXCEPT !.fresh = FALSE] \in LockedRequest
  BY <1>1 DEF LockedRequest
<1> QED
  BY <1>2 DEF Requests

LEMMA WriteType ==
    ASSUME TypeOK, NEW w \in Workers, NEW t \in Teams, NEW row \in Row, Write(w, t, row)
    PROVE  reg' \in [Teams -> Row] /\ tx' \in [Workers -> Requests]
<1>1. Idle \in Requests
  BY DEF Requests
<1>2. ASSUME NEW x \in Workers, tx[x].op \in Checked
      PROVE  [tx[x] EXCEPT !.fresh = FALSE] \in Requests
  BY <1>2, StaleType DEF TypeOK
<1> QED
  BY <1>1, <1>2 DEF TypeOK, Write

LEMMA RestoredType ==
    ASSUME TypeOK, NEW t \in Teams, NEW d \in Cancellable
    PROVE  Restored(t, d) \in Cancellable
  BY DEF TypeOK, Row, Restored

\* What a decision writes, under the row lock.
LEMMA DecidedRow ==
    ASSUME TypeOK, NEW w \in Workers, tx[w].op \in Checked
    PROVE  /\ tx[w] # Idle /\ tx[w].stage = "locked" /\ tx[w].team \in Teams
           /\ LockOf(tx[w].op) = "row"
           /\ Decided(tx[w].op, tx[w].team) \in Row
<1> DEFINE t == tx[w].team
<1>1. tx[w] # Idle /\ tx[w].stage = "locked" /\ t \in Teams /\ LockOf(tx[w].op) = "row"
  BY Kinds DEF LockedRequest, Idle, Checked, LockOf, RowOps
<1>2. reg[t] \in Row
  BY <1>1 DEF TypeOK
<1>3. Restored(t, "awaiting_payment") \in Cancellable /\ Restored(t, "confirmed") \in Cancellable
  BY <1>1, RestoredType DEF Cancellable, Hold, Pending
<1>4. CASE tx[w].op \in {"withdraw", "reject"}
  BY <1>1, <1>3, <1>4, HoldStatuses DEF Decided, Row
<1>5. CASE tx[w].op \in {"confirm_payment", "confirm", "waitlist"}
  BY <1>1, <1>2, <1>5 DEF Decided, Row, Statuses, AdminCancellable, Cancellable, Hold, Pending
<1> QED
  BY <1>1, <1>4, <1>5 DEF Checked

LEMMA CommitType ==
    ASSUME TypeOK, NEW w \in Workers, Commit(w)
    PROVE  TypeOK'
<1>0. Idle \in Requests
  BY DEF Requests
<1>1. CASE CommitCreate(w)
  <2> DEFINE row == [status |-> "draft", prev |-> "none"]
  <2>1. row \in Row /\ tx[w].team \in Teams
    BY <1>1, Kinds DEF CommitCreate, In, Row, Statuses, Idle
  <2>2. reg' \in [Teams -> Row] /\ tx' \in [Workers -> Requests]
    BY <1>0, <1>1, <2>1, WriteType, StepType DEF CommitCreate, Done, TypeOK
  <2> QED
    BY <1>1, <2>2 DEF CommitCreate, TypeOK, tournament
<1>2. CASE CommitSubmit(w)
  <2>1. tx[w].team \in Teams
    BY <1>2, Kinds DEF CommitSubmit, In, Idle
  <2>2. PICK fee \in BOOLEAN :
          /\ Write(w, tx[w].team, [status |-> IF fee THEN "awaiting_payment" ELSE "payment_checking",
                                   prev |-> "none"])
          /\ unpaid' = IF fee THEN unpaid \cup {tx[w].team} ELSE unpaid \ {tx[w].team}
    BY <1>2 DEF CommitSubmit
  <2>3. [status |-> IF fee THEN "awaiting_payment" ELSE "payment_checking", prev |-> "none"] \in Row
    BY DEF Row, Statuses, AdminCancellable, Cancellable, Hold, Pending
  <2>4. reg' \in [Teams -> Row] /\ tx' \in [Workers -> Requests]
    BY <2>1, <2>2, <2>3, WriteType
  <2>5. unpaid' \in SUBSET Teams
    BY <2>1, <2>2 DEF TypeOK
  <2> QED
    BY <1>2, <2>4, <2>5 DEF CommitSubmit, TypeOK, tournament
<1>3. CASE CommitRequestCancel(w)
  <2> DEFINE row == IF tx[w].seen = "draft" THEN [status |-> "cancelled", prev |-> "none"]
                    ELSE [status |-> "cancel_requested", prev |-> tx[w].seen]
  <2>1. tx[w].team \in Teams /\ tx[w].seen \in Cancellable \cup {"draft"}
    BY <1>3, Kinds DEF CommitRequestCancel, In, AskRequest
  <2>2. row \in Row
    BY <2>1 DEF Row, Statuses, AdminCancellable
  <2>3. reg' \in [Teams -> Row] /\ tx' \in [Workers -> Requests]
    BY <1>3, <2>1, <2>2, WriteType DEF CommitRequestCancel
  <2> QED
    BY <1>3, <2>3 DEF CommitRequestCancel, TypeOK, tournament
<1>4. CASE CommitDecision(w)
  <2>1. tx[w].team \in Teams /\ Decided(tx[w].op, tx[w].team) \in Row
    BY <1>4, DecidedRow DEF CommitDecision
  <2>5. reg' \in [Teams -> Row] /\ tx' \in [Workers -> Requests]
    BY <1>4, <2>1, WriteType DEF CommitDecision
  <2>6. unpaid' \in SUBSET Teams
    BY <1>4 DEF CommitDecision, TypeOK
  <2> QED
    BY <1>4, <2>5, <2>6 DEF CommitDecision, TypeOK, tournament
<1>5. CASE CommitCancel(w)
  <2>1. tx[w].team \in Teams
    BY <1>5, Kinds DEF CommitCancel, Idle
  <2>2. [status |-> "cancelled", prev |-> "none"] \in Row
    BY DEF Row, Statuses
  <2>3. reg' \in [Teams -> Row] /\ tx' \in [Workers -> Requests]
    BY <1>5, <2>1, <2>2, WriteType DEF CommitCancel
  <2>4. unpaid' \in SUBSET Teams /\ placed' \in SUBSET Teams
    BY <1>5 DEF CommitCancel, TypeOK
  <2> QED
    BY <1>5, <2>3, <2>4 DEF CommitCancel, TypeOK, tournament
<1>6. CASE CommitAdd(w)
  <2> DEFINE row == [reg[tx[w].team] EXCEPT !.status = "confirmed"]
  <2>1. tx[w].team \in Teams
    BY <1>6, Kinds DEF CommitAdd, In, Idle
  <2>2. reg[tx[w].team] \in Row
    BY <2>1 DEF TypeOK
  <2>3. row \in Row
    BY <2>2 DEF Row, Statuses, AdminCancellable, Cancellable, Hold
  <2>4. reg' \in [Teams -> Row] /\ tx' \in [Workers -> Requests]
    BY <1>6, <2>1, <2>3, WriteType DEF CommitAdd
  <2> QED
    BY <1>6, <2>4 DEF CommitAdd, TypeOK, tournament
<1>7. CASE CommitRemove(w)
  <2>1. tx[w].team \in Teams
    BY <1>7, Kinds DEF CommitRemove, In, Idle
  <2>2. [status |-> "cancelled", prev |-> "confirmed"] \in Row
    BY DEF Row, Statuses, Cancellable, Hold
  <2>3. reg' \in [Teams -> Row] /\ tx' \in [Workers -> Requests]
    BY <1>0, <1>7, <2>1, <2>2, WriteType, StepType DEF CommitRemove, Done, TypeOK
  <2>4. placed' \in SUBSET Teams
    BY <1>7 DEF CommitRemove, TypeOK
  <2> QED
    BY <1>7, <2>3, <2>4 DEF CommitRemove, TypeOK, tournament
<1>8. CASE CommitAssign(w)
  <2>1. tx[w].team \in Teams
    BY <1>8, Kinds DEF CommitAssign, In, Idle
  <2>2. tx' \in [Workers -> Requests]
    BY <1>0, <1>8, StepType DEF CommitAssign, Done
  <2> QED
    BY <1>8, <2>1, <2>2 DEF CommitAssign, TypeOK, tournament
<1> QED
  BY <1>1, <1>2, <1>3, <1>4, <1>5, <1>6, <1>7, <1>8 DEF Commit

\* The steps that change one request only.
Turns(w) ==
    \/ \E t \in Teams : Begin(w, t)
    \/ LockSubmit(w) \/ LockCancel(w) \/ Abort(w)

LEMMA TurnType ==
    ASSUME TypeOK, NEW w \in Workers, Turns(w)
    PROVE  TypeOK' /\ UNCHANGED <<tournament, reg, unpaid, placed>>
<1> SUFFICES UNCHANGED <<tournament, reg, unpaid, placed>> /\ \E r \in Requests : tx' = [tx EXCEPT ![w] = r]
  BY StepType DEF TypeOK, tournament
<1>1. ASSUME NEW t \in Teams, NEW op \in Checked \cup {"add", "assign"}, Locked(w, op, t)
      PROVE  UNCHANGED <<tournament, reg, unpaid, placed>> /\ \E r \in Requests : tx' = [tx EXCEPT ![w] = r]
  <2>1. [op |-> op, stage |-> "locked", team |-> t, fresh |-> TRUE] \in LockedRequest
    BY DEF LockedRequest
  <2> QED
    BY <1>1, <2>1 DEF Locked, Requests
<1>2. ASSUME NEW t \in Teams, NEW op \in {"create", "submit", "cancel"}, Judged(w, op, t)
      PROVE  UNCHANGED <<tournament, reg, unpaid, placed>> /\ \E r \in Requests : tx' = [tx EXCEPT ![w] = r]
  <2>0. reg[t].status \in Statuses
    BY DEF TypeOK, Row
  <2> DEFINE r == [op |-> op, stage |-> "judged", team |-> t, seen |-> reg[t].status,
                   was |-> "confirmed" = (IF reg[t].status = "cancel_requested" THEN reg[t].prev
                                          ELSE reg[t].status)]
  <2>1. r \in JudgedRequest
    BY <2>0 DEF JudgedRequest
  <2> QED
    BY <1>2, <2>1 DEF Judged, Requests
<1>3. ASSUME NEW t \in Teams, RequestCancel(w, t)
      PROVE  UNCHANGED <<tournament, reg, unpaid, placed>> /\ \E r \in Requests : tx' = [tx EXCEPT ![w] = r]
  <2> DEFINE r == [op |-> "request_cancel", stage |-> "judged", team |-> t, seen |-> reg[t].status,
                   was |-> "confirmed" = (IF reg[t].status = "cancel_requested" THEN reg[t].prev
                                          ELSE reg[t].status)]
  <2>1. r \in AskRequest
    BY <1>3 DEF AskRequest, RequestCancel
  <2> QED
    BY <1>3, <2>1 DEF RequestCancel, Judged, Requests
<1>4. ASSUME NEW t \in Teams, Remove(w, t)
      PROVE  UNCHANGED <<tournament, reg, unpaid, placed>> /\ \E r \in Requests : tx' = [tx EXCEPT ![w] = r]
  <2>1. [op |-> "remove", stage |-> "locked", team |-> t, frees |-> t \in placed] \in RemoveRequest
    BY DEF RemoveRequest
  <2> QED
    BY <1>4, <2>1 DEF Remove, Requests
<1>5. CASE \E t \in Teams : Begin(w, t)
  BY <1>1, <1>2, <1>3, <1>4, <1>5 DEF Begin, Create, Submit, Withdraw, RejectCancel, ConfirmPayment, Confirm,
     Waitlist, Cancel, Add, Assign, Checked
<1>6. CASE LockSubmit(w)
  <2>1. tx[w].team \in Teams
    BY <1>6, Kinds DEF LockSubmit, In, Idle
  <2>2. [op |-> "submit", stage |-> "locked", team |-> tx[w].team, fresh |-> TRUE] \in LockedRequest
    BY <2>1 DEF LockedRequest
  <2> QED
    BY <1>6, <2>2 DEF LockSubmit, Requests
<1>7. CASE LockCancel(w)
  <2>1. tx[w].team \in Teams /\ tx[w].seen \in Statuses
    BY <1>7, Kinds DEF LockCancel, In, Idle, JudgedRequest, AskRequest
  <2>2. [op |-> "cancel", stage |-> "locked", team |-> tx[w].team, seen |-> tx[w].seen,
         frees |-> tx[w].team \in placed] \in CancelRequest
    BY <2>1 DEF CancelRequest
  <2> QED
    BY <1>7, <2>2 DEF LockCancel, Requests
<1>8. CASE Abort(w)
  BY <1>8 DEF Abort, Done, Requests
<1> QED
  BY <1>5, <1>6, <1>7, <1>8 DEF Turns

-----------------------------------------------------------------------------
(* The invariant.                                                          *)

LEMMA Fewer ==
    ASSUME TypeOK, NEW S, NEW T, S \subseteq T, T \subseteq Teams, ~Full(T)
    PROVE  ~Full(S)
<1>1. IsFiniteSet(T)
  BY FS_Subset, TeamsAssumption
<1>2. IsFiniteSet(S) /\ Cardinality(S) <= Cardinality(T)
  BY <1>1, FS_Subset
<1>3. Cardinality(S) \in Nat /\ Cardinality(T) \in Nat /\ limit \in Nat
  BY <1>1, <1>2, FS_CardinalityType, LimitsAssumption DEF TypeOK
<1> QED
  BY <1>2, <1>3 DEF Full

\* What w does to its own request leaves the others what they rely on.
LEMMA OwnTurn ==
    ASSUME IInv, NEW w \in Workers, UNCHANGED <<tournament, reg, unpaid>>, placed' \subseteq placed,
           NEW r, tx' = [tx EXCEPT ![w] = r],
           r # Idle /\ r.stage = "locked" => Free(r.op) \/ (tx[w] # Idle /\ tx[w].stage = "locked" /\ r.op = tx[w].op),
           Requesting(w)'
    PROVE  Exclusive' /\ \A v \in Workers : Requesting(v)'
<1>1. tx \in [Workers -> Requests]
  BY DEF IInv, TypeOK
<1>2. tx'[w] = r /\ \A v \in Workers \ {w} : tx'[v] = tx[v]
  BY <1>1
<1>3. Exclusive'
  BY <1>1, <1>2 DEF IInv, Exclusive, Free, Holders, LockOf, tournament
<1>4. ASSUME NEW v \in Workers \ {w} PROVE Requesting(v)'
  BY <1>2, <1>4 DEF IInv, Requesting, Roomy, Decidable, SeesSeat, HasRoom, Full, Reserved, Restored, tournament
<1> QED
  BY <1>3, <1>4

LEMMA IdleTurn ==
    ASSUME IInv, NEW w \in Workers, UNCHANGED <<tournament, reg, unpaid>>, placed' \subseteq placed, Done(w)
    PROVE  Exclusive' /\ \A v \in Workers : Requesting(v)'
<1>1. tx'[w] = Idle
  BY DEF Done, IInv, TypeOK
<1>2. Requesting(w)'
  BY <1>1 DEF Requesting
<1> QED
  BY <1>2, OwnTurn DEF Done

LEMMA TurnStep ==
    ASSUME IInv, NEW w \in Workers, Turns(w)
    PROVE  Exclusive' /\ \A v \in Workers : Requesting(v)'
<1>0. TypeOK /\ tx \in [Workers -> Requests] /\ UNCHANGED <<tournament, reg, unpaid, placed>>
  BY TurnType DEF IInv, TypeOK
<1>1. ASSUME NEW r, tx' = [tx EXCEPT ![w] = r], r # Idle /\ r.stage = "locked" => Free(r.op), Requesting(w)'
      PROVE  Exclusive' /\ \A v \in Workers : Requesting(v)'
  <2>1. UNCHANGED <<tournament, reg, unpaid>> /\ placed' \subseteq placed
    BY <1>0
  <2>2. r # Idle /\ r.stage = "locked" => Free(r.op) \/ (tx[w] # Idle /\ tx[w].stage = "locked" /\ r.op = tx[w].op)
    BY <1>1
  <2> QED
    BY <1>1, <2>1, <2>2, OwnTurn
<1>2. ASSUME NEW t \in Teams, Begin(w, t) PROVE Exclusive' /\ \A v \in Workers : Requesting(v)'
  <2>1. ASSUME NEW op \in {"create", "submit", "request_cancel", "cancel"}, Judged(w, op, t)
        PROVE  Exclusive' /\ \A v \in Workers : Requesting(v)'
    <3> DEFINE r == [op |-> op, stage |-> "judged", team |-> t, seen |-> reg[t].status,
                     was |-> "confirmed" = (IF reg[t].status = "cancel_requested" THEN reg[t].prev
                                            ELSE reg[t].status)]
    <3>1. tx' = [tx EXCEPT ![w] = r] /\ tx'[w] = r /\ r.stage = "judged" /\ r.op = op
      BY <1>0, <2>1 DEF Judged
    <3> HIDE DEF r
    <3>2. Requesting(w)'
      BY <3>1 DEF Requesting, Roomy, Decidable, SeesSeat, Checked
    <3> QED
      BY <1>1, <3>1, <3>2
  <2>2. ASSUME NEW op \in Checked \cup {"add", "assign"}, Locked(w, op, t),
               op \in {"confirm", "add"} => ~Full(Reserved \ {t}),
               op = "withdraw" => HasRoom(t, Restored(t, "awaiting_payment")),
               op = "reject" => HasRoom(t, Restored(t, "confirmed")),
               op = "confirm_payment" => reg[t].status = "awaiting_payment",
               op \in Checked => reg[t].status # "cancelled"
        PROVE  Exclusive' /\ \A v \in Workers : Requesting(v)'
    <3> DEFINE r == [op |-> op, stage |-> "locked", team |-> t, fresh |-> TRUE]
    <3>1. tx' = [tx EXCEPT ![w] = r] /\ tx'[w] = r /\ Free(r.op) /\ r.op = op /\ r.team = t /\ r.stage = "locked"
      BY <1>0, <2>2 DEF Locked
    <3> HIDE DEF r
    <3>2. Requesting(w)'
      BY <1>0, <2>2, <3>1 DEF Requesting, Roomy, Decidable, SeesSeat, Checked, HasRoom, Full, Reserved, Restored, tournament
    <3> QED
      BY <1>1, <3>1, <3>2
  <2>3. ASSUME Remove(w, t) PROVE Exclusive' /\ \A v \in Workers : Requesting(v)'
    <3> DEFINE r == [op |-> "remove", stage |-> "locked", team |-> t, frees |-> t \in placed]
    <3>1. /\ tx' = [tx EXCEPT ![w] = r] /\ tx'[w] = r /\ Free(r.op)
          /\ r.op = "remove" /\ r.team = t /\ r.frees = (t \in placed)
      BY <1>0, <2>3 DEF Remove
    <3> HIDE DEF r
    <3>2. Requesting(w)'
      BY <1>0, <2>3, <3>1 DEF Requesting, Roomy, Decidable, SeesSeat, Checked, Remove, tournament
    <3> QED
      BY <1>1, <3>1, <3>2
  <2>4. CASE Create(w, t) \/ Submit(w, t) \/ RequestCancel(w, t) \/ Cancel(w, t)
    BY <2>1, <2>4 DEF Create, Submit, RequestCancel, Cancel
  <2>5. CASE Withdraw(w, t) \/ RejectCancel(w, t) \/ ConfirmPayment(w, t) \/ Confirm(w, t) \/ Waitlist(w, t)
    BY <2>2, <2>5 DEF Withdraw, RejectCancel, ConfirmPayment, Confirm, Waitlist, Confirmable, Checked
  <2>6. CASE Add(w, t) \/ Assign(w, t)
    BY <2>2, <2>6 DEF Add, Assign, Checked
  <2> QED
    BY <1>2, <2>3, <2>4, <2>5, <2>6 DEF Begin
<1>3. CASE LockSubmit(w)
  <2> DEFINE r == [op |-> "submit", stage |-> "locked", team |-> tx[w].team, fresh |-> TRUE]
  <2>1. tx' = [tx EXCEPT ![w] = r] /\ tx'[w] = r /\ Free(r.op) /\ ~Full(Reserved)
    BY <1>0, <1>3 DEF LockSubmit
  <2>2. ~Full(Reserved \ {tx[w].team})
    BY <1>0, <2>1, Fewer DEF Reserved
  <2>3. Requesting(w)'
    BY <1>0, <2>1, <2>2 DEF Requesting, Roomy, Decidable, SeesSeat, Checked, Full, Reserved, tournament
  <2> QED
    BY <1>1, <2>1, <2>3
<1>4. CASE LockCancel(w)
  <2> DEFINE r == [op |-> "cancel", stage |-> "locked", team |-> tx[w].team, seen |-> tx[w].seen,
                   frees |-> tx[w].team \in placed]
  <2>1. tx' = [tx EXCEPT ![w] = r] /\ tx'[w] = r /\ Free(r.op)
    BY <1>0, <1>4 DEF LockCancel
  <2>2. Requesting(w)'
    BY <1>0, <2>1 DEF Requesting, Roomy, Decidable, SeesSeat, Checked
  <2> QED
    BY <1>1, <2>1, <2>2
<1>5. CASE Abort(w)
  BY <1>0, <1>5, IdleTurn DEF Abort
<1> QED
  BY <1>2, <1>3, <1>4, <1>5 DEF Turns

\* A request that writes a row gives nobody else's place away: either it
\* leaves its team without one, or it holds the tournament's row.
LEMMA WriteStep ==
    ASSUME IInv, NEW w \in Workers, NEW t \in Teams, NEW row \in Row, Write(w, t, row),
           UNCHANGED tournament, placed' \subseteq placed,
           row.status \in Hold => tx[w] # Idle /\ tx[w].stage = "locked" /\ LockOf(tx[w].op) = "row"
    PROVE  Exclusive' /\ \A v \in Workers : Requesting(v)'
<1>0. TypeOK /\ tx \in [Workers -> Requests] /\ reg \in [Teams -> Row]
  BY DEF IInv, TypeOK
<1>1. tx'[w] = Idle
  BY DEF Write
<1>2. ASSUME NEW v \in Workers \ {w}
      PROVE  IF tx[v].op \in Checked /\ tx[v].team = t THEN tx'[v] = [tx[v] EXCEPT !.fresh = FALSE]
             ELSE tx'[v] = tx[v]
  BY <1>2 DEF Write
<1>3. ASSUME NEW v \in Workers \ {w}, tx[v].op \in Checked, tx[v].team = t
      PROVE  tx'[v] # Idle /\ tx'[v].op = tx[v].op /\ tx'[v].stage = tx[v].stage /\ tx'[v].team = t /\ tx'[v].fresh = FALSE
  BY <1>0, <1>2, <1>3, Kinds DEF LockedRequest, Idle, Checked
<1>4. Exclusive'
  <2>1. ASSUME NEW v \in Workers, tx'[v] # Idle
        PROVE  tx[v] # Idle /\ tx'[v].op = tx[v].op /\ tx'[v].stage = tx[v].stage
    <3>1. v # w
      BY <1>1, <2>1
    <3>2. CASE tx[v].op \in Checked /\ tx[v].team = t
      <4>1. tx[v].op # "idle"
        BY <3>2 DEF Checked
      <4>2. tx[v] # Idle
        BY <4>1 DEF Idle
      <4> QED
        BY <1>3, <3>1, <3>2, <4>2
    <3>3. CASE ~(tx[v].op \in Checked /\ tx[v].team = t)
      BY <1>2, <2>1, <3>1, <3>3
    <3> QED
      BY <3>2, <3>3
  <2>2. Exclusive
    BY DEF IInv
  <2>3. \A op : LockOf(op)' = LockOf(op)
    BY DEF LockOf, tournament
  <2> QED
    BY <2>1, <2>2, <2>3 DEF Exclusive
<1>5. reg' = [reg EXCEPT ![t] = row]
  BY DEF Write
<1>6. Reserved' \ {t} = Reserved \ {t}
  BY <1>0, <1>5 DEF Reserved
<1>7. row.status \notin Hold => Reserved' \subseteq Reserved
  BY <1>0, <1>5 DEF Reserved
<1>8. ASSUME NEW v \in Workers \ {w}, tx[v] # Idle, tx[v].stage = "locked", tx[v].op \in RowOps,
             ~Full(Reserved \ {tx[v].team})
      PROVE  ~Full(Reserved \ {tx[v].team})'
  <2>1. row.status \notin Hold
    BY <1>8 DEF IInv, Exclusive, LockOf
  <2>2. Reserved' \ {tx[v].team} \subseteq Reserved \ {tx[v].team}
    BY <1>7, <2>1
  <2>3. ~Full(Reserved' \ {tx[v].team})
    BY <1>0, <1>8, <2>2, Fewer DEF Reserved
  <2>4. CASE tx'[v].team = tx[v].team
    BY <2>3, <2>4 DEF Full, tournament
  <2> QED
    BY <1>2, <1>3, <2>4
<1>9. ASSUME NEW v \in Workers \ {w}, tx[v] # Idle PROVE Requesting(v)'
  <2>0. Roomy(v) /\ Decidable(v) /\ SeesSeat(v)
    BY <1>9 DEF IInv, Requesting
  <2>1. CASE tx[v].op \in Checked /\ tx[v].team = t
    <3>1. tx'[v].op = tx[v].op /\ tx'[v].team = t /\ tx'[v].fresh = FALSE /\ tx[v].stage = "locked"
      BY <1>0, <1>3, <2>1, Kinds DEF LockedRequest, Checked
    <3>2. tx[v].op = "confirm" => ~Full(Reserved \ {tx[v].team})'
      BY <1>8, <1>9, <2>0, <3>1 DEF Roomy, RowOps, Checked
    <3> QED
      BY <2>1, <3>1, <3>2 DEF Requesting, Roomy, Decidable, SeesSeat, Checked
  <2>2. CASE ~(tx[v].op \in Checked /\ tx[v].team = t)
    <3>1. tx'[v] = tx[v]
      BY <1>2, <2>2
    <3>2. tx[v].op \in Checked \cup {"add"} => tx[v].stage = "locked" /\ tx[v].team \in Teams
      BY <1>0, <1>9, Kinds DEF LockedRequest
    <3>3. tx[v].op \in Checked => reg'[tx[v].team] = reg[tx[v].team]
      BY <1>0, <1>5, <2>2, <3>2
    <3>4. (tx[v].op = "submit" /\ tx[v].stage = "locked") \/ tx[v].op \in {"confirm", "add"}
            => ~Full(Reserved \ {tx[v].team})'
      BY <1>8, <1>9, <2>0, <3>2 DEF Roomy, RowOps, Checked
    <3>5. tx[v].op = "withdraw" /\ tx[v].fresh => HasRoom(tx[v].team, Restored(tx[v].team, "awaiting_payment"))'
      BY <1>8, <1>9, <2>0, <3>1, <3>2, <3>3 DEF Roomy, RowOps, Checked, HasRoom, Restored
    <3>6. tx[v].op = "reject" /\ tx[v].fresh => HasRoom(tx[v].team, Restored(tx[v].team, "confirmed"))'
      BY <1>8, <1>9, <2>0, <3>1, <3>2, <3>3 DEF Roomy, RowOps, Checked, HasRoom, Restored
    <3>7. Roomy(v)'
      BY <2>0, <3>1, <3>3, <3>4, <3>5, <3>6 DEF Roomy, Checked
    <3>8. Decidable(v)' /\ SeesSeat(v)'
      BY <2>0, <3>1, <3>3 DEF Decidable, SeesSeat, tournament
    <3> QED
      BY <3>7, <3>8 DEF Requesting
  <2> QED
    BY <2>1, <2>2
<1>10. ASSUME NEW v \in Workers PROVE Requesting(v)'
  <2>1. CASE v = w
    BY <1>1, <2>1 DEF Requesting
  <2>2. CASE v # w /\ tx[v] = Idle
    <3>1. tx[v].op \notin Checked
      BY <2>2 DEF Idle, Checked
    <3> QED
      BY <1>2, <2>2, <3>1 DEF Requesting
  <2> QED
    BY <1>9, <2>1, <2>2
<1> QED
  BY <1>4, <1>10

LEMMA CommitStep ==
    ASSUME IInv, NEW w \in Workers, Commit(w)
    PROVE  Exclusive' /\ \A v \in Workers : Requesting(v)'
<1>0. TypeOK /\ tx \in [Workers -> Requests]
  BY DEF IInv, TypeOK
<1>1. CASE CommitCreate(w)
  <2>1. [status |-> "draft", prev |-> "none"] \in Row /\ "draft" \notin Hold
    BY DEF Row, Statuses, Hold, Pending
  <2>2. tx[w].team \in Teams
    BY <1>0, <1>1, Kinds DEF CommitCreate, In, Idle
  <2>3. UNCHANGED <<tournament, unpaid, placed>>
    BY <1>1 DEF CommitCreate
  <2>4. CASE Done(w) /\ UNCHANGED reg
    BY <2>3, <2>4, IdleTurn
  <2>5. CASE Write(w, tx[w].team, [status |-> "draft", prev |-> "none"])
    BY <2>1, <2>2, <2>3, <2>5, WriteStep
  <2> QED
    BY <1>1, <2>4, <2>5 DEF CommitCreate
<1>2. CASE CommitSubmit(w)
  <2>1. PICK fee \in BOOLEAN :
          Write(w, tx[w].team, [status |-> IF fee THEN "awaiting_payment" ELSE "payment_checking", prev |-> "none"])
    BY <1>2 DEF CommitSubmit
  <2>2. [status |-> IF fee THEN "awaiting_payment" ELSE "payment_checking", prev |-> "none"] \in Row
    BY DEF Row, Statuses, AdminCancellable, Cancellable, Hold, Pending
  <2>3. tx[w] # Idle /\ tx[w].team \in Teams /\ tx[w].stage = "locked" /\ LockOf(tx[w].op) = "row"
    BY <1>0, <1>2, Kinds DEF CommitSubmit, In, Idle, LockOf, RowOps
  <2>4. UNCHANGED tournament /\ placed' \subseteq placed
    BY <1>2 DEF CommitSubmit
  <2> QED
    BY <2>1, <2>2, <2>3, <2>4, WriteStep
<1>3. CASE CommitRequestCancel(w)
  <2> DEFINE row == IF tx[w].seen = "draft" THEN [status |-> "cancelled", prev |-> "none"]
                    ELSE [status |-> "cancel_requested", prev |-> tx[w].seen]
  <2>1. tx[w].team \in Teams /\ tx[w].seen \in Cancellable \cup {"draft"}
    BY <1>0, <1>3, Kinds DEF CommitRequestCancel, In, AskRequest
  <2>2. row \in Row /\ row.status \notin Hold
    BY <2>1 DEF Row, Statuses, AdminCancellable, Hold, Pending
  <2>3. Write(w, tx[w].team, row) /\ UNCHANGED tournament /\ placed' \subseteq placed
    BY <1>3 DEF CommitRequestCancel
  <2> HIDE DEF row
  <2> QED
    BY <2>1, <2>2, <2>3, WriteStep
<1>4. CASE CommitDecision(w)
  <2>1. /\ tx[w] # Idle /\ tx[w].stage = "locked" /\ tx[w].team \in Teams /\ LockOf(tx[w].op) = "row"
        /\ Decided(tx[w].op, tx[w].team) \in Row
    BY <1>0, <1>4, DecidedRow DEF CommitDecision
  <2>2. Write(w, tx[w].team, Decided(tx[w].op, tx[w].team)) /\ UNCHANGED tournament /\ placed' \subseteq placed
    BY <1>4 DEF CommitDecision
  <2> QED
    BY <2>1, <2>2, WriteStep
<1>5. CASE CommitCancel(w)
  <2>1. tx[w].team \in Teams
    BY <1>0, <1>5, Kinds DEF CommitCancel, Idle
  <2>2. [status |-> "cancelled", prev |-> "none"] \in Row /\ "cancelled" \notin Hold
    BY DEF Row, Statuses, Hold, Pending
  <2>3. Write(w, tx[w].team, [status |-> "cancelled", prev |-> "none"]) /\ UNCHANGED tournament /\ placed' \subseteq placed
    BY <1>5 DEF CommitCancel
  <2> QED
    BY <2>1, <2>2, <2>3, WriteStep
<1>6. CASE CommitAdd(w)
  <2> DEFINE row == [reg[tx[w].team] EXCEPT !.status = "confirmed"]
  <2>1. tx[w] # Idle /\ tx[w].team \in Teams /\ tx[w].stage = "locked" /\ LockOf(tx[w].op) = "row"
    BY <1>0, <1>6, Kinds DEF CommitAdd, In, Idle, LockOf, RowOps
  <2>2. reg[tx[w].team] \in Row
    BY <1>0, <2>1 DEF TypeOK
  <2>3. row \in Row
    BY <2>2 DEF Row, Statuses, AdminCancellable, Cancellable, Hold
  <2>4. Write(w, tx[w].team, row) /\ UNCHANGED tournament /\ placed' \subseteq placed
    BY <1>6 DEF CommitAdd
  <2> HIDE DEF row
  <2> QED
    BY <2>1, <2>3, <2>4, WriteStep
<1>7. CASE CommitRemove(w)
  <2>1. tx[w].team \in Teams
    BY <1>0, <1>7, Kinds DEF CommitRemove, In, Idle
  <2>2. [status |-> "cancelled", prev |-> "confirmed"] \in Row /\ "cancelled" \notin Hold
    BY DEF Row, Statuses, Cancellable, Hold, Pending
  <2>3. UNCHANGED <<tournament, unpaid>> /\ placed' \subseteq placed
    BY <1>7 DEF CommitRemove
  <2>4. CASE Done(w) /\ UNCHANGED reg
    BY <2>3, <2>4, IdleTurn
  <2>5. CASE Write(w, tx[w].team, [status |-> "cancelled", prev |-> "confirmed"])
    BY <2>1, <2>2, <2>3, <2>5, WriteStep
  <2> QED
    BY <1>7, <2>4, <2>5 DEF CommitRemove
<1>8. CASE CommitAssign(w)
  <2>1. tx'[w] = Idle /\ \A v \in Workers \ {w} : tx'[v] = tx[v]
    BY <1>0, <1>8 DEF CommitAssign, Done
  <2>2. UNCHANGED <<tournament, reg>>
    BY <1>8 DEF CommitAssign
  <2>3. Exclusive'
    BY <2>1, <2>2 DEF IInv, Exclusive, LockOf, tournament
  <2>4. ASSUME NEW v \in Workers \ {w}, tx[v] # Idle PROVE Requesting(v)'
    <3>1. Roomy(v) /\ Decidable(v) /\ SeesSeat(v)
      BY <2>4 DEF IInv, Requesting
    <3>2. Roomy(v)' /\ Decidable(v)'
      BY <2>1, <2>2, <3>1 DEF Roomy, Decidable, HasRoom, Restored, Full, Reserved, tournament
    <3>3. tx[v].op \in {"cancel", "remove"} => tx[v].stage # "locked"
      <4>1. tx[w] # Idle /\ tx[w].stage = "locked" /\ tx[w].op = "assign"
        BY <1>8 DEF CommitAssign, In, Idle
      <4>2. tx[v].op \in {"cancel", "remove"} => LockOf(tx[v].op) = LockOf(tx[w].op)
        BY <3>1, <4>1 DEF SeesSeat, LockOf, RowOps, Checked
      <4> QED
        BY <2>4, <4>1, <4>2 DEF IInv, Exclusive
    <3>4. SeesSeat(v)'
      BY <2>1, <2>2, <3>1, <3>3 DEF SeesSeat, tournament
    <3> QED
      BY <3>2, <3>4 DEF Requesting
  <2> QED
    BY <2>1, <2>3, <2>4 DEF Requesting
<1> QED
  BY <1>1, <1>2, <1>3, <1>4, <1>5, <1>6, <1>7, <1>8 DEF Commit

LEMMA OperatorStep ==
    ASSUME IInv, ChangeStatus \/ EditLimit \/ EditLeagueLimit \/ \E t \in Teams : Vacate(t) \/ StartFixture(t)
    PROVE  IInv'
<1>1. UNCHANGED <<kind, reg, unpaid, tx>> /\ placed' \subseteq placed
  BY DEF ChangeStatus, EditLimit, EditLeagueLimit, Vacate, StartFixture, tournament
<1>2. TypeOK'
  <2>1. CASE ChangeStatus
    BY <2>1 DEF ChangeStatus, Successors, IInv, TypeOK
  <2>2. CASE EditLimit \/ EditLeagueLimit
    BY <2>2 DEF EditLimit, EditLeagueLimit, IInv, TypeOK
  <2>3. CASE \E t \in Teams : Vacate(t) \/ StartFixture(t)
    BY <2>3 DEF Vacate, StartFixture, IInv, TypeOK, tournament
  <2> QED
    BY <2>1, <2>2, <2>3
<1>3. Exclusive'
  BY <1>1 DEF IInv, Exclusive, LockOf
<1>4. ASSUME NEW w \in Workers, tx[w] # Idle PROVE Requesting(w)'
  <2>1. Roomy(w) /\ Decidable(w) /\ SeesSeat(w)
    BY <1>4 DEF IInv, Requesting
  <2>2. Decidable(w)' /\ SeesSeat(w)'
    BY <1>1, <2>1 DEF Decidable, SeesSeat
  <2>3. CASE UNCHANGED limit
    BY <1>1, <2>1, <2>2, <2>3 DEF Requesting, Roomy, HasRoom, Restored, Full, Reserved
  <2>4. CASE EditLimit \/ EditLeagueLimit
    <3>1. ~(tx[w].stage = "locked" /\ tx[w].op \in RowOps)
      BY <1>4, <2>4 DEF EditLimit, EditLeagueLimit, Free, Holders, LockOf, RowOps
    <3>2. tx[w].op \in Checked \cup {"add"} => tx[w].stage = "locked"
      BY Kinds DEF IInv, LockedRequest
    <3> QED
      BY <1>1, <2>2, <3>1, <3>2 DEF Requesting, Roomy, RowOps, Checked
  <2> QED
    BY <2>3, <2>4 DEF ChangeStatus, Vacate, StartFixture, tournament
<1> QED
  BY <1>1, <1>2, <1>3, <1>4 DEF IInv, Requesting

\* The invariant holds in every reachable state: what a request relies on
\* between its lock and its commit stays true, whatever the requests that
\* lock nothing do (tournament-registrations.service.ts, admin-registrations.service.ts).
THEOREM Invariance == Spec => []IInv
<1>1. Init => IInv
  <2>1. Init => TypeOK
    BY DEF Init, TypeOK, Row, Statuses, Requests
  <2> QED
    BY <2>1 DEF Init, IInv, Exclusive, Requesting
<1>2. IInv /\ [Next]_vars => IInv'
  <2> SUFFICES ASSUME IInv, [Next]_vars PROVE IInv'
    OBVIOUS
  <2>1. ASSUME NEW w \in Workers, Turns(w) PROVE IInv'
    BY <2>1, TurnType, TurnStep DEF IInv
  <2>2. ASSUME NEW w \in Workers, Commit(w) PROVE IInv'
    BY <2>2, CommitType, CommitStep DEF IInv
  <2>3. CASE UNCHANGED vars
    BY <2>3 DEF vars, IInv, TypeOK, Exclusive, LockOf, Requesting, Roomy, Decidable, SeesSeat, HasRoom, Restored, Full, Reserved
  <2> QED
    BY <2>1, <2>2, <2>3, OperatorStep DEF Next, Turns
<1> QED
  BY <1>1, <1>2, PTL DEF Spec

\* Every variable keeps its type.
THEOREM TypeCorrect == Spec => []TypeOK
<1>1. IInv => TypeOK
  BY DEF IInv
<1> QED
  BY <1>1, Invariance, PTL

-----------------------------------------------------------------------------
(* What the invariant gives.                                               *)

LEMMA Filling ==
    ASSUME TypeOK, NEW t \in Teams, NEW row \in Row, reg' = [reg EXCEPT ![t] = row],
           UNCHANGED tournament, ~Full(Reserved \ {t})
    PROVE  Cardinality(Reserved') <= limit'
<1>1. IsFiniteSet(Reserved \ {t}) /\ limit \in Nat /\ limit' = limit
  BY FS_Subset, TeamsAssumption, LimitsAssumption DEF Reserved, TypeOK, tournament
<1>2. Reserved' \subseteq (Reserved \ {t}) \cup {t}
  BY DEF Reserved, TypeOK
<1>3. IsFiniteSet((Reserved \ {t}) \cup {t})
      /\ Cardinality((Reserved \ {t}) \cup {t}) = Cardinality(Reserved \ {t}) + 1
  BY <1>1, FS_AddElement
<1>4. Cardinality(Reserved') <= Cardinality((Reserved \ {t}) \cup {t}) /\ IsFiniteSet(Reserved')
  BY <1>2, <1>3, FS_Subset
<1>5. Cardinality(Reserved') \in Nat /\ Cardinality(Reserved \ {t}) \in Nat
  BY <1>1, <1>4, FS_CardinalityType
<1> QED
  BY <1>1, <1>3, <1>4, <1>5 DEF Full

LEMMA DecisionFits ==
    ASSUME IInv, NEW w \in Workers, CommitDecision(w), ~(Reserved' \subseteq Reserved)
    PROVE  Cardinality(Reserved') <= limit'
<1> DEFINE t == tx[w].team
           row == Decided(tx[w].op, t)
<1>1. TypeOK /\ tx[w].op \in Checked /\ tx[w].fresh /\ UNCHANGED tournament
  BY DEF IInv, CommitDecision, Unmoved
<1>2. tx[w] # Idle /\ t \in Teams /\ row \in Row
  BY <1>1, DecidedRow
<1>3. reg' = [reg EXCEPT ![t] = row]
  BY DEF CommitDecision, Write
<1>4. Roomy(w)
  BY <1>2 DEF IInv, Requesting
<1>5. row.status \in Hold /\ reg[t].status \notin Hold
  BY <1>1, <1>2, <1>3 DEF Reserved, TypeOK
<1>6. ~Full(Reserved \ {t})
  <2>1. CASE tx[w].op = "confirm_payment"
    BY <1>1, <1>4, <1>5, <2>1 DEF Roomy, Hold, Pending
  <2>2. CASE tx[w].op = "confirm"
    BY <1>4, <2>2 DEF Roomy
  <2>3. CASE tx[w].op = "waitlist"
    <3>1. row.status = "waitlisted"
      BY <1>1, <1>2, <2>3 DEF Decided, TypeOK, Row
    <3> QED
      BY <1>5, <3>1 DEF Hold, Pending
  <2>4. CASE tx[w].op = "withdraw"
    BY <1>1, <1>4, <1>5, <2>4 DEF Roomy, Decided, HasRoom
  <2>5. CASE tx[w].op = "reject"
    BY <1>1, <1>4, <1>5, <2>5 DEF Roomy, Decided, HasRoom
  <2> QED
    BY <1>1, <2>1, <2>2, <2>3, <2>4, <2>5 DEF Checked
<1> QED
  BY <1>1, <1>2, <1>3, <1>6, Filling

\* A step that gives a place leaves the places within the limit, for any
\* number of teams applying, being confirmed or coming back at once
\* (registration-capacity.ts:33).
THEOREM NeverOverbookedCorrect == Spec => NeverOverbooked
<1>1. IInv /\ [Next]_vars => [~(Reserved' \subseteq Reserved) => Cardinality(Reserved') <= limit']_vars
  <2> SUFFICES ASSUME IInv, Next, ~(Reserved' \subseteq Reserved)
               PROVE  Cardinality(Reserved') <= limit'
    BY DEF vars
  <2>0. TypeOK
    BY DEF IInv
  <2>1. ASSUME NEW w \in Workers, NEW t \in Teams, NEW row \in Row, Write(w, t, row), row.status \notin Hold
        PROVE  FALSE
    BY <2>0, <2>1 DEF Write, Reserved, TypeOK
  <2>2. reg' # reg
    BY DEF Reserved
  <2>3. PICK w \in Workers : Commit(w)
    BY <2>0, <2>2, TurnType DEF Next, Turns, Vacate, StartFixture, ChangeStatus, EditLimit, EditLeagueLimit
  <2>4. CASE CommitSubmit(w)
    <3>1. tx[w] # Idle /\ tx[w].team \in Teams /\ tx[w].op = "submit" /\ tx[w].stage = "locked"
      BY <2>0, <2>4, Kinds DEF CommitSubmit, In, Idle
    <3>2. ~Full(Reserved \ {tx[w].team})
      BY <3>1 DEF IInv, Requesting, Roomy
    <3>3. \A fee \in BOOLEAN :
            [status |-> IF fee THEN "awaiting_payment" ELSE "payment_checking", prev |-> "none"] \in Row
      BY DEF Row, Statuses, AdminCancellable, Cancellable, Hold, Pending
    <3>4. PICK row \in Row : reg' = [reg EXCEPT ![tx[w].team] = row]
      BY <2>4, <3>3 DEF CommitSubmit, Write
    <3> QED
      BY <2>0, <2>4, <3>1, <3>2, <3>4, Filling DEF CommitSubmit
  <2>5. CASE CommitAdd(w)
    <3>1. tx[w] # Idle /\ tx[w].team \in Teams /\ tx[w].op = "add"
      BY <2>0, <2>5, Kinds DEF CommitAdd, In, Idle
    <3>2. ~Full(Reserved \ {tx[w].team})
      BY <3>1 DEF IInv, Requesting, Roomy
    <3>3. reg[tx[w].team] \in Row
      BY <2>0, <3>1 DEF TypeOK
    <3>4. PICK row \in Row : reg' = [reg EXCEPT ![tx[w].team] = row]
      BY <2>5, <3>3 DEF CommitAdd, Write, Row, Statuses, AdminCancellable, Cancellable, Hold
    <3> QED
      BY <2>0, <2>5, <3>1, <3>2, <3>4, Filling DEF CommitAdd
  <2>6. CASE CommitDecision(w)
    BY <2>6, DecisionFits
  <2>7. CASE CommitCreate(w)
    <3>1. [status |-> "draft", prev |-> "none"] \in Row /\ tx[w].team \in Teams
      BY <2>0, <2>7, Kinds DEF CommitCreate, In, Idle, Row, Statuses
    <3> QED
      BY <2>1, <2>2, <2>7, <3>1 DEF CommitCreate, Hold, Pending
  <2>8. CASE CommitRequestCancel(w)
    <3> DEFINE row == IF tx[w].seen = "draft" THEN [status |-> "cancelled", prev |-> "none"]
                      ELSE [status |-> "cancel_requested", prev |-> tx[w].seen]
    <3>1. tx[w].team \in Teams /\ tx[w].seen \in Cancellable \cup {"draft"}
      BY <2>0, <2>8, Kinds DEF CommitRequestCancel, In, AskRequest
    <3>2. row \in Row /\ row.status \notin Hold /\ Write(w, tx[w].team, row)
      BY <2>8, <3>1 DEF CommitRequestCancel, Row, Statuses, AdminCancellable, Hold, Pending
    <3> QED
      BY <2>1, <3>1, <3>2
  <2>9. CASE CommitCancel(w)
    <3>1. [status |-> "cancelled", prev |-> "none"] \in Row /\ tx[w].team \in Teams
      BY <2>0, <2>9, Kinds DEF CommitCancel, Idle, Row, Statuses
    <3> QED
      BY <2>1, <2>9, <3>1 DEF CommitCancel, Hold, Pending
  <2>10. CASE CommitRemove(w)
    <3>1. [status |-> "cancelled", prev |-> "confirmed"] \in Row /\ tx[w].team \in Teams
      BY <2>0, <2>10, Kinds DEF CommitRemove, In, Idle, Row, Statuses, Cancellable, Hold
    <3> QED
      BY <2>1, <2>2, <2>10, <3>1 DEF CommitRemove, Hold, Pending
  <2>11. CASE CommitAssign(w)
    BY <2>2, <2>11 DEF CommitAssign
  <2> QED
    BY <2>3, <2>4, <2>5, <2>6, <2>7, <2>8, <2>9, <2>10, <2>11 DEF Commit
<1> QED
  BY <1>1, Invariance, PTL DEF Spec, NeverOverbooked

\* A decision never undoes a cancellation it has not seen
\* (admin-registrations.service.ts:140).
THEOREM CancellationStandsCorrect == Spec => CancellationStands
<1> DEFINE Stands == \A w \in Workers :
             tx[w].op \in Checked /\ tx'[w] = Idle /\ reg[tx[w].team].status = "cancelled" =>
                reg'[tx[w].team] = reg[tx[w].team]
<1>1. IInv /\ [Next]_vars => [Stands]_vars
  <2> SUFFICES ASSUME IInv, Next, NEW w \in Workers, tx[w].op \in Checked, tx'[w] = Idle,
                      reg[tx[w].team].status = "cancelled"
               PROVE  reg'[tx[w].team] = reg[tx[w].team]
    OBVIOUS
  <2>0. TypeOK /\ tx \in [Workers -> Requests] /\ tx[w] \in LockedRequest /\ tx[w] # Idle
    BY Kinds DEF IInv, TypeOK, Checked, Idle
  <2>1. ~tx[w].fresh
    BY <2>0 DEF IInv, Requesting, Decidable
  <2>2. ASSUME NEW v \in Workers, Turns(v) PROVE UNCHANGED reg
    BY <2>0, <2>2, TurnType
  <2>3. ASSUME NEW v \in Workers, Commit(v) PROVE UNCHANGED reg
    <3>1. ASSUME v # w, NEW t, NEW row, Write(v, t, row) PROVE FALSE
      <4>1. tx'[w] = IF tx[w].team = t THEN [tx[w] EXCEPT !.fresh = FALSE] ELSE tx[w]
        BY <3>1 DEF Write
      <4> QED
        BY <2>0, <4>1 DEF LockedRequest, Idle
    <3>2. ASSUME v # w, Done(v) PROVE FALSE
      BY <2>0, <3>2 DEF Done
    <3>3. CASE v = w
      BY <2>1, <2>3, <3>3 DEF Commit, CommitCreate, CommitSubmit, CommitRequestCancel, CommitDecision, CommitCancel,
         CommitAdd, CommitRemove, CommitAssign, In, Checked, Unmoved
    <3> QED
      BY <2>3, <3>1, <3>2, <3>3 DEF Commit, CommitCreate, CommitSubmit, CommitRequestCancel, CommitDecision,
         CommitCancel, CommitAdd, CommitRemove, CommitAssign
  <2> QED
    BY <2>2, <2>3 DEF Next, Turns, Vacate, StartFixture, ChangeStatus, EditLimit, EditLeagueLimit
<1> QED
  BY <1>1, Invariance, PTL DEF Spec, CancellationStands

\* A cancellation that took the team for a confirmed one leaves it no seat
\* but those of fixtures that have started (admin-registrations.service.ts:364, tournament-slot.service.ts:266).
THEOREM OutOfTheBracketCorrect == Spec => OutOfTheBracket
<1> DEFINE Out == \A w \in Workers : tx[w].op \in {"cancel", "remove"} =>
        LET t == tx[w].team IN
            tx[w].stage = "locked" /\ tx'[w] = Idle /\ reg[t].status # "cancelled" /\ reg'[t].status = "cancelled"
                => t \notin placed'
<1>1. IInv /\ [Next]_vars => [Out]_vars
  <2> SUFFICES ASSUME IInv, Next, NEW w \in Workers, tx[w].op \in {"cancel", "remove"}, tx[w].stage = "locked",
                      tx'[w] = Idle, reg[tx[w].team].status # "cancelled",
                      reg'[tx[w].team].status = "cancelled"
               PROVE  tx[w].team \notin placed'
    OBVIOUS
  <2>0. TypeOK /\ tx \in [Workers -> Requests] /\ tx[w] # Idle
    BY DEF IInv, TypeOK, Idle
  <2>1. tx[w].team \in placed => tx[w].frees
    BY <2>0 DEF IInv, Requesting, SeesSeat
  <2>2. ASSUME NEW v \in Workers, Turns(v) PROVE FALSE
    BY <2>0, <2>2, TurnType
  <2>3. ASSUME NEW v \in Workers, Commit(v) PROVE v = w
    <3>1. ASSUME v # w, NEW t, NEW row, Write(v, t, row) PROVE FALSE
      <4>1. tx'[w] = tx[w]
        BY <3>1 DEF Write, Checked
      <4> QED
        BY <2>0, <4>1
    <3>2. ASSUME v # w, Done(v) PROVE FALSE
      BY <2>0, <3>2 DEF Done
    <3> QED
      BY <2>3, <3>1, <3>2 DEF Commit, CommitCreate, CommitSubmit, CommitRequestCancel, CommitDecision,
         CommitCancel, CommitAdd, CommitRemove, CommitAssign
  <2>4. CommitCancel(w) \/ CommitRemove(w)
    BY <2>0, <2>2, <2>3 DEF Next, Turns, Commit, CommitCreate, CommitSubmit, CommitRequestCancel, CommitDecision,
       CommitAdd, CommitAssign, In, Checked, Vacate, StartFixture, ChangeStatus, EditLimit, EditLeagueLimit
  <2> QED
    BY <2>1, <2>4 DEF CommitCancel, CommitRemove
<1> QED
  BY <1>1, Invariance, PTL DEF Spec, OutOfTheBracket
=============================================================================
