------------------------- MODULE GameTakeoverProofs -------------------------
(***************************************************************************)
(* Proofs about GameTakeover, for any number of requests and operators.    *)
(***************************************************************************)
EXTENDS GameTakeover, TLAPS

\* For every set of requests and operators the registry keeps its types.
THEOREM TypeCorrect == Spec => []TypeOK
<1> USE TTLAssumption DEF TypeOK, Phases, Grant
<1>1. Init => TypeOK
  BY DEF Init
<1>2. TypeOK /\ [Next]_vars => TypeOK'
  <2> SUFFICES ASSUME TypeOK, [Next]_vars PROVE TypeOK'
    OBVIOUS
  <2>1. ASSUME NEW r \in Requests, Reserve(r) PROVE TypeOK'
    BY <2>1 DEF Reserve
  <2>2. ASSUME NEW r \in Requests, Authorize(r) PROVE TypeOK'
    BY <2>2 DEF Authorize, order, history
  <2>3. ASSUME NEW r \in Requests, Deny(r) PROVE TypeOK'
    BY <2>3 DEF Deny, Finish, Kept, history
  <2>4. ASSUME NEW r \in Requests, Held(r) PROVE TypeOK'
    BY <2>4 DEF Held, order, history
  <2>5. ASSUME NEW r \in Requests, Superseded(r) PROVE TypeOK'
    BY <2>5 DEF Superseded, Finish, Kept, history
  <2>6. ASSUME NEW r \in Requests, GrantTo(r) PROVE TypeOK'
    BY <2>6 DEF GrantTo, Finish, Kept
  <2>7. ASSUME NEW r \in Requests, Renew(r) PROVE TypeOK'
    <3>1. grant \in [token : Requests, subject : Subjects, expiresAt : Nat]
      BY <2>7 DEF Renew, Active
    <3>2. grant' \in [token : Requests, subject : Subjects, expiresAt : Nat]
      BY <2>7, <3>1 DEF Renew
    <3> QED BY <2>7, <3>2 DEF Renew, order, history
  <2>8. CASE Revoke
    BY <2>8 DEF Revoke, order, history
  <2>9. CASE Tick
    BY <2>9 DEF Tick, order, history
  <2>10. CASE UNCHANGED vars
    BY <2>10 DEF vars, order, history
  <2> QED
    BY <2>1, <2>2, <2>3, <2>4, <2>5, <2>6, <2>7, <2>8, <2>9, <2>10 DEF Next
<1> QED
  BY <1>1, <1>2, PTL DEF Spec

-----------------------------------------------------------------------------
(* Ordinals start again whenever nothing is pending, so they say nothing   *)
(* about arrival by themselves.  Among the pending requests they do, and a *)
(* pending request above the watermark arrived after every granted one.    *)

PendingAreUnderWay == \A r \in Requests : r \in pending <=> phase[r] \in UnderWay
NothingKept == pending = {} => nextOrdinal = 0 /\ latestGranted = 0
OrdinalsFollowArrival ==
    /\ \A r \in pending : ordinal[r] <= nextOrdinal /\ arrived[r] <= arrivals
    /\ \A r, q \in pending : ordinal[r] < ordinal[q] => arrived[r] < arrived[q]
WatermarkFollowsArrival ==
    /\ newest <= arrivals
    /\ latestGranted <= nextOrdinal
    /\ \A r \in pending : ordinal[r] > latestGranted => arrived[r] > newest

OrderInv == PendingAreUnderWay /\ NothingKept /\ OrdinalsFollowArrival /\ WatermarkFollowsArrival

\* Finishing a request that is under way keeps the order consistent, for a
\* watermark that no pending request between it and the old one contradicts.
LEMMA FinishKeepsOrder ==
    ASSUME TypeOK, OrderInv, NEW r \in pending, NEW w \in Nat,
           Finish(r, w), w <= nextOrdinal,
           arrived' = arrived, arrivals' = arrivals, newest' \in Nat, newest' <= arrivals,
           \A q \in pending \ {r} : ordinal[q] > w => arrived[q] > newest'
    PROVE  NothingKept' /\ OrdinalsFollowArrival' /\ WatermarkFollowsArrival'
<1> USE DEF TypeOK, OrderInv
<1>1. pending' = pending \ {r} /\ ordinal' = ordinal /\ r \in Requests
  BY DEF Finish
<1>2. CASE pending \ {r} = {}
  <2>1. pending' = {} /\ nextOrdinal' = 0 /\ latestGranted' = 0
    BY <1>1, <1>2 DEF Finish, Kept
  <2> QED BY <2>1 DEF NothingKept, OrdinalsFollowArrival, WatermarkFollowsArrival
<1>3. CASE pending \ {r} # {}
  <2>1. nextOrdinal' = nextOrdinal /\ latestGranted' = w /\ pending' # {}
    BY <1>1, <1>3 DEF Finish, Kept
  <2>2. NothingKept'
    BY <2>1 DEF NothingKept
  <2>3. OrdinalsFollowArrival'
    BY <2>1, <1>1 DEF OrdinalsFollowArrival
  <2>4. WatermarkFollowsArrival'
    BY <2>1, <1>1 DEF WatermarkFollowsArrival
  <2> QED BY <2>2, <2>3, <2>4
<1> QED BY <1>2, <1>3

\* The invariant holds initially and through every step.
LEMMA OrderInvariant == Spec => []OrderInv
<1>1. Init => OrderInv
  BY DEF Init, OrderInv, PendingAreUnderWay, NothingKept, OrdinalsFollowArrival,
         WatermarkFollowsArrival, UnderWay
<1>2. TypeOK /\ OrderInv /\ [Next]_vars => OrderInv'
  <2> SUFFICES ASSUME TypeOK, OrderInv, [Next]_vars PROVE OrderInv'
    OBVIOUS
  <2> USE DEF TypeOK, OrderInv
  <2>1. ASSUME NEW r \in Requests, Reserve(r) PROVE OrderInv'
    <3>1. r \notin pending
      BY <2>1 DEF Reserve, PendingAreUnderWay, UnderWay
    <3>2. PendingAreUnderWay'
      BY <2>1 DEF Reserve, PendingAreUnderWay, UnderWay, Phases
    <3>3. NothingKept'
      BY <2>1 DEF Reserve, NothingKept
    <3>4. OrdinalsFollowArrival'
      BY <2>1, <3>1 DEF Reserve, OrdinalsFollowArrival
    <3>5. WatermarkFollowsArrival'
      BY <2>1, <3>1 DEF Reserve, WatermarkFollowsArrival, OrdinalsFollowArrival
    <3> QED BY <3>2, <3>3, <3>4, <3>5
  <2>2. ASSUME NEW r \in Requests, Authorize(r) \/ Held(r) PROVE OrderInv'
    <3>1. UNCHANGED <<ordinal, pending, nextOrdinal, latestGranted, arrived, arrivals, newest>>
      BY <2>2 DEF Authorize, Held, order, history
    <3>2. PendingAreUnderWay'
      BY <2>2, <3>1 DEF Authorize, Held, PendingAreUnderWay, UnderWay
    <3> QED BY <3>1, <3>2 DEF NothingKept, OrdinalsFollowArrival, WatermarkFollowsArrival
  <2>3. ASSUME NEW r \in Requests, Deny(r) \/ Superseded(r) PROVE OrderInv'
    <3>1. r \in pending /\ Finish(r, latestGranted) /\ UNCHANGED <<arrived, arrivals, newest>>
      BY <2>3 DEF Deny, Superseded, PendingAreUnderWay, UnderWay, history
    <3>2. PendingAreUnderWay'
      BY <2>3, <3>1 DEF Deny, Superseded, Finish, PendingAreUnderWay, UnderWay
    <3>3. /\ latestGranted <= nextOrdinal /\ newest <= arrivals
          /\ \A q \in pending \ {r} : ordinal[q] > latestGranted => arrived[q] > newest
      BY DEF WatermarkFollowsArrival
    <3>4. NothingKept' /\ OrdinalsFollowArrival' /\ WatermarkFollowsArrival'
      BY <3>1, <3>3, FinishKeepsOrder
    <3> QED BY <3>2, <3>4
  <2>4. ASSUME NEW r \in Requests, GrantTo(r) PROVE OrderInv'
    <3>1. /\ r \in pending /\ Finish(r, ordinal[r])
          /\ UNCHANGED <<arrived, arrivals>> /\ newest' = arrived[r]
      BY <2>4 DEF GrantTo, PendingAreUnderWay, UnderWay
    <3>2. PendingAreUnderWay'
      BY <2>4, <3>1 DEF GrantTo, Finish, PendingAreUnderWay, UnderWay
    <3>3. /\ ordinal[r] \in Nat /\ ordinal[r] <= nextOrdinal
          /\ newest' \in Nat /\ newest' <= arrivals
          /\ \A q \in pending \ {r} : ordinal[q] > ordinal[r] => arrived[q] > newest'
      BY <3>1 DEF OrdinalsFollowArrival
    <3>4. NothingKept' /\ OrdinalsFollowArrival' /\ WatermarkFollowsArrival'
      BY <3>1, <3>3, FinishKeepsOrder
    <3> QED BY <3>2, <3>4
  <2>5. ASSUME \/ \E r \in Requests : Renew(r)
               \/ Revoke \/ Tick \/ UNCHANGED vars
        PROVE  OrderInv'
    <3>1. UNCHANGED <<phase, ordinal, pending, nextOrdinal, latestGranted, arrived, arrivals, newest>>
      BY <2>5 DEF Renew, Revoke, Tick, vars, order, history
    <3> QED BY <3>1 DEF PendingAreUnderWay, NothingKept, OrdinalsFollowArrival, WatermarkFollowsArrival
  <2> QED
    BY <2>1, <2>2, <2>3, <2>4, <2>5 DEF Next
<1> QED
  BY <1>1, <1>2, TypeCorrect, PTL DEF Spec

\* Whatever the order in which authorizations come back, and however often
\* ordinals start again, a granted request arrived after every one granted
\* before it.
THEOREM GrantsInOrder == Spec => GrantsFollowArrival
<1>1. TypeOK /\ OrderInv /\ [Next]_vars => [newest' >= newest]_vars
  <2> SUFFICES ASSUME TypeOK, OrderInv, Next PROVE newest' >= newest
    OBVIOUS
  <2> USE DEF TypeOK
  <2>1. ASSUME NEW r \in Requests, GrantTo(r) PROVE newest' >= newest
    BY <2>1 DEF GrantTo, OrderInv, PendingAreUnderWay, UnderWay, WatermarkFollowsArrival
  <2>2. ASSUME NEW r \in Requests,
               Reserve(r) \/ Authorize(r) \/ Deny(r) \/ Held(r) \/ Superseded(r) \/ Renew(r)
        PROVE  newest' >= newest
    BY <2>2 DEF Reserve, Authorize, Deny, Held, Superseded, Renew, history
  <2>3. CASE Revoke \/ Tick
    BY <2>3 DEF Revoke, Tick, history
  <2> QED BY <2>1, <2>2, <2>3 DEF Next
<1> QED
  BY <1>1, TypeCorrect, OrderInvariant, PTL DEF Spec, GrantsFollowArrival

\* No operator loses an active grant to another one who did not force it.
THEOREM NoSilentLoss == Spec => NoSilentTakeover
<1> DEFINE Fair == (Active /\ grant' # grant /\ grant' # NoGrant /\ grant'.subject # grant.subject)
                      => force[grant'.token]
<1>1. TypeOK /\ [Next]_vars => [Fair]_vars
  <2> SUFFICES ASSUME TypeOK, Next PROVE Fair
    OBVIOUS
  <2>1. ASSUME NEW r \in Requests, GrantTo(r) PROVE Fair
    <3>1. grant'.subject = subject[r] /\ grant'.token = r
      BY <2>1 DEF GrantTo
    <3> QED BY <2>1, <3>1 DEF GrantTo, HeldByOther
  <2>2. ASSUME NEW r \in Requests, Renew(r) PROVE Fair
    <3>1. grant \in Grant
      BY <2>2 DEF TypeOK, Renew, Active
    <3>2. grant'.subject = grant.subject
      BY <2>2, <3>1 DEF Renew, Grant
    <3> QED BY <3>2
  <2>3. ASSUME NEW r \in Requests,
               Reserve(r) \/ Authorize(r) \/ Deny(r) \/ Held(r) \/ Superseded(r)
        PROVE  Fair
    BY <2>3 DEF Reserve, Authorize, Deny, Held, Superseded
  <2>4. CASE Revoke \/ Tick
    BY <2>4 DEF Revoke, Tick
  <2> QED BY <2>1, <2>2, <2>3, <2>4 DEF Next
<1> QED
  BY <1>1, TypeCorrect, PTL DEF Spec, NoSilentTakeover

\* A registry with no request under way keeps nothing of the order.
THEOREM OrderForgotten == Spec => []OrderIsForgotten
<1>1. TypeOK /\ OrderInv => OrderIsForgotten
  BY DEF TypeOK, OrderInv, PendingAreUnderWay, NothingKept, OrderIsForgotten
<1> QED
  BY <1>1, TypeCorrect, OrderInvariant, PTL
=============================================================================
