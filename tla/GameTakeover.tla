---------------------------- MODULE GameTakeover ----------------------------
(***************************************************************************)
(* The exclusive takeover token of one game: the in-memory registry of     *)
(* apps/v1_api/src/games/game-takeover.service.ts and the requests that    *)
(* use it (requestTakeover and renewTakeover of games.service.ts, called   *)
(* by realtime/realtime.gateway.ts).  A request reserves its place in the  *)
(* order of arrival, awaits its authorization and the game's row, and is   *)
(* then decided in one synchronous step; requests overtake each other in   *)
(* between.  A token is named after the request it was granted to.         *)
(***************************************************************************)
EXTENDS Naturals

CONSTANTS Requests,  \* takeover requests
          Subjects,  \* authorization subjects (operators)
          NoGrant,
          TTL,       \* GAME_TAKEOVER_TOKEN_TTL_MS
          MaxTime    \* bound: the last instant

ASSUME TTLAssumption == TTL \in Nat \ {0}
ASSUME NoGrantAssumption == NoGrant \notin [token : Requests, subject : Subjects, expiresAt : Nat]

VARIABLES
    phase,        \* where each request is
    subject, force,
    ordinal,      \* of a reservation
    pending,      \* reservations that are not finished
    nextOrdinal, latestGranted,  \* the rest of the game's PendingRequestOrder
    grant,        \* the game's entry in grants
    now,
    arrived, arrivals,  \* history: the order in which requests were reserved
    newest        \* history: the place of the last request that was granted

order == <<ordinal, pending, nextOrdinal, latestGranted>>
history == <<arrived, arrivals, newest>>
vars == <<phase, subject, force, order, grant, now, history>>

Grant == [token : Requests, subject : Subjects, expiresAt : Nat]
Phases == {"new", "reserved", "authorized", "held", "granted", "denied"}

TypeOK ==
    /\ phase \in [Requests -> Phases]
    /\ subject \in [Requests -> Subjects]
    /\ force \in [Requests -> BOOLEAN]
    /\ ordinal \in [Requests -> Nat]
    /\ pending \in SUBSET Requests
    /\ nextOrdinal \in Nat /\ latestGranted \in Nat
    /\ grant \in Grant \cup {NoGrant}
    /\ now \in Nat
    /\ arrived \in [Requests -> Nat]
    /\ arrivals \in Nat /\ newest \in Nat

Init ==
    /\ phase = [r \in Requests |-> "new"]
    /\ subject \in [Requests -> Subjects]
    /\ force \in [Requests -> BOOLEAN]
    /\ ordinal = [r \in Requests |-> 0]
    /\ pending = {}
    /\ nextOrdinal = 0 /\ latestGranted = 0
    /\ grant = NoGrant
    /\ now = 0
    /\ arrived = [r \in Requests |-> 0]
    /\ arrivals = 0 /\ newest = 0

-----------------------------------------------------------------------------

\* activeGrant
Active == grant # NoGrant /\ grant.expiresAt > now

\* reserveRequest: before the first await of the gateway's handler.
Reserve(r) ==
    /\ phase[r] = "new"
    /\ phase' = [phase EXCEPT ![r] = "reserved"]
    /\ nextOrdinal' = nextOrdinal + 1
    /\ ordinal' = [ordinal EXCEPT ![r] = nextOrdinal + 1]
    /\ pending' = pending \cup {r}
    /\ arrivals' = arrivals + 1
    /\ arrived' = [arrived EXCEPT ![r] = arrivals + 1]
    /\ UNCHANGED <<subject, force, latestGranted, grant, now, newest>>

\* The awaited reads (profile, actor, game row) found nothing against it.
Authorize(r) ==
    /\ phase[r] = "reserved"
    /\ phase' = [phase EXCEPT ![r] = "authorized"]
    /\ UNCHANGED <<subject, force, order, grant, now, history>>

\* finishRequest: the order of a game is forgotten once nothing is pending.
KeptAnyway(rest, counter) == counter
ForgotAlways(rest, counter) == 0
Kept(rest, counter) == IF rest = {} THEN 0 ELSE counter

Finish(r, watermark) ==
    /\ pending' = pending \ {r}
    /\ nextOrdinal' = Kept(pending \ {r}, nextOrdinal)
    /\ latestGranted' = Kept(pending \ {r}, watermark)
    /\ UNCHANGED ordinal

\* The authorization fails, the game is missing, or a read throws.
Deny(r) ==
    /\ phase[r] \in {"reserved", "held"}
    /\ phase' = [phase EXCEPT ![r] = "denied"]
    /\ Finish(r, latestGranted)
    /\ UNCHANGED <<subject, force, grant, now, history>>

\* TAKEOVER_HELD: another operator's grant is active and the request is not
\* forced.  The name of the holder is read before the request finishes.
HeldByOther(r) == Active /\ ~force[r] /\ grant.subject # subject[r]

Held(r) ==
    /\ phase[r] = "authorized"
    /\ HeldByOther(r)
    /\ phase' = [phase EXCEPT ![r] = "held"]
    /\ UNCHANGED <<subject, force, order, grant, now, history>>

\* TAKEOVER_SUPERSEDED: a later request was granted meanwhile.
Superseded(r) ==
    /\ phase[r] = "authorized"
    /\ ~HeldByOther(r)
    /\ ordinal[r] <= latestGranted
    /\ phase' = [phase EXCEPT ![r] = "denied"]
    /\ Finish(r, latestGranted)
    /\ UNCHANGED <<subject, force, grant, now, history>>

\* grant: it replaces whatever the game had, and moves the watermark.
GrantTo(r) ==
    /\ phase[r] = "authorized"
    /\ ~HeldByOther(r)
    /\ ordinal[r] > latestGranted
    /\ phase' = [phase EXCEPT ![r] = "granted"]
    /\ grant' = [token |-> r, subject |-> subject[r], expiresAt |-> now + TTL]
    /\ Finish(r, ordinal[r])
    /\ newest' = arrived[r]
    /\ UNCHANGED <<subject, force, now, arrived, arrivals>>

\* renew, with the token the console holds.
Renew(r) ==
    /\ phase[r] = "granted"
    /\ Active /\ grant.token = r
    /\ grant' = [grant EXCEPT !.expiresAt = now + TTL]
    /\ UNCHANGED <<phase, subject, force, order, now, history>>

\* revoke; the watermark stays.
Revoke ==
    /\ grant # NoGrant
    /\ grant' = NoGrant
    /\ UNCHANGED <<phase, subject, force, order, now, history>>

Tick ==
    /\ now < MaxTime
    /\ now' = now + 1
    /\ UNCHANGED <<phase, subject, force, order, grant, history>>

Next ==
    \/ \E r \in Requests :
          Reserve(r) \/ Authorize(r) \/ Deny(r) \/ Held(r) \/ Superseded(r) \/ GrantTo(r) \/ Renew(r)
    \/ Revoke \/ Tick

Spec == Init /\ [][Next]_vars

-----------------------------------------------------------------------------
(* Properties. *)

\* A request is never granted after one that arrived later, however slow its
\* authorization was, even when the later grant has expired or was revoked
\* and although ordinals start again at 1 whenever nothing is pending (the
\* comment in finishRequest).
GrantsFollowArrival == [][newest' >= newest]_vars

\* Nobody loses an active grant to another operator who did not confirm the
\* takeover (force); the awaits between request and decision change nothing.
NoSilentTakeover ==
    [][Active /\ grant' # grant /\ grant' # NoGrant /\ grant'.subject # grant.subject =>
          force[grant'.token]]_vars

\* Once no request is under way - granted, refused, held, superseded or
\* failed in any of its awaits - nothing of the game's order is left in the
\* process, and the next request starts a new one.
UnderWay == {"reserved", "authorized", "held"}
OrderIsForgotten ==
    (\A r \in Requests : phase[r] \notin UnderWay) =>
       pending = {} /\ nextOrdinal = 0 /\ latestGranted = 0
=============================================================================
