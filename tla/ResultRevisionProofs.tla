------------------------ MODULE ResultRevisionProofs ------------------------
(***************************************************************************)
(* Theorems of ResultRevision, for any number of revisions.                *)
(***************************************************************************)
EXTENDS ResultRevision, TLAPS

Row == [state : States, supersedes : 0..MaxRevisions]
Types == {"SUBMITTED", "ESCALATION", "OFFICIAL", "VOIDED"}

(***************************************************************************)
(* What every step does to the table: rows are added and undecided rows    *)
(* decided, and no row changes what it supersedes.                         *)
(***************************************************************************)
Grows ==
  /\ revs' \in Seq(Row)
  /\ Len(revs) <= Len(revs') /\ Len(revs') <= MaxRevisions
  /\ \A r \in DOMAIN revs : State(r) \in Terminal => revs'[r] = revs[r]
  /\ \A r \in DOMAIN revs' : revs'[r].supersedes < r

\* A sequence has the indices up to its length.
LEMMA Indices == ASSUME TypeOK PROVE DOMAIN revs = 1..Latest /\ Latest \in Nat /\ MaxRevisions \in Nat
  BY MaxRevisionsAssumption DEF TypeOK, Latest

\* Every row of the table is typed, and supersedes an earlier one.
LEMMA Rows ==
  ASSUME TypeOK PROVE
    /\ revs \in Seq(Row)
    /\ \A r \in 1..Latest : /\ revs[r] \in Row
                            /\ revs[r].state \in States
                            /\ revs[r].supersedes \in Nat /\ revs[r].supersedes < r
<1>1. revs \in Seq(Row)
  BY DEF TypeOK, Row
<1>2. \A r \in 1..Latest : revs[r] \in Row
  BY <1>1 DEF Latest
<1>3. \A row \in Row : row.state \in States /\ row.supersedes \in Nat
  BY MaxRevisionsAssumption DEF Row
<1>4. \A r \in 1..Latest : revs[r].supersedes < r
  BY Indices DEF TypeOK
<1> QED
  BY <1>1, <1>2, <1>3, <1>4

\* A new row leaves the others alone.
LEMMA AppendGrows ==
  ASSUME TypeOK, HasRoom, NEW s \in States, NEW b \in 0..Latest, revs' = With(revs, s, b)
  PROVE  /\ Grows
         /\ Len(revs') = Latest + 1 /\ DOMAIN revs' = 1..(Latest + 1)
         /\ \A r \in DOMAIN revs : revs'[r] = revs[r]
         /\ revs'[Latest + 1].state = s /\ revs'[Latest + 1].supersedes = b
<1>1. b \in 0..MaxRevisions
  BY Indices DEF HasRoom
<1> DEFINE new == [state |-> s, supersedes |-> b]
<1>2. new \in Row
  BY <1>1 DEF Row
<1>3. revs \in Seq(Row)
  BY Rows
<1>4. revs' = Append(revs, new)
  BY DEF With
<1> HIDE DEF new
<1>5. revs' \in Seq(Row) /\ Len(revs') = Latest + 1 /\ revs'[Latest + 1] = new
      /\ \A r \in 1..Latest : revs'[r] = revs[r]
  BY <1>2, <1>3, <1>4 DEF Latest
<1>6. DOMAIN revs' = 1..(Latest + 1)
  BY <1>5
<1>7. new.state = s /\ new.supersedes = b
  BY DEF new
<1>8. \A r \in 1..(Latest + 1) : r \in 1..Latest \/ r = Latest + 1
  BY Indices
<1>9. \A r \in DOMAIN revs' : revs'[r].supersedes < r
  <2>1. \A r \in 1..Latest : revs'[r].supersedes < r
    BY <1>5, Rows
  <2>2. revs'[Latest + 1].supersedes < Latest + 1
    BY <1>5, <1>7, Indices
  <2> QED
    BY <1>6, <1>8, <2>1, <2>2
<1> QED
  BY <1>5, <1>6, <1>7, <1>9, Indices DEF Grows, HasRoom, Latest, State

\* A decision of a row changes its state only.
LEMMA DecideGrows ==
  ASSUME TypeOK, NEW r \in DOMAIN revs, revs[r].state \notin Terminal,
         NEW s \in States, revs' = Decided(r, s)
  PROVE  /\ Grows
         /\ Len(revs') = Latest /\ DOMAIN revs' = DOMAIN revs
         /\ revs'[r].state = s /\ revs'[r].supersedes = revs[r].supersedes
         /\ \A q \in DOMAIN revs : q # r => revs'[q] = revs[q]
<1>1. revs \in Seq(Row)
  BY Rows
<1>2. revs[r] \in Row
  BY Rows, Indices
<1> DEFINE new == [revs[r] EXCEPT !.state = s]
<1>3. new \in Row /\ new.state = s /\ new.supersedes = revs[r].supersedes
  BY <1>2 DEF Row
<1>4. revs' = [revs EXCEPT ![r] = new]
  BY DEF Decided
<1> HIDE DEF new
<1>5. revs' \in Seq(Row) /\ Len(revs') = Latest /\ DOMAIN revs' = DOMAIN revs
      /\ revs'[r] = new /\ \A q \in DOMAIN revs : q # r => revs'[q] = revs[q]
  BY <1>1, <1>3, <1>4 DEF Latest
<1>6. \A q \in DOMAIN revs : revs'[q].supersedes = revs[q].supersedes
  BY <1>3, <1>5
<1>7. r # 0
  BY Indices
<1>8. \A q \in DOMAIN revs : State(q) \in Terminal => revs'[q] = revs[q]
  BY <1>5, <1>7, Indices DEF State
<1> QED
  BY <1>3, <1>5, <1>6, <1>8, Indices DEF Grows, TypeOK, Latest

\* The discard decides every row nobody confirmed.
LEMMA DiscardGrows ==
  ASSUME TypeOK, HasRoom, Latest # 0, revs' = With(Discard(Unconfirmed), "VOID", Latest)
  PROVE  /\ Grows
         /\ Len(revs') = Latest + 1 /\ DOMAIN revs' = 1..(Latest + 1)
         /\ \A r \in DOMAIN revs : revs'[r].supersedes = revs[r].supersedes
         /\ \A r \in DOMAIN revs : revs'[r].state \notin {"DRAFT", "SUBMITTED"}
         /\ revs'[Latest + 1].state = "VOID" /\ revs'[Latest + 1].supersedes = Latest
<1> DEFINE rows == Discard(Unconfirmed)
           gone(r) == [revs[r] EXCEPT !.state = "VOID"]
<1>1. revs \in Seq(Row) /\ \A r \in DOMAIN revs : revs[r] \in Row
  BY Rows, Indices
<1>2. \A r \in DOMAIN revs : gone(r) \in Row /\ gone(r).state = "VOID" /\ gone(r).supersedes = revs[r].supersedes
  BY <1>1 DEF Row, States
<1>3. rows = [r \in 1..Latest |-> IF r \in Unconfirmed THEN gone(r) ELSE revs[r]]
  BY Indices DEF Discard
<1> HIDE DEF gone
<1>4. rows \in Seq(Row) /\ Len(rows) = Latest /\ DOMAIN rows = 1..Latest
      /\ \A r \in 1..Latest : rows[r] = IF r \in Unconfirmed THEN gone(r) ELSE revs[r]
  BY <1>1, <1>2, <1>3, Indices
<1> HIDE DEF rows
<1> DEFINE new == [state |-> "VOID", supersedes |-> Latest]
<1>5. new \in Row /\ new.state = "VOID" /\ new.supersedes = Latest
  BY Indices DEF Row, States, HasRoom
<1>6. revs' = Append(rows, new)
  BY DEF With, rows
<1> HIDE DEF new
<1>7. revs' \in Seq(Row) /\ Len(revs') = Latest + 1 /\ revs'[Latest + 1] = new
      /\ \A r \in 1..Latest : revs'[r] = rows[r]
  BY <1>4, <1>5, <1>6
<1>8. DOMAIN revs' = 1..(Latest + 1)
  BY <1>7
<1>9. \A r \in DOMAIN revs : r \in Unconfirmed <=> revs[r].state \in {"DRAFT", "SUBMITTED"}
  BY DEF Unconfirmed, In
<1>10. \A r \in DOMAIN revs : revs'[r].supersedes = revs[r].supersedes
  BY <1>2, <1>4, <1>7, Indices
<1>11. \A r \in DOMAIN revs : revs'[r].state \notin {"DRAFT", "SUBMITTED"}
  BY <1>2, <1>4, <1>7, <1>9, Indices
<1>12. \A r \in DOMAIN revs : State(r) \in Terminal => revs'[r] = revs[r]
  BY <1>4, <1>7, <1>9, Indices DEF State, Terminal
<1>13. \A r \in DOMAIN revs' : revs'[r].supersedes < r
  BY <1>5, <1>7, <1>8, <1>10, Indices DEF TypeOK
<1> QED
  BY <1>5, <1>7, <1>8, <1>10, <1>11, <1>12, <1>13, Indices DEF Grows, HasRoom, Latest

-----------------------------------------------------------------------------
(* What the projections of a confirmed or voided result rest on. *)

\* A projection that waits is one of a revision in the state it projects.
JobsMatch ==
  \A r \in DOMAIN revs :
    /\ <<"OFFICIAL", r>> \in jobs => State(r) = "OFFICIAL"
    /\ <<"VOIDED", r>> \in jobs => State(r) = "VOID"

\* What the public shows of the pointer is right, or its projection waits.
Projecting ==
  /\ State(official) = "OFFICIAL" => shown = official \/ <<"OFFICIAL", official>> \in jobs
  /\ State(official) = "VOID" /\ lane # "TOURNAMENT" =>
       shown = 0 \/ <<"VOIDED", official>> \in jobs

Inv == TypeOK /\ JobsMatch /\ Projecting

(***************************************************************************)
(* What every step but the two projections does to the pointer, the jobs   *)
(* and the reviews.  A pointer that moves books its projection; only the   *)
(* discard of a tournament result books none.                              *)
(***************************************************************************)
Kept(type) == \A r \in DOMAIN revs : <<type, r>> \in jobs => <<type, r>> \in jobs'
Typed == jobs' \subseteq Types \X DOMAIN revs'
Matched ==
  \A r \in DOMAIN revs' :
    /\ <<"OFFICIAL", r>> \in jobs' => <<"OFFICIAL", r>> \in jobs \/ revs'[r].state = "OFFICIAL"
    /\ <<"VOIDED", r>> \in jobs' => <<"VOIDED", r>> \in jobs \/ revs'[r].state = "VOID"
Moved ==
  official' = official \/
    /\ official' \in DOMAIN revs'
    /\ \/ revs'[official'].state = "OFFICIAL" /\ <<"OFFICIAL", official'>> \in jobs'
       \/ revs'[official'].state = "VOID" /\ <<"VOIDED", official'>> \in jobs'
       \/ revs'[official'].state = "VOID" /\ lane = "TOURNAMENT"

Effect ==
  /\ Grows
  /\ lane' = lane /\ goals' \in BOOLEAN /\ ended' \in BOOLEAN
  /\ Kept("OFFICIAL") /\ Kept("VOIDED") /\ Typed /\ Matched
  /\ Moved
  /\ shown' = shown
  /\ review' \in [1..MaxRevisions -> {"none", "open", "closed"}]

\* Such a step keeps the invariant.
LEMMA EffectKeeps == ASSUME Inv, Effect PROVE Inv'
<1> USE DEF Inv
<1>1. DOMAIN revs' = 1..Len(revs') /\ Len(revs') \in Nat /\ 1..Latest \subseteq 1..Len(revs')
  BY Indices DEF Effect, Grows, Latest
<1>2. \A r \in 1..Latest : State(r) \in Terminal => revs'[r] = revs[r] /\ State(r) = revs[r].state
  BY Indices DEF Effect, Grows, State
<1>3. \A r \in 0..Latest : State(r) \in Terminal => State(r)' = State(r)
  BY <1>1, <1>2, Indices DEF State, Terminal
<1>4. official \in 0..Latest /\ shown \in 0..Latest
  BY DEF TypeOK
<1>5. official' \in 0..Len(revs') /\ (official' # 0 => State(official)' \in {"OFFICIAL", "VOID"})
  <2>1. CASE official' = official
    <3>1. official = 0 \/ State(official) \in Terminal
      BY DEF TypeOK, Terminal
    <3> QED
      BY <2>1, <3>1, <1>1, <1>3, <1>4, Indices DEF TypeOK
  <2>2. CASE official' # official
    BY <2>2, <1>1 DEF Effect, Moved, State
  <2> QED
    BY <2>1, <2>2
<1>6. shown' \in 0..Len(revs') /\ (shown' # 0 => State(shown)' = "OFFICIAL")
  <2>1. shown = 0 \/ State(shown) \in Terminal
    BY DEF TypeOK, Terminal
  <2>2. shown' = shown
    BY DEF Effect
  <2> QED
    BY <2>1, <2>2, <1>1, <1>3, <1>4, Indices DEF TypeOK
<1>7. TypeOK'
  <2>1. lane' \in Lanes
    BY DEF Effect, TypeOK
  <2> QED
    BY <2>1, <1>5, <1>6 DEF TypeOK, Effect, Grows, Typed, Types, Row, Latest
<1>8. JobsMatch'
  <2> SUFFICES ASSUME NEW r \in DOMAIN revs'
               PROVE  /\ <<"OFFICIAL", r>> \in jobs' => State(r)' = "OFFICIAL"
                      /\ <<"VOIDED", r>> \in jobs' => State(r)' = "VOID"
    BY DEF JobsMatch
  <2>1. r # 0 /\ State(r)' = revs'[r].state
    BY <1>1 DEF State
  <2>2. \A t : <<t, r>> \in jobs => r \in 1..Latest
    BY Indices DEF TypeOK
  <2>3. <<"OFFICIAL", r>> \in jobs => State(r)' = "OFFICIAL"
    <3> SUFFICES ASSUME <<"OFFICIAL", r>> \in jobs PROVE State(r)' = "OFFICIAL"
      OBVIOUS
    <3>1. r \in DOMAIN revs /\ r \in 0..Latest
      BY <2>2, Indices
    <3>2. State(r) = "OFFICIAL"
      BY <3>1 DEF JobsMatch
    <3> QED
      BY <3>1, <3>2, <1>3 DEF Terminal
  <2>4. <<"VOIDED", r>> \in jobs => State(r)' = "VOID"
    <3> SUFFICES ASSUME <<"VOIDED", r>> \in jobs PROVE State(r)' = "VOID"
      OBVIOUS
    <3>1. r \in DOMAIN revs /\ r \in 0..Latest
      BY <2>2, Indices
    <3>2. State(r) = "VOID"
      BY <3>1 DEF JobsMatch
    <3> QED
      BY <3>1, <3>2, <1>3 DEF Terminal
  <2> QED
    BY <2>1, <2>3, <2>4 DEF Effect, Matched
<1>9. Projecting'
  <2>1. CASE official' = official
    <3>1. CASE official = 0
      BY <2>1, <3>1 DEF Projecting, State
    <3>2. CASE official # 0
      <4>1. official \in DOMAIN revs /\ State(official) \in Terminal
        BY <3>2, <1>4, Indices DEF TypeOK, Terminal
      <4>2. State(official)' = State(official)
        BY <2>1, <4>1, <1>3, <1>4
      <4> QED
        BY <2>1, <4>1, <4>2 DEF Projecting, Effect, Kept
    <3> QED
      BY <3>1, <3>2
  <2>2. CASE official' # official
    <3>1. official' # 0 /\ State(official)' = revs'[official'].state
      BY <2>2, <1>1 DEF Effect, Moved, State
    <3> QED
      BY <2>2, <3>1 DEF Projecting, Effect, Moved
  <2> QED
    BY <2>1, <2>2
<1> QED
  BY <1>7, <1>8, <1>9

-----------------------------------------------------------------------------
(* The commands have that effect. *)

\* Reviews that are closed keep their types.
LEMMA ClosedTyped ==
  ASSUME TypeOK, NEW rows PROVE Closed(rows) \in [1..MaxRevisions -> {"none", "open", "closed"}]
  BY DEF TypeOK, Closed

\* Jobs that are added to the ones that are not reminders of a closed review.
LEMMA Booked ==
  ASSUME TypeOK, Grows, NEW rows, NEW new \in SUBSET (Types \X DOMAIN revs'),
         \/ jobs' = (jobs \ SlaJobs(rows)) \union new
         \/ jobs' = jobs \union new,
         \A r \in DOMAIN revs' :
           /\ <<"OFFICIAL", r>> \in new => revs'[r].state = "OFFICIAL"
           /\ <<"VOIDED", r>> \in new => revs'[r].state = "VOID"
  PROVE  Kept("OFFICIAL") /\ Kept("VOIDED") /\ Typed /\ Matched
<1>1. DOMAIN revs \subseteq DOMAIN revs'
  BY Indices DEF Grows, Latest
<1>2. jobs \subseteq Types \X DOMAIN revs'
  BY <1>1 DEF TypeOK, Types
<1>3. \A r : <<"OFFICIAL", r>> \notin SlaJobs(rows) /\ <<"VOIDED", r>> \notin SlaJobs(rows)
  BY DEF SlaJobs
<1> QED
  BY <1>2, <1>3 DEF Kept, Typed, Matched

\* One job.
LEMMA OneJob ==
  ASSUME NEW S, NEW type \in Types, NEW r \in S
  PROVE  /\ Job(type, r) \in SUBSET (Types \X S)
         /\ \A t, q : <<t, q>> \in Job(type, r) => t = type /\ q = r
         /\ <<type, r>> \in Job(type, r)
  BY DEF Job

\* A step that leaves the table, the pointer and the public alone and books nothing.
LEMMA NothingBooked ==
  ASSUME TypeOK, UNCHANGED <<lane, goals, ended, revs, official, shown>>,
         NEW rows, NEW new \in SUBSET ({"ESCALATION", "SUBMITTED"} \X DOMAIN revs),
         jobs' = (jobs \ SlaJobs(rows)) \union new
  PROVE  Grows /\ Kept("OFFICIAL") /\ Kept("VOIDED") /\ Typed /\ Matched
<1>1. Grows
  BY Indices, Rows DEF Grows, TypeOK, State, Latest
<1>2. new \in SUBSET (Types \X DOMAIN revs')
  BY DEF Types
<1>3. \A r : <<"OFFICIAL", r>> \notin new /\ <<"VOIDED", r>> \notin new
  OBVIOUS
<1> QED
  BY <1>1, <1>2, <1>3, Booked

LEMMA CreateEffect == ASSUME Inv, CreateResultRevision PROVE Effect
<1>1. HasRoom /\ revs' = With(revs, "DRAFT", Latest) /\ TypeOK
  BY DEF CreateResultRevision, Write, Inv
<1>2. Grows
  BY <1>1, AppendGrows, Indices DEF States
<1>3. Kept("OFFICIAL") /\ Kept("VOIDED") /\ Typed /\ Matched
  BY <1>1, <1>2, Booked, jobs' = jobs \union {} DEF CreateResultRevision
<1> QED
  BY <1>1, <1>2, <1>3 DEF CreateResultRevision, Effect, Moved, TypeOK

LEMMA SubmitEffect == ASSUME Inv, NEW r \in DOMAIN revs, SubmitResultRevision(r) PROVE Effect
<1>1. TypeOK /\ revs' = Decided(r, "SUBMITTED") /\ revs[r].state = "DRAFT"
  BY Indices DEF SubmitResultRevision, Inv, State
<1>2. Grows /\ r \in DOMAIN revs' /\ revs'[r].state = "SUBMITTED"
  BY <1>1, DecideGrows DEF States, Terminal
<1>3. Kept("OFFICIAL") /\ Kept("VOIDED") /\ Typed /\ Matched
  BY <1>1, <1>2, Booked, OneJob DEF SubmitResultRevision, Types
<1> QED
  BY <1>1, <1>2, <1>3 DEF SubmitResultRevision, Effect, Moved, TypeOK

LEMMA ConfirmEffect ==
  ASSUME Inv, NEW r \in DOMAIN revs, Approve(r) \/ OfficializeResultRevision(r) PROVE Effect
<1>1. /\ TypeOK /\ revs' = Decided(r, "OFFICIAL") /\ revs[r].state \in {"DRAFT", "SUBMITTED"}
      /\ official' = r /\ jobs' = jobs \union Job("OFFICIAL", r)
      /\ UNCHANGED <<lane, goals, ended, review, shown>>
  BY Indices DEF Approve, OfficializeResultRevision, MayOfficialize, Inv, State
<1>2. Grows /\ r \in DOMAIN revs' /\ revs'[r].state = "OFFICIAL"
  BY <1>1, DecideGrows DEF States, Terminal
<1>3. Kept("OFFICIAL") /\ Kept("VOIDED") /\ Typed /\ Matched
  BY <1>1, <1>2, Booked, OneJob DEF Types
<1> QED
  BY <1>1, <1>2, <1>3, OneJob DEF Effect, Moved, TypeOK, Types

LEMMA RequestChangeEffect == ASSUME Inv, NEW r \in DOMAIN revs, RequestChange(r) PROVE Effect
<1>1. TypeOK /\ revs' = Decided(r, "CHANGE_REQUESTED") /\ revs[r].state = "SUBMITTED"
  BY Indices DEF RequestChange, Inv, State
<1>2. Grows
  BY <1>1, DecideGrows DEF States, Terminal
<1>3. Kept("OFFICIAL") /\ Kept("VOIDED") /\ Typed /\ Matched
  BY <1>1, <1>2, Booked, jobs' = jobs \union {} DEF RequestChange
<1> QED
  BY <1>1, <1>2, <1>3 DEF RequestChange, Effect, Moved, TypeOK

\* A row added with its projection or with its review.
LEMMA AddedEffect ==
  ASSUME Inv, HasRoom, NEW s \in {"SUBMITTED", "OFFICIAL", "VOID"}, NEW b \in 0..Latest,
         NEW rows, NEW type \in {"SUBMITTED", "OFFICIAL", "VOIDED"},
         s = (IF type = "VOIDED" THEN "VOID" ELSE type),
         revs' = With(revs, s, b),
         \/ jobs' = (jobs \ SlaJobs(rows)) \union Job(type, Latest + 1)
         \/ jobs' = jobs \union Job(type, Latest + 1),
         official' = IF type = "SUBMITTED" THEN official ELSE Latest + 1,
         lane' = lane, goals' = goals, ended' \in BOOLEAN, shown' = shown,
         review' = review \/ review' = Closed(rows)
  PROVE  Effect
<1>1. TypeOK
  BY DEF Inv
<1>2. Grows /\ DOMAIN revs' = 1..(Latest + 1) /\ revs'[Latest + 1].state = s
  BY <1>1, AppendGrows DEF States
<1>3. Latest + 1 \in DOMAIN revs'
  BY <1>1, <1>2, Indices
<1>4. Kept("OFFICIAL") /\ Kept("VOIDED") /\ Typed /\ Matched
  <2> DEFINE new == Job(type, Latest + 1)
  <2>1. type \in Types
    BY DEF Types
  <2>2. /\ new \in SUBSET (Types \X DOMAIN revs')
        /\ \A t, q : <<t, q>> \in new => t = type /\ q = Latest + 1
    BY <1>3, <2>1 DEF Job
  <2> HIDE DEF new
  <2>3. \A r \in DOMAIN revs' :
          /\ <<"OFFICIAL", r>> \in new => revs'[r].state = "OFFICIAL"
          /\ <<"VOIDED", r>> \in new => revs'[r].state = "VOID"
    BY <1>2, <2>2
  <2>4. \/ jobs' = (jobs \ SlaJobs(rows)) \union new
        \/ jobs' = jobs \union new
    BY DEF new
  <2> QED
    BY <1>1, <1>2, <2>2, <2>3, <2>4, Booked
<1>5. Moved
  BY <1>2, <1>3, OneJob DEF Moved, Types
<1> QED
  BY <1>1, <1>2, <1>4, <1>5, ClosedTyped DEF Effect, TypeOK

LEMMA CorrectionEffect == ASSUME Inv, CreateResultCorrection PROVE Effect
<1>1. HasRoom /\ revs' = With(revs, "DRAFT", official) /\ TypeOK /\ official \in 0..Latest
  BY DEF CreateResultCorrection, Write, Inv, TypeOK
<1>2. Grows
  BY <1>1, AppendGrows, Indices DEF States
<1>3. Kept("OFFICIAL") /\ Kept("VOIDED") /\ Typed /\ Matched
  BY <1>1, <1>2, Booked, jobs' = jobs \union {} DEF CreateResultCorrection
<1> QED
  BY <1>1, <1>2, <1>3 DEF CreateResultCorrection, Effect, Moved, TypeOK

LEMMA DiscardEffect == ASSUME Inv, DiscardUnconfirmedResultRevisions PROVE Effect
<1>1. TypeOK /\ HasRoom /\ Latest # 0 /\ revs' = With(Discard(Unconfirmed), "VOID", Latest)
  BY DEF DiscardUnconfirmedResultRevisions, Inv, State
<1>2. Grows /\ DOMAIN revs' = 1..(Latest + 1) /\ revs'[Latest + 1].state = "VOID"
  BY <1>1, DiscardGrows
<1>3. jobs' = (jobs \ SlaJobs(Unconfirmed \union {Latest})) \union {}
      /\ review' = Closed(Unconfirmed \union {Latest})
  BY DEF DiscardUnconfirmedResultRevisions, CloseSla
<1>4. Kept("OFFICIAL") /\ Kept("VOIDED") /\ Typed /\ Matched
  <2>1. {} \in SUBSET (Types \X DOMAIN revs') /\ \A j : j \notin {}
    OBVIOUS
  <2> QED
    BY <1>1, <1>2, <1>3, <2>1, Booked
<1>5. Moved
  BY <1>1, <1>2, Indices DEF DiscardUnconfirmedResultRevisions, Moved
<1>6. review' \in [1..MaxRevisions -> {"none", "open", "closed"}]
  BY <1>1, <1>3, ClosedTyped
<1> QED
  BY <1>1, <1>2, <1>4, <1>5, <1>6 DEF DiscardUnconfirmedResultRevisions, Effect, TypeOK

\* The commands that add one row with its job, at the pointer or for review.
LEMMA AddingEffect ==
  ASSUME Inv,
         \/ DeriveOnEnd \/ VoidResultRevision \/ QuickResult \/ SyncAdminEndedGameRoster
         \/ OfficializeShared \/ SupersedeOfficialResult
         \/ \E r \in DOMAIN revs : AssignGoalAssist(r) \/ SupersedeAndSubmit(r)
  PROVE  Effect
<1>1. TypeOK /\ official \in 0..Latest /\ 0 \in 0..Latest /\ Latest \in 0..Latest
      /\ goals \in BOOLEAN /\ ended \in BOOLEAN
  BY Indices DEF Inv, TypeOK
<1>2. CASE DeriveOnEnd
  BY <1>1, <1>2, AddedEffect DEF DeriveOnEnd, Write
<1>3. CASE VoidResultRevision
  BY <1>1, <1>3, AddedEffect DEF VoidResultRevision, Write, CloseSla
<1>4. CASE QuickResult
  BY <1>1, <1>4, AddedEffect DEF QuickResult, Write
<1>5. CASE SyncAdminEndedGameRoster
  <2>1. RosterBase \in 0..Latest
    BY <1>1 DEF RosterBase
  <2>2. CASE State(RosterBase) = "OFFICIAL"
    BY <1>1, <1>5, <2>1, <2>2, AddedEffect DEF SyncAdminEndedGameRoster, Write
  <2>3. CASE State(RosterBase) = "SUBMITTED"
    BY <1>1, <1>5, <2>1, <2>3, AddedEffect DEF SyncAdminEndedGameRoster, Write, CloseSla
  <2> QED
    BY <1>5, <2>2, <2>3 DEF SyncAdminEndedGameRoster
<1>6. CASE OfficializeShared
  <2>1. Latest = 0 /\ HasRoom
    BY <1>6, MaxRevisionsAssumption DEF OfficializeShared, HasRoom
  <2> QED
    BY <1>1, <1>6, <2>1, AddedEffect DEF OfficializeShared, Write
<1>7. CASE SupersedeOfficialResult
  BY <1>1, <1>7, AddedEffect DEF SupersedeOfficialResult, Write
<1>8. ASSUME NEW r \in DOMAIN revs, AssignGoalAssist(r) PROVE Effect
  BY <1>1, <1>8, AddedEffect DEF AssignGoalAssist, Write, CloseSla
<1>9. ASSUME NEW r \in DOMAIN revs, SupersedeAndSubmit(r) PROVE Effect
  <2>1. r \in 0..Latest
    BY <1>1, Indices
  <2> QED
    BY <1>1, <1>9, <2>1, AddedEffect DEF SupersedeAndSubmit, Write
<1> QED
  BY <1>2, <1>3, <1>4, <1>5, <1>6, <1>7, <1>8, <1>9

-----------------------------------------------------------------------------
(* The worker. *)

LEMMA SubmittedEffect == ASSUME Inv, NEW r \in DOMAIN revs, SubmittedHandler(r) PROVE Effect
<1> DEFINE opened == [review EXCEPT ![r] = IF @ = "none" THEN "open" ELSE @]
<1>1. /\ TypeOK /\ review \in [1..MaxRevisions -> {"none", "open", "closed"}]
      /\ goals \in BOOLEAN /\ ended \in BOOLEAN
  BY DEF Inv, TypeOK
<1>2. UNCHANGED <<lane, goals, ended, revs, official, shown>>
  BY DEF SubmittedHandler
<1>3. review' \in [1..MaxRevisions -> {"none", "open", "closed"}]
  <2>1. review' \in {review, opened, Closed({r})}
    BY DEF SubmittedHandler
  <2>2. opened \in [1..MaxRevisions -> {"none", "open", "closed"}]
    BY <1>1
  <2> QED
    BY <1>1, <2>1, <2>2, ClosedTyped
<1>4. /\ Grows
      /\ jobs' \subseteq jobs \union SlaJobs({r})
      /\ \A j \in jobs : j[1] \in {"OFFICIAL", "VOIDED"} => j \in jobs'
  <2>1. Grows
    BY <1>1, <1>2, Indices, Rows DEF Grows, TypeOK, State, Latest
  <2>2. jobs' \in {(jobs \ Job("SUBMITTED", r)) \union SlaJobs({r}),
                  (jobs \ Job("SUBMITTED", r)) \ SlaJobs({r}),
                  jobs \ Job("SUBMITTED", r)}
    BY DEF SubmittedHandler
  <2> QED
    BY <2>1, <2>2 DEF SlaJobs, Job
<1>5. Kept("OFFICIAL") /\ Kept("VOIDED") /\ Typed /\ Matched
  <2>1. jobs \subseteq Types \X DOMAIN revs /\ SlaJobs({r}) \subseteq Types \X DOMAIN revs
    BY <1>1 DEF TypeOK, Types, SlaJobs
  <2>2. \A q : <<"OFFICIAL", q>> \notin SlaJobs({r}) /\ <<"VOIDED", q>> \notin SlaJobs({r})
    BY DEF SlaJobs
  <2> QED
    BY <1>2, <1>4, <2>1, <2>2 DEF Kept, Typed, Matched
<1> QED
  BY <1>1, <1>2, <1>3, <1>4, <1>5 DEF Effect, Moved

LEMMA EscalationEffect == ASSUME Inv, NEW r \in DOMAIN revs, EscalationHandler(r) PROVE Effect
<1>1. /\ TypeOK /\ review \in [1..MaxRevisions -> {"none", "open", "closed"}]
      /\ goals \in BOOLEAN /\ ended \in BOOLEAN
  BY DEF Inv, TypeOK
<1>2. /\ UNCHANGED <<lane, goals, ended, revs, official, shown>>
      /\ jobs' = (jobs \ SlaJobs({r})) \union {}
      /\ review' = review \/ review' = Closed({r})
  BY DEF EscalationHandler
<1>3. Grows /\ Kept("OFFICIAL") /\ Kept("VOIDED") /\ Typed /\ Matched
  BY <1>1, <1>2, NothingBooked
<1> QED
  BY <1>1, <1>2, <1>3, ClosedTyped DEF Effect, Moved

\* A projection answers for the pointer it finds.
LEMMA ProjectionKeeps ==
  ASSUME Inv, NEW r \in DOMAIN revs, OfficialHandler(r) \/ VoidedHandler(r) PROVE Inv'
<1>1. TypeOK /\ JobsMatch /\ Projecting
  BY DEF Inv
<1>2. UNCHANGED <<lane, goals, ended, revs, official>> /\ jobs' \subseteq jobs
  BY DEF OfficialHandler, VoidedHandler
<1>3. r \in 0..Latest /\ r # 0 /\ r \in 1..Latest
  BY <1>1, Indices
<1>4. review' \in [1..MaxRevisions -> {"none", "open", "closed"}]
  BY <1>1, ClosedTyped DEF OfficialHandler, VoidedHandler, TypeOK
<1>5. \/ shown' = shown
      \/ shown' = 0
      \/ shown' = r /\ State(r) = "OFFICIAL"
  BY <1>1 DEF OfficialHandler, VoidedHandler, JobsMatch
<1>6. TypeOK'
  <2>1. shown' \in 0..Latest /\ (shown' # 0 => State(shown') = "OFFICIAL")
    BY <1>1, <1>3, <1>5, Indices DEF TypeOK
  <2> QED
    BY <1>1, <1>2, <1>4, <2>1 DEF TypeOK, State, Latest
<1>7. JobsMatch'
  BY <1>1, <1>2 DEF JobsMatch, State
<1>8. Projecting'
  <2>1. CASE OfficialHandler(r) /\ official # r
    <3>1. shown' = shown /\ (<<"OFFICIAL", official>> \in jobs => <<"OFFICIAL", official>> \in jobs')
          /\ (<<"VOIDED", official>> \in jobs => <<"VOIDED", official>> \in jobs')
      BY <2>1 DEF OfficialHandler, Current, Job
    <3> QED
      BY <1>1, <1>2, <3>1 DEF Projecting, State
  <2>2. CASE OfficialHandler(r) /\ official = r
    <3>1. shown' = official /\ State(official) = "OFFICIAL"
      BY <2>2, <1>1 DEF OfficialHandler, Current, JobsMatch
    <3> QED
      BY <1>2, <3>1 DEF Projecting, State
  <2>3. CASE VoidedHandler(r) /\ official # r
    <3>1. shown' = shown /\ (<<"OFFICIAL", official>> \in jobs => <<"OFFICIAL", official>> \in jobs')
          /\ (<<"VOIDED", official>> \in jobs => <<"VOIDED", official>> \in jobs')
      BY <2>3 DEF VoidedHandler, Current, Job
    <3> QED
      BY <1>1, <1>2, <3>1 DEF Projecting, State
  <2>4. CASE VoidedHandler(r) /\ official = r
    <3>1. shown' = 0 /\ State(official) = "VOID"
      BY <2>4, <1>1 DEF VoidedHandler, Current, JobsMatch
    <3> QED
      BY <1>2, <3>1 DEF Projecting, State
  <2> QED
    BY <2>1, <2>2, <2>3, <2>4
<1> QED
  BY <1>6, <1>7, <1>8 DEF Inv

-----------------------------------------------------------------------------
(* The invariant. *)

LEMMA NextEffect ==
  ASSUME Inv, Next
  PROVE  Effect \/ \E r \in DOMAIN revs : OfficialHandler(r) \/ VoidedHandler(r)
<1>1. CASE CreateResultRevision
  BY <1>1, CreateEffect
<1>2. CASE \/ DeriveOnEnd \/ VoidResultRevision \/ QuickResult \/ SyncAdminEndedGameRoster
           \/ OfficializeShared \/ SupersedeOfficialResult
           \/ \E r \in DOMAIN revs : AssignGoalAssist(r) \/ SupersedeAndSubmit(r)
  BY <1>2, AddingEffect
<1>3. CASE CreateResultCorrection
  BY <1>3, CorrectionEffect
<1>4. CASE DiscardUnconfirmedResultRevisions
  BY <1>4, DiscardEffect
<1>5. ASSUME NEW r \in DOMAIN revs, SubmitResultRevision(r) PROVE Effect
  BY <1>5, SubmitEffect
<1>6. ASSUME NEW r \in DOMAIN revs, Approve(r) \/ OfficializeResultRevision(r) PROVE Effect
  BY <1>6, ConfirmEffect
<1>7. ASSUME NEW r \in DOMAIN revs, RequestChange(r) PROVE Effect
  BY <1>7, RequestChangeEffect
<1>8. ASSUME NEW r \in DOMAIN revs, SubmittedHandler(r) PROVE Effect
  BY <1>8, SubmittedEffect
<1>9. ASSUME NEW r \in DOMAIN revs, EscalationHandler(r) PROVE Effect
  BY <1>9, EscalationEffect
<1> QED
  BY <1>1, <1>2, <1>3, <1>4, <1>5, <1>6, <1>7, <1>8, <1>9 DEF Next, Worker

LEMMA InitInv == ASSUME Init PROVE Inv
<1>1. Len(revs) = 0 /\ DOMAIN revs = {} /\ revs \in Seq(Row)
  BY DEF Init
<1>2. review \in [1..MaxRevisions -> {"none", "open", "closed"}]
  BY DEF Init
<1>3. jobs \in SUBSET ({"SUBMITTED", "ESCALATION", "OFFICIAL", "VOIDED"} \X DOMAIN revs)
  BY DEF Init
<1>4. Latest = 0 /\ \A r \in DOMAIN revs : revs[r].supersedes < r
  BY <1>1 DEF Latest
<1>5. TypeOK
  <2>1. lane \in Lanes /\ goals \in BOOLEAN /\ ended \in BOOLEAN
    BY DEF Init
  <2>2. official \in 0..Latest /\ shown \in 0..Latest /\ Latest <= MaxRevisions
        /\ official = 0 /\ shown = 0
    BY <1>4, MaxRevisionsAssumption DEF Init
  <2> QED
    BY <1>1, <1>2, <1>3, <1>4, <2>1, <2>2 DEF TypeOK, Row
<1>6. JobsMatch /\ Projecting
  BY <1>1 DEF Init, JobsMatch, Projecting, State
<1> QED
  BY <1>5, <1>6 DEF Inv

LEMMA NextInv == ASSUME Inv, [Next]_vars PROVE Inv'
<1>1. CASE UNCHANGED vars
  BY <1>1 DEF vars, Inv, TypeOK, JobsMatch, Projecting, State, Latest
<1>2. CASE Next
  BY <1>2, NextEffect, EffectKeeps, ProjectionKeeps
<1> QED
  BY <1>1, <1>2

\* The table, the pointer, the jobs and the public cache stay consistent.
THEOREM Consistent == Spec => []Inv
  BY InitInv, NextInv, PTL DEF Spec

\* Every variable keeps its type, and a revision supersedes an earlier one.
THEOREM TypeCorrect == Spec => []TypeOK
  BY Consistent, PTL DEF Inv

\* Once the projections are applied the public shows the confirmed result.
THEOREM PublicCorrect == Spec => []PublicFollowsOfficial
<1>1. Inv => PublicFollowsOfficial
  <2> SUFFICES ASSUME Inv, Projected PROVE
        /\ State(official) = "OFFICIAL" => shown = official
        /\ State(official) = "VOID" /\ lane # "TOURNAMENT" => shown = 0
    BY DEF PublicFollowsOfficial
  <2>1. \A t \in {"OFFICIAL", "VOIDED"} : <<t, official>> \notin jobs
    BY DEF Projected, ProjectionJobs
  <2> QED
    BY <2>1 DEF Inv, Projecting
<1> QED
  BY <1>1, Consistent, PTL

-----------------------------------------------------------------------------
(* What a step may never do. *)

\* The pointer of a game keeps a revision, of a tournament a later one that
\* supersedes the confirmed result.
PointerMoves ==
  /\ official # 0 => official' # 0
  /\ lane = "TOURNAMENT" => official' >= official
  /\ lane = "TOURNAMENT" /\ official # 0 /\ official' # official =>
       \/ revs'[official'].supersedes = official
       \/ State(official) = "VOID" /\ revs'[official'].state = "VOID"

LEMMA PointerStep == ASSUME Inv, Next PROVE PointerMoves
<1>1. TypeOK /\ official \in 0..Latest /\ Latest \in Nat /\ DOMAIN revs = 1..Latest
  BY Indices DEF Inv, TypeOK
<1>2. CASE official' = official
  BY <1>2, <1>1 DEF PointerMoves
<1>3. ASSUME official' = Latest + 1, HasRoom, NEW b \in 0..Latest, NEW s \in States,
             revs' = With(revs, s, b), b = official \/ official = 0 \/ lane # "TOURNAMENT"
      PROVE  PointerMoves
  BY <1>1, <1>3, AppendGrows DEF PointerMoves
<1>4. CASE VoidResultRevision
  BY <1>1, <1>3, <1>4 DEF VoidResultRevision, Write, States
<1>5. CASE QuickResult
  BY <1>1, <1>3, <1>5 DEF QuickResult, Write, States
<1>6. CASE DiscardUnconfirmedResultRevisions
  <2>1. HasRoom /\ Latest # 0 /\ revs' = With(Discard(Unconfirmed), "VOID", Latest)
        /\ official' = Latest + 1 /\ State(official) # "OFFICIAL"
    BY <1>6 DEF DiscardUnconfirmedResultRevisions, State
  <2>2. revs'[Latest + 1].state = "VOID"
    BY <1>1, <2>1, DiscardGrows
  <2>3. official # 0 => State(official) = "VOID"
    BY <1>1, <2>1 DEF TypeOK
  <2> QED
    BY <1>1, <2>1, <2>2, <2>3 DEF PointerMoves
<1>7. CASE SyncAdminEndedGameRoster
  <2>1. CASE official' = Latest + 1 /\ Write("OFFICIAL", RosterBase)
    BY <1>1, <1>3, <1>7, <2>1 DEF SyncAdminEndedGameRoster, Write, States, RosterBase
  <2> QED
    BY <1>2, <1>7, <2>1 DEF SyncAdminEndedGameRoster
<1>8. CASE OfficializeShared
  BY <1>1, <1>8 DEF OfficializeShared, PointerMoves
<1>9. CASE SupersedeOfficialResult
  BY <1>1, <1>9 DEF SupersedeOfficialResult, PointerMoves
<1>10. ASSUME NEW r \in DOMAIN revs, Approve(r) PROVE PointerMoves
  BY <1>1, <1>10 DEF Approve, Submitted, PointerMoves
<1>11. ASSUME NEW r \in DOMAIN revs, OfficializeResultRevision(r) PROVE PointerMoves
  <2>1. /\ revs' = Decided(r, "OFFICIAL") /\ official' = r /\ MayOfficialize(r)
        /\ revs[r].state \in {"DRAFT", "SUBMITTED"}
    BY <1>1, <1>11 DEF OfficializeResultRevision, MayOfficialize, State
  <2>2. revs'[r].supersedes = revs[r].supersedes
    BY <1>1, <2>1, DecideGrows DEF States, Terminal
  <2>3. revs[r].supersedes < r /\ revs[r].supersedes \in Nat
    BY <1>1, Rows
  <2> QED
    BY <1>1, <2>1, <2>2, <2>3 DEF MayOfficialize, PointerMoves
<1>12. ASSUME Next, official' # official
       PROVE  \/ VoidResultRevision \/ QuickResult \/ DiscardUnconfirmedResultRevisions
              \/ SyncAdminEndedGameRoster \/ OfficializeShared \/ SupersedeOfficialResult
              \/ \E r \in DOMAIN revs : Approve(r) \/ OfficializeResultRevision(r)
  BY <1>12 DEF Next, CreateResultRevision, DeriveOnEnd, CreateResultCorrection,
       SubmitResultRevision, RequestChange, AssignGoalAssist, SupersedeAndSubmit,
       Worker, SubmittedHandler, EscalationHandler, OfficialHandler, VoidedHandler
<1> QED
  BY <1>2, <1>4, <1>5, <1>6, <1>7, <1>8, <1>9, <1>10, <1>11, <1>12

LEMMA NextGrows == ASSUME Inv, Next PROVE Grows
<1>1. CASE Effect
  BY <1>1 DEF Effect
<1>2. CASE \E r \in DOMAIN revs : OfficialHandler(r) \/ VoidedHandler(r)
  <2>1. UNCHANGED revs
    BY <1>2 DEF OfficialHandler, VoidedHandler
  <2> QED
    BY <2>1, Indices, Rows DEF Grows, Inv, TypeOK, State, Latest
<1> QED
  BY <1>1, <1>2, NextEffect

\* What was decided about a revision is final; a tournament's pointer moves forward.
THEOREM DecisionsAreFinal == Spec => DecisionsStand
<1> DEFINE Step == /\ \A r \in DOMAIN revs : State(r) \in Terminal => revs'[r] = revs[r]
                   /\ official # 0 => official' # 0
                   /\ lane = "TOURNAMENT" => official' >= official
<1>1. ASSUME Inv, [Next]_vars PROVE [Step]_vars
  BY <1>1, NextGrows, PointerStep DEF Grows, PointerMoves
<1> QED
  BY <1>1, Consistent, PTL DEF Spec, DecisionsStand

\* A confirmed tournament result is replaced by what supersedes it only.
THEOREM ReplacedBySuccessor == Spec => OfficialReplacesOfficial
<1> DEFINE Step == lane = "TOURNAMENT" /\ official # 0 /\ official' # official =>
                     \/ revs'[official'].supersedes = official
                     \/ State(official) = "VOID" /\ revs'[official'].state = "VOID"
<1>1. ASSUME Inv, [Next]_vars PROVE [Step]_vars
  BY <1>1, PointerStep DEF PointerMoves
<1> QED
  BY <1>1, Consistent, PTL DEF Spec, OfficialReplacesOfficial

-----------------------------------------------------------------------------
(* The abstract result. *)

\* A new row is a result only if it was added as one.
LEMMA AppendOfficial ==
  ASSUME TypeOK, HasRoom, NEW s \in States, NEW b \in 0..Latest, revs' = With(revs, s, b)
  PROVE  /\ In("OFFICIAL")' = IF s = "OFFICIAL" THEN In("OFFICIAL") \union {Latest + 1}
                                                ELSE In("OFFICIAL")
         /\ Latest + 1 \in DOMAIN revs' /\ revs'[Latest + 1].state = s
         /\ Latest + 1 \notin DOMAIN revs
<1>1. /\ DOMAIN revs' = 1..(Latest + 1) /\ DOMAIN revs = 1..Latest /\ Latest \in Nat
      /\ \A r \in 1..Latest : revs'[r] = revs[r]
      /\ revs'[Latest + 1].state = s
  BY AppendGrows, Indices
<1>2. 1..(Latest + 1) = 1..Latest \union {Latest + 1} /\ Latest + 1 \notin 1..Latest
  BY <1>1
<1> QED
  BY <1>1, <1>2 DEF In

\* A decision makes its row a result, or none.
LEMMA DecideOfficial ==
  ASSUME TypeOK, NEW r \in DOMAIN revs, revs[r].state \notin Terminal,
         NEW s \in States, revs' = Decided(r, s)
  PROVE  /\ In("OFFICIAL")' = IF s = "OFFICIAL" THEN In("OFFICIAL") \union {r} ELSE In("OFFICIAL")
         /\ r \notin In("OFFICIAL") /\ r \in DOMAIN revs' /\ revs'[r].state = s
<1>1. /\ DOMAIN revs' = DOMAIN revs /\ revs'[r].state = s
      /\ \A q \in DOMAIN revs : q # r => revs'[q] = revs[q]
      /\ revs[r].state # "OFFICIAL"
  BY DecideGrows DEF Terminal
<1> QED
  BY <1>1 DEF In

\* The discard leaves the confirmed rows alone and confirms none.
LEMMA DiscardedOfficial ==
  ASSUME TypeOK, HasRoom, Latest # 0, revs' = With(Discard(Unconfirmed), "VOID", Latest)
  PROVE  \A r \in DOMAIN revs : revs'[r].state = "OFFICIAL" <=> revs[r].state = "OFFICIAL"
<1> DEFINE rows == Discard(Unconfirmed)
<1>1. /\ revs \in Seq(Row) /\ DOMAIN revs = 1..Latest /\ Latest \in Nat
      /\ \A r \in DOMAIN revs : revs[r] \in Row
  BY Rows, Indices
<1>2. \A r \in DOMAIN revs : [revs[r] EXCEPT !.state = "VOID"].state = "VOID"
  BY <1>1 DEF Row
<1>3. \A r \in DOMAIN revs : rows[r].state = "OFFICIAL" <=> revs[r].state = "OFFICIAL"
  BY <1>2 DEF Discard, Unconfirmed, In
<1>4. rows \in Seq(Row) /\ Len(rows) = Latest
  <2>1. rows = [r \in 1..Latest |-> IF r \in Unconfirmed THEN [revs[r] EXCEPT !.state = "VOID"] ELSE revs[r]]
    BY <1>1 DEF Discard
  <2>2. \A r \in 1..Latest : [revs[r] EXCEPT !.state = "VOID"] \in Row
    BY <1>1 DEF Row, States
  <2> QED BY <1>1, <2>1, <2>2
<1> HIDE DEF rows
<1>5. \A r \in 1..Latest : revs'[r] = rows[r]
  BY <1>1, <1>4 DEF With, rows
<1> QED
  BY <1>1, <1>3, <1>5

\* What was confirmed stays so, and what becomes confirmed is the new pointer.
ResultMoves ==
  /\ shown' = shown
  /\ \/ official' = official /\ In("OFFICIAL")' = In("OFFICIAL")
     \/ /\ official' \in DOMAIN revs' \ In("OFFICIAL")
        /\ revs'[official'].state = "OFFICIAL"
        /\ In("OFFICIAL")' = In("OFFICIAL") \union {official'}
     \/ /\ official' \in DOMAIN revs' \ In("OFFICIAL")
        /\ revs'[official'].state = "VOID"
        /\ In("OFFICIAL")' = In("OFFICIAL")

LEMMA CommandMoves ==
  ASSUME Inv, Next, \A r \in DOMAIN revs : ~OfficialHandler(r) /\ ~VoidedHandler(r)
  PROVE  ResultMoves
<1>1. /\ TypeOK /\ DOMAIN revs = 1..Latest /\ Latest \in Nat
      /\ Latest \in 0..Latest /\ 0 \in 0..Latest /\ official \in 0..Latest
      /\ In("OFFICIAL") \subseteq DOMAIN revs
      /\ \A r \in DOMAIN revs : State(r) = revs[r].state /\ r \in 0..Latest
  BY Indices DEF Inv, TypeOK, In, State
<1> USE DEF ResultMoves, States, Terminal
<1>2. ASSUME HasRoom, NEW s \in {"DRAFT", "SUBMITTED"}, NEW b \in 0..Latest,
             Write(s, b), UNCHANGED <<official, shown>>
      PROVE  ResultMoves
  BY <1>1, <1>2, AppendOfficial DEF Write
<1>3. ASSUME HasRoom, NEW s \in {"OFFICIAL", "VOID"}, NEW b \in 0..Latest,
             Write(s, b), official' = Latest + 1, UNCHANGED shown
      PROVE  ResultMoves
  BY <1>1, <1>3, AppendOfficial DEF Write
<1>4. CASE CreateResultRevision \/ DeriveOnEnd \/ CreateResultCorrection
  BY <1>1, <1>2, <1>4 DEF CreateResultRevision, DeriveOnEnd, CreateResultCorrection
<1>5. CASE VoidResultRevision \/ QuickResult \/ SupersedeOfficialResult
  BY <1>1, <1>3, <1>5 DEF VoidResultRevision, QuickResult, SupersedeOfficialResult
<1>6. CASE OfficializeShared
  <2>1. HasRoom /\ Latest + 1 = 1
    BY <1>6, MaxRevisionsAssumption DEF OfficializeShared, HasRoom
  <2> QED BY <1>1, <1>3, <1>6, <2>1 DEF OfficializeShared
<1>7. CASE SyncAdminEndedGameRoster
  BY <1>1, <1>2, <1>3, <1>7 DEF SyncAdminEndedGameRoster, RosterBase
<1>8. CASE DiscardUnconfirmedResultRevisions
  <2>1. /\ HasRoom /\ Latest # 0 /\ revs' = With(Discard(Unconfirmed), "VOID", Latest)
        /\ official' = Latest + 1 /\ UNCHANGED shown
    BY <1>8 DEF DiscardUnconfirmedResultRevisions, State
  <2>2. DOMAIN revs' = 1..(Latest + 1) /\ revs'[Latest + 1].state = "VOID"
    BY <1>1, <2>1, DiscardGrows
  <2>3. \A r \in DOMAIN revs : revs'[r].state = "OFFICIAL" <=> revs[r].state = "OFFICIAL"
    BY <1>1, <2>1, DiscardedOfficial
  <2>4. 1..(Latest + 1) = 1..Latest \union {Latest + 1} /\ Latest + 1 \notin 1..Latest
    BY <1>1
  <2>5. In("OFFICIAL")' = In("OFFICIAL")
    BY <1>1, <2>2, <2>3, <2>4 DEF In
  <2> QED BY <1>1, <2>1, <2>2, <2>4, <2>5
<1>9. ASSUME NEW r \in DOMAIN revs, SubmitResultRevision(r) \/ RequestChange(r) PROVE ResultMoves
  <2>1. PICK s \in {"SUBMITTED", "CHANGE_REQUESTED"} : revs' = Decided(r, s)
    BY <1>9 DEF SubmitResultRevision, RequestChange
  <2>2. revs[r].state \in {"DRAFT", "SUBMITTED"} /\ UNCHANGED <<official, shown>>
    BY <1>1, <1>9 DEF SubmitResultRevision, RequestChange
  <2> QED BY <1>1, <2>1, <2>2, DecideOfficial
<1>10. ASSUME NEW r \in DOMAIN revs, Approve(r) \/ OfficializeResultRevision(r) PROVE ResultMoves
  <2>1. /\ revs' = Decided(r, "OFFICIAL") /\ official' = r /\ UNCHANGED shown
        /\ revs[r].state \in {"DRAFT", "SUBMITTED"}
    BY <1>1, <1>10 DEF Approve, OfficializeResultRevision, MayOfficialize
  <2> QED BY <1>1, <2>1, DecideOfficial
<1>11. ASSUME NEW r \in DOMAIN revs, AssignGoalAssist(r) \/ SupersedeAndSubmit(r) PROVE ResultMoves
  BY <1>1, <1>2, <1>11 DEF AssignGoalAssist, SupersedeAndSubmit
<1>12. ASSUME NEW r \in DOMAIN revs, SubmittedHandler(r) \/ EscalationHandler(r) PROVE ResultMoves
  BY <1>12 DEF SubmittedHandler, EscalationHandler, In
<1> QED
  BY <1>4, <1>5, <1>6, <1>7, <1>8, <1>9, <1>10, <1>11, <1>12 DEF Next, Worker

\* A move of the pointer is one of the abstract result's steps.
LEMMA MovesMapped == ASSUME Inv, Grows, ResultMoves PROVE [Result!Next]_(Result!vars)
<1> DEFINE res == IF State(official) = "OFFICIAL" THEN official ELSE 0
           past == In("OFFICIAL") \ {official}
<1>1. /\ official \in 0..Latest /\ DOMAIN revs = 1..Latest /\ Latest \in Nat /\ MaxRevisions \in Nat
      /\ official = 0 \/ State(official) \in {"OFFICIAL", "VOID"}
      /\ In("OFFICIAL") \subseteq DOMAIN revs
  BY Indices DEF Inv, TypeOK, In
<1>2. DOMAIN revs' \subseteq 1..MaxRevisions
  BY <1>1 DEF Grows
<1>3. /\ State(official) = "OFFICIAL" => official \in In("OFFICIAL") /\ official # 0
      /\ State(official) # "OFFICIAL" => official \notin In("OFFICIAL")
  BY <1>1 DEF State, In
<1> USE DEF Result!Next, Result!vars, Result!Confirm, Result!Correct, Result!Void, Result!Discard,
            Result!Fresh
<1>4. CASE official' = official /\ In("OFFICIAL")' = In("OFFICIAL")
  <2>1. State(official)' = State(official)
    BY <1>1, <1>4 DEF Grows, State, Terminal
  <2> QED BY <1>4, <2>1 DEF ResultMoves
<1>5. CASE /\ official' \in DOMAIN revs' \ In("OFFICIAL")
           /\ revs'[official'].state = "OFFICIAL"
           /\ In("OFFICIAL")' = In("OFFICIAL") \union {official'}
  <2>1. State(official)' = "OFFICIAL" /\ official' \in 1..MaxRevisions /\ shown' = shown
    BY <1>2, <1>5 DEF State, ResultMoves
  <2>2. res' = official' /\ past' = In("OFFICIAL")
    BY <1>5, <2>1
  <2>3. CASE State(official) = "OFFICIAL"
    <3>1. Result!Correct(official')
      BY <1>3, <1>5, <2>1, <2>2, <2>3
    <3> QED BY <2>1, <3>1
  <2>4. CASE State(official) # "OFFICIAL"
    <3>1. Result!Confirm(official')
      BY <1>3, <1>5, <2>1, <2>2, <2>4
    <3> QED BY <2>1, <3>1
  <2> QED BY <2>3, <2>4
<1>6. CASE /\ official' \in DOMAIN revs' \ In("OFFICIAL")
           /\ revs'[official'].state = "VOID"
           /\ In("OFFICIAL")' = In("OFFICIAL")
  <2>1. State(official)' = "VOID" /\ shown' = shown
    BY <1>2, <1>6 DEF State, ResultMoves
  <2>2. res' = 0 /\ past' = In("OFFICIAL")
    BY <1>6, <2>1
  <2>3. CASE State(official) = "OFFICIAL"
    <3>1. Result!Void
      BY <1>3, <2>1, <2>2, <2>3
    <3> QED BY <3>1
  <2>4. CASE State(official) # "OFFICIAL"
    <3>1. Result!Discard
      BY <1>3, <2>1, <2>2, <2>4
    <3> QED BY <3>1
  <2> QED BY <2>3, <2>4
<1> QED
  BY <1>4, <1>5, <1>6 DEF ResultMoves

\* A projection publishes the result, hides a void one, or shows nothing new.
LEMMA ProjectionMapped ==
  ASSUME Inv, NEW r \in DOMAIN revs, OfficialHandler(r) \/ VoidedHandler(r)
  PROVE  [Result!Next]_(Result!vars)
<1>1. UNCHANGED <<revs, official>>
  BY DEF OfficialHandler, VoidedHandler
<1>2. State(official)' = State(official) /\ In("OFFICIAL")' = In("OFFICIAL")
  BY <1>1 DEF State, In
<1>3. CASE UNCHANGED shown
  BY <1>1, <1>2, <1>3 DEF Result!vars
<1>4. CASE OfficialHandler(r) /\ official = r
  <2>1. shown' = official /\ State(official) = "OFFICIAL"
    BY <1>4 DEF OfficialHandler, Current, Inv, JobsMatch
  <2>2. official # 0
    BY <2>1 DEF State
  <2> QED BY <1>1, <1>2, <2>1, <2>2 DEF Result!Next, Result!Publish
<1>5. CASE VoidedHandler(r) /\ official = r
  <2>1. shown' = 0 /\ State(official) = "VOID"
    BY <1>5 DEF VoidedHandler, Current, Inv, JobsMatch
  <2> QED BY <1>1, <1>2, <2>1 DEF Result!Next, Result!Hide
<1> QED
  BY <1>3, <1>4, <1>5 DEF OfficialHandler, VoidedHandler, Current

\* Every behaviour of the revisions is one of the abstract result: one result
\* at a time, none that comes back, and a public that is never moved to an
\* older one.
THEOREM ImplementsResultCorrect == Spec => ImplementsResult
<1>1. ASSUME Init PROVE Result!Init
  BY <1>1 DEF Init, Result!Init, State, In
<1>2. ASSUME Inv, [Next]_vars PROVE [Result!Next]_(Result!vars)
  <2>1. CASE UNCHANGED vars
    BY <2>1 DEF vars, Result!vars, State, In
  <2>2. CASE Next
    BY <1>2, <2>2, NextGrows, CommandMoves, MovesMapped, ProjectionMapped
  <2> QED BY <1>2, <2>1, <2>2
<1> QED
  BY <1>1, <1>2, Consistent, PTL DEF Spec, ImplementsResult, Result!Spec

-----------------------------------------------------------------------------
(* The reviews of a friendly's result. *)

\* A review is opened for a row that was submitted.
OpenIsSubmitted ==
  lane = "FRIENDLY" =>
    \A r \in 1..MaxRevisions : review[r] = "open" => r \in DOMAIN revs /\ revs[r].state # "DRAFT"

ReviewInv == Inv /\ OpenIsSubmitted /\ NoReviewOfReplaced

LEMMA FriendlySteps ==
  ASSUME Next, lane = "FRIENDLY"
  PROVE  \/ CreateResultRevision
         \/ \E r \in DOMAIN revs : \/ SubmitResultRevision(r) \/ Approve(r) \/ RequestChange(r)
                                  \/ AssignGoalAssist(r) \/ Worker(r)
  BY DEF Next, Managed, DeriveOnEnd, VoidResultRevision, CreateResultCorrection, QuickResult,
         DiscardUnconfirmedResultRevisions, SyncAdminEndedGameRoster, OfficializeShared,
         SupersedeOfficialResult, SupersedeAndSubmit, OfficializeResultRevision

LEMMA DecidedReview ==
  ASSUME ReviewInv, lane' = lane, NEW r \in DOMAIN revs, revs[r].state \in {"DRAFT", "SUBMITTED"},
         NEW s \in States \ {"DRAFT"}, revs' = Decided(r, s), review' = review
  PROVE  OpenIsSubmitted' /\ NoReviewOfReplaced'
<1>1. TypeOK
  BY DEF ReviewInv, Inv
<1>2. /\ DOMAIN revs' = DOMAIN revs
      /\ revs'[r].state = s
      /\ \A q \in DOMAIN revs : q # r => revs'[q] = revs[q]
      /\ \A q \in DOMAIN revs : revs'[q].supersedes = revs[q].supersedes
  BY <1>1, DecideGrows DEF Terminal
<1>3. OpenIsSubmitted'
  BY <1>2 DEF ReviewInv, OpenIsSubmitted
<1>4. ASSUME lane = "FRIENDLY", NEW q \in DOMAIN revs, revs'[q].state = "SUBMITTED",
             NEW t \in DOMAIN revs, revs[t].supersedes = q
      PROVE  review[q] # "open"
  <2>1. q \in 1..MaxRevisions
    BY <1>1, Indices DEF TypeOK
  <2>2. revs[q].state \in {"DRAFT", "SUBMITTED"}
    BY <1>2, <1>4
  <2>3. CASE revs[q].state = "DRAFT"
    BY <1>4, <2>1, <2>3 DEF ReviewInv, OpenIsSubmitted
  <2>4. CASE revs[q].state = "SUBMITTED"
    BY <1>4, <2>4 DEF ReviewInv, NoReviewOfReplaced, In, Superseded
  <2> QED
    BY <2>2, <2>3, <2>4
<1>5. NoReviewOfReplaced'
  BY <1>2, <1>4 DEF NoReviewOfReplaced, In, Superseded
<1> QED
  BY <1>3, <1>5

LEMMA AddedReview ==
  ASSUME ReviewInv, lane' = lane, HasRoom, NEW s \in States, NEW b \in 0..Latest,
         revs' = With(revs, s, b),
         \A q \in DOMAIN revs : review'[q] = "open" => review[q] = "open",
         \A q \in 1..MaxRevisions : review'[q] = "open" => review[q] = "open",
         b \in DOMAIN revs /\ revs[b].state = "SUBMITTED" => review'[b] # "open"
  PROVE  OpenIsSubmitted' /\ NoReviewOfReplaced'
<1>1. TypeOK
  BY DEF ReviewInv, Inv
<1>2. /\ DOMAIN revs' = 1..(Latest + 1) /\ DOMAIN revs = 1..Latest /\ Latest \in Nat
      /\ \A q \in 1..Latest : revs'[q] = revs[q]
      /\ revs'[Latest + 1].supersedes = b
      /\ Latest + 1 \in 1..MaxRevisions /\ MaxRevisions \in Nat
  BY <1>1, AppendGrows, Indices DEF HasRoom
<1>3. OpenIsSubmitted'
  BY <1>2 DEF ReviewInv, OpenIsSubmitted
<1>4. ASSUME lane = "FRIENDLY", NEW q \in 1..(Latest + 1), revs'[q].state = "SUBMITTED",
             NEW t \in 1..(Latest + 1), revs'[t].supersedes = q
      PROVE  review'[q] # "open"
  <2>1. CASE q = Latest + 1
    BY <1>2, <1>4, <2>1 DEF ReviewInv, OpenIsSubmitted
  <2>2. CASE q \in 1..Latest /\ t \in 1..Latest
    <3>1. q \in In("SUBMITTED") /\ Superseded(q)
      BY <1>2, <1>4, <2>2 DEF In, Superseded
    <3> QED
      BY <1>2, <1>4, <2>2, <3>1 DEF ReviewInv, NoReviewOfReplaced
  <2>3. CASE q \in 1..Latest /\ t = Latest + 1
    BY <1>2, <1>4, <2>3
  <2> QED
    BY <1>2, <2>1, <2>2, <2>3
<1>5. NoReviewOfReplaced'
  BY <1>2, <1>4 DEF NoReviewOfReplaced, In, Superseded
<1> QED
  BY <1>3, <1>5

LEMMA WorkerReview ==
  ASSUME ReviewInv, NEW r \in DOMAIN revs, Worker(r)
  PROVE  OpenIsSubmitted' /\ NoReviewOfReplaced'
<1>1. TypeOK
  BY DEF ReviewInv, Inv
<1>2. UNCHANGED <<lane, revs>>
  BY DEF Worker, SubmittedHandler, EscalationHandler, OfficialHandler, VoidedHandler
<1>3. r \in 1..MaxRevisions /\ r # 0 /\ review \in [1..MaxRevisions -> {"none", "open", "closed"}]
  BY <1>1, Indices DEF TypeOK
<1>4. \A q \in 1..MaxRevisions : review'[q] = "open" => review[q] = "open" \/ (q = r /\ AsksForReview(r))
  BY <1>3 DEF Worker, SubmittedHandler, EscalationHandler, OfficialHandler, VoidedHandler, Closed
<1>5. OpenIsSubmitted'
  BY <1>2, <1>3, <1>4 DEF ReviewInv, OpenIsSubmitted, AsksForReview, InReview, State
<1>6. ASSUME lane = "FRIENDLY", NEW q \in In("SUBMITTED"), Superseded(q)
      PROVE  review'[q] # "open"
  <2>1. q \in 1..MaxRevisions
    BY <1>1, Indices DEF In, TypeOK
  <2> QED
    BY <1>4, <1>6, <2>1 DEF ReviewInv, NoReviewOfReplaced, AsksForReview
<1>7. NoReviewOfReplaced'
  BY <1>2, <1>6 DEF NoReviewOfReplaced, In, Superseded
<1> QED
  BY <1>5, <1>7

LEMMA NextReview == ASSUME ReviewInv, [Next]_vars PROVE ReviewInv'
<1>1. Inv'
  BY NextInv DEF ReviewInv
<1>2. CASE UNCHANGED vars
  BY <1>1, <1>2 DEF vars, ReviewInv, OpenIsSubmitted, NoReviewOfReplaced, In, Superseded
<1>3. CASE Next /\ lane # "FRIENDLY"
  <2>1. lane' = lane
    BY <1>3, NextEffect DEF ReviewInv, Effect, OfficialHandler, VoidedHandler
  <2> QED
    BY <1>1, <1>3, <2>1 DEF ReviewInv, OpenIsSubmitted, NoReviewOfReplaced
<1>4. CASE Next /\ lane = "FRIENDLY"
  <2> USE DEF States
  <2>1. TypeOK /\ Latest \in 0..Latest /\ DOMAIN revs = 1..Latest
        /\ \A r \in DOMAIN revs : State(r) = revs[r].state
    BY Indices DEF ReviewInv, Inv, State
  <2>2. CASE CreateResultRevision
    BY <2>1, <2>2, <1>1, AddedReview DEF CreateResultRevision, Write, ReviewInv, State
  <2>3. ASSUME NEW r \in DOMAIN revs, SubmitResultRevision(r) PROVE ReviewInv'
    BY <2>1, <2>3, <1>1, DecidedReview DEF SubmitResultRevision, ReviewInv
  <2>4. ASSUME NEW r \in DOMAIN revs, Approve(r) PROVE ReviewInv'
    BY <2>1, <2>4, <1>1, DecidedReview DEF Approve, ReviewInv
  <2>5. ASSUME NEW r \in DOMAIN revs, RequestChange(r) PROVE ReviewInv'
    BY <2>1, <2>5, <1>1, DecidedReview DEF RequestChange, ReviewInv
  <2>6. ASSUME NEW r \in DOMAIN revs, AssignGoalAssist(r) PROVE ReviewInv'
    <3>1. HasRoom /\ revs' = With(revs, "SUBMITTED", Latest) /\ r = Latest /\ lane' = lane
          /\ review' = Closed({r})
      BY <2>6 DEF AssignGoalAssist, Write, CloseSla
    <3>2. r \in 1..MaxRevisions /\ review \in [1..MaxRevisions -> {"none", "open", "closed"}]
      BY <2>1, Indices DEF TypeOK
    <3>3. /\ \A q \in 1..MaxRevisions : review'[q] = "open" => review[q] = "open"
          /\ review'[r] # "open"
      BY <3>1, <3>2 DEF Closed
    <3>4. DOMAIN revs \subseteq 1..MaxRevisions
      BY <2>1, Indices DEF TypeOK
    <3> QED
      BY <2>1, <3>1, <3>3, <3>4, <1>1, AddedReview DEF ReviewInv
  <2>7. ASSUME NEW r \in DOMAIN revs, Worker(r) PROVE ReviewInv'
    BY <2>7, <1>1, WorkerReview DEF ReviewInv
  <2> QED
    BY <1>4, <2>2, <2>3, <2>4, <2>5, <2>6, <2>7, FriendlySteps
<1> QED
  BY <1>2, <1>3, <1>4

\* A friendly's submission that an assist replaced asks nobody for a review.
THEOREM ReplacedAsksNobody == Spec => []NoReviewOfReplaced
<1>1. Init => ReviewInv
  <2>1. ASSUME Init PROVE OpenIsSubmitted /\ NoReviewOfReplaced
    <3>1. DOMAIN revs = {} /\ \A r \in 1..MaxRevisions : review[r] = "none"
      BY <2>1 DEF Init
    <3> QED
      BY <3>1 DEF OpenIsSubmitted, NoReviewOfReplaced, In
  <2> QED
    BY <2>1, InitInv DEF ReviewInv
<1>2. ReviewInv => NoReviewOfReplaced
  BY DEF ReviewInv
<1> QED
  BY <1>1, <1>2, NextReview, PTL DEF Spec

-----------------------------------------------------------------------------
(* The deliveries of a review. *)

\* A closed review is not open: the rows of a cancelled review are closed with it.
LEMMA CancelledReview ==
  ASSUME TypeOK, NEW r \in DOMAIN revs, Stale(r), <<"ESCALATION", r>> \in jobs,
         NEW rows, review' = Closed(rows),
         \A q \in DOMAIN revs : q \notin rows /\ <<"ESCALATION", q>> \in jobs => <<"ESCALATION", q>> \in jobs'
  PROVE  <<"ESCALATION", r>> \in jobs' \/ ~Stale(r)'
<1>1. r \in 1..MaxRevisions /\ review \in [1..MaxRevisions -> {"none", "open", "closed"}]
  BY Indices DEF TypeOK
<1>2. CASE r \in rows
  <2>1. review'[r] = "closed"
    BY <1>1, <1>2 DEF Closed, Stale
  <2> QED
    BY <2>1 DEF Stale
<1>3. CASE r \notin rows
  BY <1>3
<1> QED
  BY <1>2, <1>3

LEMMA LastDelivery ==
  ASSUME TypeOK, Next, NEW r \in DOMAIN revs, Stale(r), <<"ESCALATION", r>> \in jobs
  PROVE  <<"ESCALATION", r>> \in jobs' \/ ~Stale(r)'
<1> DEFINE Goes == <<"ESCALATION", r>> \in jobs' \/ ~Stale(r)'
<1>1. InReview(r) /\ Superseded(r) /\ r # 0
  BY Indices DEF Stale, In, InReview, State
<1>2. ASSUME NEW rows, NEW new, CloseSla(rows, new) PROVE Goes
  <2>1. \A q \in DOMAIN revs : q \notin rows => <<"ESCALATION", q>> \notin SlaJobs(rows)
    BY DEF SlaJobs
  <2> QED
    BY <1>2, <2>1, CancelledReview DEF CloseSla
<1>3. CASE \/ CreateResultRevision \/ DeriveOnEnd \/ CreateResultCorrection \/ QuickResult
           \/ OfficializeShared \/ SupersedeOfficialResult
           \/ \E q \in DOMAIN revs : \/ SubmitResultRevision(q) \/ Approve(q) \/ RequestChange(q)
                                    \/ SupersedeAndSubmit(q) \/ OfficializeResultRevision(q)
  BY <1>3 DEF CreateResultRevision, DeriveOnEnd, CreateResultCorrection, QuickResult,
       OfficializeShared, SupersedeOfficialResult, SubmitResultRevision, Approve, RequestChange,
       SupersedeAndSubmit, OfficializeResultRevision
<1>4. CASE VoidResultRevision \/ DiscardUnconfirmedResultRevisions
           \/ \E q \in DOMAIN revs : AssignGoalAssist(q)
  BY <1>2, <1>4 DEF VoidResultRevision, DiscardUnconfirmedResultRevisions, AssignGoalAssist
<1>5. CASE SyncAdminEndedGameRoster
  BY <1>2, <1>5 DEF SyncAdminEndedGameRoster
<1>6. ASSUME NEW q \in DOMAIN revs, SubmittedHandler(q) PROVE Goes
  <2>1. <<"ESCALATION", r>> \notin Job("SUBMITTED", q) /\ (q # r => <<"ESCALATION", r>> \notin SlaJobs({q}))
    BY DEF Job, SlaJobs
  <2>2. CASE q # r \/ jobs' = jobs \ Job("SUBMITTED", q)
    BY <1>6, <2>1, <2>2 DEF SubmittedHandler
  <2>3. CASE q = r /\ review' = Closed({r})
    BY <2>1, <2>3, CancelledReview, <1>6 DEF SubmittedHandler, Job, SlaJobs
  <2> QED
    BY <1>1, <1>6, <2>2, <2>3 DEF SubmittedHandler, AsksForReview
<1>7. ASSUME NEW q \in DOMAIN revs, EscalationHandler(q) PROVE Goes
  <2>1. q # r => <<"ESCALATION", r>> \notin SlaJobs({q})
    BY DEF SlaJobs
  <2>2. CASE q # r
    BY <1>7, <2>1, <2>2 DEF EscalationHandler
  <2>3. CASE q = r
    BY <1>1, <1>7, <2>3, CancelledReview DEF EscalationHandler, SlaJobs
  <2> QED
    BY <2>2, <2>3
<1>8. ASSUME NEW q \in DOMAIN revs, OfficialHandler(q) PROVE Goes
  <2>1. \A x \in DOMAIN revs : /\ <<"ESCALATION", x>> \notin Job("OFFICIAL", q)
                               /\ x \notin {q} => <<"ESCALATION", x>> \notin SlaJobs({q})
    BY DEF SlaJobs, Job
  <2>2. CASE jobs' = jobs \ Job("OFFICIAL", q)
    BY <2>1, <2>2
  <2>3. CASE review' = Closed({q}) /\ jobs' = jobs \ (SlaJobs({q}) \union Job("OFFICIAL", q))
    BY <2>1, <2>3, CancelledReview
  <2> QED
    BY <1>8, <2>2, <2>3 DEF OfficialHandler
<1>9. ASSUME NEW q \in DOMAIN revs, VoidedHandler(q) PROVE Goes
  BY <1>9 DEF VoidedHandler, Job
<1> QED
  BY <1>3, <1>4, <1>5, <1>6, <1>7, <1>8, <1>9 DEF Next, Worker

\* The last due delivery of a replaced submission ends its review.
THEOREM ReviewEnds == Spec => LastDeliveryEndsReview
<1> DEFINE Step == \A r \in DOMAIN revs : Stale(r) /\ Due(r) => Due(r)' \/ ~Stale(r)'
<1>1. \A r : Due(r) <=> <<"ESCALATION", r>> \in jobs
  BY DEF Due, SlaJobs
<1>2. \A r : Due(r)' <=> <<"ESCALATION", r>> \in jobs'
  BY DEF Due, SlaJobs
<1>3. ASSUME TypeOK, [Next]_vars PROVE [Step]_vars
  BY <1>1, <1>2, <1>3, LastDelivery
<1> QED
  BY <1>3, TypeCorrect, PTL DEF Spec, LastDeliveryEndsReview
=============================================================================
