--------------------------- MODULE Dashboard_proofs ---------------------------
(***************************************************************************)
(* Proofs about UsePoll and about Dashboard, for every set of polls, every *)
(* interval and any number of requests, drafts and POSTs.                  *)
(*                                                                         *)
(* A reading is recent because the timer of its request is still armed     *)
(* when the body is complete, and the body was read after the request was  *)
(* made (InTime).  It is not older than the effect that asked for it,      *)
(* because a cleanup marks whatever was asked before (SinceTheEffect).     *)
(*                                                                         *)
(* Every step of the page is a step of the hooks or leaves them alone, so  *)
(* what is shown of the hooks holds on this page.  For the form, a text    *)
(* whose creation was not reported as failed has at most one POST and one  *)
(* rule, as the fields are given up before the button comes back           *)
(* (OneAttempt).                                                           *)
(***************************************************************************)
EXTENDS Dashboard, TLAPS

-----------------------------------------------------------------------------
(* The polling hook *)

\* LoadingIsHonest, which also holds of a hook that is not mounted.
Agrees(st) ==
  /\ st.loading <=> st.data = None /\ st.error = "none"
  /\ st.updatedAt <=> st.data # None

\* No request outlives its timer, and its reading is not older than itself.
InTime(q) == q # None => q.lag <= q.age /\ q.age <= Timeout

\* What is still wanted was read after the effect ran that asked for it.
SinceTheEffect(q, since) ==
  q # None /\ q.stage = "body" /\ ~q.cancelled => q.read >= since

\* One use of the hook, with its requests, when the backend is at version v.
PollOK(st, rs, v) ==
  /\ st \in PollState /\ rs \in [Slots -> Request \cup {None}]
  /\ Agrees(st) /\ st.since <= v
  /\ \A s \in Slots : InTime(rs[s]) /\ SinceTheEffect(rs[s], st.since)

PollInv == TypeOK /\ \A p \in Polls : PollOK(poll[p], reqs[p], server)

-----------------------------------------------------------------------------
\* The states a hook starts in and the request it makes are typed.
LEMMA StatesTyped ==
  /\ Mounted \in PollState /\ Unmounted \in PollState
  /\ NewRequest \in Request
  /\ 0 \in Versions /\ None \notin Versions /\ Versions \subseteq Nat
  /\ Ages \subseteq Nat
<1>1. 0 \in Versions /\ None \notin Versions /\ Versions \subseteq Nat
      /\ 0 \in Ages /\ Ages \subseteq Nat
  BY PollAssumption DEF Versions, Ages
<1>2. Mounted \in PollState
  BY <1>1 DEF Mounted, PollState, Errors
<1>3. Unmounted \in PollState
  BY <1>2 DEF Unmounted, PollState
<1>4. NewRequest \in Request
  BY <1>1 DEF NewRequest, Request
<1> QED
  BY <1>1, <1>2, <1>3, <1>4

\* A timer or a time that only moves on leaves a poll as it should be.
LEMMA StatesChange ==
  ASSUME NEW st, NEW rs, NEW v \in Versions, PollOK(st, rs, v),
         NEW n \in Nat, NEW b \in BOOLEAN
  PROVE  /\ PollOK([st EXCEPT !.next = n], rs, v)
         /\ PollOK([st EXCEPT !.rerun = b], rs, v)
<1> DEFINE st1 == [st EXCEPT !.next = n]
           st2 == [st EXCEPT !.rerun = b]
<1>1. st1 \in PollState /\ st2 \in PollState
  BY DEF PollOK, PollState
<1>2. /\ st1.loading = st.loading /\ st1.data = st.data /\ st1.error = st.error
      /\ st1.updatedAt = st.updatedAt /\ st1.since = st.since
      /\ st2.loading = st.loading /\ st2.data = st.data /\ st2.error = st.error
      /\ st2.updatedAt = st.updatedAt /\ st2.since = st.since
  BY DEF PollOK, PollState
<1> HIDE DEF st1, st2
<1>3. PollOK(st1, rs, v) /\ PollOK(st2, rs, v)
  BY <1>1, <1>2 DEF PollOK, Agrees
<1> QED
  BY <1>3 DEF st1, st2

\* A poll may ask at any time.
LEMMA AskedOK ==
  ASSUME NEW st, NEW rs, NEW v \in Versions, PollOK(st, rs, v), NEW seen \in BOOLEAN
  PROVE  PollOK(st, Asked(rs, seen), v)
<1>1. rs \in [Slots -> Request \cup {None}]
  BY DEF PollOK
<1>2. /\ Asked(rs, seen) \in [Slots -> Request \cup {None}]
      /\ \A s \in Slots : Asked(rs, seen)[s] \in {rs[s], NewRequest}
  BY <1>1, StatesTyped DEF Asked
<1>3. InTime(NewRequest) /\ SinceTheEffect(NewRequest, st.since)
  BY PollAssumption DEF InTime, SinceTheEffect, NewRequest
<1> QED
  BY <1>2, <1>3 DEF PollOK

\* After a cleanup nothing is wanted, whatever the poll's next state.
LEMMA CleanedUpOK ==
  ASSUME NEW st, NEW rs, NEW v \in Versions, PollOK(st, rs, v),
         NEW new \in PollState, Agrees(new), new.since <= v
  PROVE  PollOK(new, CleanedUp(rs), v)
<1> SUFFICES ASSUME NEW s \in Slots
             PROVE  /\ CleanedUp(rs)[s] \in Request \cup {None}
                    /\ InTime(CleanedUp(rs)[s])
                    /\ SinceTheEffect(CleanedUp(rs)[s], new.since)
  BY DEF PollOK, CleanedUp
<1>1. CASE rs[s] = None
  BY <1>1 DEF CleanedUp, InTime, SinceTheEffect
<1>2. CASE rs[s] # None
  <2> DEFINE q == [rs[s] EXCEPT !.cancelled = TRUE]
  <2>1. CleanedUp(rs)[s] = q
    BY <1>2 DEF CleanedUp
  <2>2. rs[s] \in Request /\ InTime(rs[s])
    BY <1>2 DEF PollOK
  <2>3. q \in Request /\ q.cancelled = TRUE /\ q.age = rs[s].age /\ q.lag = rs[s].lag
    BY <2>2 DEF Request
  <2> HIDE DEF q
  <2> QED
    BY <1>2, <2>1, <2>2, <2>3 DEF InTime, SinceTheEffect
<1> QED
  BY <1>1, <1>2

\* A result is the reading of a body, or one of the failures.
LEMMA ResultTyped ==
  ASSUME NEW q \in Request, NEW how
  PROVE  \/ q.stage = "body" /\ Result(q, how) = Ok(q.read)
         \/ \E kind \in {"timeout", "network", "http", "parse"} :
              Result(q, how) = Fail(kind)
         \/ how = "signal" /\ Result(q, how) = Fail("cancelled")
<1>1. q.stage \in {"sent", "body", "refused"}
  BY DEF Request
<1>2. CASE q.stage = "sent"
  BY <1>2 DEF Result
<1>3. CASE q.stage = "body"
  BY <1>3 DEF Result
<1>4. CASE q.stage = "refused"
  BY <1>4 DEF Result
<1> QED
  BY <1>1, <1>2, <1>3, <1>4

\* What the hook makes of an answer.
LEMMA ReceivedTyped ==
  ASSUME NEW st \in PollState, NEW q \in Request, NEW how,
         how = "signal" => q.cancelled,
         st.loading <=> st.data = None /\ st.error = "none",
         st.updatedAt <=> st.data # None
  PROVE  LET new == Received(st, q, Result(q, how))
         IN  /\ new \in PollState
             /\ new.loading <=> new.data = None /\ new.error = "none"
             /\ new.updatedAt <=> new.data # None
             /\ new.since = st.since /\ new.life = st.life
             /\ new.rerun = st.rerun /\ new.next = st.next
             /\ q.cancelled => new = st
             /\ new.data \notin {st.data, None} => q.stage = "body" /\ new.data = q.read
<1> DEFINE new == Received(st, q, Result(q, how))
<1>1. CASE q.cancelled
  BY <1>1 DEF Received
<1>2. CASE ~q.cancelled /\ q.stage = "body" /\ Result(q, how) = Ok(q.read)
  <2>1. new = [st EXCEPT !.data = q.read, !.error = "none", !.updatedAt = TRUE,
                         !.loading = FALSE]
    BY <1>2 DEF Received, Ok
  <2>2. q.read \in Versions /\ q.read # None
    BY StatesTyped DEF Request
  <2> HIDE DEF new
  <2>3. new \in PollState
    BY <2>1, <2>2 DEF PollState, Errors
  <2>4. /\ new.data = q.read /\ new.loading = FALSE /\ new.updatedAt = TRUE
        /\ new.since = st.since /\ new.life = st.life
        /\ new.rerun = st.rerun /\ new.next = st.next
    BY <2>1 DEF PollState
  <2> QED
    BY <1>2, <2>2, <2>3, <2>4 DEF new
<1>3. ASSUME ~q.cancelled,
             NEW kind \in {"timeout", "network", "http", "parse"},
             Result(q, how) = Fail(kind)
      PROVE  /\ new = [st EXCEPT !.error = kind, !.loading = FALSE]
             /\ new \in PollState
             /\ new.data = st.data /\ new.loading = FALSE /\ new.error # "none"
             /\ new.updatedAt = st.updatedAt
             /\ new.since = st.since /\ new.life = st.life
             /\ new.rerun = st.rerun /\ new.next = st.next
  <2>1. new = [st EXCEPT !.error = kind, !.loading = FALSE]
    <3> DEFINE res == Result(q, how)
    <3>1. ~res.ok /\ res.kind = kind /\ kind # "cancelled"
      BY <1>3 DEF Fail
    <3> HIDE DEF res
    <3>2. Received(st, q, res) = [st EXCEPT !.error = kind, !.loading = FALSE]
      BY <1>3, <3>1, Zenon DEF Received
    <3> QED
      BY <3>2 DEF res
  <2> HIDE DEF new
  <2>2. new \in PollState
    BY <2>1 DEF PollState, Errors
  <2>3. /\ new.data = st.data /\ new.loading = FALSE /\ new.error # "none"
        /\ new.updatedAt = st.updatedAt
        /\ new.since = st.since /\ new.life = st.life
        /\ new.rerun = st.rerun /\ new.next = st.next
    BY <2>1 DEF PollState
  <2> QED
    BY <2>1, <2>2, <2>3
<1>4. CASE ~q.cancelled /\ \E kind \in {"timeout", "network", "http", "parse"} :
                               Result(q, how) = Fail(kind)
  <2> HIDE DEF new
  <2>1. PICK kind \in {"timeout", "network", "http", "parse"} :
          Result(q, how) = Fail(kind)
    BY <1>4
  <2> QED
    BY <1>3, <1>4, <2>1 DEF new
<1> QED
  BY <1>1, <1>2, <1>4, ResultTyped

\* A request that ends, in whichever way.
LEMMA EndsOK ==
  ASSUME NEW v \in Versions, \A p \in Polls : PollOK(poll[p], reqs[p], v),
         TypeOK, NEW p \in Polls, NEW s \in Slots, NEW how,
         reqs[p][s] # None, how = "signal" => reqs[p][s].cancelled,
         Ends(p, s, how)
  PROVE  /\ poll' \in [Polls -> PollState]
         /\ reqs' \in [Polls -> [Slots -> Request \cup {None}]]
         /\ \A o \in Polls : PollOK(poll'[o], reqs'[o], v)
<1> DEFINE q == reqs[p][s]
           new == Received(poll[p], q, Result(q, how))
<1>1. poll' = [poll EXCEPT ![p] = new] /\ reqs' = [reqs EXCEPT ![p][s] = None]
  BY DEF Ends
<1>2. q \in Request /\ poll[p] \in PollState
  BY DEF TypeOK
<1>3. new \in PollState /\ Agrees(new) /\ new.since = poll[p].since
  BY <1>2, ReceivedTyped DEF PollOK, Agrees
<1> HIDE DEF new, q
<1>4. poll' \in [Polls -> PollState]
      /\ reqs' \in [Polls -> [Slots -> Request \cup {None}]]
  BY <1>1, <1>3 DEF TypeOK
<1>5. ASSUME NEW o \in Polls
      PROVE  PollOK(poll'[o], reqs'[o], v)
  <2>1. \A t \in Slots : reqs'[o][t] \in {reqs[o][t], None}
    BY <1>1 DEF TypeOK
  <2>2. poll'[o].since = poll[o].since /\ Agrees(poll'[o])
    BY <1>1, <1>3 DEF TypeOK, PollOK
  <2>3. poll'[o] \in PollState /\ reqs'[o] \in [Slots -> Request \cup {None}]
    BY <1>4
  <2> QED
    BY <2>1, <2>2, <2>3 DEF PollOK, InTime, SinceTheEffect
<1> QED
  BY <1>4, <1>5
-----------------------------------------------------------------------------
\* No poll has asked for anything at the start.
LEMMA PollInitInv == Init => PollInv
<1> SUFFICES ASSUME Init PROVE PollInv
  OBVIOUS
<1>1. TypeOK
  BY StatesTyped, PollAssumption DEF Init, TypeOK
<1>2. Agrees(Mounted) /\ Mounted.since <= 0
  BY DEF Agrees, Mounted
<1>3. \A p \in Polls : PollOK(poll[p], reqs[p], server)
  BY <1>2, StatesTyped DEF Init, PollOK, InTime, SinceTheEffect
<1> QED
  BY <1>1, <1>3 DEF PollInv

\* A refresh, a mount or an unmount, also when the backend moves on.
LEMMA PagesOK ==
  ASSUME PollInv, NEW ps \in SUBSET Polls, NEW v \in Versions, server <= v,
         Refresh(ps) \/ Leave(ps) \/ Open(ps)
  PROVE  /\ poll' \in [Polls -> PollState]
         /\ reqs' \in [Polls -> [Slots -> Request \cup {None}]]
         /\ \A o \in Polls : PollOK(poll'[o], reqs'[o], v)
<1>1. \A o \in Polls : PollOK(poll[o], reqs[o], v)
  <2>1. \A o \in Polls : poll[o].since \in Nat
    BY StatesTyped DEF PollInv, TypeOK, PollState
  <2> QED
    BY <2>1, StatesTyped DEF PollInv, TypeOK, PollOK
<1>2. /\ Agrees(Mounted) /\ Mounted.since <= v
      /\ Agrees(Unmounted) /\ Unmounted.since <= v
  BY StatesTyped DEF Agrees, Mounted, Unmounted
<1>3. CASE Refresh(ps)
  <2>1. \A o \in Polls : PollOK([poll[o] EXCEPT !.rerun = TRUE], reqs[o], v)
    BY <1>1, StatesChange
  <2>2. \A o \in Polls : PollOK(poll'[o], reqs'[o], v)
    BY <1>1, <1>3, <2>1 DEF Refresh
  <2> QED
    BY <1>3, <2>2 DEF Refresh, PollInv, TypeOK, PollOK
<1>4. CASE Leave(ps)
  <2>1. \A o \in Polls : PollOK(Unmounted, CleanedUp(reqs[o]), v)
    BY <1>1, <1>2, StatesTyped, CleanedUpOK
  <2>2. \A o \in Polls : PollOK(poll'[o], reqs'[o], v)
    BY <1>1, <1>4, <2>1 DEF Leave
  <2> QED
    BY <1>4, <2>2 DEF Leave, PollOK
<1>5. CASE Open(ps)
  <2>1. \A o \in ps : PollOK(Mounted, reqs[o], v)
    <3> SUFFICES ASSUME NEW o \in ps PROVE PollOK(Mounted, reqs[o], v)
      OBVIOUS
    <3>1. \A s \in Slots : SinceTheEffect(reqs[o][s], 0)
      BY StatesTyped DEF SinceTheEffect, PollInv, TypeOK, Request
    <3> QED
      BY <1>1, <1>2, <3>1, StatesTyped DEF PollOK, Mounted
  <2>2. \A o \in Polls : PollOK(poll'[o], reqs'[o], v)
    BY <1>1, <1>5, <2>1 DEF Open
  <2> QED
    BY <1>5, <2>2 DEF Open, PollInv, TypeOK, PollOK
<1> QED
  BY <1>3, <1>4, <1>5

\* A page mounts, unmounts and changes its hooks without spoiling a reading.
LEMMA PageStepInv ==
  ASSUME PollInv, PageStep
  PROVE  PollInv'
<1>1. PICK ps \in SUBSET Polls : Refresh(ps) \/ Leave(ps) \/ Open(ps)
  BY DEF PageStep
<1>2. /\ server' \in Versions /\ server <= server' /\ left' \in 0 .. MaxEvents
      /\ visible' = visible
  BY StatesTyped, PollAssumption DEF PageStep, PollInv, TypeOK
<1> QED
  BY <1>1, <1>2, PagesOK DEF PollInv, TypeOK

\* The effect, the interval and the listener of a visible or a hidden tab.
LEMMA EffectInv ==
  ASSUME PollInv, NEW p \in Polls, Effect(p)
  PROVE  PollInv'
<1> DEFINE new == [poll[p] EXCEPT !.life = "polling", !.rerun = FALSE,
                                  !.next = Interval[p], !.since = server]
           asked == Asked(CleanedUp(reqs[p]), visible)
<1>1. /\ poll' = [poll EXCEPT ![p] = new] /\ reqs' = [reqs EXCEPT ![p] = asked]
      /\ UNCHANGED <<server, visible, left>>
  BY DEF Effect, PollInv, TypeOK
<1>2. /\ server \in Versions /\ visible \in BOOLEAN /\ PollOK(poll[p], reqs[p], server)
      /\ Interval[p] \in Nat /\ server <= server
  BY StatesTyped, PollAssumption DEF PollInv, TypeOK
<1>3. new \in PollState /\ Agrees(new) /\ new.since <= server
  <2>1. new \in PollState
    BY <1>2 DEF PollOK, PollState
  <2>2. /\ new.loading = poll[p].loading /\ new.data = poll[p].data
        /\ new.error = poll[p].error /\ new.updatedAt = poll[p].updatedAt
        /\ new.since = server
    BY <1>2 DEF PollOK, PollState
  <2> HIDE DEF new
  <2> QED
    BY <1>2, <2>1, <2>2 DEF PollOK, Agrees
<1> HIDE DEF new
<1>4. PollOK(new, asked, server)
  BY <1>2, <1>3, CleanedUpOK, AskedOK
<1> HIDE DEF asked
<1>5. TypeOK'
  BY <1>1, <1>4 DEF PollInv, TypeOK, PollOK
<1>6. \A o \in Polls : PollOK(poll'[o], reqs'[o], server')
  BY <1>1, <1>4 DEF PollInv, TypeOK
<1> QED
  BY <1>5, <1>6 DEF PollInv

\* Nor does the tick of the interval.
LEMMA IntervalInv ==
  ASSUME PollInv, NEW p \in Polls, IntervalFires(p)
  PROVE  PollInv'
<1> DEFINE new == [poll[p] EXCEPT !.next = Interval[p]]
           asked == Asked(reqs[p], visible)
<1>1. /\ poll' = [poll EXCEPT ![p] = new] /\ reqs' = [reqs EXCEPT ![p] = asked]
      /\ UNCHANGED <<server, visible, left>>
  BY DEF IntervalFires, PollInv, TypeOK
<1>2. /\ server \in Versions /\ visible \in BOOLEAN /\ PollOK(poll[p], reqs[p], server)
      /\ Interval[p] \in Nat
  BY PollAssumption DEF PollInv, TypeOK
<1>3. PollOK(new, asked, server)
  <2>1. PollOK(poll[p], asked, server)
    BY <1>2, AskedOK
  <2> HIDE DEF asked
  <2> QED
    BY <1>2, <2>1, StatesChange
<1> HIDE DEF new, asked
<1>4. TypeOK'
  BY <1>1, <1>3 DEF PollInv, TypeOK, PollOK
<1>5. \A o \in Polls : PollOK(poll'[o], reqs'[o], server')
  BY <1>1, <1>3 DEF PollInv, TypeOK
<1> QED
  BY <1>4, <1>5 DEF PollInv

\* Nor does a tab that is hidden or shown.
LEMMA VisibilityInv ==
  ASSUME PollInv, VisibilityChange
  PROVE  PollInv'
<1>1. /\ visible' \in BOOLEAN /\ left' \in 0 .. MaxEvents
      /\ UNCHANGED <<server, poll>> /\ server \in Versions
      /\ reqs' = [p \in Polls |->
                   IF IsPolling(p) THEN Asked(reqs[p], visible') ELSE reqs[p]]
  BY PollAssumption DEF VisibilityChange, Spend, PollInv, TypeOK
<1>2. \A o \in Polls : PollOK(poll[o], Asked(reqs[o], visible'), server)
  BY <1>1, AskedOK DEF PollInv
<1>3. \A o \in Polls : PollOK(poll'[o], reqs'[o], server')
  BY <1>1, <1>2 DEF PollInv
<1>4. TypeOK'
  BY <1>1, <1>3 DEF PollInv, TypeOK, PollOK
<1> QED
  BY <1>3, <1>4 DEF PollInv

\* Nor does a change at the backend: what was read stays as old as it was.
LEMMA ServerMovesInv ==
  ASSUME PollInv, ServerMoves
  PROVE  PollInv'
<1>1. /\ server' = server + 1 /\ server' \in Versions /\ left' \in 0 .. MaxEvents
      /\ UNCHANGED <<visible, poll, reqs>>
  BY PollAssumption DEF ServerMoves, Spend, PollInv, TypeOK, Versions
<1>2. \A p \in Polls : poll[p].since \in Nat /\ server \in Nat
  BY StatesTyped DEF PollInv, TypeOK, PollState
<1> QED
  BY <1>1, <1>2 DEF PollInv, TypeOK, PollOK

\* A request under way changes, but for its time and what it has read.
LEMMA RequestChanges ==
  ASSUME PollInv, NEW p \in Polls, NEW s \in Slots, NEW q \in Request,
         InTime(q), SinceTheEffect(q, poll[p].since),
         reqs' = [reqs EXCEPT ![p][s] = q], left' \in 0 .. MaxEvents,
         UNCHANGED <<server, visible, poll>>
  PROVE  PollInv'
<1>1. TypeOK'
  BY DEF PollInv, TypeOK
<1>2. \A o \in Polls : \A t \in Slots :
        reqs'[o][t] = reqs[o][t] \/ (o = p /\ reqs'[o][t] = q)
  BY DEF PollInv, TypeOK
<1>3. \A o \in Polls : PollOK(poll'[o], reqs'[o], server')
  BY <1>1, <1>2 DEF PollInv, PollOK, TypeOK
<1> QED
  BY <1>1, <1>3 DEF PollInv

\* A response is read after its request was made.
LEMMA RespondInv ==
  ASSUME PollInv, NEW p \in Polls, NEW s \in Slots, Respond(p, s)
  PROVE  PollInv'
<1> DEFINE old == reqs[p][s]
           q == [old EXCEPT !.stage = "body", !.read = server]
<1>1. reqs' = [reqs EXCEPT ![p][s] = q] /\ left' = left
      /\ UNCHANGED <<server, visible, poll>>
  BY DEF Respond, PollInv, TypeOK
<1>2. /\ old \in Request /\ InTime(old) /\ old # None
      /\ server \in Versions /\ poll[p].since \in Versions /\ poll[p].since <= server
  BY DEF Respond, PollInv, TypeOK, PollOK, PollState
<1>3. q \in Request /\ q.age = old.age /\ q.lag = old.lag /\ q.read = server
  BY <1>2 DEF Request
<1> HIDE DEF q
<1>4. InTime(q) /\ SinceTheEffect(q, poll[p].since)
  BY <1>2, <1>3, StatesTyped DEF InTime, SinceTheEffect
<1> HIDE DEF old
<1> QED
  BY <1>1, <1>3, <1>4, RequestChanges DEF PollInv, TypeOK

\* The ends of a request.
LEMMA EndsInv ==
  ASSUME PollInv, NEW p \in Polls, NEW s \in Slots, NEW how,
         reqs[p][s] # None, how = "signal" => reqs[p][s].cancelled,
         Ends(p, s, how), left' \in 0 .. MaxEvents, UNCHANGED <<server, visible>>
  PROVE  PollInv'
BY EndsOK DEF PollInv, TypeOK

\* A failed request brings no reading.
LEMMA FaultInv ==
  ASSUME PollInv, NEW p \in Polls, NEW s \in Slots, Fault(p, s)
  PROVE  PollInv'
<1> DEFINE old == reqs[p][s]
           no == [old EXCEPT !.stage = "refused"]
           slow == [old EXCEPT !.late = TRUE]
<1>1. left' \in 0 .. MaxEvents /\ UNCHANGED <<server, visible>> /\ old # None
  BY PollAssumption DEF Fault, Spend, PollInv, TypeOK
<1>2. /\ old \in Request /\ InTime(old) /\ SinceTheEffect(old, poll[p].since)
  BY <1>1 DEF PollInv, TypeOK, PollOK
<1>3. /\ no \in Request /\ no.age = old.age /\ no.lag = old.lag /\ no.stage = "refused"
      /\ slow \in Request /\ slow.age = old.age /\ slow.lag = old.lag
      /\ slow.stage = old.stage /\ slow.cancelled = old.cancelled
      /\ slow.read = old.read
  BY <1>2 DEF Request
<1>4. CASE reqs' = [reqs EXCEPT ![p][s].stage = "refused"] /\ UNCHANGED poll
  <2>1. reqs' = [reqs EXCEPT ![p][s] = no]
    BY <1>4 DEF PollInv, TypeOK
  <2>2. InTime(no) /\ SinceTheEffect(no, poll[p].since)
    <3> HIDE DEF no
    <3> QED
      BY <1>1, <1>2, <1>3 DEF InTime, SinceTheEffect
  <2> HIDE DEF no
  <2> QED
    BY <1>1, <1>3, <1>4, <2>1, <2>2, RequestChanges
<1>5. CASE reqs' = [reqs EXCEPT ![p][s].late = TRUE] /\ UNCHANGED poll
  <2>1. reqs' = [reqs EXCEPT ![p][s] = slow]
    BY <1>5 DEF PollInv, TypeOK
  <2>2. InTime(slow) /\ SinceTheEffect(slow, poll[p].since)
    <3> HIDE DEF slow
    <3> QED
      BY <1>1, <1>2, <1>3 DEF InTime, SinceTheEffect
  <2> HIDE DEF slow
  <2> QED
    BY <1>1, <1>3, <1>5, <2>1, <2>2, RequestChanges
<1>6. CASE Ends(p, s, "broken")
  BY <1>1, <1>6, EndsInv
<1> QED
  BY <1>4, <1>5, <1>6 DEF Fault

\* Time passes, and no timer was due.
LEMMA TickInv ==
  ASSUME PollInv, Tick
  PROVE  PollInv'
<1>1. /\ poll' = [p \in Polls |-> IF IsPolling(p)
                                  THEN [poll[p] EXCEPT !.next = @ - 1] ELSE poll[p]]
      /\ reqs' = [p \in Polls |-> [s \in Slots |-> Aged(reqs[p][s])]]
      /\ UNCHANGED <<server, visible, left>>
      /\ \A p \in Polls : IsPolling(p) => poll[p].next > 0
      /\ \A p \in Polls : \A s \in Slots : reqs[p][s] # None => reqs[p][s].age < Timeout
  <2>1. \A p \in Polls : \A s \in Slots : reqs[p][s] # None => reqs[p][s].age \in Nat
    <3>1. \A q \in Request : q.age \in Nat
      BY StatesTyped DEF Request
    <3> QED
      BY <3>1 DEF PollInv, TypeOK
  <2> QED
    BY <2>1, PollAssumption DEF Tick, IsPolling, IsMounted, TimerDue, Armed
<1>2. ASSUME NEW o \in Polls
      PROVE  PollOK(poll'[o], reqs[o], server)
  <2>1. PollOK(poll[o], reqs[o], server) /\ server \in Versions /\ poll[o].next \in Nat
    BY DEF PollInv, TypeOK, PollState
  <2>2. CASE IsPolling(o)
    <3>1. poll[o].next - 1 \in Nat
      BY <1>1, <2>1, <2>2
    <3>2. poll'[o] = [poll[o] EXCEPT !.next = poll[o].next - 1]
      BY <1>1, <2>2
    <3>3. PollOK([poll[o] EXCEPT !.next = poll[o].next - 1], reqs[o], server)
      BY <2>1, <3>1, StatesChange
    <3> QED
      BY <3>2, <3>3, Zenon
  <2>3. CASE ~IsPolling(o)
    BY <1>1, <2>1, <2>3
  <2> QED
    BY <2>2, <2>3
<1>3. ASSUME NEW o \in Polls, NEW s \in Slots
      PROVE  /\ reqs'[o][s] \in Request \cup {None} /\ InTime(reqs'[o][s])
             /\ SinceTheEffect(reqs'[o][s], poll'[o].since)
  <2> DEFINE q == reqs[o][s]
  <2>1. reqs'[o][s] = Aged(q)
    BY <1>1
  <2>2. CASE q = None
    BY <2>1, <2>2 DEF Aged, InTime, SinceTheEffect
  <2>3. CASE q # None
    <3> DEFINE n == [q EXCEPT !.age = Older(q.age),
                       !.lag = IF q.stage = "body" THEN Older(q.lag) ELSE q.lag]
    <3>1. Aged(q) = n
      BY <2>3 DEF Aged
    <3>2. q \in Request /\ q.age \in Nat /\ q.lag \in Nat /\ q.age < Timeout /\ q.lag <= q.age
      BY <1>1, <2>3, StatesTyped DEF PollInv, TypeOK, Request, PollOK, InTime
    <3>3. Older(q.age) = q.age + 1 /\ Older(q.lag) = q.lag + 1
          /\ q.age + 1 \in Ages /\ q.lag + 1 \in Ages
      BY <3>2, PollAssumption DEF Older, Ages
    <3>4. /\ n \in Request /\ n.age = q.age + 1 /\ n.lag \in {q.lag, q.lag + 1}
          /\ n.stage = q.stage /\ n.cancelled = q.cancelled /\ n.read = q.read
      BY <3>2, <3>3 DEF Request
    <3> HIDE DEF n
    <3>5. InTime(n)
      BY <3>2, <3>4, PollAssumption DEF InTime
    <3>6. SinceTheEffect(n, poll'[o].since)
      <4>1. SinceTheEffect(q, poll'[o].since)
        BY <1>2 DEF PollOK
      <4> QED
        BY <2>3, <3>4, <4>1 DEF SinceTheEffect
    <3> QED
      BY <2>1, <3>1, <3>4, <3>5, <3>6
  <2> QED
    BY <2>2, <2>3
<1>4. reqs' \in [Polls -> [Slots -> Request \cup {None}]]
  BY <1>1, <1>3
<1>5. TypeOK'
  BY <1>1, <1>2, <1>4 DEF PollInv, TypeOK, PollOK
<1>6. \A o \in Polls : PollOK(poll'[o], reqs'[o], server')
  BY <1>1, <1>2, <1>3, <1>4 DEF PollOK
<1> QED
  BY <1>5, <1>6 DEF PollInv
\* One step per action of the module.
LEMMA PollNextInv == PollInv /\ [Next]_vars => PollInv'
<1> SUFFICES ASSUME PollInv, [Next]_vars PROVE PollInv'
  OBVIOUS
<1>1. CASE Tick
  BY <1>1, TickInv
<1>2. ASSUME NEW p \in Polls, Effect(p)
      PROVE  PollInv'
  BY <1>2, EffectInv
<1>3. ASSUME NEW p \in Polls, IntervalFires(p)
      PROVE  PollInv'
  BY <1>3, IntervalInv
<1>4. ASSUME NEW p \in Polls, NEW s \in Slots, Respond(p, s)
      PROVE  PollInv'
  BY <1>4, RespondInv
<1>5. ASSUME NEW p \in Polls, NEW s \in Slots,
             Complete(p, s) \/ TimesOut(p, s) \/ Aborted(p, s)
      PROVE  PollInv'
  BY <1>5, EndsInv DEF Complete, TimesOut, Aborted, PollInv, TypeOK
<1>6. CASE ServerMoves
  BY <1>6, ServerMovesInv
<1>7. CASE VisibilityChange
  BY <1>7, VisibilityInv
<1>8. ASSUME NEW p \in Polls, NEW s \in Slots, Fault(p, s)
      PROVE  PollInv'
  BY <1>8, FaultInv
<1>9. CASE PageStep
  BY <1>9, PageStepInv
<1>10. CASE UNCHANGED vars
  BY <1>10 DEF vars, PollInv, TypeOK
<1> QED
  BY <1>1, <1>2, <1>3, <1>4, <1>5, <1>6, <1>7, <1>8, <1>9, <1>10
     DEF Next, Progress, Disturbance

(***************************************************************************)
(* The inductive invariant of the hook.                                    *)
(***************************************************************************)
THEOREM PollInvariance == Spec => []PollInv
  BY PollInitInv, PollNextInv, PTL DEF Spec

(***************************************************************************)
(* However many requests of one poll are under way, and in whatever order  *)
(* they end, the hook loads as long as it has nothing to show              *)
(* (use-poll.ts usePoll).                                                  *)
(***************************************************************************)
THEOREM LoadingStaysHonest == Spec => []LoadingIsHonest
<1>1. PollInv => LoadingIsHonest
  BY DEF PollInv, PollOK, Agrees, LoadingIsHonest
<1> QED
  BY <1>1, PollInvariance, PTL

-----------------------------------------------------------------------------
\* A step that puts something new on the screen ends a request that is wanted.
LEMMA NewOnScreen ==
  ASSUME PollInv, [Next]_vars, NEW p \in Polls,
         \/ poll'[p].data \notin {poll[p].data, None}
         \/ poll'[p].error \notin {poll[p].error, "none"}
  PROVE  \E s \in Slots :
           /\ reqs[p][s] # None /\ reqs'[p][s] = None /\ ~reqs[p][s].cancelled
           /\ poll'[p].data \notin {poll[p].data, None} =>
                reqs[p][s].stage = "body" /\ poll'[p].data = reqs[p][s].read
<1>1. /\ poll \in [Polls -> PollState]
      /\ reqs \in [Polls -> [Slots -> Request \cup {None}]]
  BY DEF PollInv, TypeOK
<1>2. \A o \in Polls : poll[o] \in PollState
  BY <1>1
<1>3. ASSUME NEW o \in Polls, NEW s \in Slots, NEW how,
             reqs[o][s] # None, how = "signal" => reqs[o][s].cancelled,
             Ends(o, s, how)
      PROVE  /\ o = p /\ reqs'[p][s] = None /\ ~reqs[p][s].cancelled
             /\ poll'[p].data \notin {poll[p].data, None} =>
                  reqs[p][s].stage = "body" /\ poll'[p].data = reqs[p][s].read
  <2> DEFINE new == Received(poll[o], reqs[o][s], Result(reqs[o][s], how))
  <2>1. poll' = [poll EXCEPT ![o] = new] /\ reqs' = [reqs EXCEPT ![o][s] = None]
    BY <1>3 DEF Ends
  <2>2. /\ reqs[o][s].cancelled => new = poll[o]
        /\ new.data \notin {poll[o].data, None} =>
             reqs[o][s].stage = "body" /\ new.data = reqs[o][s].read
    <3>1. reqs[o][s] \in Request
      BY <1>1, <1>3
    <3>2. Agrees(poll[o])
      BY DEF PollInv, PollOK
    <3> QED
      BY <1>2, <1>3, <3>1, <3>2, ReceivedTyped DEF Agrees
  <2> HIDE DEF new
  <2>3. o = p /\ ~reqs[o][s].cancelled /\ poll'[p] = new
    BY <1>1, <2>1, <2>2
  <2> QED
    BY <1>1, <2>1, <2>2, <2>3
<1>4. ASSUME \A o \in Polls :
               poll'[o].data \in {poll[o].data, None}
               /\ poll'[o].error \in {poll[o].error, "none"}
      PROVE  FALSE
  BY <1>4
<1>5. ASSUME Tick
      PROVE  FALSE
  <2>1. \A o \in Polls : \A n : [poll[o] EXCEPT !.next = n].data = poll[o].data
                                /\ [poll[o] EXCEPT !.next = n].error = poll[o].error
    BY <1>2 DEF PollState
  <2> QED
    BY <1>4, <1>5, <2>1 DEF Tick
<1>6. ASSUME NEW o \in Polls, Effect(o) \/ IntervalFires(o)
      PROVE  FALSE
  <2>1. PICK new : /\ poll' = [poll EXCEPT ![o] = new]
                   /\ new.data = poll[o].data /\ new.error = poll[o].error
    BY <1>1, <1>2, <1>6 DEF Effect, IntervalFires, PollState
  <2> QED
    BY <1>1, <1>4, <2>1
<1>7. ASSUME NEW o \in Polls, NEW s \in Slots,
             Respond(o, s) \/ UNCHANGED poll
      PROVE  FALSE
  BY <1>4, <1>7 DEF Respond
<1>8. ASSUME NEW ps \in SUBSET Polls, Refresh(ps) \/ Leave(ps) \/ Open(ps)
      PROVE  FALSE
  <2>1. \A o \in Polls : [poll[o] EXCEPT !.rerun = TRUE].data = poll[o].data
                         /\ [poll[o] EXCEPT !.rerun = TRUE].error = poll[o].error
    BY <1>2 DEF PollState
  <2>2. Mounted.data = None /\ Mounted.error = "none"
        /\ Unmounted.data = None /\ Unmounted.error = "none"
    BY DEF Mounted, Unmounted
  <2> QED
    BY <1>4, <1>8, <2>1, <2>2 DEF Refresh, Leave, Open
<1>9. ~(ServerMoves \/ VisibilityChange \/ PageStep \/ UNCHANGED vars)
  BY <1>4, <1>8 DEF ServerMoves, VisibilityChange, PageStep, vars
<1>10. ASSUME NEW o \in Polls, NEW s \in Slots,
              Complete(o, s) \/ TimesOut(o, s) \/ Aborted(o, s) \/ Fault(o, s)
       PROVE  \E how : /\ reqs[o][s] # None /\ Ends(o, s, how)
                       /\ how = "signal" => reqs[o][s].cancelled
  BY <1>4, <1>10 DEF Complete, TimesOut, Aborted, Fault
<1>11. \E o \in Polls : \E s \in Slots :
         Complete(o, s) \/ TimesOut(o, s) \/ Aborted(o, s) \/ Fault(o, s)
  <2>1. Progress \/ Disturbance
    BY <1>9 DEF Next
  <2>2. ~Tick /\ ~ServerMoves /\ ~VisibilityChange
    BY <1>5, <1>9
  <2>3. \A o \in Polls : /\ ~Effect(o) /\ ~IntervalFires(o)
                         /\ \A s \in Slots : ~Respond(o, s)
    BY <1>6, <1>7
  <2> QED
    BY <2>1, <2>2, <2>3, Zenon DEF Progress, Disturbance
<1> QED
  BY <1>3, <1>10, <1>11

(***************************************************************************)
(* What is put on the screen was read at most one timeout ago, although    *)
(* the answers of one poll may overtake each other (api.ts request).       *)
(***************************************************************************)
THEOREM ReadingsAreRecent == Spec => ReadingIsRecent
<1>1. ASSUME PollInv, [Next]_vars
      PROVE  [\A p \in Polls : poll'[p].data \notin {poll[p].data, None} =>
                \E s \in Slots : /\ reqs[p][s] # None /\ reqs'[p][s] = None
                                 /\ reqs[p][s].read = poll'[p].data
                                 /\ reqs[p][s].lag <= Timeout]_vars
  <2> SUFFICES ASSUME NEW p \in Polls, poll'[p].data \notin {poll[p].data, None}
               PROVE  \E s \in Slots : /\ reqs[p][s] # None /\ reqs'[p][s] = None
                                       /\ reqs[p][s].read = poll'[p].data
                                       /\ reqs[p][s].lag <= Timeout
    OBVIOUS
  <2>1. PICK s \in Slots : /\ reqs[p][s] # None /\ reqs'[p][s] = None
                           /\ poll'[p].data = reqs[p][s].read
    BY <1>1, NewOnScreen
  <2>2. reqs[p][s].lag \in Nat /\ reqs[p][s].age \in Nat
    <3>1. reqs[p][s] \in Request
      BY <1>1, <2>1 DEF PollInv, TypeOK
    <3> QED
      BY <3>1, StatesTyped DEF Request
  <2>3. reqs[p][s].lag <= Timeout
    BY <1>1, <2>1, <2>2, PollAssumption DEF PollInv, PollOK, InTime
  <2> QED
    BY <2>1, <2>3
<1> QED
  BY <1>1, PollInvariance, PTL DEF Spec, ReadingIsRecent

(***************************************************************************)
(* What a superseded effect asked for stays silent, whichever way it ends  *)
(* (use-poll.ts cancelled).                                                *)
(***************************************************************************)
THEOREM SupersededStaysSilent == Spec => SupersededIsSilent
<1>1. ASSUME PollInv, [Next]_vars
      PROVE  [\A p \in Polls :
                /\ poll'[p].data \notin {poll[p].data, None} =>
                     poll'[p].data >= poll[p].since
                /\ poll'[p].error \notin {poll[p].error, "none"} =>
                     \E s \in Slots : /\ reqs[p][s] # None /\ reqs'[p][s] = None
                                      /\ ~reqs[p][s].cancelled]_vars
  <2> SUFFICES ASSUME NEW p \in Polls
               PROVE  /\ poll'[p].data \notin {poll[p].data, None} =>
                           poll'[p].data >= poll[p].since
                      /\ poll'[p].error \notin {poll[p].error, "none"} =>
                           \E s \in Slots : /\ reqs[p][s] # None /\ reqs'[p][s] = None
                                            /\ ~reqs[p][s].cancelled
    OBVIOUS
  <2>1. ASSUME poll'[p].data \notin {poll[p].data, None}
        PROVE  poll'[p].data >= poll[p].since
    <3>1. PICK s \in Slots : /\ reqs[p][s] # None /\ ~reqs[p][s].cancelled
                             /\ reqs[p][s].stage = "body"
                             /\ poll'[p].data = reqs[p][s].read
      BY <1>1, <2>1, NewOnScreen
    <3> QED
      BY <1>1, <3>1 DEF PollInv, PollOK, SinceTheEffect
  <2>2. ASSUME poll'[p].error \notin {poll[p].error, "none"}
        PROVE  \E s \in Slots : /\ reqs[p][s] # None /\ reqs'[p][s] = None
                                /\ ~reqs[p][s].cancelled
    BY <1>1, <2>2, NewOnScreen
  <2> QED
    BY <2>1, <2>2
<1> QED
  BY <1>1, PollInvariance, PTL DEF Spec, SupersededIsSilent

-----------------------------------------------------------------------------
\* What is missing on the screen is asked for: the last reading is not older than
\* the effect, or a request that is still wanted is under way.
UpToDate(st) == st.data # None /\ st.data >= st.since
Wants(rs) == \E s \in Slots : rs[s] # None /\ ~rs[s].cancelled

AskingOK(st, rs, seen) ==
  /\ st.life = "mounted" => st.rerun
  /\ st.life = "polling" /\ ~st.rerun /\ seen /\ st.error = "none" =>
       UpToDate(st) \/ Wants(rs)

Asking == \A p \in Polls : AskingOK(poll[p], reqs[p], visible)

\* A visible tab asks, whatever was under way.
LEMMA AskedWants ==
  ASSUME NEW rs \in [Slots -> Request \cup {None}]
  PROVE  /\ Free(rs) # {} => Wants(Asked(rs, TRUE))
         /\ Free(rs) # {} => \A seen \in BOOLEAN : Wants(rs) => Wants(Asked(rs, seen))
         /\ CleanedUp(rs) \in [Slots -> Request \cup {None}]
         /\ Free(CleanedUp(rs)) = Free(rs)
<1>1. NewRequest \in Request /\ NewRequest.cancelled = FALSE /\ NewRequest # None
  <2>1. NewRequest \in Request /\ NewRequest.cancelled = FALSE
    BY StatesTyped DEF NewRequest
  <2> QED
    BY <2>1, NoneAssumption
<1>2. ASSUME Free(rs) # {}
      PROVE  /\ FreeSlot(rs) \in Slots /\ rs[FreeSlot(rs)] = None
             /\ Asked(rs, TRUE)[FreeSlot(rs)] = NewRequest
             /\ \A s \in Slots : s # FreeSlot(rs) => Asked(rs, TRUE)[s] = rs[s]
  <2>1. FreeSlot(rs) \in Slots /\ rs[FreeSlot(rs)] = None
    BY <1>2 DEF Free, FreeSlot
  <2> QED
    BY <2>1 DEF Asked
<1>3. Free(rs) # {} => Wants(Asked(rs, TRUE))
  BY <1>1, <1>2 DEF Wants
<1>4. Asked(rs, FALSE) = rs
  BY DEF Asked
<1>5. \A q \in Request : [q EXCEPT !.cancelled = TRUE] \in Request
  BY DEF Request
<1>6. /\ CleanedUp(rs) \in [Slots -> Request \cup {None}]
      /\ \A s \in Slots : CleanedUp(rs)[s] = None <=> rs[s] = None
  BY <1>5, NoneAssumption DEF CleanedUp
<1> QED
  BY <1>3, <1>4, <1>6 DEF Free

\* An answer that is taken brings something new enough, or an error.
LEMMA ReceivedAnswers ==
  ASSUME NEW st \in PollState, NEW q \in Request, NEW how, ~q.cancelled,
         how # "signal", SinceTheEffect(q, st.since), q # None
  PROVE  LET new == Received(st, q, Result(q, how))
         IN  new.error # "none" \/ (new.data # None /\ new.data >= st.since)
<1> DEFINE res == Result(q, how)
<1>1. CASE q.stage = "body" /\ res = Ok(q.read)
  <2>1. q.read # None /\ q.read >= st.since
    BY <1>1, StatesTyped DEF SinceTheEffect, Request
  <2>2. res.ok /\ res.data = q.read
    BY <1>1 DEF Ok
  <2> HIDE DEF res
  <2>3. Received(st, q, res) = [st EXCEPT !.data = q.read, !.error = "none",
                                          !.updatedAt = TRUE, !.loading = FALSE]
    BY <2>2 DEF Received
  <2>4. Received(st, q, res).data = q.read
    BY <2>3 DEF PollState
  <2> QED
    BY <2>1, <2>4 DEF res
<1>2. ASSUME NEW kind \in {"timeout", "network", "http", "parse"}, res = Fail(kind)
      PROVE  Received(st, q, res).error # "none"
  <2>1. ~res.ok /\ res.kind = kind /\ kind # "cancelled"
    BY <1>2 DEF Fail
  <2> HIDE DEF res
  <2>2. Received(st, q, res) = [st EXCEPT !.error = kind, !.loading = FALSE]
    BY <2>1, Zenon DEF Received
  <2> QED
    BY <2>2 DEF PollState
<1> HIDE DEF res
<1>3. CASE \E kind \in {"timeout", "network", "http", "parse"} : res = Fail(kind)
  BY <1>2, <1>3 DEF res
<1> QED
  BY <1>1, <1>3, ResultTyped DEF res

\* The end of one request.
LEMMA EndsAsking ==
  ASSUME PollInv, Asking, NEW p \in Polls, NEW s \in Slots, NEW how,
         reqs[p][s] # None, how = "signal" => reqs[p][s].cancelled,
         Ends(p, s, how), UNCHANGED visible
  PROVE  Asking'
<1> DEFINE q == reqs[p][s]
           new == Received(poll[p], q, Result(q, how))
<1>1. poll' = [poll EXCEPT ![p] = new] /\ reqs' = [reqs EXCEPT ![p][s] = None]
  BY DEF Ends
<1>2. /\ q \in Request /\ q # None /\ poll[p] \in PollState /\ Agrees(poll[p])
      /\ SinceTheEffect(q, poll[p].since)
  BY DEF PollInv, TypeOK, PollOK
<1>3. /\ new.since = poll[p].since /\ new.life = poll[p].life
      /\ new.rerun = poll[p].rerun
      /\ q.cancelled => new = poll[p]
  BY <1>2, ReceivedTyped DEF Agrees
<1>4. ~q.cancelled => new.error # "none" \/ (new.data # None /\ new.data >= poll[p].since)
  BY <1>2, ReceivedAnswers
<1> HIDE DEF new
<1>5. AskingOK(poll'[p], reqs'[p], visible')
  <2>1. poll'[p] = new /\ reqs'[p] = [reqs[p] EXCEPT ![s] = None]
    BY <1>1 DEF PollInv, TypeOK
  <2>2. AskingOK(poll[p], reqs[p], visible)
    BY DEF Asking
  <2>3. CASE q.cancelled
    <3>1. Wants(reqs[p]) => Wants([reqs[p] EXCEPT ![s] = None])
      BY <2>3 DEF Wants, PollInv, TypeOK
    <3> QED
      BY <1>3, <2>1, <2>2, <2>3, <3>1 DEF AskingOK, UpToDate
  <2>4. CASE ~q.cancelled
    BY <1>3, <1>4, <2>1, <2>2, <2>4 DEF AskingOK, UpToDate
  <2> QED
    BY <2>3, <2>4
<1>6. \A o \in Polls : o # p => AskingOK(poll'[o], reqs'[o], visible')
  BY <1>1 DEF Asking, PollInv, TypeOK
<1> QED
  BY <1>5, <1>6 DEF Asking

\* A request changes, and is as wanted as before.
LEMMA RequestAsking ==
  ASSUME PollInv, Asking, NEW p \in Polls, NEW s \in Slots, NEW q \in Request,
         reqs[p][s] # None, q.cancelled = reqs[p][s].cancelled,
         reqs' = [reqs EXCEPT ![p][s] = q], UNCHANGED <<visible, poll>>
  PROVE  Asking'
<1>1. ASSUME NEW o \in Polls
      PROVE  Wants(reqs[o]) => Wants(reqs'[o])
  BY NoneAssumption DEF Wants, PollInv, TypeOK
<1> QED
  BY <1>1 DEF Asking, AskingOK

\* The effect, the interval and the listener.
LEMMA AsksAsking ==
  ASSUME PollInv, Asking
  PROVE  /\ \A p \in Polls : Effect(p) \/ IntervalFires(p) => Asking'
         /\ VisibilityChange => Asking'
<1>1. \A p \in Polls : /\ poll[p] \in PollState /\ visible \in BOOLEAN
                       /\ reqs[p] \in [Slots -> Request \cup {None}]
  BY DEF PollInv, TypeOK
<1>2. ASSUME NEW p \in Polls, Effect(p)
      PROVE  Asking'
  <2> DEFINE new == [poll[p] EXCEPT !.life = "polling", !.rerun = FALSE,
                                    !.next = Interval[p], !.since = server]
             asked == Asked(CleanedUp(reqs[p]), visible)
  <2>1. /\ poll' = [poll EXCEPT ![p] = new] /\ reqs' = [reqs EXCEPT ![p] = asked]
        /\ visible' = visible /\ Free(reqs[p]) # {}
    BY <1>2 DEF Effect, PollInv, TypeOK
  <2>2. visible => Wants(asked)
    BY <1>1, <2>1, AskedWants
  <2>3. new.life = "polling"
    BY <1>1 DEF PollState
  <2> HIDE DEF new, asked
  <2>4. AskingOK(new, asked, visible)
    BY <2>2, <2>3 DEF AskingOK
  <2> QED
    BY <2>1, <2>4 DEF Asking, PollInv, TypeOK
<1>3. ASSUME NEW p \in Polls, IntervalFires(p)
      PROVE  Asking'
  <2> DEFINE new == [poll[p] EXCEPT !.next = Interval[p]]
             asked == Asked(reqs[p], visible)
  <2>1. /\ poll' = [poll EXCEPT ![p] = new] /\ reqs' = [reqs EXCEPT ![p] = asked]
        /\ visible' = visible /\ Free(reqs[p]) # {}
    BY <1>3 DEF IntervalFires, PollInv, TypeOK
  <2>2. Wants(reqs[p]) => Wants(asked)
    BY <1>1, <2>1, AskedWants
  <2>3. /\ new.life = poll[p].life /\ new.rerun = poll[p].rerun
        /\ new.error = poll[p].error /\ new.data = poll[p].data
        /\ new.since = poll[p].since
    BY <1>1 DEF PollState
  <2> HIDE DEF new, asked
  <2>4. AskingOK(new, asked, visible)
    BY <2>2, <2>3 DEF AskingOK, UpToDate, Asking
  <2> QED
    BY <2>1, <2>4 DEF Asking, PollInv, TypeOK
<1>4. ASSUME VisibilityChange, NEW p \in Polls
      PROVE  AskingOK(poll'[p], reqs'[p], visible')
  <2>1. /\ poll' = poll /\ visible' \in BOOLEAN /\ Free(reqs[p]) # {}
        /\ reqs'[p] = IF IsPolling(p) THEN Asked(reqs[p], visible') ELSE reqs[p]
    BY <1>1, <1>4 DEF VisibilityChange
  <2>2. IsPolling(p) /\ visible' => Wants(reqs'[p])
    BY <1>1, <2>1, AskedWants
  <2> QED
    BY <2>1, <2>2 DEF AskingOK, Asking, IsPolling
<1> QED
  BY <1>2, <1>3, <1>4 DEF Asking

\* The pages: a hook that was mounted or refreshed is to run.
LEMMA PagesAsking ==
  ASSUME PollInv, Asking, PageStep
  PROVE  Asking'
<1>1. PICK ps \in SUBSET Polls : Refresh(ps) \/ Leave(ps) \/ Open(ps)
  BY DEF PageStep
<1>2. visible' = visible /\ \A p \in Polls : poll[p] \in PollState
  BY DEF PageStep, PollInv, TypeOK
<1>3. /\ Mounted.life = "mounted" /\ Mounted.rerun
      /\ Unmounted.life = "unmounted"
  BY DEF Mounted, Unmounted
<1>4. \A p \in Polls : [poll[p] EXCEPT !.rerun = TRUE].rerun
  BY <1>2 DEF PollState
<1>5. ASSUME NEW p \in Polls
      PROVE  AskingOK(poll'[p], reqs'[p], visible')
  <2>1. AskingOK(poll[p], reqs[p], visible)
    BY DEF Asking
  <2>2. CASE Refresh(ps)
    BY <1>2, <1>4, <2>1, <2>2 DEF Refresh, AskingOK
  <2>3. CASE Leave(ps)
    BY <1>2, <1>3, <2>1, <2>3 DEF Leave, AskingOK
  <2>4. CASE Open(ps)
    BY <1>2, <1>3, <2>1, <2>4 DEF Open, AskingOK
  <2> QED
    BY <1>1, <2>2, <2>3, <2>4
<1> QED
  BY <1>5 DEF Asking

\* Time passes.
LEMMA TickAsking ==
  ASSUME PollInv, Asking, Tick
  PROVE  Asking'
<1> SUFFICES ASSUME NEW p \in Polls PROVE AskingOK(poll'[p], reqs'[p], visible')
  BY DEF Asking
<1>1. /\ poll[p] \in PollState /\ visible' = visible
      /\ reqs[p] \in [Slots -> Request \cup {None}]
      /\ poll'[p] = IF IsPolling(p) THEN [poll[p] EXCEPT !.next = @ - 1] ELSE poll[p]
      /\ reqs'[p] = [s \in Slots |-> Aged(reqs[p][s])]
  BY DEF Tick, PollInv, TypeOK
<1>2. /\ poll'[p].life = poll[p].life /\ poll'[p].rerun = poll[p].rerun
      /\ poll'[p].error = poll[p].error /\ poll'[p].data = poll[p].data
      /\ poll'[p].since = poll[p].since
  BY <1>1 DEF PollState
<1>3. \A q \in Request : Aged(q) # None /\ Aged(q).cancelled = q.cancelled
  <2>1. ASSUME NEW q \in Request
        PROVE  Aged(q) # None /\ Aged(q).cancelled = q.cancelled
    <3> DEFINE lag == IF q.stage = "body" THEN Older(q.lag) ELSE q.lag
               n == [q EXCEPT !.age = Older(q.age), !.lag = lag]
    <3>1. Aged(q) = n
      BY NoneAssumption DEF Aged
    <3>2. \A a \in Ages : Older(a) \in Ages
      BY PollAssumption DEF Older, Ages
    <3>3. n \in Request /\ n.cancelled = q.cancelled
      BY <3>2 DEF Request
    <3> HIDE DEF n
    <3> QED
      BY <3>1, <3>3, NoneAssumption
  <2> QED
    BY <2>1
<1>4. Wants(reqs[p]) => Wants(reqs'[p])
  BY <1>1, <1>3 DEF Wants
<1> QED
  BY <1>1, <1>2, <1>4 DEF Asking, AskingOK, UpToDate

(***************************************************************************)
(* What a visible table still lacks is asked for, as long as no error says *)
(* that it was asked for in vain (use-poll.ts run).                        *)
(***************************************************************************)
THEOREM MissingIsAskedFor == Spec => []Asking
<1>1. Init => Asking
  BY DEF Init, Mounted, Asking, AskingOK
<1>2. ASSUME PollInv, Asking, [Next]_vars
      PROVE  Asking'
  <2>1. CASE Tick
    BY <1>2, <2>1, TickAsking
  <2>2. CASE VisibilityChange \/ \E p \in Polls : Effect(p) \/ IntervalFires(p)
    BY <1>2, <2>2, AsksAsking
  <2>3. ASSUME NEW p \in Polls, NEW s \in Slots, Respond(p, s)
        PROVE  Asking'
    <3> DEFINE q == [reqs[p][s] EXCEPT !.stage = "body", !.read = server]
    <3>1. /\ reqs[p][s] # None /\ reqs[p][s] \in Request /\ server \in Versions
          /\ reqs' = [reqs EXCEPT ![p][s] = q] /\ UNCHANGED <<visible, poll>>
      BY <1>2, <2>3 DEF Respond, PollInv, TypeOK
    <3>2. q \in Request /\ q.cancelled = reqs[p][s].cancelled
      BY <3>1 DEF Request
    <3> HIDE DEF q
    <3> QED
      BY <1>2, <3>1, <3>2, RequestAsking
  <2>4. ASSUME NEW p \in Polls, NEW s \in Slots, Fault(p, s)
        PROVE  Asking'
    <3> DEFINE no == [reqs[p][s] EXCEPT !.stage = "refused"]
               slow == [reqs[p][s] EXCEPT !.late = TRUE]
    <3>1. reqs[p][s] # None /\ reqs[p][s] \in Request /\ visible' = visible
      BY <1>2, <2>4 DEF Fault, PollInv, TypeOK
    <3>2. /\ no \in Request /\ no.cancelled = reqs[p][s].cancelled
          /\ slow \in Request /\ slow.cancelled = reqs[p][s].cancelled
      BY <3>1 DEF Request
    <3>3. \/ reqs' = [reqs EXCEPT ![p][s] = no] /\ UNCHANGED poll
          \/ reqs' = [reqs EXCEPT ![p][s] = slow] /\ UNCHANGED poll
          \/ Ends(p, s, "broken")
      BY <1>2, <2>4 DEF Fault, PollInv, TypeOK
    <3> HIDE DEF no, slow
    <3>4. Ends(p, s, "broken") => Asking'
      BY <1>2, <3>1, EndsAsking
    <3> QED
      BY <1>2, <3>1, <3>2, <3>3, <3>4, RequestAsking
  <2>5. ASSUME NEW p \in Polls, NEW s \in Slots,
               Complete(p, s) \/ TimesOut(p, s) \/ Aborted(p, s)
        PROVE  Asking'
    BY <1>2, <2>5, EndsAsking DEF Complete, TimesOut, Aborted
  <2>6. CASE ServerMoves \/ UNCHANGED vars
    BY <1>2, <2>6 DEF ServerMoves, vars, Asking
  <2>7. CASE PageStep
    BY <1>2, <2>7, PagesAsking
  <2> QED
    BY <1>2, <2>1, <2>2, <2>3, <2>4, <2>5, <2>6, <2>7 DEF Next, Progress, Disturbance
<1> QED
  BY <1>1, <1>2, PollInvariance, PTL DEF Spec

-----------------------------------------------------------------------------
(* The page *)

\* What the form waits for: there is at most one such POST, and it is its own.
Wanted(k) == posts[k] # None /\ posts[k].awaited /\ posts[k].stage # "gone"

WantedIsOwn ==
  /\ \A k \in PostSlots : Wanted(k) =>
       page /\ form.submitting /\ form.draft = posts[k].draft
  /\ \A j, k \in PostSlots : Wanted(j) /\ Wanted(k) => j = k

\* A rule that was made is counted, and is part of the state.
MadeIsCounted ==
  \A k \in PostSlots : posts[k] # None =>
    /\ posts[k].draft <= drafts
    /\ posts[k].stage = "created" =>
         created[posts[k].draft] > 0 /\ posts[k].rule <= server

PostsOf(d) == {k \in PostSlots : posts[k] # None /\ posts[k].draft = d}

\* What was not reported as failed was submitted at most once.
OneAttempt ==
  \A d \in Drafts \ failed :
    /\ created[d] <= 1
    /\ \A j, k \in PostsOf(d) : j = k
    /\ \A k \in PostsOf(d) : posts[k].stage \in {"sent", "gone"} => created[d] = 0
    /\ form.draft = d /\ ~form.submitting => PostsOf(d) = {} /\ created[d] = 0

DraftsInOrder ==
  /\ form.draft <= drafts
  /\ \A d \in Drafts : d > drafts => created[d] = 0

\* The hooks and the form live and go with the page.
PageOwns ==
  /\ page => \A p \in Polls : IsMounted(p)
  /\ ~page => form = EmptyForm

\* The polls that a new rule changes ask again, and are then up to date with it.
AsksAgain ==
  /\ form.success <= server
  /\ form.success # 0 =>
       \A p \in Polls \cap {"rules", "stats"} :
         poll[p].rerun \/ form.success <= poll[p].since

DashInv ==
  /\ PollInv /\ DashboardTypeOK
  /\ WantedIsOwn /\ MadeIsCounted /\ OneAttempt /\ DraftsInOrder
  /\ PageOwns /\ AsksAgain

-----------------------------------------------------------------------------
\* A step of the page is one of the hooks, with the backend's.
LEMMA DashboardSteps ==
  ASSUME PollInv, [DashboardNext]_dashboardVars
  PROVE  [Next]_vars
<1>1. /\ poll \in [Polls -> PollState] /\ server \in Nat /\ left \in Nat
      /\ server \in Versions
  BY StatesTyped, PollAssumption DEF PollInv, TypeOK
<1>2. ASSUME poll' = poll, reqs' = reqs, visible' = visible,
             server' \in {server, server + 1} \cap Versions, left' \in 0 .. left
      PROVE  PageStep
  <2>1. Refresh({})
    BY <1>1, <1>2 DEF Refresh
  <2> QED
    BY <1>2, <2>1 DEF PageStep
<1>3. CASE PollsGoOn \/ (Disturbance /\ UNCHANGED formVars)
  BY <1>3 DEF PollsGoOn, Next
<1>4. CASE Type
  BY <1>1, <1>2, <1>4 DEF Type, Spend, Next
<1>5. ASSUME NEW k \in PostSlots, Insert(k)
      PROVE  Next
  BY <1>1, <1>2, <1>5, PollAssumption DEF Insert, Next, Versions
<1>6. ASSUME NEW k \in PostSlots, Succeed(k)
      PROVE  [Next]_vars
  <2>1. CASE posts[k].awaited
    <3>1. Refresh({"rules", "stats"} \cap Polls)
          /\ UNCHANGED <<server, visible, left>>
      BY <1>6, <2>1 DEF Succeed, OnCreated
    <3>2. PageStep
      BY <1>1, <3>1 DEF PageStep
    <3> QED
      BY <3>2 DEF Next
  <2>2. CASE ~posts[k].awaited
    BY <1>6, <2>2 DEF Succeed, vars
  <2> QED
    BY <2>1, <2>2
<1>7. CASE LeavePage
  <2>1. PageStep
    BY <1>1, <1>7 DEF LeavePage, Spend, PageStep
  <2> QED
    BY <2>1 DEF Next
<1>8. CASE OpenPage
  <2>1. PageStep
    BY <1>1, <1>8 DEF OpenPage, PageStep
  <2> QED
    BY <2>1 DEF Next
<1>9. CASE \/ Reject \/ UNCHANGED dashboardVars
           \/ \E k \in PostSlots : Submit(k) \/ Refuse(k) \/ FailPost(k)
  BY <1>9 DEF Reject, Submit, Refuse, FailPost, dashboardVars, vars
<1> QED
  BY <1>3, <1>4, <1>5, <1>6, <1>7, <1>8, <1>9 DEF DashboardNext, Answer

(***************************************************************************)
(* The dashboard uses its hooks as UsePoll says a page may, whatever its   *)
(* form does (page.tsx DashboardPage).                                     *)
(***************************************************************************)
THEOREM DashboardUsesPolls == DashboardSpec => Spec
<1>1. DashboardInit => Init
  BY DEF DashboardInit
<1>2. DashboardInit => PollInv
  BY <1>1, PollInitInv
<1>3. PollInv /\ [DashboardNext]_dashboardVars => [Next]_vars
  BY DashboardSteps
<1>4. PollInv /\ [DashboardNext]_dashboardVars => PollInv'
  BY <1>3, PollNextInv
<1> QED
  BY <1>1, <1>2, <1>3, <1>4, PTL DEF DashboardSpec, Spec

\* What moves by itself leaves the pages' polls mounted, and an effect that has
\* run has asked the backend as it is.
LEMMA HooksMove ==
  ASSUME PollInv, Progress \/ Disturbance, NEW p \in Polls
  PROVE  /\ server \in Nat /\ server <= server'
         /\ IsMounted(p) => IsMounted(p)'
         /\ \/ poll'[p].rerun = poll[p].rerun /\ poll'[p].since = poll[p].since
            \/ poll'[p].since = server
<1>1. /\ poll \in [Polls -> PollState] /\ server \in Nat
      /\ reqs \in [Polls -> [Slots -> Request \cup {None}]]
  BY StatesTyped DEF PollInv, TypeOK
<1>2. server <= server'
  <2>1. Progress => server' = server
    BY DEF Progress, Tick, Effect, IntervalFires, Respond, Complete, TimesOut, Aborted
  <2>2. Disturbance => server' = server \/ server' = server + 1
    BY DEF Disturbance, ServerMoves, VisibilityChange, Fault
  <2> QED
    BY <1>1, <2>1, <2>2
<1>3. ASSUME NEW o \in Polls, NEW new \in PollState,
             new.life = poll[o].life, new.rerun = poll[o].rerun,
             new.since = poll[o].since, poll' = [poll EXCEPT ![o] = new]
      PROVE  /\ IsMounted(p) => IsMounted(p)'
             /\ poll'[p].rerun = poll[p].rerun /\ poll'[p].since = poll[p].since
  BY <1>1, <1>3 DEF IsMounted
<1>4. CASE Tick
  <2>1. \A n : /\ [poll[p] EXCEPT !.next = n].life = poll[p].life
               /\ [poll[p] EXCEPT !.next = n].rerun = poll[p].rerun
               /\ [poll[p] EXCEPT !.next = n].since = poll[p].since
    BY <1>1 DEF PollState
  <2> QED
    BY <1>1, <1>2, <1>4, <2>1 DEF Tick, IsMounted
<1>5. ASSUME NEW o \in Polls, Effect(o)
      PROVE  /\ IsMounted(p) => IsMounted(p)'
             /\ \/ poll'[p].rerun = poll[p].rerun /\ poll'[p].since = poll[p].since
                \/ poll'[p].since = server
  <2> DEFINE new == [poll[o] EXCEPT !.life = "polling", !.rerun = FALSE,
                                    !.next = Interval[o], !.since = server]
  <2>1. poll' = [poll EXCEPT ![o] = new]
    BY <1>5 DEF Effect
  <2>2. new.life = "polling" /\ new.since = server
    BY <1>1 DEF PollState
  <2> HIDE DEF new
  <2> QED
    BY <1>1, <2>1, <2>2 DEF IsMounted
<1>6. ASSUME NEW o \in Polls, IntervalFires(o)
      PROVE  /\ IsMounted(p) => IsMounted(p)'
             /\ poll'[p].rerun = poll[p].rerun /\ poll'[p].since = poll[p].since
  <2> DEFINE new == [poll[o] EXCEPT !.next = Interval[o]]
  <2>1. poll' = [poll EXCEPT ![o] = new]
    BY <1>6 DEF IntervalFires
  <2>2. new \in PollState /\ new.life = poll[o].life /\ new.rerun = poll[o].rerun
        /\ new.since = poll[o].since
    BY <1>1, PollAssumption DEF PollState
  <2> HIDE DEF new
  <2> QED
    BY <1>3, <2>1, <2>2
<1>7. ASSUME NEW o \in Polls, NEW s \in Slots, NEW how, reqs[o][s] # None,
             how = "signal" => reqs[o][s].cancelled, Ends(o, s, how)
      PROVE  /\ IsMounted(p) => IsMounted(p)'
             /\ poll'[p].rerun = poll[p].rerun /\ poll'[p].since = poll[p].since
  <2> DEFINE new == Received(poll[o], reqs[o][s], Result(reqs[o][s], how))
  <2>1. poll' = [poll EXCEPT ![o] = new]
    BY <1>7 DEF Ends
  <2>2. reqs[o][s] \in Request /\ poll[o] \in PollState /\ Agrees(poll[o])
    BY <1>1, <1>7 DEF PollInv, PollOK
  <2>3. new \in PollState /\ new.life = poll[o].life /\ new.rerun = poll[o].rerun
        /\ new.since = poll[o].since
    BY <1>7, <2>2, ReceivedTyped DEF Agrees
  <2> HIDE DEF new
  <2> QED
    BY <1>3, <2>1, <2>3
<1>8. ASSUME NEW o \in Polls, NEW s \in Slots,
             Complete(o, s) \/ TimesOut(o, s) \/ Aborted(o, s) \/ Fault(o, s)
      PROVE  \/ UNCHANGED poll
             \/ \E how : /\ reqs[o][s] # None /\ Ends(o, s, how)
                         /\ how = "signal" => reqs[o][s].cancelled
  BY <1>8 DEF Complete, TimesOut, Aborted, Fault
<1>9. CASE UNCHANGED poll
  BY <1>1, <1>2, <1>9 DEF IsMounted
<1>10. CASE \E o \in Polls : \E s \in Slots :
              Complete(o, s) \/ TimesOut(o, s) \/ Aborted(o, s) \/ Fault(o, s)
  BY <1>1, <1>2, <1>7, <1>8, <1>9, <1>10
<1>11. CASE \E o \in Polls : Effect(o) \/ IntervalFires(o)
  BY <1>1, <1>2, <1>5, <1>6, <1>11
<1>12. CASE ServerMoves \/ VisibilityChange
            \/ \E o \in Polls : \E s \in Slots : Respond(o, s)
  BY <1>9, <1>12 DEF ServerMoves, VisibilityChange, Respond
<1> QED
  BY <1>4, <1>10, <1>11, <1>12, <1>1, <1>2 DEF Progress, Disturbance
-----------------------------------------------------------------------------
\* The types of what the form works with.
LEMMA FormTyped ==
  ASSUME DashboardTypeOK
  PROVE  /\ server \in Nat /\ 0 \in Versions /\ drafts \in Nat
         /\ form.draft \in Nat /\ form.success \in Nat
         /\ form.draft = NoDraft \/ form.draft \in Drafts
         /\ Drafts \subseteq Nat \ {0}
         /\ \A d \in Drafts : created[d] \in Nat
         /\ \A k \in PostSlots : posts[k] # None =>
              /\ posts[k] \in Post /\ posts[k].draft \in Drafts
              /\ posts[k].rule \in Nat
              /\ posts[k].stage \in {"sent", "created", "refused", "gone"}
              /\ posts[k].awaited \in BOOLEAN
<1>1. Drafts \subseteq Nat \ {0} /\ 0 .. MaxDrafts \subseteq Nat
  BY DashboardAssumption DEF Drafts
<1>2. form.draft \in Drafts \cup {NoDraft} /\ form.success \in Versions
  BY DEF DashboardTypeOK, Form
<1>3. \A q \in Post : q.draft \in Drafts /\ q.rule \in Versions /\ q.awaited \in BOOLEAN
        /\ q.stage \in {"sent", "created", "refused", "gone"}
  BY DEF Post
<1>4. \A k \in PostSlots : posts[k] # None => posts[k] \in Post
  BY DEF DashboardTypeOK
<1> QED
  BY <1>1, <1>2, <1>3, <1>4, StatesTyped DEF DashboardTypeOK, TypeOK, NoDraft

\* The dashboard opens in the invariant.
LEMMA DashInitInv == DashboardInit => DashInv
<1> SUFFICES ASSUME DashboardInit PROVE DashInv
  OBVIOUS
<1>1. PollInv
  BY PollInitInv DEF DashboardInit
<1>2. EmptyForm \in Form /\ EmptyForm.draft = 0 /\ EmptyForm.success = 0
      /\ ~EmptyForm.submitting
  BY StatesTyped DEF EmptyForm, Form, NoDraft
<1>3. DashboardTypeOK
  BY <1>1, <1>2, DashboardAssumption DEF DashboardInit, DashboardTypeOK, PollInv
<1>4. WantedIsOwn /\ MadeIsCounted /\ OneAttempt /\ DraftsInOrder
  BY <1>2, DashboardAssumption
     DEF DashboardInit, WantedIsOwn, Wanted, MadeIsCounted, OneAttempt, PostsOf,
         DraftsInOrder, Drafts
<1>5. PageOwns /\ AsksAgain
  BY <1>2, StatesTyped DEF DashboardInit, PageOwns, AsksAgain, Init, IsMounted, Mounted,
                           PollInv, TypeOK
<1> QED
  BY <1>1, <1>3, <1>4, <1>5 DEF DashInv

\* What a step of the hooks leaves alone, and the rest of the invariant.
LEMMA HooksInv ==
  ASSUME DashInv, Progress \/ Disturbance, UNCHANGED formVars
  PROVE  DashInv'
<1>1. PollInv'
  <2>1. [Next]_vars
    BY DEF Next
  <2> QED
    BY <2>1, PollNextInv DEF DashInv
<1>2. DashboardTypeOK'
  BY <1>1 DEF DashInv, DashboardTypeOK, PollInv, formVars
<1>3. \A p \in Polls :
        /\ server \in Nat /\ server <= server'
        /\ IsMounted(p) => IsMounted(p)'
        /\ \/ poll'[p].rerun = poll[p].rerun /\ poll'[p].since = poll[p].since
           \/ poll'[p].since = server
  BY HooksMove DEF DashInv
<1>4. server \in Nat /\ server' \in Nat /\ server <= server'
  <2>1. server' \in {server, server + 1}
    BY DEF Progress, Disturbance, Tick, Effect, IntervalFires, Respond, Complete,
           TimesOut, Aborted, ServerMoves, VisibilityChange, Fault
  <2> QED
    BY <2>1, FormTyped DEF DashInv
<1>5. WantedIsOwn' /\ OneAttempt' /\ DraftsInOrder'
  BY DEF DashInv, WantedIsOwn, Wanted, OneAttempt, PostsOf, DraftsInOrder, formVars
<1>6. MadeIsCounted'
  BY <1>4, FormTyped DEF DashInv, MadeIsCounted, formVars
<1>7. PageOwns'
  BY <1>3 DEF DashInv, PageOwns, formVars
<1>8. AsksAgain'
  BY <1>3, <1>4, FormTyped DEF DashInv, AsksAgain, formVars
<1> QED
  BY <1>1, <1>2, <1>5, <1>6, <1>7, <1>8 DEF DashInv
-----------------------------------------------------------------------------
\* A text that was never typed before has no POST and no rule; fields that are
\* emptied ask for nothing.
LEMMA TypeInv ==
  ASSUME DashInv, PollInv', Type
  PROVE  DashInv'
<1> DEFINE text == IF drafts' = drafts THEN NoDraft ELSE drafts + 1
           new == [form EXCEPT !.draft = text]
<1>1. /\ page /\ ~form.submitting
      /\ \/ drafts < MaxDrafts /\ drafts' = drafts + 1
         \/ drafts' = drafts
      /\ form' = new
      /\ UNCHANGED <<server, visible, poll, reqs, page, posts, created, failed>>
  BY FormTyped DEF Type, DashInv
<1>2. /\ drafts \in Nat /\ drafts' \in 0 .. MaxDrafts /\ drafts <= drafts'
      /\ \/ text = NoDraft
         \/ text = drafts' /\ text = drafts + 1 /\ text \in Drafts
  <2>1. drafts \in Nat /\ drafts <= MaxDrafts /\ MaxDrafts \in Nat
    BY DashboardAssumption DEF DashInv, DashboardTypeOK
  <2>2. CASE drafts < MaxDrafts /\ drafts' = drafts + 1
    <3>1. text = drafts + 1
      BY <2>1, <2>2
    <3> HIDE DEF text
    <3> QED
      BY <2>1, <2>2, <3>1 DEF Drafts
  <2>3. CASE drafts' = drafts
    BY <2>1, <2>3
  <2> QED
    BY <1>1, <2>2, <2>3
<1>3. /\ new \in Form /\ new.draft = text /\ new.submitting = form.submitting
      /\ new.success = form.success
  BY <1>2 DEF DashInv, DashboardTypeOK, Form
<1> HIDE DEF new, text
<1>4. DashboardTypeOK'
  BY <1>1, <1>2, <1>3 DEF DashInv, DashboardTypeOK, PollInv
<1>5. \A k \in PostSlots : posts[k] # None => posts[k].draft # drafts + 1
  BY <1>2, FormTyped DEF DashInv, MadeIsCounted
<1>6. WantedIsOwn'
  BY <1>1 DEF DashInv, WantedIsOwn, Wanted
<1>7. MadeIsCounted' /\ DraftsInOrder'
  <2>1. \A d \in Drafts : d \in Nat
    BY DEF Drafts
  <2>2. text \in Nat /\ text <= drafts'
    BY <1>2, <2>1 DEF NoDraft
  <2>3. drafts' \in Nat /\ drafts <= drafts' /\ drafts \in Nat
    BY <1>2, DashboardAssumption
  <2>4. \A k \in PostSlots : posts[k] # None => posts[k].draft \in Nat
    BY <2>1, FormTyped DEF DashInv
  <2>5. MadeIsCounted'
    BY <1>1, <2>3, <2>4 DEF DashInv, MadeIsCounted
  <2>6. DraftsInOrder'
    BY <1>1, <1>3, <2>1, <2>2, <2>3 DEF DashInv, DraftsInOrder
  <2> QED
    BY <2>5, <2>6
<1>8. OneAttempt'
  <2>1. text # NoDraft => PostsOf(text) = {} /\ created[text] = 0
    BY <1>2, <1>5 DEF DashInv, DraftsInOrder, PostsOf
  <2>2. \A d \in Drafts : PostsOf(d)' = PostsOf(d)
    BY <1>1 DEF PostsOf
  <2>3. \A d \in Drafts : d # NoDraft
    BY DEF Drafts, NoDraft
  <2> QED
    BY <1>1, <1>3, <2>1, <2>2, <2>3 DEF DashInv, OneAttempt, PostsOf
<1>9. PageOwns' /\ AsksAgain'
  BY <1>1, <1>3 DEF DashInv, PageOwns, AsksAgain, IsMounted
<1> QED
  BY <1>4, <1>6, <1>7, <1>8, <1>9 DEF DashInv

\* A refused rule leaves the draft to be corrected and adds no row.
LEMMA RejectInv ==
  ASSUME DashInv, PollInv', Reject
  PROVE  DashInv'
<1> DEFINE new == [form EXCEPT !.serverError = FALSE, !.success = 0]
<1>1. /\ page /\ form' = new /\ UNCHANGED <<vars, page, drafts, posts, created, failed>>
  BY DEF Reject
<1>2. /\ new \in Form /\ new.draft = form.draft /\ new.submitting = form.submitting
      /\ new.success = 0
  BY StatesTyped DEF DashInv, DashboardTypeOK, Form
<1> HIDE DEF new
<1>3. DashboardTypeOK'
  BY <1>1, <1>2 DEF DashInv, DashboardTypeOK, PollInv
<1>4. WantedIsOwn' /\ MadeIsCounted' /\ DraftsInOrder' /\ OneAttempt'
  BY <1>1, <1>2 DEF DashInv, WantedIsOwn, Wanted, MadeIsCounted, DraftsInOrder,
                    OneAttempt, PostsOf, vars
<1>5. PageOwns' /\ AsksAgain'
  BY <1>1, <1>2, FormTyped DEF DashInv, PageOwns, AsksAgain, IsMounted, vars
<1> QED
  BY <1>3, <1>4, <1>5 DEF DashInv

\* Nothing is waited for when the button is there to be pressed.
LEMMA SubmitInv ==
  ASSUME DashInv, PollInv', NEW k \in PostSlots, Submit(k)
  PROVE  DashInv'
<1> DEFINE new == [form EXCEPT !.serverError = FALSE, !.success = 0,
                               !.submitting = TRUE]
           q == [stage |-> "sent", draft |-> form.draft, awaited |-> TRUE, rule |-> 0]
<1>1. /\ page /\ ~form.submitting /\ form.draft # NoDraft /\ posts[k] = None
      /\ form' = new /\ posts' = [posts EXCEPT ![k] = q]
      /\ UNCHANGED <<vars, page, drafts, created, failed>>
  BY DEF Submit, FreePosts
<1>2. form.draft \in Drafts
  BY <1>1, FormTyped DEF DashInv
<1>3. /\ new \in Form /\ new.draft = form.draft /\ new.submitting /\ new.success = 0
  BY StatesTyped DEF DashInv, DashboardTypeOK, Form
<1>4. q \in Post /\ q.draft = form.draft /\ q.stage = "sent" /\ q.awaited
  BY <1>2, StatesTyped DEF Post
<1> HIDE DEF new, q
<1>5. DashboardTypeOK'
  BY <1>1, <1>3, <1>4 DEF DashInv, DashboardTypeOK, PollInv
<1>6. \A j \in PostSlots : posts'[j] = IF j = k THEN q ELSE posts[j]
  BY <1>1 DEF DashInv, DashboardTypeOK
<1>7. \A j \in PostSlots : j # k => ~Wanted(j)'
  BY <1>1, <1>6 DEF DashInv, WantedIsOwn, Wanted
<1>8. WantedIsOwn'
  BY <1>1, <1>3, <1>4, <1>6, <1>7 DEF WantedIsOwn, Wanted
<1>9. MadeIsCounted' /\ DraftsInOrder'
  BY <1>1, <1>3, <1>4, <1>6 DEF DashInv, MadeIsCounted, DraftsInOrder, vars
<1>10. OneAttempt'
  <2>1. ASSUME NEW d \in Drafts \ failed, d # form.draft
        PROVE  PostsOf(d)' = PostsOf(d)
    BY <1>1, <1>4, <1>6, <2>1 DEF PostsOf
  <2>2. form.draft \notin failed => PostsOf(form.draft) = {} /\ created[form.draft] = 0
    BY <1>1, <1>2 DEF DashInv, OneAttempt
  <2>3. \A d \in Drafts \ failed : d = form.draft => PostsOf(d)' \subseteq {k}
    BY <1>1, <1>6, <2>2 DEF PostsOf
  <2>4. \A d \in Drafts : \A j \in PostsOf(d)' : j # k => j \in PostsOf(d) /\ posts'[j] = posts[j]
    BY <1>6 DEF PostsOf
  <2>5. ASSUME NEW d \in Drafts \ failed
        PROVE  /\ created[d] <= 1
               /\ \A i, j \in PostsOf(d)' : i = j
               /\ \A j \in PostsOf(d)' : posts'[j].stage \in {"sent", "gone"} => created[d] = 0
    <3>1. CASE d = form.draft
      BY <2>2, <2>3, <3>1
    <3>2. CASE d # form.draft
      <4>1. PostsOf(d)' = PostsOf(d) /\ k \notin PostsOf(d)
        BY <1>1, <2>1, <3>2 DEF PostsOf
      <4> QED
        BY <2>4, <4>1 DEF DashInv, OneAttempt
    <3> QED
      BY <3>1, <3>2
  <2> QED
    BY <1>1, <1>3, <2>5 DEF OneAttempt
<1>11. PageOwns' /\ AsksAgain'
  BY <1>1, <1>3, FormTyped DEF DashInv, PageOwns, AsksAgain, IsMounted, vars
<1> QED
  BY <1>5, <1>8, <1>9, <1>10, <1>11 DEF DashInv
\* The first rule of a text is made while its POST is under way.
LEMMA InsertInv ==
  ASSUME DashInv, PollInv', NEW k \in PostSlots, Insert(k)
  PROVE  DashInv'
<1> DEFINE q == posts[k]
           new == IF q.stage = "gone" THEN None
                  ELSE [q EXCEPT !.stage = "created", !.rule = server']
<1>1. /\ q # None /\ q.stage \in {"sent", "gone"} /\ server' = server + 1
      /\ created' = [created EXCEPT ![q.draft] = @ + 1]
      /\ posts' = [posts EXCEPT ![k] = new]
      /\ UNCHANGED <<visible, poll, reqs, left, page, form, drafts, failed>>
  BY DEF Insert
<1>2. q \in Post /\ q.draft \in Drafts /\ created[q.draft] \in Nat /\ server \in Nat
  BY <1>1, FormTyped DEF DashInv
<1>3. server' \in Versions
  BY DEF PollInv, TypeOK
<1>4. /\ new # None => new \in Post /\ new.draft = q.draft /\ new.awaited = q.awaited
                       /\ new.stage = "created" /\ new.rule = server' /\ q.stage # "gone"
      /\ new = None \/ new \in Post
  BY <1>2, <1>3 DEF Post
<1> HIDE DEF new
<1>5. \A j \in PostSlots : posts'[j] = IF j = k THEN new ELSE posts[j]
  BY <1>1 DEF DashInv, DashboardTypeOK
<1>6. \A d \in Drafts : created'[d] = IF d = q.draft THEN created[d] + 1 ELSE created[d]
  BY <1>1 DEF DashInv, DashboardTypeOK
<1>7. DashboardTypeOK'
  <2>1. created' \in [Drafts -> Nat]
    BY <1>1, <1>2 DEF DashInv, DashboardTypeOK
  <2>2. posts' \in [PostSlots -> Post \cup {None}]
    BY <1>1, <1>4 DEF DashInv, DashboardTypeOK
  <2> QED
    BY <1>1, <2>1, <2>2 DEF DashInv, DashboardTypeOK, PollInv
<1>8. \A j \in PostSlots : Wanted(j)' => Wanted(j) /\ posts'[j].draft = posts[j].draft
  BY <1>1, <1>4, <1>5 DEF Wanted
<1>9. WantedIsOwn'
  BY <1>1, <1>8 DEF DashInv, WantedIsOwn
<1>10. MadeIsCounted'
  <2> SUFFICES ASSUME NEW j \in PostSlots, posts'[j] # None
               PROVE  /\ posts'[j].draft <= drafts
                      /\ posts'[j].stage = "created" =>
                           created'[posts'[j].draft] > 0 /\ posts'[j].rule <= server'
    BY <1>1 DEF MadeIsCounted
  <2>1. CASE j = k
    BY <1>1, <1>2, <1>3, <1>4, <1>5, <1>6, <2>1, FormTyped DEF DashInv, MadeIsCounted
  <2>2. CASE j # k
    BY <1>1, <1>2, <1>5, <1>6, <2>2, FormTyped DEF DashInv, MadeIsCounted
  <2> QED
    BY <2>1, <2>2
<1>11. DraftsInOrder'
  <2>1. q.draft <= drafts
    BY <1>1 DEF DashInv, MadeIsCounted
  <2>2. q.draft \in Nat /\ drafts \in Nat
    BY <1>2, FormTyped DEF DashInv
  <2> QED
    BY <1>1, <1>2, <1>6, <2>1, <2>2, FormTyped DEF DashInv, DraftsInOrder
<1>12. OneAttempt'
  <2> SUFFICES ASSUME NEW d \in Drafts \ failed
               PROVE  /\ created'[d] <= 1
                      /\ \A i, j \in PostsOf(d)' : i = j
                      /\ \A j \in PostsOf(d)' :
                           posts'[j].stage \in {"sent", "gone"} => created'[d] = 0
                      /\ form.draft = d /\ ~form.submitting =>
                           PostsOf(d)' = {} /\ created'[d] = 0
    BY <1>1 DEF OneAttempt
  <2>1. \A j \in PostsOf(d)' : j \in PostsOf(d) /\ (j # k => posts'[j] = posts[j])
    BY <1>1, <1>4, <1>5 DEF PostsOf
  <2>2. CASE d = q.draft
    <3>1. k \in PostsOf(d)
      BY <1>1, <2>2 DEF PostsOf
    <3>2. created[d] = 0 /\ \A j \in PostsOf(d) : j = k
      BY <1>1, <3>1 DEF DashInv, OneAttempt
    <3>3. ~(form.draft = d /\ ~form.submitting)
      BY <3>1 DEF DashInv, OneAttempt
    <3>4. \A j \in PostsOf(d)' : posts'[j].stage = "created"
      BY <1>4, <1>5, <2>1, <3>2 DEF PostsOf
    <3> QED
      BY <1>6, <2>1, <2>2, <3>2, <3>3, <3>4
  <2>3. CASE d # q.draft
    <3>1. k \notin PostsOf(d)
      BY <2>3 DEF PostsOf
    <3> QED
      BY <1>6, <2>1, <2>3, <3>1 DEF DashInv, OneAttempt
  <2> QED
    BY <2>2, <2>3
<1>13. PageOwns' /\ AsksAgain'
  <2>1. form.success <= server'
    BY <1>1, <1>2, FormTyped DEF DashInv, AsksAgain
  <2> QED
    BY <1>1, <2>1 DEF DashInv, PageOwns, AsksAgain, IsMounted
<1> QED
  BY <1>7, <1>9, <1>10, <1>11, <1>12, <1>13 DEF DashInv

\* A POST that is refused, or is gone and then lost.
LEMMA RefuseInv ==
  ASSUME DashInv, PollInv', NEW k \in PostSlots, Refuse(k)
  PROVE  DashInv'
<1> DEFINE q == posts[k]
           new == IF q.stage = "gone" THEN None ELSE [q EXCEPT !.stage = "refused"]
<1>1. /\ q # None /\ q.stage \in {"sent", "gone"}
      /\ posts' = [posts EXCEPT ![k] = new]
      /\ UNCHANGED <<vars, page, form, drafts, created, failed>>
  BY DEF Refuse
<1>2. q \in Post
  BY <1>1, FormTyped DEF DashInv
<1>3. /\ new # None => new \in Post /\ new.draft = q.draft /\ new.awaited = q.awaited
                       /\ new.stage = "refused" /\ q.stage # "gone"
      /\ new = None \/ new \in Post
  BY <1>2 DEF Post
<1> HIDE DEF new
<1>4. \A j \in PostSlots : posts'[j] = IF j = k THEN new ELSE posts[j]
  BY <1>1 DEF DashInv, DashboardTypeOK
<1>5. DashboardTypeOK'
  BY <1>1, <1>3 DEF DashInv, DashboardTypeOK, PollInv
<1>6. \A j \in PostSlots : Wanted(j)' => Wanted(j) /\ posts'[j].draft = posts[j].draft
  BY <1>1, <1>3, <1>4 DEF Wanted
<1>7. WantedIsOwn'
  BY <1>1, <1>6 DEF DashInv, WantedIsOwn
<1>8. MadeIsCounted' /\ DraftsInOrder'
  BY <1>1, <1>3, <1>4 DEF DashInv, MadeIsCounted, DraftsInOrder, vars
<1>9. OneAttempt'
  <2>1. \A d \in Drafts : \A j \in PostsOf(d)' :
          j \in PostsOf(d) /\ (j # k => posts'[j] = posts[j])
    BY <1>1, <1>3, <1>4 DEF PostsOf
  <2>2. \A d \in Drafts : \A j \in PostsOf(d)' :
          posts'[j].stage \in {"sent", "gone"} => posts[j].stage \in {"sent", "gone"}
    BY <1>3, <1>4, <2>1 DEF PostsOf
  <2>3. \A d \in Drafts : PostsOf(d) = {} => PostsOf(d)' = {}
    BY <2>1
  <2> QED
    BY <1>1, <2>1, <2>2, <2>3 DEF DashInv, OneAttempt
<1>10. PageOwns' /\ AsksAgain'
  BY <1>1 DEF DashInv, PageOwns, AsksAgain, IsMounted, vars
<1> QED
  BY <1>5, <1>7, <1>8, <1>9, <1>10 DEF DashInv
\* The form gives its text up, and the polls that the rule changes ask again.
LEMMA SucceedInv ==
  ASSUME DashInv, PollInv', NEW k \in PostSlots, Succeed(k)
  PROVE  DashInv'
<1> DEFINE q == posts[k]
<1>1. /\ q # None /\ q.stage = "created"
      /\ posts' = [posts EXCEPT ![k] = None]
      /\ UNCHANGED <<server, visible, left, page, drafts, created, failed>>
  BY DEF Succeed
<1>2. \A j \in PostSlots : posts'[j] = IF j = k THEN None ELSE posts[j]
  BY <1>1 DEF DashInv, DashboardTypeOK
<1>3. /\ q \in Post /\ q.rule \in Nat /\ q.rule <= server /\ q.awaited \in BOOLEAN
  BY <1>1, FormTyped DEF DashInv, MadeIsCounted
<1>4. posts' \in [PostSlots -> Post \cup {None}]
  BY <1>1 DEF DashInv, DashboardTypeOK
<1>5. MadeIsCounted'
  BY <1>1, <1>2 DEF DashInv, MadeIsCounted
<1>6. \A d \in Drafts : PostsOf(d)' \subseteq PostsOf(d) /\ \A j \in PostsOf(d)' : posts'[j] = posts[j]
  BY <1>2 DEF PostsOf
<1>7. \A j \in PostSlots : Wanted(j)' => Wanted(j) /\ posts'[j] = posts[j] /\ j # k
  BY <1>2 DEF Wanted
<1>8. CASE ~q.awaited
  <2>1. UNCHANGED <<form, poll, reqs>>
    BY <1>8 DEF Succeed
  <2>2. DashboardTypeOK'
    BY <1>1, <1>4, <2>1 DEF DashInv, DashboardTypeOK, PollInv
  <2>3. WantedIsOwn' /\ DraftsInOrder'
    BY <1>1, <1>7, <2>1 DEF DashInv, WantedIsOwn, DraftsInOrder
  <2>4. OneAttempt'
    BY <1>1, <1>6, <2>1 DEF DashInv, OneAttempt
  <2>5. PageOwns' /\ AsksAgain'
    BY <1>1, <2>1 DEF DashInv, PageOwns, AsksAgain, IsMounted
  <2> QED
    BY <1>5, <2>2, <2>3, <2>4, <2>5 DEF DashInv
<1>9. CASE q.awaited
  <2> DEFINE new == [form EXCEPT !.submitting = FALSE, !.success = q.rule,
                                 !.draft = NoDraft]
  <2>1. form' = new /\ Refresh({"rules", "stats"} \cap Polls)
    BY <1>9 DEF Succeed, OnCreated
  <2>2. /\ new \in Form /\ new.draft = 0 /\ new.success = q.rule /\ ~new.submitting
    BY <1>3 DEF DashInv, DashboardTypeOK, Form, Post, NoDraft
  <2> HIDE DEF new
  <2>3. DashboardTypeOK'
    BY <1>1, <1>4, <2>1, <2>2 DEF DashInv, DashboardTypeOK, PollInv
  <2>4. Wanted(k) /\ page
    BY <1>1, <1>9 DEF Wanted, DashInv, WantedIsOwn
  <2>5. WantedIsOwn'
    BY <1>7, <2>4 DEF DashInv, WantedIsOwn
  <2>6. DraftsInOrder'
    BY <1>1, <2>1, <2>2, FormTyped DEF DashInv, DraftsInOrder
  <2>7. OneAttempt'
    BY <1>1, <1>6, <2>1, <2>2, FormTyped DEF DashInv, OneAttempt
  <2>8. \A p \in Polls : IsMounted(p)
    BY <2>4 DEF DashInv, PageOwns
  <2>9. \A p \in Polls : poll[p] \in PollState
    BY DEF DashInv, PollInv, TypeOK
  <2>10. \A p \in Polls : poll'[p] \in {poll[p], [poll[p] EXCEPT !.rerun = TRUE]}
    BY <2>1 DEF Refresh
  <2>11. \A p \in Polls : IsMounted(p)'
    BY <2>8, <2>9, <2>10 DEF IsMounted, PollState
  <2>12. \A p \in Polls \cap {"rules", "stats"} : poll'[p].rerun
    BY <2>1, <2>8, <2>9 DEF Refresh, PollState
  <2>13. PageOwns' /\ AsksAgain'
    BY <1>1, <1>3, <2>1, <2>2, <2>4, <2>11, <2>12 DEF PageOwns, AsksAgain
  <2> QED
    BY <1>5, <2>3, <2>5, <2>6, <2>7, <2>13 DEF DashInv
<1> QED
  BY <1>3, <1>8, <1>9

\* The form keeps its text, which from now on counts as reported.
LEMMA FailPostInv ==
  ASSUME DashInv, PollInv', NEW k \in PostSlots, FailPost(k)
  PROVE  DashInv'
<1> DEFINE q == posts[k]
           new == IF q.stage = "sent" THEN [q EXCEPT !.stage = "gone"] ELSE None
<1>1. /\ q # None /\ q.stage # "gone"
      /\ posts' = [posts EXCEPT ![k] = new]
      /\ UNCHANGED <<vars, page, drafts, created>>
  BY DEF FailPost
<1>2. q \in Post /\ q.draft \in Drafts /\ q.awaited \in BOOLEAN
  BY <1>1, FormTyped DEF DashInv
<1>3. /\ new # None => new \in Post /\ new.draft = q.draft /\ new.stage = "gone"
                       /\ q.stage = "sent"
      /\ new = None \/ new \in Post
  BY <1>2 DEF Post
<1> HIDE DEF new
<1>4. \A j \in PostSlots : posts'[j] = IF j = k THEN new ELSE posts[j]
  BY <1>1 DEF DashInv, DashboardTypeOK
<1>5. posts' \in [PostSlots -> Post \cup {None}]
  BY <1>1, <1>3 DEF DashInv, DashboardTypeOK
<1>6. \A j \in PostSlots : Wanted(j)' => Wanted(j) /\ posts'[j] = posts[j] /\ j # k
  BY <1>3, <1>4 DEF Wanted
<1>7. \A d \in Drafts : /\ PostsOf(d)' \subseteq PostsOf(d)
                        /\ \A j \in PostsOf(d)' : posts'[j].stage \in {"sent", "gone"} =>
                             posts[j].stage \in {"sent", "gone"}
  BY <1>1, <1>3, <1>4 DEF PostsOf
<1>8. MadeIsCounted'
  BY <1>1, <1>3, <1>4 DEF DashInv, MadeIsCounted, vars
<1>9. CASE ~q.awaited
  <2>1. UNCHANGED <<form, failed>>
    BY <1>9 DEF FailPost
  <2>2. DashboardTypeOK'
    BY <1>1, <1>5, <2>1 DEF DashInv, DashboardTypeOK, PollInv
  <2>3. WantedIsOwn' /\ DraftsInOrder'
    BY <1>1, <1>6, <2>1 DEF DashInv, WantedIsOwn, DraftsInOrder
  <2>4. OneAttempt'
    BY <1>1, <1>7, <2>1 DEF DashInv, OneAttempt
  <2>5. PageOwns' /\ AsksAgain'
    BY <1>1, <2>1 DEF DashInv, PageOwns, AsksAgain, IsMounted, vars
  <2> QED
    BY <1>8, <2>2, <2>3, <2>4, <2>5 DEF DashInv
<1>10. CASE q.awaited
  <2> DEFINE f == [form EXCEPT !.submitting = FALSE, !.serverError = TRUE]
  <2>1. form' = f /\ failed' = failed \cup {q.draft}
    BY <1>10 DEF FailPost, Report
  <2>2. f \in Form /\ f.draft = form.draft /\ f.success = form.success
    BY DEF DashInv, DashboardTypeOK, Form
  <2> HIDE DEF f
  <2>3. DashboardTypeOK'
    BY <1>1, <1>2, <1>5, <2>1, <2>2 DEF DashInv, DashboardTypeOK, PollInv
  <2>4. Wanted(k) /\ page /\ form.draft = q.draft
    BY <1>1, <1>10 DEF Wanted, DashInv, WantedIsOwn
  <2>5. WantedIsOwn'
    BY <1>6, <2>4 DEF DashInv, WantedIsOwn
  <2>6. DraftsInOrder'
    BY <1>1, <2>1, <2>2 DEF DashInv, DraftsInOrder
  <2>7. OneAttempt'
    BY <1>1, <1>7, <2>1, <2>2, <2>4 DEF DashInv, OneAttempt
  <2>8. PageOwns' /\ AsksAgain'
    BY <1>1, <2>1, <2>2, <2>4 DEF DashInv, PageOwns, AsksAgain, IsMounted, vars
  <2> QED
    BY <1>8, <2>3, <2>5, <2>6, <2>7, <2>8 DEF DashInv
<1> QED
  BY <1>2, <1>9, <1>10

\* What was under way is not awaited any more, and its text is not there again.
LEMMA LeavePageInv ==
  ASSUME DashInv, PollInv', LeavePage
  PROVE  DashInv'
<1>1. /\ ~page' /\ form' = EmptyForm
      /\ posts' = [k \in PostSlots |-> IF posts[k] = None THEN None
                                       ELSE [posts[k] EXCEPT !.awaited = FALSE]]
      /\ UNCHANGED <<server, drafts, created, failed>>
  BY DEF LeavePage
<1>2. EmptyForm \in Form /\ EmptyForm.draft = 0 /\ EmptyForm.success = 0
  BY StatesTyped DEF EmptyForm, Form, NoDraft
<1>3. \A k \in PostSlots : posts[k] # None =>
        LET q == [posts[k] EXCEPT !.awaited = FALSE]
        IN  /\ q \in Post /\ ~q.awaited /\ q.draft = posts[k].draft
            /\ q.stage = posts[k].stage /\ q.rule = posts[k].rule
  <2>1. \A q \in Post : LET n == [q EXCEPT !.awaited = FALSE]
                        IN  /\ n \in Post /\ ~n.awaited /\ n.draft = q.draft
                            /\ n.stage = q.stage /\ n.rule = q.rule
    BY DEF Post
  <2> QED
    BY <2>1, FormTyped DEF DashInv
<1>4. \A k \in PostSlots :
        /\ posts'[k] # None => /\ posts[k] # None /\ ~posts'[k].awaited
                               /\ posts'[k].draft = posts[k].draft
                               /\ posts'[k].stage = posts[k].stage
                               /\ posts'[k].rule = posts[k].rule
        /\ posts'[k] \in Post \cup {None}
  BY <1>1, <1>3
<1>5. DashboardTypeOK'
  BY <1>1, <1>2, <1>4 DEF LeavePage, DashInv, DashboardTypeOK, PollInv
<1>6. WantedIsOwn'
  BY <1>4 DEF WantedIsOwn, Wanted
<1>7. MadeIsCounted' /\ DraftsInOrder'
  BY <1>1, <1>2, <1>4, FormTyped DEF DashInv, MadeIsCounted, DraftsInOrder
<1>8. OneAttempt'
  <2>1. \A d \in Drafts : /\ PostsOf(d)' \subseteq PostsOf(d)
                          /\ \A j \in PostsOf(d)' : posts'[j].stage = posts[j].stage
    BY <1>4 DEF PostsOf
  <2> QED
    BY <1>1, <1>2, <2>1, FormTyped DEF DashInv, OneAttempt
<1>9. PageOwns' /\ AsksAgain'
  BY <1>1, <1>2, FormTyped DEF DashInv, PageOwns, AsksAgain
<1> QED
  BY <1>5, <1>6, <1>7, <1>8, <1>9 DEF DashInv

\* Mounting or leaving the page keeps the drafts, the rows and the readings in step.
LEMMA OpenPageInv ==
  ASSUME DashInv, PollInv', OpenPage
  PROVE  DashInv'
<1>1. /\ ~page /\ page' = TRUE /\ poll' = [p \in Polls |-> Mounted]
      /\ UNCHANGED <<server, form, drafts, posts, created, failed>>
  BY DEF OpenPage, Open
<1>2. form = EmptyForm /\ EmptyForm.success = 0
  BY <1>1 DEF DashInv, PageOwns, EmptyForm
<1>3. DashboardTypeOK'
  BY <1>1 DEF DashInv, DashboardTypeOK, PollInv
<1>4. MadeIsCounted' /\ DraftsInOrder' /\ OneAttempt'
  BY <1>1 DEF DashInv, MadeIsCounted, DraftsInOrder, OneAttempt, PostsOf
<1>5. WantedIsOwn'
  BY <1>1 DEF DashInv, WantedIsOwn, Wanted
<1>6. PageOwns' /\ AsksAgain'
  BY <1>1, <1>2, FormTyped DEF DashInv, PageOwns, AsksAgain, IsMounted, Mounted
<1> QED
  BY <1>3, <1>4, <1>5, <1>6 DEF DashInv
-----------------------------------------------------------------------------
\* One step per action of the page.
LEMMA DashNextInv == DashInv /\ [DashboardNext]_dashboardVars => DashInv'
<1> SUFFICES ASSUME DashInv, [DashboardNext]_dashboardVars PROVE DashInv'
  OBVIOUS
<1>1. PollInv'
  BY DashboardSteps, PollNextInv DEF DashInv
<1>2. CASE PollsGoOn \/ (Disturbance /\ UNCHANGED formVars)
  BY <1>2, HooksInv DEF PollsGoOn
<1>3. CASE Type
  BY <1>1, <1>3, TypeInv
<1>4. CASE Reject
  BY <1>1, <1>4, RejectInv
<1>5. ASSUME NEW k \in PostSlots, Submit(k)
      PROVE  DashInv'
  BY <1>1, <1>5, SubmitInv
<1>6. ASSUME NEW k \in PostSlots, Insert(k)
      PROVE  DashInv'
  BY <1>1, <1>6, InsertInv
<1>7. ASSUME NEW k \in PostSlots, Refuse(k)
      PROVE  DashInv'
  BY <1>1, <1>7, RefuseInv
<1>8. ASSUME NEW k \in PostSlots, Answer(k)
      PROVE  DashInv'
  BY <1>1, <1>8, SucceedInv, FailPostInv DEF Answer
<1>9. CASE LeavePage
  BY <1>1, <1>9, LeavePageInv
<1>10. CASE OpenPage
  BY <1>1, <1>10, OpenPageInv
<1>11. CASE UNCHANGED dashboardVars
  BY <1>1, <1>11 DEF dashboardVars, formVars, vars, DashInv, DashboardTypeOK, PollInv,
       WantedIsOwn, Wanted, MadeIsCounted, OneAttempt, PostsOf, DraftsInOrder,
       PageOwns, AsksAgain, IsMounted
<1> QED
  BY <1>2, <1>3, <1>4, <1>5, <1>6, <1>7, <1>8, <1>9, <1>10, <1>11 DEF DashboardNext

(***************************************************************************)
(* The inductive invariant of the page and its form.                       *)
(***************************************************************************)
THEOREM DashboardInvariance == DashboardSpec => []DashInv
  BY DashInitInv, DashNextInv, PTL DEF DashboardSpec

(***************************************************************************)
(* A second rule is made of one text only after the form has reported the  *)
(* first attempt as failed, however late a POST arrives, whether or not    *)
(* the page was left meanwhile (rule-form.tsx handleSubmit).               *)
(***************************************************************************)
THEOREM OneRuleUnlessReported == DashboardSpec => []OneRulePerDraft
<1>1. DashInv => OneRulePerDraft
  <2> SUFFICES ASSUME DashInv, NEW d \in Drafts, created[d] > 1
               PROVE  d \in failed
    BY DEF OneRulePerDraft
  <2> QED
    BY FormTyped DEF DashInv, OneAttempt
<1> QED
  BY <1>1, DashboardInvariance, PTL

(***************************************************************************)
(* A text that is being submitted is taken out of the fields, on a page    *)
(* that stays, only for a rule that exists and was made of it              *)
(* (rule-form.tsx setKeyword).                                             *)
(***************************************************************************)
THEOREM TypedStays == DashboardSpec => TypedIsKept
<1>1. ASSUME DashInv, [DashboardNext]_dashboardVars
      PROVE  [/\ form.submitting /\ form.draft # NoDraft
              /\ form'.draft = NoDraft /\ page'
              => created[form.draft] > 0]_dashboardVars
  <2> SUFFICES ASSUME form.submitting, form.draft # NoDraft, form'.draft = NoDraft,
                      page', DashboardNext
               PROVE  created[form.draft] > 0
    BY <1>1 DEF dashboardVars, formVars
  <2>1. form \in Form
    BY <1>1 DEF DashInv, DashboardTypeOK
  <2>2. \A f \in Form :
          /\ [f EXCEPT !.submitting = FALSE, !.serverError = TRUE].draft = f.draft
          /\ [f EXCEPT !.serverError = FALSE, !.success = 0, !.submitting = TRUE].draft
               = f.draft
    BY DEF Form
  <2>3. ~(form' = form)
    OBVIOUS
  <2>4. ~Type /\ ~Reject
    BY DEF Type, Reject
  <2>5. ~PollsGoOn /\ ~(Disturbance /\ UNCHANGED formVars) /\ ~LeavePage /\ ~OpenPage
    BY <2>3 DEF PollsGoOn, formVars, LeavePage, OpenPage
  <2>6. ASSUME NEW k \in PostSlots
        PROVE  ~Submit(k) /\ ~Insert(k) /\ ~Refuse(k) /\ ~FailPost(k)
    BY <2>1, <2>2, <2>3 DEF Submit, Insert, Refuse, FailPost, Report
  <2>7. PICK k \in PostSlots : Succeed(k)
    BY <2>4, <2>5, <2>6 DEF DashboardNext, Answer
  <2>8. posts[k] # None /\ posts[k].stage = "created" /\ posts[k].awaited
    BY <2>3, <2>7 DEF Succeed
  <2>9. form.draft = posts[k].draft /\ created[posts[k].draft] > 0
    BY <1>1, <2>8 DEF DashInv, WantedIsOwn, Wanted, MadeIsCounted
  <2> QED
    BY <2>9
<1> QED
  BY <1>1, DashboardInvariance, PTL DEF DashboardSpec, TypedIsKept

(***************************************************************************)
(* "Rule created" never rests over a visible table that lacks the rule:    *)
(* the refresh has yet to run, an error is shown, or a request is under    *)
(* way that will bring it.  The effect that asked is at least as young as  *)
(* the rule (AsksAgain), and what it lacks is asked for (Asking) (page.tsx *)
(* refreshRules, use-poll.ts run and cancelled).                           *)
(***************************************************************************)
THEOREM NewRulesAreListed == DashboardSpec => []NewRuleIsListed
<1>1. ASSUME DashInv, Asking
      PROVE  NewRuleIsListed
  <2> SUFFICES ASSUME NEW p \in Polls \cap {"rules", "stats"},
                      form.success # 0, visible, poll[p].error = "none",
                      poll[p].data = None \/ poll[p].data < form.success,
                      ~poll[p].rerun
               PROVE  \E s \in Slots :
                        /\ reqs[p][s] # None /\ ~reqs[p][s].cancelled
                        /\ reqs[p][s].stage = "body" => reqs[p][s].read >= form.success
    BY DEF NewRuleIsListed
  <2>1. form.success <= poll[p].since
    BY <1>1 DEF DashInv, AsksAgain
  <2>2. /\ poll[p] \in PollState /\ PollOK(poll[p], reqs[p], server)
        /\ form.success \in Nat /\ poll[p].since \in Nat
        /\ poll[p].data # None => poll[p].data \in Nat
    <3>1. poll[p] \in PollState /\ PollOK(poll[p], reqs[p], server)
      BY <1>1 DEF DashInv, PollInv, TypeOK
    <3> QED
      BY <1>1, <3>1, StatesTyped, FormTyped DEF DashInv, PollState
  <2>3. poll[p].life = "polling"
    <3>1. page
      BY <1>1 DEF DashInv, PageOwns, EmptyForm
    <3>2. poll[p].life # "unmounted" /\ poll[p].life # "mounted"
      BY <1>1, <3>1 DEF DashInv, PageOwns, IsMounted, Asking, AskingOK
    <3> QED
      BY <2>2, <3>2 DEF PollState
  <2>4. ~UpToDate(poll[p])
    BY <2>1, <2>2 DEF UpToDate
  <2>5. PICK s \in Slots : reqs[p][s] # None /\ ~reqs[p][s].cancelled
    BY <1>1, <2>3, <2>4 DEF Asking, AskingOK, Wants
  <2>6. reqs[p][s] \in Request /\ reqs[p][s].read \in Nat
    <3>1. reqs[p][s] \in Request
      BY <2>2, <2>5 DEF PollOK
    <3> QED
      BY <3>1, StatesTyped DEF Request
  <2>7. reqs[p][s].stage = "body" => reqs[p][s].read >= poll[p].since
    BY <2>2, <2>5 DEF PollOK, SinceTheEffect
  <2> QED
    BY <2>1, <2>2, <2>5, <2>6, <2>7
<1> QED
  BY <1>1, DashboardInvariance, DashboardUsesPolls, MissingIsAskedFor, PTL

-----------------------------------------------------------------------------
\* The slots that are shown as used.
LEMMA SlotsUsed ==
  ASSUME NEW st \in PollState, NEW i \in DOMAIN RateMeter(st), RateMeter(st)[i] = "used"
  PROVE  st.data # None /\ i <= st.data
<1> DEFINE used == IF st.data = None THEN 0 ELSE Min({st.data, Ours})
<1>1. Max({Ours, PlatformLimit}) = 10
  BY DEF Max, Ours, PlatformLimit
<1>2. i \in 1 .. 10 /\ i <= used
  <2> HIDE DEF used
  <2>1. RateMeter(st) = [j \in 1 .. 10 |->
          IF j > Ours THEN "forfeited" ELSE IF j <= used THEN "used" ELSE "free"]
    BY <1>1 DEF RateMeter, used
  <2> QED
    BY <2>1
<1>3. CASE st.data = None
  BY <1>2, <1>3
<1>4. CASE st.data # None
  <2>1. st.data \in Nat
    BY <1>4, StatesTyped DEF PollState
  <2>2. Min({st.data, 9}) \in {st.data, 9} /\ Min({st.data, 9}) <= st.data
    BY <2>1 DEF Min
  <2>3. used = Min({st.data, 9})
    BY <1>4 DEF Ours
  <2> QED
    BY <1>2, <1>4, <2>1, <2>2, <2>3
<1> QED
  BY <1>3, <1>4

(***************************************************************************)
(* The panels show an empty table, a number or a used slot only on the     *)
(* word of the backend (page.tsx, rules-table.tsx, live-stats.tsx,         *)
(* rate-meter.tsx).                                                        *)
(***************************************************************************)
THEOREM NothingIsInvented == DashboardSpec => []NothingInvented
<1>1. DashInv => NothingInvented
  <2> SUFFICES ASSUME DashInv, NEW p \in Polls
               PROVE  LET st == poll[p]
                      IN  /\ RulesTable(st) = "empty" \/ ActivityFeed(st) = "empty" => st.data = 0
                          /\ StatCards(st) = "zeros" => BackendDown(st)
                          /\ LiveStats(st) = "banner" => st.error # "none"
                          /\ LastReadingShown(st) => StatCards(st) = "numbers"
                          /\ Header(st) = "updated" <=> Metric(st) = "number"
                          /\ OldestUnconfirmed(st) = "none outstanding" =>
                               st.data = 0 \/ Header(st) = "connecting"
                          /\ JobsShown(st) = 0 =>
                               st.data = 0 \/ ActivityFeed(st) \in {"skeleton", "banner"}
                          /\ \A i \in DOMAIN RateMeter(st) :
                               RateMeter(st)[i] = "used" => st.data # None /\ i <= st.data
    BY DEF NothingInvented
  <2> DEFINE st == poll[p]
  <2>1. st \in PollState /\ Agrees(st)
    BY DEF DashInv, PollInv, PollOK
  <2> HIDE DEF st
  <2>2. RulesTable(st) = "empty" => st.data = 0
    <3>1. CASE st.data = None
      <4>1. CASE st.error = "none"
        BY <2>1, <3>1, <4>1 DEF RulesTable, Waiting, Agrees
      <4>2. CASE st.error # "none"
        BY <2>1, <3>1, <4>2 DEF RulesTable, Waiting, Agrees
      <4> QED
        BY <4>1, <4>2
    <3>2. CASE st.data # None
      BY <3>2 DEF RulesTable, Waiting
    <3> QED
      BY <3>1, <3>2
  <2>3. /\ StatCards(st) = "zeros" => BackendDown(st)
        /\ LiveStats(st) = "banner" => st.error # "none"
        /\ LastReadingShown(st) => StatCards(st) = "numbers"
    BY <2>1 DEF StatCards, LiveStats, LastReadingShown, BackendDown, Waiting, Agrees
  <2>4. /\ Header(st) = "updated" <=> Metric(st) = "number"
        /\ OldestUnconfirmed(st) = "none outstanding" =>
             st.data = 0 \/ Header(st) = "connecting"
    BY <2>1 DEF Header, Metric, OldestUnconfirmed, Agrees
  <2>6. JobsShown(st) = 0 => st.data = 0 \/ ActivityFeed(st) \in {"skeleton", "banner"}
    <3>1. JobsShown(st) = 0 => st.data \in {None, 0}
      BY DEF JobsShown
    <3>2. CASE st.data = None /\ st.error = "none"
      BY <2>1, <3>2 DEF ActivityFeed, RulesTable, Waiting, Agrees
    <3>3. CASE st.data = None /\ st.error # "none"
      BY <2>1, <3>3 DEF ActivityFeed, RulesTable, Waiting, Agrees
    <3> QED
      BY <3>1, <3>2, <3>3
  <2>5. \A i \in DOMAIN RateMeter(st) :
          RateMeter(st)[i] = "used" => st.data # None /\ i <= st.data
    BY <2>1, SlotsUsed
  <2> QED
    BY <2>2, <2>3, <2>4, <2>5, <2>6 DEF ActivityFeed, st
<1> QED
  BY <1>1, DashboardInvariance, PTL
=============================================================================
