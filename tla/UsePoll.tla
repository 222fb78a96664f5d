------------------------------- MODULE UsePoll -------------------------------
(***************************************************************************)
(* The hook usePoll of the dashboard, on the requests of lib/api.ts.  Each *)
(* use of the hook asks the backend every intervalMs, when the tab becomes *)
(* visible and when refresh is called; answers take their time, so several *)
(* requests of one poll may be under way and end in any order.  Time is    *)
(* counted in ticks, by the timers that wait for it to pass.               *)
(***************************************************************************)
EXTENDS Naturals, FiniteSets

CONSTANTS
  Polls,         \* the uses of the hook on the page
  Interval,      \* intervalMs of each, in ticks
  Timeout,       \* DEFAULT_TIMEOUT_MS
  Latency,       \* an answer that is not late is complete within this time
  None,
  MaxReqs,       \* bound: requests of one poll under way
  MaxVersion,    \* bound: changes of the backend's state
  MaxEvents      \* bound: faults and acts of the visitor, together

ASSUME PollAssumption ==
  /\ IsFiniteSet(Polls) /\ Interval \in [Polls -> Nat \ {0}]
  /\ Latency \in Nat /\ Timeout \in Nat /\ Latency < Timeout
  /\ MaxReqs \in Nat \ {0} /\ MaxVersion \in Nat /\ MaxEvents \in Nat
  /\ None \notin 0 .. MaxVersion

VARIABLES
  server,    \* external: how often the state behind the endpoints has changed
  visible,   \* document.visibilityState
  poll,      \* the states and the effect of each use of the hook
  reqs,      \* its requests under way
  left       \* the faults and acts that the bound still allows

vars == <<server, visible, poll, reqs, left>>

Slots == 1 .. MaxReqs
Versions == 0 .. MaxVersion
Ages == 0 .. Timeout + 1   \* the last one stands for anything longer

Errors == {"none", "timeout", "network", "http", "parse"}

\* data (as the version it was read from), error, loading, updatedAt;
\* life: polling once the effect has run and set its listener and its interval;
\* rerun: the effect is to run (again); next: until the interval fires;
\* since: the server when the effect last ran.
PollState ==
  [life : {"unmounted", "mounted", "polling"}, rerun : BOOLEAN, next : Nat,
   since : Versions, data : Versions \cup {None}, error : Errors,
   loading : BOOLEAN, updatedAt : BOOLEAN]

Mounted ==
  [life |-> "mounted", rerun |-> TRUE, next |-> 0, since |-> 0,
   data |-> None, error |-> "none", loading |-> TRUE, updatedAt |-> FALSE]

Unmounted == [Mounted EXCEPT !.life = "unmounted", !.rerun = FALSE]

IsMounted(p) == poll[p].life # "unmounted"
IsPolling(p) == poll[p].life = "polling"

\* sent: fetch is awaited; body, refused: the body of an answer with res.ok,
\* or without it, is.  cancelled: the effect that asked has been cleaned up.
\* read, lag: what the body was read from, and how long ago that was.
Request ==
  [stage : {"sent", "body", "refused"}, age : Ages, late : BOOLEAN,
   cancelled : BOOLEAN, read : Versions, lag : Ages]

ASSUME NoneAssumption == None \notin Request

NewRequest ==
  [stage |-> "sent", age |-> 0, late |-> FALSE, cancelled |-> FALSE,
   read |-> 0, lag |-> 0]

Spend == left > 0 /\ left' = left - 1

Free(rs) == {s \in Slots : rs[s] = None}
FreeSlot(rs) == CHOOSE s \in Slots : s \in Free(rs)

Init ==
  /\ server = 0
  /\ visible \in BOOLEAN
  /\ poll = [p \in Polls |-> Mounted]
  /\ reqs = [p \in Polls |-> [s \in Slots |-> None]]
  /\ left = MaxEvents

-----------------------------------------------------------------------------
(* request: one fetch, its timer, its signal, and the result it resolves to *)

Ok(reading) == [ok |-> TRUE, data |-> reading, kind |-> "none"]
Fail(kind) == [ok |-> FALSE, data |-> None, kind |-> kind]

\* Mutant: the timer is cleared as soon as the headers are in.
ArmedForHeaders(q) == q.stage = "sent"

\* The timer runs until the finally clause: it bounds the body as well.
Armed(q) == TRUE

TimerDue(q) == Armed(q) /\ q.age >= Timeout

(***************************************************************************)
(* How a request ends.  The catch clause tells the caller's abort from the *)
(* timer's, but an abort that hits while the body is read is taken for bad *)
(* JSON, and one that hits the body of a refusal is swallowed.  The        *)
(* backend sends a list where a list is asked for, so the ?? [] of getRules*)
(* and getJobs has nothing to stand in for.                                *)
(***************************************************************************)
Result(q, how) ==
  CASE q.stage = "refused" -> Fail("http")
    [] q.stage = "body" /\ how = "complete" -> Ok(q.read)
    [] q.stage = "body" /\ how # "complete" -> Fail("parse")
    [] q.stage = "sent" /\ how = "timer" -> Fail("timeout")
    [] q.stage = "sent" /\ how = "signal" -> Fail("cancelled")
    [] OTHER -> Fail("network")

-----------------------------------------------------------------------------
(* The hook *)

\* Mutant: the answer of a superseded effect is taken like any other.
ReceivedAnyway(st, q, res) ==
  IF res.ok
  THEN [st EXCEPT !.data = res.data, !.error = "none", !.updatedAt = TRUE,
                  !.loading = FALSE]
  ELSE [st EXCEPT !.error = IF res.kind = "cancelled" THEN @ ELSE res.kind,
                  !.loading = FALSE]

\* Mutant: a success leaves the error of an earlier failure in place.
ReceivedKeepsError(st, q, res) ==
  IF q.cancelled THEN st
  ELSE IF res.ok
  THEN [st EXCEPT !.data = res.data, !.updatedAt = TRUE, !.loading = FALSE]
  ELSE [st EXCEPT !.error = IF res.kind = "cancelled" THEN @ ELSE res.kind,
                  !.loading = FALSE]

\* What run does after the await.
Received(st, q, res) ==
  IF q.cancelled THEN st
  ELSE IF res.ok
  THEN [st EXCEPT !.data = res.data, !.error = "none", !.updatedAt = TRUE,
                  !.loading = FALSE]
  ELSE [st EXCEPT !.error = IF res.kind = "cancelled" THEN @ ELSE res.kind,
                  !.loading = FALSE]

\* What run does before it: nothing while the tab is hidden.
Asked(rs, seen) == IF seen THEN [rs EXCEPT ![FreeSlot(rs)] = NewRequest] ELSE rs

\* The cleanup of the effect: whatever it asked for is aborted and unwanted.
CleanedUp(rs) ==
  [s \in Slots |-> IF rs[s] = None THEN None
                   ELSE [rs[s] EXCEPT !.cancelled = TRUE]]

\* Mutant: asking again takes the error off the screen before the answer is in.
EffectClearsError(p) ==
  /\ poll[p].rerun /\ Free(reqs[p]) # {}
  /\ reqs' = [reqs EXCEPT ![p] = Asked(CleanedUp(@), visible)]
  /\ poll' = [poll EXCEPT ![p].life = "polling", ![p].rerun = FALSE,
                          ![p].next = Interval[p], ![p].since = server,
                          ![p].error = "none"]
  /\ UNCHANGED <<server, visible, left>>

\* The effect of a mount or a refresh: clean up, ask at once, restart the interval.
Effect(p) ==
  /\ poll[p].rerun /\ Free(reqs[p]) # {}
  /\ reqs' = [reqs EXCEPT ![p] = Asked(CleanedUp(@), visible)]
  /\ poll' = [poll EXCEPT ![p].life = "polling", ![p].rerun = FALSE,
                          ![p].next = Interval[p], ![p].since = server]
  /\ UNCHANGED <<server, visible, left>>

IntervalFires(p) ==
  /\ IsPolling(p) /\ poll[p].next = 0
  /\ Free(reqs[p]) # {}
  /\ reqs' = [reqs EXCEPT ![p] = Asked(@, visible)]
  /\ poll' = [poll EXCEPT ![p].next = Interval[p]]
  /\ UNCHANGED <<server, visible, left>>

\* The tab is hidden or comes back, and the listeners run.
VisibilityChange ==
  /\ Spend /\ \A p \in Polls : Free(reqs[p]) # {}
  /\ visible' = ~visible
  /\ reqs' = [p \in Polls |->
               IF IsPolling(p) THEN Asked(reqs[p], visible') ELSE reqs[p]]
  /\ UNCHANGED <<server, poll>>

\* refresh of some polls: the next render runs their effects again.
Refresh(ps) ==
  /\ poll' = [p \in Polls |-> IF p \in ps /\ IsMounted(p)
                             THEN [poll[p] EXCEPT !.rerun = TRUE] ELSE poll[p]]
  /\ UNCHANGED reqs

\* The page of some polls is left (their cleanups run), or opened.
Leave(ps) ==
  /\ poll' = [p \in Polls |-> IF p \in ps THEN Unmounted ELSE poll[p]]
  /\ reqs' = [p \in Polls |-> IF p \in ps THEN CleanedUp(reqs[p]) ELSE reqs[p]]

Open(ps) ==
  /\ poll' = [p \in Polls |-> IF p \in ps THEN Mounted ELSE poll[p]]
  /\ UNCHANGED reqs

\* What a page may do with the hooks it uses, and have the backend do besides.
PageStep ==
  /\ \E ps \in SUBSET Polls : Refresh(ps) \/ Leave(ps) \/ Open(ps)
  /\ server' \in {server, server + 1} \cap Versions
  /\ left' \in 0 .. left
  /\ UNCHANGED visible

-----------------------------------------------------------------------------
(* The backend, the network and the clock *)

ServerMoves ==
  /\ Spend /\ server < MaxVersion
  /\ server' = server + 1
  /\ UNCHANGED <<visible, poll, reqs>>

\* The backend reads its state and sends the headers of its answer.
Respond(p, s) ==
  /\ reqs[p][s] # None /\ reqs[p][s].stage = "sent" /\ ~reqs[p][s].cancelled
  /\ reqs' = [reqs EXCEPT ![p][s].stage = "body",
                          ![p][s].read = server]
  /\ UNCHANGED <<server, visible, poll, left>>

Ends(p, s, how) ==
  LET q == reqs[p][s]
  IN  /\ poll' = [poll EXCEPT ![p] = Received(@, q, Result(q, how))]
      /\ reqs' = [reqs EXCEPT ![p][s] = None]

\* The body is complete; the abort of a cleanup may come too late for it.
Complete(p, s) ==
  /\ reqs[p][s] # None /\ reqs[p][s].stage # "sent"
  /\ Ends(p, s, "complete")
  /\ UNCHANGED <<server, visible, left>>

TimesOut(p, s) ==
  /\ reqs[p][s] # None /\ TimerDue(reqs[p][s])
  /\ Ends(p, s, "timer")
  /\ UNCHANGED <<server, visible, left>>

Aborted(p, s) ==
  /\ reqs[p][s] # None /\ reqs[p][s].cancelled
  /\ Ends(p, s, "signal")
  /\ UNCHANGED <<server, visible, left>>

\* An answer that says no, that is late, or that never arrives in one piece.
Fault(p, s) ==
  /\ Spend /\ reqs[p][s] # None /\ ~reqs[p][s].cancelled
  /\ \/ /\ reqs[p][s].stage = "sent"
        /\ reqs' = [reqs EXCEPT ![p][s].stage = "refused"]
        /\ UNCHANGED poll
     \/ /\ ~reqs[p][s].late
        /\ reqs' = [reqs EXCEPT ![p][s].late = TRUE]
        /\ UNCHANGED poll
     \/ Ends(p, s, "broken")
  /\ UNCHANGED <<server, visible>>

Older(age) == IF age \in 0 .. Timeout THEN age + 1 ELSE age

Aged(q) ==
  IF q = None THEN None
  ELSE [q EXCEPT !.age = Older(@),
                 !.lag = IF q.stage = "body" THEN Older(@) ELSE @]

\* Time passes when no timer is due and no effect or abort is outstanding.
Tick ==
  /\ \A p \in Polls : IsMounted(p) => ~poll[p].rerun /\ poll[p].next > 0
  /\ \A p \in Polls : \A s \in Slots : reqs[p][s] # None =>
       /\ ~reqs[p][s].cancelled /\ ~TimerDue(reqs[p][s])
       /\ reqs[p][s].late \/ reqs[p][s].age < Latency
  /\ poll' = [p \in Polls |-> IF IsPolling(p) THEN [poll[p] EXCEPT !.next = @ - 1]
                                            ELSE poll[p]]
  /\ reqs' = [p \in Polls |-> [s \in Slots |-> Aged(reqs[p][s])]]
  /\ UNCHANGED <<server, visible, left>>

\* What happens by itself: scripts, timers, time, and answers that are not late.
Progress ==
  \/ Tick
  \/ \E p \in Polls :
       \/ Effect(p) \/ IntervalFires(p)
       \/ \E s \in Slots : Respond(p, s) \/ Complete(p, s)
                           \/ TimesOut(p, s) \/ Aborted(p, s)

Disturbance ==
  \/ ServerMoves
  \/ VisibilityChange
  \/ \E p \in Polls : \E s \in Slots : Fault(p, s)

Next ==
  \/ Progress
  \/ Disturbance
  \/ PageStep

Spec == Init /\ [][Next]_vars

-----------------------------------------------------------------------------
TypeOK ==
  /\ server \in Versions
  /\ visible \in BOOLEAN
  /\ poll \in [Polls -> PollState]
  /\ reqs \in [Polls -> [Slots -> Request \cup {None}]]
  /\ left \in 0 .. MaxEvents

(***************************************************************************)
(* What is put on the screen was read by the backend at most one timeout   *)
(* ago, even when an older answer overtakes a newer one or a body trickles *)
(* in (api.ts request, whose timer also covers the body).                  *)
(***************************************************************************)
ReadingIsRecent ==
  [][\A p \in Polls : poll'[p].data \notin {poll[p].data, None} =>
       \E s \in Slots : /\ reqs[p][s] # None /\ reqs'[p][s] = None
                        /\ reqs[p][s].read = poll'[p].data
                        /\ reqs[p][s].lag <= Timeout]_vars

(***************************************************************************)
(* The hook is loading exactly as long as it has neither a reading nor an  *)
(* error to show, so a panel never lacks all three (use-poll.ts usePoll).  *)
(***************************************************************************)
LoadingIsHonest ==
  \A p \in Polls : IsMounted(p) =>
    /\ poll[p].loading <=> poll[p].data = None /\ poll[p].error = "none"
    /\ poll[p].updatedAt <=> poll[p].data # None

(***************************************************************************)
(* What a superseded effect asked for stays silent: after a refresh the    *)
(* screen shows only what the backend said since then, and no failure of   *)
(* an aborted request, whichever way it ends (use-poll.ts cancelled; an    *)
(* abort that hits a body does not look like one).                         *)
(***************************************************************************)
SupersededIsSilent ==
  [][\A p \in Polls :
       /\ poll'[p].data \notin {poll[p].data, None} =>
            poll'[p].data >= poll[p].since
       /\ poll'[p].error \notin {poll[p].error, "none"} =>
            \E s \in Slots : /\ reqs[p][s] # None /\ reqs'[p][s] = None
                             /\ ~reqs[p][s].cancelled]_vars

(***************************************************************************)
(* Once the backend has stopped changing and failing, a page that stays    *)
(* open and visible ends up showing its last state, and no error, whatever *)
(* was slow, lost, refused or overtaken before (use-poll.ts, README).      *)
(***************************************************************************)
CatchesUp ==
  \A p \in Polls :
    <>[](visible /\ IsMounted(p)) =>
      <>[](poll[p].data = server /\ poll[p].error = "none")

=============================================================================
