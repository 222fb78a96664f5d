------------------------------ MODULE RateLimit ------------------------------
(***************************************************************************)
(* The send budget: wait_for_budget reads the ledger send_log and sleeps   *)
(* while the rolling window is full, _send_one records a row and then      *)
(* makes the request, and prune deletes old rows.  What counts in the end  *)
(* is when the requests reach PseudoGram, which limits them by a rolling   *)
(* window of its own.  Time is the database's clock, in ticks; the process *)
(* sleeps by its own, and may wake Early ticks too soon, or late.          *)
(***************************************************************************)
EXTENDS Naturals, FiniteSets

CONSTANTS
  Max,        \* config.RATE_LIMIT_MAX
  Window,     \* config.RATE_LIMIT_WINDOW_SECONDS
  MinSleep,   \* ratelimit._MIN_SLEEP
  Early,      \* by how much a sleep may fall short on the database's clock
  PruneAge,   \* the default of prune: far more than Window
  MaxSends,   \* bound: requests made
  MaxTime     \* bound: the clock stops here

ASSUME RateAssumption ==
  /\ Max \in Nat \ {0} /\ Window \in Nat \ {0} /\ MinSleep \in Nat \ {0}
  /\ MinSleep <= Window
  /\ Early \in Nat /\ 2 * Early <= MinSleep
  /\ PruneAge \in Nat /\ PruneAge >= Window
  /\ MaxSends \in Nat /\ MaxTime \in Nat

VARIABLES
  now,
  sendLog,    \* table send_log: <<id, sent_at>>
  worker,     \* its position, the tick it sleeps until; history: the sleeps of this wait
  recorded,   \* history: every row send_log ever had
  arrived     \* external: <<id, tick>> of the requests at PseudoGram's limiter

vars == <<now, sendLog, worker, recorded, arrived>>

Sends == 1 .. MaxSends
Ticks == 0 .. MaxTime

WorkerPCs == {"top", "full", "sleeping", "granted", "recorded", "sent", "answered"}

At(pc) == [pc |-> pc, until |-> 0, sleeps |-> 0]

\* sent_at > now() - Window: the rows that count at tick t.
InWindow(log, t) == {s \in log : s[2] + Window > t}

\* The id of the request being made: the last row recorded.
Current == Cardinality(recorded)

Init ==
  /\ now = 0
  /\ sendLog = {} /\ recorded = {}
  /\ worker = At("top")
  /\ arrived = {}

Tick ==
  /\ now < MaxTime
  /\ now' = now + 1
  /\ UNCHANGED <<sendLog, worker, recorded, arrived>>

-----------------------------------------------------------------------------
(* wait_for_budget *)

\* Mutant: the budget is off by one.
UsedOneMore ==
  /\ worker.pc = "top"
  /\ worker' = IF Cardinality(InWindow(sendLog, now)) <= Max
               THEN At("granted") ELSE [worker EXCEPT !.pc = "full"]
  /\ UNCHANGED <<now, sendLog, recorded, arrived>>

UsedInWindow ==
  /\ worker.pc = "top"
  /\ \/ /\ Cardinality(InWindow(sendLog, now)) < Max
        /\ worker' = At("granted")
     \/ /\ Cardinality(InWindow(sendLog, now)) >= Max
        /\ worker' = [worker EXCEPT !.pc = "full"]
  /\ UNCHANGED <<now, sendLog, recorded, arrived>>

\* Mutant: the sleep has no floor.
ClampNoFloor(wait) ==
  IF wait > Window THEN Window ELSE wait

Clamp(wait) ==
  IF wait < MinSleep THEN MinSleep ELSE IF wait > Window THEN Window ELSE wait

AsleepUntil(t) == [pc |-> "sleeping", until |-> t, sleeps |-> worker.sleeps + 1]

\* _seconds_until_slot is a second query: the window may have emptied.
Sleep ==
  /\ worker.pc = "full"
  /\ LET live == InWindow(sendLog, now)
     IN  \/ live = {} /\ worker' = AsleepUntil(now + MinSleep)
         \/ \E s \in live :
              /\ \A s2 \in live : s[2] <= s2[2]
              /\ worker' = AsleepUntil(now + Clamp(s[2] + Window - now))
  /\ UNCHANGED <<now, sendLog, recorded, arrived>>

\* asyncio's clock is not the database's: a little early, or any time later.
Wake ==
  /\ worker.pc = "sleeping" /\ worker.until <= now + Early
  /\ worker' = [worker EXCEPT !.pc = "top"]
  /\ UNCHANGED <<now, sendLog, recorded, arrived>>

-----------------------------------------------------------------------------
(* The iteration of send_worker_loop that has the budget *)

\* The job was cancelled or taken meanwhile, or its rule is gone.
NothingToSend ==
  /\ worker.pc = "granted"
  /\ worker' = At("top")
  /\ UNCHANGED <<now, sendLog, recorded, arrived>>

\* record_send, before the request.
RecordSend ==
  /\ worker.pc = "granted" /\ Current < MaxSends
  /\ sendLog' = sendLog \cup {<<Current + 1, now>>}
  /\ recorded' = recorded \cup {<<Current + 1, now>>}
  /\ worker' = At("recorded")
  /\ UNCHANGED <<now, arrived>>

Request ==
  /\ worker.pc = "recorded"
  /\ worker' = At("sent")
  /\ UNCHANGED <<now, sendLog, recorded, arrived>>

\* Whatever PseudoGram answers, the request has reached its limiter.
Arrive ==
  /\ worker.pc = "sent"
  /\ arrived' = arrived \cup {<<Current, now>>}
  /\ worker' = At("answered")
  /\ UNCHANGED <<now, sendLog, recorded>>

\* The outcome is written, the next iteration begins; the worker prunes at times.
Iterate ==
  /\ worker.pc = "answered"
  /\ worker' = At("top")
  /\ UNCHANGED <<now, sendLog, recorded, arrived>>

\* Mutant: the ledger is pruned of rows that still count.
PruneEarly ==
  /\ worker.pc = "answered"
  /\ sendLog' = {s \in sendLog : s[2] + 1 >= now}
  /\ UNCHANGED <<now, worker, recorded, arrived>>

Prune ==
  /\ worker.pc = "answered"
  /\ sendLog' = {s \in sendLog : s[2] + PruneAge >= now}
  /\ UNCHANGED <<now, worker, recorded, arrived>>

(***************************************************************************)
(* A timeout, an exception or a crash.  A request already at the limiter   *)
(* has arrived; one that is still on its way is not followed any further.  *)
(***************************************************************************)
GiveUp ==
  /\ worker.pc # "top"
  /\ worker' = At("top")
  /\ UNCHANGED <<now, sendLog, recorded, arrived>>

Next ==
  \/ Tick
  \/ UsedInWindow \/ Sleep \/ Wake
  \/ NothingToSend \/ RecordSend \/ Request \/ Arrive
  \/ Iterate \/ Prune \/ GiveUp

Spec == Init /\ [][Next]_vars

-----------------------------------------------------------------------------
TypeOK ==
  /\ now \in Ticks
  /\ sendLog \in SUBSET (Sends \X Ticks)
  /\ recorded \in SUBSET (Sends \X Ticks)
  /\ worker \in [pc : WorkerPCs, until : 0 .. now + Window, sleeps : 0 .. 2]
  /\ arrived \in SUBSET (Sends \X Ticks)

\* What of S lies in the window that ends at tick t.
Span(S, t) == {s \in S : s[2] <= t /\ s[2] + Window > t}

(***************************************************************************)
(* In no rolling window are more than Max requests recorded, although the  *)
(* budget is read some time before the row is written, the process may     *)
(* crash in between, and old rows are pruned (ratelimit.py).               *)
(***************************************************************************)
BudgetKept == \A t \in Ticks : Cardinality(Span(recorded, t)) <= Max

(***************************************************************************)
(* Of the requests that arrive while the worker waits for them, at most    *)
(* Max + 1 reach PseudoGram in any window of its own: a row is recorded    *)
(* before the request and the next one after the answer, so the delay of   *)
(* one request is all that the two windows can differ by, which is the     *)
(* request config.RATE_LIMIT_MAX banks (worker.py _send_one).              *)
(***************************************************************************)
LimitKept ==
  \A t \in Ticks : Cardinality(Span(arrived, t)) <= Max + 1

(***************************************************************************)
(* A worker that finds the window full has slept at most once for this     *)
(* slot: the sleep may be cut short by the clocks, as wait_for_budget says *)
(* of its loop, and then the floor of the second carries it past the edge. *)
(* However far the queries and the sleeps are apart the loop neither spins *)
(* nor sleeps a third time (ratelimit.py _seconds_until_slot).             *)
(***************************************************************************)
TwoSleepsAreEnough == worker.pc = "full" => worker.sleeps < 2

=============================================================================
