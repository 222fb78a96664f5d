-------------------------- MODULE Delivery_proofs --------------------------
(***************************************************************************)
(* Proofs about Delivery, for every set of jobs, rules, comments and users *)
(* and every positive MaxAttempts and MaxCycles.                           *)
(*                                                                         *)
(* Everything rests on the inductive invariant IInv of Delivery.  There is *)
(* one lemma per action, or per group of actions with one effect: the      *)
(* writes of the worker to its row (Record), those of the reconciler to a  *)
(* polled row (Resolve), the changes of a whole set of rows (Restatus),    *)
(* and the changes of the server's DMs (DmForward).                        *)
(*                                                                         *)
(* The refinement of Promise comes last.  A step that creates no row, ends *)
(* none and delivers nothing is a stutter (QuietRefines); a new row is     *)
(* Owe, a cancellation Withdraw, a delivered DM Deliver, and a row that is *)
(* confirmed or given up Confirm or GiveUp.                                *)
(***************************************************************************)
EXTENDS Delivery, TLAPS

\* The empty tables of a fresh database satisfy the inductive invariant.
LEMMA InitInv == Init => IInv
<1> SUFFICES ASSUME Init PROVE IInv
  OBVIOUS
<1> USE ConfigAssumption DEF Init, NoRow, IdleWorker, NoPoll, Cycles, Keys, TablesInit
<1>1. TypeOK
  BY DEF TypeOK, Row, Worker, Poll, Statuses, Owed, Terminal, Errors, WorkerPCs,
         PollPCs, DmStates
<1>2. RowsWellFormed /\ RowsNameTheirDM /\ CyclesInOrder /\ WorkerHoldsRow
  BY DEF RowsWellFormed, RowsNameTheirDM, CyclesInOrder, WorkerHoldsRow
<1>3. PollsAreCurrent /\ PollsAreTrue /\ OneLiveRow /\ FailedOnlyWithCause
  BY DEF PollsAreCurrent, PollsAreTrue, OneLiveRow, FailedOnlyWithCause, Live, InStatus
<1> QED
  BY <1>1, <1>2, <1>3 DEF IInv

\* Each part of the invariant is kept by a step that leaves alone the state it
\* speaks of.
LEMMA Frame ==
  ASSUME IInv
  PROVE  /\ UNCHANGED <<jobs, rules>> => RowsWellFormed'
         /\ UNCHANGED jobs => OneLiveRow'
         /\ UNCHANGED <<jobs, dms>> => RowsNameTheirDM' /\ FailedOnlyWithCause'
         /\ UNCHANGED <<jobs, dms, late>> => CyclesInOrder'
         /\ UNCHANGED <<worker, jobs, dms>> => WorkerHoldsRow'
         /\ UNCHANGED <<batch, jobs, dms>> => PollsAreCurrent' /\ PollsAreTrue'
<1> USE DEF IInv
<1>1. UNCHANGED <<jobs, rules>> => RowsWellFormed'
  BY DEF RowsWellFormed
<1>2. UNCHANGED jobs => OneLiveRow'
  BY DEF OneLiveRow, Live, IsFor
<1>3. UNCHANGED <<jobs, dms>> => RowsNameTheirDM' /\ FailedOnlyWithCause'
  BY DEF RowsNameTheirDM, FailedOnlyWithCause, InStatus
<1>4. UNCHANGED <<jobs, dms, late>> => CyclesInOrder'
  BY DEF CyclesInOrder
<1>5. UNCHANGED <<worker, jobs, dms>> => WorkerHoldsRow'
  BY DEF WorkerHoldsRow, Key
<1>6. UNCHANGED <<batch, jobs, dms>> => PollsAreCurrent' /\ PollsAreTrue'
  BY DEF PollsAreCurrent, PollsAreTrue
<1> QED
  BY <1>1, <1>2, <1>3, <1>4, <1>5, <1>6

\* A busy worker holds a SENDING row and the Idempotency-Key of that row's
\* cycle (worker.py claim_job, _send_one).
LEMMA WorkerKeyIsKnown ==
  ASSUME IInv, worker.pc # "idle"
  PROVE  /\ worker.job \in Jobs /\ jobs[worker.job].status = "SENDING"
         /\ Key = <<worker.job, jobs[worker.job].cycle>> /\ Key \in Keys
BY DEF IInv, WorkerHoldsRow, Key, Keys, TypeOK, Row

-----------------------------------------------------------------------------
\* Steps that neither touch the server nor renumber a cycle keep the order of
\* the cycles.
LEMMA CyclesKept ==
  ASSUME IInv, UNCHANGED <<dms, late>>,
         \A j \in Jobs : /\ jobs'[j].cycle = jobs[j].cycle
                         /\ jobs[j].status # "ABSENT" => jobs'[j].status # "ABSENT"
  PROVE  CyclesInOrder'
BY DEF IInv, CyclesInOrder

\* A write of the worker that keeps the row's pair and cycle keeps the
\* invariant (worker.py _send_one, _fail).
LEMMA RecordInv ==
  ASSUME IInv, NEW pc \in WorkerPCs \ {"idle"}, NEW row \in Row, Record(pc, row),
         row.rule = jobs[worker.job].rule, row.comment = jobs[worker.job].comment,
         row.cycle = jobs[worker.job].cycle,
         row.status \in {"QUEUED", "AWAITING_CONFIRM", "FAILED"},
         row.status = "QUEUED" => row.attempt < MaxAttempts,
         row.status = "AWAITING_CONFIRM" => row.dm = Key /\ dms[Key] # "none",
         row.status = "FAILED" =>
           \/ row.error = "bad_request"
           \/ row.error = "attempt_failed" /\ row.attempt = MaxAttempts
  PROVE  IInv'
<1> DEFINE h == worker.job
<1>1. /\ h \in Jobs /\ jobs[h].status = "SENDING" /\ Key = <<h, jobs[h].cycle>>
      /\ jobs[h].rule \in rules /\ jobs[h].comment \in Comments
  BY DEF IInv, WorkerHoldsRow, Record, Key, RowsWellFormed
<1>2. /\ jobs' = [jobs EXCEPT ![h] = row] /\ worker' = IdleWorker
      /\ UNCHANGED <<rules, batch, dms, late>>
  BY DEF Record
<1>3. /\ jobs'[h] = row
      /\ \A j \in Jobs \ {h} : jobs'[j] = jobs[j]
  BY <1>1, <1>2 DEF IInv, TypeOK
<1>4. TypeOK'
  BY <1>1, <1>2, ConfigAssumption DEF IInv, TypeOK, Worker, IdleWorker, WorkerPCs, Cycles
<1> HIDE DEF h
<1>5. RowsWellFormed'
  BY <1>1, <1>2, <1>3 DEF IInv, RowsWellFormed, h
<1>6. RowsNameTheirDM'
  BY <1>1, <1>2, <1>3 DEF IInv, RowsNameTheirDM, h
<1>7. CyclesInOrder'
  BY <1>1, <1>2, <1>3, CyclesKept DEF h
<1>8. WorkerHoldsRow'
  BY <1>2 DEF WorkerHoldsRow, IdleWorker
<1>9. PollsAreCurrent' /\ PollsAreTrue'
  BY <1>1, <1>2, <1>3 DEF IInv, PollsAreCurrent, PollsAreTrue
<1>10. OneLiveRow'
  BY <1>1, <1>2, <1>3 DEF IInv, OneLiveRow, Live, IsFor, h
<1>11. FailedOnlyWithCause'
  BY <1>1, <1>2, <1>3 DEF IInv, FailedOnlyWithCause, InStatus
<1> QED
  BY <1>4, <1>5, <1>6, <1>7, <1>8, <1>9, <1>10, <1>11 DEF IInv

\* A write of the reconciler to the row it polled keeps the invariant
\* (reconciler.py _reconcile_one, _requeue_new_cycle).
LEMMA ResolveInv ==
  ASSUME IInv, NEW j \in Jobs, batch[j].pc # "none",
         NEW row \in Row, Resolve(j, row),
         row.rule = jobs[j].rule, row.comment = jobs[j].comment,
         \/ /\ row.status = "SENT" /\ row.cycle = jobs[j].cycle
            /\ row.dm = jobs[j].dm /\ dms[row.dm] = "delivered"
         \/ /\ row.status = "FAILED" /\ row.cycle = jobs[j].cycle
            /\ row.error = "undelivered" /\ \A c \in Cycles : dms[<<j, c>>] = "failed"
         \/ /\ row.status = "QUEUED" /\ row.cycle = jobs[j].cycle + 1
            /\ row.attempt = 0 /\ dms[jobs[j].dm] = "failed"
  PROVE  IInv'
<1>1. /\ jobs[j].status = "AWAITING_CONFIRM" /\ jobs[j].dm = <<j, jobs[j].cycle>>
      /\ jobs[j].rule \in rules /\ jobs[j].comment \in Comments
      /\ dms[jobs[j].dm] # "none"
  BY DEF IInv, PollsAreCurrent, RowsWellFormed
<1>2. /\ jobs' = [jobs EXCEPT ![j] = row] /\ batch' = [batch EXCEPT ![j] = NoPoll]
      /\ UNCHANGED <<rules, worker, dms, late>>
  BY DEF Resolve
<1>3. /\ jobs'[j] = row /\ batch'[j] = NoPoll
      /\ \A i \in Jobs \ {j} : jobs'[i] = jobs[i] /\ batch'[i] = batch[i]
  BY <1>2 DEF IInv, TypeOK
<1>4. TypeOK'
  BY <1>2, ConfigAssumption DEF IInv, TypeOK, Poll, NoPoll, PollPCs, Cycles
<1>5. RowsWellFormed'
  BY <1>1, <1>2, <1>3, ConfigAssumption DEF IInv, RowsWellFormed
<1>6. RowsNameTheirDM'
  BY <1>1, <1>2, <1>3 DEF IInv, RowsNameTheirDM
<1>7. CyclesInOrder'
  <2>1. \A i \in Jobs : jobs[i].cycle \in Nat
    BY ConfigAssumption DEF IInv, TypeOK, Row, Cycles
  <2>2. \A c \in Cycles : c \in Nat
    BY ConfigAssumption DEF Cycles
  <2>3. ASSUME NEW c \in Cycles, c < row.cycle
        PROVE  dms[<<j, c>>] = "failed"
    <3>1. CASE c < jobs[j].cycle
      BY <3>1 DEF IInv, CyclesInOrder
    <3>2. CASE c = jobs[j].cycle
      BY <3>2, <2>3, <1>1, <2>2
    <3> QED
      BY <2>1, <2>2, <2>3, <3>1, <3>2
  <2>4. row.cycle >= jobs[j].cycle
    BY <2>1
  <2>5. ASSUME NEW c \in Cycles, dms[<<j, c>>] # "none" \/ <<j, c>> \in late
        PROVE  row.status # "ABSENT" /\ c <= row.cycle
    <3>1. c <= jobs[j].cycle
      BY <2>5 DEF IInv, CyclesInOrder
    <3>2. c <= row.cycle
      BY <3>1, <2>1, <2>2, <2>4
    <3> QED
      BY <3>2
  <2>6. ASSUME NEW i \in Jobs \ {j}, NEW c \in Cycles
        PROVE  /\ c < jobs'[i].cycle => dms'[<<i, c>>] = "failed"
               /\ dms'[<<i, c>>] # "none" \/ <<i, c>> \in late' =>
                    jobs'[i].status # "ABSENT" /\ c <= jobs'[i].cycle
    BY <1>2, <1>3 DEF IInv, CyclesInOrder
  <2>7. ASSUME NEW c \in Cycles
        PROVE  /\ c < jobs'[j].cycle => dms'[<<j, c>>] = "failed"
               /\ dms'[<<j, c>>] # "none" \/ <<j, c>> \in late' =>
                    jobs'[j].status # "ABSENT" /\ c <= jobs'[j].cycle
    BY <1>2, <1>3, <2>3, <2>5
  <2> QED
    BY <2>6, <2>7 DEF CyclesInOrder
<1>8. WorkerHoldsRow'
  BY <1>1, <1>2, <1>3 DEF IInv, WorkerHoldsRow, Key
<1>9. PollsAreCurrent' /\ PollsAreTrue'
  BY <1>1, <1>2, <1>3 DEF IInv, PollsAreCurrent, PollsAreTrue, NoPoll
<1>10. OneLiveRow'
  BY <1>1, <1>2, <1>3 DEF IInv, OneLiveRow, Live, IsFor
<1>11. FailedOnlyWithCause'
  BY <1>1, <1>2, <1>3 DEF IInv, FailedOnlyWithCause, InStatus
<1> QED
  BY <1>4, <1>5, <1>6, <1>7, <1>8, <1>9, <1>10, <1>11 DEF IInv

-----------------------------------------------------------------------------
\* Creating and deleting a rule keep the invariant: the foreign key protects
\* the rows (rules.py create_rule, delete_rule).
LEMMA RulesInv ==
  ASSUME IInv, UNCHANGED deliveryVars, NEW r \in Rules, AddRule(r) \/ RemoveRule(r)
  PROVE  IInv'
<1> USE DEF deliveryVars
<1>1. RowsWellFormed'
  BY ConfigAssumption DEF IInv, RowsWellFormed, AddRule, RemoveRule, NoRow
<1>2. TypeOK'
  BY DEF IInv, TypeOK, AddRule, RemoveRule
<1>3. UNCHANGED <<jobs, worker, batch, dms, late>>
  BY DEF AddRule, RemoveRule
<1> QED
  BY <1>1, <1>2, <1>3, Frame DEF IInv

\* The matcher's insert keeps the invariant: uq_live_job admits no second live
\* row (matcher.py _ensure_obligation).
LEMMA InsertJobInv ==
  ASSUME IInv, UNCHANGED deliveryVars, NEW r \in Rules, NEW c \in Comments, InsertJob(r, c)
  PROVE  IInv'
<1> USE DEF deliveryVars
<1>1. PICK j \in InStatus("ABSENT") : jobs' = [jobs EXCEPT ![j] = NewRow(r, c)]
  BY DEF InsertJob
<1>2. /\ NewRow(r, c).status = "QUEUED" /\ NewRow(r, c).attempt = 0
      /\ NewRow(r, c).rule = r /\ NewRow(r, c).comment = c
      /\ NewRow(r, c).cycle = 0 /\ NewRow(r, c) \in Row
  BY ConfigAssumption DEF NewRow, Row, Statuses, Owed, Errors, Cycles
<1>3. /\ j \in Jobs /\ jobs[j].status = "ABSENT" /\ jobs[j].cycle = 0
      /\ jobs'[j] = NewRow(r, c) /\ \A i \in Jobs \ {j} : jobs'[i] = jobs[i]
      /\ r \in rules /\ UNCHANGED <<rules, worker, batch, dms, late>>
  BY <1>1 DEF InStatus, IInv, TypeOK, RowsWellFormed, NoRow, InsertJob
<1>4. TypeOK'
  BY <1>1, <1>2, <1>3 DEF IInv, TypeOK
<1>5. RowsWellFormed'
  BY <1>2, <1>3, ConfigAssumption DEF IInv, RowsWellFormed
<1>6. RowsNameTheirDM' /\ FailedOnlyWithCause'
  BY <1>2, <1>3 DEF IInv, RowsNameTheirDM, FailedOnlyWithCause, InStatus
<1>7. CyclesInOrder'
  BY <1>2, <1>3, CyclesKept
<1>8. WorkerHoldsRow' /\ PollsAreCurrent' /\ PollsAreTrue'
  BY <1>3 DEF IInv, WorkerHoldsRow, PollsAreCurrent, PollsAreTrue, Key
<1>9. OneLiveRow'
  <2>1. \A i \in Jobs : Live(i) => ~(jobs[i].rule = r /\ Author[jobs[i].comment] = Author[c])
    BY DEF InsertJob, HasLiveRow, IsFor
  <2> QED
    BY <1>2, <1>3, <2>1 DEF IInv, OneLiveRow, Live, IsFor
<1> QED
  BY <1>4, <1>5, <1>6, <1>7, <1>8, <1>9 DEF IInv

\* The rows of S change from one status to another, and nothing else.
Restatus(S, from, to) ==
  /\ \A j \in S : jobs[j].status = from
  /\ jobs' = [j \in Jobs |-> IF j \in S THEN [jobs[j] EXCEPT !.status = to]
                                       ELSE jobs[j]]
  /\ UNCHANGED <<rules, worker, batch, dms, late>>

\* Moving a set of rows to another status, with no actor holding them, keeps
\* the invariant.
LEMMA RestatusInv ==
  ASSUME IInv, NEW S \in SUBSET Jobs, NEW from, NEW to, Restatus(S, from, to),
         \/ from = "QUEUED" /\ to = "CANCELLED"
         \/ from = "SENDING" /\ to = "QUEUED" /\ worker.pc = "idle"
  PROVE  IInv'
<1> USE DEF Restatus
<1>1. \A j \in Jobs :
        /\ j \notin S => jobs'[j] = jobs[j]
        /\ j \in S => jobs'[j].status = to
        /\ jobs'[j].rule = jobs[j].rule /\ jobs'[j].comment = jobs[j].comment
        /\ jobs'[j].attempt = jobs[j].attempt /\ jobs'[j].cycle = jobs[j].cycle
        /\ jobs'[j] \in Row
  BY DEF IInv, TypeOK, Row, Statuses, Owed, Terminal
<1>2. /\ from \in {"QUEUED", "SENDING"} /\ to \in {"CANCELLED", "QUEUED"}
      /\ to = "CANCELLED" => from = "QUEUED"
  OBVIOUS
<1>3. TypeOK'
  BY <1>1 DEF IInv, TypeOK
<1>4. RowsWellFormed'
  BY <1>1, <1>2 DEF IInv, RowsWellFormed
<1>5. RowsNameTheirDM' /\ FailedOnlyWithCause'
  BY <1>1, <1>2 DEF IInv, RowsNameTheirDM, FailedOnlyWithCause, InStatus
<1>6. CyclesInOrder'
  BY <1>1, <1>2, CyclesKept
<1>7. WorkerHoldsRow'
  BY <1>1, <1>2 DEF IInv, WorkerHoldsRow, Key
<1>8. PollsAreCurrent' /\ PollsAreTrue'
  BY <1>1, <1>2 DEF IInv, PollsAreCurrent, PollsAreTrue
<1>9. OneLiveRow'
  BY <1>1, <1>2 DEF IInv, OneLiveRow, Live, IsFor
<1> QED
  BY <1>3, <1>4, <1>5, <1>6, <1>7, <1>8, <1>9 DEF IInv

\* The cancellation by a deleted comment keeps the invariant (matcher.py
\* _handle_deleted).
LEMMA CancelJobsInv ==
  ASSUME IInv, UNCHANGED deliveryVars, NEW c \in Comments, CancelJobs(c)
  PROVE  IInv'
<1> DEFINE hit == {j \in Jobs : jobs[j].status = "QUEUED" /\ jobs[j].comment = c}
<1>1. /\ UNCHANGED <<rules, worker, batch, dms, late>>
      /\ jobs' = [j \in Jobs |-> IF j \in hit
                                 THEN [jobs[j] EXCEPT !.status = "CANCELLED"] ELSE jobs[j]]
  BY DEF CancelJobs, CancelRows, deliveryVars
<1>2. Restatus(hit, "QUEUED", "CANCELLED")
  BY <1>1 DEF Restatus
<1> QED
  BY <1>2, RestatusInv

\* Recovering orphans keeps the invariant (worker.py requeue_stale_sending).
LEMMA RequeueStaleInv ==
  ASSUME IInv, NEW old \in SUBSET InStatus("SENDING"), RequeueStale(old)
  PROVE  IInv'
<1>1. Restatus(old, "SENDING", "QUEUED") /\ worker.pc = "idle"
  BY DEF RequeueStale, Restatus, InStatus
<1>2. old \in SUBSET Jobs
  BY DEF InStatus
<1> QED
  BY <1>1, <1>2, RestatusInv

\* Claiming a row keeps the invariant (worker.py claim_job).
LEMMA ClaimInv ==
  ASSUME IInv, NEW j \in Jobs, Claim(j)
  PROVE  IInv'
<1>1. /\ worker.pc = "idle" /\ jobs[j].status = "QUEUED"
      /\ worker' = [pc |-> "claimed", job |-> j,
                    attempt |-> jobs[j].attempt, cycle |-> jobs[j].cycle]
      /\ UNCHANGED <<rules, batch, dms, late>>
  BY DEF Claim
<1>2. \A i \in Jobs :
        /\ jobs'[i].status = IF i = j THEN "SENDING" ELSE jobs[i].status
        /\ jobs'[i].rule = jobs[i].rule /\ jobs'[i].comment = jobs[i].comment
        /\ jobs'[i].attempt = jobs[i].attempt /\ jobs'[i].cycle = jobs[i].cycle
        /\ jobs'[i].dm = jobs[i].dm /\ jobs'[i].error = jobs[i].error
        /\ i # j => jobs'[i] = jobs[i]
  BY DEF Claim, IInv, TypeOK, Row
<1>3. TypeOK'
  <2>1. jobs' \in [Jobs -> Row]
    BY DEF Claim, IInv, TypeOK, Row, Statuses, Owed
  <2>2. worker' \in Worker
    BY <1>1 DEF IInv, TypeOK, Row, Worker, WorkerPCs
  <2> QED
    BY <1>1, <2>1, <2>2 DEF IInv, TypeOK
<1>4. RowsWellFormed'
  BY <1>1, <1>2 DEF IInv, RowsWellFormed
<1>5. RowsNameTheirDM' /\ FailedOnlyWithCause'
  BY <1>1, <1>2 DEF IInv, RowsNameTheirDM, FailedOnlyWithCause, InStatus
<1>6. CyclesInOrder'
  BY <1>1, <1>2, CyclesKept
<1>7. WorkerHoldsRow'
  BY <1>1, <1>2 DEF WorkerHoldsRow
<1>8. PollsAreCurrent' /\ PollsAreTrue'
  BY <1>1, <1>2 DEF IInv, PollsAreCurrent, PollsAreTrue
<1>9. OneLiveRow'
  BY <1>1, <1>2 DEF IInv, OneLiveRow, Live, IsFor
<1> QED
  BY <1>3, <1>4, <1>5, <1>6, <1>7, <1>8, <1>9 DEF IInv

\* The worker moves on without a write: its lookup, or an answer that creates no DM.
LEMMA WorkerMovesInv ==
  ASSUME IInv, StartSend \/ \E reply \in {"rate_limited", "bad_request"} : AnswerRefused(reply)
  PROVE  IInv'
<1>1. /\ worker.pc # "idle" /\ UNCHANGED <<jobs, rules, batch, dms, late>>
      /\ \E pc \in {"sending", "rate_limited", "bad_request"} :
           worker' = [worker EXCEPT !.pc = pc]
  BY DEF StartSend, AnswerRefused, IInv, WorkerHoldsRow, RowsWellFormed
<1>2. TypeOK'
  BY <1>1 DEF IInv, TypeOK, Worker, WorkerPCs
<1>3. WorkerHoldsRow'
  BY <1>1 DEF IInv, TypeOK, Worker, WorkerHoldsRow
<1> QED
  BY <1>1, <1>2, <1>3, Frame DEF IInv

\* A DM comes into being under a key in use, or a queued DM is settled.
DmForward(k) ==
  \/ dms' = dms
  \/ dms[k] = "none" /\ dms' = [dms EXCEPT ![k] = "queued"]
  \/ \E s \in {"delivered", "failed"} :
       dms[k] = "queued" /\ dms' = [dms EXCEPT ![k] = s]

\* A request that lands only creates its DM, and only if its key was unused.
LEMMA CreateIsForward ==
  ASSUME IInv, NEW k \in Keys, Create(k)
  PROVE  DmForward(k) /\ dms'[k] # "none"
BY DEF Create, DmForward, IInv, TypeOK, DmStates

\* What a forward step of one DM does to the parts of the invariant about the
\* server.
LEMMA DmForwardInv ==
  ASSUME IInv, NEW k \in Keys, DmForward(k), UNCHANGED jobs,
         late' \in SUBSET Keys, late' \subseteq late \cup {k},
         jobs[k[1]].status # "ABSENT" /\ k[2] <= jobs[k[1]].cycle
  PROVE  /\ dms' \in [Keys -> DmStates]
         /\ \A i \in Keys : /\ dms[i] \in {"delivered", "failed"} => dms'[i] = dms[i]
                            /\ dms[i] # "none" => dms'[i] # "none"
         /\ RowsNameTheirDM' /\ CyclesInOrder' /\ FailedOnlyWithCause'
         /\ UNCHANGED batch => PollsAreCurrent' /\ PollsAreTrue'
<1>1. dms' \in [Keys -> DmStates]
  BY DEF DmForward, IInv, TypeOK, DmStates
<1>2. \A i \in Keys : /\ i # k => dms'[i] = dms[i]
                      /\ dms[i] \in {"delivered", "failed"} => dms'[i] = dms[i]
                      /\ dms[i] # "none" => dms'[i] # "none"
  BY DEF DmForward, IInv, TypeOK
<1>3. \A j \in Jobs : /\ \A c \in Cycles : <<j, c>> \in Keys
                      /\ <<j, jobs[j].cycle>> \in Keys
  BY DEF Keys, IInv, TypeOK, Row
<1>4. RowsNameTheirDM'
  BY <1>2, <1>3 DEF IInv, RowsNameTheirDM
<1>5. CyclesInOrder'
  <2>1. ASSUME NEW j \in Jobs, NEW c \in Cycles, c < jobs[j].cycle
        PROVE  dms'[<<j, c>>] = "failed"
    BY <1>2, <1>3, <2>1 DEF IInv, CyclesInOrder
  <2>2. ASSUME NEW j \in Jobs, NEW c \in Cycles,
               dms'[<<j, c>>] # "none" \/ <<j, c>> \in late'
        PROVE  jobs[j].status # "ABSENT" /\ c <= jobs[j].cycle
    <3>1. CASE <<j, c>> = k
      BY <3>1
    <3>2. CASE <<j, c>> # k
      BY <1>2, <1>3, <2>2, <3>2 DEF IInv, CyclesInOrder
    <3> QED
      BY <3>1, <3>2
  <2> QED
    BY <2>1, <2>2 DEF CyclesInOrder
<1>6. FailedOnlyWithCause'
  BY <1>2, <1>3 DEF IInv, FailedOnlyWithCause, InStatus
<1>7. UNCHANGED batch => PollsAreCurrent' /\ PollsAreTrue'
  <2>1. \A j \in Jobs : batch[j].pc # "none" => batch[j].dm \in Keys
    BY <1>3 DEF IInv, PollsAreCurrent
  <2> QED
    BY <1>2, <1>3, <2>1 DEF IInv, PollsAreCurrent, PollsAreTrue
<1> QED
  BY <1>1, <1>2, <1>4, <1>5, <1>6, <1>7

\* A key that was used, may still be used, or is in the worker's hand, belongs
\* to a cycle its row has reached.
LEMMA KeysInUse ==
  ASSUME IInv, NEW k \in Keys, k \in late \/ dms[k] # "none" \/ (worker.pc # "idle" /\ k = Key)
  PROVE  jobs[k[1]].status # "ABSENT" /\ k[2] <= jobs[k[1]].cycle
<1>1. CASE k \in late \/ dms[k] # "none"
  <2>1. PICK j \in Jobs, c \in Cycles : k = <<j, c>>
    BY DEF Keys
  <2> QED
    BY <1>1, <2>1 DEF IInv, CyclesInOrder
<1>2. CASE worker.pc # "idle" /\ k = Key
  <2>1. jobs[worker.job].cycle \in Nat
    BY <1>2, WorkerKeyIsKnown, ConfigAssumption DEF IInv, TypeOK, Row, Cycles
  <2> QED
    BY <1>2, <2>1, WorkerKeyIsKnown
<1> QED
  BY <1>1, <1>2

\* The answers that may create a DM keep the invariant (worker.py _send_one).
LEMMA ServerAnswersInv ==
  ASSUME IInv, AnswerAccepted \/ AnswerServerError \/ TransportError
  PROVE  IInv'
<1>1. /\ worker.pc = "sending" /\ UNCHANGED <<jobs, rules, batch>>
      /\ late' \subseteq late \cup {Key}
      /\ \/ worker' = [worker EXCEPT !.pc = "accepted"] /\ Create(Key)
         \/ worker' = [worker EXCEPT !.pc = "error"] /\ (Create(Key) \/ dms' = dms)
  BY DEF AnswerAccepted, AnswerServerError, TransportError
<1>2. Key \in Keys /\ worker.job \in Jobs /\ worker.cycle \in Cycles
  BY <1>1, WorkerKeyIsKnown DEF IInv, TypeOK, Worker
<1>3. DmForward(Key) /\ (Create(Key) => dms'[Key] # "none")
  BY <1>1, <1>2, CreateIsForward DEF DmForward
<1>4. late' \in SUBSET Keys
  BY <1>1, <1>2 DEF IInv, TypeOK
<1>5. /\ dms' \in [Keys -> DmStates]
      /\ RowsNameTheirDM' /\ CyclesInOrder' /\ FailedOnlyWithCause'
      /\ PollsAreCurrent' /\ PollsAreTrue'
  BY <1>1, <1>2, <1>3, <1>4, KeysInUse, DmForwardInv
<1>6. TypeOK'
  BY <1>1, <1>4, <1>5 DEF IInv, TypeOK, Worker, WorkerPCs
<1>7. WorkerHoldsRow'
  <2>1. /\ worker'.job = worker.job /\ worker'.cycle = worker.cycle
        /\ worker'.attempt = worker.attempt
        /\ \/ worker'.pc = "accepted" /\ Create(Key)
           \/ worker'.pc = "error"
    BY <1>1 DEF IInv, TypeOK, Worker
  <2>2. Key' = Key
    BY <2>1 DEF Key
  <2> QED
    BY <1>1, <1>3, <2>1, <2>2 DEF IInv, WorkerHoldsRow
<1> QED
  BY <1>1, <1>5, <1>6, <1>7, Frame DEF IInv

\* A late arrival and a settlement keep the invariant.
LEMMA DmChangesInv ==
  ASSUME IInv, NEW k \in Keys,
         \/ k \in late /\ LateArrival(k)
         \/ Settle(k)
  PROVE  IInv'
<1>1. /\ UNCHANGED <<jobs, rules, worker, batch>> /\ late' \subseteq late
      /\ k \in late \/ dms[k] # "none"
  BY DEF LateArrival, Settle
<1>2. DmForward(k)
  BY CreateIsForward DEF LateArrival, Settle, DmForward
<1>3. late' \in SUBSET Keys
  BY <1>1 DEF IInv, TypeOK
<1>4. /\ dms' \in [Keys -> DmStates] /\ \A i \in Keys : dms[i] # "none" => dms'[i] # "none"
      /\ RowsNameTheirDM' /\ CyclesInOrder' /\ FailedOnlyWithCause'
      /\ PollsAreCurrent' /\ PollsAreTrue'
  BY <1>1, <1>2, <1>3, KeysInUse, DmForwardInv
<1>5. TypeOK'
  BY <1>1, <1>3, <1>4 DEF IInv, TypeOK
<1>6. WorkerHoldsRow'
  BY <1>1, <1>4, WorkerKeyIsKnown DEF IInv, WorkerHoldsRow, Key
<1> QED
  BY <1>1, <1>4, <1>5, <1>6, Frame DEF IInv

\* The reconciler's SELECT keeps the invariant (reconciler.py reconciler_loop).
LEMMA FetchBatchInv ==
  ASSUME IInv, NEW due \in SUBSET InStatus("AWAITING_CONFIRM"), FetchBatch(due)
  PROVE  IInv'
<1>1. /\ UNCHANGED <<jobs, rules, worker, dms, late>>
      /\ \A j \in due :
           batch'[j] = [pc |-> "polling", dm |-> jobs[j].dm, cycle |-> jobs[j].cycle]
      /\ \A j \in Jobs \ due : batch'[j] = NoPoll
  BY DEF FetchBatch, InStatus
<1>2. TypeOK'
  <2>1. batch' \in [Jobs -> Poll]
    BY ConfigAssumption DEF FetchBatch, IInv, TypeOK, Row, Poll, PollPCs, NoPoll, Cycles
  <2> QED
    BY <1>1, <2>1 DEF IInv, TypeOK
<1>3. \A j \in due : /\ j \in Jobs /\ jobs[j].status = "AWAITING_CONFIRM"
                      /\ jobs[j].dm = <<j, jobs[j].cycle>> /\ dms[jobs[j].dm] # "none"
  BY DEF IInv, RowsNameTheirDM, InStatus
<1>4. ASSUME NEW j \in due
      PROVE  /\ batch'[j].pc = "polling" /\ batch'[j].dm = jobs[j].dm
             /\ batch'[j].cycle = jobs[j].cycle
  <2>1. batch'[j] = [pc |-> "polling", dm |-> jobs[j].dm, cycle |-> jobs[j].cycle]
    BY <1>1
  <2> QED
    BY <2>1
<1>5. ASSUME NEW j \in Jobs \ due
      PROVE  batch'[j].pc = "none"
  BY <1>1 DEF NoPoll
<1>6. PollsAreCurrent' /\ PollsAreTrue'
  <2> SUFFICES ASSUME NEW j \in Jobs, batch'[j].pc # "none"
               PROVE  j \in due
    BY <1>1, <1>3, <1>4, <1>5 DEF PollsAreCurrent, PollsAreTrue
  <2> QED
    BY <1>5
<1> QED
  BY <1>1, <1>2, <1>6, Frame DEF IInv

\* A poll of the server keeps the invariant: what was read stays true
\* (reconciler.py _reconcile_one).
LEMMA ReadStatusInv ==
  ASSUME IInv, NEW j \in Jobs, ReadStatus(j)
  PROVE  IInv'
<1>0. batch[j].dm # Null
  <2>1. batch[j].dm = <<j, jobs[j].cycle>>
    BY DEF ReadStatus, IInv, PollsAreCurrent
  <2>2. jobs[j].cycle \in Cycles
    BY DEF IInv, TypeOK, Row
  <2> QED
    BY <2>1, <2>2, ConfigAssumption DEF Keys
<1>1. PICK answer \in {"delivered", "failed", "unknown"} :
        /\ answer # "unknown" => dms[batch[j].dm] = answer
        /\ batch' = [batch EXCEPT ![j].pc = answer]
  BY <1>0 DEF ReadStatus
<1>2. UNCHANGED <<jobs, rules, worker, dms, late>> /\ batch[j].pc = "polling"
  BY DEF ReadStatus
<1>3. TypeOK'
  BY <1>1, <1>2 DEF IInv, TypeOK, Poll, PollPCs
<1>4. PollsAreCurrent' /\ PollsAreTrue'
  BY <1>1, <1>2 DEF IInv, TypeOK, Poll, PollsAreCurrent, PollsAreTrue
<1> QED
  BY <1>2, <1>3, <1>4, Frame DEF IInv

\* A poll is dropped, the claimed job is dropped, or both with the process.
LEMMA DropInv ==
  ASSUME IInv, WorkerException \/ Crash \/ \E j \in Jobs : Reschedule(j)
  PROVE  IInv'
<1>1. /\ UNCHANGED <<jobs, rules, dms>>
      /\ worker' \in {worker, IdleWorker}
      /\ batch' \in [Jobs -> Poll]
      /\ \A j \in Jobs : batch'[j] \in {batch[j], NoPoll}
      /\ late' = late \/ late' = late \cup Abandoned
  BY ConfigAssumption DEF WorkerException, Crash, Reschedule, IInv, TypeOK, NoPoll, Poll, PollPCs, Cycles
<1>2. Abandoned \subseteq Keys
  BY WorkerKeyIsKnown DEF Abandoned
<1>3. TypeOK'
  BY <1>1, <1>2, ConfigAssumption DEF IInv, TypeOK, IdleWorker, Worker, WorkerPCs, Cycles
<1>4. WorkerHoldsRow'
  BY <1>1 DEF IInv, WorkerHoldsRow, IdleWorker, Key
<1>5. PollsAreCurrent' /\ PollsAreTrue'
  BY <1>1 DEF IInv, PollsAreCurrent, PollsAreTrue, NoPoll
<1>6. CyclesInOrder'
  <2>1. \A j \in Jobs, c \in Cycles : <<j, c>> \in Abandoned =>
          jobs[j].status # "ABSENT" /\ c <= jobs[j].cycle
    BY <1>2, KeysInUse DEF Abandoned
  <2> QED
    BY <1>1, <2>1 DEF IInv, CyclesInOrder
<1> QED
  BY <1>1, <1>3, <1>4, <1>5, <1>6, Frame DEF IInv

\* Every outcome the worker writes keeps the invariant (worker.py _send_one,
\* _fail).
LEMMA RecordsInv ==
  ASSUME IInv,
         \/ RecordAccepted \/ RecordRateLimited \/ RecordUnsendable \/ RecordFailedAttempt
  PROVE  IInv'
<1> DEFINE h == jobs[worker.job]
<1>1. worker.pc # "idle"
  BY DEF RecordAccepted, RecordRateLimited, RecordUnsendable, RecordFailedAttempt, Record
<1>2. /\ h \in Row /\ h.attempt < MaxAttempts /\ worker.attempt = h.attempt
      /\ worker.pc # "no_rule" /\ Key \in Keys
      /\ worker.pc = "accepted" => dms[Key] # "none"
  BY <1>1, WorkerKeyIsKnown DEF IInv, WorkerHoldsRow, RowsWellFormed, TypeOK
<1>3. CASE RecordAccepted
  <2> DEFINE row == [h EXCEPT !.status = "AWAITING_CONFIRM", !.dm = Key, !.error = "none"]
  <2>1. Record("accepted", row)
    BY <1>3 DEF RecordAccepted
  <2>2. /\ row \in Row /\ row.rule = h.rule /\ row.comment = h.comment
        /\ row.cycle = h.cycle /\ row.status = "AWAITING_CONFIRM" /\ row.dm = Key
    BY <1>2 DEF Row, Statuses, Owed, Errors
  <2>3. dms[Key] # "none"
    BY <1>2, <2>1 DEF Record
  <2> HIDE DEF row
  <2> QED
    BY <2>1, <2>2, <2>3, RecordInv DEF WorkerPCs
<1>4. CASE RecordRateLimited
  <2> DEFINE row == [h EXCEPT !.status = "QUEUED", !.error = "rate_limited"]
  <2>1. Record("rate_limited", row)
    BY <1>4 DEF RecordRateLimited
  <2>2. /\ row \in Row /\ row.rule = h.rule /\ row.comment = h.comment
        /\ row.cycle = h.cycle /\ row.status = "QUEUED" /\ row.attempt = h.attempt
    BY <1>2 DEF Row, Statuses, Owed, Errors
  <2> HIDE DEF row
  <2> QED
    BY <1>2, <2>1, <2>2, RecordInv DEF WorkerPCs
<1>5. CASE RecordUnsendable
  <2> DEFINE row == [h EXCEPT !.status = "FAILED", !.error = "bad_request"]
  <2>1. Record("bad_request", row)
    BY <1>2, <1>5 DEF RecordUnsendable
  <2>2. /\ row \in Row /\ row.rule = h.rule /\ row.comment = h.comment
        /\ row.cycle = h.cycle /\ row.status = "FAILED" /\ row.error = "bad_request"
    BY <1>2 DEF Row, Statuses, Terminal, Errors
  <2> HIDE DEF row
  <2> QED
    BY <2>1, <2>2, RecordInv DEF WorkerPCs
<1>6. CASE RecordFailedAttempt
  <2> DEFINE row == [h EXCEPT
        !.status = IF worker.attempt + 1 >= MaxAttempts THEN "FAILED" ELSE "QUEUED",
        !.attempt = worker.attempt + 1, !.error = "attempt_failed"]
  <2>1. Record("error", row)
    BY <1>6 DEF RecordFailedAttempt
  <2>2. worker.attempt + 1 \in 0 .. MaxAttempts
    BY <1>2, ConfigAssumption DEF Row
  <2>3. /\ row \in Row /\ row.rule = h.rule /\ row.comment = h.comment
        /\ row.cycle = h.cycle /\ row.error = "attempt_failed"
        /\ row.attempt = worker.attempt + 1
        /\ row.status = IF worker.attempt + 1 >= MaxAttempts THEN "FAILED" ELSE "QUEUED"
    BY <1>2, <2>2 DEF Row, Statuses, Owed, Terminal, Errors
  <2>4. /\ row.status \in {"FAILED", "QUEUED"}
        /\ row.status = "QUEUED" => row.attempt < MaxAttempts
        /\ row.status = "FAILED" => row.attempt = MaxAttempts
    BY <2>2, <2>3, ConfigAssumption
  <2> HIDE DEF row
  <2> QED
    BY <2>1, <2>3, <2>4, RecordInv DEF WorkerPCs
<1> QED
  BY <1>3, <1>4, <1>5, <1>6

\* Every outcome the reconciler writes keeps the invariant (reconciler.py
\* _reconcile_one).
LEMMA ResolvesInv ==
  ASSUME IInv, NEW j \in Jobs, ConfirmSent(j) \/ RequeueNewCycle(j) \/ GiveUp(j)
  PROVE  IInv'
<1>1. /\ batch[j].pc # "none" /\ batch[j].pc # "no_dm" /\ jobs[j] \in Row
      /\ batch[j].dm = jobs[j].dm /\ batch[j].cycle = jobs[j].cycle
      /\ batch[j].pc \in {"delivered", "failed"} => dms[jobs[j].dm] = batch[j].pc
      /\ jobs[j].dm = <<j, jobs[j].cycle>>
  BY DEF ConfirmSent, RequeueNewCycle, GiveUp, IInv, PollsAreCurrent, PollsAreTrue, TypeOK
<1>2. CASE ConfirmSent(j)
  <2> DEFINE row == [jobs[j] EXCEPT !.status = "SENT", !.error = "none"]
  <2>1. Resolve(j, row) /\ dms[jobs[j].dm] = "delivered"
    BY <1>1, <1>2 DEF ConfirmSent
  <2>2. /\ row \in Row /\ row.rule = jobs[j].rule /\ row.comment = jobs[j].comment
        /\ row.cycle = jobs[j].cycle /\ row.status = "SENT" /\ row.dm = jobs[j].dm
    BY <1>1 DEF Row, Statuses, Terminal, Errors
  <2> HIDE DEF row
  <2> QED
    BY <1>1, <2>1, <2>2, ResolveInv
<1>3. CASE RequeueNewCycle(j)
  <2> DEFINE row == [jobs[j] EXCEPT !.status = "QUEUED", !.cycle = jobs[j].cycle + 1,
                                    !.attempt = 0, !.dm = Null]
  <2>1. /\ Resolve(j, row) /\ dms[jobs[j].dm] = "failed"
        /\ jobs[j].cycle + 1 < MaxCycles
    BY <1>1, <1>3 DEF RequeueNewCycle
  <2>2. jobs[j].cycle + 1 \in Cycles /\ 0 \in 0 .. MaxAttempts
    BY <1>1, <2>1, ConfigAssumption DEF Row, Cycles
  <2>3. /\ row \in Row /\ row.rule = jobs[j].rule /\ row.comment = jobs[j].comment
        /\ row.cycle = jobs[j].cycle + 1 /\ row.status = "QUEUED" /\ row.attempt = 0
    BY <1>1, <2>2 DEF Row, Statuses, Owed
  <2> HIDE DEF row
  <2> QED
    BY <1>1, <2>1, <2>3, ResolveInv
<1>4. CASE GiveUp(j)
  <2> DEFINE row == [jobs[j] EXCEPT !.status = "FAILED", !.error = "undelivered"]
  <2>1. /\ Resolve(j, row) /\ dms[jobs[j].dm] = "failed"
        /\ jobs[j].cycle + 1 >= MaxCycles
    BY <1>1, <1>4 DEF GiveUp
  <2>2. \A c \in Cycles : c < jobs[j].cycle \/ c = jobs[j].cycle
    BY <1>1, <2>1, ConfigAssumption DEF Row, Cycles
  <2>3. \A c \in Cycles : dms[<<j, c>>] = "failed"
    BY <1>1, <2>1, <2>2 DEF IInv, CyclesInOrder
  <2>4. /\ row \in Row /\ row.rule = jobs[j].rule /\ row.comment = jobs[j].comment
        /\ row.cycle = jobs[j].cycle /\ row.status = "FAILED" /\ row.error = "undelivered"
    BY <1>1 DEF Row, Statuses, Terminal, Errors
  <2> HIDE DEF row
  <2> QED
    BY <1>1, <2>1, <2>3, <2>4, ResolveInv
<1> QED
  BY <1>2, <1>3, <1>4

\* Every step of Delivery keeps the invariant.
LEMMA NextInv == IInv /\ [Next]_vars => IInv'
<1> SUFFICES ASSUME IInv, [Next]_vars PROVE IInv'
  OBVIOUS
<1>1. CASE Tables
  BY <1>1, RulesInv, InsertJobInv, CancelJobsInv DEF Tables
<1>2. CASE WorkerStep
  BY <1>2, ClaimInv, WorkerMovesInv, RecordsInv, RequeueStaleInv DEF WorkerStep
<1>3. CASE ReconcilerStep
  BY <1>3, FetchBatchInv, ReadStatusInv, ResolvesInv, DropInv DEF ReconcilerStep
<1>4. CASE Server
  <2>1. late \subseteq Keys
    BY DEF IInv, TypeOK
  <2> QED
    BY <1>4, <2>1, WorkerMovesInv, ServerAnswersInv, DmChangesInv DEF Server
<1>5. CASE WorkerException \/ Crash
  BY <1>5, DropInv
<1>6. CASE UNCHANGED vars
  <2>1. UNCHANGED jobs /\ UNCHANGED rules /\ UNCHANGED worker /\ UNCHANGED batch
        /\ UNCHANGED dms /\ UNCHANGED late
    BY <1>6 DEF vars
  <2>2. TypeOK'
    BY <2>1 DEF IInv, TypeOK
  <2> QED
    BY <2>1, <2>2, Frame DEF IInv
<1> QED
  BY <1>1, <1>2, <1>3, <1>4, <1>5, <1>6 DEF Next

-----------------------------------------------------------------------------
\* The inductive invariant holds in every reachable state, for every value of
\* the constants.
THEOREM Invariance == Spec => []IInv
<1>1. IInv /\ [Next]_vars => IInv'
  BY NextInv
<1> QED
  BY <1>1, InitInv, PTL DEF Spec

\* Every variable keeps its type; in particular no row exceeds MAX_ATTEMPTS or
\* leaves its cycles (worker.py, reconciler.py).
THEOREM TypeCorrect == Spec => []TypeOK
<1>1. IInv => TypeOK
  BY DEF IInv
<1> QED
  BY <1>1, Invariance, PTL

\* DMs of earlier cycles have failed and those of later ones do not exist, so
\* one DM at most is in play.
LEMMA InvImpliesOneLiveDM == IInv => OneLiveDM
<1> SUFFICES ASSUME IInv, NEW j \in Jobs, NEW c1 \in Cycles, NEW c2 \in Cycles,
                    InPlay(j, c1), InPlay(j, c2), c1 < c2
             PROVE  FALSE
  BY ConfigAssumption DEF OneLiveDM, Cycles
<1>1. jobs[j].cycle \in Nat /\ c1 \in Nat /\ c2 \in Nat
  BY ConfigAssumption DEF IInv, TypeOK, Row, Cycles
<1>2. c2 <= jobs[j].cycle
  BY DEF IInv, CyclesInOrder, InPlay
<1>3. dms[<<j, c1>>] = "failed"
  BY <1>1, <1>2 DEF IInv, CyclesInOrder
<1> QED
  BY <1>3 DEF InPlay

\* However retries, crashes, late requests and resends interleave, a row never
\* has two DMs in play (worker.py _send_one, reconciler.py _requeue_new_cycle).
THEOREM NeverTwoDMsPerRow == Spec => []OneLiveDM
BY Invariance, InvImpliesOneLiveDM, PTL

\* No (rule, user) pair has two DMs in play under rows that uq_live_job covers
\* (schema.sql, matcher.py _ensure_obligation).
THEOREM NeverTwoDMsPerLivePair == Spec => []LiveUserDMedOnce
<1>1. IInv => LiveUserDMedOnce
  BY InvImpliesOneLiveDM DEF IInv, OneLiveRow, OneLiveDM, LiveUserDMedOnce
<1> QED
  BY <1>1, Invariance, PTL

\* A row in SENT names a DM that PseudoGram delivered (reconciler.py
\* _reconcile_one).
THEOREM SentMeansDelivered == Spec => []SentWasDelivered
<1>1. IInv => SentWasDelivered
  <2> SUFFICES ASSUME IInv, NEW j \in InStatus("SENT")
               PROVE  jobs[j].dm # Null /\ dms[jobs[j].dm] = "delivered"
    BY DEF SentWasDelivered
  <2>1. /\ j \in Jobs /\ jobs[j].dm = <<j, jobs[j].cycle>>
        /\ dms[jobs[j].dm] = "delivered" /\ jobs[j].cycle \in Cycles
    BY DEF IInv, RowsNameTheirDM, InStatus, TypeOK, Row
  <2> QED
    BY <2>1, ConfigAssumption DEF Keys
<1> QED
  BY <1>1, Invariance, PTL

\* A row is FAILED only for a refused payload, exhausted attempts or exhausted
\* cycles (worker.py _fail, reconciler.py _reconcile_one).
THEOREM FailureIsEarned == Spec => []FailedOnlyWithCause
<1>1. IInv => FailedOnlyWithCause
  BY DEF IInv
<1> QED
  BY <1>1, Invariance, PTL

\* The reconciler's unguarded UPDATEs land on rows that still are what it
\* fetched (reconciler.py reconciler_loop, _reconcile_one).
THEOREM ReconcilerIsNeverStale == Spec => []PollsAreCurrent
<1>1. IInv => PollsAreCurrent
  BY DEF IInv
<1> QED
  BY <1>1, Invariance, PTL

\* A step writes a row only if it is absent, owed by the writer, or QUEUED.
LEMMA StepKeepsTerminal ==
  ASSUME IInv, [Next]_vars, NEW j \in Jobs, jobs[j].status \in Terminal
  PROVE  jobs'[j] = jobs[j]
<1>1. CASE UNCHANGED jobs
  BY <1>1
<1>2. ASSUME NEW r \in Rules, NEW c \in Comments, InsertJob(r, c)
      PROVE  jobs'[j] = jobs[j]
  BY <1>2 DEF InsertJob, InStatus, Terminal, IInv, TypeOK
<1>3. ASSUME NEW c \in Comments, CancelJobs(c)
      PROVE  jobs'[j] = jobs[j]
  BY <1>3 DEF CancelJobs, CancelRows, Terminal
<1>4. ASSUME NEW i \in Jobs, Claim(i)
      PROVE  jobs'[j] = jobs[j]
  BY <1>4 DEF Claim, Terminal, IInv, TypeOK
<1>5. ASSUME NEW pc, NEW row, Record(pc, row), worker.pc # "idle"
      PROVE  jobs'[j] = jobs[j]
  BY <1>5, WorkerKeyIsKnown DEF Record, Terminal, IInv, TypeOK
<1>6. ASSUME NEW old \in SUBSET InStatus("SENDING"), RequeueStale(old)
      PROVE  jobs'[j] = jobs[j]
  BY <1>6 DEF RequeueStale, InStatus, Terminal
<1>7. ASSUME NEW i \in Jobs, NEW row, Resolve(i, row), batch[i].pc # "none"
      PROVE  jobs'[j] = jobs[j]
  BY <1>7 DEF Resolve, Terminal, IInv, PollsAreCurrent, TypeOK
<1>8. CASE Tables
  BY <1>1, <1>2, <1>3, <1>8 DEF Tables, AddRule, RemoveRule
<1>9. CASE WorkerStep
  <2>1. CASE RecordAccepted \/ RecordRateLimited \/ RecordUnsendable \/ RecordFailedAttempt
    <3>1. worker.pc # "idle" /\ \E pc, row : Record(pc, row)
      BY <2>1 DEF RecordAccepted, RecordRateLimited, RecordUnsendable,
                  RecordFailedAttempt, Record
    <3> QED
      BY <3>1, <1>5
  <2> QED
    BY <1>1, <1>4, <1>6, <1>9, <2>1 DEF WorkerStep, StartSend
<1>10. CASE ReconcilerStep
  BY <1>1, <1>7, <1>10
  DEF ReconcilerStep, FetchBatch, ReadStatus, ConfirmSent, RequeueNewCycle, GiveUp, Reschedule
<1>11. CASE Server \/ WorkerException \/ Crash \/ UNCHANGED vars
  BY <1>1, <1>11 DEF Server, AnswerAccepted, AnswerRefused, AnswerServerError,
    TransportError, LateArrival, Settle, WorkerException, Crash, vars
<1> QED
  BY <1>8, <1>9, <1>10, <1>11 DEF Next

\* SENT, FAILED and CANCELLED rows never change again (worker.py,
\* reconciler.py, matcher.py _handle_deleted).
THEOREM TerminalRowsNeverChange == Spec => TerminalIsFinal
<1>1. IInv /\ [Next]_vars
        => [\A j \in Jobs : jobs[j].status \in Terminal => jobs'[j] = jobs[j]]_jobs
  BY StepKeepsTerminal
<1> QED
  BY <1>1, Invariance, PTL DEF Spec, TerminalIsFinal

\* The worker writes its row at the attempt it claimed, or at the next one.
LEMMA RecordsSpendTries ==
  ASSUME IInv, NEW j \in Jobs,
         \/ RecordAccepted \/ RecordRateLimited \/ RecordUnsendable \/ RecordFailedAttempt
  PROVE  NextTry(j, jobs[j], jobs'[j])
<1> DEFINE h == worker.job
<1>1. worker.pc # "idle"
  BY DEF RecordAccepted, RecordRateLimited, RecordUnsendable, RecordFailedAttempt, Record
<1>2. /\ h \in Jobs /\ jobs[h] \in Row /\ jobs[h].status = "SENDING"
      /\ worker.attempt = jobs[h].attempt /\ jobs \in [Jobs -> Row]
  BY <1>1 DEF IInv, WorkerHoldsRow, TypeOK
<1>3. ASSUME NEW pc, NEW row, Record(pc, row), row.cycle = jobs[h].cycle,
             row.attempt \in {jobs[h].attempt, jobs[h].attempt + 1}
      PROVE  NextTry(j, jobs[j], jobs'[j])
  BY <1>2, <1>3 DEF NextTry, Record
<1>4. CASE RecordAccepted
  <2> DEFINE row == [jobs[h] EXCEPT !.status = "AWAITING_CONFIRM", !.dm = Key,
                                    !.error = "none"]
  <2>1. Record("accepted", row)
    BY <1>4 DEF RecordAccepted
  <2>2. row.cycle = jobs[h].cycle /\ row.attempt = jobs[h].attempt
    BY <1>2 DEF Row
  <2> QED
    BY <1>3, <2>1, <2>2
<1>5. CASE RecordRateLimited
  <2> DEFINE row == [jobs[h] EXCEPT !.status = "QUEUED", !.error = "rate_limited"]
  <2>1. Record("rate_limited", row)
    BY <1>5 DEF RecordRateLimited
  <2>2. row.cycle = jobs[h].cycle /\ row.attempt = jobs[h].attempt
    BY <1>2 DEF Row
  <2> QED
    BY <1>3, <2>1, <2>2
<1>6. CASE RecordUnsendable
  <2> DEFINE row == [jobs[h] EXCEPT !.status = "FAILED",
                !.error = IF worker.pc = "no_rule" THEN "rule_missing" ELSE "bad_request"]
  <2>1. Record(worker.pc, row)
    BY <1>6 DEF RecordUnsendable
  <2>2. row.cycle = jobs[h].cycle /\ row.attempt = jobs[h].attempt
    BY <1>2 DEF Row
  <2> QED
    BY <1>3, <2>1, <2>2
<1>7. CASE RecordFailedAttempt
  <2> DEFINE row == [jobs[h] EXCEPT
        !.status = IF worker.attempt + 1 >= MaxAttempts THEN "FAILED" ELSE "QUEUED",
        !.attempt = worker.attempt + 1, !.error = "attempt_failed"]
  <2>1. Record("error", row)
    BY <1>7 DEF RecordFailedAttempt
  <2>2. row.cycle = jobs[h].cycle /\ row.attempt = jobs[h].attempt + 1
    BY <1>2 DEF Row
  <2> QED
    BY <1>3, <2>1, <2>2
<1> QED
  BY <1>4, <1>5, <1>6, <1>7

\* The reconciler leaves the try alone, or starts the cycle after a failed DM.
LEMMA ResolvesSpendTries ==
  ASSUME IInv, NEW i \in Jobs, NEW j \in Jobs,
         ConfirmSent(i) \/ RequeueNewCycle(i) \/ GiveUp(i)
  PROVE  NextTry(j, jobs[j], jobs'[j])
<1>1. /\ jobs \in [Jobs -> Row] /\ jobs[i] \in Row
      /\ jobs[i].status = "AWAITING_CONFIRM" /\ batch[i].pc # "no_dm"
      /\ batch[i].cycle = jobs[i].cycle
      /\ batch[i].pc = "failed" => dms[<<i, jobs[i].cycle>>] = "failed"
  BY DEF ConfirmSent, RequeueNewCycle, GiveUp, IInv, TypeOK, PollsAreCurrent, PollsAreTrue
<1>2. ASSUME NEW row, Resolve(i, row), NextTry(i, jobs[i], row)
      PROVE  NextTry(j, jobs[j], jobs'[j])
  BY <1>1, <1>2 DEF NextTry, Resolve
<1>3. CASE ConfirmSent(i)
  <2> DEFINE row == [jobs[i] EXCEPT !.status = "SENT", !.error = "none"]
  <2>1. Resolve(i, row)
    BY <1>3 DEF ConfirmSent
  <2>2. row.cycle = jobs[i].cycle /\ row.attempt = jobs[i].attempt /\ row.status = "SENT"
    BY <1>1 DEF Row
  <2> QED
    BY <1>2, <2>1, <2>2 DEF NextTry
<1>4. CASE RequeueNewCycle(i)
  <2> DEFINE row == [jobs[i] EXCEPT !.status = "QUEUED", !.cycle = batch[i].cycle + 1,
                                    !.attempt = 0, !.dm = Null]
  <2>1. Resolve(i, row) /\ batch[i].pc = "failed"
    BY <1>1, <1>4 DEF RequeueNewCycle
  <2>2. row.cycle = jobs[i].cycle + 1 /\ row.attempt = 0
    BY <1>1 DEF Row
  <2> QED
    BY <1>1, <1>2, <2>1, <2>2 DEF NextTry
<1>5. CASE GiveUp(i)
  <2> DEFINE row == [jobs[i] EXCEPT !.status = "FAILED", !.error = "undelivered"]
  <2>1. Resolve(i, row)
    BY <1>5 DEF GiveUp
  <2>2. row.cycle = jobs[i].cycle /\ row.attempt = jobs[i].attempt /\ row.status = "FAILED"
    BY <1>1 DEF Row
  <2> QED
    BY <1>2, <2>1, <2>2 DEF NextTry
<1> QED
  BY <1>3, <1>4, <1>5

\* Every other writer moves a row's status, or makes a row at its first try.
LEMMA StepSpendsTries ==
  ASSUME IInv, [Next]_vars, NEW j \in Jobs
  PROVE  NextTry(j, jobs[j], jobs'[j])
<1>1. jobs \in [Jobs -> Row] /\ jobs[j] \in Row
  BY DEF IInv, TypeOK
<1>2. CASE UNCHANGED jobs
  BY <1>2 DEF NextTry
<1>3. \A s \in Statuses : /\ [jobs[j] EXCEPT !.status = s].cycle = jobs[j].cycle
                          /\ [jobs[j] EXCEPT !.status = s].attempt = jobs[j].attempt
  BY <1>1 DEF Row
<1>4. ASSUME NEW s \in Statuses, jobs[j].status # "AWAITING_CONFIRM",
             jobs'[j] = [jobs[j] EXCEPT !.status = s]
      PROVE  NextTry(j, jobs[j], jobs'[j])
  BY <1>3, <1>4 DEF NextTry
<1>5. ASSUME NEW r \in Rules, NEW c \in Comments, InsertJob(r, c)
      PROVE  NextTry(j, jobs[j], jobs'[j])
  <2>1. PICK i \in InStatus("ABSENT") : jobs' = [jobs EXCEPT ![i] = NewRow(r, c)]
    BY <1>5 DEF InsertJob
  <2>2. CASE j = i
    <3>1. jobs[j] = NoRow /\ jobs'[j] = NewRow(r, c)
      BY <1>1, <2>1, <2>2 DEF InStatus, IInv, RowsWellFormed
    <3> QED
      BY <3>1 DEF NextTry, NoRow, NewRow
  <2>3. CASE j # i
    BY <1>1, <2>1, <2>3 DEF NextTry
  <2> QED
    BY <2>2, <2>3
<1>6. ASSUME NEW c \in Comments, CancelJobs(c)
      PROVE  NextTry(j, jobs[j], jobs'[j])
  <2>1. CASE jobs[j].status = "QUEUED" /\ jobs[j].comment = c
    <3>1. jobs'[j] = [jobs[j] EXCEPT !.status = "CANCELLED"]
      BY <1>6, <2>1 DEF CancelJobs, CancelRows
    <3> QED
      BY <1>4, <2>1, <3>1 DEF Statuses, Terminal
  <2>2. CASE ~(jobs[j].status = "QUEUED" /\ jobs[j].comment = c)
    BY <1>6, <2>2 DEF CancelJobs, CancelRows, NextTry
  <2> QED
    BY <2>1, <2>2
<1>7. ASSUME NEW i \in Jobs, Claim(i)
      PROVE  NextTry(j, jobs[j], jobs'[j])
  <2>1. CASE j = i
    <3>1. jobs'[j] = [jobs[j] EXCEPT !.status = "SENDING"] /\ jobs[j].status = "QUEUED"
      BY <1>1, <1>7, <2>1 DEF Claim
    <3> QED
      BY <1>4, <3>1 DEF Statuses, Owed
  <2>2. CASE j # i
    BY <1>1, <1>7, <2>2 DEF Claim, NextTry
  <2> QED
    BY <2>1, <2>2
<1>8. ASSUME NEW old \in SUBSET InStatus("SENDING"), RequeueStale(old)
      PROVE  NextTry(j, jobs[j], jobs'[j])
  <2>1. CASE j \in old
    <3>1. jobs'[j] = [jobs[j] EXCEPT !.status = "QUEUED"] /\ jobs[j].status = "SENDING"
      BY <1>8, <2>1 DEF RequeueStale, InStatus
    <3> QED
      BY <1>4, <3>1 DEF Statuses, Owed
  <2>2. CASE j \notin old
    BY <1>8, <2>2 DEF RequeueStale, NextTry
  <2> QED
    BY <2>1, <2>2
<1>9. CASE Tables
  BY <1>2, <1>5, <1>6, <1>9 DEF Tables, AddRule, RemoveRule
<1>10. CASE WorkerStep
  BY <1>2, <1>7, <1>8, <1>10, RecordsSpendTries DEF WorkerStep, StartSend
<1>11. CASE ReconcilerStep
  BY <1>2, <1>11, ResolvesSpendTries DEF ReconcilerStep, FetchBatch, ReadStatus, Reschedule
<1>12. CASE Server \/ WorkerException \/ Crash \/ UNCHANGED vars
  BY <1>2, <1>12 DEF Server, AnswerAccepted, AnswerRefused, AnswerServerError,
    TransportError, LateArrival, Settle, WorkerException, Crash, vars
<1> QED
  BY <1>9, <1>10, <1>11, <1>12 DEF Next

\* Attempts and cycles are spent one by one, and a DM that was accepted is sent again
\* only after it failed (worker.py _fail, reconciler.py _requeue_new_cycle).
THEOREM TriesAreSpentInOrder == Spec => TriesAreSpent
<1>1. IInv /\ [Next]_vars => [\A j \in Jobs : NextTry(j, jobs[j], jobs'[j])]_jobs
  BY StepSpendsTries
<1> QED
  BY <1>1, Invariance, PTL DEF Spec, TriesAreSpent

-----------------------------------------------------------------------------
(* Delivery implements Promise *)

\* A live row stands for a pair, and no other live row stands for the same one.
LEMMA PairsKnown ==
  ASSUME IInv
  PROVE  /\ \A j \in Jobs : Live(j) =>
              \E p \in Rules \X Users : IsFor(j, p[1], p[2])
         /\ \A p \in Rules \X Users, i \in Jobs, j \in Jobs :
              Live(i) /\ Live(j) /\ IsFor(i, p[1], p[2]) /\ IsFor(j, p[1], p[2]) => i = j
         /\ \A p \in Rules \X Users, q \in Rules \X Users, j \in Jobs :
              IsFor(j, p[1], p[2]) /\ IsFor(j, q[1], q[2]) => p = q
<1>1. ASSUME NEW j \in Jobs, Live(j)
      PROVE  \E p \in Rules \X Users : IsFor(j, p[1], p[2])
  <2>1. jobs[j].rule \in Rules /\ Author[jobs[j].comment] \in Users
    BY <1>1, ConfigAssumption DEF IInv, TypeOK, RowsWellFormed, Live
  <2>2. <<jobs[j].rule, Author[jobs[j].comment]>> \in Rules \X Users
    BY <2>1
  <2> QED
    BY <2>2 DEF IsFor
<1>2. ASSUME NEW p \in Rules \X Users, NEW i \in Jobs, NEW j \in Jobs,
             Live(i), Live(j), IsFor(i, p[1], p[2]), IsFor(j, p[1], p[2])
      PROVE  i = j
  BY <1>2 DEF IInv, OneLiveRow, IsFor
<1>3. ASSUME NEW p \in Rules \X Users, NEW q \in Rules \X Users, NEW j \in Jobs,
             IsFor(j, p[1], p[2]), IsFor(j, q[1], q[2])
      PROVE  p = q
  <2>1. p[1] = q[1] /\ p[2] = q[2]
    BY <1>3 DEF IsFor
  <2>2. p = <<p[1], p[2]>> /\ q = <<q[1], q[2]>>
    OBVIOUS
  <2> QED
    BY <2>1, <2>2
<1> QED
  BY <1>1, <1>2, <1>3

\* The rows stand: a live row stays so and stands for what it stood for, and
\* there are no others.
RowsStand ==
  \A j \in Jobs : /\ Live(j)' <=> Live(j)
                  /\ Live(j) => /\ jobs'[j].rule = jobs[j].rule
                                /\ jobs'[j].comment = jobs[j].comment

\* A step delivers nothing.
NothingDelivered == \A k \in Keys : dms'[k] = "delivered" <=> dms[k] = "delivered"

\* Without a delivery, and with the same rows standing, inboxes do not change.
LEMMA InboxStands ==
  ASSUME RowsStand, NothingDelivered
  PROVE  Inbox' = Inbox
<1>1. \A p \in Rules \X Users, k \in Keys :
        (dms[k] = "delivered" /\ Live(k[1]) /\ IsFor(k[1], p[1], p[2]))' <=>
        (dms[k] = "delivered" /\ Live(k[1]) /\ IsFor(k[1], p[1], p[2]))
  BY DEF RowsStand, NothingDelivered, IsFor, Keys
<1> QED
  BY <1>1 DEF Inbox

\* Nor do the pairs in some state, if no row enters or leaves it.
LEMMA PairsStand ==
  ASSUME RowsStand, NEW S \in SUBSET (Owed \cup {"SENT", "FAILED"}),
         \A j \in Jobs : jobs'[j].status \in S <=> jobs[j].status \in S
  PROVE  PairsIn(S)' = PairsIn(S)
<1>1. \A j \in Jobs : jobs[j].status \in S => Live(j)
  BY DEF Live, Owed
<1>2. \A p \in Rules \X Users :
        (\E j \in Jobs : jobs[j].status \in S /\ IsFor(j, p[1], p[2]))' <=>
        (\E j \in Jobs : jobs[j].status \in S /\ IsFor(j, p[1], p[2]))
  BY <1>1 DEF RowsStand, IsFor
<1> QED
  BY <1>2 DEF PairsIn

\* A step that moves rows among the owed states alone is a stutter.
LEMMA QuietStep ==
  ASSUME RowsStand, NothingDelivered,
         \A j \in Jobs : \/ jobs'[j].status = jobs[j].status
                         \/ jobs[j].status \in Owed /\ jobs'[j].status \in Owed
  PROVE  UNCHANGED <<PairsIn(Owed), PairsIn({"SENT"}), PairsIn({"FAILED"}), Inbox>>
<1>1. \A S \in {Owed, {"SENT"}, {"FAILED"}} :
        /\ S \in SUBSET (Owed \cup {"SENT", "FAILED"})
        /\ \A j \in Jobs : jobs'[j].status \in S <=> jobs[j].status \in S
  BY DEF Owed
<1>2. \A S \in {Owed, {"SENT"}, {"FAILED"}} : PairsIn(S)' = PairsIn(S)
  BY <1>1, PairsStand
<1> QED
  BY <1>2, InboxStands

\* A pair's row ends SENT or FAILED: the pair leaves the owed ones for the
\* others, and no other pair moves.
LEMMA RowEnds ==
  ASSUME IInv, RowsStand, NothingDelivered,
         NEW j \in Jobs, NEW s \in {"SENT", "FAILED"}, NEW p \in Rules \X Users,
         IsFor(j, p[1], p[2]), jobs[j].status \in Owed, jobs'[j].status = s,
         \A i \in Jobs \ {j} : jobs'[i].status = jobs[i].status
  PROVE  /\ p \in PairsIn(Owed)
         /\ PairsIn(Owed)' = PairsIn(Owed) \ {p}
         /\ PairsIn({s})' = PairsIn({s}) \cup {p}
         /\ \A o \in {"SENT", "FAILED"} \ {s} : PairsIn({o})' = PairsIn({o})
         /\ Inbox' = Inbox
<1>1. \A i \in Jobs : jobs[i].status \in Owed \cup {"SENT", "FAILED"} => Live(i)
  BY DEF Live, Owed
<1>2. \A i \in Jobs : Live(i) => \A q \in Rules \X Users :
        IsFor(i, q[1], q[2])' <=> IsFor(i, q[1], q[2])
  BY DEF RowsStand, IsFor
<1>3. p \in PairsIn(Owed)
  BY DEF PairsIn
<1>4. \A q \in Rules \X Users :
        (\E i \in Jobs : jobs[i].status \in Owed /\ IsFor(i, q[1], q[2]))' <=>
        q # p /\ \E i \in Jobs : jobs[i].status \in Owed /\ IsFor(i, q[1], q[2])
  <2> TAKE q \in Rules \X Users
  <2>1. ASSUME NEW i \in Jobs, jobs'[i].status \in Owed, IsFor(i, q[1], q[2])'
        PROVE  q # p /\ jobs[i].status \in Owed /\ IsFor(i, q[1], q[2])
    <3>1. i # j /\ jobs[i].status \in Owed
      BY <2>1 DEF Owed
    <3> QED
      BY <1>1, <1>2, <2>1, <3>1, PairsKnown
  <2>2. ASSUME NEW i \in Jobs, q # p, jobs[i].status \in Owed, IsFor(i, q[1], q[2])
        PROVE  jobs'[i].status \in Owed /\ IsFor(i, q[1], q[2])'
    BY <1>1, <1>2, <2>2, PairsKnown
  <2> QED
    BY <2>1, <2>2
<1>5. \A q \in Rules \X Users :
        (\E i \in Jobs : jobs[i].status \in {s} /\ IsFor(i, q[1], q[2]))' <=>
        q = p \/ \E i \in Jobs : jobs[i].status \in {s} /\ IsFor(i, q[1], q[2])
  <2> TAKE q \in Rules \X Users
  <2>1. ASSUME NEW i \in Jobs, jobs'[i].status = s, IsFor(i, q[1], q[2])'
        PROVE  q = p \/ (jobs[i].status = s /\ IsFor(i, q[1], q[2]))
    <3>1. i = j \/ jobs[i].status = s
      BY <2>1
    <3> QED
      BY <1>1, <1>2, <2>1, <3>1, PairsKnown
  <2>2. ASSUME NEW i \in Jobs, jobs[i].status = s, IsFor(i, q[1], q[2])
        PROVE  jobs'[i].status = s /\ IsFor(i, q[1], q[2])'
    BY <1>1, <1>2, <2>2 DEF Owed
  <2>3. IsFor(j, p[1], p[2])'
    BY <1>1, <1>2
  <2> QED
    BY <2>1, <2>2, <2>3
<1>6. \A o \in {"SENT", "FAILED"} \ {s} : PairsIn({o})' = PairsIn({o})
  <2> TAKE o \in {"SENT", "FAILED"} \ {s}
  <2>1. \A i \in Jobs : jobs'[i].status \in {o} <=> jobs[i].status \in {o}
    BY DEF Owed
  <2> QED
    BY <2>1, PairsStand
<1>7. PairsIn(Owed)' = PairsIn(Owed) \ {p}
  BY <1>4 DEF PairsIn
<1>8. PairsIn({s})' = PairsIn({s}) \cup {p}
  BY <1>5 DEF PairsIn
<1> QED
  BY <1>3, <1>6, <1>7, <1>8, InboxStands

\* What a step of Delivery is to Promise.
Refines == P!Next \/ UNCHANGED P!promiseVars

\* A step that QuietStep is about.
LEMMA QuietRefines ==
  ASSUME RowsStand, NothingDelivered,
         \A j \in Jobs : \/ jobs'[j].status = jobs[j].status
                         \/ jobs[j].status \in Owed /\ jobs'[j].status \in Owed
  PROVE  Refines
BY QuietStep DEF Refines, P!promiseVars

\* The worker or the reconciler writes a row it owes: another state of the same
\* debt, a confirmation of a DM that the user has, or a failure.
LEMMA RowRefines ==
  ASSUME IInv, NEW j \in Jobs, NEW row, jobs[j].status \in Owed,
         jobs' = [jobs EXCEPT ![j] = row], UNCHANGED dms,
         row.rule = jobs[j].rule, row.comment = jobs[j].comment,
         row.status \in Owed \cup {"SENT", "FAILED"},
         row.status = "SENT" => /\ jobs[j].dm = <<j, jobs[j].cycle>>
                                /\ dms[jobs[j].dm] = "delivered"
  PROVE  Refines
<1>1. /\ jobs'[j] = row /\ \A i \in Jobs \ {j} : jobs'[i] = jobs[i]
      /\ Live(j) /\ row.status \notin {"ABSENT", "CANCELLED"}
  BY DEF IInv, TypeOK, Live, Owed
<1>2. RowsStand /\ NothingDelivered
  BY <1>1 DEF RowsStand, NothingDelivered, Live
<1>3. CASE row.status \in Owed
  BY <1>1, <1>2, <1>3, QuietRefines
<1>4. CASE row.status \in {"SENT", "FAILED"}
  <2>1. PICK p \in Rules \X Users : IsFor(j, p[1], p[2])
    BY <1>1, PairsKnown
  <2>2. /\ p \in PairsIn(Owed) /\ PairsIn(Owed)' = PairsIn(Owed) \ {p}
        /\ PairsIn({row.status})' = PairsIn({row.status}) \cup {p}
        /\ \A o \in {"SENT", "FAILED"} \ {row.status} : PairsIn({o})' = PairsIn({o})
        /\ Inbox' = Inbox
    <3> DEFINE s == row.status
    <3>1. /\ s \in {"SENT", "FAILED"} /\ jobs'[j].status = s
          /\ \A i \in Jobs \ {j} : jobs'[i].status = jobs[i].status
      BY <1>1, <1>4
    <3> HIDE DEF s
    <3>2. /\ p \in PairsIn(Owed) /\ PairsIn(Owed)' = PairsIn(Owed) \ {p}
          /\ PairsIn({s})' = PairsIn({s}) \cup {p}
          /\ \A o \in {"SENT", "FAILED"} \ {s} : PairsIn({o})' = PairsIn({o})
          /\ Inbox' = Inbox
      BY <1>2, <2>1, <3>1, RowEnds
    <3> QED
      BY <3>2 DEF s
  <2>3. CASE row.status = "SENT"
    <3>1. jobs[j].dm \in Inbox[p]
      <4>1. <<j, jobs[j].cycle>> \in Keys
        BY DEF IInv, TypeOK, Row, Keys
      <4> QED
        BY <1>1, <2>1, <2>3, <4>1 DEF Inbox
    <3> QED
      BY <2>2, <2>3, <3>1 DEF Refines, P!Next, P!Confirm
  <2>4. CASE row.status = "FAILED"
    BY <2>2, <2>4 DEF Refines, P!Next, P!GiveUp
  <2> QED
    BY <1>4, <2>3, <2>4
<1> QED
  BY <1>3, <1>4

\* A new row promises a pair that nothing was promised to.
LEMMA InsertRefines ==
  ASSUME IInv, NEW r \in Rules, NEW c \in Comments, InsertJob(r, c), UNCHANGED dms
  PROVE  Refines
<1> DEFINE p == <<r, Author[c]>>
<1>1. PICK j \in Jobs : jobs[j].status = "ABSENT" /\ jobs' = [jobs EXCEPT ![j] = NewRow(r, c)]
  BY DEF InsertJob, InStatus
<1>2. p \in Rules \X Users /\ \A i \in Jobs : Live(i) => ~IsFor(i, p[1], p[2])
  BY ConfigAssumption DEF InsertJob, HasLiveRow
<1>3. /\ jobs'[j].status = "QUEUED" /\ \A i \in Jobs \ {j} : jobs'[i] = jobs[i]
      /\ \A q \in Rules \X Users : IsFor(j, q[1], q[2])' <=> q = p
  <2>1. jobs'[j] = NewRow(r, c) /\ \A i \in Jobs \ {j} : jobs'[i] = jobs[i]
    BY <1>1 DEF IInv, TypeOK
  <2>2. \A q \in Rules \X Users : IsFor(j, q[1], q[2])' <=> q[1] = r /\ q[2] = Author[c]
    BY <2>1 DEF IsFor, NewRow
  <2>3. \A q \in Rules \X Users : q[1] = r /\ q[2] = Author[c] <=> q = p
    OBVIOUS
  <2> QED
    BY <2>1, <2>2, <2>3 DEF NewRow
<1>4. \A i \in Jobs \ {j}, q \in Rules \X Users :
        /\ IsFor(i, q[1], q[2])' <=> IsFor(i, q[1], q[2])
        /\ Live(i)' <=> Live(i)
  BY <1>3 DEF IsFor, Live
<1> HIDE DEF p
<1>5. p \notin PairsIn(Owed) \cup PairsIn({"SENT"}) \cup PairsIn({"FAILED"})
  BY <1>2 DEF PairsIn, Live, Owed
<1>6. PairsIn(Owed)' = PairsIn(Owed) \cup {p}
  <2>1. \A q \in Rules \X Users :
          (\E i \in Jobs : jobs[i].status \in Owed /\ IsFor(i, q[1], q[2]))' <=>
          q = p \/ \E i \in Jobs : jobs[i].status \in Owed /\ IsFor(i, q[1], q[2])
    BY <1>1, <1>3, <1>4 DEF Owed
  <2> QED
    BY <1>2, <2>1 DEF PairsIn
<1>7. \A s \in {"SENT", "FAILED"} : PairsIn({s})' = PairsIn({s})
  <2> TAKE s \in {"SENT", "FAILED"}
  <2>1. \A q \in Rules \X Users :
          (\E i \in Jobs : jobs[i].status \in {s} /\ IsFor(i, q[1], q[2]))' <=>
          \E i \in Jobs : jobs[i].status \in {s} /\ IsFor(i, q[1], q[2])
    BY <1>1, <1>3, <1>4
  <2> QED
    BY <2>1 DEF PairsIn
<1>8. Inbox' = Inbox
  <2>1. \A k \in Keys : dms[k] = "delivered" => k[1] # j /\ k[1] \in Jobs
    BY <1>1 DEF IInv, CyclesInOrder, Keys
  <2>2. \A q \in Rules \X Users, k \in Keys :
          (dms[k] = "delivered" /\ Live(k[1]) /\ IsFor(k[1], q[1], q[2]))' <=>
          (dms[k] = "delivered" /\ Live(k[1]) /\ IsFor(k[1], q[1], q[2]))
    BY <1>4, <2>1
  <2> QED
    BY <2>2 DEF Inbox
<1>9. P!Owe(p)
  BY <1>5, <1>6, <1>7, <1>8 DEF P!Owe, P!Promised
<1> QED
  BY <1>2, <1>9 DEF Refines, P!Next

\* A deletion withdraws the pairs whose QUEUED row came from its comment.
LEMMA CancelRefines ==
  ASSUME IInv, NEW c \in Comments, CancelJobs(c), UNCHANGED dms
  PROVE  Refines
<1> DEFINE Gone(i) == jobs[i].status = "QUEUED" /\ jobs[i].comment = c
           W == {p \in Rules \X Users : \E i \in Jobs : Gone(i) /\ IsFor(i, p[1], p[2])}
<1>1. \A i \in Jobs :
        /\ Gone(i) => /\ jobs'[i].status = "CANCELLED" /\ ~Live(i)' /\ Live(i)
                      /\ jobs[i].status \in Owed
        /\ ~Gone(i) => jobs'[i] = jobs[i] /\ (Live(i)' <=> Live(i))
        /\ jobs'[i].rule = jobs[i].rule /\ jobs'[i].comment = jobs[i].comment
  BY DEF CancelJobs, CancelRows, Live, Owed, IInv, TypeOK, Row
<1> HIDE DEF Gone
<1>2. \A i \in Jobs, q \in Rules \X Users :
        IsFor(i, q[1], q[2])' <=> IsFor(i, q[1], q[2])
  BY <1>1 DEF IsFor
<1>3. \A i \in Jobs, q \in Rules \X Users :
        Live(i) /\ IsFor(i, q[1], q[2]) => (q \in W <=> Gone(i))
  BY <1>1, PairsKnown
<1>4. CASE W = {}
  <2>1. \A i \in Jobs : ~Gone(i)
    BY <1>1, <1>3, <1>4, PairsKnown
  <2>2. RowsStand /\ NothingDelivered
    BY <1>1, <2>1 DEF RowsStand, NothingDelivered
  <2> QED
    BY <1>1, <2>1, <2>2, QuietRefines
<1>5. CASE W # {}
  <2> HIDE DEF W
  <2>1. W \subseteq PairsIn(Owed) /\ W \in SUBSET (Rules \X Users)
    BY <1>1 DEF PairsIn, W
  <2>2. PairsIn(Owed)' = PairsIn(Owed) \ W
    <3>1. \A q \in Rules \X Users :
            (\E i \in Jobs : jobs[i].status \in Owed /\ IsFor(i, q[1], q[2]))' <=>
            q \notin W /\ \E i \in Jobs : jobs[i].status \in Owed /\ IsFor(i, q[1], q[2])
      <4>1. \A i \in Jobs : /\ jobs[i].status \in Owed => Live(i)
                            /\ jobs'[i].status \in Owed <=> jobs[i].status \in Owed /\ ~Gone(i)
        BY <1>1 DEF Live, Owed
      <4> QED
        BY <1>2, <1>3, <4>1
    <3> QED
      BY <3>1 DEF PairsIn
  <2>3. \A s \in {"SENT", "FAILED"} : PairsIn({s})' = PairsIn({s})
    <3> TAKE s \in {"SENT", "FAILED"}
    <3>1. \A q \in Rules \X Users :
            (\E i \in Jobs : jobs[i].status \in {s} /\ IsFor(i, q[1], q[2]))' <=>
            \E i \in Jobs : jobs[i].status \in {s} /\ IsFor(i, q[1], q[2])
      BY <1>1, <1>2 DEF Owed
    <3> QED
      BY <3>1 DEF PairsIn
  <2>4. Inbox' = [q \in Rules \X Users |-> IF q \in W THEN {} ELSE Inbox[q]]
    <3>1. \A q \in Rules \X Users, k \in Keys :
            (dms[k] = "delivered" /\ Live(k[1]) /\ IsFor(k[1], q[1], q[2]))' <=>
            q \notin W /\ dms[k] = "delivered" /\ Live(k[1]) /\ IsFor(k[1], q[1], q[2])
      BY <1>1, <1>2, <1>3 DEF Keys
    <3> QED
      BY <3>1 DEF Inbox
  <2>5. P!Withdraw(W)
    BY <1>5, <2>1, <2>2, <2>3, <2>4 DEF P!Withdraw
  <2> QED
    BY <2>1, <2>5 DEF Refines, P!Next
<1> QED
  BY <1>4, <1>5

\* A settled DM reaches the user of a live row once, or nobody's inbox.
LEMMA SettleRefines ==
  ASSUME IInv, NEW k \in Keys, Settle(k)
  PROVE  Refines
<1>1. /\ dms[k] = "queued" /\ UNCHANGED jobs
      /\ \A l \in Keys \ {k} : dms'[l] = dms[l]
      /\ dms'[k] \in {"delivered", "failed"}
  BY DEF Settle, IInv, TypeOK
<1>2. PICK j \in Jobs, c \in Cycles : k = <<j, c>>
  BY DEF Keys
<1>3. RowsStand
  BY <1>1 DEF RowsStand, Live
<1>4. CASE dms'[k] = "failed"
  <2>1. NothingDelivered
    BY <1>1, <1>4 DEF NothingDelivered
  <2> QED
    BY <1>1, <1>3, <2>1, QuietRefines
<1>5. CASE dms'[k] = "delivered" /\ ~Live(j)
  <2>1. \A q \in Rules \X Users, l \in Keys :
          (dms[l] = "delivered" /\ Live(l[1]) /\ IsFor(l[1], q[1], q[2]))' <=>
          (dms[l] = "delivered" /\ Live(l[1]) /\ IsFor(l[1], q[1], q[2]))
    BY <1>1, <1>2, <1>5 DEF Live, IsFor
  <2>2. Inbox' = Inbox
    BY <2>1 DEF Inbox
  <2>3. \A S \in {Owed, {"SENT"}, {"FAILED"}} : PairsIn(S)' = PairsIn(S)
    BY <1>1 DEF PairsIn, IsFor
  <2> QED
    BY <2>2, <2>3 DEF Refines, P!promiseVars
<1>6. CASE dms'[k] = "delivered" /\ Live(j)
  <2>1. PICK p \in Rules \X Users : IsFor(j, p[1], p[2])
    BY <1>6, PairsKnown
  <2>2. jobs[j].status # "SENT"
    <3>1. jobs[j].cycle \in Nat /\ c \in Nat
      BY ConfigAssumption DEF IInv, TypeOK, Row, Cycles
    <3> QED
      BY <1>1, <1>2, <3>1 DEF IInv, RowsNameTheirDM, CyclesInOrder
  <2>3. p \in PairsIn(Owed) \cup PairsIn({"FAILED"})
    <3>1. jobs[j].status \in Owed \cup {"FAILED"}
      BY <1>6, <2>2 DEF Live, Owed, IInv, TypeOK, Row, Statuses, Terminal
    <3> QED
      BY <2>1, <3>1 DEF PairsIn
  <2>4. \A l \in Keys : dms[l] = "delivered" /\ Live(l[1]) => ~IsFor(l[1], p[1], p[2])
    <3> SUFFICES ASSUME NEW i \in Jobs, NEW d \in Cycles, dms[<<i, d>>] = "delivered",
                        Live(i), IsFor(i, p[1], p[2])
                 PROVE  FALSE
      BY DEF Keys
    <3>1. i = j
      BY <1>6, <2>1, PairsKnown
    <3> QED
      BY <1>1, <1>2, <3>1, InvImpliesOneLiveDM DEF OneLiveDM, InPlay
  <2>5. Inbox[p] = {}
    BY <2>4 DEF Inbox
  <2>6. Inbox' = [Inbox EXCEPT ![p] = {k}]
    <3>1. \A q \in Rules \X Users, l \in Keys :
            (dms[l] = "delivered" /\ Live(l[1]) /\ IsFor(l[1], q[1], q[2]))' <=>
            \/ q = p /\ l = k
            \/ dms[l] = "delivered" /\ Live(l[1]) /\ IsFor(l[1], q[1], q[2])
      <4> TAKE q \in Rules \X Users, l \in Keys
      <4>1. /\ Live(l[1])' <=> Live(l[1])
            /\ IsFor(l[1], q[1], q[2])' <=> IsFor(l[1], q[1], q[2])
        BY <1>1 DEF Live, IsFor
      <4>2. CASE l = k
        <5>1. l[1] = j
          BY <1>2, <4>2
        <5>2. IsFor(j, q[1], q[2]) <=> q = p
          BY <2>1, PairsKnown
        <5> QED
          BY <1>1, <1>6, <4>1, <4>2, <5>1, <5>2
      <4>3. CASE l # k
        BY <1>1, <4>1, <4>3
      <4> QED
        BY <4>2, <4>3
    <3>2. Inbox' = [q \in Rules \X Users |-> IF q = p THEN Inbox[q] \cup {k} ELSE Inbox[q]]
      BY <3>1 DEF Inbox
    <3>3. DOMAIN Inbox = Rules \X Users
      BY DEF Inbox
    <3> HIDE DEF Inbox
    <3> QED
      BY <2>5, <3>2, <3>3
  <2>7. \A S \in {Owed, {"SENT"}, {"FAILED"}} : PairsIn(S)' = PairsIn(S)
    BY <1>1 DEF PairsIn, IsFor
  <2>8. P!Deliver(p, k)
    BY <2>3, <2>5, <2>6, <2>7 DEF P!Deliver
  <2> QED
    BY <2>8 DEF Refines, P!Next
<1> QED
  BY <1>1, <1>4, <1>5, <1>6

\* Every step of Delivery is a step of Promise, or none.
LEMMA NextRefines == IInv /\ [Next]_vars => Refines
<1> SUFFICES ASSUME IInv, [Next]_vars PROVE Refines
  OBVIOUS
<1>1. ASSUME UNCHANGED jobs, NothingDelivered PROVE Refines
  <2>1. RowsStand
    BY <1>1 DEF RowsStand, Live
  <2> QED
    BY <1>1, <2>1, QuietRefines
<1>2. ASSUME UNCHANGED jobs, UNCHANGED dms PROVE Refines
  BY <1>1, <1>2 DEF NothingDelivered
<1>3. ASSUME UNCHANGED jobs, NEW k, Create(k) PROVE Refines
  <2>1. NothingDelivered
    BY <1>3 DEF Create, NothingDelivered, IInv, TypeOK
  <2> QED
    BY <1>1, <1>3, <2>1
<1>4. ASSUME NEW J \in SUBSET Jobs, NEW s \in Owed, UNCHANGED dms,
             \A j \in J : jobs[j].status \in Owed,
             jobs' = [j \in Jobs |-> IF j \in J THEN [jobs[j] EXCEPT !.status = s]
                                               ELSE jobs[j]]
      PROVE  Refines
  <2>1. \A j \in Jobs : /\ jobs'[j].rule = jobs[j].rule /\ jobs'[j].comment = jobs[j].comment
                        /\ j \in J => jobs'[j].status = s
                        /\ j \notin J => jobs'[j].status = jobs[j].status
    BY <1>4 DEF IInv, TypeOK, Row
  <2>2. RowsStand /\ NothingDelivered
    BY <1>4, <2>1 DEF RowsStand, NothingDelivered, Live, Owed
  <2> QED
    BY <1>4, <2>1, <2>2, QuietRefines
<1>5. CASE Tables
  BY <1>2, <1>5, InsertRefines, CancelRefines DEF Tables, AddRule, RemoveRule, deliveryVars
<1>6. CASE WorkerStep
  <2>1. ASSUME NEW j \in Jobs, Claim(j) PROVE Refines
    <3>1. jobs[j].status \in Owed
      BY <2>1 DEF Claim, Owed
    <3>2. jobs' = [i \in Jobs |-> IF i \in {j} THEN [jobs[i] EXCEPT !.status = "SENDING"]
                                             ELSE jobs[i]]
      BY <2>1 DEF Claim, IInv, TypeOK
    <3> QED
      BY <1>4, <2>1, <3>1, <3>2 DEF Claim, Owed
  <2>2. ASSUME NEW pc \in WorkerPCs \ {"idle"}, NEW row, Record(pc, row),
               row.rule = jobs[worker.job].rule, row.comment = jobs[worker.job].comment,
               row.status \in Owed \cup {"FAILED"}
        PROVE  Refines
    <3>1. PICK j \in Jobs : j = worker.job /\ jobs[j].status \in Owed
      BY <2>2, WorkerKeyIsKnown DEF Record, Owed
    <3>2. jobs' = [jobs EXCEPT ![j] = row] /\ UNCHANGED dms
      BY <2>2, <3>1 DEF Record
    <3>3. /\ row.rule = jobs[j].rule /\ row.comment = jobs[j].comment
          /\ row.status \in Owed \cup {"SENT", "FAILED"} /\ row.status # "SENT"
      BY <2>2, <3>1 DEF Owed
    <3> QED
      BY <3>1, <3>2, <3>3, RowRefines
  <2>3. CASE RecordAccepted \/ RecordRateLimited \/ RecordUnsendable \/ RecordFailedAttempt
    <3>1. \A j \in Jobs : jobs[j] \in Row
      BY DEF IInv, TypeOK
    <3>2. worker.pc # "idle"
      BY <2>3 DEF RecordAccepted, RecordRateLimited, RecordUnsendable, RecordFailedAttempt,
                  Record
    <3>3. worker.job \in Jobs /\ jobs[worker.job] \in Row
      BY <3>1, <3>2, WorkerKeyIsKnown
    <3> DEFINE h == jobs[worker.job]
               attempt == worker.attempt + 1
    <3>4. CASE RecordAccepted
      <4> DEFINE row == [h EXCEPT !.status = "AWAITING_CONFIRM", !.dm = Key, !.error = "none"]
      <4>1. row.rule = h.rule /\ row.comment = h.comment /\ row.status \in Owed
        BY <3>3 DEF Row, Owed
      <4>2. Record("accepted", row)
        BY <3>4 DEF RecordAccepted
      <4> QED
        BY <2>2, <4>1, <4>2 DEF WorkerPCs
    <3>5. CASE RecordRateLimited
      <4> DEFINE row == [h EXCEPT !.status = "QUEUED", !.error = "rate_limited"]
      <4>1. row.rule = h.rule /\ row.comment = h.comment /\ row.status \in Owed
        BY <3>3 DEF Row, Owed
      <4>2. Record("rate_limited", row)
        BY <3>5 DEF RecordRateLimited
      <4> QED
        BY <2>2, <4>1, <4>2 DEF WorkerPCs
    <3>6. CASE RecordUnsendable
      <4> DEFINE row == [h EXCEPT !.status = "FAILED",
                    !.error = IF worker.pc = "no_rule" THEN "rule_missing" ELSE "bad_request"]
      <4>1. row.rule = h.rule /\ row.comment = h.comment /\ row.status = "FAILED"
        BY <3>3 DEF Row
      <4>2. Record(worker.pc, row) /\ worker.pc \in WorkerPCs \ {"idle"}
        BY <3>6 DEF RecordUnsendable, WorkerPCs
      <4> QED
        BY <2>2, <4>1, <4>2
    <3>7. CASE RecordFailedAttempt
      <4> DEFINE row == [h EXCEPT !.status = IF attempt >= MaxAttempts THEN "FAILED" ELSE "QUEUED",
                                  !.attempt = attempt, !.error = "attempt_failed"]
      <4>1. row.rule = h.rule /\ row.comment = h.comment /\ row.status \in Owed \cup {"FAILED"}
        BY <3>3 DEF Row, Owed
      <4>2. Record("error", row)
        BY <3>7 DEF RecordFailedAttempt
      <4> QED
        BY <2>2, <4>1, <4>2 DEF WorkerPCs
    <3> QED
      BY <2>3, <3>4, <3>5, <3>6, <3>7
  <2>4. ASSUME NEW old \in SUBSET InStatus("SENDING"), RequeueStale(old) PROVE Refines
    BY <1>4, <2>4 DEF RequeueStale, InStatus, Owed
  <2> QED
    BY <1>2, <1>6, <2>1, <2>3, <2>4 DEF WorkerStep, StartSend
<1>7. CASE ReconcilerStep
  <2>1. ASSUME NEW j \in Jobs, ConfirmSent(j) \/ RequeueNewCycle(j) \/ GiveUp(j)
        PROVE  Refines
    <3>1. /\ batch[j].pc # "none" /\ jobs[j].status \in Owed /\ jobs[j] \in Row
          /\ jobs[j].dm = <<j, jobs[j].cycle>> /\ batch[j].dm = jobs[j].dm
          /\ batch[j].pc = "delivered" => dms[jobs[j].dm] = "delivered"
      BY <2>1 DEF ConfirmSent, RequeueNewCycle, GiveUp, IInv, PollsAreCurrent, PollsAreTrue,
                  TypeOK, Owed
    <3>2. ASSUME NEW row, Resolve(j, row),
                 row.rule = jobs[j].rule, row.comment = jobs[j].comment,
                 \/ row.status \in {"QUEUED", "FAILED"}
                 \/ row.status = "SENT" /\ batch[j].pc = "delivered"
          PROVE  Refines
      <4>1. jobs' = [jobs EXCEPT ![j] = row] /\ UNCHANGED dms
        BY <3>2 DEF Resolve
      <4>2. /\ row.status \in Owed \cup {"SENT", "FAILED"}
            /\ row.status = "SENT" => dms[jobs[j].dm] = "delivered"
        BY <3>1, <3>2 DEF Owed
      <4> QED
        BY <3>1, <3>2, <4>1, <4>2, RowRefines
    <3>3. CASE ConfirmSent(j)
      <4> DEFINE row == [jobs[j] EXCEPT !.status = "SENT", !.error = "none"]
      <4>1. row.rule = jobs[j].rule /\ row.comment = jobs[j].comment /\ row.status = "SENT"
        BY <3>1 DEF Row
      <4> QED
        BY <3>2, <3>3, <4>1 DEF ConfirmSent
    <3>4. CASE RequeueNewCycle(j)
      <4> DEFINE row == [jobs[j] EXCEPT !.status = "QUEUED", !.cycle = batch[j].cycle + 1,
                                        !.attempt = 0, !.dm = Null]
      <4>1. row.rule = jobs[j].rule /\ row.comment = jobs[j].comment /\ row.status = "QUEUED"
        BY <3>1 DEF Row
      <4> QED
        BY <3>2, <3>4, <4>1 DEF RequeueNewCycle
    <3>5. CASE GiveUp(j)
      <4> DEFINE row == [jobs[j] EXCEPT !.status = "FAILED", !.error = "undelivered"]
      <4>1. row.rule = jobs[j].rule /\ row.comment = jobs[j].comment /\ row.status = "FAILED"
        BY <3>1 DEF Row
      <4> QED
        BY <3>2, <3>5, <4>1 DEF GiveUp
    <3> QED
      BY <2>1, <3>3, <3>4, <3>5
  <2> QED
    BY <1>2, <1>7, <2>1 DEF ReconcilerStep, FetchBatch, ReadStatus, Reschedule
<1>8. CASE Server
  <2>1. ASSUME NEW k \in Keys, Settle(k) PROVE Refines
    BY <2>1, SettleRefines
  <2> QED
    BY <1>2, <1>3, <1>8, <2>1 DEF Server, AnswerAccepted, AnswerRefused, AnswerServerError,
       TransportError, LateArrival
<1>9. CASE WorkerException \/ Crash \/ UNCHANGED vars
  BY <1>2, <1>9 DEF WorkerException, Crash, vars
<1> QED
  BY <1>5, <1>6, <1>7, <1>8, <1>9 DEF Next

(***************************************************************************)
(* Delivery implements Promise, for every set of rows, rules, comments and *)
(* users: per (rule, user) at most one DM under the standing row, sent     *)
(* only when delivered, and no way out of sent or failed (schema.sql,      *)
(* worker.py, reconciler.py).                                              *)
(***************************************************************************)
THEOREM DeliveryKeepsThePromise == Spec => PromiseKept
<1>1. Init => P!Init
  BY DEF Init, TablesInit, NoRow, P!Init, PairsIn, Inbox, Owed
<1>2. IInv /\ [Next]_vars => [P!Next]_(P!promiseVars)
  BY NextRefines DEF Refines
<1> QED
  BY <1>1, <1>2, Invariance, PTL DEF Spec, PromiseKept, P!Spec

=============================================================================
