------------------------------ MODULE Delivery ------------------------------
(***************************************************************************)
(* The delivery half of LinkPlease: one row of dm_jobs per (rule, user)    *)
(* obligation, the send worker that claims rows and calls POST             *)
(* /v1/dm/send, the reconciler that polls GET /v1/dm/{dm_id}, the recovery *)
(* of rows a crash left in SENDING, and the statements of the matcher and  *)
(* of the rules API that touch the same tables.                            *)
(*                                                                         *)
(* One action per database statement or HTTP exchange: whatever happens    *)
(* between two awaits of the code is atomic, everything else interleaves.  *)
(***************************************************************************)
EXTENDS JobTable

VARIABLES
  worker,   \* send_worker_loop: its position and the claimed job's dict
  batch,    \* reconciler_loop: the rows it fetched and has not finished
  dms,      \* external: the DM PseudoGram holds under each key
  late      \* external: keys of abandoned requests that may still arrive

vars == <<jobs, rules, worker, batch, dms, late>>
deliveryVars == <<worker, batch, dms, late>>

WorkerPCs == {"idle", "claimed", "sending", "no_rule",
              "accepted", "rate_limited", "bad_request", "error"}

Worker == [pc : WorkerPCs, job : Jobs \cup {Null},
           attempt : 0 .. MaxAttempts, cycle : Cycles]

IdleWorker == [pc |-> "idle", job |-> Null, attempt |-> 0, cycle |-> 0]

PollPCs == {"none", "polling", "no_dm", "delivered", "failed", "unknown"}

Poll == [pc : PollPCs, dm : Keys \cup {Null}, cycle : Cycles]

NoPoll == [pc |-> "none", dm |-> Null, cycle |-> 0]

DmStates == {"none", "queued", "delivered", "failed"}

\* The Idempotency-Key of the claimed job.
Key == <<worker.job, worker.cycle>>

Init ==
  /\ TablesInit
  /\ worker = IdleWorker
  /\ batch = [j \in Jobs |-> NoPoll]
  /\ dms = [k \in Keys |-> "none"]
  /\ late = {}

-----------------------------------------------------------------------------
(* The send worker *)

\* One UPDATE ... RETURNING: pick and mark are one step.
Claim(j) ==
  /\ worker.pc = "idle"
  /\ jobs[j].status = "QUEUED"
  /\ jobs' = [jobs EXCEPT ![j].status = "SENDING"]
  /\ worker' = [pc |-> "claimed", job |-> j,
                attempt |-> jobs[j].attempt, cycle |-> jobs[j].cycle]
  /\ UNCHANGED <<rules, batch, dms, late>>

\* The second lookup of claim_job, then the request of _send_one.
StartSend ==
  /\ worker.pc = "claimed"
  /\ worker' = [worker EXCEPT !.pc = IF jobs[worker.job].rule \in rules
                                     THEN "sending" ELSE "no_rule"]
  /\ UNCHANGED <<jobs, rules, batch, dms, late>>

\* The request reaches the server, which may or may not create the DM.
Create(k) == dms' = [dms EXCEPT ![k] = IF @ = "none" THEN "queued" ELSE @]

(***************************************************************************)
(* PseudoGram answers.  An accepted request names the DM of its key, which *)
(* exists from then on; a 429 or a 4xx creates nothing; a 5xx, or a 2xx    *)
(* whose body names no dm_id, may have created it.                         *)
(***************************************************************************)
AnswerAccepted ==
  /\ worker.pc = "sending"
  /\ Create(Key)
  /\ worker' = [worker EXCEPT !.pc = "accepted"]
  /\ UNCHANGED <<jobs, rules, batch, late>>

AnswerRefused(reply) ==
  /\ worker.pc = "sending"
  /\ worker' = [worker EXCEPT !.pc = reply]
  /\ UNCHANGED <<jobs, rules, batch, dms, late>>

AnswerServerError ==
  /\ worker.pc = "sending"
  /\ Create(Key) \/ UNCHANGED dms
  /\ worker' = [worker EXCEPT !.pc = "error"]
  /\ UNCHANGED <<jobs, rules, batch, late>>

\* The client stops waiting; the request may have landed, or land later.
TransportError ==
  /\ worker.pc = "sending"
  /\ late' = late \cup {Key}
  /\ worker' = [worker EXCEPT !.pc = "error"]
  /\ UNCHANGED <<jobs, rules, batch, dms>>

-----------------------------------------------------------------------------
(* The worker writes the outcome back *)

\* The worker's write to its row, after which it is back at the loop's top.
Record(pc, row) ==
  /\ worker.pc = pc
  /\ jobs' = [jobs EXCEPT ![worker.job] = row]
  /\ worker' = IdleWorker
  /\ UNCHANGED <<rules, batch, dms, late>>

\* Mutant: the 202 is taken for a delivery.
RecordAcceptedAsSent ==
  Record("accepted", [jobs[worker.job] EXCEPT
    !.status = "SENT", !.dm = Key, !.error = "none"])

RecordAccepted ==
  Record("accepted", [jobs[worker.job] EXCEPT
    !.status = "AWAITING_CONFIRM", !.dm = Key, !.error = "none"])

\* A 429 keeps the attempt count.
RecordRateLimited ==
  Record("rate_limited", [jobs[worker.job] EXCEPT
    !.status = "QUEUED", !.error = "rate_limited"])

\* _fail without an attempt: a refused payload, or a rule that is gone.
RecordUnsendable ==
  /\ worker.pc \in {"bad_request", "no_rule"}
  /\ Record(worker.pc, [jobs[worker.job] EXCEPT
       !.status = "FAILED",
       !.error = IF worker.pc = "no_rule" THEN "rule_missing" ELSE "bad_request"])

\* A 5xx or a transport error: the same key again, MaxAttempts times in all.
RecordFailedAttempt ==
  LET attempt == worker.attempt + 1
  IN  Record("error", [jobs[worker.job] EXCEPT
        !.status = IF attempt >= MaxAttempts THEN "FAILED" ELSE "QUEUED",
        !.attempt = attempt, !.error = "attempt_failed"])

\* Mutants: recovery resends under a new key, or only before any retry.
RequeueStaleNewKey(old) ==
  /\ worker.pc = "idle"
  /\ old # {}
  /\ jobs' = [j \in Jobs |->
                IF j \in old
                THEN [jobs[j] EXCEPT !.status = "QUEUED", !.cycle = (@ + 1) % MaxCycles]
                ELSE jobs[j]]
  /\ UNCHANGED <<rules, worker, batch, dms, late>>

RequeueStaleUntried(old) ==
  /\ worker.pc = "idle"
  /\ old # {}
  /\ \A j \in old : jobs[j].attempt = 0
  /\ jobs' = [j \in Jobs |->
                IF j \in old THEN [jobs[j] EXCEPT !.status = "QUEUED"]
                             ELSE jobs[j]]
  /\ UNCHANGED <<rules, worker, batch, dms, late>>

(***************************************************************************)
(* Rows a crash or an exception left in SENDING go back to the queue in    *)
(* the same cycle: at boot, and by the worker between two iterations.      *)
(* `old' is the part of them past SENDING_STALE_SECONDS.                   *)
(***************************************************************************)
RequeueStale(old) ==
  /\ worker.pc = "idle"
  /\ old # {}
  /\ jobs' = [j \in Jobs |->
                IF j \in old THEN [jobs[j] EXCEPT !.status = "QUEUED"]
                             ELSE jobs[j]]
  /\ UNCHANGED <<rules, worker, batch, dms, late>>

-----------------------------------------------------------------------------
(* The reconciler *)

\* The SELECT of one pass; `due' is what check_after and LIMIT let through.
FetchBatch(due) ==
  /\ \A j \in Jobs : batch[j].pc = "none"
  /\ due # {}
  /\ batch' = [j \in Jobs |->
                 IF j \in due
                 THEN [pc |-> "polling", dm |-> jobs[j].dm, cycle |-> jobs[j].cycle]
                 ELSE NoPoll]
  /\ UNCHANGED <<jobs, rules, worker, dms, late>>

\* Mutant: a DM still queued on their side counts as delivered.
ReadStatusOptimistic(j) ==
  /\ batch[j].pc = "polling"
  /\ batch' = [batch EXCEPT ![j].pc =
                 IF dms[batch[j].dm] = "failed" THEN "failed" ELSE "delivered"]
  /\ UNCHANGED <<jobs, rules, worker, dms, late>>

\* get_dm: a settled status, or nothing learned (queued, or a failed read).
ReadStatus(j) ==
  /\ batch[j].pc = "polling"
  /\ \E answer \in {"delivered", "failed", "unknown"} :
       /\ (answer # "unknown" /\ batch[j].dm # Null) => dms[batch[j].dm] = answer
       /\ batch' = [batch EXCEPT ![j].pc =
                      IF batch[j].dm = Null THEN "no_dm" ELSE answer]
  /\ UNCHANGED <<jobs, rules, worker, dms, late>>

\* The reconciler's write to the row, which ends its poll.
Resolve(j, row) ==
  /\ jobs' = [jobs EXCEPT ![j] = row]
  /\ batch' = [batch EXCEPT ![j] = NoPoll]
  /\ UNCHANGED <<rules, worker, dms, late>>

ConfirmSent(j) ==
  /\ batch[j].pc = "delivered"
  /\ Resolve(j, [jobs[j] EXCEPT !.status = "SENT", !.error = "none"])

\* Mutant: the resend keeps the old Idempotency-Key.
RequeueSameCycle(j) ==
  /\ batch[j].pc \in {"failed", "no_dm"}
  /\ batch[j].pc = "failed" => batch[j].cycle + 1 < MaxCycles
  /\ Resolve(j, [jobs[j] EXCEPT !.status = "QUEUED", !.attempt = 0, !.dm = Null])

\* A resend under a new Idempotency-Key, for a DM that failed or has no id.
RequeueNewCycle(j) ==
  /\ batch[j].pc \in {"failed", "no_dm"}
  /\ batch[j].pc = "failed" => batch[j].cycle + 1 < MaxCycles
  /\ Resolve(j, [jobs[j] EXCEPT !.status = "QUEUED", !.cycle = batch[j].cycle + 1,
                                !.attempt = 0, !.dm = Null])

\* Mutant: gives up one cycle early.
GiveUpEarly(j) ==
  /\ batch[j].pc = "failed"
  /\ batch[j].cycle + 2 >= MaxCycles
  /\ Resolve(j, [jobs[j] EXCEPT !.status = "FAILED", !.error = "undelivered"])

GiveUp(j) ==
  /\ batch[j].pc = "failed"
  /\ batch[j].cycle + 1 >= MaxCycles
  /\ Resolve(j, [jobs[j] EXCEPT !.status = "FAILED", !.error = "undelivered"])

\* Nothing terminal learned, only the next poll scheduled; also where an
\* exception swallowed by gather() leaves the row.
Reschedule(j) ==
  /\ batch[j].pc # "none"
  /\ batch' = [batch EXCEPT ![j] = NoPoll]
  /\ UNCHANGED <<jobs, rules, worker, dms, late>>

-----------------------------------------------------------------------------
(* Failures of the process, and the server on its own *)

\* A request abandoned in flight may still arrive.
Abandoned == IF worker.pc = "sending" THEN {Key} ELSE {}

\* An exception ends the iteration; the claimed row stays in SENDING.
WorkerException ==
  /\ worker.pc # "idle"
  /\ worker' = IdleWorker
  /\ late' = late \cup Abandoned
  /\ UNCHANGED <<jobs, rules, batch, dms>>

\* The process dies and boots again: everything in memory is lost.
Crash ==
  /\ worker' = IdleWorker
  /\ batch' = [j \in Jobs |-> NoPoll]
  /\ late' = late \cup Abandoned
  /\ UNCHANGED <<jobs, rules, dms>>

LateArrival(k) ==
  /\ late' = late \ {k}
  /\ Create(k)
  /\ UNCHANGED <<jobs, rules, worker, batch>>

Settle(k) ==
  /\ dms[k] = "queued"
  /\ \E status \in {"delivered", "failed"} : dms' = [dms EXCEPT ![k] = status]
  /\ UNCHANGED <<jobs, rules, worker, batch, late>>

-----------------------------------------------------------------------------
\* What the rules API and the matcher may do to the tables meanwhile.
Tables ==
  /\ \/ \E r \in Rules : AddRule(r) \/ RemoveRule(r)
     \/ \E r \in Rules, c \in Comments : InsertJob(r, c)
     \/ \E c \in Comments : CancelJobs(c)
  /\ UNCHANGED deliveryVars

WorkerStep ==
  \/ \E j \in Jobs : Claim(j)
  \/ StartSend
  \/ RecordAccepted
  \/ RecordRateLimited
  \/ RecordUnsendable
  \/ RecordFailedAttempt
  \/ \E old \in SUBSET InStatus("SENDING") : RequeueStale(old)

ReconcilerStep ==
  \/ \E due \in SUBSET InStatus("AWAITING_CONFIRM") : FetchBatch(due)
  \/ \E j \in Jobs : ReadStatus(j) \/ ConfirmSent(j) \/ RequeueNewCycle(j)
                     \/ GiveUp(j) \/ Reschedule(j)

Server ==
  \/ AnswerAccepted
  \/ \E reply \in {"rate_limited", "bad_request"} : AnswerRefused(reply)
  \/ AnswerServerError
  \/ TransportError
  \/ \E k \in late : LateArrival(k)
  \/ \E k \in Keys : Settle(k)

Next ==
  \/ Tables
  \/ WorkerStep
  \/ ReconcilerStep
  \/ Server
  \/ WorkerException
  \/ Crash

Spec == Init /\ [][Next]_vars

(***************************************************************************)
(* Fairness.  Strong fairness stands for what the code and its environment *)
(* guarantee only over time: claim_job takes the oldest due row, so a row  *)
(* that stays due is claimed; recovery runs every 50 iterations; and       *)
(* crashes, throttling and failed reads do not preempt a step every time.  *)
(***************************************************************************)
WorkerFairness ==
  /\ \A j \in Jobs :
       /\ SF_vars(Claim(j))
       /\ SF_vars(worker.job = j /\ StartSend)
       /\ SF_vars(worker.job = j /\ RecordAccepted)
       /\ SF_vars(worker.job = j /\ RecordRateLimited)
       /\ SF_vars(worker.job = j /\ RecordUnsendable)
       /\ SF_vars(worker.job = j /\ RecordFailedAttempt)
  /\ SF_vars(RequeueStale(InStatus("SENDING")))

ReconcilerFairness ==
  \A j \in Jobs :
    /\ SF_vars(jobs[j].status = "AWAITING_CONFIRM"
               /\ FetchBatch(InStatus("AWAITING_CONFIRM")))
    /\ SF_vars(ReadStatus(j) /\ batch'[j].pc # "unknown")
    /\ SF_vars(ConfirmSent(j) \/ RequeueNewCycle(j) \/ GiveUp(j))
    /\ WF_vars(Reschedule(j))

\* Every request that keeps being made is at times answered otherwise than
\* with a 429, and every DM the server accepted is at last settled.
ServerFairness ==
  /\ \A j \in Jobs :
       SF_vars(worker.job = j /\ (\/ AnswerAccepted
                                  \/ AnswerRefused("bad_request")
                                  \/ AnswerServerError
                                  \/ TransportError))
  /\ \A k \in Keys : WF_vars(Settle(k))

LiveSpec == Spec /\ WorkerFairness /\ ReconcilerFairness /\ ServerFairness

-----------------------------------------------------------------------------
(* Invariants *)

TypeOK ==
  /\ jobs \in [Jobs -> Row]
  /\ rules \in SUBSET Rules
  /\ worker \in Worker
  /\ batch \in [Jobs -> Poll]
  /\ dms \in [Keys -> DmStates]
  /\ late \in SUBSET Keys

\* A DM the user has, or may still get.
InPlay(j, c) == dms[<<j, c>>] \in {"queued", "delivered"}

(***************************************************************************)
(* However retries, crashes, late requests and resends interleave, a row   *)
(* never has two DMs that reach, or may still reach, its user: a retry     *)
(* reuses the cycle's key and a new key exists only after the old DM       *)
(* failed (worker.py _send_one, requeue_stale_sending; reconciler.py       *)
(* _requeue_new_cycle).                                                    *)
(***************************************************************************)
OneLiveDM ==
  \A j \in Jobs : \A c1, c2 \in Cycles :
    InPlay(j, c1) /\ InPlay(j, c2) => c1 = c2

(***************************************************************************)
(* A row in SENT, which /stats reports as a DM sent, is one whose user has *)
(* the DM: a 202 alone never counts (worker.py _send_one, reconciler.py    *)
(* _reconcile_one).                                                        *)
(***************************************************************************)
SentWasDelivered ==
  \A j \in InStatus("SENT") : jobs[j].dm # Null /\ dms[jobs[j].dm] = "delivered"

(***************************************************************************)
(* Among the rows uq_live_job covers, no two deliver to the same user for  *)
(* the same rule, FAILED rows whose last request landed unnoticed included *)
(* (schema.sql uq_live_job, worker.py _fail).                              *)
(***************************************************************************)
LiveUserDMedOnce ==
  \A j1, j2 \in Jobs : \A c1, c2 \in Cycles :
    /\ Live(j1) /\ Live(j2)
    /\ IsFor(j2, jobs[j1].rule, Author[jobs[j1].comment])
    /\ InPlay(j1, c1) /\ InPlay(j2, c2)
    => j1 = j2 /\ c1 = c2

(***************************************************************************)
(* A row is FAILED only for a refused payload, after MaxAttempts failed    *)
(* attempts in its cycle, or when the DM of every cycle failed; never for  *)
(* a rule deleted under it, and never with "undelivered" for a user who    *)
(* may have the DM (worker.py _fail, reconciler.py _reconcile_one).        *)
(***************************************************************************)
FailedOnlyWithCause ==
  \A j \in InStatus("FAILED") :
    \/ jobs[j].error = "bad_request"
    \/ jobs[j].error = "attempt_failed" /\ jobs[j].attempt = MaxAttempts
    \/ jobs[j].error = "undelivered" /\ \A c \in Cycles : dms[<<j, c>>] = "failed"

(***************************************************************************)
(* What the reconciler fetched is still what the row says when it writes:  *)
(* its UPDATEs carry no status guard, so nobody else may move a row while  *)
(* it is polled, and the row names the DM of its own cycle, which exists   *)
(* (reconciler.py reconciler_loop, _reconcile_one).                        *)
(***************************************************************************)
PollsAreCurrent ==
  \A j \in Jobs : batch[j].pc # "none" =>
    /\ jobs[j].status = "AWAITING_CONFIRM"
    /\ batch[j].dm = jobs[j].dm /\ batch[j].cycle = jobs[j].cycle
    /\ jobs[j].dm = <<j, jobs[j].cycle>> /\ dms[jobs[j].dm] # "none"

-----------------------------------------------------------------------------
(* The inductive invariant behind them *)

RowsWellFormed ==
  \A j \in Jobs :
    /\ jobs[j].status = "ABSENT" => jobs[j] = NoRow
    /\ jobs[j].status # "ABSENT" =>
         jobs[j].rule \in rules /\ jobs[j].comment \in Comments
    /\ jobs[j].status \in {"QUEUED", "SENDING"} => jobs[j].attempt < MaxAttempts

RowsNameTheirDM ==
  \A j \in Jobs :
    /\ jobs[j].status \in {"AWAITING_CONFIRM", "SENT"} =>
         jobs[j].dm = <<j, jobs[j].cycle>> /\ dms[jobs[j].dm] # "none"
    /\ jobs[j].status = "SENT" => dms[jobs[j].dm] = "delivered"

\* A key of a later cycle was never used, one of an earlier cycle is spent.
CyclesInOrder ==
  \A j \in Jobs : \A c \in Cycles :
    /\ c < jobs[j].cycle => dms[<<j, c>>] = "failed"
    /\ dms[<<j, c>>] # "none" \/ <<j, c>> \in late =>
         jobs[j].status # "ABSENT" /\ c <= jobs[j].cycle

WorkerHoldsRow ==
  worker.pc # "idle" =>
    /\ worker.job \in Jobs /\ worker.pc # "no_rule"
    /\ jobs[worker.job].status = "SENDING"
    /\ worker.attempt = jobs[worker.job].attempt
    /\ worker.cycle = jobs[worker.job].cycle
    /\ worker.pc = "accepted" => dms[Key] # "none"

PollsAreTrue ==
  \A j \in Jobs :
    /\ batch[j].pc # "no_dm"
    /\ batch[j].pc \in {"delivered", "failed"} => dms[batch[j].dm] = batch[j].pc

OneLiveRow ==
  \A j1, j2 \in Jobs :
    /\ Live(j1) /\ Live(j2)
    /\ IsFor(j2, jobs[j1].rule, Author[jobs[j1].comment])
    => j1 = j2

(***************************************************************************)
(* The strengthening that makes the invariants above inductive.  It also   *)
(* says that two branches written for states the code calls impossible are *)
(* indeed never taken: a claimed job whose rule is gone (worker.py         *)
(* _send_one) and an AWAITING_CONFIRM row without dm_id (reconciler.py     *)
(* _reconcile_one).                                                        *)
(***************************************************************************)
IInv ==
  /\ TypeOK
  /\ RowsWellFormed
  /\ RowsNameTheirDM
  /\ CyclesInOrder
  /\ WorkerHoldsRow
  /\ PollsAreCurrent
  /\ PollsAreTrue
  /\ OneLiveRow
  /\ FailedOnlyWithCause

-----------------------------------------------------------------------------
(* Action and liveness properties *)

(***************************************************************************)
(* SENT, FAILED and CANCELLED rows never change again: FAILED is never     *)
(* revived, and no unguarded UPDATE of the worker or the reconciler lands  *)
(* on a row another actor closed (worker.py _fail; matcher.py              *)
(* _handle_deleted cancels only QUEUED rows).                              *)
(***************************************************************************)
TerminalIsFinal ==
  [][\A j \in Jobs : jobs[j].status \in Terminal => jobs'[j] = jobs[j]]_jobs

\* The same attempt under the same Idempotency-Key; or, of a request that was
\* out, the next attempt; or, its DM having failed, the first of the next key.
NextTry(j, old, new) ==
  \/ /\ new.cycle = old.cycle /\ new.attempt = old.attempt
     /\ old.status = "AWAITING_CONFIRM" => new.status # "QUEUED"
  \/ /\ old.status = "SENDING"
     /\ new.cycle = old.cycle /\ new.attempt = old.attempt + 1
  \/ /\ old.status = "AWAITING_CONFIRM" /\ dms[<<j, old.cycle>>] = "failed"
     /\ new.cycle = old.cycle + 1 /\ new.attempt = 0

(***************************************************************************)
(* A row's tries are spent in order, whatever writes it, recovery after a  *)
(* crash and a replayed webhook included; a row that waits for its DM is   *)
(* sent again only after that DM failed (worker.py _fail,                  *)
(* requeue_stale_sending; reconciler.py _requeue_new_cycle).               *)
(***************************************************************************)
TriesAreSpent == [][\A j \in Jobs : NextTry(j, jobs[j], jobs'[j])]_jobs

(***************************************************************************)
(* A row left in SENDING by a crash or an exception leaves that state      *)
(* again (worker.py requeue_stale_sending).                                *)
(***************************************************************************)
OrphansRecovered ==
  \A j \in Jobs : jobs[j].status = "SENDING" ~> jobs[j].status # "SENDING"

(***************************************************************************)
(* Every obligation ends SENT, FAILED or CANCELLED (worker.py              *)
(* send_worker_loop, reconciler.py reconciler_loop).                       *)
(***************************************************************************)
EveryObligationResolved ==
  \A j \in Jobs : jobs[j].status \in Owed ~> jobs[j].status \in Terminal

-----------------------------------------------------------------------------
(* Refinement of Promise: the rows of a pair that uq_live_job covers, and the
   DMs delivered under their keys, are the pair's standing promise. *)

PairsIn(statuses) ==
  {p \in Rules \X Users :
     \E j \in Jobs : jobs[j].status \in statuses /\ IsFor(j, p[1], p[2])}

Inbox ==
  [p \in Rules \X Users |->
     {k \in Keys : dms[k] = "delivered" /\ Live(k[1]) /\ IsFor(k[1], p[1], p[2])}]

P == INSTANCE Promise WITH
       Pairs <- Rules \X Users, DMs <- Keys, inbox <- Inbox,
       owed <- PairsIn(Owed), sent <- PairsIn({"SENT"}), failed <- PairsIn({"FAILED"})

(***************************************************************************)
(* Delivery keeps the promise: per (rule, user) at most one DM under the   *)
(* standing row, SENT only after delivery, no way out of SENT or FAILED    *)
(* (schema.sql dm_jobs and uq_live_job with worker.py and reconciler.py).  *)
(***************************************************************************)
PromiseKept == P!Spec

-----------------------------------------------------------------------------
(* A statement of the docs that the code does not keep *)

(***************************************************************************)
(* ASSIGNMENT.md: the same user is never DMed twice for the same rule,     *)
(* CANCELLED rows included, of which schema.sql says that the user never   *)
(* received the DM.                                                        *)
(***************************************************************************)
NeverDMedTwice ==
  \A j1, j2 \in Jobs : \A c1, c2 \in Cycles :
    /\ jobs[j1].status # "ABSENT" /\ jobs[j2].status # "ABSENT"
    /\ IsFor(j2, jobs[j1].rule, Author[jobs[j1].comment])
    /\ dms[<<j1, c1>>] = "delivered" /\ dms[<<j2, c2>>] = "delivered"
    => j1 = j2 /\ c1 = c2

=============================================================================
