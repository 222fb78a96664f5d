------------------------------- MODULE Reports -------------------------------
(***************************************************************************)
(* The readers of the pipeline's numbers: GET /stats, and the simulation   *)
(* proxy, which takes the same numbers as a baseline before it asks        *)
(* PseudoGram for a run and later reports the difference.  Both read with  *)
(* one statement for the rows of dm_jobs and one for the counter.  Several *)
(* GET /stats are served at once and answer in any order.                  *)
(***************************************************************************)
EXTENDS Integers, FiniteSets

CONSTANTS
  Jobs,        \* job_ids
  Requests,    \* GET /stats under way at the same time
  MaxBlocked,  \* bound: blocked duplicates of each origin
  Null

ASSUME ReportsAssumption == IsFiniteSet(Jobs) /\ MaxBlocked \in Nat

\* What a row or a duplicate comes from: the simulated run, or anything else.
Origins == {"run", "other"}

Owed == {"QUEUED", "SENDING", "AWAITING_CONFIRM"}
Statuses == {"ABSENT", "SENT", "FAILED", "CANCELLED"} \cup Owed

VARIABLES
  rows,      \* table dm_jobs: status and, as history, origin
  blocked,   \* counter duplicates_blocked_rule_user, by origin
  stats,     \* the requests GET /stats
  answered,  \* history: the highest totals that any answer has told
  sim,       \* the simulation: start_simulation, then run_report
  running,   \* external: PseudoGram has started the run
  record,    \* table simulate_runs: the baseline, once it is recorded
  delta      \* the last report: stats.delta_this_run

vars == <<rows, blocked, stats, answered, sim, running, record, delta>>
pipeline == <<rows, blocked>>
statsVars == <<stats, answered>>
simVars == <<sim, running, record, delta>>

Count(statuses) == Cardinality({j \in Jobs : rows[j].status \in statuses})

\* Mutant: a DM that was accepted counts as sent.
BucketsOptimistic ==
  [sent |-> Count({"SENT", "AWAITING_CONFIRM"}), failed |-> Count({"FAILED"}),
   queued |-> Count({"QUEUED", "SENDING"})]

\* JOB_BUCKETS_SQL.
Buckets == [sent |-> Count({"SENT"}), failed |-> Count({"FAILED"}),
            queued |-> Count(Owed)]

\* db.counter("duplicates_blocked_rule_user").
Blocked == blocked["run"] + blocked["other"]

OfRun(statuses) ==
  Cardinality({j \in Jobs : rows[j].status \in statuses /\ rows[j].origin = "run"})

NoNumbers == [rows |-> [sent |-> 0, failed |-> 0, queued |-> 0], blocked |-> 0]
NoTotals == [sent |-> 0, failed |-> 0, blocked |-> 0]

Idle == [pc |-> "idle", read |-> NoNumbers, ofRun |-> 0]

\* A request that nobody has made; one told of nothing when it was made.
Unasked == [pc |-> "idle", read |-> NoNumbers, told |-> NoTotals]

\* The first statement reads the rows; the second one completes the numbers.
RowsRead == [rows |-> Buckets, blocked |-> 0]
Counted(pc) == [pc |-> pc, read |-> RowsRead, ofRun |-> OfRun({"SENT"})]

Higher(m, n) == IF m >= n THEN m ELSE n

\* The totals of an answer, where they are higher than those told before.
RaisedBy(totals, numbers) ==
  [sent |-> Higher(totals.sent, numbers.rows.sent),
   failed |-> Higher(totals.failed, numbers.rows.failed),
   blocked |-> Higher(totals.blocked, numbers.blocked)]

Completed(numbers) == [numbers EXCEPT !.blocked = Blocked]

Init ==
  /\ rows = [j \in Jobs |-> [status |-> "ABSENT", origin |-> "other"]]
  /\ blocked = [o \in Origins |-> 0]
  /\ stats = [r \in Requests |-> Unasked] /\ answered = NoTotals
  /\ sim = Idle /\ running = FALSE
  /\ record = Null /\ delta = Null

-----------------------------------------------------------------------------
(* The pipeline goes on meanwhile *)

\* The events of the run exist only once PseudoGram has started it.
MayCause(o) == o = "run" => running

Edges == {<<"QUEUED", "SENDING">>, <<"QUEUED", "CANCELLED">>, <<"SENDING", "QUEUED">>,
          <<"SENDING", "AWAITING_CONFIRM">>, <<"SENDING", "FAILED">>,
          <<"AWAITING_CONFIRM", "QUEUED">>, <<"AWAITING_CONFIRM", "SENT">>,
          <<"AWAITING_CONFIRM", "FAILED">>}

Pipeline ==
  /\ \/ \E j \in Jobs, o \in Origins :
          /\ rows[j].status = "ABSENT" /\ MayCause(o)
          /\ rows' = [rows EXCEPT ![j] = [status |-> "QUEUED", origin |-> o]]
          /\ UNCHANGED blocked
     \/ \E j \in Jobs, status \in Statuses :
          /\ <<rows[j].status, status>> \in Edges
          /\ rows' = [rows EXCEPT ![j].status = status]
          /\ UNCHANGED blocked
     \/ \E o \in Origins :
          /\ MayCause(o) /\ blocked[o] < MaxBlocked
          /\ blocked' = [blocked EXCEPT ![o] = @ + 1]
          /\ UNCHANGED rows
  /\ UNCHANGED <<statsVars, simVars>>

-----------------------------------------------------------------------------
(* GET /stats *)

CountRows(r) ==
  /\ stats[r].pc = "idle"
  /\ stats' = [stats EXCEPT ![r] = [pc |-> "counted", read |-> RowsRead, told |-> answered]]
  /\ UNCHANGED <<pipeline, answered, simVars>>

AnswerStats(r) ==
  /\ stats[r].pc = "counted"
  /\ answered' = RaisedBy(answered, Completed(stats[r].read))
  /\ stats' = [stats EXCEPT ![r] = Unasked]
  /\ UNCHANGED <<pipeline, simVars>>

-----------------------------------------------------------------------------
(* POST /api/simulate *)

\* _snapshot, first statement.
Snapshot ==
  /\ sim.pc = "idle" /\ ~running /\ record = Null
  /\ sim' = Counted("counted")
  /\ UNCHANGED <<pipeline, statsVars, running, record, delta>>

\* Its later statements; the baseline is held in memory from here on.
SnapshotBlocked ==
  /\ sim.pc = "counted"
  /\ sim' = [sim EXCEPT !.pc = "posting", !.read = Completed(sim.read)]
  /\ UNCHANGED <<pipeline, statsVars, running, record, delta>>

\* PseudoGram starts the run; its answer names it, or does not reach us.
StartRun ==
  /\ sim.pc = "posting" /\ ~running
  /\ running' = TRUE
  /\ sim' \in {[sim EXCEPT !.pc = "started"], Idle}
  /\ UNCHANGED <<pipeline, statsVars, record, delta>>

\* Mutant: the baseline is what holds when the run is recorded.
RecordRunFresh ==
  /\ sim.pc = "started"
  /\ record' = Completed(RowsRead)
  /\ sim' = Idle
  /\ UNCHANGED <<pipeline, statsVars, running, delta>>

\* INSERT INTO simulate_runs.
RecordRun ==
  /\ sim.pc = "started"
  /\ record' = sim.read
  /\ sim' = Idle
  /\ UNCHANGED <<pipeline, statsVars, running, delta>>

\* A refusal, an exception, a crash: what was read is forgotten.
SimFails ==
  /\ sim.pc # "idle"
  /\ sim' = Idle
  /\ UNCHANGED <<pipeline, statsVars, running, record, delta>>

-----------------------------------------------------------------------------
(* GET /api/simulate/{run_id}/report *)

\* Only a recorded run has a report; truth is fetched, then the numbers.
ReportRows ==
  /\ sim.pc = "idle" /\ record # Null
  /\ sim' = Counted("reporting")
  /\ UNCHANGED <<pipeline, statsVars, running, record, delta>>

\* max(0, current - base).
Floored(n) == IF n < 0 THEN 0 ELSE n

\* _delta: queued is a level and may be negative.
Report ==
  /\ sim.pc = "reporting"
  /\ delta' = [sent |-> Floored(sim.read.rows.sent - record.rows.sent),
               failed |-> Floored(sim.read.rows.failed - record.rows.failed),
               queued |-> sim.read.rows.queued - record.rows.queued,
               blocked |-> Floored(Blocked - record.blocked),
               ofRun |-> [sent |-> sim.ofRun, blocked |-> blocked["run"]]]
  /\ sim' = Idle
  /\ UNCHANGED <<pipeline, statsVars, running, record>>

Next ==
  \/ Pipeline
  \/ \E r \in Requests : CountRows(r) \/ AnswerStats(r)
  \/ Snapshot \/ SnapshotBlocked \/ StartRun \/ RecordRun \/ SimFails
  \/ ReportRows \/ Report

Spec == Init /\ [][Next]_vars

-----------------------------------------------------------------------------
Numbers == [rows : [sent : 0 .. Cardinality(Jobs), failed : 0 .. Cardinality(Jobs),
                    queued : 0 .. Cardinality(Jobs)],
            blocked : 0 .. 2 * MaxBlocked]

Totals == [sent : 0 .. Cardinality(Jobs), failed : 0 .. Cardinality(Jobs),
           blocked : 0 .. 2 * MaxBlocked]

Reader == [pc : {"idle", "counted", "posting", "started", "reporting"},
           read : Numbers, ofRun : 0 .. Cardinality(Jobs)]

Request == [pc : {"idle", "counted"}, read : Numbers, told : Totals]

TypeOK ==
  /\ rows \in [Jobs -> [status : Statuses, origin : Origins]]
  /\ blocked \in [Origins -> 0 .. MaxBlocked]
  /\ stats \in [Requests -> Request] /\ sim \in Reader /\ answered \in Totals
  /\ record \in Numbers \cup {Null}
  /\ running \in BOOLEAN
  /\ record # Null => running

AtLeast(numbers, totals) ==
  /\ numbers.rows.sent >= totals.sent
  /\ numbers.rows.failed >= totals.failed
  /\ numbers.blocked >= totals.blocked

(***************************************************************************)
(* An answer of /stats takes back no DM sent, no failure and no blocked    *)
(* duplicate that any answer had told before its first statement, whatever *)
(* moved between its statements and whichever others are served at the     *)
(* same time (stats.py).  Of two that overlap, the one that answers last   *)
(* may well be the older: nothing is promised about these.                 *)
(***************************************************************************)
StatsNeverTakesBack ==
  \A r \in Requests :
    stats[r].pc = "counted" => AtLeast(Completed(stats[r].read), stats[r].told)

(***************************************************************************)
(* A report misses nothing of its run: whatever the run has sent and       *)
(* blocked is in the difference to the baseline, which was read before     *)
(* PseudoGram was asked to start (simulate.py start_simulation, _delta).   *)
(***************************************************************************)
ReportCoversRun ==
  delta # Null => delta.sent >= delta.ofRun.sent /\ delta.blocked >= delta.ofRun.blocked

=============================================================================
