------------------------------ MODULE JobTable ------------------------------
(***************************************************************************)
(* The tables dm_jobs and rules (schema.sql) and the statements that the   *)
(* matcher and the rules API run on them.  Delivery and Matcher extend     *)
(* this module; each of them adds what the rest of its state does.         *)
(*                                                                         *)
(* Clock columns (next_attempt_at, check_after, updated_at) and the poll   *)
(* count `checks', which only selects the next delay, are abstracted: a    *)
(* row may be due, or stale, at any moment.                                *)
(***************************************************************************)
EXTENDS Naturals

CONSTANTS
  Jobs,         \* the job_ids the sequence may hand out
  Rules,        \* rule_ids
  Comments,     \* comment_ids
  Users,        \* user_ids
  Author,       \* the user_id who wrote each comment
  MaxAttempts,  \* config.MAX_ATTEMPTS
  MaxCycles,    \* config.MAX_CYCLES
  Null          \* SQL NULL

(***************************************************************************)
(* The server creates one DM per Idempotency-Key, so a dm_id is identified *)
(* with the key that created it.                                           *)
(***************************************************************************)
Cycles == 0 .. MaxCycles - 1
Keys == Jobs \X Cycles          \* "job:{job_id}:c{cycle}"

ASSUME ConfigAssumption ==
  /\ MaxAttempts \in Nat \ {0}
  /\ MaxCycles \in Nat \ {0}
  /\ Author \in [Comments -> Users]
  /\ Null \notin Jobs \cup Rules \cup Comments \cup Keys

VARIABLES
  jobs,     \* table dm_jobs
  rules     \* table rules: the rule_ids it holds

Terminal == {"SENT", "FAILED", "CANCELLED"}
Owed == {"QUEUED", "SENDING", "AWAITING_CONFIRM"}
Statuses == {"ABSENT"} \cup Owed \cup Terminal

\* last_error, reduced to which write put it there.
Errors == {"none", "rate_limited", "attempt_failed", "bad_request",
           "rule_missing", "undelivered"}

Row == [status : Statuses, rule : Rules \cup {Null},
        comment : Comments \cup {Null}, attempt : 0 .. MaxAttempts,
        cycle : Cycles, dm : Keys \cup {Null}, error : Errors]

NoRow == [status |-> "ABSENT", rule |-> Null, comment |-> Null, attempt |-> 0,
          cycle |-> 0, dm |-> Null, error |-> "none"]

NewRow(r, c) == [status |-> "QUEUED", rule |-> r, comment |-> c, attempt |-> 0,
                 cycle |-> 0, dm |-> Null, error |-> "none"]

InStatus(s) == {j \in Jobs : jobs[j].status = s}

\* The rows the partial unique index uq_live_job covers.
Live(j) == jobs[j].status \notin {"ABSENT", "CANCELLED"}

\* The obligation (rule_id, user_id) a row stands for.
IsFor(j, r, u) == jobs[j].rule = r /\ Author[jobs[j].comment] = u

HasLiveRow(r, c) == \E j \in Jobs : Live(j) /\ IsFor(j, r, Author[c])

TablesInit == jobs = [j \in Jobs |-> NoRow] /\ rules = {}

-----------------------------------------------------------------------------
AddRule(r) ==
  /\ r \notin rules
  /\ rules' = rules \cup {r}
  /\ UNCHANGED jobs

\* Mutant: no foreign key, and the count was taken some time ago.
RemoveRuleUnchecked(r) ==
  /\ r \in rules
  /\ rules' = rules \ {r}
  /\ UNCHANGED jobs

(***************************************************************************)
(* The count and the DELETE are two statements, but the foreign key of     *)
(* dm_jobs is checked by the DELETE itself, so it is what decides.         *)
(***************************************************************************)
RemoveRule(r) ==
  /\ r \in rules
  /\ \A j \in Jobs : jobs[j].rule # r
  /\ rules' = rules \ {r}
  /\ UNCHANGED jobs

\* Mutant: the index leaves out FAILED rows too, so a failure is revived.
InsertJobRevivesFailed(r, c) ==
  /\ r \in rules
  /\ \A j \in Jobs : Live(j) /\ jobs[j].status # "FAILED" => ~IsFor(j, r, Author[c])
  /\ \E j \in InStatus("ABSENT") : jobs' = [jobs EXCEPT ![j] = NewRow(r, c)]
  /\ UNCHANGED rules

(***************************************************************************)
(* INSERT ... ON CONFLICT (rule_id, user_id) WHERE status <> 'CANCELLED'   *)
(* DO NOTHING, when it inserts; rule_id must name a row of rules.          *)
(***************************************************************************)
InsertJob(r, c) ==
  /\ r \in rules
  /\ ~HasLiveRow(r, c)
  /\ \E j \in InStatus("ABSENT") : jobs' = [jobs EXCEPT ![j] = NewRow(r, c)]
  /\ UNCHANGED rules

\* The rows of comment c in one of the given states become CANCELLED.
CancelRows(c, statuses) ==
  /\ jobs' = [j \in Jobs |->
                IF jobs[j].status \in statuses /\ jobs[j].comment = c
                THEN [jobs[j] EXCEPT !.status = "CANCELLED"] ELSE jobs[j]]
  /\ UNCHANGED rules

\* Mutants: a delete also withdraws what is being sent, or is being confirmed.
CancelSending(c) == CancelRows(c, {"QUEUED", "SENDING"})
CancelAwaiting(c) == CancelRows(c, {"QUEUED", "AWAITING_CONFIRM"})

\* UPDATE ... SET status = 'CANCELLED' WHERE comment_id = $1 AND QUEUED.
CancelJobs(c) == CancelRows(c, {"QUEUED"})
=============================================================================
