------------------------------- MODULE Matcher -------------------------------
(***************************************************************************)
(* The intake half of LinkPlease: POST /webhook records an event and       *)
(* starts a task for it, handle_event turns it into rows of dm_jobs or     *)
(* into a tombstone, and two loops run events again that were left         *)
(* unprocessed: the replay at boot and the sweep.                          *)
(*                                                                         *)
(* One action per database statement.  The task of an event and the loop   *)
(* may run the same event at the same time.                                *)
(***************************************************************************)
EXTENDS JobTable, FiniteSets

CONSTANTS
  Events,           \* event_ids
  Type,             \* the event_type of each
  About,            \* the comment_id in its payload
  Matches,          \* the rules whose keyword is in the text of a comment
  Loop,             \* the boot replay, then the sweep: handlers of old events
  SweepBatch,       \* matcher.SWEEP_BATCH
  BootBatch,        \* main.BOOT_REDISPATCH_LIMIT
  MaxRedeliveries,  \* bound: redeliveries of all events together
  MaxBlocked        \* bound: the counter of blocked duplicates stops here

\* "other" is an unknown type or a payload without the ids it needs.
EventTypes == {"created", "deleted", "other"}

ASSUME EventAssumption ==
  /\ Loop \notin Events /\ Null \notin Events
  /\ IsFiniteSet(Events) /\ Null \notin 1 .. Cardinality(Events)
  /\ Type \in [Events -> EventTypes]
  /\ About \in [Events -> Comments]
  /\ Matches \in [Comments -> SUBSET Rules]
  /\ SweepBatch \in Nat \ {0} /\ BootBatch \in Nat \ {0}
  /\ MaxRedeliveries \in Nat /\ MaxBlocked \in Nat

VARIABLES
  received,      \* table events: received_at, as a rank; 0 is no row
  processed,     \* table events: the rows with processed_at
  redelivered,   \* table events: sum of the column redeliveries
  deletedAt,     \* table deleted_comments, as the rank of the last event
  blocked,       \* counter duplicates_blocked_rule_user
  suppressed,    \* counter duplicate_events_suppressed
  bumping,       \* webhook requests about to bump `suppressed'
  handler,       \* the runs of handle_event
  queue,         \* the rows the loop has fetched and not reached
  booting,       \* lifespan has not finished: nothing is served yet
  answered       \* history: the rules an event matched in runs that finished

tables == <<jobs, rules>>
done == <<processed, answered>>
webhook == <<received, redelivered, suppressed, bumping>>
loop == <<queue, booting>>
intakeVars == <<webhook, done, deletedAt, blocked, handler, loop>>
vars == <<tables, intakeVars>>

Handlers == Events \cup {Loop}

HandlerPCs == {"idle", "tombstone?", "rules?", "ensuring",
               "tombstoning", "cancelling", "marking"}

Handler == [pc : HandlerPCs, event : Events \cup {Null},
            matched : SUBSET Rules, todo : SUBSET Rules]

IdleHandler == [pc |-> "idle", event |-> Null, matched |-> {}, todo |-> {}]

Arrived == {e \in Events : received[e] # 0}
Pending == Arrived \ processed

\* ORDER BY received_at LIMIT n.
Oldest(S, n) ==
  {e \in S : Cardinality({f \in S : received[f] < received[e]}) < n}

\* handle_event at its first statement.
Started(e) ==
  [pc |-> CASE Type[e] = "created" -> "tombstone?"
            [] Type[e] = "deleted" -> "tombstoning"
            [] OTHER -> "marking",
   event |-> e, matched |-> {}, todo |-> {}]

Init ==
  /\ TablesInit
  /\ received = [e \in Events |-> 0]
  /\ processed = {}
  /\ redelivered = 0
  /\ deletedAt = [c \in Comments |-> Null]
  /\ blocked = 0 /\ suppressed = 0 /\ bumping = 0
  /\ handler = [x \in Handlers |-> IdleHandler]
  /\ queue = {}
  /\ booting = TRUE
  /\ answered = [e \in Events |-> {}]

-----------------------------------------------------------------------------
(* POST /webhook *)

\* The upsert inserts the row; a task is scheduled for the event.
Receive(e) ==
  /\ ~booting
  /\ received[e] = 0
  /\ received' = [received EXCEPT ![e] = Cardinality(Arrived) + 1]
  /\ handler' = [handler EXCEPT ![e] = Started(e)]
  /\ UNCHANGED <<tables, redelivered, suppressed, bumping, done, deletedAt,
                 blocked, loop>>

\* The upsert finds the row: count, and bump the counter in a second statement.
Redelivery(e) ==
  /\ ~booting
  /\ received[e] # 0
  /\ redelivered < MaxRedeliveries
  /\ redelivered' = redelivered + 1
  /\ bumping' = bumping + 1
  /\ UNCHANGED <<tables, received, suppressed, done, deletedAt, blocked,
                 handler, loop>>

\* Mutant: the counter is bumped for a request that is bumped again.
BumpTwice ==
  /\ bumping > 0
  /\ suppressed' = suppressed + 1
  /\ bumping' \in {bumping, bumping - 1}
  /\ suppressed < MaxRedeliveries + 1
  /\ UNCHANGED <<tables, received, redelivered, done, deletedAt, blocked,
                 handler, loop>>

\* The bump, or its failure (a 500).
BumpSuppressed ==
  /\ bumping > 0
  /\ bumping' = bumping - 1
  /\ suppressed' \in {suppressed, suppressed + 1}
  /\ UNCHANGED <<tables, received, redelivered, done, deletedAt, blocked,
                 handler, loop>>

-----------------------------------------------------------------------------
(* handle_event: what a run of it changes besides its own position *)

Goto(x, pc) == handler' = [handler EXCEPT ![x].pc = pc]

End(x) == handler' = [handler EXCEPT ![x] = IdleHandler]

\* The comment of the event x is running.
Comment(x) == About[handler[x].event]

\* Mutant: the tombstone is not looked at.
ReadTombstoneIgnored(x) ==
  /\ handler[x].pc = "tombstone?"
  /\ Goto(x, "rules?")
  /\ UNCHANGED <<tables, done, deletedAt, blocked>>

ReadTombstone(x) ==
  /\ handler[x].pc = "tombstone?"
  /\ Goto(x, IF deletedAt[Comment(x)] = Null THEN "rules?" ELSE "marking")
  /\ UNCHANGED <<tables, done, deletedAt, blocked>>

ReadRules(x) ==
  LET matched == rules \cap Matches[Comment(x)]
  IN  /\ handler[x].pc = "rules?"
      /\ handler' = [handler EXCEPT
           ![x].pc = IF matched = {} THEN "marking" ELSE "ensuring",
           ![x].matched = matched, ![x].todo = matched]
      /\ UNCHANGED <<tables, done, deletedAt, blocked>>

\* The loop over the matched rules goes on, or is done.
NextRule(x, r) ==
  handler' = [handler EXCEPT
    ![x].todo = @ \ {r},
    ![x].pc = IF handler[x].todo = {r} THEN "marking" ELSE "ensuring"]

CountBlocked == blocked' = IF blocked < MaxBlocked THEN blocked + 1 ELSE blocked

\* Mutant: a duplicate is not counted.
EnsureObligationUncounted(x, r) ==
  /\ handler[x].pc = "ensuring" /\ r \in handler[x].todo
  /\ InsertJob(r, Comment(x)) \/ (HasLiveRow(r, Comment(x)) /\ UNCHANGED tables)
  /\ NextRule(x, r)
  /\ UNCHANGED <<done, deletedAt, blocked>>

\* Mutant: the loop over the rules ends at the first duplicate.
EnsureObligationStops(x, r) ==
  /\ handler[x].pc = "ensuring" /\ r \in handler[x].todo
  /\ \/ InsertJob(r, Comment(x)) /\ NextRule(x, r) /\ UNCHANGED blocked
     \/ /\ HasLiveRow(r, Comment(x)) /\ CountBlocked /\ UNCHANGED tables
        /\ handler' = [handler EXCEPT ![x].todo = {}, ![x].pc = "marking"]
     \/ r \notin rules /\ End(x) /\ UNCHANGED <<tables, blocked>>
  /\ UNCHANGED <<done, deletedAt>>

(***************************************************************************)
(* One transaction: the row is inserted, or a live row exists and the      *)
(* duplicate is counted, or the rule is gone and the foreign key raises,   *)
(* which ends the run and leaves the event unprocessed.                    *)
(***************************************************************************)
EnsureObligation(x, r) ==
  /\ handler[x].pc = "ensuring" /\ r \in handler[x].todo
  /\ \/ InsertJob(r, Comment(x)) /\ NextRule(x, r) /\ UNCHANGED blocked
     \/ HasLiveRow(r, Comment(x)) /\ CountBlocked /\ NextRule(x, r) /\ UNCHANGED tables
     \/ r \notin rules /\ End(x) /\ UNCHANGED <<tables, blocked>>
  /\ UNCHANGED <<done, deletedAt>>

\* Mutant: a deletion that finds no row of its comment leaves no tombstone.
AddTombstoneIfOwed(x) ==
  /\ handler[x].pc = "tombstoning"
  /\ deletedAt' = [deletedAt EXCEPT ![Comment(x)] =
       IF @ = Null /\ \E j \in Jobs : jobs[j].comment = Comment(x)
       THEN Cardinality(Arrived) ELSE @]
  /\ Goto(x, "cancelling")
  /\ UNCHANGED <<tables, done, blocked>>

\* INSERT ... ON CONFLICT DO NOTHING.
AddTombstone(x) ==
  /\ handler[x].pc = "tombstoning"
  /\ deletedAt' = [deletedAt EXCEPT ![Comment(x)] =
                     IF @ = Null THEN Cardinality(Arrived) ELSE @]
  /\ Goto(x, "cancelling")
  /\ UNCHANGED <<tables, done, blocked>>

\* Mutant: the row being sent is withdrawn too.
CancelQueuedTooMuch(x) ==
  /\ handler[x].pc = "cancelling"
  /\ CancelSending(Comment(x))
  /\ Goto(x, "marking")
  /\ UNCHANGED <<done, deletedAt, blocked>>

CancelQueued(x) ==
  /\ handler[x].pc = "cancelling"
  /\ CancelJobs(Comment(x))
  /\ Goto(x, "marking")
  /\ UNCHANGED <<done, deletedAt, blocked>>

MarkProcessed(x) ==
  /\ handler[x].pc = "marking"
  /\ processed' = processed \cup {handler[x].event}
  /\ answered' = [answered EXCEPT ![handler[x].event] = @ \cup handler[x].matched]
  /\ End(x)
  /\ UNCHANGED <<tables, deletedAt, blocked>>

\* A statement raises: handle_event logs it, processed_at stays NULL.
Fail(x) ==
  /\ handler[x].pc # "idle"
  /\ End(x)
  /\ UNCHANGED <<tables, done, deletedAt, blocked>>

Handle(x) ==
  /\ \/ ReadTombstone(x)
     \/ ReadRules(x)
     \/ \E r \in Rules : EnsureObligation(x, r)
     \/ AddTombstone(x)
     \/ CancelQueued(x)
     \/ MarkProcessed(x)
  /\ UNCHANGED <<webhook, loop>>

HandlerFails(x) == Fail(x) /\ UNCHANGED <<webhook, loop>>

-----------------------------------------------------------------------------
(* The loops over unprocessed events *)

Created(S) == {e \in S : Type[e] = "created"}

\* Mutant: the sweep looks for comments only, as the boot replay does.
SweepCreated ==
  /\ ~booting /\ handler[Loop].pc = "idle" /\ queue = {}
  /\ Created(Pending) # {}
  /\ queue' = Oldest(Created(Pending), SweepBatch)
  /\ UNCHANGED <<tables, webhook, done, deletedAt, blocked, handler, booting>>

Sweep ==
  /\ ~booting /\ handler[Loop].pc = "idle" /\ queue = {}
  /\ Pending # {}
  /\ queue' = Oldest(Pending, SweepBatch)
  /\ UNCHANGED <<tables, webhook, done, deletedAt, blocked, handler, booting>>

\* The next fetched row; whether it was processed meanwhile is not looked at.
NextFetched(e) ==
  /\ handler[Loop].pc = "idle"
  /\ e \in Oldest(queue, 1)
  /\ queue' = queue \ {e}
  /\ handler' = [handler EXCEPT ![Loop] = Started(e)]
  /\ UNCHANGED <<tables, webhook, done, deletedAt, blocked, booting>>

\* The replay is over: requests are served and the loops run.
Booted ==
  /\ booting /\ handler[Loop].pc = "idle" /\ queue = {}
  /\ booting' = FALSE
  /\ UNCHANGED <<tables, webhook, done, deletedAt, blocked, handler, queue>>

\* The process dies and boots again, with a replay of the unprocessed comments.
Crash ==
  /\ handler' = [x \in Handlers |-> IdleHandler]
  /\ bumping' = 0
  /\ queue' = Oldest(Created(Pending), BootBatch)
  /\ booting' = TRUE
  /\ UNCHANGED <<tables, received, redelivered, suppressed, done, deletedAt, blocked>>

-----------------------------------------------------------------------------
(* What the rules API and the delivery half may do to the tables *)

Moves == {<<"QUEUED", "SENDING">>, <<"SENDING", "QUEUED">>,
          <<"SENDING", "AWAITING_CONFIRM">>, <<"SENDING", "FAILED">>,
          <<"AWAITING_CONFIRM", "QUEUED">>, <<"AWAITING_CONFIRM", "SENT">>,
          <<"AWAITING_CONFIRM", "FAILED">>}

\* Several rows move together when stale ones are requeued.
Delivery(J, status) ==
  /\ J # {} /\ \A j \in J : <<jobs[j].status, status>> \in Moves
  /\ jobs' = [j \in Jobs |-> IF j \in J THEN [jobs[j] EXCEPT !.status = status]
                                        ELSE jobs[j]]
  /\ UNCHANGED <<rules, intakeVars>>

RulesApi ==
  /\ ~booting
  /\ \E r \in Rules : AddRule(r) \/ RemoveRule(r)
  /\ UNCHANGED intakeVars

Next ==
  \/ \E e \in Events : Receive(e) \/ Redelivery(e) \/ NextFetched(e)
  \/ BumpSuppressed
  \/ \E x \in Handlers : Handle(x) \/ HandlerFails(x)
  \/ Sweep
  \/ Booted
  \/ Crash
  \/ RulesApi
  \/ \E J \in SUBSET Jobs, status \in Statuses : Delivery(J, status)

Spec == Init /\ [][Next]_vars

(***************************************************************************)
(* Fairness of the loop only: the task of an event may be lost.  Strong,   *)
(* for no statement fails, and no crash preempts it, every time; nor is a  *)
(* rule deleted under the event each time it is run.                       *)
(***************************************************************************)
LoopAt(pc, todo) == handler[Loop].pc = pc /\ handler[Loop].todo = todo

LoopFairness ==
  /\ SF_vars(Booted)
  /\ SF_vars(Sweep)
  /\ SF_vars(\E e \in Events : NextFetched(e))
  /\ WF_vars(Handle(Loop))
  /\ \A pc \in {"tombstone?", "rules?", "tombstoning", "cancelling", "marking"} :
       SF_vars(LoopAt(pc, {}) /\ Handle(Loop))
  /\ \A todo \in (SUBSET Rules) \ {{}} :
       SF_vars(LoopAt("ensuring", todo) /\ Handle(Loop) /\ handler'[Loop].pc # "idle")

LiveSpec == Spec /\ LoopFairness

-----------------------------------------------------------------------------
(* Invariants *)

TypeOK ==
  /\ jobs \in [Jobs -> Row]
  /\ rules \in SUBSET Rules
  /\ received \in [Events -> 0 .. Cardinality(Events)]
  /\ processed \in SUBSET Arrived
  /\ redelivered \in 0 .. MaxRedeliveries
  /\ deletedAt \in [Comments -> {Null} \cup (1 .. Cardinality(Events))]
  /\ blocked \in 0 .. MaxBlocked
  /\ suppressed \in 0 .. MaxRedeliveries
  /\ bumping \in 0 .. MaxRedeliveries
  /\ handler \in [Handlers -> Handler]
  /\ queue \in SUBSET Arrived
  /\ booting \in BOOLEAN
  /\ answered \in [Events -> SUBSET Rules]

(***************************************************************************)
(* An event stamped processed has paid its debt, whoever ran it and how    *)
(* often: for every rule it matched, the author has or had a row, so a     *)
(* crash, a failed statement or a rule deleted half-way never loses a DM   *)
(* (matcher.py _handle_created, _mark_processed).                          *)
(***************************************************************************)
ProcessedIsPaid ==
  \A e \in processed : \A r \in answered[e] :
    \E j \in Jobs : jobs[j].status # "ABSENT" /\ IsFor(j, r, Author[About[e]])

(***************************************************************************)
(* No blocked duplicate goes uncounted: each processed comment that found  *)
(* the row of another one in its way was counted, although crashes and     *)
(* concurrent runs interleave (matcher.py _ensure_obligation).             *)
(***************************************************************************)
BlockedCoversDuplicates ==
  Cardinality({p \in processed \X Rules :
     p[2] \in answered[p[1]] /\ \A j \in Jobs :
       jobs[j].rule = p[2] => jobs[j].comment # About[p[1]]}) <= blocked

(***************************************************************************)
(* A comment that arrives after its deletion was recorded gets no row, by  *)
(* its task, the sweep or the replay after a crash (matcher.py             *)
(* _handle_created, _handle_deleted).                                      *)
(***************************************************************************)
TombstoneHolds ==
  \A j \in Jobs : jobs[j].status # "ABSENT" /\ deletedAt[jobs[j].comment] # Null =>
    \E e \in Arrived :
      /\ Type[e] = "created" /\ About[e] = jobs[j].comment
      /\ received[e] <= deletedAt[jobs[j].comment]

(***************************************************************************)
(* A row is CANCELLED, and a deletion processed, only with the tombstone   *)
(* in place: a crash between the two statements never leaves a deletion    *)
(* that a replayed comment does not see (matcher.py _handle_deleted).      *)
(***************************************************************************)
CancelledIsTombstoned ==
  /\ \A j \in InStatus("CANCELLED") : deletedAt[jobs[j].comment] # Null
  /\ \A e \in processed : Type[e] = "deleted" => deletedAt[About[e]] # Null

(***************************************************************************)
(* The counter of suppressed redeliveries never runs ahead of the          *)
(* redeliveries recorded (webhook.py webhook).                             *)
(***************************************************************************)
SuppressedIsHonest == suppressed + bumping <= redelivered

-----------------------------------------------------------------------------
(* Liveness *)

(***************************************************************************)
(* Whatever is lost with its task, nothing acknowledged stays unprocessed, *)
(* deletions included: with finitely many events this says that each is    *)
(* processed (matcher.py matcher_sweep_loop).                              *)
(***************************************************************************)
EveryEventProcessed == []<>(Pending = {})

-----------------------------------------------------------------------------
(* Statements of the code that it does not keep *)

(***************************************************************************)
(* BLUEPRINT.md: a deletion that arrives before its comment leaves no      *)
(* ghost DM, "None known" (matcher.py _handle_deleted: a comment that      *)
(* arrives later creates no obligation).                                   *)
(***************************************************************************)
DeletedFirstMeansNoJob ==
  \A j \in Jobs : \A d \in Arrived :
    jobs[j].status # "ABSENT" /\ Type[d] = "deleted" /\ About[d] = jobs[j].comment =>
      \E e \in Arrived : /\ Type[e] = "created" /\ About[e] = jobs[j].comment
                         /\ received[e] < received[d]

(***************************************************************************)
(* matcher.py _ensure_obligation: a blocked duplicate is a distinct        *)
(* comment of the same user for the same rule.                             *)
(***************************************************************************)
BlockedIsAnotherComment ==
  blocked <= Cardinality({p \in Arrived \X Rules :
    Type[p[1]] = "created" /\ \E j \in Jobs :
      /\ jobs[j].status # "ABSENT" /\ jobs[j].comment # About[p[1]]
      /\ IsFor(j, p[2], Author[About[p[1]]])})

(***************************************************************************)
(* BLUEPRINT.md: with several deleted comments in the burst, nothing is    *)
(* lost because every obligation is a row.  So a processed comment that    *)
(* was not deleted has, for each rule it matched, a row that stands.       *)
(***************************************************************************)
ServedUnlessDeleted ==
  \A e \in processed : \A r \in answered[e] :
    deletedAt[About[e]] = Null => HasLiveRow(r, About[e])
=============================================================================
