------------------------------ MODULE LinkPlease ------------------------------
(***************************************************************************)
(* The whole process: the delivery half (Delivery, extended) and the       *)
(* intake half (Matcher, an instance) over the same tables dm_jobs and     *)
(* rules, dying and booting together.                                      *)
(***************************************************************************)
EXTENDS Delivery, FiniteSets

\* Those of Matcher.
CONSTANTS Events, Type, About, Matches, Loop,
          SweepBatch, BootBatch, MaxRedeliveries, MaxBlocked

VARIABLES
  received, processed, redelivered, deletedAt, blocked, suppressed,
  bumping, handler, queue, booting, answered

M == INSTANCE Matcher

ASSUME IntakeAssumption ==
  /\ Loop \notin Events /\ Null \notin Events
  /\ IsFiniteSet(Events) /\ Null \notin 1 .. Cardinality(Events)
  /\ Type \in [Events -> M!EventTypes]
  /\ About \in [Events -> Comments]
  /\ Matches \in [Comments -> SUBSET Rules]
  /\ SweepBatch \in Nat \ {0} /\ BootBatch \in Nat \ {0}
  /\ MaxRedeliveries \in Nat /\ MaxBlocked \in Nat

intakeVars == <<received, processed, redelivered, deletedAt, blocked,
                suppressed, bumping, handler, queue, booting, answered>>
processVars == <<vars, intakeVars>>

ProcessInit == Init /\ M!Init

\* What runs only once lifespan has finished: the routes and the loops.
Serving == ~booting

Intake ==
  /\ \/ \E e \in Events : M!Receive(e) \/ M!Redelivery(e) \/ M!NextFetched(e)
     \/ M!BumpSuppressed
     \/ \E x \in M!Handlers : M!Handle(x) \/ M!HandlerFails(x)
     \/ M!Sweep
     \/ M!Booted
     \/ M!RulesApi
  /\ UNCHANGED deliveryVars

\* PseudoGram goes on while the process is down; so does the requeue at boot.
Delivering ==
  /\ \/ Serving /\ (WorkerStep \/ ReconcilerStep \/ WorkerException)
     \/ \E old \in SUBSET InStatus("SENDING") : RequeueStale(old)
     \/ Server
  /\ UNCHANGED intakeVars

CrashAndBoot == Crash /\ M!Crash

ProcessNext == Intake \/ Delivering \/ CrashAndBoot

ProcessSpec == ProcessInit /\ [][ProcessNext]_processVars

-----------------------------------------------------------------------------
(***************************************************************************)
(* Delivery was specified against tables that anyone may fill and cancel;  *)
(* the matcher and the API drive them no further than that, so everything  *)
(* shown of Delivery holds of the process (matcher.py _ensure_obligation,  *)
(* _handle_deleted; rules.py delete_rule).                                 *)
(***************************************************************************)
DeliveryImplemented == Spec

\* The rows as the matcher sees them: what only delivery uses is projected away.
Seen(row) ==
  [row EXCEPT !.attempt = 0, !.cycle = 0, !.dm = Null, !.error = "none"]

I == INSTANCE Matcher WITH jobs <- [j \in Jobs |-> Seen(jobs[j])]

(***************************************************************************)
(* And the converse: the worker and the reconciler move rows only along    *)
(* the edges that Matcher assumes (worker.py, reconciler.py).              *)
(***************************************************************************)
IntakeImplemented == I!Spec

(***************************************************************************)
(* Every DM has its comment: whatever PseudoGram holds, or may still be    *)
(* told to create, was requested for a row of a comment that arrived, and  *)
(* no deletion of it had been recorded when it did (matcher.py             *)
(* _handle_created, worker.py _send_one).  That is all: a comment deleted  *)
(* after it arrived may still be DMed, by a retry or a resend too          *)
(* (reconciler.py _reconcile_one looks at no tombstone).                   *)
(***************************************************************************)
EveryDMHasItsComment ==
  \A k \in Keys : dms[k] # "none" \/ k \in late =>
    LET c == jobs[k[1]].comment
    IN  \E e \in M!Arrived :
          /\ Type[e] = "created" /\ About[e] = c
          /\ deletedAt[c] # Null => received[e] <= deletedAt[c]

\* What became of a row, and on what ground.
Accounted(j) ==
  \/ jobs[j].status \in Owed
  \/ jobs[j].status = "SENT" /\ dms[jobs[j].dm] = "delivered"
  \/ /\ jobs[j].status = "FAILED"
     /\ \/ jobs[j].error = "bad_request"
        \/ jobs[j].error = "attempt_failed" /\ jobs[j].attempt = MaxAttempts
        \/ jobs[j].error = "undelivered" /\ \A c \in Cycles : dms[<<j, c>>] = "failed"
  \/ jobs[j].status = "CANCELLED" /\ deletedAt[jobs[j].comment] # Null

(***************************************************************************)
(* From the webhook to the inbox nothing gets lost: for every rule that a  *)
(* processed comment matched, its author has a row that is still worked    *)
(* on, or was delivered, or failed for a cause, or was withdrawn for a     *)
(* recorded deletion (matcher.py handle_event, worker.py _send_one,        *)
(* reconciler.py _reconcile_one).                                          *)
(***************************************************************************)
EveryCommentAccounted ==
  \A e \in processed : \A r \in answered[e] :
    \E j \in Jobs : IsFor(j, r, Author[About[e]]) /\ Accounted(j)

=============================================================================
