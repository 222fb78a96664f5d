# LinkPlease: a verification development

LinkPlease turns comments into direct messages. PseudoGram, an Instagram-like
service, posts webhooks for comments; a rule says which keyword earns the
commenter a DM; LinkPlease must send that DM once per (rule, user), through an
API that throttles, fails, times out, accepts without delivering, and delivers
webhooks twice and out of order. The backend (Python, FastAPI, asyncpg) is one
process with three background loops over one Postgres; the frontend (Next.js)
is a website with a dashboard that polls it, creates rules and starts
simulations.

This directory holds TLA+ modules translated from `src/backend/app` and
`src/frontend`, TLC configurations that check them, and TLAPS proofs.
`PROJECT.json` is the machine readable index: which definition stands for which
lines, what each run checks, which mutation of the code each property catches.

## 1. Inventory

| Component | State | Operations | Interacts with |
|---|---|---|---|
| Job table and rules (`schema.sql`, `rules.py`) | `dm_jobs`, `rules`, index `uq_live_job`, a foreign key | create and delete a rule | written by all the others |
| Send worker (`worker.py`) | the dict of the claimed job, across an HTTP call | wait for budget, claim, send, record the outcome, fail, recover orphans | `dm_jobs`, PseudoGram, rate limiter |
| Reconciler (`reconciler.py`) | the batch it fetched, across HTTP calls | fetch, poll, confirm, resend, give up, reschedule | `dm_jobs`, PseudoGram |
| PseudoGram client (`pseudogram.py`) | none | classify the answers of `POST /v1/dm/send` and `GET /v1/dm/{id}` | worker, reconciler |
| Rate limiter (`ratelimit.py`) | `send_log` | count, sleep, record, prune | worker |
| Webhook (`webhook.py`) | `events`, tasks in flight | verify, upsert, count redeliveries, schedule a task | matcher |
| Matcher (`matcher.py`) | `deleted_comments`, a counter, one local position per task | handle created and deleted events; the sweep | `dm_jobs`, `rules`, `events` |
| Lifecycle (`main.py`) | loops, boot order | requeue orphans, replay events, start and supervise the loops | all |
| Statistics (`stats.py`) | none | `/stats` and the dashboard reads | `dm_jobs`, counters |
| Simulation proxy (`simulate.py`) | `simulate_runs` | take a baseline, start a run, report | PseudoGram, `dm_jobs`, counters |
| API client (`lib/api.ts`) | one timer and one AbortController per request | `request`: fetch, read the body, classify every way it ends | the routes above; used by all that follows |
| Polling hook (`lib/use-poll.ts`) | data, error, loading, updatedAt; an effect with an interval and a listener | ask on mount, on the interval, on return to the tab; refresh; clean up | API client |
| Dashboard panels (`app/dashboard/page.tsx`, `rules-table`, `activity-feed`, `live-stats`, `rate-meter`) | none of their own | show a poll: skeleton, banner, empty, rows, numbers | polling hook |
| Rule form (`rule-form.tsx`) | two fields, submitting, the message beside the button | type, validate, submit, report, refresh the polls | API client, polling hook |
| Simulation panel (`sim-panel.tsx`) | phase, runId, report; `stopRef`; a chain of timers | start a run, poll for its report, stop | API client |
| Theme (`lib/theme.ts`, `theme-toggle.tsx`, `layout.tsx`) | `data-theme` and two classes on `<html>`, localStorage, one timer | script in the head, layout effect, toggle with or without a view transition | the browser |
| Navigation (`nav.tsx`) | open, lastPath | disclose, Escape, follow a link, render on a new path | router; mounts and unmounts the pages |
| Presentation (landing page, tilt, count-up, reveal, chips, formatting) | pointer and scroll positions | | nothing reads it |

Where it is hard:

* Every `await` lets other coroutines run. The worker and the reconciler hold
  what they read across an HTTP call of up to ten seconds and then write with
  `WHERE job_id = $1` and no guard on the status.
* A request that timed out may have landed, or may land later. Retries must
  reuse the Idempotency-Key, resends must not.
* The process dies at any statement, and boots into what Postgres holds.
* An event has a task of its own, and the sweep and the boot replay may run it
  again at the same time.
* Deletions race comments, claims, and resends.
* The two windows, ours and PseudoGram's, see the same requests at different
  times.
* In the browser several requests of one poll are under way at once and end in
  any order; an effect that was cleaned up still has answers to come; an abort
  surfaces differently before the headers and within the body; a POST that timed
  out may have worked.
* One `stopRef` serves every chain of report polls of a panel, and the next run
  clears it; a page may be left, and opened again, while an answer is under way.

`PROJECT.json` lists these hazards at the line where they bite, with the
properties that would catch each going wrong.

## 2. Modules

| Module | Models | Composed of |
|---|---|---|
| `JobTable` | `dm_jobs`, `rules`, the index, and the statements of the matcher and the rules API on them | |
| `Delivery` | worker, reconciler, orphan recovery, PseudoGram's side of a DM | extends `JobTable` |
| `Promise` | what one (rule, user) obligation promises; the abstract specification of `Delivery` | |
| `Matcher` | webhook, `handle_event`, sweep, boot replay | extends `JobTable` |
| `Obligations` | what the intake promises to the feed; the abstract specification of `Matcher` | |
| `MatcherRefinement` | `Matcher` with the history of which rules stood since an event arrived, and the refinement of `Obligations` | extends `Matcher`, an instance of `Obligations` |
| `LinkPlease` | the whole backend process | extends `Delivery`, an instance of `Matcher` over the same tables |
| `LinkPleaseRefinement` | the same history over the whole process, which implements `Obligations` too | extends `LinkPlease`, an instance of `MatcherRefinement` |
| `RateLimit` | the send budget against the limit it is for | |
| `Reports` | `/stats` and the simulation report | |
| `UsePoll` | the polling hook on the requests of the API client | |
| `Panels` | what each panel shows of its poll, as operators | extends `UsePoll` |
| `Dashboard` | the page `/dashboard`: its polls and the rule form | extends `Panels` |
| `SimPanel` | the simulation panel | |
| `Theme` | the theme of a page and its transitions | |
| `Site` | one tab: navigation, theme toggle, simulation panel, reloads | extends `SimPanel`, an instance of `Theme` |
| `MC*` | constants for TLC | |
| `*_proofs` | theorems about the module of that name (`Site_proofs` also about `SimPanel`, `Dashboard_proofs` about `UsePoll`, `LinkPlease_proofs` about `LinkPleaseRefinement`) | extend it and TLAPS |

### Delivery

One action per database statement or HTTP exchange; what runs between two
awaits is atomic, everything else interleaves.

| Action | Code |
|---|---|
| `Claim`, `StartSend` | the two statements of `claim_job`; the branch on `dm_message` at the top of `_send_one` |
| `AnswerAccepted`, `AnswerRefused`, `AnswerServerError`, `TransportError` | the outcome classes of `send_dm` |
| `RecordAccepted`, `RecordRateLimited`, `RecordUnsendable`, `RecordFailedAttempt` | the UPDATEs of `_send_one` and `_fail` |
| `RequeueStale` | `requeue_stale_sending`, at boot and by the worker |
| `FetchBatch`, `ReadStatus` | the SELECT of `reconciler_loop`, `get_dm` |
| `ConfirmSent`, `RequeueNewCycle`, `GiveUp`, `Reschedule` | the UPDATEs of `_reconcile_one` and `_requeue_new_cycle` |
| `WorkerException`, `Crash` | the handler of the loop; the process dying |
| `LateArrival`, `Settle` | PseudoGram: an abandoned request lands; a DM is delivered or fails |

`worker` is the claimed job's dict with its program counter, `batch` the rows
the reconciler holds. `dms` and `late` belong to PseudoGram: the DM under each
Idempotency-Key, and the keys of abandoned requests. PseudoGram looks up the
key before anything else, as the documentation says and the test double does;
a dm_id is therefore identified with its key. Clock columns are abstracted to
"due, or stale, at any moment", which covers every schedule.

### Matcher

`handler` has one position per event (its task) and one for the loops (the boot
replay, then the sweep, which never run together). Each statement of
`handle_event` is an action; the transaction of `_ensure_obligation` is one
action with its three outcomes: inserted, blocked and counted, or refused by
the foreign key, which ends the run. Any statement may raise (`Fail`), a crash
loses every task. The delivery half appears as `Delivery(J, status)`, which
moves rows along the edges the worker and the reconciler use.

`Obligations` says what this is for, without tasks, sweeps, tombstone reads and
crashes: an acknowledged event is closed only when it has had its effect. For a
comment that is a pair owed under every rule that matches it and stood from the
acknowledgement on, unless the comment is known as deleted; for a deletion, that
its comment is known as deleted (`Owe` adds such a pair). A rule that was made after
the comment was acknowledged may add a pair as well (`OweLate`): the code reads the
rules when it runs the event, so whether it does depends on how late that is, and
the blueprint wants it never (see the disagreements of section 3). Nobody is owed
anything for a comment whose deletion was known when it arrived, or under a rule
that is not there or does not match, and a rule under which somebody is owed
stays. A run reads the rules once and inserts rows one by
one while rules come and go, so which rules "stood all the time" is in no table:
`standing`, a history variable of `MatcherRefinement`, follows them.

### LinkPlease

Conjoins the two halves: every action of one leaves the other's variables
alone, both crash together, routes and loops run only once the boot is over,
and PseudoGram goes on meanwhile. Two refinements tie it to its parts: it
implements `Delivery` as it stands, and `Matcher` with the delivery columns of
`dm_jobs` projected away (`Seen`). A third, in `LinkPleaseRefinement`, says that
the process as a whole keeps `Obligations`, of the rows as they are.
`EveryCommentAccounted` spans both halves: from the stamp on an event to what
PseudoGram says of the DM.

### RateLimit

Time is a natural number, the clock of the database. The process sleeps by a clock
of its own: `Wake` may come up to `Early` ticks before the sleep is over on the
database's clock, or any time after, which is why `wait_for_budget` loops
("our arithmetic could be a few milliseconds early"). `recorded` remembers every row `send_log` ever had,
`arrived` when the requests reached PseudoGram. A request abandoned by a
timeout is not followed further: nothing bounds when it arrives, so nothing can
be said about it (the code banks one request for such cases).

### Reports

The pipeline is reduced to rows that move along their edges and a counter, each
with the history of whether the simulated run or other traffic caused it. Several
`GET /stats` are served at once, as FastAPI does; each remembers, as history, what
had been told when it began to read.

### UsePoll, Panels, Dashboard

A use of the hook is a record `poll[p]` (its four states, whether its effect is
to run, what is left of its interval), and `reqs[p]` its requests under way,
each with its own age. The actions are what the browser runs without a break:
`Effect` (cleanup, ask, set the interval), `IntervalFires`, `VisibilityChange`,
and the ends of a request: `Complete`, `TimesOut`, `Aborted`, or broken by a
`Fault`. `Result` is the classification of `request`, `Received` what `run` does
with it. A cleanup aborts, but the body may already be complete, and an abort
within the body is reported as bad JSON; both are in the model. The backend's
state is a version number, `read` the version an answer was read from. `Tick`
is discrete time that waits for due timers, as the event loop does, and for
answers that are not late. `Panels` translates the conditions under which each
component returns a skeleton, a banner, an empty state or numbers.

`Dashboard` adds the form: `Type` (a valid text, or none, while the fields are
enabled), `Reject` and `Submit` are what the visitor does,
`Insert` and `Refuse` what the backend does to a POST, `Succeed` and `FailPost`
what `handleSubmit` does after its await. A POST that timed out is "gone" and may
still be inserted. `created` and `failed` are history.

### SimPanel, Theme, Site

`start[r]` is the POST of run `r`, `watch[r]` the chain of report polls that
follows it; `awaited` says whether the panel that asked is still mounted. The
effect of a new run clears the shared `stopRef` (`Started`), leaving the panel sets it
(`Stopped`). The reports are as the backend sends them: without a status, so
the first one is final.

`Theme` has the three writers of `data-theme` as actions, the callback of a view
transition as a queue, and storage that may throw. `Site` puts both into one
tab: a link asks the router, `Commit` renders the new path some time later and
mounts or unmounts the panel, `Reload` drops all that the browser does not store.

## 3. Runs

All instances are small because the interesting cases are: two rows compete for
one (rule, user), two attempts and two cycles give each limit a step below it
and the step that meets it, one deletion races one or two comments, and crashes
are unlimited.

| Run | Question | Instance |
|---|---|---|
| `delivery` | can a user be sent two DMs, a DM be reported that was not delivered, a failure be declared without cause, an actor write over another's row, a try be skipped or repeated? Does `Delivery` implement `Promise`? | 2 rows, 1 rule, 2 comments of 1 user, 2 attempts, 2 cycles |
| `delivery_live` | is every obligation resolved and every orphan recovered? | 1 row, 2 attempts, 2 cycles |
| `matcher` | is an event stamped before it had its effect under every rule that stood? is anybody owed under a rule that is gone or does not match, or for a comment that arrived after its deletion was recorded? is every blocked duplicate counted? do tombstones hold? does the counter of suppressed events overstate? Does `Matcher` implement `Obligations`? | 2 rules, 2 rows, 2 comments and a deletion, 1 redelivery, sweeps of one event, boot replays of two |
| `matcher_live` | is every acknowledged event processed, however small the batches of the sweep? | a comment and a deletion of another, 1 redelivery, sweeps of one event |
| `link_please` | do the halves keep what the other assumes? is every DM for a comment that arrived before any deletion of it was recorded, and has every comment its outcome? Does the whole process implement `Obligations`? | 1 row, a comment and its deletion, sweeps of one event |
| `rate_limit` | does the budget hold, does PseudoGram's limit, how often does a worker sleep for one slot? | 2 sends in 4 ticks, a sleep of at least 2 that may end 1 early, 5 sends, 9 ticks: two full windows and part of a third |
| `reports` | does an answer take back what was told before it began, does a report miss something of its run? | 2 rows, 1 blocked duplicate of each origin, 2 `GET /stats` at once |
| `dashboard` | is what the panels show recent, and was it said? do superseded requests stay silent? can one text make two rules? is a new rule's reading always on its way? do poll and form recover? | 1 poll, 4 requests of it at once, interval and timeout of 1 tick, 2 versions, 2 POSTs, 1 draft, 3 faults or acts |
| `site` | does a late answer mix two runs? does the panel stop being busy? do theme and navigation follow the visitor? | 2 runs, a ceiling of 2 polls, 2 clicks, 2 links, reloads or changes of scheme |

In `matcher`, the constraint `OneQuestionAtATime` keeps apart three questions that
hardly meet, to bound their product: two comments on one rule with one
row (duplicates), one comment and its deletion on one rule with a redelivery, or one
comment and its deletion on two rules (partial runs). In the first, one row is
enough, for with one rule and one user at most one live row exists. In the second
nothing is counted as blocked, which cuts off a re-run that counts
its own row (see below); in the third such re-runs go on. Only there are rules
added while an event is run. The sweep runs an event beside its task in all three. Jobs and rules are interchangeable and their permutations a symmetry;
liveness runs use none. `link_please` uses one attempt and one
cycle, and no redelivery, which touches nothing the halves share; retries and
resends are `delivery`'s, redeliveries `matcher`'s, and the theorems about
`LinkPlease` cover any number of each over the composition. `MaxBlocked` caps the counter
(a capped bump stays at the cap) and `MaxRedeliveries` the redeliveries;
`MaxSends` and `MaxTime` cap `RateLimit`.

In `dashboard` the rules poll stands for each of the page's polls: they share
nothing but the tab's visibility and the refresh, and the theorems of section 5
cover any number. Each clause of `NothingInvented` is about panels that read one
poll (the header, cards, banners, internals and meter stats, the feed and its
caption jobs, the table rules); nothing is said of two polls side by side, which
fail and recover independently. Four requests at once hold those of an interval, a return to
the tab, and a page that is left and opened again; with all four in use, the
next one waits until one has ended. `MaxEvents` caps what is not
caused by time: faults, changes behind the backend, visibility, typing, leaving
the page. In `site` it caps links, reloads and changes of the system's scheme,
while answers, timers, callbacks and the disclosure of the mobile panel are free.

TLC checks deadlock in every run: none of the models can stop. Type invariants
of modules with a proof are not run separately: each is a conjunct of the
invariant proved of that module. Nor are properties that follow from one that
is run: `PollsAreCurrent` and `TypeOK` of `Delivery` are conjuncts of `IInv`, and
`ProcessedIsPaid` and `StandingRulesServed` the greater part of what `ObligationsKept`
says of a stamp. Section 5 proves them, and `LoadingIsHonest` of the hook.

Three further runs show places where the code does not do what its documentation,
or a comment beside it, says. They are findings, not failures of the models:

| Run | What happens |
|---|---|
| `two_dms` | A row whose request timed out is QUEUED again; its comment is deleted; the row is CANCELLED, yet its DM lands. The next comment opens a new row, and the user gets a second DM. |
| `ghost_dm` | A deletion that arrived first, but whose task has not run, does not stop the comment that arrives next. |
| `obligation_lost` | A second comment is blocked by the first one's row, which is then cancelled with the first comment: nobody is owed a DM. |

Further disagreements, visible in the actions:

* An event run twice finds its own row and counts itself as a blocked
  duplicate (`BlockedIsAnotherComment` of `Matcher`; in place of
  the invariant of `MCObligationLost.cfg` it shows a run).
* `MAX_CYCLES = 3` orders two resends (`config.py`: "reconciler-ordered resends").
* A deletion that finds its row beyond QUEUED leaves it alone. When the DM then
  fails, `RequeueNewCycle` orders another one under a new key without a look at the
  tombstones. `FAILURES.md` knows only of the request in flight.
* `/stats` reads rows and counter in two statements (`stats.py`: "ONE statement").
* The difference of a report includes earlier traffic that settles after the
  baseline.
* `BLUEPRINT.md` line 284 says "rules match comments arriving *after* creation (no
  retro-matching)", and line 450 assumes the same. `_handle_created` reads the rules
  when the event is handled (`matcher.py` line 169), by its task, by the sweep, or by
  the replay at boot, which may be any time after it arrived: a rule created in
  between matches it and the user is sent a DM (`OweLate`).
* Nothing orders the answers of overlapping requests. Of two `GET /stats` the one
  that read first may answer last, and the hook takes the answers of one effect
  as they come, so the numbers on a screen may step back for a while
  (`StatsNeverTakesBack` and `ReadingIsRecent` say by how much: not below what was told
  before the request read, not older than one timeout).
* `wait_for_budget` may sleep over a slot freed between its two queries. One sleep
  is not always enough, since it may end early; two are (`TwoSleepsAreEnough`), for
  a clock that is early by at most half of `_MIN_SLEEP`.
* The dashboard promises blank panels rather than invented values when the backend
  is down (`page.tsx` line 93), yet its cards show zeros, the internals "none
  outstanding" and the feed "0 shown"; and as each panel reads a poll of its own,
  the table and the feed may well show rows under that banner. `NothingInvented`
  says what holds: zeros only under the banner, "none outstanding" without a reading
  only beside "Connecting", and "0 shown" without one only over the feed's own skeleton
  or banner, which may stand on a page whose header says "Updated".
* Between "Rule created" and the cleanup of the effect that the refresh runs, the
  answer to an older request is still taken, and the table shows a reading without
  the rule. `NewRuleIsListed` says that it does not rest there.
* The banner "Simulation could not start … Nothing was written to the pipeline"
  also appears when a poll for the report failed, or when the answer to the start
  was lost after the run had been fired (phase "error" with the run in `fired`).
* The report of the backend has no `status`, so the panel takes the first one as
  final, before the run has drained, and neither `truth` nor a flat `ours`, so the table
  says "not reported". After `MAX_POLL_MS` without a report the panel is "done"
  and shows nothing.
* With storage disabled the script in the head falls back to light without
  asking for the system's scheme, which the layout effect then corrects: a flash.
* The end of a skipped view transition takes off the class that the one that
  replaced it still needs (`Finished`).
* A POST of a rule that timed out may be inserted later; submitting again then
  makes a second rule (`OneRulePerDraft` says: never without a report of failure).

## 4. Fairness

* The worker, `SF` on each of its steps: `claim_job` takes the row that is due
  longest, so one that keeps becoming due is claimed; recovery runs every fifty
  iterations, also when idle. Strong rather than weak, because crashes,
  exceptions and rate limits disable a step again and again; the assumption is
  that they do not do so every time.
* The reconciler, `SF` on fetching, on a read that learns the status, and on
  the write that follows: a failed read or write is repeated at the next poll.
* PseudoGram settles what it accepted (`WF`) and at times answers otherwise
  than with a 429 (`SF`). The code resends a throttled row for ever, so without
  the latter nothing would end; `FAILURES.md` says the same of DMs that are
  never settled.
* The loops of the matcher, `SF`; the task of an event has no fairness at all,
  for it may be lost. `EveryEventProcessed` is what the sweep alone achieves. It
  assumes that no event raises on every run: one whose `post_id` is not a string
  (`matcher.py` lines 147 and 220) would, and with batches of one it would keep the
  sweep from the events after it.
* The browser, `WF`: its event loop runs effects and due timers, time goes on,
  and a request ends by its answer or by its timer. Nothing is promised of the
  visitor, of faults, of the backend, or of what PseudoGram accepts. `CatchesUp`
  is about a page that stays open and visible; faults end because their number
  is bounded.

## 5. Proofs

Eight modules hold the proofs. The constants are arbitrary within the named
assumptions, which say no more than what the code sets: positive limits
(`ConfigAssumption`), an author per comment, finitely many events of known types
(`EventAssumption`), finitely many rows (`ReportsAssumption`), a minimal
sleep within the window and of twice what a sleep may fall short by, and a pruning
age of at least the window (`RateAssumption`; an eighth of a second of clock error for
the quarter of a second of `_MIN_SLEEP`), positive
intervals and an answer in time when it arrives before the timer
(`PollAssumption`), the same of the events of the whole process
(`IntakeAssumption`), and that `None` (`NoneAssumption`), `Null` and `NoChoice` are none of the values
they stand beside. The bounds (`Max...`) stay in the models, and are arbitrary too.

| Module | Proved for every instance | Argument |
|---|---|---|
| `Delivery_proofs` | `TypeOK`, `OneLiveDM`, `LiveUserDMedOnce`, `SentWasDelivered`, `FailedOnlyWithCause`, `PollsAreCurrent`, `TerminalIsFinal`, `TriesAreSpent`, and that `Delivery` implements `Promise` | `IInv`, below |
| `Matcher_proofs` | `ProcessedIsPaid`, `TombstoneHolds`, `CancelledIsTombstoned`, `SuppressedIsHonest`, `BlockedCoversDuplicates` | what each handler may rely on; what each run has counted |
| `MatcherRefinement_proofs` | `StandingRulesServed`, and that `Matcher` implements `Obligations` | what each run knows of the rules that stand |
| `LinkPlease_proofs` | the process implements `Delivery`, `Matcher`, `Promise` and `Obligations`; the safety of `Delivery`; `EveryDMHasItsComment`, `EveryCommentAccounted` | both invariants jointly |
| `RateLimit_proofs` | `BudgetKept`, `LimitKept`, `TwoSleepsAreEnough` | windows only empty; arrivals follow records; a second sleep reaches the slot |
| `Reports_proofs` | `ReportCoversRun`, `StatsNeverTakesBack` | baselines count only other traffic |
| `Dashboard_proofs` | `LoadingIsHonest`, `ReadingIsRecent`, `SupersededIsSilent` of the hook; `OneRulePerDraft`, `TypedIsKept`, `NewRuleIsListed`, `NothingInvented`; the page uses the hook as `UsePoll` says | one use of the hook at a time; what is missing is asked for; one attempt per text not reported as failed |
| `Site_proofs` | `OneWatch`, `ReportIsOfRun` of the panel and of the site, `ChoiceIsKept`, `NavIsOfPage` | who stopped a chain; every step of the site is one of a component, or none |

**Delivery.** Hardly any of the properties is inductive by itself. `OneLiveDM`
compares the DMs of two cycles of a row, and a step that creates a DM knows only
the worker's own copy of the cycle. `IInv` says what ties the pieces:

* `CyclesInOrder`: the DMs of cycles before the row's have failed, keys of later
  cycles were never used, not even by a request still under way. This makes a
  resend safe, and two DMs in play impossible.
* `WorkerHoldsRow`: while the worker is busy its row is SENDING and has the
  attempt and cycle of the worker's copy. It is why recovery between two
  iterations of the worker, and a deletion that cancels only QUEUED rows, cannot
  pull the row from under an unguarded UPDATE.
* `PollsAreCurrent`, `PollsAreTrue`: the same for the reconciler, and what it
  read of a DM stays true, since a settled DM does not change.
* `RowsNameTheirDM`, `RowsWellFormed`, `OneLiveRow`: rows name the DM of their
  own cycle and a rule that exists, attempts stay below the limit while the row
  is owed, and `uq_live_job` holds.

There is one lemma per action or group of actions with the same effect. `IInv`
also shows that two defensive branches are dead: a claimed job whose rule is
gone, and an AWAITING_CONFIRM row without dm_id. TLC checks `IInv` in `delivery`.
For the refinement each step is classified: it changes neither an outcome nor
an inbox (a stutter), inserts a row (`Owe`), cancels rows of one comment
(`Withdraw`), delivers a DM (`Deliver`), or ends a row (`Confirm`, `GiveUp`).
`OneLiveRow` makes the obligation of a row unique, `CyclesInOrder` the inbox empty
before a delivery.

**Matcher.** Rows are never taken away and keep rule and comment (`RowsKept`),
tombstones are not lifted (`TablesGrow`). `HandlerOK` says what a run of an
event may rely on at each of its statements: the rules it has done are paid, a
tombstone stands before it cancels, and a comment whose tombstone it did not
find arrived before the deletion. That it holds of every run at once, also of two
runs of one event, is why interleaving and crashes do no harm.

That the counter covers the blocked duplicates (`BlockedCoversDuplicates`) is not
inductive, for it speaks of processed events only, and a run counts before it
stamps, or is lost in between. `DuplicatesCounted` counts, besides the pairs of a
processed event and a rule that another comment's row stood in the way of, what
each run under way has already dealt with and not yet stamped: every such
pair was counted once by somebody, and an end without a stamp only leaves the
counter too high. The model's counter stops at `MaxBlocked`: one theorem speaks of states
below that bound (`DuplicatesAreCounted`), the other says that with a bound of at
least one per event and rule nothing is ever uncounted (`NoDuplicateUncounted`).

**Obligations.** A run of a comment reads the rules once. All that stood since before
the run are among those it read, for rules only leave `standing`; what it has to
pay it pays before it stamps (`RunKnows`), unless it ended early at a tombstone. A
tombstone is dated by the arrivals before it (`TombstonesDated`), so a comment
heard before its deletion is told from one after it. Every statement of a run,
and every other step, is then one step of `Obligations` or none: an insert is `Owe` if
its rule still stands since the acknowledgement, and `OweLate` if not, a
tombstone `Delete`, the stamp `Close`; a duplicate, a failure, a crash, a move of
a row by the delivery half change nothing abstract.

**LinkPlease.** `BothInv` joins Delivery's `IInv` and the matcher's `MatchInv`,
the latter of the rows as the matcher sees them. Every step of the process is a
step of either half or leaves it alone, but only where the invariant of the
other half holds: that a handler inserts a row for a comment of the feed comes
from `MatchInv`, that a worker's UPDATE starts from SENDING and the reconciler's
from AWAITING_CONFIRM comes from `IInv`. So neither refinement can be proved
before the other, and both follow from the joint invariant. That a DM has its
comment then takes one fact of each half: a DM has a row (`CyclesInOrder`), and a
row has a comment that arrived and was not known to be deleted (`TombstoneHolds`).
`EveryCommentAccounted` takes the debt paid from `MatchInv` and the ground of each end
from `IInv`. For `Obligations`, each step of the process is a step of `Matcher`
with its history, or a stutter (`StepIsHistory`), and the rows show the same
promises as the matcher's view of them (`ViewIsTrue`).

**RateLimit.** The budget is read in one step and spent in a later one. A grant
stays good (`GrantIsGood`), since only the worker records and time only empties
a window. A request is recorded, arrives, and only then is the next one recorded
(`ArrivalsFollow`), so of the arrivals in one window at most one was recorded
before it: `Max + 1`. While the worker sleeps nobody records, so the slot it waits
for stays the oldest: the first sleep ends at most `Early` before it is free, and the
second lasts at least `MinSleep - Early` on the database's clock (`SleepsReach`).

**Reports.** Whatever is SENT or FAILED stays so and keeps its origin. The baseline
was read before PseudoGram was asked, so it counts only rows of other origin
(`BaselineIsOthers`), and the run comes on top. For the same reason a request would
answer with no less than all that had been told when it read its rows, however many
others are served at that time.

**UsePoll, Dashboard.** `PollOK` speaks of one use of the hook: its requests are
not older than their timers (`InTime`), and those still wanted were read after the
effect ran (`SinceTheEffect`). Each step of the page is a step of the hooks
(`DashboardUsesPolls`), so this carries over. `Asking` says that a visible hook
without an error either has a reading as young as its effect or has a wanted request
under way, and `AsksAgain` that the effect is as young as the rule or is to run again:
together they are `NewRuleIsListed`. Of the form, `OneAttempt` says that
a text whose creation was not reported as failed has at most one POST or rule.

**SimPanel, Site.** Clearing the shared `stopRef` revives no old chain: a chain
that was stopped lost its panel, so the present panel did not ask for it
(`StoppedAreLeft`), and a panel that waits for a start watches nothing
(`StartIsMine`, `OneStart`). Every step of the site is a step of the panel or
leaves it alone. The theme a transition has still to apply last is the one chosen
last (`PendingIsChosen`).

Only model-checked: liveness (`OrphansRecovered`, `EveryObligationResolved`,
`EveryEventProcessed`, `CatchesUp`, `SubmitIsAnswered`, `BusyEnds`,
`TransitionsEnd`), out of the prover's reach. Every invariant and every action
property of a passing run is also a theorem.

## 6. Not modelled

* The arithmetic of delays (`backoff_seconds`, `next_check_delay`,
  `parse_retry_after`): a row may be due at any moment instead.
* Signature verification, JSON parsing, keyword matching: events and matches are
  constants. `summarise_truth`, the event-id join and the layout of the report.
* Two overlapping processes: the code is written for one.
* Liveness of the composed backend: its fairness conditions exceed what TLC can
  check on it; it is checked for each half.
* The connection pool, migration, CORS, `/healthz`, `stats_extended`, `list_jobs`.
* Of the frontend: the text of the landing page, animations (tilt, count-up,
  reveal, hero glow, the geometry of the theme reveal), formatting, the table of the
  report and the hints of the simulation banner, the elapsed-time caption, the skip link,
  `getEvents` and `getHealth`, which no page calls. Each is a function of its
  props, or a state of one component that nothing else reads.
* A 200 whose body is not the list or object that was asked for: `getRules` and
  `getJobs` make an empty list of it (`?? []`, `api.ts` lines 311 and 344). The backend
  that is modelled always sends what is asked for.
* The parameters of `usePoll` that every page leaves alone (`enabled`, a changing
  fetcher or interval).

## 7. Plan

1. `Policy`: delays, header parsing and answer classification as operators,
   checked against reference definitions; wired to `Delivery` where a property
   depends on it.
2. `Reports`: the event-id join and the report's event sets
   (`events_missing_from_ours`), the recorded-run conflict.
3. Two overlapping processes during a deploy, against which of the delivery and
   budget invariants survive.
