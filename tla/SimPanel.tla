------------------------------ MODULE SimPanel -------------------------------
(***************************************************************************)
(* The simulation panel of the dashboard: it asks the backend to start a   *)
(* run of PseudoGram's simulator and then polls for the report of that run *)
(* by a chain of timers and requests.  Neither request is aborted: when    *)
(* the panel is left, what is under way goes on and finds stopRef set.     *)
(***************************************************************************)
EXTENDS Naturals, FiniteSets

CONSTANTS
  MaxRuns,     \* bound: runs that are asked for; a run is its number
  MaxAsked,    \* MAX_POLL_MS, counted in answers of one watch
  None

ASSUME SimAssumption == MaxRuns \in Nat /\ MaxAsked \in Nat \ {0} /\ None \notin Nat

VARIABLES
  panel,    \* the states of the mounted panel; None when it is left
  start,    \* POST /api/simulate of each run
  watch,    \* the chain of report polls of each run
  fired,    \* external: the runs whose events PseudoGram sends
  recorded  \* table simulate_runs: the runs the backend can report on

simVars == <<panel, start, watch, fired, recorded>>

Runs == 1 .. MaxRuns
Phases == {"idle", "starting", "running", "done", "error"}

\* report: the run it is of.
Panel ==
  [phase : Phases, runId : Runs \cup {None}, report : Runs \cup {None}]

ASSUME NoneAssumption == None \notin Panel

NewPanel == [phase |-> "idle", runId |-> None, report |-> None]

\* sent, accepted: the request before and after PseudoGram has the run;
\* gone: the browser has given up on it.  awaited: its panel is still there.
Start == [stage : {"unused", "sent", "accepted", "gone", "over"}, awaited : BOOLEAN]

\* waiting for its timer, or for an answer; stopped: its stopRef is set.
Watch == [stage : {"off", "waiting", "asking"}, asked : 0 .. MaxAsked,
          stopped : BOOLEAN]

NoWatch == [stage |-> "off", asked |-> 0, stopped |-> FALSE]

Init ==
  /\ panel = NewPanel
  /\ start = [r \in Runs |-> [stage |-> "unused", awaited |-> FALSE]]
  /\ watch = [r \in Runs |-> NoWatch]
  /\ fired = {} /\ recorded = {}

Mounted == panel # None
Watching(w) == w.stage # "off" /\ ~w.stopped

-----------------------------------------------------------------------------
(* Effects *)

\* The cleanup: the timer is cleared, and an answer to come finds stopRef set.
Stopped(ws) ==
  [r \in Runs |-> IF ws[r].stage = "asking" THEN [ws[r] EXCEPT !.stopped = TRUE]
                                           ELSE NoWatch]

\* The effect of phase "running" on a run.  It clears the stopRef of its panel,
\* which is also that of any chain this panel has left behind.
Started(ws, r) ==
  [q \in Runs |-> IF q = r THEN [stage |-> "waiting", asked |-> 0, stopped |-> FALSE]
                  ELSE IF start[q].awaited THEN [ws[q] EXCEPT !.stopped = FALSE]
                  ELSE ws[q]]

-----------------------------------------------------------------------------
(* Starting a run *)

\* Mutant: only a start under way counts as busy, not a run that is watched.
BusyStarting(phase) == phase = "starting"

Busy(phase) == phase \in {"starting", "running"}

\* Mutant: the report of the run before stays on the screen.
RestartedWithReport(p) ==
  [p EXCEPT !.phase = "starting", !.runId = None]

Restarted(p) ==
  [p EXCEPT !.phase = "starting", !.report = None, !.runId = None]

\* handleRun up to its await; the button is disabled while the panel is busy.
HandleRun(r) ==
  /\ Mounted /\ ~Busy(panel.phase)
  /\ start[r].stage = "unused" /\ \A q \in Runs : start[q].stage = "unused" => r <= q
  /\ panel' = Restarted(panel)
  /\ start' = [start EXCEPT ![r] = [stage |-> "sent", awaited |-> TRUE]]
  /\ watch' = IF panel.phase = "running" THEN Stopped(watch) ELSE watch
  /\ UNCHANGED <<fired, recorded>>

\* PseudoGram starts the run; the backend may fail to record it.
Accept(r) ==
  /\ start[r].stage \in {"sent", "gone"}
  /\ fired' = fired \cup {r}
  /\ recorded' \in {recorded, recorded \cup {r}}
  /\ start' = [start EXCEPT ![r].stage = IF @ = "sent" THEN "accepted" ELSE "over"]
  /\ UNCHANGED <<panel, watch>>

\* handleRun after its await, when the answer carries the run_id.
StartOk(r) ==
  /\ start[r].stage = "accepted"
  /\ start' = [start EXCEPT ![r].stage = "over"]
  /\ IF start[r].awaited
     THEN /\ panel' = [panel EXCEPT !.phase = "running", !.runId = r]
          /\ watch' = Started(watch, r)
     ELSE UNCHANGED <<panel, watch>>
  /\ UNCHANGED <<fired, recorded>>

\* ... and when it is an error.  A refused run is not fired; one whose answer
\* is lost or late may be, then or later.
StartFails(r, why) ==
  /\ start[r].stage \in IF why = "lost" THEN {"sent", "accepted"} ELSE {"sent"}
  /\ start' = [start EXCEPT ![r].stage =
                 IF why = "lost" /\ @ = "sent" THEN "gone" ELSE "over"]
  /\ panel' = IF start[r].awaited THEN [panel EXCEPT !.phase = "error"] ELSE panel
  /\ UNCHANGED <<watch, fired, recorded>>

\* A request the browser gave up on never gets through.
Vanish(r) ==
  /\ start[r].stage = "gone"
  /\ start' = [start EXCEPT ![r].stage = "over"]
  /\ UNCHANGED <<panel, watch, fired, recorded>>

-----------------------------------------------------------------------------
(* Watching a run: tick *)

Ask(r) ==
  /\ watch[r].stage = "waiting"
  /\ watch' = [watch EXCEPT ![r].stage = "asking", 
                               ![r].asked = IF @ < MaxAsked THEN @ + 1 ELSE @]
  /\ UNCHANGED <<panel, start, fired, recorded>>

\* Mutant: a run that is not found is asked for again, without a ceiling.
OverdueNever(r) == FALSE

Overdue(r) == watch[r].asked = MaxAsked

\* Whether tick goes on after its await.
Heeded(r) == ~watch[r].stopped

(***************************************************************************)
(* A report has no status, so the first one is taken as final; 404 is "not *)
(* yet", until the ceiling; anything else ends the watch.                  *)
(***************************************************************************)
Answered(r, how) ==
  /\ watch[r].stage = "asking"
  /\ how \in {"failed", IF r \in recorded THEN "report" ELSE "missing"}
  /\ IF ~Heeded(r)
     THEN UNCHANGED panel /\ watch' = [watch EXCEPT ![r] = NoWatch]
     ELSE \/ /\ how = "report"
             /\ panel' = [panel EXCEPT !.phase = "done", !.report = r]
             /\ watch' = [watch EXCEPT ![r] = NoWatch]
          \/ /\ how = "failed"
             /\ panel' = [panel EXCEPT !.phase = "error"]
             /\ watch' = [watch EXCEPT ![r] = NoWatch]
          \/ /\ how = "missing" /\ Overdue(r)
             /\ panel' = [panel EXCEPT !.phase = "done"]
             /\ watch' = [watch EXCEPT ![r] = NoWatch]
          \/ /\ how = "missing" /\ ~Overdue(r)
             /\ watch' = [watch EXCEPT ![r].stage = "waiting"]
             /\ UNCHANGED panel
  /\ UNCHANGED <<start, fired, recorded>>

-----------------------------------------------------------------------------
(* The dashboard is left, with its panel, and opened again. *)

Unmount ==
  /\ Mounted
  /\ panel' = None
  /\ watch' = Stopped(watch)
  /\ start' = [r \in Runs |-> [start[r] EXCEPT !.awaited = FALSE]]
  /\ UNCHANGED <<fired, recorded>>

Mount ==
  /\ ~Mounted
  /\ panel' = NewPanel
  /\ UNCHANGED <<start, watch, fired, recorded>>

\* A reload of the page: both at once.
Remount ==
  /\ Mounted
  /\ panel' = NewPanel
  /\ watch' = Stopped(watch)
  /\ start' = [r \in Runs |-> [start[r] EXCEPT !.awaited = FALSE]]
  /\ UNCHANGED <<fired, recorded>>

-----------------------------------------------------------------------------
Refusals == {"refused", "lost"}
Answers == {"report", "missing", "failed"}

\* What happens by itself: timers, and a request meets an answer or its timer.
Progress(r) ==
  \/ Ask(r)
  \/ StartOk(r)
  \/ \E why \in Refusals : StartFails(r, why)
  \/ \E how \in Answers : Answered(r, how)

Next ==
  \/ Unmount \/ Mount \/ Remount
  \/ \E r \in Runs : HandleRun(r) \/ Accept(r) \/ Vanish(r) \/ Progress(r)

Spec == Init /\ [][Next]_simVars

\* Nothing is promised of the visitor, or of what PseudoGram accepts.
Fairness == \A r \in Runs : WF_simVars(Progress(r))
LiveSpec == Spec /\ Fairness

-----------------------------------------------------------------------------
TypeOK ==
  /\ panel \in Panel \cup {None}
  /\ start \in [Runs -> Start]
  /\ watch \in [Runs -> Watch]
  /\ fired \subseteq Runs /\ recorded \subseteq fired

(***************************************************************************)
(* What is on the screen is about one run: the report under a run_id is    *)
(* that run's, and it never reappears under another one, whatever answers  *)
(* come late (sim-panel.tsx stopRef, handleRun).                           *)
(***************************************************************************)
ReportIsOfRun ==
  Mounted /\ panel.report # None => panel.report = panel.runId

(***************************************************************************)
(* One chain of timers and requests drives the panel, that of the run it   *)
(* is watching, and none when it is not watching (sim-panel.tsx tick).     *)
(***************************************************************************)
OneWatch ==
  \A r \in Runs : Watching(watch[r]) =>
    Mounted /\ panel.phase = "running" /\ panel.runId = r

(***************************************************************************)
(* The button comes back: a panel that stays open is not busy for ever,    *)
(* whether or not the report of the run ever exists (MAX_POLL_MS).         *)
(***************************************************************************)
BusyEnds == (Mounted /\ Busy(panel.phase)) ~> (~Mounted \/ ~Busy(panel.phase))
=============================================================================
