----------------------------- MODULE Site_proofs -----------------------------
(***************************************************************************)
(* Proofs about SimPanel and Site, for any number of runs, clicks and      *)
(* events: what is shown of the panel holds on the site, the theme that    *)
(* was chosen is kept, and the navigation bar belongs to its page.         *)
(*                                                                         *)
(* The panel has one stopRef for all its chains of report polls, and the   *)
(* effect of a new run clears it.  Why no older chain comes back to life:  *)
(* a chain that a panel stopped has been stopped because that panel went,  *)
(* so the panel there is now did not ask for it (StoppedAreLeft), and a    *)
(* panel that waits for the answer to a start watches nothing (StartIsMine,*)
(* OneStart, with OneWatch).                                               *)
(***************************************************************************)
EXTENDS Site, FiniteSetTheorems, TLAPS

\* The panel there is now waits for the answer to this start.
Awaiting(r) == start[r].awaited /\ start[r].stage \in {"sent", "accepted"}

\* Only a panel that is there awaits an answer.
AwaitedAreMounted == \A r \in Runs : start[r].awaited => Mounted

\* It shows that it does, and it does so for one run.
StartIsMine == \A r \in Runs : Awaiting(r) => panel.phase = "starting"

OneStart == \A r, q \in Runs : Awaiting(r) /\ Awaiting(q) => r = q

\* Meanwhile neither a run_id nor a report is shown.
StartingIsBlank ==
  Mounted /\ panel.phase = "starting" => panel.runId = None /\ panel.report = None

\* A chain that was stopped is one of a panel that was left.
StoppedAreLeft ==
  \A r \in Runs : watch[r].stage # "off" /\ watch[r].stopped => ~start[r].awaited

\* A chain begins when the start is over.
WatchFollowsStart == \A r \in Runs : watch[r].stage # "off" => start[r].stage = "over"

SimInv ==
  /\ TypeOK
  /\ OneWatch /\ ReportIsOfRun
  /\ AwaitedAreMounted /\ StartIsMine /\ OneStart /\ StartingIsBlank
  /\ StoppedAreLeft /\ WatchFollowsStart

-----------------------------------------------------------------------------
\* A new panel, with nothing asked.
LEMMA InitInv == Init => SimInv
<1> SUFFICES ASSUME Init PROVE SimInv
  OBVIOUS
<1> USE SimAssumption, NoneAssumption DEF Init, NewPanel, NoWatch, Mounted
<1>1. TypeOK
  BY DEF TypeOK, Panel, Phases, Start, Watch
<1>2. OneWatch /\ ReportIsOfRun /\ StartingIsBlank
  BY DEF OneWatch, ReportIsOfRun, StartingIsBlank, Watching
<1>3. /\ AwaitedAreMounted /\ StartIsMine /\ OneStart
      /\ StoppedAreLeft /\ WatchFollowsStart
  BY DEF AwaitedAreMounted, StartIsMine, OneStart, Awaiting, StoppedAreLeft,
         WatchFollowsStart
<1> QED
  BY <1>1, <1>2, <1>3 DEF SimInv

\* What a mounted panel is, and that an update of it is mounted too.
LEMMA PanelTyped ==
  ASSUME TypeOK, Mounted
  PROVE  panel \in Panel
BY DEF TypeOK, Mounted

\* A chain that is heeded belongs to the run that is on the screen.
LEMMA WatchingIsShown ==
  ASSUME SimInv, NEW r \in Runs, watch[r].stage # "off", ~watch[r].stopped
  PROVE  Mounted /\ panel.phase = "running" /\ panel.runId = r
BY DEF SimInv, OneWatch, Watching

\* A panel that is not running has no chain that is heeded.
LEMMA NothingWatched ==
  ASSUME SimInv, ~Mounted \/ panel.phase # "running", NEW r \in Runs
  PROVE  ~Watching(watch[r])
BY DEF SimInv, OneWatch

-----------------------------------------------------------------------------
\* handleRun up to its await: the panel is not busy, so it watches nothing and
\* awaits nothing, and what it shows is blank from here on.
LEMMA HandleRunInv ==
  ASSUME SimInv, NEW r \in Runs, HandleRun(r)
  PROVE  SimInv'
<1>1. /\ panel \in Panel /\ panel.phase \notin {"starting", "running"}
      /\ panel' = [panel EXCEPT !.phase = "starting", !.report = None, !.runId = None]
      /\ start' = [start EXCEPT ![r] = [stage |-> "sent", awaited |-> TRUE]]
      /\ UNCHANGED <<watch, fired, recorded>>
      /\ start[r].stage = "unused"
  BY PanelTyped DEF SimInv, HandleRun, Busy, Restarted
<1>2. panel' \in Panel /\ Mounted'
  BY <1>1, SimAssumption, NoneAssumption DEF Panel, Phases, Mounted
<1>3. /\ panel'.phase = "starting" /\ panel'.runId = None /\ panel'.report = None
  BY <1>1 DEF Panel
<1>4. /\ start'[r] = [stage |-> "sent", awaited |-> TRUE]
      /\ \A q \in Runs \ {r} : start'[q] = start[q]
  BY <1>1 DEF SimInv, TypeOK
<1>5. TypeOK'
  BY <1>1, <1>2 DEF SimInv, TypeOK, Start
<1>6. \A q \in Runs : ~Watching(watch[q])
  BY <1>1, NothingWatched
<1>7. OneWatch' /\ ReportIsOfRun' /\ StartingIsBlank'
  BY <1>1, <1>3, <1>6 DEF OneWatch, ReportIsOfRun, StartingIsBlank, Watching
<1>8. AwaitedAreMounted' /\ StartIsMine'
  BY <1>2, <1>3 DEF AwaitedAreMounted, StartIsMine
<1>9. \A q \in Runs : ~Awaiting(q)
  BY <1>1 DEF SimInv, StartIsMine
<1>10. OneStart'
  BY <1>4, <1>9 DEF OneStart, Awaiting
<1>11. StoppedAreLeft' /\ WatchFollowsStart'
  BY <1>1, <1>4 DEF SimInv, StoppedAreLeft, WatchFollowsStart
<1> QED
  BY <1>5, <1>7, <1>8, <1>10, <1>11 DEF SimInv

\* What becomes of a request whose answer the panel has not seen changes neither
\* the panel nor a chain (simulate.py start_simulation).
LEMMA RequestMovesInv ==
  ASSUME SimInv, NEW r \in Runs, Accept(r) \/ Vanish(r)
  PROVE  SimInv'
<1>1. PICK stage \in {"accepted", "over"} :
        /\ start' = [start EXCEPT ![r].stage = stage]
        /\ stage = "accepted" => start[r].stage = "sent"
  BY DEF Accept, Vanish
<1>2. /\ UNCHANGED <<panel, watch>>
      /\ fired' \subseteq Runs /\ recorded' \subseteq fired'
  BY DEF Accept, Vanish, SimInv, TypeOK
<1>3. /\ start'[r].stage = stage /\ start'[r].awaited = start[r].awaited
      /\ start[r].stage \in {"sent", "gone"}
      /\ \A q \in Runs \ {r} : start'[q] = start[q]
  BY <1>1 DEF SimInv, TypeOK, Start, Accept, Vanish
<1>4. TypeOK'
  BY <1>1, <1>2 DEF SimInv, TypeOK, Start
<1>5. \A q \in Runs : Awaiting(q)' => Awaiting(q)
  BY <1>1, <1>3 DEF Awaiting
<1>6. OneWatch' /\ ReportIsOfRun' /\ StartingIsBlank'
  BY <1>2 DEF SimInv, OneWatch, ReportIsOfRun, StartingIsBlank, Watching, Mounted
<1>7. AwaitedAreMounted' /\ StartIsMine' /\ OneStart'
  BY <1>2, <1>3, <1>5 DEF SimInv, AwaitedAreMounted, StartIsMine, OneStart, Mounted
<1>8. StoppedAreLeft' /\ WatchFollowsStart'
  BY <1>1, <1>2, <1>3 DEF SimInv, StoppedAreLeft, WatchFollowsStart
<1> QED
  BY <1>4, <1>6, <1>7, <1>8 DEF SimInv

\* The answer to a start that is no longer awaited changes nothing but itself.
LEMMA StartLeftInv ==
  ASSUME SimInv, NEW r \in Runs, NEW stage \in {"gone", "over"},
         start' = [start EXCEPT ![r].stage = stage],
         start[r].stage \in {"sent", "accepted"},
         UNCHANGED <<panel, watch, fired, recorded>>
  PROVE  SimInv'
<1>1. /\ start'[r].stage = stage /\ start'[r].awaited = start[r].awaited
      /\ \A q \in Runs \ {r} : start'[q] = start[q]
  BY DEF SimInv, TypeOK, Start
<1>2. TypeOK'
  BY DEF SimInv, TypeOK, Start
<1>3. \A q \in Runs : Awaiting(q)' => Awaiting(q)
  BY <1>1 DEF Awaiting
<1>4. OneWatch' /\ ReportIsOfRun' /\ StartingIsBlank'
  BY DEF SimInv, OneWatch, ReportIsOfRun, StartingIsBlank, Watching, Mounted
<1>5. AwaitedAreMounted' /\ StartIsMine' /\ OneStart'
  BY <1>1, <1>3 DEF SimInv, AwaitedAreMounted, StartIsMine, OneStart, Mounted
<1>6. StoppedAreLeft' /\ WatchFollowsStart'
  BY <1>1 DEF SimInv, StoppedAreLeft, WatchFollowsStart
<1> QED
  BY <1>2, <1>4, <1>5, <1>6 DEF SimInv

\* The run_id arrives on the panel that waits for it: the effect clears stopRef,
\* and there is no chain that this could wake.
LEMMA StartOkInv ==
  ASSUME SimInv, NEW r \in Runs, StartOk(r)
  PROVE  SimInv'
<1>1. CASE ~start[r].awaited
  <2>1. /\ start' = [start EXCEPT ![r].stage = "over"] /\ start[r].stage = "accepted"
        /\ UNCHANGED <<panel, watch, fired, recorded>>
    BY <1>1 DEF StartOk
  <2> QED
    BY <2>1, StartLeftInv
<1>2. CASE start[r].awaited
  <2>1. /\ start' = [start EXCEPT ![r].stage = "over"] /\ start[r].stage = "accepted"
        /\ panel' = [panel EXCEPT !.phase = "running", !.runId = r]
        /\ watch' = Started(watch, r)
        /\ UNCHANGED <<fired, recorded>>
    BY <1>2 DEF StartOk
  <2>2. /\ Mounted /\ panel \in Panel /\ panel.phase = "starting"
        /\ panel.runId = None /\ panel.report = None
    BY <1>2, <2>1, PanelTyped DEF SimInv, AwaitedAreMounted, StartIsMine, StartingIsBlank, Awaiting
  <2>3. /\ panel' \in Panel /\ Mounted' /\ panel'.phase = "running"
        /\ panel'.runId = r /\ panel'.report = None
    BY <2>1, <2>2, NoneAssumption DEF Panel, Phases, Mounted
  <2>4. /\ start'[r].stage = "over"
        /\ \A q \in Runs : start'[q].awaited = start[q].awaited
        /\ \A q \in Runs \ {r} : start'[q] = start[q]
    BY <2>1 DEF SimInv, TypeOK, Start
  <2>5. /\ watch'[r] = [stage |-> "waiting", asked |-> 0, stopped |-> FALSE]
        /\ \A q \in Runs \ {r} :
             /\ watch'[q] \in Watch
             /\ watch'[q].stage = watch[q].stage
             /\ watch'[q].stopped => watch[q].stopped
             /\ ~watch'[q].stopped => ~watch[q].stopped \/ start[q].awaited
             /\ start[q].awaited => ~watch'[q].stopped
    BY <2>1 DEF Started, SimInv, TypeOK, Watch
  <2>6. TypeOK'
    <3>1. start' \in [Runs -> Start]
      BY <2>1 DEF SimInv, TypeOK, Start
    <3>2. watch' \in [Runs -> Watch]
      BY <2>1, <2>5, SimAssumption DEF Started, Watch
    <3> QED
      BY <2>1, <2>3, <3>1, <3>2 DEF SimInv, TypeOK
  <2>7. OneWatch'
    <3>1. \A q \in Runs \ {r} : ~Watching(watch'[q])
      BY <2>2, <2>5, NothingWatched DEF Watching, SimInv, StoppedAreLeft
    <3> QED
      BY <2>3, <3>1 DEF OneWatch
  <2>8. ReportIsOfRun' /\ StartingIsBlank' /\ AwaitedAreMounted'
    BY <2>3 DEF ReportIsOfRun, StartingIsBlank, AwaitedAreMounted
  <2>9. \A q \in Runs : ~Awaiting(q)'
    BY <1>2, <2>1, <2>4 DEF SimInv, OneStart, Awaiting
  <2>10. StartIsMine' /\ OneStart'
    BY <2>9 DEF StartIsMine, OneStart
  <2>11. StoppedAreLeft' /\ WatchFollowsStart'
    BY <2>4, <2>5 DEF SimInv, StoppedAreLeft, WatchFollowsStart
  <2> QED
    BY <2>6, <2>7, <2>8, <2>10, <2>11 DEF SimInv
<1> QED
  BY <1>1, <1>2

\* An error in its place frees the button; there is nothing to stop.
LEMMA StartFailsInv ==
  ASSUME SimInv, NEW r \in Runs, NEW why \in Refusals, StartFails(r, why)
  PROVE  SimInv'
<1>1. PICK stage \in {"gone", "over"} : start' = [start EXCEPT ![r].stage = stage]
  BY DEF StartFails
<1>2. start[r].stage \in {"sent", "accepted"} /\ UNCHANGED <<watch, fired, recorded>>
  BY DEF StartFails
<1>3. CASE ~start[r].awaited
  BY <1>1, <1>2, <1>3, StartLeftInv DEF StartFails
<1>4. CASE start[r].awaited
  <2>1. panel' = [panel EXCEPT !.phase = "error"]
    BY <1>4 DEF StartFails
  <2>2. /\ Mounted /\ panel \in Panel /\ panel.phase = "starting"
        /\ panel.report = None
    BY <1>2, <1>4, PanelTyped DEF SimInv, AwaitedAreMounted, StartIsMine, StartingIsBlank, Awaiting
  <2>3. /\ panel' \in Panel /\ Mounted' /\ panel'.phase = "error" /\ panel'.report = None
    BY <2>1, <2>2, NoneAssumption DEF Panel, Phases, Mounted
  <2>4. /\ start'[r].stage = stage
        /\ \A q \in Runs : start'[q].awaited = start[q].awaited
        /\ \A q \in Runs \ {r} : start'[q] = start[q]
    BY <1>1 DEF SimInv, TypeOK, Start
  <2>5. TypeOK'
    BY <1>1, <1>2, <2>3 DEF SimInv, TypeOK, Start
  <2>6. OneWatch'
    BY <1>2, <2>2, NothingWatched DEF OneWatch
  <2>7. ReportIsOfRun' /\ StartingIsBlank' /\ AwaitedAreMounted'
    BY <2>3 DEF ReportIsOfRun, StartingIsBlank, AwaitedAreMounted
  <2>8. \A q \in Runs : ~Awaiting(q)'
    BY <1>2, <1>4, <2>4 DEF SimInv, OneStart, Awaiting
  <2>9. StartIsMine' /\ OneStart'
    BY <2>8 DEF StartIsMine, OneStart
  <2>10. StoppedAreLeft' /\ WatchFollowsStart'
    BY <1>2, <2>4 DEF SimInv, StoppedAreLeft, WatchFollowsStart
  <2> QED
    BY <2>5, <2>6, <2>7, <2>9, <2>10 DEF SimInv
<1> QED
  BY <1>3, <1>4

-----------------------------------------------------------------------------
\* A chain goes on, or ends unheeded, without a change of the panel.
LEMMA ChainInv ==
  ASSUME SimInv, NEW r \in Runs, NEW w \in Watch,
         watch' = [watch EXCEPT ![r] = w], watch[r].stage # "off",
         w.stage = "off" \/ w.stopped = watch[r].stopped,
         UNCHANGED <<panel, start, fired, recorded>>
  PROVE  SimInv'
<1>1. watch'[r] = w /\ \A q \in Runs \ {r} : watch'[q] = watch[q]
  BY DEF SimInv, TypeOK
<1>2. TypeOK'
  BY DEF SimInv, TypeOK
<1>3. OneWatch'
  BY <1>1 DEF SimInv, OneWatch, Watching, Mounted
<1>4. /\ ReportIsOfRun' /\ StartingIsBlank' /\ AwaitedAreMounted'
      /\ StartIsMine' /\ OneStart'
  BY DEF SimInv, ReportIsOfRun, StartingIsBlank, AwaitedAreMounted, StartIsMine,
         OneStart, Awaiting, Mounted
<1>5. StoppedAreLeft' /\ WatchFollowsStart'
  BY <1>1 DEF SimInv, StoppedAreLeft, WatchFollowsStart
<1> QED
  BY <1>2, <1>3, <1>4, <1>5 DEF SimInv

\* The request of a tick.
LEMMA AskInv ==
  ASSUME SimInv, NEW r \in Runs, Ask(r)
  PROVE  SimInv'
<1> DEFINE asked == IF watch[r].asked < MaxAsked THEN watch[r].asked + 1
                                               ELSE watch[r].asked
           w == [watch[r] EXCEPT !.stage = "asking", !.asked = asked]
<1>1. watch[r] \in Watch /\ watch[r].stage = "waiting"
  BY DEF Ask, SimInv, TypeOK
<1>2. asked \in 0 .. MaxAsked
  BY <1>1, SimAssumption DEF Watch
<1>3. watch' = [watch EXCEPT ![r] = w]
  BY <1>1 DEF Ask, SimInv, TypeOK, Watch
<1>4. w \in Watch /\ w.stopped = watch[r].stopped
  BY <1>1, <1>2 DEF Watch
<1>5. UNCHANGED <<panel, start, fired, recorded>>
  BY DEF Ask
<1> HIDE DEF w
<1> QED
  BY <1>1, <1>3, <1>4, <1>5, ChainInv

\* A heeded answer that ends the watch ends the phase with it.
LEMMA WatchEndsInv ==
  ASSUME SimInv, NEW r \in Runs, watch[r].stage # "off", Heeded(r),
         NEW phase \in {"done", "error"}, NEW report \in {panel.report, r},
         panel' = [panel EXCEPT !.phase = phase, !.report = report],
         watch' = [watch EXCEPT ![r] = NoWatch],
         UNCHANGED <<start, fired, recorded>>
  PROVE  SimInv'
<1>1. /\ Mounted /\ panel \in Panel /\ panel.phase = "running" /\ panel.runId = r
  BY WatchingIsShown, PanelTyped DEF SimInv, Heeded
<1>2. /\ panel' \in Panel /\ Mounted' /\ panel'.phase = phase
      /\ panel'.runId = r /\ panel'.report = report
  BY <1>1, NoneAssumption DEF Panel, Phases, Mounted
<1>3. watch'[r] = NoWatch /\ \A q \in Runs \ {r} : watch'[q] = watch[q]
  BY DEF SimInv, TypeOK
<1>4. TypeOK'
  BY <1>2, SimAssumption DEF SimInv, TypeOK, NoWatch, Watch
<1>5. OneWatch'
  BY <1>1, <1>3 DEF SimInv, OneWatch, Watching, NoWatch
<1>6. ReportIsOfRun' /\ StartingIsBlank' /\ AwaitedAreMounted'
  BY <1>1, <1>2 DEF SimInv, ReportIsOfRun, StartingIsBlank, AwaitedAreMounted
<1>7. StartIsMine' /\ OneStart'
  BY <1>1 DEF SimInv, StartIsMine, OneStart, Awaiting
<1>8. StoppedAreLeft' /\ WatchFollowsStart'
  BY <1>3 DEF SimInv, StoppedAreLeft, WatchFollowsStart, NoWatch
<1> QED
  BY <1>4, <1>5, <1>6, <1>7, <1>8 DEF SimInv

\* tick after its await.
LEMMA AnsweredInv ==
  ASSUME SimInv, NEW r \in Runs, NEW how \in Answers, Answered(r, how)
  PROVE  SimInv'
<1>1. /\ watch[r] \in Watch /\ watch[r].stage = "asking"
      /\ NoWatch \in Watch /\ NoWatch.stage = "off"
      /\ UNCHANGED <<start, fired, recorded>>
  BY SimAssumption DEF Answered, SimInv, TypeOK, NoWatch, Watch
<1>2. CASE ~Heeded(r)
  BY <1>1, <1>2, ChainInv DEF Answered
<1>3. CASE Heeded(r)
  <2>0. Mounted /\ panel \in Panel
    BY <1>1, <1>3, WatchingIsShown, PanelTyped DEF Heeded, SimInv
  <2>1. CASE /\ panel' = [panel EXCEPT !.phase = "done", !.report = r]
             /\ watch' = [watch EXCEPT ![r] = NoWatch]
    BY <1>1, <1>3, <2>1, WatchEndsInv
  <2>2. CASE /\ \E phase \in {"done", "error"} : panel' = [panel EXCEPT !.phase = phase]
             /\ watch' = [watch EXCEPT ![r] = NoWatch]
    <3>1. PICK phase \in {"done", "error"} : panel' = [panel EXCEPT !.phase = phase]
      BY <2>2
    <3>2. panel' = [panel EXCEPT !.phase = phase, !.report = panel.report]
      BY <2>0, <3>1 DEF Panel
    <3> QED
      BY <1>1, <1>3, <2>2, <3>2, WatchEndsInv
  <2>3. CASE watch' = [watch EXCEPT ![r].stage = "waiting"] /\ UNCHANGED panel
    <3> DEFINE w == [watch[r] EXCEPT !.stage = "waiting"]
    <3>1. watch' = [watch EXCEPT ![r] = w]
      BY <2>3 DEF SimInv, TypeOK
    <3>2. w \in Watch /\ w.stopped = watch[r].stopped
      BY <1>1 DEF Watch
    <3> HIDE DEF w
    <3> QED
      BY <1>1, <2>3, <3>1, <3>2, ChainInv
  <2> QED
    BY <1>3, <2>1, <2>2, <2>3 DEF Answered
<1> QED
  BY <1>2, <1>3

-----------------------------------------------------------------------------
\* The panel goes, and perhaps a new one comes: what is under way is stopped
\* and awaited by nobody (the cleanup of the effect).
LEMMA LeftInv ==
  ASSUME SimInv, panel' \in {None, NewPanel},
         watch' = Stopped(watch),
         start' = [r \in Runs |-> [start[r] EXCEPT !.awaited = FALSE]],
         UNCHANGED <<fired, recorded>>
  PROVE  SimInv'
<1>1. panel' \in Panel \cup {None}
  BY DEF NewPanel, Panel, Phases
<1>2. \A r \in Runs : /\ start'[r] \in Start /\ ~start'[r].awaited
                      /\ start'[r].stage = start[r].stage
  BY DEF SimInv, TypeOK, Start
<1>3. \A r \in Runs : /\ watch'[r] \in Watch /\ ~Watching(watch'[r])
                      /\ watch'[r].stage # "off" => watch[r].stage # "off"
  <2> SUFFICES ASSUME NEW r \in Runs
               PROVE  /\ watch'[r] \in Watch /\ ~Watching(watch'[r])
                      /\ watch'[r].stage # "off" => watch[r].stage # "off"
    OBVIOUS
  <2>1. watch[r] \in Watch
    BY DEF SimInv, TypeOK
  <2>2. CASE watch[r].stage = "asking"
    <3>1. watch'[r] = [watch[r] EXCEPT !.stopped = TRUE]
      BY <2>2 DEF Stopped
    <3>2. watch'[r] \in Watch /\ watch'[r].stopped
      BY <2>1, <3>1 DEF Watch
    <3> QED
      BY <2>2, <3>2 DEF Watching
  <2>3. CASE watch[r].stage # "asking"
    <3>1. watch'[r] = NoWatch
      BY <2>3 DEF Stopped
    <3>2. NoWatch \in Watch /\ NoWatch.stage = "off"
      BY SimAssumption DEF NoWatch, Watch
    <3> QED
      BY <3>1, <3>2 DEF Watching
  <2> QED
    BY <2>2, <2>3
<1>4. TypeOK'
  BY <1>1, <1>2, <1>3 DEF SimInv, TypeOK, Stopped
<1>5. OneWatch' /\ AwaitedAreMounted' /\ StartIsMine' /\ OneStart'
  BY <1>2, <1>3 DEF OneWatch, AwaitedAreMounted, StartIsMine, OneStart, Awaiting
<1>6. ReportIsOfRun' /\ StartingIsBlank'
  BY DEF ReportIsOfRun, StartingIsBlank, Mounted, NewPanel
<1>7. StoppedAreLeft' /\ WatchFollowsStart'
  BY <1>2, <1>3 DEF SimInv, StoppedAreLeft, WatchFollowsStart
<1> QED
  BY <1>4, <1>5, <1>6, <1>7 DEF SimInv

\* A panel comes where there was none.
LEMMA MountInv ==
  ASSUME SimInv, Mount
  PROVE  SimInv'
<1>1. /\ ~Mounted /\ panel' = NewPanel /\ panel' \in Panel
      /\ UNCHANGED <<start, watch, fired, recorded>>
  BY DEF Mount, NewPanel, Panel, Phases
<1>2. TypeOK'
  BY <1>1 DEF SimInv, TypeOK
<1>3. OneWatch'
  BY <1>1, NothingWatched DEF OneWatch
<1>4. \A r \in Runs : ~start[r].awaited
  BY <1>1 DEF SimInv, AwaitedAreMounted
<1>5. AwaitedAreMounted' /\ StartIsMine' /\ OneStart'
  BY <1>1, <1>4 DEF AwaitedAreMounted, StartIsMine, OneStart, Awaiting
<1>6. ReportIsOfRun' /\ StartingIsBlank'
  BY <1>1 DEF ReportIsOfRun, StartingIsBlank, NewPanel
<1>7. StoppedAreLeft' /\ WatchFollowsStart'
  BY <1>1 DEF SimInv, StoppedAreLeft, WatchFollowsStart
<1> QED
  BY <1>2, <1>3, <1>5, <1>6, <1>7 DEF SimInv

-----------------------------------------------------------------------------
\* Every step keeps the invariant.
LEMMA NextInv == SimInv /\ [Next]_simVars => SimInv'
<1> SUFFICES ASSUME SimInv, [Next]_simVars PROVE SimInv'
  OBVIOUS
<1>1. CASE UNCHANGED simVars
  BY <1>1 DEF simVars, SimInv, TypeOK, OneWatch, ReportIsOfRun, AwaitedAreMounted,
         StartIsMine, OneStart, StartingIsBlank, StoppedAreLeft, WatchFollowsStart,
         Awaiting, Watching, Mounted
<1>2. CASE Unmount \/ Remount
  BY <1>2, LeftInv DEF Unmount, Remount
<1>3. CASE Mount
  BY <1>3, MountInv
<1>4. ASSUME NEW r \in Runs, HandleRun(r) PROVE SimInv'
  BY <1>4, HandleRunInv
<1>5. ASSUME NEW r \in Runs, Accept(r) \/ Vanish(r) PROVE SimInv'
  BY <1>5, RequestMovesInv
<1>6. ASSUME NEW r \in Runs, Progress(r) PROVE SimInv'
  BY <1>6, AskInv, StartOkInv, StartFailsInv, AnsweredInv DEF Progress
<1> QED
  BY <1>1, <1>2, <1>3, <1>4, <1>5, <1>6 DEF Next

\* The invariant holds in every reachable state of the panel.
THEOREM PanelInvariance == Spec => []SimInv
<1>1. Init => SimInv
  BY InitInv
<1>2. SimInv /\ [Next]_simVars => SimInv'
  BY NextInv
<1> QED
  BY <1>1, <1>2, PTL DEF Spec

\* Type correctness; only runs that PseudoGram was asked to fire are recorded.
THEOREM PanelTypeCorrect == Spec => []TypeOK
<1>1. SimInv => TypeOK
  BY DEF SimInv
<1> QED
  BY <1>1, PanelInvariance, PTL

\* One chain of requests drives the panel, that of the run on the screen, for
\* any number of runs, however late their answers (sim-panel.tsx stopRef).
THEOREM PanelHasOneWatch == Spec => []OneWatch
<1>1. SimInv => OneWatch
  BY DEF SimInv
<1> QED
  BY <1>1, PanelInvariance, PTL

\* The report on the screen is that of the run_id on the screen.
THEOREM PanelShowsItsRun == Spec => []ReportIsOfRun
<1>1. SimInv => ReportIsOfRun
  BY DEF SimInv
<1> QED
  BY <1>1, PanelInvariance, PTL

-----------------------------------------------------------------------------

\* A transition is pending only where toggles are revealed, and the last one that
\* is pending is for the theme of the last click.
PendingIsChosen ==
  /\ pending # <<>> => browser.mode = "reveal"
  /\ pending # <<>> => choice = pending[Len(pending)]

ThemeInv == Theme!TypeOK /\ PendingIsChosen /\ ChoiceIsKept

NavInv ==
  /\ pathname \in Paths /\ heading \in Paths
  /\ open => openedOn = pathname

-----------------------------------------------------------------------------
\* A step of the site is one of its panel, or leaves the panel alone.
LEMMA SiteStepsPanel == [SiteNext]_siteVars => [Next]_simVars
<1> SUFFICES ASSUME [SiteNext]_siteVars PROVE [Next]_simVars
  OBVIOUS
<1>1. ASSUME NEW r \in Runs,
             InSim(HandleRun(r)) \/ InSim(Accept(r)) \/ InSim(Vanish(r))
             \/ InSim(Progress(r))
      PROVE  Next
  BY <1>1 DEF InSim, Next
<1>2. CASE Commit \/ Reload
  BY <1>2 DEF Commit, Reload, Next
<1>3. CASE \/ InTheme(Theme!Progress) \/ InTheme(Theme!Toggle)
           \/ Happens /\ Theme!SystemChanges /\ UNCHANGED <<simVars, navVars>>
           \/ Disclose \/ Escape
           \/ \E link \in Links : Follow(link)
           \/ UNCHANGED siteVars
  BY <1>3 DEF InTheme, Disclose, Escape, Follow, siteVars
<1> QED
  BY <1>1, <1>2, <1>3 DEF SiteNext

(***************************************************************************)
(* The panel lives on the site as SimPanel says it may: links and reloads  *)
(* mount and unmount it (dashboard page.tsx, nav.tsx).                     *)
(***************************************************************************)
THEOREM SiteHasPanel == SiteSpec => Spec
<1>1. SiteInit => Init
  BY DEF SiteInit
<1> QED
  BY <1>1, SiteStepsPanel, PTL DEF SiteSpec, Spec

(***************************************************************************)
(* Whatever page is opened, left or reloaded, a report is shown under the  *)
(* run it is of, and one chain of timers drives the panel (sim-panel.tsx   *)
(* stopRef).                                                               *)
(***************************************************************************)
THEOREM SiteShowsItsRun == SiteSpec => [](ReportIsOfRun /\ OneWatch)
  BY SiteHasPanel, PanelShowsItsRun, PanelHasOneWatch, PTL

-----------------------------------------------------------------------------
\* The theme that the script in the head writes is a theme.
LEMMA ScriptTyped ==
  ASSUME NEW b, NEW s \in Theme!Themes \cup {NoChoice}, NEW sys \in Theme!Themes
  PROVE  /\ Theme!ScriptTheme(b, s, sys) \in Theme!Themes
         /\ Theme!Parsed(Theme!ScriptTheme(b, s, sys)) \in Theme!Html
         /\ Theme!Parsed(Theme!ScriptTheme(b, s, sys)).theme = Theme!ScriptTheme(b, s, sys)
<1>1. Theme!ScriptTheme(b, s, sys) \in Theme!Themes
  BY DEF Theme!ScriptTheme, Theme!Themes
<1> QED
  BY <1>1 DEF Theme!Parsed, Theme!Html

\* Changes of <html>, in its type.
LEMMA HtmlTyped ==
  ASSUME NEW h \in Theme!Html, NEW t \in Theme!Themes, NEW b \in BOOLEAN
  PROVE  /\ [h EXCEPT !.theme = t] \in Theme!Html /\ [h EXCEPT !.theme = t].theme = t
         /\ [h EXCEPT !.theme = t, !.transition = b] \in Theme!Html
         /\ [h EXCEPT !.theme = t, !.transition = b].theme = t
         /\ [h EXCEPT !.reveal = b] \in Theme!Html
         /\ [h EXCEPT !.reveal = b].theme = h.theme
         /\ [h EXCEPT !.transition = b] \in Theme!Html
         /\ [h EXCEPT !.transition = b].theme = h.theme
BY DEF Theme!Html

\* The markup of the server satisfies the invariant of the theme.
LEMMA ThemeInitInv == Theme!Init => ThemeInv
<1> SUFFICES ASSUME Theme!Init PROVE ThemeInv
  OBVIOUS
<1>1. html \in Theme!Html
  BY ScriptTyped DEF Theme!Init
<1>2. /\ pending \in Seq(Theme!Themes) /\ pending = <<>> /\ Len(pending) = 0
  BY DEF Theme!Init
<1>3. Theme!TypeOK
  <2>1. pending \in Seq(Theme!Themes) /\ playing \in Nat /\ Len(pending) <= playing
    BY <1>2 DEF Theme!Init
  <2>2. clicks \in 0 .. MaxToggles
    BY SiteAssumption DEF Theme!Init
  <2> QED
    BY <1>1, <2>1, <2>2, Zenon DEF Theme!Init, Theme!TypeOK
<1> QED
  BY <1>2, <1>3 DEF Theme!Init, ThemeInv, PendingIsChosen, ChoiceIsKept, Theme!ChoiceIsKept

\* The script of the head and the first mount keep it.
LEMMA HydrateInv ==
  ASSUME ThemeInv, Theme!Hydrate
  PROVE  ThemeInv'
<1>1. /\ hydrated' = TRUE /\ stored' = stored
      /\ html' = [html EXCEPT !.theme = Theme!ResolvedTheme]
      /\ UNCHANGED <<browser, system, pending, playing, timer, clicks, choice>>
  BY DEF Theme!Hydrate, Theme!Write
<1>2. Theme!ResolvedTheme \in Theme!Themes
  BY DEF ThemeInv, Theme!TypeOK, Theme!ResolvedTheme, Theme!StoredTheme
<1>3. html' \in Theme!Html /\ html'.theme = Theme!ResolvedTheme
  BY <1>1, <1>2, HtmlTyped DEF ThemeInv, Theme!TypeOK
<1>4. Theme!TypeOK'
  BY <1>1, <1>3 DEF ThemeInv, Theme!TypeOK
<1>5. ChoiceIsKept'
  BY <1>1, <1>3 DEF ThemeInv, ChoiceIsKept, Theme!ChoiceIsKept, Theme!ResolvedTheme,
                    Theme!StoredTheme
<1> QED
  BY <1>1, <1>4, <1>5 DEF ThemeInv, PendingIsChosen

\* Where a toggle is applied at once nothing is ever pending.
LEMMA ToggleAtOnceInv ==
  ASSUME ThemeInv, Theme!ToggleAtOnce
  PROVE  ThemeInv'
<1>1. /\ browser.mode # "reveal" /\ clicks < MaxToggles /\ clicks' = clicks + 1
      /\ choice' = Theme!Opposite(html.theme)
      /\ html' = [html EXCEPT !.theme = choice', !.transition = browser.mode = "fallback"]
      /\ stored' = Theme!Write(choice', TRUE)
      /\ timer' = (browser.mode = "fallback")
      /\ UNCHANGED <<browser, system, pending, playing, hydrated>>
  BY DEF Theme!ToggleAtOnce, Theme!Clicked
<1>2. choice' \in Theme!Themes
  BY <1>1 DEF Theme!Opposite, Theme!Themes
<1>3. html' \in Theme!Html /\ html'.theme = choice'
  <2> DEFINE timed == browser.mode = "fallback"
  <2>1. timed \in BOOLEAN /\ html \in Theme!Html
    BY DEF ThemeInv, Theme!TypeOK
  <2>2. html' = [html EXCEPT !.theme = choice', !.transition = timed]
    BY <1>1
  <2> HIDE DEF timed
  <2> QED
    BY <1>2, <2>1, <2>2, HtmlTyped, Zenon
<1>4. stored' \in Theme!Themes \cup {NoChoice}
      /\ (browser.storage => stored' = choice')
  BY <1>1, <1>2 DEF Theme!Write, ThemeInv, Theme!TypeOK
<1>5. Theme!TypeOK'
  <2>1. clicks' \in 0 .. MaxToggles /\ timer' \in BOOLEAN
    BY <1>1, SiteAssumption DEF ThemeInv, Theme!TypeOK
  <2> QED
    BY <1>1, <1>2, <1>3, <1>4, <2>1, Zenon DEF ThemeInv, Theme!TypeOK
<1> QED
  BY <1>1, <1>3, <1>4, <1>5
     DEF ThemeInv, PendingIsChosen, ChoiceIsKept, Theme!ChoiceIsKept

\* So does a toggle that the browser animates.
LEMMA ToggleWithRevealInv ==
  ASSUME ThemeInv, Theme!ToggleWithReveal
  PROVE  ThemeInv'
<1>1. /\ browser.mode = "reveal" /\ clicks < MaxToggles /\ clicks' = clicks + 1
      /\ choice' = Theme!Opposite(html.theme)
      /\ html' = [html EXCEPT !.reveal = TRUE]
      /\ pending' = Append(pending, choice')
      /\ playing' = playing + 1
      /\ UNCHANGED <<browser, system, stored, timer, hydrated>>
  BY DEF Theme!ToggleWithReveal, Theme!Clicked
<1>2. choice' \in Theme!Themes
  BY <1>1 DEF Theme!Opposite, Theme!Themes
<1>3. html' \in Theme!Html
  BY <1>1, <1>2, HtmlTyped DEF ThemeInv, Theme!TypeOK
<1>4. /\ pending' \in Seq(Theme!Themes) /\ Len(pending') = Len(pending) + 1
      /\ pending' # <<>> /\ pending'[Len(pending')] = choice'
  BY <1>1, <1>2 DEF ThemeInv, Theme!TypeOK
<1>5. Theme!TypeOK'
  <2>1. clicks' \in 0 .. MaxToggles /\ playing' \in Nat /\ Len(pending') <= playing'
    BY <1>1, <1>4, SiteAssumption DEF ThemeInv, Theme!TypeOK
  <2> QED
    BY <1>1, <1>2, <1>3, <1>4, <2>1, Zenon DEF ThemeInv, Theme!TypeOK
<1> QED
  BY <1>1, <1>4, <1>5 DEF ThemeInv, PendingIsChosen, ChoiceIsKept, Theme!ChoiceIsKept

\* The last callback that is pending applies and stores the theme of the last click.
LEMMA CallbackInv ==
  ASSUME ThemeInv, Theme!Callback
  PROVE  ThemeInv'
<1>1. /\ pending # <<>> /\ html' = [html EXCEPT !.theme = Head(pending)]
      /\ stored' = Theme!Write(Head(pending), TRUE)
      /\ pending' = Tail(pending)
      /\ UNCHANGED <<browser, system, playing, timer, hydrated, clicks, choice>>
  BY DEF Theme!Callback
<1>2. /\ pending \in Seq(Theme!Themes) /\ Head(pending) \in Theme!Themes
      /\ pending' \in Seq(Theme!Themes) /\ Len(pending') = Len(pending) - 1
      /\ Head(pending) = pending[1] /\ Len(pending) \in Nat \ {0}
  BY <1>1 DEF ThemeInv, Theme!TypeOK
<1>3. html' \in Theme!Html /\ html'.theme = Head(pending)
  BY <1>1, <1>2, HtmlTyped DEF ThemeInv, Theme!TypeOK
<1>4. stored' \in Theme!Themes \cup {NoChoice}
      /\ (browser.storage => stored' = Head(pending))
  BY <1>1, <1>2 DEF Theme!Write, ThemeInv, Theme!TypeOK
<1>5. Theme!TypeOK'
  <2>1. playing' \in Nat /\ Len(pending') <= playing'
    BY <1>1, <1>2 DEF ThemeInv, Theme!TypeOK
  <2> QED
    BY <1>1, <1>2, <1>3, <1>4, <2>1, Zenon DEF ThemeInv, Theme!TypeOK
<1>6. PendingIsChosen'
  <2>1. pending' # <<>> => pending'[Len(pending')] = pending[Len(pending)]
    BY <1>1, <1>2
  <2> QED
    BY <1>1, <2>1 DEF ThemeInv, PendingIsChosen
<1>7. ChoiceIsKept'
  <2>1. ASSUME pending' = <<>>
        PROVE  Head(pending) = pending[Len(pending)]
    <3>1. Len(pending') = 0
      BY <2>1
    <3>2. Len(pending) = 1
      BY <1>2, <3>1
    <3> QED
      BY <1>2, <3>2, Zenon
  <2> QED
    BY <1>1, <1>3, <1>4, <2>1 DEF ThemeInv, PendingIsChosen, ChoiceIsKept,
                                  Theme!ChoiceIsKept
<1> QED
  BY <1>5, <1>6, <1>7 DEF ThemeInv

\* The classes of a transition say nothing of the theme.
LEMMA ClassesInv ==
  ASSUME ThemeInv, Theme!TimerFires \/ Theme!Finished
  PROVE  ThemeInv'
<1>1. /\ html' \in {[html EXCEPT !.transition = FALSE], [html EXCEPT !.reveal = FALSE]}
      /\ UNCHANGED <<browser, system, stored, pending, hydrated, clicks, choice>>
      /\ timer' \in {timer, FALSE}
      /\ playing' = playing \/ (playing > Len(pending) /\ playing' = playing - 1)
  BY DEF Theme!TimerFires, Theme!Finished
<1>2. html \in Theme!Html /\ "light" \in Theme!Themes
  BY DEF ThemeInv, Theme!TypeOK, Theme!Themes
<1>3. html' \in Theme!Html /\ html'.theme = html.theme
  BY <1>1, <1>2, HtmlTyped
<1>4. Theme!TypeOK'
  <2>1. Len(pending) \in Nat
    BY DEF ThemeInv, Theme!TypeOK
  <2>2. playing' \in Nat /\ Len(pending') <= playing'
    BY <1>1, <2>1 DEF ThemeInv, Theme!TypeOK
  <2>3. timer' \in BOOLEAN
    BY <1>1, Zenon DEF ThemeInv, Theme!TypeOK
  <2> QED
    BY <1>1, <1>3, <2>2, <2>3, Zenon DEF ThemeInv, Theme!TypeOK
<1> QED
  BY <1>1, <1>3, <1>4 DEF ThemeInv, PendingIsChosen, ChoiceIsKept, Theme!ChoiceIsKept

\* A page that is loaded shows what is stored.
LEMMA ReloadInv ==
  ASSUME ThemeInv, Theme!Reload
  PROVE  ThemeInv'
<1>1. /\ html' = Theme!Parsed(Theme!ScriptTheme(browser, stored, system))
      /\ pending' = <<>> /\ playing' = 0 /\ timer' = FALSE /\ hydrated' = FALSE
      /\ choice' = (IF pending = <<>> THEN choice ELSE stored)
      /\ UNCHANGED <<browser, system, stored, clicks>>
  BY DEF Theme!Reload
<1>2. html' \in Theme!Html /\ html'.theme = Theme!ScriptTheme(browser, stored, system)
  BY <1>1, ScriptTyped DEF ThemeInv, Theme!TypeOK
<1>3. pending' \in Seq(Theme!Themes) /\ Len(pending') = 0
  BY <1>1
<1>4. Theme!TypeOK'
  <2>1. /\ playing' \in Nat /\ Len(pending') <= playing'
        /\ choice' \in Theme!Themes \cup {NoChoice}
    BY <1>1, <1>3 DEF ThemeInv, Theme!TypeOK
  <2> QED
    BY <1>1, <1>2, <1>3, <2>1, Zenon DEF ThemeInv, Theme!TypeOK
<1>5. browser.storage => stored = choice'
  BY <1>1 DEF ThemeInv, ChoiceIsKept, Theme!ChoiceIsKept
<1>6. ChoiceIsKept'
  BY <1>1, <1>2, <1>5 DEF ChoiceIsKept, Theme!ChoiceIsKept, Theme!ScriptTheme
<1> QED
  BY <1>1, <1>4, <1>6 DEF ThemeInv, PendingIsChosen

\* The theme is touched by the theme's own actions and by a reload.
LEMMA SiteStepsTheme == ThemeInv /\ [SiteNext]_siteVars => ThemeInv'
<1> SUFFICES ASSUME ThemeInv, [SiteNext]_siteVars PROVE ThemeInv'
  OBVIOUS
<1>1. ASSUME UNCHANGED themeVars
      PROVE  ThemeInv'
  BY <1>1 DEF themeVars, ThemeInv, Theme!TypeOK, PendingIsChosen, ChoiceIsKept,
              Theme!ChoiceIsKept
<1>2. CASE Theme!Progress
  BY <1>2, HydrateInv, CallbackInv, ClassesInv DEF Theme!Progress
<1>3. CASE Theme!Toggle
  BY <1>3, ToggleAtOnceInv, ToggleWithRevealInv DEF Theme!Toggle
<1>4. CASE Theme!SystemChanges
  <2>1. system' \in Theme!Themes
        /\ UNCHANGED <<browser, stored, html, pending, playing, timer, hydrated, clicks, choice>>
    BY <1>4 DEF Theme!SystemChanges, Theme!Opposite, Theme!Themes
  <2> QED
    BY <2>1 DEF ThemeInv, Theme!TypeOK, PendingIsChosen, ChoiceIsKept, Theme!ChoiceIsKept
<1>5. CASE Reload
  BY <1>5, ReloadInv DEF Reload
<1>6. CASE UNCHANGED siteVars
  BY <1>1, <1>6 DEF siteVars
<1>7. CASE Disclose \/ Escape \/ Commit \/ \E link \in Links : Follow(link)
  BY <1>1, <1>7 DEF Disclose, Escape, Commit, Follow
<1>8. ASSUME NEW r \in Runs,
             InSim(HandleRun(r)) \/ InSim(Accept(r)) \/ InSim(Vanish(r))
             \/ InSim(Progress(r))
      PROVE  ThemeInv'
  BY <1>1, <1>8 DEF InSim
<1> QED
  BY <1>2, <1>3, <1>4, <1>5, <1>6, <1>7, <1>8 DEF SiteNext, InTheme

(***************************************************************************)
(* Where storage works, the theme of the last click, and no other, is      *)
(* stored and shown, whatever is reloaded, clicked quickly or followed     *)
(* meanwhile (theme.ts applyTheme persist, THEME_INIT_SCRIPT).             *)
(***************************************************************************)
THEOREM SiteKeepsChoice == SiteSpec => []ChoiceIsKept
<1>1. SiteInit => ThemeInv
  BY ThemeInitInv DEF SiteInit
<1>2. ThemeInv => ChoiceIsKept
  BY DEF ThemeInv
<1> QED
  BY <1>1, <1>2, SiteStepsTheme, PTL DEF SiteSpec

-----------------------------------------------------------------------------
\* Every step of the site keeps the navigation bar in step with the page.
LEMMA SiteStepsNav == NavInv /\ [SiteNext]_siteVars => NavInv'
<1> SUFFICES ASSUME NavInv, [SiteNext]_siteVars PROVE NavInv'
  OBVIOUS
<1>1. CASE UNCHANGED navVars
  BY <1>1 DEF navVars, NavInv
<1>2. ASSUME NEW link \in Links, Follow(link)
      PROVE  NavInv'
  BY <1>2 DEF Follow, NavInv, Links, Paths
<1>3. CASE Disclose \/ Escape \/ Commit \/ Reload
  BY <1>3 DEF Disclose, Escape, Commit, Rendered, Reload, NavInv
<1> QED
  BY <1>1, <1>2, <1>3 DEF SiteNext, InSim, InTheme, siteVars

\* Of the links that are no anchors one leads to each path.
LEMMA OneLinkPerPath ==
  ASSUME pathname \in Paths
  PROVE  Cardinality(Current) = 1
<1>1. Current = {[path |-> pathname, anchor |-> FALSE]}
  BY DEF Current, IsActive, Links, Paths
<1> QED
  BY <1>1, FS_Singleton

(***************************************************************************)
(* The mobile panel is open only on the page it was opened on, and exactly *)
(* one link is marked (nav.tsx lastPath, isActive).                        *)
(***************************************************************************)
THEOREM NavBelongsToPage == SiteSpec => []NavIsOfPage
<1>1. SiteInit => NavInv
  BY DEF SiteInit, NavInv, Paths
<1>2. NavInv => NavIsOfPage
  BY OneLinkPerPath DEF NavInv, NavIsOfPage
<1> QED
  BY <1>1, <1>2, SiteStepsNav, PTL DEF SiteSpec
=============================================================================
