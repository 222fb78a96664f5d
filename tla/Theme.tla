-------------------------------- MODULE Theme --------------------------------
(***************************************************************************)
(* The theme of a page: the attribute data-theme of <html>, written by the *)
(* script in the head, by the layout effect of the toggle and by the       *)
(* toggle itself, and the choice kept in localStorage.  With the View      *)
(* Transitions API the browser calls back later to apply a toggle.         *)
(***************************************************************************)
EXTENDS Naturals, Sequences

CONSTANTS
  NoChoice,     \* localStorage holds no theme
  MaxToggles    \* bound: clicks on the toggle

VARIABLES
  browser,    \* storage: localStorage works; mode: how a toggle is shown
  system,     \* prefers-color-scheme
  stored,     \* THEME_STORAGE_KEY in localStorage
  html,       \* data-theme, and the classes of a transition
  pending,    \* view transitions: the themes whose callback is yet to run
  playing,    \* how many transitions are not finished
  timer,      \* transitionTimer is set
  hydrated,   \* the layout effect of the toggle has run on this page
  clicks,     \* history: how many
  choice      \* history: the theme the last click asked for

themeVars ==
  <<browser, system, stored, html, pending, playing, timer, hydrated, clicks, choice>>

Themes == {"light", "dark"}
Opposite(theme) == IF theme = "dark" THEN "light" ELSE "dark"

\* View transitions, the timed fallback, or nothing for reduced motion.
Modes == {"reveal", "fallback", "still"}

Html == [theme : Themes, reveal : BOOLEAN, transition : BOOLEAN]

\* getStoredTheme and resolveTheme: storage that throws counts as no choice.
StoredTheme == IF browser.storage THEN stored ELSE NoChoice
ResolvedTheme == IF StoredTheme = NoChoice THEN system ELSE StoredTheme

\* The script: when storage throws it does not get to ask for the system's.
ScriptTheme(b, s, sys) ==
  IF ~b.storage THEN "light" ELSE IF s = NoChoice THEN sys ELSE s

Parsed(theme) == [theme |-> theme, reveal |-> FALSE, transition |-> FALSE]

Init ==
  /\ browser \in [storage : BOOLEAN, mode : Modes]
  /\ system \in Themes
  /\ stored = NoChoice
  /\ html = Parsed(ScriptTheme(browser, stored, system))
  /\ pending = <<>> /\ playing = 0 /\ timer = FALSE
  /\ hydrated = FALSE
  /\ clicks = 0 /\ choice = NoChoice

-----------------------------------------------------------------------------
\* Mutant: persist is the default.
WriteAlways(theme, persist) == IF browser.storage THEN theme ELSE stored

\* What localStorage holds after applyTheme; a throw is swallowed.
Write(theme, persist) == IF persist /\ browser.storage THEN theme ELSE stored

\* The layout effect of the toggle: applyTheme(resolveTheme()).
Hydrate ==
  /\ ~hydrated /\ hydrated' = TRUE
  /\ html' = [html EXCEPT !.theme = ResolvedTheme]
  /\ stored' = Write(ResolvedTheme, FALSE)
  /\ UNCHANGED <<browser, system, pending, playing, timer, clicks, choice>>

Clicked ==
  /\ hydrated /\ clicks < MaxToggles
  /\ clicks' = clicks + 1
  /\ choice' = Opposite(html.theme)

\* Mutant: transitionTimer is taken for a timer that is still running.
ToggleTimedOnce ==
  /\ browser.mode # "reveal" /\ Clicked
  /\ html' = [html EXCEPT !.theme = choice', !.transition = browser.mode = "fallback"]
  /\ stored' = Write(choice', TRUE)
  /\ timer' = IF clicks = 0 THEN browser.mode = "fallback" ELSE timer
  /\ UNCHANGED <<browser, system, pending, playing, hydrated>>

\* runFallbackTransition: apply at once; the class goes with the last timer.
ToggleAtOnce ==
  /\ browser.mode # "reveal" /\ Clicked
  /\ html' = [html EXCEPT !.theme = choice', !.transition = browser.mode = "fallback"]
  /\ stored' = Write(choice', TRUE)
  /\ timer' = (browser.mode = "fallback")
  /\ UNCHANGED <<browser, system, pending, playing, hydrated>>

TimerFires ==
  /\ timer /\ timer' = FALSE
  /\ html' = [html EXCEPT !.transition = FALSE]
  /\ UNCHANGED <<browser, system, stored, pending, playing, hydrated, clicks, choice>>

\* toggleThemeWithReveal up to startViewTransition, which calls back later.
ToggleWithReveal ==
  /\ browser.mode = "reveal" /\ Clicked
  /\ html' = [html EXCEPT !.reveal = TRUE]
  /\ pending' = Append(pending, choice')
  /\ playing' = playing + 1
  /\ UNCHANGED <<browser, system, stored, timer, hydrated>>

\* The browser takes its snapshot and calls back: applyTheme(next, true).
Callback ==
  /\ pending # <<>>
  /\ html' = [html EXCEPT !.theme = Head(pending)]
  /\ stored' = Write(Head(pending), TRUE)
  /\ pending' = Tail(pending)
  /\ UNCHANGED <<browser, system, playing, timer, hydrated, clicks, choice>>

\* A transition is finished, or was skipped for a later one: the class goes,
\* even when a later transition is still playing.
Finished ==
  /\ playing > Len(pending)
  /\ playing' = playing - 1
  /\ html' = [html EXCEPT !.reveal = FALSE]
  /\ UNCHANGED <<browser, system, stored, pending, timer, hydrated, clicks, choice>>

\* The page is loaded anew: what was pending is lost with it.
Reload ==
  /\ hydrated
  /\ html' = Parsed(ScriptTheme(browser, stored, system))
  /\ pending' = <<>> /\ playing' = 0 /\ timer' = FALSE
  /\ hydrated' = FALSE
  /\ choice' = IF pending = <<>> THEN choice ELSE stored
  /\ UNCHANGED <<browser, system, stored, clicks>>

\* The visitor's system changes to its other scheme; nothing listens.
SystemChanges ==
  /\ system' = Opposite(system)
  /\ UNCHANGED <<browser, stored, html, pending, playing, timer, hydrated, clicks, choice>>

Progress == Hydrate \/ TimerFires \/ Callback \/ Finished

Toggle == ToggleAtOnce \/ ToggleWithReveal

Next == Progress \/ Toggle \/ Reload \/ SystemChanges
Spec == Init /\ [][Next]_themeVars /\ WF_themeVars(Progress)

-----------------------------------------------------------------------------
TypeOK ==
  /\ browser \in [storage : BOOLEAN, mode : Modes]
  /\ system \in Themes /\ stored \in Themes \cup {NoChoice}
  /\ html \in Html
  /\ pending \in Seq(Themes) /\ playing \in Nat /\ Len(pending) <= playing
  /\ timer \in BOOLEAN /\ hydrated \in BOOLEAN
  /\ clicks \in 0 .. MaxToggles /\ choice \in Themes \cup {NoChoice}

(***************************************************************************)
(* Where storage works, it holds what the last click asked for, and nothing*)
(* when there was none, and the page shows it, before and after a reload,  *)
(* once the browser has called back.  In particular no page load records a *)
(* theme as if it had been chosen, and a visitor who never clicked goes on *)
(* following the system (theme.ts THEME_INIT_SCRIPT, applyTheme persist).  *)
(***************************************************************************)
ChoiceIsKept ==
  browser.storage /\ pending = <<>> =>
    /\ stored = choice
    /\ choice # NoChoice => html.theme = choice

(***************************************************************************)
(* The classes that animate every element are taken off again, however     *)
(* fast the toggle is clicked and whatever is skipped (theme.ts            *)
(* transitionTimer, toggleThemeWithReveal).                                *)
(***************************************************************************)
TransitionsEnd == []<>(~html.reveal /\ ~html.transition)
=============================================================================
