--------------------------------- MODULE Site ---------------------------------
(***************************************************************************)
(* One tab of the website: the navigation bar of every page, its theme     *)
(* toggle, and the simulation panel of the dashboard.  A link mounts and   *)
(* unmounts the panel; a reload starts everything anew but what the        *)
(* browser stores and what the backend has been asked.                     *)
(***************************************************************************)
EXTENDS SimPanel, Sequences

CONSTANTS NoChoice, MaxToggles,
  MaxEvents   \* bound: links, reloads and changes of the system's scheme

ASSUME SiteAssumption == MaxToggles \in Nat /\ MaxEvents \in Nat

VARIABLES
  browser, system, stored, html, pending, playing, timer, hydrated, clicks, choice,
  pathname,   \* usePathname: what the router has committed
  heading,    \* the path a link leads to, until the router commits it
  open,       \* the mobile panel is disclosed
  openedOn,   \* history: the path it was disclosed on
  events

Theme == INSTANCE Theme

themeVars ==
  <<browser, system, stored, html, pending, playing, timer, hydrated, clicks, choice>>
navVars == <<pathname, heading, open, openedOn>>
siteVars == <<simVars, themeVars, navVars, events>>

\* LINKS: an anchor shares the path of the landing page.
Paths == {"/", "/dashboard"}
Links == {[path |-> "/", anchor |-> FALSE], [path |-> "/dashboard", anchor |-> FALSE],
          [path |-> "/", anchor |-> TRUE]}

Happens == events < MaxEvents /\ events' = events + 1

SiteInit ==
  /\ Init /\ Theme!Init
  /\ pathname = "/dashboard" /\ heading = "/dashboard"
  /\ open = FALSE /\ openedOn = None
  /\ events = 0

-----------------------------------------------------------------------------
(* Nav *)

\* An anchor is no page of its own.
IsActive(link) == ~link.anchor /\ pathname = link.path
Current == {link \in Links : IsActive(link)}

\* setOpen((v) => !v)
Disclose ==
  /\ open' = ~open
  /\ openedOn' = IF open THEN None ELSE pathname
  /\ UNCHANGED <<simVars, themeVars, pathname, heading, events>>

\* The listener is there while the panel is open.
Escape ==
  /\ open /\ open' = FALSE /\ openedOn' = None
  /\ UNCHANGED <<simVars, themeVars, pathname, heading, events>>

\* A link asks the router for its path; the panel stays as it is until then.
Follow(link) ==
  /\ Happens
  /\ heading' = link.path
  /\ UNCHANGED <<simVars, themeVars, pathname, open, openedOn>>

\* Mutant: a new path does not close the panel.
RenderedOpen == UNCHANGED <<open, openedOn>>

\* A render with a path other than lastPath.
Rendered == open' = FALSE /\ openedOn' = None

\* The router commits the new path: a page goes, another one comes.
Commit ==
  /\ heading # pathname /\ pathname' = heading
  /\ Rendered
  /\ IF pathname = "/dashboard" THEN Unmount ELSE Mount
  /\ UNCHANGED <<themeVars, heading, events>>

\* The browser drops the page, with all of its state, and loads it again.
Reload ==
  /\ Happens
  /\ Theme!Reload
  /\ heading' = pathname /\ open' = FALSE /\ openedOn' = None
  /\ IF Mounted THEN Remount ELSE UNCHANGED simVars
  /\ UNCHANGED pathname

-----------------------------------------------------------------------------
InSim(A) == A /\ UNCHANGED <<themeVars, navVars, events>>
InTheme(A) == A /\ UNCHANGED <<simVars, navVars, events>>

SiteNext ==
  \/ \E r \in Runs : InSim(HandleRun(r)) \/ InSim(Accept(r)) \/ InSim(Vanish(r))
                     \/ InSim(Progress(r))
  \/ InTheme(Theme!Progress) \/ InTheme(Theme!Toggle)
  \/ Happens /\ Theme!SystemChanges /\ UNCHANGED <<simVars, navVars>>
  \/ Disclose \/ Escape \/ Commit \/ Reload
  \/ \E link \in Links : Follow(link)

SiteSpec == SiteInit /\ [][SiteNext]_siteVars

\* Timers fire, the browser calls back, and requests meet an answer or a timer.
SiteLiveSpec ==
  /\ SiteSpec
  /\ \A r \in Runs : WF_siteVars(InSim(Progress(r)))
  /\ WF_siteVars(InTheme(Theme!Progress))

-----------------------------------------------------------------------------
SiteTypeOK ==
  /\ TypeOK /\ Theme!TypeOK
  /\ pathname \in Paths /\ heading \in Paths
  /\ open \in BOOLEAN /\ openedOn \in Paths \cup {None}
  /\ events \in 0 .. MaxEvents

(***************************************************************************)
(* The mobile panel never hangs over a page it was not opened on, even if  *)
(* it is opened between the click on a link and the page it leads to, and  *)
(* always exactly one link is marked as the current page (nav.tsx lastPath,*)
(* isActive).                                                              *)
(***************************************************************************)
NavIsOfPage ==
  /\ open => openedOn = pathname
  /\ Cardinality(Current) = 1

(***************************************************************************)
(* The theme of the last click, and no other, is stored, and it is shown   *)
(* on every page that is opened after it (theme.ts applyTheme persist,     *)
(* THEME_INIT_SCRIPT, resolveTheme).                                       *)
(***************************************************************************)
ChoiceIsKept == Theme!ChoiceIsKept

(***************************************************************************)
(* The classes of a theme transition always go again (theme.ts             *)
(* transitionTimer, toggleThemeWithReveal).                                *)
(***************************************************************************)
TransitionsEnd == Theme!TransitionsEnd
=============================================================================
