-------------------------------- MODULE Panels --------------------------------
(***************************************************************************)
(* What the panels of the two pages show of the poll behind them.  Only    *)
(* the early returns and the conditions are kept: a list or a set of       *)
(* numbers is the version of the state it was read from, and version 0 is  *)
(* a backend with no rules, no jobs and no sends.                          *)
(***************************************************************************)
EXTENDS UsePoll, FiniteSetsExt

\* The skeletons of a first poll.
Waiting(st) == st.loading /\ st.data = None

\* The early returns of RulesTable, in their order, and the rows.
RulesTable(st) ==
  CASE Waiting(st) -> "skeleton"
    [] ~Waiting(st) /\ st.data = None /\ st.error # "none" -> "banner"
    [] ~Waiting(st) /\ st.data = None /\ st.error = "none" -> "empty"
    [] st.data # None -> IF st.data = 0 THEN "empty" ELSE "rows"

\* ActivityFeed returns early in the same cases.
ActivityFeed(st) == RulesTable(st)

\* The banners of the dashboard.
BackendDown(st) == st.error # "none" /\ st.data = None
LastReadingShown(st) == st.error # "none" /\ st.data # None

\* Its four cards: s?.[key] ?? 0 is 0 without a reading.
StatCards(st) ==
  IF Waiting(st) THEN "skeleton" ELSE IF st.data = None THEN "zeros" ELSE "numbers"

\* The cards of the landing page, which come with a banner of their own.
LiveStats(st) ==
  IF Waiting(st) THEN "skeleton"
  ELSE IF st.data = None THEN "banner"
  ELSE IF st.error # "none" THEN "last good reading" ELSE "numbers"

\* The figures of the internals, and the caption of the header.
Metric(st) == IF st.data = None THEN "dash" ELSE "number"
Header(st) == IF st.updatedAt THEN "updated" ELSE "connecting"

\* Two captions that also stand without a reading: the oldest unconfirmed 202,
\* and how many jobs are shown.
OldestUnconfirmed(st) == IF st.data \in {None, 0} THEN "none outstanding" ELSE "age"
JobsShown(st) == IF st.data = None THEN 0 ELSE st.data

Ours == 9             \* budget?.max ?? 9
PlatformLimit == 10

\* The slots of the meter; without a budget none is shown as used.
RateMeter(st) ==
  LET used == IF st.data = None THEN 0 ELSE Min({st.data, Ours})
  IN  [i \in 1 .. Max({Ours, PlatformLimit}) |->
        IF i > Ours THEN "forfeited" ELSE IF i <= used THEN "used" ELSE "free"]
=============================================================================
