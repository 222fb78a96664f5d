----------------------- MODULE MatcherRefinement_proofs -----------------------
(***************************************************************************)
(* Matcher implements Obligations, for any feed, any rules and any matches *)
(* of rules and comments.                                                  *)
(*                                                                         *)
(* A run of a comment reads the rules once.  All that stood since before   *)
(* the run are among those it read (RunKnows), and what stands while it    *)
(* works stood before; so when it stamps the event it has paid them all.   *)
(* Nothing of this is disturbed by other steps: rules that stood only get  *)
(* fewer, rows stay, tombstones stay.                                      *)
(***************************************************************************)
EXTENDS MatcherRefinement, Matcher_proofs

\* The history is of the rules: only those that exist and match.
StandingOK ==
  /\ standing \in [Events -> SUBSET Rules]
  /\ \A e \in Events : standing[e] \subseteq rules \cap Matches[About[e]]
  /\ \A e \in Events \ Arrived : standing[e] = {}

\* A tombstone is not dated after what has arrived.
TombstonesDated ==
  \A c \in Comments : Buried(c) => deletedAt[c] <= Cardinality(Arrived)

\* What a run knows of the rules that stand.
RunKnows(h) ==
  h.pc # "idle" =>
    /\ h.todo \subseteq h.matched /\ h.matched \subseteq Matches[About[h.event]]
    /\ h.pc = "ensuring" => standing[h.event] \subseteq h.matched
    /\ h.pc = "marking" /\ Type[h.event] = "created" =>
         Buried(About[h.event]) \/ standing[h.event] \subseteq h.matched

RunsKnow == \A x \in Handlers : RunKnows(handler[x])

StampedIsServed ==
  \A e \in processed : Type[e] = "created" /\ ~Buried(About[e]) =>
    \A r \in standing[e] : Paid(r, e)

HistoryInv ==
  /\ MatchInv
  /\ StandingOK /\ TombstonesDated /\ RunsKnow /\ StampedIsServed

-----------------------------------------------------------------------------
\* What every step leaves: rows and tombstones stay, rules and events do not
\* change together, and a tombstone that is set is dated now.
Growing ==
  /\ RowsKept
  /\ \A e \in Arrived : e \in Arrived' /\ received'[e] = received[e]
  /\ \A c \in Comments : Buried(c) => deletedAt'[c] = deletedAt[c]
  /\ \A c \in Comments : ~Buried(c) /\ deletedAt'[c] # Null =>
       deletedAt'[c] = Cardinality(Arrived)
  /\ UNCHANGED rules \/ UNCHANGED received
  /\ deletedAt' \in [Comments -> {Null} \cup (1 .. Cardinality(Events))]

\* A step of a handler is such a step.
LEMMA HandleGrows ==
  ASSUME MatchInv, NEW x \in Handlers, Handle(x) \/ HandlerFails(x)
  PROVE  Growing
<1> USE DEF Growing, tables, done, webhook, loop
<1>1. /\ handler \in [Handlers -> Handler] /\ jobs \in [Jobs -> Row]
      /\ deletedAt \in [Comments -> {Null} \cup (1 .. Cardinality(Events))]
      /\ HandlerOK(handler[x])
  BY DEF MatchInv, TypeOK, HandlersAreOK
<1>2. UNCHANGED received
  BY DEF Handle, HandlerFails
<1>3. ASSUME UNCHANGED deletedAt, RowsKept
      PROVE  Growing
  BY <1>1, <1>2, <1>3 DEF Arrived, Buried
<1>4. CASE ReadTombstone(x) \/ ReadRules(x) \/ MarkProcessed(x) \/ HandlerFails(x)
  <2>1. UNCHANGED <<jobs, deletedAt>>
    BY <1>4 DEF ReadTombstone, ReadRules, MarkProcessed, HandlerFails, Fail
  <2> QED
    BY <1>3, <2>1, SameRowsKept
<1>5. ASSUME NEW r \in Rules, EnsureObligation(x, r)
      PROVE  Growing
  <2>1. RowsKept
    <3>1. CASE InsertJob(r, Comment(x))
      BY <1>1, <3>1 DEF InsertJob, InStatus, RowsKept
    <3>2. CASE UNCHANGED jobs
      BY <3>2, SameRowsKept
    <3> QED
      BY <1>5, <3>1, <3>2 DEF EnsureObligation
  <2> QED
    BY <1>3, <1>5, <2>1 DEF EnsureObligation
<1>6. CASE AddTombstone(x)
  <2>1. PICK c \in Comments : c = Comment(x)
    BY <1>1, <1>6, EventsTyped DEF AddTombstone, HandlerOK, Arrived, Comment
  <2>2. Arrived # {}
    BY <1>1, <1>6 DEF AddTombstone, HandlerOK
  <2>3. Cardinality(Arrived) \in 1 .. Cardinality(Events)
    BY <2>2, ArrivedIsFinite
  <2>4. /\ RowsKept
        /\ deletedAt' = [deletedAt EXCEPT ![c] =
                           IF @ = Null THEN Cardinality(Arrived) ELSE @]
    BY <1>6, <2>1, SameRowsKept DEF AddTombstone
  <2> QED
    BY <1>1, <1>2, <2>1, <2>3, <2>4 DEF Arrived, Buried
<1>7. CASE CancelQueued(x)
  <2>1. RowsKept
    BY <1>1, <1>7 DEF CancelQueued, CancelJobs, CancelRows, RowsKept, Row
  <2> QED
    BY <1>3, <1>7, <2>1 DEF CancelQueued
<1> QED
  BY <1>4, <1>5, <1>6, <1>7 DEF Handle

\* So is every other one.
LEMMA StepGrows ==
  ASSUME MatchInv, Next
  PROVE  Growing
<1> USE DEF Growing, tables, done, webhook, loop, intakeVars
<1>1. /\ jobs \in [Jobs -> Row] /\ received \in [Events -> 0 .. Cardinality(Events)]
      /\ deletedAt \in [Comments -> {Null} \cup (1 .. Cardinality(Events))]
  BY DEF MatchInv, TypeOK
<1>2. ASSUME UNCHANGED <<received, deletedAt>>, RowsKept
      PROVE  Growing
  BY <1>1, <1>2 DEF Arrived, Buried
<1>3. ASSUME NEW e \in Events, Receive(e)
      PROVE  Growing
  <2>1. RowsKept /\ UNCHANGED <<rules, deletedAt>>
    BY <1>3, SameRowsKept DEF Receive
  <2>2. \A f \in Arrived : f \in Arrived' /\ received'[f] = received[f]
    BY <1>1, <1>3 DEF Receive, Arrived
  <2> QED
    BY <1>1, <2>1, <2>2 DEF Buried
<1>4. CASE \/ \E e \in Events : Redelivery(e) \/ NextFetched(e)
           \/ BumpSuppressed \/ Sweep \/ Booted \/ Crash
  <2>1. UNCHANGED <<jobs, received, deletedAt>>
    BY <1>4 DEF Redelivery, NextFetched, BumpSuppressed, Sweep, Booted, Crash
  <2> QED
    BY <1>2, <2>1, SameRowsKept
<1>5. CASE RulesApi
  BY <1>2, <1>5, SameRowsKept DEF RulesApi, AddRule, RemoveRule
<1>6. ASSUME NEW J \in SUBSET Jobs, NEW status \in Statuses, Delivery(J, status)
      PROVE  Growing
  <2>1. status # "ABSENT" /\ \A j \in J : jobs[j].status # "ABSENT"
    BY <1>6 DEF Delivery, Moves
  <2>2. RowsKept
    BY <1>6, <2>1, RestatusKept DEF Delivery
  <2> QED
    BY <1>2, <1>6, <2>2 DEF Delivery
<1> QED
  BY <1>3, <1>4, <1>5, <1>6, HandleGrows DEF Next

\* What stood before a step and still does is what it leaves standing.
LEMMA StandingShrinks ==
  ASSUME MatchInv, MatchInv', StandingOK, Observe, Growing
  PROVE  /\ StandingOK'
         /\ \A e \in Arrived : standing'[e] \subseteq standing[e]
         /\ UNCHANGED <<rules, received>> => UNCHANGED standing
<1>1. /\ rules' \in SUBSET Rules /\ rules \in SUBSET Rules
      /\ standing \in [Events -> SUBSET Rules]
  BY DEF MatchInv, TypeOK, StandingOK
<1>2. \A e \in Events : Matches[About[e]] \in SUBSET Rules
  BY EventsTyped, EventAssumption
<1>3. standing' \in [Events -> SUBSET Rules]
  BY <1>1, <1>2 DEF Observe
<1>4. \A e \in Arrived : standing'[e] = standing[e] \cap rules'
  BY DEF Observe, Arrived
<1>5. \A e \in Events \ Arrived :
        standing'[e] = IF received'[e] # 0 THEN rules \cap Matches[About[e]] ELSE {}
  BY DEF Observe
<1>6. \A e \in Events \ Arrived : received'[e] # 0 => UNCHANGED rules
  BY DEF Growing, Arrived
<1>7. \A e \in Events : standing'[e] \subseteq rules' \cap Matches[About[e]]
  <2> SUFFICES ASSUME NEW e \in Events
               PROVE  standing'[e] \subseteq rules' \cap Matches[About[e]]
    OBVIOUS
  <2>1. CASE e \in Arrived
    BY <1>4, <2>1 DEF StandingOK
  <2>2. CASE e \notin Arrived
    BY <1>5, <1>6, <2>2
  <2> QED
    BY <2>1, <2>2
<1>8. \A e \in Events : received'[e] = 0 => standing'[e] = {}
  <2> SUFFICES ASSUME NEW e \in Events, received'[e] = 0 PROVE standing'[e] = {}
    OBVIOUS
  <2>1. e \notin Arrived
    BY DEF Growing, Arrived
  <2> QED
    BY <1>5, <2>1
<1>9. StandingOK'
  BY <1>3, <1>7, <1>8 DEF StandingOK, Arrived
<1>10. ASSUME UNCHANGED <<rules, received>> PROVE UNCHANGED standing
  <2>1. \A e \in Arrived : standing'[e] = standing[e]
    <3>1. \A e \in Arrived : e \in Events
      BY DEF Arrived
    <3>2. \A e \in Arrived : standing[e] \cap rules' = standing[e]
      BY <1>10, <3>1 DEF StandingOK
    <3> QED
      BY <1>4, <3>2
  <2>2. \A e \in Events \ Arrived : standing'[e] = {} /\ standing[e] = {}
    BY <1>8, <1>10 DEF StandingOK, Arrived
  <2> QED
    BY <1>1, <1>3, <2>1, <2>2
<1> QED
  BY <1>4, <1>9, <1>10

\* A tombstone stays within what has arrived.
LEMMA DatesStay ==
  ASSUME MatchInv, MatchInv', TombstonesDated, Growing
  PROVE  TombstonesDated'
<1>1. /\ IsFiniteSet(Arrived) /\ Cardinality(Arrived) \in Nat
      /\ IsFiniteSet(Arrived') /\ Cardinality(Arrived') \in Nat
  <2>1. Arrived \subseteq Events /\ Arrived' \subseteq Events
    BY DEF Arrived
  <2> QED
    BY <2>1, EventAssumption, FS_Subset, FS_CardinalityType
<1>2. Cardinality(Arrived) <= Cardinality(Arrived')
  BY <1>1, FS_Subset DEF Growing
<1> SUFFICES ASSUME NEW c \in Comments, Buried(c)'
             PROVE  deletedAt'[c] <= Cardinality(Arrived')
  BY DEF TombstonesDated
<1>3. deletedAt'[c] \in Nat /\ deletedAt'[c] <= Cardinality(Arrived)
  BY <1>1 DEF Growing, TombstonesDated, Buried, MatchInv, TypeOK
<1> QED
  BY <1>1, <1>2, <1>3

-----------------------------------------------------------------------------
\* What a run knows stays true while others step.
LEMMA KnowsStill ==
  ASSUME HistoryInv, Growing, \A e \in Arrived : standing'[e] \subseteq standing[e],
         NEW x \in Handlers, handler'[x] = handler[x]
  PROVE  RunKnows(handler[x])'
<1> DEFINE h == handler[x]
<1>1. RunKnows(h) /\ HandlerOK(h)
  BY DEF HistoryInv, RunsKnow, MatchInv, HandlersAreOK
<1>2. CASE h.pc # "idle"
  <2>1. h.event \in Arrived /\ About[h.event] \in Comments
    BY <1>1, <1>2, EventsTyped DEF HandlerOK, Arrived
  <2>2. Buried(About[h.event]) => Buried(About[h.event])'
    BY <2>1 DEF Growing, Buried
  <2> QED
    BY <1>1, <2>1, <2>2 DEF RunKnows, Buried
<1> QED
  BY <1>2 DEF RunKnows

\* One run moves on and knows what it needs; the others know what they knew.
LEMMA KnowsMoves ==
  ASSUME HistoryInv, Growing, \A e \in Arrived : standing'[e] \subseteq standing[e],
         NEW x \in Handlers, NEW h \in Handler, handler' = [handler EXCEPT ![x] = h],
         RunKnows(h)'
  PROVE  RunsKnow'
<1>1. handler \in [Handlers -> Handler]
  BY DEF HistoryInv, MatchInv, TypeOK
<1>2. handler'[x] = h /\ \A y \in Handlers \ {x} : handler'[y] = handler[y]
  BY <1>1
<1>3. \A y \in Handlers \ {x} : RunKnows(handler[y])'
  BY <1>2, KnowsStill
<1>4. RunKnows(handler[x])'
  BY <1>2 DEF RunKnows, Buried
<1> QED
  BY <1>3, <1>4 DEF RunsKnow

\* A run that has just begun, or was given up, needs to know nothing.
LEMMA KnowsNothing ==
  /\ RunKnows(IdleHandler)'
  /\ \A e \in Events : RunKnows(Started(e))'
BY DEF RunKnows, IdleHandler, Started

\* A handler goes on, having read what stands, or paid for it.
LEMMA HandleKnows ==
  ASSUME HistoryInv, Growing, \A e \in Arrived : standing'[e] \subseteq standing[e],
         NEW x \in Handlers, Handle(x) \/ HandlerFails(x)
  PROVE  RunsKnow'
<1> DEFINE h == handler[x]
<1>1. /\ h \in Handler /\ handler \in [Handlers -> Handler] /\ HandlerOK(h) /\ RunKnows(h)
      /\ rules \in SUBSET Rules
  BY DEF HistoryInv, MatchInv, TypeOK, HandlersAreOK, RunsKnow
<1>2. CASE h.pc = "idle"
  BY <1>2 DEF Handle, HandlerFails, Fail, ReadTombstone, ReadRules, EnsureObligation,
              AddTombstone, CancelQueued, MarkProcessed
<1>3. ASSUME h.pc # "idle"
      PROVE  \E e \in Events : /\ e = h.event /\ e \in Arrived /\ About[e] \in Comments
                               /\ standing'[e] \subseteq standing[e]
                               /\ Buried(About[e]) => Buried(About[e])'
                               /\ standing[e] \subseteq rules \cap Matches[About[e]]
  <2>1. h.event \in Arrived /\ h.event \in Events
    BY <1>1, <1>3 DEF HandlerOK, Arrived
  <2> QED
    BY <2>1, EventsTyped DEF Growing, Buried, HistoryInv, StandingOK
<1>4. CASE End(x)
  BY <1>4, EventsTyped, KnowsNothing, KnowsMoves DEF End
<1>5. CASE ReadTombstone(x)
  <2>1. PICK e \in Events : /\ e = h.event
                            /\ Buried(About[e]) => Buried(About[e])'
    BY <1>3, <1>5 DEF ReadTombstone
  <2>2. PICK pc \in {"marking", "rules?"} :
          /\ pc = IF deletedAt[Comment(x)] = Null THEN "rules?" ELSE "marking"
    OBVIOUS
  <2>3. PICK n \in Handler : n = [h EXCEPT !.pc = pc]
    BY <1>1 DEF Handler, HandlerPCs
  <2>4. handler' = [handler EXCEPT ![x] = n]
    BY <1>1, <1>5, <2>2, <2>3 DEF ReadTombstone, Goto
  <2>5. n.event = e /\ n.matched = h.matched /\ n.todo = h.todo /\ n.pc = pc
    BY <1>1, <2>1, <2>3 DEF Handler
  <2>6. pc = "marking" => Buried(About[e])
    BY <2>1, <2>2 DEF Buried, Comment
  <2>7. h.pc # "idle"
    BY <1>5 DEF ReadTombstone
  <2>8. RunKnows(n)'
    BY <1>1, <2>1, <2>2, <2>5, <2>6, <2>7 DEF RunKnows
  <2> QED
    BY <2>4, <2>8, KnowsMoves
<1>6. CASE ReadRules(x)
  <2>1. PICK e \in Events : /\ e = h.event /\ standing'[e] \subseteq standing[e]
                            /\ standing[e] \subseteq rules \cap Matches[About[e]]
    BY <1>3, <1>6 DEF ReadRules
  <2>2. PICK matched \in SUBSET Rules : matched = rules \cap Matches[About[e]]
    BY <1>1
  <2>3. PICK n \in Handler :
          n = [h EXCEPT !.pc = IF matched = {} THEN "marking" ELSE "ensuring",
                        !.matched = matched, !.todo = matched]
    BY <1>1 DEF Handler, HandlerPCs
  <2>4. handler' = [handler EXCEPT ![x] = n]
    BY <1>1, <1>6, <2>1, <2>2, <2>3 DEF ReadRules, Comment
  <2>5. n.event = e /\ n.matched = matched /\ n.todo = matched
    BY <1>1, <2>1, <2>3 DEF Handler
  <2>6. RunKnows(n)'
    BY <2>1, <2>2, <2>5 DEF RunKnows
  <2> QED
    BY <2>4, <2>6, KnowsMoves
<1>7. ASSUME NEW r \in Rules, h.pc = "ensuring", NextRule(x, r)
      PROVE  RunsKnow'
  <2>1. PICK e \in Events : e = h.event /\ standing'[e] \subseteq standing[e]
    BY <1>3, <1>7
  <2>2. PICK n \in Handler :
          n = [h EXCEPT !.todo = @ \ {r},
                        !.pc = IF h.todo = {r} THEN "marking" ELSE "ensuring"]
    BY <1>1 DEF Handler, HandlerPCs
  <2>3. handler' = [handler EXCEPT ![x] = n]
    BY <1>1, <1>7, <2>2 DEF NextRule
  <2>4. n.event = e /\ n.matched = h.matched /\ n.todo = h.todo \ {r}
    BY <1>1, <2>1, <2>2 DEF Handler
  <2>5. /\ h.matched \subseteq Matches[About[e]] /\ standing[e] \subseteq h.matched
        /\ h.todo \subseteq h.matched
    BY <1>1, <1>7, <2>1 DEF RunKnows
  <2>6. RunKnows(n)'
    BY <2>1, <2>4, <2>5 DEF RunKnows
  <2> QED
    BY <2>3, <2>6, KnowsMoves
<1>8. CASE AddTombstone(x) \/ CancelQueued(x)
  <2>1. PICK e \in Events : e = h.event /\ Type[e] = "deleted"
    BY <1>1, <1>3, <1>8 DEF AddTombstone, CancelQueued, HandlerOK
  <2>2. PICK n \in Handler :
          n = [h EXCEPT !.pc = IF AddTombstone(x) THEN "cancelling" ELSE "marking"]
    BY <1>1 DEF Handler, HandlerPCs
  <2>3. handler' = [handler EXCEPT ![x] = n]
    BY <1>1, <1>8, <2>2 DEF AddTombstone, CancelQueued, Goto
  <2>4. /\ n.event = e /\ n.matched = h.matched /\ n.todo = h.todo
        /\ n.pc \in {"cancelling", "marking"}
    BY <1>1, <2>1, <2>2 DEF Handler
  <2>5. h.pc # "idle"
    BY <1>8 DEF AddTombstone, CancelQueued
  <2>6. RunKnows(n)'
    BY <1>1, <2>1, <2>4, <2>5 DEF RunKnows
  <2> QED
    BY <2>3, <2>6, KnowsMoves
<1> QED
  BY <1>4, <1>5, <1>6, <1>7, <1>8 DEF Handle, HandlerFails, Fail, EnsureObligation,
                                     MarkProcessed

\* Whatever else happens, the runs know what they need.
LEMMA StepKnows ==
  ASSUME HistoryInv, Growing, \A e \in Arrived : standing'[e] \subseteq standing[e], Next
  PROVE  RunsKnow'
<1> USE DEF intakeVars, tables, done, webhook, loop
<1>1. ASSUME UNCHANGED handler PROVE RunsKnow'
  BY <1>1, KnowsStill DEF RunsKnow
<1>2. ASSUME NEW e \in Events, Receive(e) \/ NextFetched(e) PROVE RunsKnow'
  <2>1. PICK x \in Handlers, n \in Handler :
          n = Started(e) /\ handler' = [handler EXCEPT ![x] = n]
    BY <1>2, EventsTyped DEF Receive, NextFetched
  <2>2. RunKnows(n)'
    BY <2>1, KnowsNothing
  <2> QED
    BY <2>1, <2>2, KnowsMoves
<1>3. CASE Crash
  BY <1>3 DEF Crash, RunsKnow, RunKnows, IdleHandler
<1>4. CASE \/ \E e \in Events : Redelivery(e)
           \/ BumpSuppressed \/ Sweep \/ Booted \/ RulesApi
           \/ \E J \in SUBSET Jobs, status \in Statuses : Delivery(J, status)
  BY <1>1, <1>4 DEF Redelivery, BumpSuppressed, Sweep, Booted, RulesApi, Delivery
<1> QED
  BY <1>2, <1>3, <1>4, HandleKnows DEF Next

\* An event is stamped by a run that has paid what stood when it began.
LEMMA StampedStays ==
  ASSUME HistoryInv, Growing, \A e \in Arrived : standing'[e] \subseteq standing[e], Next
  PROVE  StampedIsServed'
<1> USE DEF intakeVars, tables, done, webhook, loop
<1>1. processed \subseteq Arrived /\ Arrived \subseteq Events
  BY DEF HistoryInv, MatchInv, TypeOK, Arrived
<1>2. \A e \in Arrived : Buried(About[e]) => Buried(About[e])'
  BY <1>1, EventsTyped DEF Growing, Buried
<1>3. ASSUME NEW e \in Arrived,
             Type[e] = "created" /\ ~Buried(About[e]) => \A r \in standing[e] : Paid(r, e)
      PROVE  Type[e] = "created" /\ ~Buried(About[e])' =>
               \A r \in standing'[e] : Paid(r, e)'
  <2>1. \A r : Paid(r, e) => Paid(r, e)'
    BY PaidStays DEF Growing
  <2> QED
    BY <1>2, <1>3, <2>1
<1>4. \A e \in processed :
        Type[e] = "created" /\ ~Buried(About[e])' => \A r \in standing'[e] : Paid(r, e)'
  BY <1>1, <1>3 DEF HistoryInv, StampedIsServed
<1>5. CASE UNCHANGED processed
  BY <1>4, <1>5 DEF StampedIsServed, Buried
<1>6. ASSUME NEW x \in Handlers, MarkProcessed(x)
      PROVE  StampedIsServed'
  <2> DEFINE h == handler[x]
  <2>1. HandlerOK(h) /\ RunKnows(h) /\ h.pc = "marking" /\ h \in Handler
    BY <1>6 DEF HistoryInv, MatchInv, TypeOK, HandlersAreOK, RunsKnow, MarkProcessed
  <2>2. PICK e \in Arrived : e = h.event
    BY <2>1 DEF HandlerOK
  <2>3. \A r \in h.matched : Paid(r, e)
    BY <2>1, <2>2 DEF HandlerOK
  <2>4. Type[e] = "created" /\ ~Buried(About[e]) => \A r \in standing[e] : Paid(r, e)
    BY <2>1, <2>2, <2>3 DEF RunKnows
  <2>5. Type[e] = "created" /\ ~Buried(About[e])' => \A r \in standing'[e] : Paid(r, e)'
    BY <1>3, <2>4
  <2>6. processed' = processed \cup {e}
    BY <1>6, <2>2 DEF MarkProcessed
  <2> QED
    BY <1>4, <2>5, <2>6 DEF StampedIsServed, Buried
<1>7. ASSUME ~UNCHANGED processed
      PROVE  \E x \in Handlers : MarkProcessed(x)
  BY <1>7 DEF Next, Receive, Redelivery, NextFetched, BumpSuppressed, Handle, HandlerFails,
     Fail, ReadTombstone, ReadRules, EnsureObligation, AddTombstone, CancelQueued, Sweep,
     Booted, Crash, RulesApi, Delivery
<1> QED
  BY <1>5, <1>6, <1>7

\* The invariant holds at first.
LEMMA HistoryInitInv == HistoryInit => HistoryInv
<1> SUFFICES ASSUME HistoryInit PROVE HistoryInv
  OBVIOUS
<1>1. MatchInv
  BY InitInv DEF HistoryInit
<1>2. StandingOK /\ TombstonesDated /\ RunsKnow /\ StampedIsServed
  BY DEF HistoryInit, Init, StandingOK, TombstonesDated, RunsKnow, RunKnows, IdleHandler,
         StampedIsServed, Buried
<1> QED
  BY <1>1, <1>2 DEF HistoryInv

\* And every step keeps it.
LEMMA HistoryNextInv ==
  HistoryInv /\ [HistoryNext]_historyVars => HistoryInv'
<1> SUFFICES ASSUME HistoryInv, [HistoryNext]_historyVars PROVE HistoryInv'
  OBVIOUS
<1>1. CASE HistoryNext
  <2>1. MatchInv' /\ MatchInv /\ Growing
    BY <1>1, NextInv, StepGrows DEF HistoryInv, HistoryNext
  <2>2. StandingOK' /\ \A e \in Arrived : standing'[e] \subseteq standing[e]
    BY <1>1, <2>1, StandingShrinks DEF HistoryInv, HistoryNext
  <2>3. TombstonesDated'
    BY <2>1, DatesStay DEF HistoryInv
  <2>4. RunsKnow' /\ StampedIsServed'
    BY <1>1, <2>1, <2>2, StepKnows, StampedStays DEF HistoryNext
  <2> QED
    BY <2>1, <2>2, <2>3, <2>4 DEF HistoryInv
<1>2. CASE UNCHANGED historyVars
  <2>1. MatchInv'
    BY <1>2, NextInv DEF HistoryInv, historyVars
  <2>2. StandingOK' /\ TombstonesDated' /\ RunsKnow' /\ StampedIsServed'
    BY <1>2 DEF HistoryInv, historyVars, vars, tables, intakeVars, done, webhook, loop,
       StandingOK, TombstonesDated, RunsKnow, RunKnows, StampedIsServed, Buried, Arrived,
       Paid, IsFor
  <2> QED
    BY <2>1, <2>2 DEF HistoryInv
<1> QED
  BY <1>1, <1>2

-----------------------------------------------------------------------------
\* A step that adds no row leaves the same pairs.
LEMMA SamePairs ==
  ASSUME RowsKept, NoNewRow
  PROVE  PairsEver' = PairsEver
BY DEF RowsKept, NoNewRow, PairsEver, InStatus

\* Nothing of a promise changes: a stutter.
LEMMA Stutters ==
  ASSUME HistoryInv, HistoryInv', Growing, Observe, RowsKept, NoNewRow,
         UNCHANGED <<rules, received, deletedAt, processed>>
  PROVE  UNCHANGED O!obligationVars
<1>1. Arrived' = Arrived /\ PairsEver' = PairsEver
  BY SamePairs DEF Arrived
<1>2. Deleted' = Deleted /\ Heard' = Heard
  BY <1>1 DEF Deleted, Heard
<1>3. standing' = standing
  BY StandingShrinks DEF HistoryInv
<1> QED
  BY <1>1, <1>2, <1>3 DEF O!obligationVars

\* The upsert acknowledges; what arrives after a tombstone is not heard.
LEMMA ReceiveAcknowledges ==
  ASSUME HistoryInv, HistoryInv', Growing, Observe, NEW e \in Events, Receive(e)
  PROVE  O!Acknowledge(e)
<1> DEFINE now == Cardinality(Arrived)
<1> USE DEF tables, done, loop
<1>1. /\ received \in [Events -> 0 .. Cardinality(Events)]
      /\ received' = [received EXCEPT ![e] = now + 1] /\ received[e] = 0
      /\ UNCHANGED <<jobs, rules, deletedAt, processed>> /\ now \in Nat
  BY ArrivedIsFinite DEF HistoryInv, MatchInv, TypeOK, Receive
<1> HIDE DEF now
<1>2. e \notin Arrived /\ Arrived' = Arrived \cup {e}
  BY <1>1 DEF Arrived
<1>3. received'[e] = now + 1 /\ \A f \in Arrived : received'[f] = received[f]
  BY <1>1, <1>2 DEF Arrived
<1>4. PairsEver' = PairsEver /\ Deleted' = Deleted
  BY <1>1, SameRowsKept, SamePairs DEF Deleted
<1>5. About[e] \in Deleted => ~(received'[e] <= deletedAt[About[e]])
  <2> SUFFICES ASSUME About[e] \in Deleted PROVE ~(now + 1 <= deletedAt[About[e]])
    BY <1>3
  <2>1. deletedAt[About[e]] \in Nat /\ deletedAt[About[e]] <= now
    BY DEF HistoryInv, TombstonesDated, MatchInv, TypeOK, Deleted, Buried, now
  <2> QED
    BY <1>1, <2>1
<1>6. Heard' = Heard \cup {f \in {e} : About[f] \notin Deleted}
  BY <1>1, <1>2, <1>3, <1>4, <1>5 DEF Heard
<1>7. standing' = [standing EXCEPT ![e] = rules \cap Matches[About[e]]]
  <2>1. standing \in [Events -> SUBSET Rules] /\ standing' \in [Events -> SUBSET Rules]
    BY DEF HistoryInv, StandingOK
  <2>2. standing'[e] = rules \cap Matches[About[e]]
    BY <1>2, <1>3, <1>1 DEF Observe
  <2>3. ASSUME NEW f \in Events \ {e} PROVE standing'[f] = standing[f]
    <3>1. CASE f \in Arrived
      BY <1>1, <3>1 DEF Observe, HistoryInv, StandingOK
    <3>2. CASE f \notin Arrived
      <4>1. f \notin Arrived'
        BY <1>2, <3>2
      <4> QED
        BY <3>2, <4>1 DEF HistoryInv, StandingOK
    <3> QED
      BY <3>1, <3>2
  <2> QED
    BY <2>1, <2>2, <2>3
<1> QED
  BY <1>1, <1>2, <1>4, <1>6, <1>7 DEF O!Acknowledge

\* The rules API adds and drops rules, none that a row speaks of.
LEMMA RulesApiIsAbstract ==
  ASSUME HistoryInv, HistoryInv', Growing, Observe, RulesApi
  PROVE  \E r \in Rules : O!AddRule(r) \/ O!DropRule(r)
<1> USE DEF intakeVars, done, webhook
<1>1. PICK r \in Rules : AddRule(r) \/ RemoveRule(r)
  BY DEF RulesApi
<1>2. UNCHANGED <<jobs, received, deletedAt, processed>>
  BY <1>1 DEF RulesApi, AddRule, RemoveRule
<1>3. Arrived' = Arrived /\ PairsEver' = PairsEver /\ Deleted' = Deleted /\ Heard' = Heard
  <2>1. Arrived' = Arrived /\ Deleted' = Deleted
    BY <1>2 DEF Arrived, Deleted
  <2> QED
    BY <1>2, <2>1, SameRowsKept, SamePairs DEF Heard
<1>4. /\ standing \in [Events -> SUBSET Rules] /\ standing' \in [Events -> SUBSET Rules]
      /\ \A e \in Events : standing'[e] = standing[e] \cap rules'
      /\ \A e \in Events : standing[e] \subseteq rules
  BY <1>2 DEF Observe, HistoryInv, StandingOK, Arrived
<1>5. CASE AddRule(r)
  <2>1. \A e \in Events : standing'[e] = standing[e]
    BY <1>4, <1>5 DEF AddRule
  <2>2. standing' = standing
    BY <1>4, <2>1
  <2> QED
    BY <1>2, <1>3, <1>5, <2>2 DEF O!AddRule, AddRule
<1>6. CASE RemoveRule(r)
  <2>1. \A e \in Events : standing'[e] = standing[e] \ {r}
    BY <1>4, <1>6 DEF RemoveRule
  <2>2. standing' = [e \in Events |-> standing[e] \ {r}]
    BY <1>4, <2>1
  <2>3. \A p \in PairsEver : p[1] # r
    BY <1>6 DEF RemoveRule, PairsEver, InStatus
  <2> QED
    BY <1>2, <1>3, <1>6, <2>2, <2>3 DEF O!DropRule, RemoveRule
<1> QED
  BY <1>1, <1>5, <1>6

\* The row inserted is of a rule that is there and of a comment that was heard; the
\* rule stood since the comment arrived, or was made after it.
LEMMA InsertOwes ==
  ASSUME HistoryInv, HistoryInv', Growing, Observe, NEW x \in Handlers, NEW r \in Rules,
         handler[x].pc = "ensuring", r \in handler[x].todo, InsertJob(r, Comment(x)),
         UNCHANGED <<received, deletedAt, processed>>
  PROVE  \E e \in Events : O!Owe(r, e) \/ O!OweLate(r, e)
<1> DEFINE h == handler[x]
<1>1. /\ HandlerOK(h) /\ RunKnows(h) /\ h \in Handler
      /\ jobs \in [Jobs -> Row]
  BY DEF HistoryInv, MatchInv, TypeOK, HandlersAreOK, RunsKnow
<1>2. PICK e \in Events : e = h.event /\ e \in Arrived
  BY <1>1 DEF HandlerOK, Arrived
<1>3. Type[e] = "created" /\ e \in Heard
  BY <1>1, <1>2 DEF HandlerOK, Heard, Deleted, Buried
<1>4. r \in rules /\ UNCHANGED rules
  BY DEF InsertJob
<1>5. r \in Matches[About[e]]
  <2>1. r \in h.matched
    BY <1>1 DEF RunKnows
  <2> QED
    BY <1>1, <1>2, <2>1 DEF RunKnows
<1>6. PICK j \in Jobs : /\ jobs[j].status = "ABSENT"
                         /\ jobs' = [jobs EXCEPT ![j] = NewRow(r, About[e])]
  BY <1>2 DEF InsertJob, InStatus, Comment
<1>7. /\ jobs'[j].status = "QUEUED" /\ jobs'[j].rule = r /\ jobs'[j].comment = About[e]
      /\ \A i \in Jobs \ {j} : jobs'[i] = jobs[i]
  BY <1>1, <1>6 DEF NewRow
<1>8. Author[About[e]] \in Users
  BY EventsTyped, ConfigAssumption
<1>9. PairsEver' = PairsEver \cup {O!Pair(r, e)}
  BY <1>6, <1>7, <1>8 DEF PairsEver, InStatus, O!Pair
<1>10. Arrived' = Arrived /\ Deleted' = Deleted /\ Heard' = Heard
  <2>1. Arrived' = Arrived /\ Deleted' = Deleted
    BY DEF Arrived, Deleted
  <2> QED
    BY <2>1 DEF Heard
<1>11. standing' = standing
  BY <1>4, StandingShrinks DEF HistoryInv
<1> QED
  BY <1>3, <1>4, <1>5, <1>9, <1>10, <1>11 DEF O!Owe, O!OweLate, O!OwePair

\* A run that stamps its event closes it, and has honoured it.
LEMMA MarkCloses ==
  ASSUME HistoryInv, HistoryInv', Growing, Observe, NEW x \in Handlers, MarkProcessed(x),
         UNCHANGED received
  PROVE  \E e \in Events : O!Close(e)
<1> DEFINE h == handler[x]
<1> USE DEF MarkProcessed, tables
<1>1. HandlerOK(h) /\ RunKnows(h) /\ h.pc = "marking" /\ h \in Handler
  BY DEF HistoryInv, MatchInv, TypeOK, HandlersAreOK, RunsKnow
<1>2. PICK e \in Events : e = h.event /\ e \in Arrived /\ About[e] \in Comments
  BY <1>1, EventsTyped DEF HandlerOK, Arrived
<1>3. \A r \in h.matched : Paid(r, e)
  BY <1>1, <1>2 DEF HandlerOK
<1>4. ASSUME Type[e] = "created", About[e] \notin Deleted, NEW r \in standing[e]
      PROVE  O!Pair(r, e) \in PairsEver
  <2>1. r \in h.matched /\ r \in Rules
    BY <1>1, <1>2, <1>4 DEF RunKnows, Deleted, Buried, HistoryInv, StandingOK
  <2>2. Author[About[e]] \in Users
    BY <1>2, ConfigAssumption
  <2> QED
    BY <1>3, <2>1, <2>2 DEF Paid, IsFor, PairsEver, InStatus, O!Pair
<1>5. Type[e] = "deleted" => About[e] \in Deleted
  BY <1>1, <1>2 DEF HandlerOK, Deleted, Buried
<1>6. O!Honoured(e)
  BY <1>4, <1>5 DEF O!Honoured
<1>7. Arrived' = Arrived /\ PairsEver' = PairsEver /\ Deleted' = Deleted /\ Heard' = Heard
  <2>1. Arrived' = Arrived /\ Deleted' = Deleted
    BY DEF Arrived, Deleted
  <2> QED
    BY <2>1, SameRowsKept, SamePairs DEF Heard
<1>8. standing' = standing
  BY StandingShrinks DEF HistoryInv
<1> QED
  BY <1>2, <1>6, <1>7, <1>8 DEF O!Close

\* The tombstone is the deletion; a second one changes nothing.
LEMMA TombstoneDeletes ==
  ASSUME HistoryInv, HistoryInv', Growing, Observe, NEW x \in Handlers, AddTombstone(x),
         UNCHANGED <<received>>
  PROVE  \E e \in Events : O!Delete(e)
<1> DEFINE h == handler[x]
<1> USE DEF AddTombstone, tables, done
<1>1. /\ HandlerOK(h) /\ h.pc = "tombstoning"
      /\ deletedAt \in [Comments -> {Null} \cup (1 .. Cardinality(Events))]
  BY DEF HistoryInv, MatchInv, TypeOK, HandlersAreOK
<1>2. PICK e \in Events : /\ e = h.event /\ e \in Arrived /\ Type[e] = "deleted"
                          /\ About[e] \in Comments
  BY <1>1, EventsTyped DEF HandlerOK, Arrived
<1>3. /\ Cardinality(Arrived) # Null
      /\ \A f \in Arrived : received[f] <= Cardinality(Arrived)
  BY <1>2, ArrivedIsFinite, EventAssumption DEF HistoryInv, MatchInv, RanksInOrder, Arrived
<1>4. deletedAt' = [deletedAt EXCEPT ![About[e]] =
                      IF @ = Null THEN Cardinality(Arrived) ELSE @]
  BY <1>2 DEF Comment
<1>5. Arrived' = Arrived /\ PairsEver' = PairsEver
  BY SameRowsKept, SamePairs DEF Arrived
<1>6. Deleted' = Deleted \cup {About[e]}
  BY <1>1, <1>2, <1>3, <1>4 DEF Deleted
<1>7. Heard' = Heard
  <2>1. \A c \in Deleted : deletedAt'[c] = deletedAt[c]
    BY DEF Growing, Buried, Deleted
  <2>2. \A c \in Deleted' \ Deleted : deletedAt'[c] = Cardinality(Arrived)
    BY DEF Growing, Buried, Deleted
  <2> QED
    BY <1>3, <1>5, <1>6, <2>1, <2>2 DEF Heard
<1>8. standing' = standing
  BY StandingShrinks DEF HistoryInv
<1> QED
  BY <1>2, <1>5, <1>6, <1>7, <1>8 DEF O!Delete

\* A statement of handle_event, or its failure, is a step of the promise.
LEMMA HandleIsAbstract ==
  ASSUME HistoryInv, HistoryInv', Growing, Observe, NEW x \in Handlers,
         Handle(x) \/ HandlerFails(x)
  PROVE  [O!Next]_(O!obligationVars)
<1> USE DEF tables, done, webhook
<1>1. UNCHANGED received
  BY DEF Handle, HandlerFails
<1>2. ASSUME UNCHANGED <<rules, deletedAt, processed>>, RowsKept, NoNewRow
      PROVE  UNCHANGED O!obligationVars
  BY <1>1, <1>2, Stutters
<1>3. CASE ReadTombstone(x) \/ ReadRules(x) \/ HandlerFails(x)
  BY <1>2, <1>3, SameRowsKept DEF ReadTombstone, ReadRules, HandlerFails, Fail
<1>4. ASSUME NEW r \in Rules, EnsureObligation(x, r)
      PROVE  [O!Next]_(O!obligationVars)
  <2>1. CASE InsertJob(r, Comment(x))
    BY <1>1, <1>4, <2>1, InsertOwes DEF EnsureObligation, O!Next
  <2>2. CASE UNCHANGED <<jobs, rules>>
    BY <1>2, <1>4, <2>2, SameRowsKept DEF EnsureObligation
  <2> QED
    BY <1>4, <2>1, <2>2 DEF EnsureObligation
<1>5. CASE AddTombstone(x)
  BY <1>1, <1>5, TombstoneDeletes DEF O!Next
<1>6. CASE CancelQueued(x)
  <2>1. jobs \in [Jobs -> Row]
    BY DEF HistoryInv, MatchInv, TypeOK
  <2>2. RowsKept /\ NoNewRow
    BY <1>6, <2>1 DEF CancelQueued, CancelJobs, CancelRows, RowsKept, NoNewRow, Row
  <2> QED
    BY <1>2, <1>6, <2>2 DEF CancelQueued, CancelJobs, CancelRows
<1>7. CASE MarkProcessed(x)
  BY <1>1, <1>7, MarkCloses DEF O!Next
<1> QED
  BY <1>3, <1>4, <1>5, <1>6, <1>7 DEF Handle

\* So is every other step.
LEMMA StepIsAbstract ==
  ASSUME HistoryInv, HistoryInv', [HistoryNext]_historyVars
  PROVE  [O!Next]_(O!obligationVars)
<1> USE DEF tables, done, webhook, loop, intakeVars
<1>1. CASE UNCHANGED historyVars
  BY <1>1 DEF historyVars, vars, O!obligationVars, Arrived, Heard, Deleted, PairsEver,
    InStatus
<1>2. CASE HistoryNext
  <2>1. Growing /\ Next /\ Observe
    BY <1>2, StepGrows DEF HistoryInv, HistoryNext
  <2>2. ASSUME UNCHANGED <<rules, received, deletedAt, processed>>, RowsKept, NoNewRow
        PROVE  UNCHANGED O!obligationVars
    BY <2>1, <2>2, Stutters
  <2>3. ASSUME NEW e \in Events, Receive(e) PROVE O!Next
    BY <2>1, <2>3, ReceiveAcknowledges DEF O!Next
  <2>4. CASE RulesApi
    BY <2>1, <2>4, RulesApiIsAbstract DEF O!Next
  <2>5. CASE \/ \E e \in Events : Redelivery(e) \/ NextFetched(e)
             \/ BumpSuppressed \/ Sweep \/ Booted \/ Crash
    BY <2>2, <2>5, SameRowsKept DEF Redelivery, NextFetched, BumpSuppressed, Sweep, Booted,
                                    Crash
  <2>6. ASSUME NEW J \in SUBSET Jobs, NEW status \in Statuses, Delivery(J, status)
        PROVE  UNCHANGED O!obligationVars
    <3>1. status # "ABSENT" /\ \A j \in J : jobs[j].status # "ABSENT"
      BY <2>6 DEF Delivery, Moves
    <3>2. RowsKept /\ NoNewRow
      BY <2>6, <3>1, RestatusKept DEF Delivery, HistoryInv
    <3> QED
      BY <2>2, <2>6, <3>2 DEF Delivery
  <2> QED
    BY <2>1, <2>3, <2>4, <2>5, <2>6, HandleIsAbstract DEF Next
<1> QED
  BY <1>1, <1>2

\* A fresh database has promised nothing.
LEMMA InitIsAbstract == HistoryInit => O!Init
<1> SUFFICES ASSUME HistoryInit PROVE O!Init
  OBVIOUS
<1>1. Arrived = {} /\ Deleted = {} /\ PairsEver = {}
  BY DEF HistoryInit, Init, TablesInit, NoRow, Arrived, Deleted, PairsEver, InStatus
<1> QED
  BY <1>1 DEF HistoryInit, Init, TablesInit, O!Init, Heard

-----------------------------------------------------------------------------
(***************************************************************************)
(* What the runs of handle_event know of the rules that stand, in every    *)
(* reachable state.                                                        *)
(***************************************************************************)
THEOREM HistoryInvariance == HistorySpec => []HistoryInv
<1>1. HistoryInit => HistoryInv
  BY HistoryInitInv
<1>2. HistoryInv /\ [HistoryNext]_historyVars => HistoryInv'
  BY HistoryNextInv
<1> QED
  BY <1>1, <1>2, PTL DEF HistorySpec

(***************************************************************************)
(* Of a processed comment that is not known to be deleted, every rule that *)
(* stood ever since it arrived has, or had, a row for its author           *)
(* (matcher.py _handle_created, _mark_processed).                          *)
(***************************************************************************)
THEOREM StandingRulesAreServed == HistorySpec => []StandingRulesServed
<1>1. HistoryInv => StandingRulesServed
  <2> SUFFICES ASSUME HistoryInv, NEW e \in processed,
                      Type[e] = "created", About[e] \notin Deleted
               PROVE  \A r \in standing[e] : Paid(r, e)
    BY DEF StandingRulesServed, Paid
  <2>1. About[e] \in Comments
    BY EventsTyped DEF HistoryInv, MatchInv, TypeOK, Arrived
  <2> QED
    BY <2>1 DEF HistoryInv, StampedIsServed, Deleted, Buried
<1> QED
  BY <1>1, HistoryInvariance, PTL

(***************************************************************************)
(* Matcher implements Obligations: an acknowledged event is stamped only   *)
(* when it has had its effect, and nothing else is owed (webhook.py,       *)
(* matcher.py handle_event and matcher_sweep_loop, rules.py delete_rule).  *)
(***************************************************************************)
THEOREM IntakeKeepsItsObligations == HistorySpec => ObligationsKept
<1>1. HistoryInit => O!Init
  BY InitIsAbstract
<1>2. HistoryInv /\ HistoryInv' /\ [HistoryNext]_historyVars
        => [O!Next]_(O!obligationVars)
  BY StepIsAbstract
<1> QED
  BY <1>1, <1>2, HistoryInvariance, PTL DEF HistorySpec, ObligationsKept, O!Spec
=============================================================================
