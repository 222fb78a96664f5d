---------------------------- MODULE Matcher_proofs ----------------------------
(***************************************************************************)
(* Proofs about Matcher, for any finite set of events of any type about    *)
(* any comments, every match of rules and comments and every batch size.   *)
(*                                                                         *)
(* A row is never taken away and never changes its rule or its comment     *)
(* (RowsKept), a tombstone is never lifted, and a run of handle_event      *)
(* knows what it has seen to (HandlerOK): what it has paid for, that a     *)
(* tombstone stands before it cancels, and that a comment whose tombstone  *)
(* it did not find arrived before the deletion that left it.               *)
(***************************************************************************)
EXTENDS Matcher, FiniteSetTheorems, TLAPS

\* The author of the comment of e has or had a row of rule r.
Paid(r, e) ==
  \E j \in Jobs : jobs[j].status # "ABSENT" /\ IsFor(j, r, Author[About[e]])

Buried(c) == deletedAt[c] # Null

\* What a run of handle_event that is under way may rely on.
HandlerOK(h) ==
  h.pc # "idle" =>
    /\ h.event \in Arrived
    /\ h.pc \in {"tombstone?", "rules?", "ensuring"} => Type[h.event] = "created"
    /\ h.pc \in {"tombstoning", "cancelling"} => Type[h.event] = "deleted"
    /\ h.pc \in {"cancelling", "marking"} /\ Type[h.event] = "deleted" =>
         Buried(About[h.event])
    /\ h.pc \in {"rules?", "ensuring"} /\ Buried(About[h.event]) =>
         received[h.event] <= deletedAt[About[h.event]]
    /\ h.pc # "ensuring" => h.todo = {}
    /\ \A r \in h.matched \ h.todo : Paid(r, h.event)

HandlersAreOK == \A x \in Handlers : HandlerOK(handler[x])

RanksInOrder == \A e \in Events : received[e] <= Cardinality(Arrived)

\* ProcessedIsPaid, of every event.
AnsweredIsPaid == \A e \in Events : \A r \in answered[e] : Paid(r, e)

RowsHaveTheirComment ==
  \A j \in Jobs : jobs[j].status # "ABSENT" =>
    \E e \in Arrived : Type[e] = "created" /\ About[e] = jobs[j].comment

MatchInv ==
  /\ TypeOK /\ RanksInOrder /\ RowsHaveTheirComment /\ HandlersAreOK
  /\ TombstoneHolds /\ CancelledIsTombstoned
  /\ AnsweredIsPaid /\ SuppressedIsHonest

\* A step that takes no row away and leaves each row its rule and its comment.
RowsKept ==
  \A j \in Jobs : jobs[j].status # "ABSENT" =>
    /\ jobs'[j].status # "ABSENT"
    /\ jobs'[j].rule = jobs[j].rule /\ jobs'[j].comment = jobs[j].comment

-----------------------------------------------------------------------------
\* What has been paid stays paid.
LEMMA PaidStays ==
  ASSUME RowsKept, NEW r, NEW e, Paid(r, e)
  PROVE  Paid(r, e)'
BY DEF RowsKept, Paid, IsFor

\* The arrived events are finitely many, and at most all.
LEMMA ArrivedIsFinite ==
  ASSUME MatchInv
  PROVE  /\ IsFiniteSet(Arrived) /\ Cardinality(Arrived) \in Nat
         /\ Cardinality(Events) \in Nat
         /\ Cardinality(Arrived) <= Cardinality(Events)
         /\ Arrived # {} => Cardinality(Arrived) >= 1
<1>1. Arrived \subseteq Events
  BY DEF Arrived
<1>2. /\ IsFiniteSet(Arrived) /\ Cardinality(Arrived) <= Cardinality(Events)
      /\ IsFiniteSet(Events)
  BY <1>1, EventAssumption, FS_Subset
<1>3. Cardinality(Arrived) \in Nat /\ Cardinality(Events) \in Nat
  BY <1>2, FS_CardinalityType
<1>4. Arrived # {} => Cardinality(Arrived) # 0
  BY <1>2, FS_EmptySet
<1> QED
  BY <1>2, <1>3, <1>4

\* The constants, as the steps below use them.
LEMMA EventsTyped ==
  /\ \A e \in Events : /\ About[e] \in Comments /\ Started(e) \in Handler
                       /\ Type[e] \in EventTypes
  /\ Null \notin Events /\ Null \notin Comments /\ Loop \notin Events
  /\ IdleHandler \in Handler /\ Loop \in Handlers /\ Events \subseteq Handlers
<1>1. \A e \in Events : About[e] \in Comments /\ Type[e] \in EventTypes
  BY EventAssumption
<1>2. \A e \in Events : Started(e) \in Handler
  BY <1>1 DEF Started, Handler, HandlerPCs, EventTypes
<1>3. IdleHandler \in Handler
  BY DEF IdleHandler, Handler, HandlerPCs
<1> QED
  BY <1>1, <1>2, <1>3, EventAssumption, ConfigAssumption DEF Handlers

\* A fresh database has nothing to answer for.
LEMMA InitInv == Init => MatchInv
<1> SUFFICES ASSUME Init PROVE MatchInv
  OBVIOUS
<1> USE DEF Init, TablesInit
<1>1. Arrived = {} /\ Cardinality(Arrived) = 0 /\ Cardinality(Events) \in Nat
  BY EventAssumption, FS_EmptySet, FS_CardinalityType DEF Arrived
<1>2. NoRow \in Row
  BY ConfigAssumption DEF NoRow, Row, Statuses, Errors, Cycles
<1>3. TypeOK
  BY <1>1, <1>2, EventsTyped, EventAssumption DEF TypeOK
<1>4. RanksInOrder
  BY <1>1 DEF RanksInOrder
<1>5. RowsHaveTheirComment /\ TombstoneHolds /\ CancelledIsTombstoned
  BY DEF RowsHaveTheirComment, TombstoneHolds, CancelledIsTombstoned, NoRow, InStatus
<1>6. HandlersAreOK
  BY DEF HandlersAreOK, HandlerOK, IdleHandler
<1>7. AnsweredIsPaid /\ SuppressedIsHonest
  BY DEF AnsweredIsPaid, SuppressedIsHonest
<1> QED
  BY <1>3, <1>4, <1>5, <1>6, <1>7 DEF MatchInv

-----------------------------------------------------------------------------
(***************************************************************************)
(* A step that only adds to the tables: rows are kept, an event that       *)
(* arrived keeps its rank, a tombstone stays, and a new one comes after    *)
(* all that has arrived.                                                   *)
(***************************************************************************)
TablesGrow ==
  /\ RowsKept
  /\ \A e \in Arrived : e \in Arrived' /\ received'[e] = received[e]
  /\ \A c \in Comments : Buried(c) => deletedAt'[c] = deletedAt[c]
  /\ \A c \in Comments : ~Buried(c) /\ deletedAt'[c] # Null =>
       \A e \in Arrived : received[e] <= deletedAt'[c]

\* A step that inserts no row.
NoNewRow ==
  \A j \in Jobs : jobs'[j].status # "ABSENT" => jobs[j].status # "ABSENT"

\* Steps that leave the tables of events and tombstones alone and keep the rows
\* are steps of that kind.
LEMMA KeptIsGrowth ==
  ASSUME RowsKept, UNCHANGED <<received, deletedAt>>
  PROVE  TablesGrow
BY DEF TablesGrow, Arrived, Buried

\* Rows that do not change are kept.
LEMMA SameRowsKept ==
  ASSUME UNCHANGED jobs
  PROVE  RowsKept /\ NoNewRow
BY DEF RowsKept, NoNewRow

\* Rows that only change their status are kept.
LEMMA RestatusKept ==
  ASSUME MatchInv, NEW status \in Statuses \ {"ABSENT"}, NEW J \in SUBSET Jobs,
         \A j \in J : jobs[j].status # "ABSENT",
         jobs' = [j \in Jobs |-> IF j \in J THEN [jobs[j] EXCEPT !.status = status]
                                           ELSE jobs[j]]
  PROVE  RowsKept /\ NoNewRow /\ jobs' \in [Jobs -> Row]
<1>1. jobs \in [Jobs -> Row]
  BY DEF MatchInv, TypeOK
<1>2. \A j \in Jobs : [jobs[j] EXCEPT !.status = status] \in Row
  BY <1>1 DEF Row
<1> QED
  BY <1>1, <1>2 DEF RowsKept, NoNewRow, Row

\* No row comes without a comment, or after its deletion, unless it is inserted
\* by the step.
LEMMA GrowInv ==
  ASSUME MatchInv, TablesGrow, NoNewRow
  PROVE  RowsHaveTheirComment' /\ TombstoneHolds'
<1>1. \A j \in Jobs : jobs'[j].status # "ABSENT" =>
        /\ jobs[j].status # "ABSENT" /\ jobs'[j].comment = jobs[j].comment
        /\ \E e \in Arrived : Type[e] = "created" /\ About[e] = jobs[j].comment
        /\ jobs[j].comment \in Comments
  BY EventsTyped DEF MatchInv, TablesGrow, RowsKept, NoNewRow, RowsHaveTheirComment, Arrived
<1>2. RowsHaveTheirComment'
  BY <1>1 DEF RowsHaveTheirComment, TablesGrow
<1>3. TombstoneHolds'
  <2> SUFFICES ASSUME NEW j \in Jobs, jobs'[j].status # "ABSENT",
                      deletedAt'[jobs'[j].comment] # Null
               PROVE  \E e \in Arrived' :
                        /\ Type[e] = "created" /\ About[e] = jobs'[j].comment
                        /\ received'[e] <= deletedAt'[jobs'[j].comment]
    BY DEF TombstoneHolds
  <2> DEFINE c == jobs[j].comment
  <2>1. c \in Comments /\ jobs'[j].comment = c /\ jobs[j].status # "ABSENT"
    BY <1>1
  <2>2. CASE Buried(c)
    <3>1. PICK e \in Arrived : /\ Type[e] = "created" /\ About[e] = c
                               /\ received[e] <= deletedAt[c]
      BY <2>1, <2>2 DEF MatchInv, TombstoneHolds, Buried
    <3> QED
      BY <2>1, <2>2, <3>1 DEF TablesGrow
  <2>3. CASE ~Buried(c)
    <3>1. PICK e \in Arrived : Type[e] = "created" /\ About[e] = c
      BY <1>1
    <3> QED
      BY <2>1, <2>3, <3>1 DEF TablesGrow
  <2> QED
    BY <2>2, <2>3
<1> QED
  BY <1>2, <1>3

\* What has not been touched is still as it was.
LEMMA Frame ==
  ASSUME MatchInv
  PROVE  /\ UNCHANGED received => Arrived' = Arrived /\ RanksInOrder'
         /\ UNCHANGED <<jobs, processed, deletedAt>> => CancelledIsTombstoned'
         /\ RowsKept /\ UNCHANGED <<processed, answered>> => AnsweredIsPaid'
         /\ UNCHANGED <<redelivered, suppressed, bumping>> => SuppressedIsHonest'
<1> USE DEF MatchInv
<1>1. UNCHANGED received => Arrived' = Arrived /\ RanksInOrder'
  BY DEF Arrived, RanksInOrder
<1>2. UNCHANGED <<jobs, processed, deletedAt>> => CancelledIsTombstoned'
  BY DEF CancelledIsTombstoned, InStatus
<1>3. RowsKept /\ UNCHANGED <<processed, answered>> => AnsweredIsPaid'
  BY PaidStays DEF AnsweredIsPaid, Paid
<1>4. UNCHANGED <<redelivered, suppressed, bumping>> => SuppressedIsHonest'
  BY DEF SuppressedIsHonest
<1> QED
  BY <1>1, <1>2, <1>3, <1>4

-----------------------------------------------------------------------------
\* What a run relies on, it may rely on while others step.
LEMMA RunGoesOn ==
  ASSUME MatchInv, TablesGrow, NEW x \in Handlers, handler'[x] = handler[x]
  PROVE  HandlerOK(handler[x])'
<1> DEFINE h == handler[x]
<1> SUFFICES ASSUME h.pc # "idle"
             PROVE  HandlerOK(handler[x])'
  BY DEF HandlerOK
<1>1. HandlerOK(h) /\ h.event \in Arrived /\ About[h.event] \in Comments
  BY EventsTyped DEF MatchInv, HandlersAreOK, HandlerOK, Arrived
<1>2. h.event \in Arrived' /\ received'[h.event] = received[h.event]
  BY <1>1 DEF TablesGrow
<1>3. Buried(About[h.event]) => Buried(About[h.event])'
  BY <1>1 DEF TablesGrow, Buried
<1>4. h.pc \in {"rules?", "ensuring"} /\ deletedAt'[About[h.event]] # Null =>
        received'[h.event] <= deletedAt'[About[h.event]]
  BY <1>1, <1>2 DEF TablesGrow, HandlerOK, Buried
<1>5. \A r \in h.matched \ h.todo : Paid(r, h.event)'
  BY <1>1, PaidStays DEF HandlerOK, TablesGrow
<1> QED
  BY <1>1, <1>2, <1>3, <1>4, <1>5 DEF HandlerOK, Buried, Paid

\* A run that starts relies on nothing but the arrival of its event.
LEMMA RunStarts ==
  ASSUME NEW e \in Arrived', NEW h, h = Started(e)
  PROVE  HandlerOK(h)'
<1>1. /\ h.event = e /\ h.todo = {} /\ h.matched = {}
      /\ h.pc = "tombstone?" => Type[e] = "created"
      /\ h.pc = "tombstoning" => Type[e] = "deleted"
      /\ h.pc = "marking" => Type[e] # "deleted"
      /\ h.pc \in {"tombstone?", "tombstoning", "marking"}
  BY DEF Started
<1> QED
  BY <1>1 DEF HandlerOK

\* One run moves on, the others stay where they are.
LEMMA RunMoves ==
  ASSUME MatchInv, TablesGrow, NEW x \in Handlers, NEW h \in Handler,
         handler' = [handler EXCEPT ![x] = h], HandlerOK(h)'
  PROVE  handler' \in [Handlers -> Handler] /\ HandlersAreOK'
<1>1. handler \in [Handlers -> Handler]
  BY DEF MatchInv, TypeOK
<1>2. handler' \in [Handlers -> Handler] /\ handler'[x] = h
      /\ \A y \in Handlers \ {x} : handler'[y] = handler[y]
  BY <1>1
<1>3. \A y \in Handlers \ {x} : HandlerOK(handler[y])'
  BY <1>2, RunGoesOn
<1>4. HandlerOK(handler[x])'
  BY <1>2 DEF HandlerOK, Paid, Buried
<1> QED
  BY <1>2, <1>3, <1>4 DEF HandlersAreOK

\* A run moves on and no table changes: it read something, or it failed.
LEMMA QuietInv ==
  ASSUME MatchInv, NEW x \in Handlers, NEW h \in Handler,
         handler' = [handler EXCEPT ![x] = h], HandlerOK(h),
         UNCHANGED <<tables, done, deletedAt, blocked, webhook, loop>>
  PROVE  MatchInv'
<1> USE DEF tables, done, webhook, loop
<1>1. RowsKept /\ NoNewRow /\ TablesGrow
  BY SameRowsKept, KeptIsGrowth
<1>2. handler' \in [Handlers -> Handler] /\ HandlersAreOK'
  <2>1. HandlerOK(h)'
    BY DEF HandlerOK, Paid, Buried, Arrived, IsFor
  <2> QED
    BY <1>1, <2>1, RunMoves
<1>3. RowsHaveTheirComment' /\ TombstoneHolds'
  BY <1>1, GrowInv
<1>4. /\ Arrived' = Arrived /\ RanksInOrder' /\ CancelledIsTombstoned'
      /\ AnsweredIsPaid' /\ SuppressedIsHonest'
  BY <1>1, Frame
<1>5. TypeOK'
  BY <1>2, <1>4 DEF MatchInv, TypeOK
<1> QED
  BY <1>2, <1>3, <1>4, <1>5 DEF MatchInv

\* A run that is given up relies on nothing.
LEMMA IdleIsOK == HandlerOK(IdleHandler) /\ HandlerOK(IdleHandler)'
BY DEF HandlerOK, IdleHandler

\* The reads of _handle_created: who finds no tombstone runs for an event that
\* arrived before any that will be set.
LEMMA ReadsInv ==
  ASSUME MatchInv, NEW x \in Handlers, ReadTombstone(x) \/ ReadRules(x),
         UNCHANGED <<webhook, loop>>
  PROVE  MatchInv'
<1> DEFINE h == handler[x]
<1>1. /\ h \in Handler /\ handler \in [Handlers -> Handler] /\ rules \in SUBSET Rules
      /\ HandlerOK(h)
  BY DEF MatchInv, TypeOK, HandlersAreOK
<1>2. UNCHANGED <<tables, done, deletedAt, blocked>>
  BY DEF ReadTombstone, ReadRules
<1>3. CASE ReadTombstone(x)
  <2> DEFINE pc == IF Buried(Comment(x)) THEN "marking" ELSE "rules?"
             n == [h EXCEPT !.pc = pc]
  <2>1. n \in Handler /\ h.pc = "tombstone?"
    BY <1>1, <1>3 DEF Handler, HandlerPCs, ReadTombstone
  <2>2. handler' = [handler EXCEPT ![x] = n]
    BY <1>1, <1>3 DEF ReadTombstone, Goto, Buried
  <2>3. /\ n.event = h.event /\ n.todo = h.todo /\ n.matched = h.matched /\ n.pc = pc
    BY <1>1 DEF Handler
  <2>4. HandlerOK(n)
    BY <1>1, <2>1, <2>3 DEF HandlerOK, Comment
  <2> HIDE DEF n
  <2> QED
    BY <1>2, <2>1, <2>2, <2>4, QuietInv
<1>4. CASE ReadRules(x)
  <2> DEFINE matched == rules \cap Matches[Comment(x)]
             n == [h EXCEPT !.pc = IF matched = {} THEN "marking" ELSE "ensuring",
                            !.matched = matched, !.todo = matched]
  <2>1. n \in Handler /\ h.pc = "rules?"
    BY <1>1, <1>4 DEF Handler, HandlerPCs, ReadRules
  <2>2. handler' = [handler EXCEPT ![x] = n]
    BY <1>1, <1>4 DEF ReadRules
  <2>3. HandlerOK(n)
    BY <1>1, <2>1 DEF HandlerOK, Handler
  <2> HIDE DEF n
  <2> QED
    BY <1>2, <2>1, <2>2, <2>3, QuietInv
<1> QED
  BY <1>3, <1>4

\* A run that raises leaves everything as it was, its event unprocessed.
LEMMA FailInv ==
  ASSUME MatchInv, NEW x \in Handlers, Fail(x), UNCHANGED <<webhook, loop>>
  PROVE  MatchInv'
BY EventsTyped, IdleIsOK, QuietInv DEF Fail, End

-----------------------------------------------------------------------------
\* A transaction of _ensure_obligation that inserts the row: the author of a
\* comment that is not buried, or was buried after it arrived, is owed a DM.
LEMMA InsertInv ==
  ASSUME MatchInv, NEW x \in Handlers, NEW r \in Rules,
         handler[x].pc = "ensuring", r \in handler[x].todo,
         InsertJob(r, Comment(x)), NextRule(x, r),
         UNCHANGED <<done, deletedAt, blocked, webhook, loop>>
  PROVE  MatchInv'
<1> DEFINE h == handler[x]
           c == Comment(x)
<1>0. PICK e \in Events : e = h.event
  BY DEF MatchInv, TypeOK, HandlersAreOK, HandlerOK, Arrived
<1>1. PICK j \in Jobs : jobs[j].status = "ABSENT" /\ jobs' = [jobs EXCEPT ![j] = NewRow(r, c)]
  BY DEF InsertJob, InStatus
<1>2. /\ h \in Handler /\ handler \in [Handlers -> Handler] /\ jobs \in [Jobs -> Row]
      /\ HandlerOK(h)
  BY DEF MatchInv, TypeOK, HandlersAreOK
<1>3. /\ e \in Arrived /\ Type[e] = "created" /\ c = About[e] /\ c \in Comments
  BY <1>0, <1>2, EventsTyped DEF HandlerOK, Comment, Arrived
<1>4. jobs'[j] = NewRow(r, c) /\ \A i \in Jobs \ {j} : jobs'[i] = jobs[i]
  BY <1>1, <1>2
<1>5. RowsKept /\ TablesGrow
  BY <1>1, <1>4, KeptIsGrowth DEF RowsKept, webhook
<1>6. NewRow(r, c) \in Row /\ jobs' \in [Jobs -> Row]
  <2>1. NewRow(r, c) \in Row
    BY <1>3, ConfigAssumption DEF NewRow, Row, Statuses, Owed, Errors, Cycles
  <2> QED
    BY <1>1, <1>2, <2>1
<1>7. Paid(r, e)'
  BY <1>3, <1>4 DEF Paid, IsFor, NewRow
<1>8. handler' \in [Handlers -> Handler] /\ HandlersAreOK'
  <2>1. PICK n \in Handler :
          /\ n = [h EXCEPT !.todo = @ \ {r},
                           !.pc = IF h.todo = {r} THEN "marking" ELSE "ensuring"]
    BY <1>2 DEF Handler, HandlerPCs
  <2>2. handler' = [handler EXCEPT ![x] = n]
    BY <1>2, <2>1 DEF NextRule
  <2>3. /\ n.event = e /\ n.matched = h.matched /\ n.todo = h.todo \ {r}
        /\ n.pc = IF h.todo = {r} THEN "marking" ELSE "ensuring"
    BY <1>0, <1>2, <2>1 DEF Handler
  <2>4. \A q \in n.matched \ n.todo : Paid(q, e)'
    BY <1>0, <1>2, <1>5, <1>7, <2>3, PaidStays DEF HandlerOK
  <2>5. e \in Arrived' /\ (Buried(About[e])' => received'[e] <= deletedAt'[About[e]])
    BY <1>0, <1>2, <1>3 DEF HandlerOK, Arrived, Buried, webhook
  <2>6. HandlerOK(n)'
    BY <1>3, <2>3, <2>4, <2>5 DEF HandlerOK, Paid
  <2> QED
    BY <1>5, <2>2, <2>6, RunMoves
<1>9. RowsHaveTheirComment' /\ TombstoneHolds'
  <2>1. deletedAt'[c] # Null => received'[e] <= deletedAt'[c]
    BY <1>0, <1>2, <1>3 DEF HandlerOK, Buried, webhook
  <2>2. e \in Arrived' /\ Arrived' = Arrived
    BY <1>3 DEF Arrived, webhook
  <2>3. \A i \in Jobs : jobs'[i] = jobs[i] \/ jobs'[i].comment = c
    BY <1>4 DEF NewRow
  <2>4. RowsHaveTheirComment'
    BY <1>3, <2>2, <2>3 DEF MatchInv, RowsHaveTheirComment
  <2>5. TombstoneHolds'
    BY <1>3, <2>1, <2>2, <2>3 DEF MatchInv, TombstoneHolds, webhook
  <2> QED
    BY <2>4, <2>5
<1>10. CancelledIsTombstoned'
  BY <1>4 DEF MatchInv, CancelledIsTombstoned, InStatus, NewRow, done
<1>11. /\ Arrived' = Arrived /\ RanksInOrder' /\ AnsweredIsPaid' /\ SuppressedIsHonest'
  BY <1>5, Frame DEF webhook, done
<1>12. TypeOK'
  BY <1>6, <1>8, <1>11 DEF MatchInv, TypeOK, InsertJob, webhook, done, loop
<1> QED
  BY <1>8, <1>9, <1>10, <1>11, <1>12 DEF MatchInv

\* The duplicate is counted: a live row of the pair has paid already.
LEMMA BlockedInv ==
  ASSUME MatchInv, NEW x \in Handlers, NEW r \in Rules,
         handler[x].pc = "ensuring", r \in handler[x].todo,
         HasLiveRow(r, Comment(x)), NextRule(x, r), CountBlocked,
         UNCHANGED <<tables, done, deletedAt, webhook, loop>>
  PROVE  MatchInv'
<1> DEFINE h == handler[x]
<1>0. PICK e \in Events : e = h.event
  BY DEF MatchInv, TypeOK, HandlersAreOK, HandlerOK, Arrived
<1>1. /\ h \in Handler /\ handler \in [Handlers -> Handler] /\ HandlerOK(h)
  BY DEF MatchInv, TypeOK, HandlersAreOK
<1>2. RowsKept /\ NoNewRow /\ TablesGrow
  BY SameRowsKept, KeptIsGrowth DEF tables, webhook
<1>3. Paid(r, e)
  BY <1>0 DEF HasLiveRow, Live, Paid, Comment
<1>4. handler' \in [Handlers -> Handler] /\ HandlersAreOK'
  <2>1. PICK n \in Handler :
          /\ n = [h EXCEPT !.todo = @ \ {r},
                           !.pc = IF h.todo = {r} THEN "marking" ELSE "ensuring"]
    BY <1>1 DEF Handler, HandlerPCs
  <2>2. handler' = [handler EXCEPT ![x] = n]
    BY <1>1, <2>1 DEF NextRule
  <2>3. /\ n.event = e /\ n.matched = h.matched /\ n.todo = h.todo \ {r}
        /\ n.pc = IF h.todo = {r} THEN "marking" ELSE "ensuring"
    BY <1>0, <1>1, <2>1 DEF Handler
  <2>4. HandlerOK(n)
    BY <1>0, <1>1, <1>3, <2>3 DEF HandlerOK
  <2>5. HandlerOK(n)'
    BY <2>4 DEF HandlerOK, Paid, Buried, Arrived, IsFor, tables, webhook
  <2> QED
    BY <1>2, <2>2, <2>5, RunMoves
<1>5. RowsHaveTheirComment' /\ TombstoneHolds'
  BY <1>2, GrowInv
<1>6. /\ Arrived' = Arrived /\ RanksInOrder' /\ CancelledIsTombstoned'
      /\ AnsweredIsPaid' /\ SuppressedIsHonest'
  BY <1>2, Frame DEF webhook, done, tables
<1>7. blocked' \in 0 .. MaxBlocked
  BY EventAssumption DEF CountBlocked, MatchInv, TypeOK
<1>8. TypeOK'
  BY <1>4, <1>6, <1>7 DEF MatchInv, TypeOK, webhook, done, loop, tables
<1> QED
  BY <1>4, <1>5, <1>6, <1>8 DEF MatchInv

\* _ensure_obligation inserts, counts, or meets the foreign key and gives up.
LEMMA EnsureObligationInv ==
  ASSUME MatchInv, NEW x \in Handlers, NEW r \in Rules,
         EnsureObligation(x, r), UNCHANGED <<webhook, loop>>
  PROVE  MatchInv'
<1>1. CASE InsertJob(r, Comment(x)) /\ NextRule(x, r) /\ UNCHANGED blocked
  BY <1>1, InsertInv DEF EnsureObligation
<1>2. CASE HasLiveRow(r, Comment(x)) /\ CountBlocked /\ NextRule(x, r) /\ UNCHANGED tables
  BY <1>2, BlockedInv DEF EnsureObligation
<1>3. CASE r \notin rules /\ End(x) /\ UNCHANGED <<tables, blocked>>
  BY <1>3, EventsTyped, IdleIsOK, QuietInv DEF EnsureObligation, End
<1> QED
  BY <1>1, <1>2, <1>3 DEF EnsureObligation

-----------------------------------------------------------------------------
\* The tombstone is dated after all that has arrived, or is there already.
LEMMA AddTombstoneInv ==
  ASSUME MatchInv, NEW x \in Handlers, AddTombstone(x), UNCHANGED <<webhook, loop>>
  PROVE  MatchInv'
<1> DEFINE h == handler[x]
           now == Cardinality(Arrived)
<1> USE DEF AddTombstone, webhook, loop, done, tables
<1>1. /\ h \in Handler /\ handler \in [Handlers -> Handler] /\ HandlerOK(h)
      /\ deletedAt \in [Comments -> {Null} \cup (1 .. Cardinality(Events))]
      /\ h.pc = "tombstoning"
  BY DEF MatchInv, TypeOK, HandlersAreOK
<1>2. PICK e \in Events, c \in Comments :
        e = h.event /\ c = About[e] /\ e \in Arrived /\ Type[e] = "deleted"
  BY <1>1, EventsTyped DEF HandlerOK, Arrived
<1>3. /\ now \in 1 .. Cardinality(Events) /\ now # Null
      /\ \A a \in Arrived : received[a] <= now
  BY <1>2, ArrivedIsFinite, EventAssumption DEF MatchInv, RanksInOrder, Arrived
<1> HIDE DEF now
<1>4. /\ deletedAt' = [deletedAt EXCEPT ![c] = IF @ = Null THEN now ELSE @]
      /\ UNCHANGED <<jobs, rules, received, processed, answered, blocked>>
  BY <1>2 DEF Comment, now
<1>5. /\ deletedAt'[c] = IF Buried(c) THEN deletedAt[c] ELSE now
      /\ \A d \in Comments \ {c} : deletedAt'[d] = deletedAt[d]
  BY <1>1, <1>4 DEF Buried
<1>6. Buried(c)' /\ \A d \in Comments : Buried(d) => Buried(d)'
  BY <1>3, <1>5 DEF Buried
<1>7. RowsKept /\ NoNewRow /\ TablesGrow
  BY <1>3, <1>4, <1>5, SameRowsKept DEF TablesGrow, Arrived, Buried
<1>8. handler' \in [Handlers -> Handler] /\ HandlersAreOK'
  <2>1. PICK n \in Handler : n = [h EXCEPT !.pc = "cancelling"]
    BY <1>1 DEF Handler, HandlerPCs
  <2>2. handler' = [handler EXCEPT ![x] = n]
    BY <1>1, <2>1 DEF Goto
  <2>3. /\ n.event = e /\ n.matched = h.matched /\ n.todo = h.todo /\ n.pc = "cancelling"
    BY <1>1, <1>2, <2>1 DEF Handler
  <2>4. /\ h.todo = {} /\ \A r \in n.matched \ n.todo : Paid(r, e)'
    BY <1>1, <1>2, <1>7, <2>3, PaidStays DEF HandlerOK
  <2>5. HandlerOK(n)'
    BY <1>2, <1>4, <1>6, <2>3, <2>4 DEF HandlerOK, Arrived, Paid
  <2> QED
    BY <1>7, <2>2, <2>5, RunMoves
<1>9. RowsHaveTheirComment' /\ TombstoneHolds'
  BY <1>7, GrowInv
<1>10. CancelledIsTombstoned'
  <2>1. \A j \in InStatus("CANCELLED") : Buried(jobs[j].comment)'
    <3> SUFFICES ASSUME NEW j \in InStatus("CANCELLED") PROVE Buried(jobs[j].comment)'
      OBVIOUS
    <3>1. PICK d \in Comments : d = jobs[j].comment /\ Buried(d)
      BY EventsTyped DEF MatchInv, CancelledIsTombstoned, RowsHaveTheirComment, InStatus,
                         Arrived, Buried
    <3> QED
      BY <1>4, <1>6, <3>1 DEF Buried
  <2>2. \A a \in processed : Type[a] = "deleted" => Buried(About[a])'
    BY <1>6, EventsTyped DEF MatchInv, TypeOK, CancelledIsTombstoned, Buried, Arrived
  <2> QED
    BY <1>4, <2>1, <2>2 DEF CancelledIsTombstoned, InStatus, Buried
<1>11. /\ Arrived' = Arrived /\ RanksInOrder' /\ AnsweredIsPaid' /\ SuppressedIsHonest'
  BY <1>7, Frame
<1>12. deletedAt' \in [Comments -> {Null} \cup (1 .. Cardinality(Events))]
  BY <1>1, <1>3, <1>4
<1>13. TypeOK'
  BY <1>8, <1>11, <1>12 DEF MatchInv, TypeOK
<1> QED
  BY <1>8, <1>9, <1>10, <1>11, <1>13 DEF MatchInv

\* Only QUEUED rows of a comment that is buried are cancelled.
LEMMA CancelQueuedInv ==
  ASSUME MatchInv, NEW x \in Handlers, CancelQueued(x), UNCHANGED <<webhook, loop>>
  PROVE  MatchInv'
<1> DEFINE h == handler[x]
<1> USE DEF CancelQueued, webhook, loop, done, tables
<1>1. h \in Handler /\ handler \in [Handlers -> Handler] /\ HandlerOK(h) /\ h.pc = "cancelling"
  BY DEF MatchInv, TypeOK, HandlersAreOK
<1>2. PICK e \in Events : e = h.event /\ e \in Arrived /\ Type[e] = "deleted"
                          /\ Buried(About[e])
  BY <1>1 DEF HandlerOK, Arrived
<1>3. PICK J \in SUBSET Jobs :
        J = {j \in Jobs : jobs[j].status \in {"QUEUED"} /\ jobs[j].comment = About[e]}
  OBVIOUS
<1>4. /\ jobs' = [j \in Jobs |-> IF j \in J THEN [jobs[j] EXCEPT !.status = "CANCELLED"]
                                           ELSE jobs[j]]
      /\ UNCHANGED <<rules, processed, answered, deletedAt, blocked, received>>
  BY <1>2, <1>3 DEF CancelJobs, CancelRows, Comment
<1>5. RowsKept /\ NoNewRow /\ jobs' \in [Jobs -> Row]
  BY <1>3, <1>4, RestatusKept DEF Statuses, Terminal
<1>6. TablesGrow
  BY <1>4, <1>5, KeptIsGrowth
<1>7. handler' \in [Handlers -> Handler] /\ HandlersAreOK'
  <2>1. PICK n \in Handler : n = [h EXCEPT !.pc = "marking"]
    BY <1>1 DEF Handler, HandlerPCs
  <2>2. handler' = [handler EXCEPT ![x] = n]
    BY <1>1, <2>1 DEF Goto
  <2>3. /\ n.event = e /\ n.matched = h.matched /\ n.todo = h.todo /\ n.pc = "marking"
    BY <1>1, <1>2, <2>1 DEF Handler
  <2>4. /\ h.todo = {} /\ \A r \in n.matched \ n.todo : Paid(r, e)'
    BY <1>1, <1>2, <1>5, <2>3, PaidStays DEF HandlerOK
  <2>5. HandlerOK(n)'
    BY <1>2, <1>4, <2>3, <2>4 DEF HandlerOK, Arrived, Paid, Buried
  <2> QED
    BY <1>6, <2>2, <2>5, RunMoves
<1>8. RowsHaveTheirComment' /\ TombstoneHolds'
  BY <1>5, <1>6, GrowInv
<1>9. CancelledIsTombstoned'
  <2>1. \A j \in Jobs : jobs'[j].status = "CANCELLED" =>
          /\ j \in J \/ jobs[j].status = "CANCELLED"
          /\ jobs'[j].comment = jobs[j].comment
    BY <1>3, <1>4, <1>5 DEF RowsKept, NoNewRow
  <2> QED
    BY <1>2, <1>3, <1>4, <2>1 DEF MatchInv, CancelledIsTombstoned, InStatus, Buried
<1>10. /\ Arrived' = Arrived /\ RanksInOrder' /\ AnsweredIsPaid' /\ SuppressedIsHonest'
  BY <1>5, Frame
<1>11. TypeOK'
  BY <1>4, <1>5, <1>7, <1>10 DEF MatchInv, TypeOK
<1> QED
  BY <1>7, <1>8, <1>9, <1>10, <1>11 DEF MatchInv

\* An event is stamped when all of its rules have been paid, or its tombstone
\* stands.
LEMMA MarkProcessedInv ==
  ASSUME MatchInv, NEW x \in Handlers, MarkProcessed(x), UNCHANGED <<webhook, loop>>
  PROVE  MatchInv'
<1> DEFINE h == handler[x]
<1> USE DEF MarkProcessed, webhook, loop, done, tables
<1>1. /\ h \in Handler /\ handler \in [Handlers -> Handler] /\ HandlerOK(h) /\ h.pc = "marking"
      /\ answered \in [Events -> SUBSET Rules] /\ processed \in SUBSET Arrived
  BY DEF MatchInv, TypeOK, HandlersAreOK
<1>2. PICK e \in Events : /\ e = h.event /\ e \in Arrived
                          /\ Type[e] = "deleted" => Buried(About[e])
  BY <1>1 DEF HandlerOK, Arrived
<1>3. /\ processed' = processed \cup {e}
      /\ answered' = [answered EXCEPT ![e] = @ \cup h.matched]
      /\ handler' = [handler EXCEPT ![x] = IdleHandler]
      /\ UNCHANGED <<jobs, rules, deletedAt, blocked, received>>
  BY <1>2 DEF End
<1>4. RowsKept /\ NoNewRow /\ TablesGrow
  BY <1>3, SameRowsKept, KeptIsGrowth
<1>5. handler' \in [Handlers -> Handler] /\ HandlersAreOK'
  BY <1>3, <1>4, EventsTyped, IdleIsOK, RunMoves
<1>6. RowsHaveTheirComment' /\ TombstoneHolds'
  BY <1>4, GrowInv
<1>7. CancelledIsTombstoned'
  BY <1>2, <1>3 DEF MatchInv, CancelledIsTombstoned, InStatus, Buried
<1>8. AnsweredIsPaid'
  <2>1. \A r \in h.matched : Paid(r, e)
    BY <1>1, <1>2 DEF HandlerOK
  <2>2. answered'[e] = answered[e] \cup h.matched
        /\ \A a \in Events \ {e} : answered'[a] = answered[a]
    BY <1>1, <1>3
  <2>3. \A a \in Events : \A r \in answered'[a] : Paid(r, a)
    BY <1>2, <2>1, <2>2 DEF MatchInv, AnsweredIsPaid
  <2> QED
    BY <1>3, <2>3 DEF AnsweredIsPaid, Paid, IsFor
<1>9. Arrived' = Arrived /\ RanksInOrder' /\ SuppressedIsHonest'
  BY Frame
<1>10. answered' \in [Events -> SUBSET Rules]
  BY <1>1, <1>3 DEF Handler
<1>11. TypeOK'
  BY <1>1, <1>2, <1>3, <1>5, <1>9, <1>10 DEF MatchInv, TypeOK
<1> QED
  BY <1>5, <1>6, <1>7, <1>8, <1>9, <1>11 DEF MatchInv

-----------------------------------------------------------------------------
\* A statement of handle_event, whoever runs it.
LEMMA HandleInv ==
  ASSUME MatchInv, NEW x \in Handlers, Handle(x) \/ HandlerFails(x)
  PROVE  MatchInv'
<1>1. CASE HandlerFails(x)
  BY <1>1, FailInv DEF HandlerFails
<1>2. CASE Handle(x)
  BY <1>2, ReadsInv, EnsureObligationInv, AddTombstoneInv, CancelQueuedInv,
     MarkProcessedInv DEF Handle
<1> QED
  BY <1>1, <1>2

\* An event that arrives is ranked last, and its run starts.
LEMMA ReceiveInv ==
  ASSUME MatchInv, NEW e \in Events, Receive(e)
  PROVE  MatchInv'
<1> DEFINE now == Cardinality(Arrived)
<1> USE DEF Receive, loop, done, tables
<1>1. /\ received \in [Events -> 0 .. Cardinality(Events)]
      /\ received' = [received EXCEPT ![e] = now + 1] /\ received[e] = 0
      /\ UNCHANGED <<jobs, rules, deletedAt, processed, answered, blocked>>
      /\ now \in Nat
  BY ArrivedIsFinite DEF MatchInv, TypeOK
<1>2. Arrived' = Arrived \cup {e} /\ e \notin Arrived
  BY <1>1 DEF Arrived
<1>3. Cardinality(Arrived') = now + 1 /\ now + 1 <= Cardinality(Events)
  <2>1. Cardinality(Arrived \cup {e}) = now + 1
    BY <1>2, ArrivedIsFinite, FS_AddElement
  <2>2. Cardinality(Arrived \cup {e}) <= Cardinality(Events)
    BY EventAssumption, FS_Subset DEF Arrived
  <2> QED
    BY <1>2, <2>1, <2>2
<1> HIDE DEF now
<1>4. /\ received' \in [Events -> 0 .. Cardinality(Events)] /\ received'[e] = now + 1
      /\ \A a \in Events \ {e} : received'[a] = received[a]
  BY <1>1, <1>3, ArrivedIsFinite
<1>5. RanksInOrder'
  BY <1>1, <1>3, <1>4 DEF MatchInv, RanksInOrder, now
<1>6. RowsKept /\ NoNewRow /\ TablesGrow
  BY <1>1, <1>2, <1>4, SameRowsKept DEF TablesGrow, Arrived, Buried
<1>7. handler' \in [Handlers -> Handler] /\ HandlersAreOK'
  <2>1. PICK n \in Handler : n = Started(e)
    BY EventsTyped
  <2>2. handler' = [handler EXCEPT ![e] = n] /\ e \in Handlers /\ HandlerOK(n)'
    BY <1>2, <2>1, EventsTyped, RunStarts
  <2> QED
    BY <1>6, <2>2, RunMoves
<1>8. RowsHaveTheirComment' /\ TombstoneHolds'
  BY <1>6, GrowInv
<1>9. CancelledIsTombstoned' /\ AnsweredIsPaid' /\ SuppressedIsHonest'
  BY <1>6, Frame
<1>10. TypeOK'
  BY <1>2, <1>4, <1>7 DEF MatchInv, TypeOK
<1> QED
  BY <1>5, <1>7, <1>8, <1>9, <1>10 DEF MatchInv

\* A redelivery is recorded before the counter of suppressed events moves.
LEMMA RedeliveryInv ==
  ASSUME MatchInv, \/ \E e \in Events : Redelivery(e)
                   \/ BumpSuppressed
  PROVE  MatchInv'
<1> USE DEF Redelivery, BumpSuppressed, loop, done, tables
<1>1. /\ UNCHANGED <<jobs, rules, received, deletedAt, processed, answered, blocked,
                     handler, queue, booting>>
      /\ SuppressedIsHonest' /\ redelivered' \in 0 .. MaxRedeliveries
      /\ suppressed' \in 0 .. MaxRedeliveries /\ bumping' \in 0 .. MaxRedeliveries
  BY EventAssumption DEF MatchInv, TypeOK, SuppressedIsHonest
<1>2. RowsKept /\ NoNewRow /\ TablesGrow
  BY <1>1, SameRowsKept, KeptIsGrowth
<1>3. HandlersAreOK'
  BY <1>1, <1>2, RunGoesOn DEF HandlersAreOK
<1>4. RowsHaveTheirComment' /\ TombstoneHolds'
  BY <1>2, GrowInv
<1>5. Arrived' = Arrived /\ RanksInOrder' /\ CancelledIsTombstoned' /\ AnsweredIsPaid'
  BY <1>1, <1>2, Frame
<1>6. TypeOK'
  BY <1>1, <1>5 DEF MatchInv, TypeOK
<1> QED
  BY <1>1, <1>3, <1>4, <1>5, <1>6 DEF MatchInv

\* The rows a batch is fetched from are rows of arrived events.
LEMMA OldestArrived ==
  ASSUME NEW S \in SUBSET Arrived, NEW n
  PROVE  Oldest(S, n) \subseteq Arrived
BY DEF Oldest

\* The sweep and the end of the boot touch no table and no run.
LEMMA SweepInv ==
  ASSUME MatchInv, Sweep \/ Booted
  PROVE  MatchInv'
<1> USE DEF Sweep, Booted, webhook, loop, done, tables
<1>1. /\ UNCHANGED <<jobs, rules, received, deletedAt, processed, answered, blocked,
                     handler, redelivered, suppressed, bumping>>
      /\ booting' \in BOOLEAN
  BY DEF MatchInv, TypeOK
<1>2. RowsKept /\ NoNewRow /\ TablesGrow
  BY <1>1, SameRowsKept, KeptIsGrowth
<1>3. HandlersAreOK'
  BY <1>1, <1>2, RunGoesOn DEF HandlersAreOK
<1>4. RowsHaveTheirComment' /\ TombstoneHolds'
  BY <1>2, GrowInv
<1>5. /\ Arrived' = Arrived /\ RanksInOrder' /\ CancelledIsTombstoned'
      /\ AnsweredIsPaid' /\ SuppressedIsHonest'
  BY <1>1, <1>2, Frame
<1>6. queue' \subseteq Arrived
  <2>1. Pending \in SUBSET Arrived
    BY DEF Pending
  <2> QED
    BY <2>1, OldestArrived DEF MatchInv, TypeOK
<1>7. TypeOK'
  BY <1>1, <1>5, <1>6 DEF MatchInv, TypeOK
<1> QED
  BY <1>1, <1>3, <1>4, <1>5, <1>7 DEF MatchInv

\* The loop runs an event that it fetched, processed meanwhile or not.
LEMMA NextFetchedInv ==
  ASSUME MatchInv, NEW e \in Events, NextFetched(e)
  PROVE  MatchInv'
<1> USE DEF NextFetched, webhook, done, tables
<1>1. /\ UNCHANGED <<jobs, rules, received, deletedAt, processed, answered, blocked,
                     redelivered, suppressed, bumping, booting>>
      /\ queue' \subseteq queue
  OBVIOUS
<1>2. RowsKept /\ NoNewRow /\ TablesGrow
  BY <1>1, SameRowsKept, KeptIsGrowth
<1>3. /\ Arrived' = Arrived /\ RanksInOrder' /\ CancelledIsTombstoned'
      /\ AnsweredIsPaid' /\ SuppressedIsHonest'
  BY <1>1, <1>2, Frame
<1>4. handler' \in [Handlers -> Handler] /\ HandlersAreOK'
  <2>1. PICK n \in Handler : n = Started(e)
    BY EventsTyped
  <2>2. e \in Arrived'
    BY <1>3 DEF Oldest, MatchInv, TypeOK
  <2>3. handler' = [handler EXCEPT ![Loop] = n] /\ Loop \in Handlers /\ HandlerOK(n)'
    BY <2>1, <2>2, EventsTyped, RunStarts
  <2> QED
    BY <1>2, <2>3, RunMoves
<1>5. RowsHaveTheirComment' /\ TombstoneHolds'
  BY <1>2, GrowInv
<1>6. TypeOK'
  BY <1>1, <1>3, <1>4 DEF MatchInv, TypeOK
<1> QED
  BY <1>3, <1>4, <1>5, <1>6 DEF MatchInv

\* A crash loses every run and no table.
LEMMA CrashInv ==
  ASSUME MatchInv, Crash
  PROVE  MatchInv'
<1> USE DEF Crash, done, tables
<1>1. UNCHANGED <<jobs, rules, received, deletedAt, processed, answered, blocked,
                  redelivered, suppressed>>
  OBVIOUS
<1>2. RowsKept /\ NoNewRow /\ TablesGrow
  BY <1>1, SameRowsKept, KeptIsGrowth
<1>3. handler' \in [Handlers -> Handler] /\ HandlersAreOK'
  BY EventsTyped DEF HandlersAreOK, HandlerOK, IdleHandler
<1>4. RowsHaveTheirComment' /\ TombstoneHolds'
  BY <1>2, GrowInv
<1>5. Arrived' = Arrived /\ RanksInOrder' /\ CancelledIsTombstoned' /\ AnsweredIsPaid'
  BY <1>1, <1>2, Frame
<1>6. /\ bumping' = 0 /\ 0 \in 0 .. MaxRedeliveries
      /\ SuppressedIsHonest'
  BY EventAssumption DEF MatchInv, TypeOK, SuppressedIsHonest
<1>7. queue' \subseteq Arrived
  BY OldestArrived DEF Created, Pending
<1>8. TypeOK'
  BY <1>1, <1>3, <1>5, <1>6, <1>7 DEF MatchInv, TypeOK
<1> QED
  BY <1>3, <1>4, <1>5, <1>6, <1>8 DEF MatchInv

\* What the delivery half and the rules API do moves rows between states that a
\* deletion does not decide.
LEMMA OthersInv ==
  ASSUME MatchInv, \/ RulesApi
                   \/ \E J \in SUBSET Jobs, status \in Statuses : Delivery(J, status)
  PROVE  MatchInv'
<1> USE DEF webhook, loop, done, tables, intakeVars
<1>1. UNCHANGED intakeVars
  BY DEF RulesApi, Delivery
<1>2. /\ RowsKept /\ NoNewRow /\ jobs' \in [Jobs -> Row] /\ rules' \in SUBSET Rules
      /\ \A j \in Jobs : jobs'[j].status = "CANCELLED" => jobs[j].status = "CANCELLED"
  <2>1. CASE RulesApi
    BY <2>1, SameRowsKept DEF RulesApi, AddRule, RemoveRule, MatchInv, TypeOK
  <2>2. CASE \E J \in SUBSET Jobs, status \in Statuses : Delivery(J, status)
    <3>1. PICK J \in SUBSET Jobs, status \in Statuses : Delivery(J, status)
      BY <2>2
    <3>2. /\ status \notin {"ABSENT", "CANCELLED"}
          /\ \A j \in J : jobs[j].status # "ABSENT"
          /\ jobs' = [j \in Jobs |-> IF j \in J THEN [jobs[j] EXCEPT !.status = status]
                                               ELSE jobs[j]]
          /\ rules' = rules
      BY <3>1 DEF Delivery, Moves
    <3>3. jobs \in [Jobs -> Row] /\ rules \in SUBSET Rules
      BY DEF MatchInv, TypeOK
    <3>4. RowsKept /\ NoNewRow /\ jobs' \in [Jobs -> Row]
      BY <3>2, RestatusKept
    <3>5. \A j \in Jobs : jobs'[j].status = "CANCELLED" => jobs[j].status = "CANCELLED"
      BY <3>2, <3>3 DEF Row
    <3> QED
      BY <3>2, <3>3, <3>4, <3>5
  <2> QED
    BY <2>1, <2>2
<1>3. TablesGrow
  BY <1>1, <1>2, KeptIsGrowth
<1>4. HandlersAreOK'
  BY <1>1, <1>3, RunGoesOn DEF MatchInv, HandlersAreOK
<1>5. RowsHaveTheirComment' /\ TombstoneHolds'
  BY <1>2, <1>3, GrowInv
<1>6. CancelledIsTombstoned'
  BY <1>1, <1>2 DEF MatchInv, CancelledIsTombstoned, InStatus, RowsKept
<1>7. Arrived' = Arrived /\ RanksInOrder' /\ AnsweredIsPaid' /\ SuppressedIsHonest'
  BY <1>1, <1>2, Frame
<1>8. TypeOK'
  BY <1>1, <1>2, <1>7 DEF MatchInv, TypeOK
<1> QED
  BY <1>4, <1>5, <1>6, <1>7, <1>8 DEF MatchInv

\* Every step keeps the invariant.
LEMMA NextInv == MatchInv /\ [Next]_vars => MatchInv'
<1> SUFFICES ASSUME MatchInv, [Next]_vars PROVE MatchInv'
  OBVIOUS
<1>1. CASE Next
  BY <1>1, HandleInv, ReceiveInv, RedeliveryInv, SweepInv, NextFetchedInv, CrashInv,
     OthersInv DEF Next
<1>2. CASE UNCHANGED vars
  BY <1>2 DEF vars, tables, intakeVars, webhook, loop, done, MatchInv, TypeOK,
     RanksInOrder, RowsHaveTheirComment, HandlersAreOK, HandlerOK, Paid, Buried,
     TombstoneHolds, CancelledIsTombstoned, InStatus, IsFor, AnsweredIsPaid,
     SuppressedIsHonest, Arrived
<1> QED
  BY <1>1, <1>2

-----------------------------------------------------------------------------
(***************************************************************************)
(* The counter of blocked duplicates.  A run that has dealt with a rule    *)
(* either left a row of its own comment, which stays, or met the row of    *)
(* another one, which it counted in the same transaction.  What it dealt   *)
(* with is stamped with its event, or forgotten when it fails.             *)
(***************************************************************************)

\* The rules that a finished run of e, or one under way, has dealt with.
DealtWith(e) ==
  answered[e] \cup
  {r \in Rules : \E x \in Handlers :
     /\ handler[x].pc # "idle" /\ handler[x].event = e
     /\ r \in handler[x].matched \ handler[x].todo}

NoRowOf(e, r) == \A j \in Jobs : jobs[j].rule = r => jobs[j].comment # About[e]

Duplicates ==
  {p \in Events \X Rules : p[2] \in DealtWith(p[1]) /\ NoRowOf(p[1], p[2])}

UnusedAreBlank == \A j \in Jobs : jobs[j].status = "ABSENT" => jobs[j].rule = Null

DuplicatesCounted ==
  /\ UnusedAreBlank
  /\ IsFiniteSet(Duplicates)
  /\ blocked = MaxBlocked \/ Cardinality(Duplicates) <= blocked

\* A run at the same event that has dealt with no more, or with nothing.
NoFurther(h, g) ==
  \/ h.pc = "idle"
  \/ h.matched \subseteq h.todo
  \/ /\ g.pc # "idle" /\ h.event = g.event
     /\ h.matched = g.matched /\ h.todo = g.todo

\* Then nothing more has been dealt with.
LEMMA DealtWithNoMore ==
  ASSUME UNCHANGED answered,
         \A x \in Handlers : NoFurther(handler'[x], handler[x])
  PROVE  \A e \in Events : DealtWith(e)' \subseteq DealtWith(e)
BY DEF DealtWith, NoFurther

\* A comment without a row of a rule had none before.
LEMMA RowsStayOf ==
  ASSUME UnusedAreBlank, RowsKept, NEW e, NEW r \in Rules, NoRowOf(e, r)'
  PROVE  NoRowOf(e, r)
BY ConfigAssumption DEF UnusedAreBlank, RowsKept, NoRowOf

\* A step after which there are no new duplicates keeps the count.
LEMMA NoNewDuplicate ==
  ASSUME DuplicatesCounted, RowsKept, UnusedAreBlank', blocked' = blocked,
         \A e \in Events : \A r \in Rules :
           r \in DealtWith(e)' /\ NoRowOf(e, r)' => r \in DealtWith(e),
         MatchInv
  PROVE  DuplicatesCounted'
<1>1. \A e \in Events : \A r \in Rules : NoRowOf(e, r)' => NoRowOf(e, r)
  BY RowsStayOf DEF DuplicatesCounted
<1>2. Duplicates' \subseteq Duplicates
  BY <1>1 DEF Duplicates
<1>3. IsFiniteSet(Duplicates') /\ Cardinality(Duplicates') <= Cardinality(Duplicates)
  BY <1>2, FS_Subset DEF DuplicatesCounted
<1>4. Cardinality(Duplicates') \in Nat /\ Cardinality(Duplicates) \in Nat
  BY <1>3, FS_CardinalityType DEF DuplicatesCounted
<1> QED
  BY <1>3, <1>4 DEF DuplicatesCounted, MatchInv, TypeOK

\* Nor does one that moves no run further and inserts no row.
LEMMA QuietCount ==
  ASSUME MatchInv, DuplicatesCounted, RowsKept, UnusedAreBlank',
         UNCHANGED <<answered, blocked>>,
         \A x \in Handlers : NoFurther(handler'[x], handler[x])
  PROVE  DuplicatesCounted'
BY DealtWithNoMore, NoNewDuplicate

\* Rows in use stay in use, and the others stay as they are.
LEMMA BlankStays ==
  ASSUME UnusedAreBlank,
         \A j \in Jobs : jobs'[j].status = "ABSENT" => jobs'[j] = jobs[j]
  PROVE  UnusedAreBlank'
BY DEF UnusedAreBlank

\* One run moves on, no further than it was.
LEMMA OneRunCount ==
  ASSUME MatchInv, NEW x \in Handlers, NEW h, handler' = [handler EXCEPT ![x] = h],
         NoFurther(h, handler[x])
  PROVE  \A y \in Handlers : NoFurther(handler'[y], handler[y])
<1>1. handler \in [Handlers -> Handler]
  BY DEF MatchInv, TypeOK
<1> QED
  BY <1>1 DEF NoFurther

\* The transaction that inserts: the row is of the comment itself.
LEMMA InsertCount ==
  ASSUME MatchInv, DuplicatesCounted, NEW x \in Handlers, NEW r \in Rules,
         handler[x].pc = "ensuring", r \in handler[x].todo,
         InsertJob(r, Comment(x)), NextRule(x, r), UNCHANGED <<done, blocked>>
  PROVE  DuplicatesCounted'
<1> DEFINE h == handler[x]
<1>1. PICK j \in Jobs :
        jobs[j].status = "ABSENT" /\ jobs' = [jobs EXCEPT ![j] = NewRow(r, Comment(x))]
  BY DEF InsertJob, InStatus
<1>2. h \in Handler /\ handler \in [Handlers -> Handler] /\ jobs \in [Jobs -> Row]
  BY DEF MatchInv, TypeOK
<1>3. /\ jobs'[j] = NewRow(r, Comment(x))
      /\ \A i \in Jobs \ {j} : jobs'[i] = jobs[i]
  BY <1>1, <1>2
<1>4. RowsKept /\ UnusedAreBlank'
  BY <1>1, <1>3 DEF RowsKept, DuplicatesCounted, UnusedAreBlank, NewRow
<1>5. \A e : e = h.event => ~NoRowOf(e, r)'
  BY <1>3 DEF NoRowOf, NewRow, Comment
<1>6. /\ handler'[x].event = h.event /\ handler'[x].matched = h.matched
      /\ handler'[x].todo = h.todo \ {r}
      /\ \A y \in Handlers \ {x} : handler'[y] = handler[y]
  BY <1>2 DEF NextRule, Handler
<1>7. ASSUME NEW e \in Events, NEW q \in Rules, q \in DealtWith(e)', q \notin DealtWith(e)
      PROVE  e = h.event /\ q = r
  BY <1>6, <1>7 DEF DealtWith, done
<1> QED
  BY <1>4, <1>5, <1>7, NoNewDuplicate

\* A set with one more element has at most one more.
LEMMA OneMore ==
  ASSUME NEW S, NEW p, IsFiniteSet(S)
  PROVE  IsFiniteSet(S \cup {p}) /\ Cardinality(S \cup {p}) <= Cardinality(S) + 1
<1>1. Cardinality(S) \in Nat
  BY FS_CardinalityType
<1>2. CASE p \in S
  <2>1. S \cup {p} = S
    BY <1>2
  <2> QED
    BY <1>1, <2>1
<1>3. CASE p \notin S
  BY <1>1, <1>3, FS_AddElement
<1> QED
  BY <1>2, <1>3

\* The transaction that finds another row counts it, so one duplicate more is
\* one more in the count.
LEMMA BlockedCount ==
  ASSUME MatchInv, DuplicatesCounted, NEW x \in Handlers, NEW r \in Rules,
         handler[x].pc = "ensuring", r \in handler[x].todo,
         NextRule(x, r), CountBlocked, UNCHANGED <<tables, done>>
  PROVE  DuplicatesCounted'
<1> DEFINE h == handler[x]
           more == Duplicates \cup {<<h.event, r>>}
<1>1. h \in Handler /\ handler \in [Handlers -> Handler]
  BY DEF MatchInv, TypeOK
<1>2. /\ handler'[x].event = h.event /\ handler'[x].matched = h.matched
      /\ handler'[x].todo = h.todo \ {r}
      /\ \A y \in Handlers \ {x} : handler'[y] = handler[y]
  BY <1>1 DEF NextRule, Handler
<1>3. ASSUME NEW e \in Events, NEW q \in Rules, q \in DealtWith(e)', q \notin DealtWith(e)
      PROVE  e = h.event /\ q = r
  BY <1>2, <1>3 DEF DealtWith, done
<1>4. \A e \in Events : \A q \in Rules : NoRowOf(e, q)' => NoRowOf(e, q)
  BY DEF NoRowOf, tables
<1>5. Duplicates' \subseteq more
  BY <1>3, <1>4 DEF Duplicates
<1>6. IsFiniteSet(more) /\ Cardinality(more) <= Cardinality(Duplicates) + 1
  BY OneMore DEF DuplicatesCounted
<1>7. IsFiniteSet(Duplicates') /\ Cardinality(Duplicates') <= Cardinality(more)
  BY <1>5, <1>6, FS_Subset
<1>8. /\ Cardinality(Duplicates') \in Nat /\ Cardinality(more) \in Nat
      /\ Cardinality(Duplicates) \in Nat
  BY <1>6, <1>7, FS_CardinalityType DEF DuplicatesCounted
<1>9. blocked' = MaxBlocked \/ Cardinality(Duplicates') <= blocked'
  BY <1>6, <1>7, <1>8, EventAssumption DEF DuplicatesCounted, CountBlocked, MatchInv, TypeOK
<1>10. UnusedAreBlank'
  BY DEF DuplicatesCounted, UnusedAreBlank, tables
<1> QED
  BY <1>7, <1>9, <1>10 DEF DuplicatesCounted

\* The stamp takes over what its run has dealt with, which is all it matched.
LEMMA MarkCount ==
  ASSUME MatchInv, DuplicatesCounted, NEW x \in Handlers, MarkProcessed(x)
  PROVE  DuplicatesCounted'
<1> DEFINE h == handler[x]
<1> USE DEF MarkProcessed, tables
<1>1. /\ h \in Handler /\ handler \in [Handlers -> Handler] /\ HandlerOK(h)
      /\ answered \in [Events -> SUBSET Rules]
  BY DEF MatchInv, TypeOK, HandlersAreOK
<1>2. h.event \in Events /\ h.todo = {} /\ h.matched \subseteq Rules /\ h.pc = "marking"
  BY <1>1 DEF HandlerOK, Arrived, Handler
<1>3. /\ answered'[h.event] = answered[h.event] \cup h.matched
      /\ \A e \in Events \ {h.event} : answered'[e] = answered[e]
      /\ handler'[x].pc = "idle" /\ \A y \in Handlers \ {x} : handler'[y] = handler[y]
  BY <1>1, <1>2 DEF End, IdleHandler
<1>4. h.matched \subseteq DealtWith(h.event)
  BY <1>2 DEF DealtWith
<1>5. \A e \in Events : DealtWith(e)' \subseteq DealtWith(e)
  BY <1>3, <1>4 DEF DealtWith
<1>6. RowsKept /\ UnusedAreBlank'
  BY SameRowsKept DEF DuplicatesCounted, UnusedAreBlank
<1> QED
  BY <1>5, <1>6, NoNewDuplicate

\* A statement of handle_event, or its failure.
LEMMA HandleCount ==
  ASSUME MatchInv, DuplicatesCounted, NEW x \in Handlers, Handle(x) \/ HandlerFails(x)
  PROVE  DuplicatesCounted'
<1> USE DEF done, tables
<1>1. handler[x] \in Handler /\ handler \in [Handlers -> Handler] /\ jobs \in [Jobs -> Row]
  BY DEF MatchInv, TypeOK
<1>2. CASE ReadTombstone(x) \/ AddTombstone(x)
  <2>1. RowsKept /\ UnusedAreBlank' /\ UNCHANGED <<answered, blocked>>
    BY <1>2, SameRowsKept DEF ReadTombstone, AddTombstone, DuplicatesCounted, UnusedAreBlank
  <2>2. \A y \in Handlers : NoFurther(handler'[y], handler[y])
    BY <1>1, <1>2 DEF ReadTombstone, AddTombstone, Goto, Handler, NoFurther
  <2> QED
    BY <2>1, <2>2, QuietCount
<1>3. CASE ReadRules(x)
  <2>1. RowsKept /\ UnusedAreBlank' /\ UNCHANGED <<answered, blocked>>
    BY <1>3, SameRowsKept DEF ReadRules, DuplicatesCounted, UnusedAreBlank
  <2>2. \A y \in Handlers : NoFurther(handler'[y], handler[y])
    BY <1>1, <1>3 DEF ReadRules, Handler, NoFurther
  <2> QED
    BY <2>1, <2>2, QuietCount
<1>4. CASE CancelQueued(x)
  <2>1. \A j \in Jobs : /\ jobs[j].status = "ABSENT" => jobs'[j] = jobs[j]
                        /\ jobs'[j].status = "ABSENT" => jobs'[j] = jobs[j]
                        /\ jobs'[j].rule = jobs[j].rule
                        /\ jobs'[j].comment = jobs[j].comment
    BY <1>1, <1>4 DEF CancelQueued, CancelJobs, CancelRows, Row
  <2>2. RowsKept /\ UnusedAreBlank' /\ UNCHANGED <<answered, blocked>>
    BY <1>1, <1>4, <2>1, BlankStays DEF CancelQueued, CancelJobs, CancelRows, Row, RowsKept,
                                   DuplicatesCounted
  <2>3. \A y \in Handlers : NoFurther(handler'[y], handler[y])
    BY <1>1, <1>4 DEF CancelQueued, Goto, Handler, NoFurther
  <2> QED
    BY <2>2, <2>3, QuietCount
<1>5. CASE MarkProcessed(x)
  BY <1>5, MarkCount
<1>6. ASSUME UNCHANGED <<jobs, rules, done, blocked>>, End(x)
      PROVE  DuplicatesCounted'
  <2>1. RowsKept /\ UnusedAreBlank'
    BY <1>6, SameRowsKept DEF DuplicatesCounted, UnusedAreBlank
  <2>2. \A y \in Handlers : NoFurther(handler'[y], handler[y])
    BY <1>1, <1>6 DEF End, IdleHandler, NoFurther
  <2> QED
    BY <1>6, <2>1, <2>2, QuietCount
<1>7. ASSUME NEW r \in Rules, EnsureObligation(x, r)
      PROVE  DuplicatesCounted'
  BY <1>6, <1>7, InsertCount, BlockedCount DEF EnsureObligation
<1>8. CASE HandlerFails(x)
  BY <1>6, <1>8 DEF HandlerFails, Fail
<1> QED
  BY <1>2, <1>3, <1>4, <1>5, <1>7, <1>8 DEF Handle

\* No other step deals with a rule or takes a row away.
LEMMA CountInv == MatchInv /\ DuplicatesCounted /\ [Next]_vars => DuplicatesCounted'
<1> SUFFICES ASSUME MatchInv, DuplicatesCounted, [Next]_vars PROVE DuplicatesCounted'
  OBVIOUS
<1> USE DEF done, tables, loop, webhook, intakeVars
<1>1. handler \in [Handlers -> Handler] /\ jobs \in [Jobs -> Row]
  BY DEF MatchInv, TypeOK
<1>2. ASSUME NEW x \in Handlers, Handle(x) \/ HandlerFails(x) PROVE DuplicatesCounted'
  BY <1>2, HandleCount
<1>3. ASSUME UNCHANGED <<jobs, answered, blocked, handler>> PROVE DuplicatesCounted'
  <2>1. RowsKept /\ UnusedAreBlank'
    BY <1>3, SameRowsKept DEF DuplicatesCounted, UnusedAreBlank
  <2>2. \A x \in Handlers : NoFurther(handler'[x], handler[x])
    BY <1>3 DEF NoFurther
  <2> QED
    BY <1>3, <2>1, <2>2, QuietCount
<1>4. ASSUME NEW e \in Events, Receive(e) \/ NextFetched(e) PROVE DuplicatesCounted'
  <2>1. PICK x \in Handlers : handler' = [handler EXCEPT ![x] = Started(e)]
    BY <1>4, EventsTyped DEF Receive, NextFetched
  <2>2. NoFurther(Started(e), handler[x])
    BY DEF NoFurther, Started
  <2>3. RowsKept /\ UnusedAreBlank' /\ UNCHANGED <<answered, blocked>>
    BY <1>4, SameRowsKept DEF Receive, NextFetched, DuplicatesCounted, UnusedAreBlank
  <2> QED
    BY <2>1, <2>2, <2>3, OneRunCount, QuietCount
<1>5. CASE Crash
  <2>1. RowsKept /\ UnusedAreBlank' /\ UNCHANGED <<answered, blocked>>
    BY <1>5, SameRowsKept DEF Crash, DuplicatesCounted, UnusedAreBlank
  <2>2. \A x \in Handlers : NoFurther(handler'[x], handler[x])
    BY <1>5 DEF Crash, IdleHandler, NoFurther
  <2> QED
    BY <2>1, <2>2, QuietCount
<1>6. ASSUME NEW J \in SUBSET Jobs, NEW status \in Statuses, Delivery(J, status)
      PROVE  DuplicatesCounted'
  <2>1. \A j \in J : jobs[j].status # "ABSENT" /\ status # "ABSENT"
    BY <1>6 DEF Delivery, Moves
  <2>2. RowsKept
    BY <1>6, <2>1, RestatusKept DEF Delivery
  <2>3. UnusedAreBlank'
    BY <1>1, <1>6, <2>1, BlankStays DEF Delivery, Row, DuplicatesCounted
  <2>4. \A x \in Handlers : NoFurther(handler'[x], handler[x])
    BY <1>6 DEF Delivery, NoFurther
  <2> QED
    BY <1>6, <2>2, <2>3, <2>4, QuietCount DEF Delivery
<1>7. CASE RulesApi
  BY <1>3, <1>7 DEF RulesApi, AddRule, RemoveRule
<1>8. CASE \/ \E e \in Events : Redelivery(e)
           \/ BumpSuppressed \/ Sweep \/ Booted
  BY <1>3, <1>8 DEF Redelivery, BumpSuppressed, Sweep, Booted
<1>9. CASE UNCHANGED vars
  BY <1>3, <1>9 DEF vars
<1> QED
  BY <1>2, <1>4, <1>5, <1>6, <1>7, <1>8, <1>9 DEF Next

\* A fresh database counts nothing, and there is nothing to count.
LEMMA InitCount == Init => DuplicatesCounted
<1> SUFFICES ASSUME Init PROVE DuplicatesCounted
  OBVIOUS
<1>1. Duplicates = {}
  BY DEF Init, Duplicates, DealtWith, IdleHandler
<1>2. IsFiniteSet(Duplicates) /\ Cardinality(Duplicates) = 0
  BY <1>1, FS_EmptySet
<1> QED
  BY <1>2 DEF Init, TablesInit, NoRow, DuplicatesCounted, UnusedAreBlank

-----------------------------------------------------------------------------
(***************************************************************************)
(* The invariant of the intake: what every run of handle_event may rely    *)
(* on, whoever runs it, and what the tables owe to each other.             *)
(***************************************************************************)
THEOREM IntakeInvariance == Spec => []MatchInv
<1>1. Init => MatchInv
  BY InitInv
<1>2. MatchInv /\ [Next]_vars => MatchInv'
  BY NextInv
<1> QED
  BY <1>1, <1>2, PTL DEF Spec

(***************************************************************************)
(* An event stamped processed has paid for every rule it matched, however  *)
(* often and by whom it was run (matcher.py _handle_created).              *)
(***************************************************************************)
THEOREM ProcessedEventsArePaid == Spec => []ProcessedIsPaid
<1>1. MatchInv => ProcessedIsPaid
  BY DEF MatchInv, AnsweredIsPaid, ProcessedIsPaid, Paid, TypeOK, Arrived
<1> QED
  BY <1>1, IntakeInvariance, PTL

(***************************************************************************)
(* A comment that arrives after its deletion was recorded gets no row      *)
(* (matcher.py _handle_created, _handle_deleted).                          *)
(***************************************************************************)
THEOREM TombstonesHold == Spec => []TombstoneHolds
<1>1. MatchInv => TombstoneHolds
  BY DEF MatchInv
<1> QED
  BY <1>1, IntakeInvariance, PTL

(***************************************************************************)
(* No row is CANCELLED and no deletion processed without its tombstone     *)
(* (matcher.py _handle_deleted).                                           *)
(***************************************************************************)
THEOREM CancellationsLeaveTombstones == Spec => []CancelledIsTombstoned
<1>1. MatchInv => CancelledIsTombstoned
  BY DEF MatchInv
<1> QED
  BY <1>1, IntakeInvariance, PTL

(***************************************************************************)
(* The counter of suppressed redeliveries never overstates (webhook.py).   *)
(***************************************************************************)
THEOREM SuppressedNeverOverstates == Spec => []SuppressedIsHonest
<1>1. MatchInv => SuppressedIsHonest
  BY DEF MatchInv
<1> QED
  BY <1>1, IntakeInvariance, PTL

(***************************************************************************)
(* Every duplicate that a stamped event met has been counted, wherever     *)
(* crashes, failures and concurrent runs of the event cut in: the counter  *)
(* falls behind only where the model stops it (matcher.py                  *)
(* _ensure_obligation).                                                    *)
(***************************************************************************)
THEOREM DuplicatesAreCounted ==
  Spec => [](blocked < MaxBlocked => BlockedCoversDuplicates)
<1>1. MatchInv /\ DuplicatesCounted => (blocked < MaxBlocked => BlockedCoversDuplicates)
  <2> SUFFICES ASSUME MatchInv, DuplicatesCounted, blocked < MaxBlocked
               PROVE  BlockedCoversDuplicates
    OBVIOUS
  <2> DEFINE stamped ==
        {p \in processed \X Rules :
           p[2] \in answered[p[1]] /\ \A j \in Jobs :
             jobs[j].rule = p[2] => jobs[j].comment # About[p[1]]}
  <2>1. stamped \subseteq Duplicates
    BY DEF Duplicates, DealtWith, NoRowOf, MatchInv, TypeOK, Arrived
  <2>2. /\ Cardinality(stamped) <= Cardinality(Duplicates) /\ IsFiniteSet(stamped)
        /\ IsFiniteSet(Duplicates)
    BY <2>1, FS_Subset DEF DuplicatesCounted
  <2>3. Cardinality(stamped) \in Nat /\ Cardinality(Duplicates) \in Nat
    BY <2>2, FS_CardinalityType
  <2>4. Cardinality(Duplicates) <= blocked /\ blocked \in Nat
    BY EventAssumption DEF DuplicatesCounted, MatchInv, TypeOK
  <2>5. Cardinality(stamped) <= blocked
    BY <2>2, <2>3, <2>4
  <2> QED
    BY <2>5 DEF BlockedCoversDuplicates
<1>2. Spec => []DuplicatesCounted
  <2>1. Init => MatchInv /\ DuplicatesCounted
    BY InitInv, InitCount
  <2>2. MatchInv /\ DuplicatesCounted /\ [Next]_vars => (MatchInv /\ DuplicatesCounted)'
    BY NextInv, CountInv
  <2> QED
    BY <2>1, <2>2, PTL DEF Spec
<1> QED
  BY <1>1, <1>2, IntakeInvariance, PTL

(***************************************************************************)
(* Where the model's bound on the counter is out of reach, as in the code, *)
(* which has none, no blocked duplicate ever goes uncounted (matcher.py    *)
(* _ensure_obligation).                                                    *)
(***************************************************************************)
THEOREM NoDuplicateUncounted ==
  ASSUME IsFiniteSet(Rules), MaxBlocked >= Cardinality(Events \X Rules)
  PROVE  Spec => []BlockedCoversDuplicates
<1>1. MatchInv /\ (blocked < MaxBlocked => BlockedCoversDuplicates)
        => BlockedCoversDuplicates
  <2> SUFFICES ASSUME MatchInv, ~(blocked < MaxBlocked)
               PROVE  BlockedCoversDuplicates
    OBVIOUS
  <2> DEFINE stamped ==
        {p \in processed \X Rules :
           p[2] \in answered[p[1]] /\ \A j \in Jobs :
             jobs[j].rule = p[2] => jobs[j].comment # About[p[1]]}
  <2>1. stamped \subseteq Events \X Rules
    BY DEF MatchInv, TypeOK, Arrived
  <2>2. IsFiniteSet(Events \X Rules)
    BY EventAssumption, FS_Product
  <2>3. /\ Cardinality(stamped) <= Cardinality(Events \X Rules)
        /\ IsFiniteSet(stamped)
    BY <2>1, <2>2, FS_Subset
  <2>4. Cardinality(stamped) \in Nat /\ Cardinality(Events \X Rules) \in Nat
    BY <2>2, <2>3, FS_CardinalityType
  <2>5. blocked = MaxBlocked /\ MaxBlocked \in Nat
    BY EventAssumption DEF MatchInv, TypeOK
  <2>6. Cardinality(stamped) <= blocked
    BY <2>3, <2>4, <2>5
  <2> QED
    BY <2>6 DEF BlockedCoversDuplicates
<1> QED
  BY <1>1, DuplicatesAreCounted, IntakeInvariance, PTL
=============================================================================
