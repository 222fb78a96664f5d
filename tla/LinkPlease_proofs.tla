--------------------------- MODULE LinkPlease_proofs ---------------------------
(***************************************************************************)
(* The process is a Delivery and it is a Matcher.  The two halves share    *)
(* dm_jobs and rules, so each refinement needs the other half's invariant: *)
(* that a row the worker holds is still SENDING comes from Delivery's      *)
(* IInv, that a handler's event is of the feed from Matcher's MatchInv.    *)
(* Hence one invariant, BothInv, and for each half a lemma that every step *)
(* of the process is a step of that half.                                  *)
(***************************************************************************)
EXTENDS LinkPleaseRefinement, Delivery_proofs

\* The proofs of Matcher, of the rows as the matcher sees them.
MP == INSTANCE MatcherRefinement_proofs WITH jobs <- [j \in Jobs |-> Seen(jobs[j])]

\* The instances of FiniteSets count alike.
LEMMA SameCardinality ==
  ASSUME NEW S
  PROVE  /\ M!Cardinality(S) = Cardinality(S) /\ MP!Cardinality(S) = Cardinality(S)
         /\ I!Cardinality(S) = Cardinality(S)
         /\ MP!IsFiniteSet(S) <=> IsFiniteSet(S)
BY DEF M!Cardinality, MP!Cardinality, I!Cardinality, Cardinality, MP!IsFiniteSet,
       IsFiniteSet

\* What the proofs of Matcher assume follows from what the process assumes.
LEMMA IntakeAssumptions == MP!ConfigAssumption /\ MP!EventAssumption
<1>1. MP!ConfigAssumption
  BY ConfigAssumption DEF MP!ConfigAssumption, MP!Keys, MP!Cycles, Keys, Cycles
<1>2. MP!EventAssumption
  BY IntakeAssumption, SameCardinality
  DEF MP!EventAssumption, MP!EventTypes, M!EventTypes
<1> QED
  BY <1>1, <1>2

\* Intake and delivery, each with the invariant that was proved of it.
BothInv == IInv /\ MP!MatchInv

\* What the matcher sees of a row.
LEMMA SeenIs ==
  ASSUME NEW row \in Row
  PROVE  Seen(row) = [status |-> row.status, rule |-> row.rule, comment |-> row.comment,
                      attempt |-> 0, cycle |-> 0, dm |-> Null, error |-> "none"]
<1> DEFINE r1 == [row EXCEPT !.attempt = 0]
           r2 == [r1 EXCEPT !.cycle = 0]
           r3 == [r2 EXCEPT !.dm = Null]
<1>1. r1 = [status |-> row.status, rule |-> row.rule, comment |-> row.comment,
            attempt |-> 0, cycle |-> row.cycle, dm |-> row.dm, error |-> row.error]
  BY DEF Row
<1> HIDE DEF r1
<1>2. r2 = [status |-> row.status, rule |-> row.rule, comment |-> row.comment,
            attempt |-> 0, cycle |-> 0, dm |-> row.dm, error |-> row.error]
  BY <1>1
<1> HIDE DEF r2
<1>3. r3 = [status |-> row.status, rule |-> row.rule, comment |-> row.comment,
            attempt |-> 0, cycle |-> 0, dm |-> Null, error |-> row.error]
  BY <1>2
<1> HIDE DEF r3
<1>4. Seen(row) = [r3 EXCEPT !.error = "none"]
  BY DEF Seen, r1, r2, r3
<1> QED
  BY <1>3, <1>4

\* A row that was never written and a row just inserted are rows.
LEMMA NewRowsTyped ==
  /\ NoRow \in Row
  /\ \A r \in Rules, c \in Comments : NewRow(r, c) \in Row
BY ConfigAssumption DEF NoRow, NewRow, Row, Statuses, Owed, Errors, Cycles

\* The projection keeps the status, the rule and the comment.
LEMMA SeenRow ==
  ASSUME BothInv, NEW j \in Jobs
  PROVE  /\ jobs[j] \in Row
         /\ Seen(jobs[j]).status = jobs[j].status
         /\ Seen(jobs[j]).rule = jobs[j].rule
         /\ Seen(jobs[j]).comment = jobs[j].comment
<1>1. jobs[j] \in Row
  BY DEF BothInv, IInv, TypeOK
<1> QED
  BY <1>1, SeenIs

\* A handler at work has an event of the feed, with a comment.
LEMMA HandlerKnown ==
  ASSUME BothInv, NEW x \in M!Handlers
  PROVE  handler[x].pc # "idle" => /\ handler[x].event \in Events
                                   /\ About[handler[x].event] \in Comments
<1>1. MP!HandlersAreOK
  BY DEF BothInv, MP!MatchInv
<1>2. MP!HandlerOK(handler[x])
  BY <1>1 DEF MP!HandlersAreOK, M!Handlers, MP!Handlers
<1> QED
  BY <1>2, IntakeAssumption DEF MP!HandlerOK, MP!Arrived

\* A fresh process satisfies both invariants and is a fresh matcher.
LEMMA InitBoth == ProcessInit => BothInv /\ I!Init /\ MP!Init
<1> SUFFICES ASSUME ProcessInit PROVE BothInv /\ I!Init /\ MP!Init
  OBVIOUS
<1>1. IInv
  BY InitInv DEF ProcessInit
<1>2. [j \in Jobs |-> Seen(jobs[j])] = [j \in Jobs |-> NoRow]
  <2>1. Seen(NoRow) = NoRow
    BY NewRowsTyped, SeenIs DEF NoRow
  <2> QED
    BY <2>1 DEF ProcessInit, Init, TablesInit
<1>3. MP!Init /\ I!Init
  BY <1>2 DEF ProcessInit, M!Init, MP!Init, MP!TablesInit, I!Init, I!TablesInit,
              M!TablesInit,
    M!IdleHandler, MP!IdleHandler, I!IdleHandler, M!Handlers, MP!Handlers, I!Handlers, NoRow,
    MP!NoRow, I!NoRow, Init, TablesInit
<1>4. MP!MatchInv
  BY <1>3, MP!InitInv, IntakeAssumptions
<1> QED
  BY <1>1, <1>3, <1>4 DEF BothInv

\* Of the tables, intake does to delivery only what Tables allows: a row inserted,
\* queued rows of a comment cancelled, a rule added or removed.
LEMMA IntakeIsDelivery ==
  ASSUME BothInv, Intake
  PROVE  [Next]_vars
<1> USE DEF vars, deliveryVars
<1>1. CASE UNCHANGED <<jobs, rules>>
  BY <1>1 DEF Intake
<1>2. CASE M!RulesApi
  <2>1. PICK r \in Rules : AddRule(r) \/ RemoveRule(r)
    BY <1>2 DEF M!RulesApi, M!AddRule, M!RemoveRule, AddRule, RemoveRule
  <2> QED
    BY <2>1 DEF Intake, Next, Tables
<1>3. ASSUME NEW x \in M!Handlers, M!Handle(x)
      PROVE  Tables \/ UNCHANGED <<jobs, rules>>
  <2>1. CASE M!ReadTombstone(x) \/ M!ReadRules(x) \/ M!AddTombstone(x) \/ M!MarkProcessed(x)
    BY <2>1 DEF M!ReadTombstone, M!ReadRules, M!AddTombstone, M!MarkProcessed, M!tables
  <2>2. ASSUME NEW r \in Rules, M!EnsureObligation(x, r)
        PROVE  Tables \/ UNCHANGED <<jobs, rules>>
    <3>1. M!Comment(x) \in Comments
      BY <2>2, HandlerKnown DEF M!EnsureObligation, M!Comment
    <3>2. CASE M!InsertJob(r, M!Comment(x))
      <4>1. InsertJob(r, M!Comment(x))
        BY <3>2 DEF M!InsertJob, InsertJob, M!HasLiveRow, HasLiveRow, M!Live, Live,
                    M!IsFor,
          IsFor, M!InStatus, InStatus, M!NewRow, NewRow
      <4> QED
        BY <3>1, <4>1 DEF Tables, Intake
    <3>3. CASE UNCHANGED M!tables
      BY <3>3 DEF M!tables
    <3> QED
      BY <2>2, <3>2, <3>3 DEF M!EnsureObligation
  <2>3. CASE M!CancelQueued(x)
    <3>1. M!Comment(x) \in Comments
      BY <2>3, HandlerKnown DEF M!CancelQueued, M!Comment
    <3>2. CancelJobs(M!Comment(x))
      BY <2>3 DEF M!CancelQueued, M!CancelJobs, M!CancelRows, CancelJobs, CancelRows
    <3> QED
      BY <3>1, <3>2 DEF Tables, Intake
  <2> QED
    BY <1>3, <2>1, <2>2, <2>3 DEF M!Handle
<1>4. ASSUME NEW x \in M!Handlers, M!HandlerFails(x)
      PROVE  UNCHANGED <<jobs, rules>>
  BY <1>4 DEF M!HandlerFails, M!Fail, M!tables
<1>5. ASSUME \/ \E e \in Events : M!Receive(e) \/ M!Redelivery(e) \/ M!NextFetched(e)
             \/ M!BumpSuppressed \/ M!Sweep \/ M!Booted
      PROVE  UNCHANGED <<jobs, rules>>
  BY <1>5 DEF M!Receive, M!Redelivery, M!NextFetched, M!BumpSuppressed, M!Sweep,
              M!Booted, M!tables
<1> QED
  BY <1>1, <1>2, <1>3, <1>4, <1>5 DEF Intake, Next

\* Every step of the process is a step of Delivery or leaves its variables alone.
LEMMA StepIsDelivery ==
  ASSUME BothInv, [ProcessNext]_processVars
  PROVE  [Next]_vars
<1>1. CASE Intake
  BY <1>1, IntakeIsDelivery
<1>2. CASE Delivering
  BY <1>2 DEF Delivering, Next, WorkerStep
<1>3. CASE CrashAndBoot
  BY <1>3 DEF CrashAndBoot, Next
<1> QED
  BY <1>1, <1>2, <1>3 DEF ProcessNext, processVars

\* The steps of intake that leave the tables alone are the matcher's own.
LEMMA QuietIntake ==
  ASSUME UNCHANGED <<jobs, rules>>,
         \/ \E e \in Events : M!Receive(e) \/ M!Redelivery(e) \/ M!NextFetched(e)
         \/ M!BumpSuppressed \/ M!Sweep \/ M!Booted
         \/ \E x \in M!Handlers : M!HandlerFails(x)
  PROVE  I!Next /\ MP!Next
<1> USE SameCardinality DEF M!Arrived, I!Arrived, MP!Arrived, M!Handlers, I!Handlers,
                            MP!Handlers, M!IdleHandler, I!IdleHandler, MP!IdleHandler,
                            M!Started, I!Started, MP!Started, M!tables, I!tables,
                            MP!tables, M!done, I!done, MP!done, M!webhook, I!webhook,
                            MP!webhook, M!loop, I!loop, MP!loop, M!Pending, I!Pending,
                            MP!Pending, M!Oldest, I!Oldest, MP!Oldest
<1>1. ASSUME NEW e \in Events, M!Receive(e) PROVE I!Receive(e) /\ MP!Receive(e)
  BY <1>1 DEF M!Receive, I!Receive, MP!Receive
<1>2. ASSUME NEW e \in Events, M!Redelivery(e) PROVE I!Redelivery(e) /\ MP!Redelivery(e)
  BY <1>2 DEF M!Redelivery, I!Redelivery, MP!Redelivery
<1>3. ASSUME NEW e \in Events, M!NextFetched(e) PROVE I!NextFetched(e) /\ MP!NextFetched(e)
  BY <1>3 DEF M!NextFetched, I!NextFetched, MP!NextFetched
<1>4. ASSUME M!BumpSuppressed PROVE I!BumpSuppressed /\ MP!BumpSuppressed
  BY <1>4 DEF M!BumpSuppressed, I!BumpSuppressed, MP!BumpSuppressed
<1>5. ASSUME M!Sweep PROVE I!Sweep /\ MP!Sweep
  BY <1>5 DEF M!Sweep, I!Sweep, MP!Sweep
<1>6. ASSUME M!Booted PROVE I!Booted /\ MP!Booted
  BY <1>6 DEF M!Booted, I!Booted, MP!Booted
<1>7. ASSUME NEW x \in M!Handlers, M!HandlerFails(x)
      PROVE  I!HandlerFails(x) /\ MP!HandlerFails(x)
  BY <1>7 DEF M!HandlerFails, I!HandlerFails, MP!HandlerFails, M!Fail, I!Fail, MP!Fail,
              M!End, I!End, MP!End
<1> QED
  BY <1>1, <1>2, <1>3, <1>4, <1>5, <1>6, <1>7 DEF I!Next, MP!Next

\* A handler's step on the rows is that step on what the matcher sees of them.
LEMMA HandleIntake ==
  ASSUME BothInv, NEW x \in M!Handlers, M!Handle(x), jobs' \in [Jobs -> Row]
  PROVE  I!Next /\ MP!Next
<1> USE SameCardinality DEF M!Arrived, I!Arrived, MP!Arrived, M!Handlers, I!Handlers,
                            MP!Handlers, M!IdleHandler, I!IdleHandler, MP!IdleHandler,
                            M!tables, I!tables, MP!tables, M!done, I!done, MP!done,
                            M!webhook, I!webhook, MP!webhook, M!loop, I!loop, MP!loop
<1>1. CASE M!ReadTombstone(x)
  <2>1. I!ReadTombstone(x) /\ MP!ReadTombstone(x)
    BY <1>1 DEF M!ReadTombstone, I!ReadTombstone, MP!ReadTombstone, M!Goto, I!Goto,
                MP!Goto, M!Comment, I!Comment, MP!Comment
  <2> QED
    BY <2>1 DEF M!Handle, I!Handle, MP!Handle, I!Next, MP!Next
<1>2. CASE M!ReadRules(x)
  <2>1. I!ReadRules(x) /\ MP!ReadRules(x)
    BY <1>2 DEF M!ReadRules, I!ReadRules, MP!ReadRules, M!Comment, I!Comment, MP!Comment
  <2> QED
    BY <2>1 DEF M!Handle, I!Handle, MP!Handle, I!Next, MP!Next
<1>3. CASE M!AddTombstone(x)
  <2>1. I!AddTombstone(x) /\ MP!AddTombstone(x)
    BY <1>3 DEF M!AddTombstone, I!AddTombstone, MP!AddTombstone, M!Goto, I!Goto,
                MP!Goto, M!Comment, I!Comment, MP!Comment
  <2> QED
    BY <2>1 DEF M!Handle, I!Handle, MP!Handle, I!Next, MP!Next
<1>4. CASE M!MarkProcessed(x)
  <2>1. I!MarkProcessed(x) /\ MP!MarkProcessed(x)
    BY <1>4 DEF M!MarkProcessed, I!MarkProcessed, MP!MarkProcessed, M!End, I!End, MP!End
  <2> QED
    BY <2>1 DEF M!Handle, I!Handle, MP!Handle, I!Next, MP!Next
<1>5. ASSUME NEW r \in Rules, M!EnsureObligation(x, r)
      PROVE  I!Next /\ MP!Next
  <2> DEFINE c == M!Comment(x)
  <2>1. c \in Comments /\ I!Comment(x) = c /\ MP!Comment(x) = c
    BY <1>5, HandlerKnown DEF M!EnsureObligation, M!Comment, I!Comment, MP!Comment
  <2>2. M!HasLiveRow(r, c) <=> I!HasLiveRow(r, c)
    BY SeenRow DEF M!HasLiveRow, I!HasLiveRow, M!Live, I!Live, M!IsFor, I!IsFor
  <2>3. I!HasLiveRow(r, c) <=> MP!HasLiveRow(r, c)
    BY DEF MP!HasLiveRow, I!HasLiveRow, MP!Live, I!Live, MP!IsFor, I!IsFor
  <2>4. M!InsertJob(r, c) => I!InsertJob(r, c) /\ MP!InsertJob(r, c)
    <3> SUFFICES ASSUME M!InsertJob(r, c) PROVE I!InsertJob(r, c) /\ MP!InsertJob(r, c)
      OBVIOUS
    <3>1. PICK j \in M!InStatus("ABSENT") : jobs' = [jobs EXCEPT ![j] = M!NewRow(r, c)]
      BY DEF M!InsertJob
    <3>2. Seen(NewRow(r, c)) = NewRow(r, c)
      BY <2>1, NewRowsTyped, SeenIs DEF NewRow
    <3>3. /\ M!NewRow(r, c) = NewRow(r, c) /\ I!NewRow(r, c) = NewRow(r, c)
          /\ MP!NewRow(r, c) = NewRow(r, c)
      BY DEF M!NewRow, I!NewRow, MP!NewRow, NewRow
    <3>4. j \in Jobs /\ j \in I!InStatus("ABSENT") /\ j \in MP!InStatus("ABSENT")
      BY <3>1, SeenRow DEF M!InStatus, I!InStatus, MP!InStatus
    <3>5. [i \in Jobs |-> Seen(jobs'[i])] =
            [[i \in Jobs |-> Seen(jobs[i])] EXCEPT ![j] = NewRow(r, c)]
      BY <3>1, <3>2, <3>3, <3>4 DEF BothInv, IInv, TypeOK
    <3> QED
      BY <2>2, <2>3, <3>3, <3>4, <3>5 DEF M!InsertJob, I!InsertJob, MP!InsertJob
  <2>5. UNCHANGED M!tables => UNCHANGED I!tables /\ UNCHANGED MP!tables
    OBVIOUS
  <2>6. I!EnsureObligation(x, r) /\ MP!EnsureObligation(x, r)
    BY <1>5, <2>1, <2>2, <2>3, <2>4, <2>5
    DEF M!EnsureObligation, I!EnsureObligation, MP!EnsureObligation, M!NextRule,
        I!NextRule, MP!NextRule, M!CountBlocked, I!CountBlocked, MP!CountBlocked, M!End,
        I!End, MP!End
  <2> QED
    BY <2>6 DEF M!Handle, I!Handle, MP!Handle, I!Next, MP!Next
<1>6. CASE M!CancelQueued(x)
  <2> DEFINE c == M!Comment(x)
  <2>1. I!Comment(x) = c /\ MP!Comment(x) = c
    BY DEF M!Comment, I!Comment, MP!Comment
  <2>2. [j \in Jobs |-> Seen(jobs'[j])] =
          [j \in Jobs |-> IF Seen(jobs[j]).status \in {"QUEUED"} /\ Seen(jobs[j]).comment = c
                          THEN [Seen(jobs[j]) EXCEPT !.status = "CANCELLED"]
                          ELSE Seen(jobs[j])]
    <3> SUFFICES ASSUME NEW j \in Jobs
                 PROVE  Seen(jobs'[j]) =
                          IF Seen(jobs[j]).status \in {"QUEUED"} /\ Seen(jobs[j]).comment = c
                          THEN [Seen(jobs[j]) EXCEPT !.status = "CANCELLED"]
                          ELSE Seen(jobs[j])
      OBVIOUS
    <3>1. jobs'[j] = IF jobs[j].status \in {"QUEUED"} /\ jobs[j].comment = c
                     THEN [jobs[j] EXCEPT !.status = "CANCELLED"] ELSE jobs[j]
      BY <1>6 DEF M!CancelQueued, M!CancelJobs, M!CancelRows
    <3>2. jobs[j] \in Row /\ jobs'[j] \in Row
      BY SeenRow
    <3>3. CASE jobs[j].status = "QUEUED" /\ jobs[j].comment = c
      <4>1. /\ jobs'[j].status = "CANCELLED" /\ jobs'[j].rule = jobs[j].rule
            /\ jobs'[j].comment = jobs[j].comment
        BY <3>1, <3>2, <3>3 DEF Row
      <4>2. Seen(jobs'[j]) = [Seen(jobs[j]) EXCEPT !.status = "CANCELLED"]
        BY <3>2, <4>1, SeenIs
      <4> QED
        BY <3>3, <4>2, SeenRow
    <3> QED
      BY <3>1, <3>3, SeenRow
  <2>3. I!CancelJobs(c) /\ MP!CancelJobs(c)
    BY <1>6, <2>2 DEF M!CancelQueued, M!CancelJobs, I!CancelJobs, MP!CancelJobs,
                      M!CancelRows, I!CancelRows, MP!CancelRows
  <2>4. I!CancelQueued(x) /\ MP!CancelQueued(x)
    BY <1>6, <2>1, <2>3 DEF M!CancelQueued, I!CancelQueued, MP!CancelQueued, M!Goto,
                            I!Goto, MP!Goto
  <2> QED
    BY <2>4 DEF M!Handle, I!Handle, MP!Handle, I!Next, MP!Next
<1> QED
  BY <1>1, <1>2, <1>3, <1>4, <1>5, <1>6 DEF M!Handle

\* So are the calls of the rules API.
LEMMA RulesApiIntake ==
  ASSUME BothInv, M!RulesApi
  PROVE  I!Next /\ MP!Next
<1> USE DEF M!intakeVars, I!intakeVars, MP!intakeVars, M!webhook, I!webhook, MP!webhook,
            M!done, I!done, MP!done, M!loop, I!loop, MP!loop
<1>1. PICK r \in Rules : M!AddRule(r) \/ M!RemoveRule(r)
  BY DEF M!RulesApi
<1>2. M!AddRule(r) => I!AddRule(r) /\ MP!AddRule(r)
  BY DEF M!AddRule, I!AddRule, MP!AddRule
<1>3. M!RemoveRule(r) => I!RemoveRule(r) /\ MP!RemoveRule(r)
  BY SeenRow DEF M!RemoveRule, I!RemoveRule, MP!RemoveRule
<1> QED
  BY <1>1, <1>2, <1>3 DEF M!RulesApi, I!RulesApi, MP!RulesApi, I!Next, MP!Next

\* So is a crash.
LEMMA CrashIntake ==
  ASSUME CrashAndBoot
  PROVE  I!Next /\ MP!Next
<1> USE SameCardinality DEF M!Arrived, I!Arrived, MP!Arrived, M!Handlers, I!Handlers,
                            MP!Handlers, M!IdleHandler, I!IdleHandler, MP!IdleHandler,
                            M!tables, I!tables, MP!tables, M!done, I!done, MP!done,
                            M!webhook, I!webhook, MP!webhook, M!loop, I!loop, MP!loop,
                            M!Pending, I!Pending, MP!Pending, M!Oldest, I!Oldest,
                            MP!Oldest, M!Created, I!Created, MP!Created
<1>1. I!Crash /\ MP!Crash
  BY DEF CrashAndBoot, M!Crash, I!Crash, MP!Crash
<1> QED
  BY <1>1 DEF I!Next, MP!Next

\* A step of the matcher, or a stutter of it.
IntakeSteps == (I!Next /\ MP!Next) \/ (UNCHANGED I!vars /\ UNCHANGED MP!vars)

\* The rows J go to a status along Moves, keep rule and comment; the others stay.
Moved(J, status) ==
  /\ J # {}
  /\ \A j \in J : /\ <<jobs[j].status, status>> \in M!Moves
                  /\ jobs'[j].status = status
                  /\ jobs'[j].rule = jobs[j].rule
                  /\ jobs'[j].comment = jobs[j].comment
  /\ \A j \in Jobs \ J : jobs'[j] = jobs[j]

\* For the matcher, such a step is a step of delivery.
LEMMA MoveIntake ==
  ASSUME BothInv, jobs' \in [Jobs -> Row], UNCHANGED rules, UNCHANGED intakeVars,
         NEW J \in SUBSET Jobs, NEW status \in Statuses, Moved(J, status)
  PROVE  IntakeSteps
<1> USE DEF Moved
<1>1. [j \in Jobs |-> Seen(jobs'[j])] =
        [j \in Jobs |-> IF j \in J THEN [Seen(jobs[j]) EXCEPT !.status = status]
                                   ELSE Seen(jobs[j])]
  <2> SUFFICES ASSUME NEW j \in Jobs
               PROVE  Seen(jobs'[j]) = IF j \in J THEN [Seen(jobs[j]) EXCEPT !.status = status]
                                                  ELSE Seen(jobs[j])
    OBVIOUS
  <2>1. CASE j \in J
    <3>1. jobs[j] \in Row /\ jobs'[j] \in Row
      BY SeenRow
    <3>2. /\ jobs'[j].status = status /\ jobs'[j].rule = jobs[j].rule
          /\ jobs'[j].comment = jobs[j].comment
      BY <2>1
    <3>3. Seen(jobs'[j]) = [status |-> status, rule |-> jobs[j].rule,
                            comment |-> jobs[j].comment, attempt |-> 0, cycle |-> 0,
                            dm |-> Null, error |-> "none"]
      BY <3>1, <3>2, SeenIs
    <3>4. Seen(jobs[j]) = [status |-> jobs[j].status, rule |-> jobs[j].rule,
                           comment |-> jobs[j].comment, attempt |-> 0, cycle |-> 0,
                           dm |-> Null, error |-> "none"]
      BY <3>1, SeenIs
    <3> QED
      BY <2>1, <3>3, <3>4
  <2> QED
    BY <2>1
<1>2. \A j \in J : <<Seen(jobs[j]).status, status>> \in M!Moves
  BY SeenRow
<1>3. I!Delivery(J, status) /\ MP!Delivery(J, status)
  BY <1>1, <1>2
  DEF M!Moves, I!Moves, MP!Moves, I!Delivery, MP!Delivery, intakeVars, I!intakeVars,
      MP!intakeVars, I!webhook, MP!webhook, I!done, MP!done, I!loop, MP!loop
<1>4. I!Statuses = Statuses /\ MP!Statuses = Statuses
  BY DEF Statuses, I!Statuses, MP!Statuses, Owed, I!Owed, MP!Owed,
         Terminal, I!Terminal, MP!Terminal
<1>5. \E K \in SUBSET Jobs, s \in I!Statuses : I!Delivery(K, s)
  BY <1>3, <1>4
<1>6. \E K \in SUBSET Jobs, s \in MP!Statuses : MP!Delivery(K, s)
  BY <1>3, <1>4
<1> QED
  BY <1>5, <1>6 DEF I!Next, MP!Next, IntakeSteps

\* A step of delivery that leaves the tables alone is a stutter of the matcher.
LEMMA QuietDelivering ==
  ASSUME UNCHANGED <<jobs, rules, intakeVars>>
  PROVE  UNCHANGED I!vars /\ UNCHANGED MP!vars
BY DEF intakeVars, I!vars, MP!vars, I!tables, MP!tables, I!intakeVars, MP!intakeVars,
       I!webhook,
       MP!webhook, I!done, MP!done, I!loop, MP!loop

\* Every step of the worker, the reconciler and the requeue moves rows along an edge
\* of Moves, or changes nothing the matcher sees.
LEMMA DeliveringIntake ==
  ASSUME BothInv, Delivering, jobs' \in [Jobs -> Row]
  PROVE  IntakeSteps
<1>1. jobs \in [Jobs -> Row] /\ worker \in Worker /\ IInv /\ UNCHANGED intakeVars
  BY DEF BothInv, IInv, TypeOK, Delivering
<1>2. CASE UNCHANGED <<jobs, rules>>
  BY <1>1, <1>2, QuietDelivering DEF IntakeSteps
<1>3. ASSUME NEW j \in Jobs, NEW row, jobs' = [jobs EXCEPT ![j] = row], UNCHANGED rules,
             <<jobs[j].status, row.status>> \in M!Moves,
             row.rule = jobs[j].rule, row.comment = jobs[j].comment
      PROVE  IntakeSteps
  <2>1. jobs'[j] = row /\ \A i \in Jobs \ {j} : jobs'[i] = jobs[i]
    BY <1>1, <1>3
  <2>2. row.status \in Statuses
    BY <1>1, <2>1 DEF Row
  <2>3. Moved({j}, row.status)
    BY <1>3, <2>1 DEF Moved
  <2>4. {j} \in SUBSET Jobs /\ UNCHANGED rules /\ UNCHANGED intakeVars
    BY <1>1, <1>3
  <2> QED
    BY <2>2, <2>3, <2>4, MoveIntake
<1>4. ASSUME NEW j \in Jobs, Claim(j) PROVE IntakeSteps
  <2> DEFINE row == [jobs[j] EXCEPT !.status = "SENDING"]
  <2>1. jobs' = [jobs EXCEPT ![j] = row] /\ jobs[j].status = "QUEUED" /\ UNCHANGED rules
    BY <1>1, <1>4 DEF Claim
  <2>2. row.status = "SENDING" /\ row.rule = jobs[j].rule /\ row.comment = jobs[j].comment
    BY <1>1 DEF Row
  <2>3. <<jobs[j].status, row.status>> \in M!Moves
    BY <2>1, <2>2 DEF M!Moves
  <2> HIDE DEF row
  <2> QED
    BY <1>3, <2>1, <2>2, <2>3
<1>5. ASSUME RecordAccepted \/ RecordRateLimited \/ RecordUnsendable \/ RecordFailedAttempt
      PROVE  IntakeSteps
  <2>1. worker.pc # "idle"
    BY <1>5 DEF RecordAccepted, RecordRateLimited, RecordUnsendable,
                RecordFailedAttempt, Record
  <2>2. worker.job \in Jobs /\ jobs[worker.job].status = "SENDING" /\ jobs[worker.job] \in Row
    BY <1>1, <2>1, WorkerKeyIsKnown
  <2>3. UNCHANGED rules
    BY <1>5 DEF RecordAccepted, RecordRateLimited, RecordUnsendable,
                RecordFailedAttempt, Record
  <2>4. PICK row : /\ jobs' = [jobs EXCEPT ![worker.job] = row]
                   /\ row.status \in {"AWAITING_CONFIRM", "QUEUED", "FAILED"}
                   /\ row.rule = jobs[worker.job].rule
                   /\ row.comment = jobs[worker.job].comment
    <3> DEFINE old == jobs[worker.job]
               Written(row) == jobs' = [jobs EXCEPT ![worker.job] = row]
    <3>1. CASE RecordAccepted
      <4> DEFINE row == [old EXCEPT !.status = "AWAITING_CONFIRM", !.dm = Key, !.error = "none"]
      <4>1. Written(row)
        BY <3>1 DEF RecordAccepted, Record
      <4>2. row.status = "AWAITING_CONFIRM" /\ row.rule = old.rule /\ row.comment = old.comment
        BY <2>2 DEF Row
      <4> QED
        BY <4>1, <4>2
    <3>2. CASE RecordRateLimited
      <4> DEFINE row == [old EXCEPT !.status = "QUEUED", !.error = "rate_limited"]
      <4>1. Written(row)
        BY <3>2 DEF RecordRateLimited, Record
      <4>2. row.status = "QUEUED" /\ row.rule = old.rule /\ row.comment = old.comment
        BY <2>2 DEF Row
      <4> QED
        BY <4>1, <4>2
    <3>3. CASE RecordUnsendable
      <4> DEFINE row == [old EXCEPT !.status = "FAILED",
                           !.error = IF worker.pc = "no_rule" THEN "rule_missing"
                                                              ELSE "bad_request"]
      <4>1. Written(row)
        BY <3>3 DEF RecordUnsendable, Record
      <4>2. row.status = "FAILED" /\ row.rule = old.rule /\ row.comment = old.comment
        BY <2>2 DEF Row
      <4> QED
        BY <4>1, <4>2
    <3>4. CASE RecordFailedAttempt
      <4> DEFINE row == [old EXCEPT
                           !.status = IF worker.attempt + 1 >= MaxAttempts THEN "FAILED"
                                                                          ELSE "QUEUED",
                           !.attempt = worker.attempt + 1, !.error = "attempt_failed"]
      <4>1. Written(row)
        BY <3>4 DEF RecordFailedAttempt, Record
      <4>2. /\ row.status \in {"QUEUED", "FAILED"} /\ row.rule = old.rule
            /\ row.comment = old.comment
        BY <2>2 DEF Row
      <4> QED
        BY <4>1, <4>2
    <3> QED
      BY <1>5, <3>1, <3>2, <3>3, <3>4
  <2> QED
    BY <1>3, <2>2, <2>3, <2>4 DEF M!Moves
<1>6. ASSUME NEW old \in SUBSET InStatus("SENDING"), RequeueStale(old) PROVE IntakeSteps
  <2>1. old \in SUBSET Jobs /\ old # {} /\ UNCHANGED rules /\ "QUEUED" \in Statuses
    BY <1>6 DEF RequeueStale, InStatus, Statuses, Owed
  <2>2. \A j \in old : /\ jobs[j].status = "SENDING" /\ jobs'[j].status = "QUEUED"
                       /\ jobs'[j].rule = jobs[j].rule /\ jobs'[j].comment = jobs[j].comment
    BY <1>1, <1>6, <2>1 DEF RequeueStale, InStatus, Row
  <2>3. \A j \in Jobs \ old : jobs'[j] = jobs[j]
    BY <1>6 DEF RequeueStale
  <2>4. Moved(old, "QUEUED")
    BY <2>1, <2>2, <2>3 DEF Moved, M!Moves
  <2>5. UNCHANGED intakeVars
    BY <1>1
  <2> QED
    BY <2>1, <2>4, <2>5, MoveIntake
<1>7. ASSUME NEW j \in Jobs, ConfirmSent(j) \/ RequeueNewCycle(j) \/ GiveUp(j)
      PROVE  IntakeSteps
  <2>1. batch[j].pc # "none" /\ UNCHANGED rules
    BY <1>7 DEF ConfirmSent, RequeueNewCycle, GiveUp, Resolve
  <2>2. jobs[j].status = "AWAITING_CONFIRM" /\ jobs[j] \in Row
    BY <1>1, <2>1 DEF IInv, PollsAreCurrent
  <2>3. PICK row : /\ jobs' = [jobs EXCEPT ![j] = row]
                   /\ row.status \in {"SENT", "QUEUED", "FAILED"}
                   /\ row.rule = jobs[j].rule /\ row.comment = jobs[j].comment
    <3>1. CASE ConfirmSent(j)
      BY <2>2, <3>1 DEF ConfirmSent, Resolve, Row
    <3>2. CASE RequeueNewCycle(j)
      BY <2>2, <3>2 DEF RequeueNewCycle, Resolve, Row
    <3>3. CASE GiveUp(j)
      BY <2>2, <3>3 DEF GiveUp, Resolve, Row
    <3> QED
      BY <1>7, <3>1, <3>2, <3>3
  <2> QED
    BY <1>3, <2>1, <2>2, <2>3 DEF M!Moves
<1>8. ASSUME StartSend \/ WorkerException \/ Server
             \/ (\E due \in SUBSET InStatus("AWAITING_CONFIRM") : FetchBatch(due))
             \/ (\E j \in Jobs : ReadStatus(j) \/ Reschedule(j))
      PROVE  UNCHANGED <<jobs, rules>>
  BY <1>8 DEF StartSend, WorkerException, FetchBatch, ReadStatus, Reschedule, Server,
              AnswerAccepted, AnswerRefused, AnswerServerError,
              TransportError, LateArrival, Settle
<1> QED
  BY <1>2, <1>4, <1>5, <1>6, <1>7, <1>8 DEF Delivering, WorkerStep, ReconcilerStep

\* Every step of the process is a step of Matcher over the Seen rows, or a stutter.
LEMMA StepIsIntake ==
  ASSUME BothInv, [ProcessNext]_processVars, jobs' \in [Jobs -> Row]
  PROVE  [I!Next]_(I!vars) /\ [MP!Next]_(MP!vars)
<1>1. CASE Intake
  <2>1. CASE UNCHANGED <<jobs, rules>> /\ ~(\E x \in M!Handlers : M!Handle(x)) /\ ~M!RulesApi
    BY <1>1, <2>1, QuietIntake DEF Intake
  <2>2. ASSUME NEW x \in M!Handlers, M!Handle(x) PROVE I!Next /\ MP!Next
    BY <2>2, HandleIntake
  <2>3. CASE M!RulesApi
    BY <2>3, RulesApiIntake
  <2>4. ASSUME NEW x \in M!Handlers, M!HandlerFails(x)
      PROVE  UNCHANGED <<jobs, rules>>
    BY <2>4 DEF M!HandlerFails, M!Fail, M!tables
  <2>5. ASSUME \/ \E e \in Events : M!Receive(e) \/ M!Redelivery(e) \/ M!NextFetched(e)
               \/ M!BumpSuppressed \/ M!Sweep \/ M!Booted
        PROVE  UNCHANGED <<jobs, rules>>
    BY <2>5 DEF M!Receive, M!Redelivery, M!NextFetched, M!BumpSuppressed, M!Sweep,
                M!Booted, M!tables
  <2> QED
    BY <1>1, <2>1, <2>2, <2>3, <2>4, <2>5 DEF Intake
<1>2. CASE Delivering
  BY <1>2, DeliveringIntake DEF IntakeSteps
<1>3. CASE CrashAndBoot
  BY <1>3, CrashIntake
<1>4. CASE UNCHANGED processVars
  BY <1>4, QuietDelivering DEF processVars, vars
<1> QED
  BY <1>1, <1>2, <1>3, <1>4 DEF ProcessNext

\* Each half keeps its own invariant in every step of the other.
LEMMA BothStep == BothInv /\ [ProcessNext]_processVars => BothInv'
<1> SUFFICES ASSUME BothInv, [ProcessNext]_processVars PROVE BothInv'
  OBVIOUS
<1>1. IInv'
  BY StepIsDelivery, NextInv DEF BothInv
<1>2. jobs' \in [Jobs -> Row]
  BY <1>1 DEF IInv, TypeOK
<1>3. MP!MatchInv'
  BY <1>2, StepIsIntake, MP!NextInv, IntakeAssumptions DEF BothInv
<1> QED
  BY <1>1, <1>3 DEF BothInv

\* The invariants of Delivery and of Matcher hold together in the whole process:
\* neither half breaks what the other relies on (worker.py, reconciler.py, matcher.py
\* over the tables they share).
THEOREM ProcessInvariance == ProcessSpec => []BothInv
<1>1. ProcessInit => BothInv
  BY InitBoth
<1> QED
  BY <1>1, BothStep, PTL DEF ProcessSpec

\* The process implements Delivery, so all that was proved of Delivery holds of it
\* (matcher.py _ensure_obligation, _handle_deleted; rules.py delete_rule).
THEOREM ProcessImplementsDelivery == ProcessSpec => DeliveryImplemented
<1>1. ProcessInit => Init
  BY DEF ProcessInit
<1>2. BothInv /\ [ProcessNext]_processVars => [Next]_vars
  BY StepIsDelivery
<1> QED
  BY <1>1, <1>2, ProcessInvariance, PTL DEF ProcessSpec, DeliveryImplemented, Spec

\* The process implements Matcher over the rows as the matcher sees them: worker and
\* reconciler move rows only along the edges Matcher assumes (worker.py, reconciler.py).
THEOREM ProcessImplementsMatcher == ProcessSpec => IntakeImplemented
<1>1. ProcessInit => I!Init
  BY InitBoth
<1>2. BothInv' => jobs' \in [Jobs -> Row]
  BY DEF BothInv, IInv, TypeOK
<1>3. BothInv /\ BothInv' /\ [ProcessNext]_processVars => [I!Next]_(I!vars)
  BY <1>2, StepIsIntake
<1> QED
  BY <1>1, <1>3, ProcessInvariance, PTL DEF ProcessSpec, IntakeImplemented, I!Spec

\* Whatever PseudoGram holds, or may still be told to create, was asked for on behalf
\* of a comment that arrived and was not recorded as deleted by then (matcher.py
\* _handle_created, worker.py _send_one, reconciler.py).
THEOREM DMsHaveTheirComment == ProcessSpec => []EveryDMHasItsComment
<1>1. BothInv => EveryDMHasItsComment
  <2> SUFFICES ASSUME BothInv, NEW k \in Keys, dms[k] # "none" \/ k \in late
               PROVE  \E e \in M!Arrived :
                        /\ Type[e] = "created" /\ About[e] = jobs[k[1]].comment
                        /\ deletedAt[jobs[k[1]].comment] # Null =>
                             received[e] <= deletedAt[jobs[k[1]].comment]
    BY DEF EveryDMHasItsComment
  <2>1. PICK j \in Jobs, c \in Cycles : k = <<j, c>>
    BY DEF Keys
  <2>2. jobs[j].status # "ABSENT"
    BY <2>1 DEF BothInv, IInv, CyclesInOrder
  <2>3. /\ Seen(jobs[j]).status # "ABSENT" /\ Seen(jobs[j]).comment = jobs[j].comment
        /\ k[1] = j
    BY <2>1, <2>2, SeenRow
  <2>4. CASE deletedAt[jobs[j].comment] = Null
    BY <2>3, <2>4 DEF BothInv, MP!MatchInv, MP!RowsHaveTheirComment, MP!Arrived,
                      M!Arrived
  <2>5. CASE deletedAt[jobs[j].comment] # Null
    BY <2>3, <2>5 DEF BothInv, MP!MatchInv, MP!TombstoneHolds, MP!Arrived, M!Arrived
  <2> QED
    BY <2>4, <2>5
<1> QED
  BY <1>1, ProcessInvariance, PTL

\* A row of the process has come to one of the ends that either half allows.
LEMMA RowsAreAccounted ==
  ASSUME BothInv, NEW j \in Jobs, jobs[j].status # "ABSENT"
  PROVE  Accounted(j)
<1>1. jobs[j].status \in Statuses
  BY SeenRow DEF Row
<1>2. CASE jobs[j].status \in Owed
  BY <1>2 DEF Accounted
<1>3. CASE jobs[j].status = "SENT"
  BY <1>3 DEF Accounted, BothInv, IInv, RowsNameTheirDM
<1>4. CASE jobs[j].status = "FAILED"
  BY <1>4 DEF Accounted, BothInv, IInv, FailedOnlyWithCause, InStatus
<1>5. CASE jobs[j].status = "CANCELLED"
  <2>1. j \in MP!InStatus("CANCELLED") /\ Seen(jobs[j]).comment = jobs[j].comment
    BY <1>5, SeenRow DEF MP!InStatus
  <2>2. MP!CancelledIsTombstoned
    BY DEF BothInv, MP!MatchInv
  <2> QED
    BY <1>5, <2>1, <2>2 DEF MP!CancelledIsTombstoned, Accounted
<1> QED
  BY <1>1, <1>2, <1>3, <1>4, <1>5 DEF Statuses, Terminal

\* Every rule a processed comment matched has a row for its author, and that row is
\* worked on, delivered, failed for a cause or withdrawn for a deletion (matcher.py
\* handle_event, worker.py _send_one, reconciler.py _reconcile_one).
THEOREM CommentsEndAccounted == ProcessSpec => []EveryCommentAccounted
<1>1. BothInv => EveryCommentAccounted
  <2> SUFFICES ASSUME BothInv, NEW e \in processed, NEW r \in answered[e]
               PROVE  \E j \in Jobs : IsFor(j, r, Author[About[e]]) /\ Accounted(j)
    BY DEF EveryCommentAccounted
  <2>1. e \in Events
    BY DEF BothInv, MP!MatchInv, MP!TypeOK, MP!Arrived
  <2>2. MP!Paid(r, e)
    BY <2>1 DEF BothInv, MP!MatchInv, MP!AnsweredIsPaid
  <2>3. PICK j \in Jobs : /\ Seen(jobs[j]).status # "ABSENT"
                         /\ Seen(jobs[j]).rule = r
                         /\ Author[Seen(jobs[j]).comment] = Author[About[e]]
    BY <2>2 DEF MP!Paid, MP!IsFor
  <2>4. jobs[j].status # "ABSENT" /\ IsFor(j, r, Author[About[e]])
    BY <2>3, SeenRow DEF IsFor
  <2> QED
    BY <2>4, RowsAreAccounted
<1> QED
  BY <1>1, ProcessInvariance, PTL

\* The whole process keeps the promise about each (rule, user) and the safety of its
\* DMs, whatever intake, crashes and replays do meanwhile (worker.py, reconciler.py,
\* matcher.py over dm_jobs).
THEOREM ProcessKeepsThePromise ==
  ProcessSpec => /\ PromiseKept /\ TerminalIsFinal /\ TriesAreSpent
                 /\ [](OneLiveDM /\ LiveUserDMedOnce /\ SentWasDelivered
                       /\ FailedOnlyWithCause /\ PollsAreCurrent)
BY ProcessImplementsDelivery, DeliveryKeepsThePromise, TerminalRowsNeverChange,
   TriesAreSpentInOrder, NeverTwoDMsPerRow, NeverTwoDMsPerLivePair, SentMeansDelivered,
   FailureIsEarned, ReconcilerIsNeverStale, PTL DEF DeliveryImplemented

-----------------------------------------------------------------------------
(* The process implements Obligations, of the rows as they are *)

\* The matcher's view of the rows shows the same promises as the rows.
SameView ==
  /\ H!Arrived = MP!Arrived /\ H!Deleted = MP!Deleted
  /\ H!Heard = MP!Heard /\ H!PairsEver = MP!PairsEver

LEMMA ViewIsTrue == BothInv => SameView
<1> SUFFICES ASSUME BothInv PROVE SameView
  OBVIOUS
<1>1. H!Arrived = MP!Arrived /\ H!Deleted = MP!Deleted /\ H!Heard = MP!Heard
  BY DEF H!Arrived, MP!Arrived, H!Deleted, MP!Deleted, H!Heard, MP!Heard
<1>2. \A j \in Jobs : /\ Seen(jobs[j]).status = jobs[j].status
                      /\ Seen(jobs[j]).rule = jobs[j].rule
                      /\ Seen(jobs[j]).comment = jobs[j].comment
  BY SeenRow
<1>3. H!PairsEver = MP!PairsEver
  BY <1>2 DEF H!PairsEver, MP!PairsEver, H!InStatus, MP!InStatus
<1> QED
  BY <1>1, <1>3 DEF SameView

\* A step of the process is one of Matcher with its history variable, or a stutter.
LEMMA StepIsHistory ==
  ASSUME BothInv, MP!HistoryInv, jobs' \in [Jobs -> Row], [ObservedNext]_observedVars
  PROVE  [MP!HistoryNext]_(MP!historyVars)
<1>1. [ProcessNext]_processVars
  BY DEF ObservedNext, observedVars
<1>2. [MP!Next]_(MP!vars)
  BY <1>1, StepIsIntake
<1>3. CASE ObservedNext
  <2>1. MP!Observe
    BY <1>3 DEF ObservedNext, H!Observe, MP!Observe, H!Arrived, MP!Arrived
  <2>2. CASE MP!Next
    BY <2>1, <2>2 DEF MP!HistoryNext
  <2>3. CASE UNCHANGED MP!vars
    <3>1. UNCHANGED <<rules, received>>
      BY <2>3 DEF MP!vars, MP!tables, MP!webhook, MP!intakeVars
    <3>2. /\ standing \in [Events -> SUBSET Rules]
          /\ \A e \in Events : standing[e] \subseteq rules
          /\ \A e \in Events \ MP!Arrived : standing[e] = {}
      BY DEF MP!HistoryInv, MP!StandingOK
    <3>3. \A e \in Events : standing'[e] = standing[e]
      BY <2>1, <3>1, <3>2 DEF MP!Observe, MP!Arrived
    <3>4. standing' = standing
      BY <2>1, <3>2, <3>3 DEF MP!Observe
    <3> QED
      BY <2>3, <3>4 DEF MP!historyVars
  <2> QED
    BY <1>2, <2>2, <2>3
<1>4. CASE UNCHANGED observedVars
  <2>1. UNCHANGED standing /\ UNCHANGED MP!vars
    BY <1>4 DEF observedVars, processVars, vars, intakeVars, MP!vars, MP!intakeVars,
       MP!tables, MP!webhook, MP!done, MP!loop
  <2> QED
    BY <2>1 DEF MP!historyVars
<1> QED
  BY <1>3, <1>4

\* What is a step of Obligations in the matcher's view is one of the rows themselves.
LEMMA ViewsStepAlike ==
  ASSUME SameView, SameView', [MP!O!Next]_(MP!O!obligationVars)
  PROVE  [H!O!Next]_(H!O!obligationVars)
<1>1. /\ H!Arrived' = MP!Arrived' /\ H!Deleted' = MP!Deleted'
      /\ H!Heard' = MP!Heard' /\ H!PairsEver' = MP!PairsEver'
  BY DEF SameView
<1>2. CASE UNCHANGED MP!O!obligationVars
  BY <1>1, <1>2 DEF SameView, MP!O!obligationVars, H!O!obligationVars
<1>3. ASSUME NEW r \in Rules, MP!O!AddRule(r) PROVE H!O!Next
  <2>1. H!O!AddRule(r)
    BY <1>1, <1>3 DEF SameView, MP!O!AddRule, H!O!AddRule
  <2> QED
    BY <2>1 DEF H!O!Next
<1>4. ASSUME NEW r \in Rules, MP!O!DropRule(r) PROVE H!O!Next
  <2>1. H!O!DropRule(r)
    BY <1>1, <1>4 DEF SameView, MP!O!DropRule, H!O!DropRule
  <2> QED
    BY <2>1 DEF H!O!Next
<1>5. ASSUME NEW e \in Events, MP!O!Acknowledge(e) PROVE H!O!Next
  <2>1. H!O!Acknowledge(e)
    BY <1>1, <1>5 DEF SameView, MP!O!Acknowledge, H!O!Acknowledge
  <2> QED
    BY <2>1 DEF H!O!Next
<1>6. ASSUME NEW e \in Events, MP!O!Delete(e) PROVE H!O!Next
  <2>1. H!O!Delete(e)
    BY <1>1, <1>6 DEF SameView, MP!O!Delete, H!O!Delete
  <2> QED
    BY <2>1 DEF H!O!Next
<1>7. ASSUME NEW e \in Events, MP!O!Close(e) PROVE H!O!Next
  <2>1. H!O!Close(e)
    BY <1>1, <1>7 DEF SameView, MP!O!Close, H!O!Close, MP!O!Honoured, H!O!Honoured,
                      MP!O!Pair, H!O!Pair
  <2> QED
    BY <2>1 DEF H!O!Next
<1>8. ASSUME NEW r \in Rules, NEW e \in Events, MP!O!Owe(r, e) PROVE H!O!Next
  <2>1. H!O!Owe(r, e)
    BY <1>1, <1>8 DEF SameView, MP!O!Owe, H!O!Owe, MP!O!OwePair, H!O!OwePair,
                      MP!O!Pair, H!O!Pair
  <2> QED
    BY <2>1 DEF H!O!Next
<1>9. ASSUME NEW r \in Rules, NEW e \in Events, MP!O!OweLate(r, e) PROVE H!O!Next
  <2>1. H!O!OweLate(r, e)
    BY <1>1, <1>9 DEF SameView, MP!O!OweLate, H!O!OweLate, MP!O!OwePair, H!O!OwePair,
                      MP!O!Pair, H!O!Pair
  <2> QED
    BY <2>1 DEF H!O!Next
<1> QED
  BY <1>2, <1>3, <1>4, <1>5, <1>6, <1>7, <1>8, <1>9 DEF MP!O!Next

\* The promise to the feed is kept by the process as a whole: what worker and
\* reconciler do to the rows neither takes an obligation back nor adds one
\* (matcher.py handle_event, worker.py, reconciler.py over dm_jobs).
THEOREM ProcessKeepsItsObligations == ObservedSpec => FeedObligationsKept
<1> DEFINE Inv == BothInv /\ MP!HistoryInv
<1>1. ObservedInit => Inv /\ H!O!Init
  <2> SUFFICES ASSUME ObservedInit PROVE Inv /\ H!O!Init
    OBVIOUS
  <2>1. BothInv /\ MP!Init
    BY InitBoth DEF ObservedInit
  <2>2. MP!HistoryInit
    BY <2>1 DEF ObservedInit, MP!HistoryInit
  <2>3. MP!HistoryInv /\ MP!O!Init
    BY <2>2, MP!HistoryInitInv, MP!InitIsAbstract, IntakeAssumptions
  <2>4. SameView
    BY <2>1, ViewIsTrue
  <2> QED
    BY <2>1, <2>3, <2>4 DEF SameView, MP!O!Init, H!O!Init
<1>2. Inv /\ [ObservedNext]_observedVars => Inv'
  <2> SUFFICES ASSUME Inv, [ObservedNext]_observedVars PROVE Inv'
    OBVIOUS
  <2>1. BothInv'
    BY BothStep DEF ObservedNext, observedVars
  <2>2. [MP!HistoryNext]_(MP!historyVars)
    BY <2>1, StepIsHistory DEF BothInv, IInv, TypeOK
  <2> QED
    BY <2>1, <2>2, MP!HistoryNextInv, IntakeAssumptions
<1>3. Inv => SameView
  BY ViewIsTrue
<1>4. Inv /\ Inv' /\ SameView /\ SameView' /\ [ObservedNext]_observedVars
        => [H!O!Next]_(H!O!obligationVars)
  <2> SUFFICES ASSUME Inv, Inv', SameView, SameView', [ObservedNext]_observedVars
               PROVE  [H!O!Next]_(H!O!obligationVars)
    OBVIOUS
  <2>1. [MP!HistoryNext]_(MP!historyVars)
    BY StepIsHistory DEF BothInv, IInv, TypeOK
  <2>2. [MP!O!Next]_(MP!O!obligationVars)
    BY <2>1, MP!StepIsAbstract, IntakeAssumptions
  <2> QED
    BY <2>2, ViewsStepAlike
<1> QED
  <2> HIDE DEF Inv
  <2> QED
    BY <1>1, <1>2, <1>3, <1>4, PTL DEF ObservedSpec, FeedObligationsKept,
       H!ObligationsKept, H!O!Spec
================================================================================
