-------------------------- MODULE RateLimit_proofs --------------------------
(***************************************************************************)
(* Proofs about RateLimit, for every budget, window, sleep and pruning age *)
(* that RateAssumption allows.                                             *)
(*                                                                         *)
(* The budget is read in one step and spent in a later one.  It is kept    *)
(* because nothing is recorded in between and a window only empties as     *)
(* time passes (GrantIsGood).  PseudoGram's window is compared with ours   *)
(* through the order of the requests: each is recorded, arrives, and only  *)
(* then is the next one recorded (ArrivalsFollow), so of the requests that *)
(* arrive in one window at most one was recorded before it.                *)
(*                                                                         *)
(* A sleep ends, but for Early ticks, when the oldest row has left the     *)
(* window.  The second of a wait lasts MinSleep at least, twice what the   *)
(* first fell short by, so it ends with a slot free even when it falls     *)
(* short itself (SleepsReach).                                             *)
(***************************************************************************)
EXTENDS RateLimit, FiniteSetTheorems, TLAPS

\* recorded is finite, its rows are numbered without gap, and none is of the future.
LedgerInOrder ==
  /\ IsFiniteSet(recorded)
  /\ \A s \in recorded : s[1] <= Current /\ s[2] <= now
  /\ \A s, u \in recorded : s[1] = u[1] => s = u

\* The table holds what still counts, and nothing but what was recorded.
LedgerKeepsWindow ==
  /\ sendLog \subseteq recorded
  /\ \A s \in recorded : s[2] + Window > now => s \in sendLog

\* The worker that has been granted a slot still has one.
GrantIsGood == worker.pc = "granted" => Cardinality(InWindow(recorded, now)) < Max

\* A request arrives after its row was recorded, and before the next one is.
ArrivalsFollow ==
  /\ IsFiniteSet(arrived)
  /\ \A a \in arrived :
       /\ a[1] <= Current /\ a[2] <= now
       /\ a[1] = Current => worker.pc \notin {"recorded", "sent"}
       /\ \E r \in recorded : r[1] = a[1] /\ r[2] <= a[2]
       /\ \A r \in recorded : a[1] < r[1] => a[2] <= r[2]
  /\ \A a, b \in arrived : a[1] = b[1] => a = b

\* The row of the request being made.
CurrentIsRecorded ==
  worker.pc \in {"recorded", "sent"} => \E r \in recorded : r[1] = Current

\* The table leaves a slot at tick t.
Room(t) == Cardinality(InWindow(sendLog, t)) < Max

\* What the sleeps of a wait reach.
SleepsReach ==
  /\ worker.pc = "sleeping" =>
       /\ worker.sleeps \in {1, 2} /\ Room(worker.until)
       /\ worker.sleeps = 2 => \A t \in Nat : worker.until <= t + Early => Room(t)
  /\ worker.pc \in {"top", "full"} =>
       /\ worker.sleeps = 1 => worker.until <= now + Early /\ Room(worker.until)
       /\ worker.sleeps = 2 => Room(now)
  /\ TwoSleepsAreEnough

RateInv ==
  /\ TypeOK
  /\ LedgerInOrder /\ LedgerKeepsWindow
  /\ GrantIsGood /\ BudgetKept /\ SleepsReach
  /\ ArrivalsFollow /\ CurrentIsRecorded

-----------------------------------------------------------------------------
\* A subset of a finite set is finite and not larger.
LEMMA Smaller ==
  ASSUME NEW S, NEW T, IsFiniteSet(T), S \subseteq T
  PROVE  /\ IsFiniteSet(S) /\ Cardinality(S) \in Nat /\ Cardinality(T) \in Nat
         /\ Cardinality(S) <= Cardinality(T)
         /\ Cardinality(S) = Cardinality(T) => S = T
<1>1. S \in SUBSET T
  OBVIOUS
<1>2. IsFiniteSet(S) /\ Cardinality(S) <= Cardinality(T)
      /\ (Cardinality(T) = Cardinality(S) => T = S)
  BY <1>1, FS_Subset
<1> QED
  BY <1>2, FS_CardinalityType

\* As long as nothing is recorded a window only loses rows.
LEMMA WindowEmpties ==
  ASSUME NEW S, IsFiniteSet(S), \A s \in S : s[2] \in Nat,
         NEW t \in Nat, NEW u \in Nat, t <= u
  PROVE  /\ IsFiniteSet(InWindow(S, t)) /\ IsFiniteSet(InWindow(S, u))
         /\ InWindow(S, u) \subseteq InWindow(S, t)
         /\ Cardinality(InWindow(S, u)) <= Cardinality(InWindow(S, t))
         /\ Cardinality(InWindow(S, u)) \in Nat /\ Cardinality(InWindow(S, t)) \in Nat
<1>1. InWindow(S, t) \subseteq S
  BY DEF InWindow
<1>2. InWindow(S, u) \subseteq InWindow(S, t)
  BY RateAssumption DEF InWindow
<1> QED
  BY <1>1, <1>2, Smaller

\* Between the query and the row the window of the table is that of the ledger.
LEMMA TableIsEnough ==
  ASSUME RateInv
  PROVE  InWindow(recorded, now) = InWindow(sendLog, now)
BY DEF RateInv, LedgerKeepsWindow, InWindow

\* The times of rows and of arrivals.
LEMMA RowsTyped ==
  ASSUME TypeOK
  PROVE  /\ now \in Nat
         /\ \A s \in recorded : s[1] \in Nat /\ s[2] \in Nat /\ s = <<s[1], s[2]>>
         /\ \A a \in arrived : a[1] \in Nat /\ a[2] \in Nat /\ a = <<a[1], a[2]>>
         /\ \A s \in sendLog : s[2] \in Nat
<1>1. now \in Nat
  BY RateAssumption DEF TypeOK, Ticks
<1>2. \A s \in Sends \X Ticks : s[1] \in Nat /\ s[2] \in Nat /\ s = <<s[1], s[2]>>
  BY RateAssumption DEF Sends, Ticks
<1> QED
  BY <1>1, <1>2 DEF TypeOK

\* A slot that is free stays free while nothing is recorded.
LEMMA RoomStays ==
  ASSUME RateInv, NEW t \in Nat, NEW u \in Nat, t <= u, Room(t)
  PROVE  Room(u)
<1>1. IsFiniteSet(sendLog) /\ \A s \in sendLog : s[2] \in Nat
  BY Smaller, RowsTyped DEF RateInv, LedgerInOrder, LedgerKeepsWindow
<1> QED
  BY <1>1, WindowEmpties, RateAssumption DEF Room

\* A worker that neither sleeps nor waits any more has nothing to reach.
LEMMA AwakeReaches ==
  ASSUME NEW pc \in WorkerPCs \ {"sleeping"}, worker' = At(pc)
  PROVE  SleepsReach'
BY DEF SleepsReach, TwoSleepsAreEnough, At

-----------------------------------------------------------------------------
\* An empty ledger, an idle worker.
LEMMA RateInitInv == Init => RateInv
<1> SUFFICES ASSUME Init PROVE RateInv
  OBVIOUS
<1>1. IsFiniteSet({}) /\ Cardinality({}) = 0
  BY FS_EmptySet
<1>2. TypeOK
  BY RateAssumption DEF Init, TypeOK, At, WorkerPCs, Ticks
<1>3. BudgetKept
  <2>1. \A t \in Ticks : Span(recorded, t) = {}
    BY DEF Init, Span
  <2> QED
    BY <1>1, <2>1, RateAssumption DEF BudgetKept
<1>4. LedgerInOrder /\ LedgerKeepsWindow /\ GrantIsGood /\ SleepsReach
  BY <1>1 DEF Init, LedgerInOrder, LedgerKeepsWindow, GrantIsGood, SleepsReach,
                  TwoSleepsAreEnough, At
<1>5. ArrivalsFollow /\ CurrentIsRecorded
  BY <1>1 DEF Init, ArrivalsFollow, CurrentIsRecorded, At
<1> QED
  BY <1>2, <1>3, <1>4, <1>5 DEF RateInv, Init, At

\* The clock moves on.
LEMMA TickInv ==
  ASSUME RateInv, Tick
  PROVE  RateInv'
<1>1. /\ now' = now + 1 /\ now < MaxTime
      /\ UNCHANGED <<sendLog, worker, recorded, arrived>>
  BY DEF Tick
<1>2. now \in Nat /\ now' \in Nat /\ now <= now'
  BY <1>1, RowsTyped DEF RateInv
<1>3. TypeOK'
  BY <1>1, <1>2, RateAssumption DEF RateInv, TypeOK, Ticks
<1>4. LedgerInOrder' /\ LedgerKeepsWindow'
  BY <1>1, <1>2, RowsTyped, RateAssumption
     DEF RateInv, LedgerInOrder, LedgerKeepsWindow, Current
<1>5. GrantIsGood'
  <2>1. Cardinality(InWindow(recorded, now')) <= Cardinality(InWindow(recorded, now))
        /\ Cardinality(InWindow(recorded, now')) \in Nat
        /\ Cardinality(InWindow(recorded, now)) \in Nat
    BY <1>2, WindowEmpties, RowsTyped DEF RateInv, LedgerInOrder
  <2> QED
    BY <1>1, <2>1, RateAssumption DEF RateInv, GrantIsGood, InWindow
<1>6. BudgetKept'
  BY <1>1 DEF RateInv, BudgetKept, Span
<1>7. ArrivalsFollow' /\ CurrentIsRecorded'
  BY <1>1, <1>2, RowsTyped DEF RateInv, ArrivalsFollow, CurrentIsRecorded, Current
<1>8. SleepsReach'
  <2>1. Room(now) => Room(now')
    BY <1>2, RoomStays
  <2>2. /\ \A t : Room(t)' <=> Room(t')
        /\ worker.until \in Nat
    BY <1>1, <1>2, RateAssumption DEF Room, InWindow, RateInv, TypeOK
  <2> QED
    BY <1>1, <1>2, <2>1, <2>2, RateAssumption
       DEF RateInv, SleepsReach, TwoSleepsAreEnough, Room, InWindow
<1> QED
  BY <1>3, <1>4, <1>5, <1>6, <1>7, <1>8 DEF RateInv

\* The worker moves without a slot, and not to a request.
LEMMA WorkerMovesInv ==
  ASSUME RateInv, NEW pc \in WorkerPCs \ {"granted", "sleeping", "sent", "recorded"},
         worker' = At(pc), UNCHANGED <<now, sendLog, recorded, arrived>>
  PROVE  RateInv'
<1>1. worker'.pc = pc
  BY DEF At
<1>2. TypeOK'
  BY <1>1, RowsTyped, RateAssumption DEF RateInv, TypeOK, At, WorkerPCs
<1>3. /\ LedgerInOrder' /\ LedgerKeepsWindow' /\ GrantIsGood'
      /\ BudgetKept'
  BY <1>1 DEF RateInv, LedgerInOrder, LedgerKeepsWindow, GrantIsGood, BudgetKept,
              Span, Current
<1>4. ArrivalsFollow' /\ CurrentIsRecorded'
  BY <1>1 DEF RateInv, ArrivalsFollow, CurrentIsRecorded, Current
<1>5. SleepsReach'
  BY AwakeReaches
<1> QED
  BY <1>1, <1>2, <1>3, <1>4, <1>5 DEF RateInv

\* The worker goes on waiting: what it slept is kept.
LEMMA WaitGoesOnInv ==
  ASSUME RateInv, NEW pc \in {"top", "full"}, worker' = [worker EXCEPT !.pc = pc],
         SleepsReach', UNCHANGED <<now, sendLog, recorded, arrived>>
  PROVE  RateInv'
<1>1. worker'.pc = pc
  BY DEF RateInv, TypeOK
<1>2. TypeOK'
  BY <1>1, RowsTyped, RateAssumption DEF RateInv, TypeOK, WorkerPCs
<1>3. /\ LedgerInOrder' /\ LedgerKeepsWindow' /\ GrantIsGood'
      /\ BudgetKept'
  BY <1>1 DEF RateInv, LedgerInOrder, LedgerKeepsWindow, GrantIsGood, BudgetKept,
              Span, Current
<1>4. ArrivalsFollow' /\ CurrentIsRecorded'
  BY <1>1 DEF RateInv, ArrivalsFollow, CurrentIsRecorded, Current
<1> QED
  BY <1>1, <1>2, <1>3, <1>4 DEF RateInv

\* The first query of wait_for_budget.
LEMMA UsedInWindowInv ==
  ASSUME RateInv, UsedInWindow
  PROVE  RateInv'
<1>0. Cardinality(InWindow(sendLog, now)) \in Nat /\ Max \in Nat
  <2>1. IsFiniteSet(sendLog) /\ now \in Nat /\ \A s \in sendLog : s[2] \in Nat
    BY RowsTyped, Smaller DEF RateInv, LedgerInOrder, LedgerKeepsWindow
  <2>2. now <= now
    BY <2>1
  <2> QED
    BY <2>1, <2>2, WindowEmpties, RateAssumption
<1>1. CASE Cardinality(InWindow(sendLog, now)) < Max
  <2>1. /\ worker' = At("granted") /\ UNCHANGED <<now, sendLog, recorded, arrived>>
    BY <1>0, <1>1 DEF UsedInWindow
  <2>2. worker'.pc = "granted"
    BY <2>1 DEF At
  <2>3. TypeOK'
    BY <2>1, RowsTyped, RateAssumption DEF RateInv, TypeOK, At, WorkerPCs
  <2>4. GrantIsGood'
    BY <1>1, <2>1, TableIsEnough DEF GrantIsGood, InWindow
  <2>5. /\ LedgerInOrder' /\ LedgerKeepsWindow' /\ BudgetKept'
    BY <2>1, <2>2 DEF RateInv, LedgerInOrder, LedgerKeepsWindow, BudgetKept,
                      Span, Current
  <2>6. ArrivalsFollow' /\ CurrentIsRecorded'
    BY <2>1, <2>2 DEF RateInv, ArrivalsFollow, CurrentIsRecorded, Current
  <2>7. SleepsReach'
    BY <2>1, AwakeReaches DEF WorkerPCs
  <2> QED
    BY <2>2, <2>3, <2>4, <2>5, <2>6, <2>7 DEF RateInv
<1>2. CASE ~(Cardinality(InWindow(sendLog, now)) < Max)
  <2>1. /\ worker.pc = "top" /\ worker' = [worker EXCEPT !.pc = "full"]
        /\ UNCHANGED <<now, sendLog, recorded, arrived>>
    BY <1>2 DEF UsedInWindow
  <2>2. /\ worker'.pc = "full" /\ worker'.until = worker.until
        /\ worker'.sleeps = worker.sleeps /\ worker.sleeps \in 0 .. 2
    BY <2>1 DEF RateInv, TypeOK
  <2>3. worker.sleeps # 2
    BY <1>2, <2>1 DEF RateInv, SleepsReach, Room
  <2>4. worker.sleeps = 1 => worker.until <= now + Early /\ Room(worker.until)
    BY <2>1 DEF RateInv, SleepsReach
  <2>5. SleepsReach'
    BY <2>1, <2>2, <2>3, <2>4 DEF SleepsReach, TwoSleepsAreEnough, Room
  <2> QED
    BY <2>1, <2>5, WaitGoesOnInv
<1> QED
  BY <1>1, <1>2

\* Too soon by Early ticks at most, or late.
LEMMA WakeInv ==
  ASSUME RateInv, Wake
  PROVE  RateInv'
<1>1. /\ worker.pc = "sleeping" /\ worker.until <= now + Early
      /\ worker' = [worker EXCEPT !.pc = "top"]
      /\ UNCHANGED <<now, sendLog, recorded, arrived>>
  BY DEF Wake
<1>2. /\ worker'.pc = "top" /\ worker'.until = worker.until
      /\ worker'.sleeps = worker.sleeps
  BY <1>1 DEF RateInv, TypeOK
<1>3. now \in Nat
  BY RowsTyped DEF RateInv
<1>4. /\ worker.sleeps = 1 => Room(worker.until)
      /\ worker.sleeps = 2 => Room(now)
  BY <1>1, <1>3 DEF RateInv, SleepsReach
<1>5. SleepsReach'
  BY <1>1, <1>2, <1>4 DEF SleepsReach, TwoSleepsAreEnough, Room
<1> QED
  BY <1>1, <1>5, WaitGoesOnInv

\* The second query, and the sleep it leads to: when it ends the oldest row that
\* counted has left the window, and a second sleep spans what the first fell short by.
LEMMA SleepInv ==
  ASSUME RateInv, Sleep
  PROVE  RateInv'
<1> DEFINE live == InWindow(sendLog, now)
<1>1. UNCHANGED <<now, sendLog, recorded, arrived>> /\ now \in Nat
  BY RowsTyped DEF Sleep, RateInv
<1>2. IsFiniteSet(sendLog) /\ \A s \in sendLog : s[2] \in Nat
  BY Smaller, RowsTyped DEF RateInv, LedgerInOrder, LedgerKeepsWindow
<1>3. PICK until \in now + MinSleep .. now + Window :
        /\ worker' = AsleepUntil(until)
        /\ \/ live = {}
           \/ \E s \in live : s[2] + Window <= until
  <2>1. CASE /\ live = {}
             /\ worker' = AsleepUntil(now + MinSleep)
    BY <1>1, <2>1, RateAssumption
  <2>2. ASSUME NEW s \in live,
               worker' = AsleepUntil(now + Clamp(s[2] + Window - now))
        PROVE  \E until \in now + MinSleep .. now + Window :
                 /\ worker' = AsleepUntil(until)
                 /\ s[2] + Window <= until
    <3>1. s[2] \in Nat /\ s[2] <= now /\ s[2] + Window > now
      BY <1>2 DEF RateInv, LedgerInOrder, LedgerKeepsWindow, InWindow
    <3>2. LET wait == s[2] + Window - now
          IN  Clamp(wait) \in MinSleep .. Window /\ wait <= Clamp(wait)
      BY <1>1, <3>1, RateAssumption DEF Clamp
    <3> QED
      BY <1>1, <2>2, <3>1, <3>2, RateAssumption
  <2> QED
    BY <2>1, <2>2 DEF Sleep
<1>4. /\ worker'.pc = "sleeping" /\ worker'.until = until
      /\ worker'.sleeps = worker.sleeps + 1 /\ worker.sleeps \in {0, 1}
  <2>1. worker.pc = "full" /\ worker.sleeps \in 0 .. 2 /\ worker.sleeps < 2
    BY DEF Sleep, RateInv, TypeOK, SleepsReach, TwoSleepsAreEnough
  <2> QED
    BY <1>3, <2>1 DEF AsleepUntil
<1>5. TypeOK'
  BY <1>1, <1>3, <1>4, RateAssumption DEF RateInv, TypeOK, WorkerPCs, AsleepUntil
<1>6. Cardinality(InWindow(sendLog, until)) < Max
  <2>1. /\ IsFiniteSet(live) /\ IsFiniteSet(InWindow(sendLog, until))
        /\ InWindow(sendLog, until) \subseteq live
        /\ Cardinality(InWindow(sendLog, until)) <= Cardinality(live)
        /\ Cardinality(InWindow(sendLog, until)) \in Nat /\ Cardinality(live) \in Nat
    <3>1. until \in Nat /\ now <= until
      BY <1>1, <1>3, RateAssumption
    <3> QED
      BY <1>1, <1>2, <3>1, WindowEmpties
  <2>2. CASE live = {}
    BY <2>1, <2>2, FS_EmptySet, RateAssumption
  <2>3. ASSUME NEW s \in live, s[2] + Window <= until
        PROVE  Cardinality(InWindow(sendLog, until)) < Max
    <3>1. s \notin InWindow(sendLog, until)
      BY <1>1, <1>2, <2>3, RateAssumption DEF InWindow
    <3>2. Cardinality(InWindow(sendLog, until)) < Cardinality(live)
      BY <2>1, <3>1, Smaller
    <3>3. Cardinality(live) <= Max
      <4>1. live = Span(recorded, now)
        BY TableIsEnough, RowsTyped DEF RateInv, LedgerInOrder, InWindow, Span
      <4>2. now \in Ticks
        BY DEF RateInv, TypeOK
      <4> QED
        BY <4>1, <4>2 DEF RateInv, BudgetKept
    <3> QED
      BY <2>1, <3>2, <3>3, RateAssumption
  <2> QED
    BY <1>3, <2>2, <2>3
<1>7. SleepsReach' /\ GrantIsGood'
  <2>1. ASSUME worker.sleeps = 1, NEW t \in Nat, until <= t + Early
        PROVE  Room(t)
    <3>1. worker.until <= now + Early /\ Room(worker.until) /\ worker.until \in Nat
      BY <1>1, <2>1, RateAssumption DEF Sleep, RateInv, SleepsReach, TypeOK
    <3>2. worker.until <= t
      BY <1>1, <1>3, <2>1, <3>1, RateAssumption
    <3> QED
      BY <3>1, <3>2, RoomStays
  <2>2. SleepsReach'
    BY <1>1, <1>4, <1>6, <2>1 DEF SleepsReach, TwoSleepsAreEnough, Room
  <2> QED
    BY <1>4, <2>2 DEF GrantIsGood
<1>8. LedgerInOrder' /\ LedgerKeepsWindow' /\ BudgetKept'
  BY <1>1 DEF RateInv, LedgerInOrder, LedgerKeepsWindow, BudgetKept, Span, Current
<1>9. ArrivalsFollow' /\ CurrentIsRecorded'
  BY <1>1, <1>4 DEF RateInv, ArrivalsFollow, CurrentIsRecorded, Current
<1> QED
  BY <1>5, <1>7, <1>8, <1>9 DEF RateInv

\* The row is written, in the slot the worker was granted.
LEMMA RecordSendInv ==
  ASSUME RateInv, RecordSend
  PROVE  RateInv'
<1> DEFINE row == <<Current + 1, now>>
           live == InWindow(recorded, now)
<1>1. /\ sendLog' = sendLog \cup {row} /\ recorded' = recorded \cup {row}
      /\ worker' = At("recorded") /\ UNCHANGED <<now, arrived>>
      /\ worker.pc = "granted" /\ Current < MaxSends
  BY DEF RecordSend
<1>2. worker'.pc = "recorded" /\ SleepsReach'
  BY <1>1, AwakeReaches DEF At, WorkerPCs
<1>3. IsFiniteSet(recorded) /\ Current \in Nat /\ now \in Nat
  BY FS_CardinalityType, RowsTyped DEF RateInv, LedgerInOrder, Current
<1>4. row \notin recorded /\ row[1] = Current + 1 /\ row[2] = now
  BY <1>3 DEF RateInv, LedgerInOrder
<1>5. IsFiniteSet(recorded') /\ Current' = Current + 1
  BY <1>1, <1>3, <1>4, FS_AddElement DEF Current
<1>6. TypeOK'
  <2>1. row \in Sends \X Ticks
    BY <1>1, <1>3, RateAssumption DEF RateInv, TypeOK, Sends
  <2> QED
    BY <1>1, <1>3, <2>1, RateAssumption DEF RateInv, TypeOK, At, WorkerPCs
<1>7. LedgerInOrder' /\ LedgerKeepsWindow'
  <2>1. \A s \in recorded' : s[1] <= Current' /\ s[2] <= now'
    BY <1>1, <1>3, <1>4, <1>5, RowsTyped DEF RateInv, LedgerInOrder
  <2>2. \A s, u \in recorded' : s[1] = u[1] => s = u
    BY <1>1, <1>3, <1>4, RowsTyped DEF RateInv, LedgerInOrder
  <2>3. sendLog' \subseteq recorded'
        /\ \A s \in recorded' : s[2] + Window > now' => s \in sendLog'
    BY <1>1 DEF RateInv, LedgerKeepsWindow
  <2> QED
    BY <1>5, <2>1, <2>2, <2>3 DEF LedgerInOrder, LedgerKeepsWindow
<1>8. BudgetKept'
  <2> SUFFICES ASSUME NEW t \in Ticks
               PROVE  Cardinality(Span(recorded', t)) <= Max
    BY DEF BudgetKept, Span
  <2>1. t \in Nat
    BY RateAssumption DEF Ticks
  <2>2. CASE t < now
    <3>1. Span(recorded', t) = Span(recorded, t)
      BY <1>1, <1>3, <1>4, <2>1, <2>2 DEF Span
    <3> QED
      BY <3>1 DEF RateInv, BudgetKept
  <2>3. CASE now <= t
    <3>1. /\ IsFiniteSet(live) /\ Cardinality(live) < Max /\ row \notin live
      <4>1. live \subseteq recorded
        BY DEF InWindow
      <4>2. IsFiniteSet(live) /\ row \notin live
        BY <1>3, <1>4, <4>1, Smaller
      <4> QED
        BY <1>1, <4>2 DEF RateInv, GrantIsGood
    <3>2. IsFiniteSet(live \cup {row}) /\ Cardinality(live \cup {row}) = Cardinality(live) + 1
      BY <3>1, FS_AddElement
    <3>3. Span(recorded', t) \subseteq live \cup {row}
      BY <1>1, <1>3, <2>1, <2>3, RowsTyped, RateAssumption
         DEF RateInv, LedgerInOrder, Span, InWindow
    <3>4. /\ Cardinality(Span(recorded', t)) <= Cardinality(live \cup {row})
          /\ Cardinality(Span(recorded', t)) \in Nat
      BY <3>2, <3>3, Smaller
    <3>5. Cardinality(live) \in Nat
      BY <3>1, FS_CardinalityType
    <3> QED
      BY <3>1, <3>2, <3>4, <3>5, RateAssumption
  <2> QED
    BY <1>3, <2>1, <2>2, <2>3
<1>9. ArrivalsFollow'
  <2>1. \A a \in arrived : a[1] <= Current' /\ a[2] <= now' /\ a[1] # Current'
    BY <1>1, <1>3, <1>5, RowsTyped DEF RateInv, ArrivalsFollow
  <2>2. \A a \in arrived : \E r \in recorded' : r[1] = a[1] /\ r[2] <= a[2]
    BY <1>1 DEF RateInv, ArrivalsFollow
  <2>3. \A a \in arrived : \A r \in recorded' : a[1] < r[1] => a[2] <= r[2]
    BY <1>1, <1>4 DEF RateInv, ArrivalsFollow
  <2> QED
    BY <1>1, <2>1, <2>2, <2>3 DEF RateInv, ArrivalsFollow
<1>10. CurrentIsRecorded'
  BY <1>1, <1>4, <1>5 DEF CurrentIsRecorded
<1> QED
  BY <1>2, <1>6, <1>7, <1>8, <1>9, <1>10
     DEF RateInv, GrantIsGood

\* The request leaves.
LEMMA RequestInv ==
  ASSUME RateInv, Request
  PROVE  RateInv'
<1>1. /\ worker.pc = "recorded" /\ worker' = At("sent")
      /\ UNCHANGED <<now, sendLog, recorded, arrived>>
  BY DEF Request
<1>2. worker'.pc = "sent" /\ SleepsReach'
  BY <1>1, AwakeReaches DEF At, WorkerPCs
<1>3. TypeOK'
  BY <1>1, RowsTyped, RateAssumption DEF RateInv, TypeOK, At, WorkerPCs
<1>4. /\ LedgerInOrder' /\ LedgerKeepsWindow' /\ GrantIsGood'
      /\ BudgetKept'
  BY <1>1, <1>2 DEF RateInv, LedgerInOrder, LedgerKeepsWindow, GrantIsGood, BudgetKept,
                    Span, Current
<1>5. ArrivalsFollow' /\ CurrentIsRecorded'
  BY <1>1, <1>2 DEF RateInv, ArrivalsFollow, CurrentIsRecorded, Current
<1> QED
  BY <1>2, <1>3, <1>4, <1>5 DEF RateInv

\* The request reaches the limiter: the last one recorded, and the first time.
LEMMA ArriveInv ==
  ASSUME RateInv, Arrive
  PROVE  RateInv'
<1> DEFINE hit == <<Current, now>>
<1>1. /\ worker.pc = "sent" /\ worker' = At("answered")
      /\ arrived' = arrived \cup {hit} /\ UNCHANGED <<now, sendLog, recorded>>
  BY DEF Arrive
<1>2. worker'.pc = "answered" /\ SleepsReach'
  BY <1>1, AwakeReaches DEF At, WorkerPCs
<1>3. Current \in Nat /\ now \in Nat /\ hit[1] = Current /\ hit[2] = now
  BY FS_CardinalityType, RowsTyped DEF RateInv, LedgerInOrder, Current
<1>4. PICK row \in recorded : row[1] = Current /\ row[2] <= now
  BY <1>1 DEF RateInv, CurrentIsRecorded, LedgerInOrder
<1>5. TypeOK'
  <2>1. hit \in Sends \X Ticks
    BY <1>4 DEF RateInv, TypeOK
  <2> QED
    BY <1>1, <1>3, <2>1, RateAssumption DEF RateInv, TypeOK, At, WorkerPCs
<1>6. /\ LedgerInOrder' /\ LedgerKeepsWindow' /\ GrantIsGood'
      /\ BudgetKept' /\ CurrentIsRecorded'
  BY <1>1, <1>2 DEF RateInv, LedgerInOrder, LedgerKeepsWindow, GrantIsGood, BudgetKept,
                    CurrentIsRecorded, Span, Current
<1>7. ArrivalsFollow'
  <2>1. IsFiniteSet(arrived')
    BY <1>1, FS_AddElement DEF RateInv, ArrivalsFollow
  <2>2. Current' = Current /\ now' = now
    BY <1>1 DEF Current
  <2>3. \A a \in arrived' : a[1] <= Current' /\ a[2] <= now'
    BY <1>1, <1>3, <2>2 DEF RateInv, ArrivalsFollow
  <2>4. \A a \in arrived' : \E r \in recorded' : r[1] = a[1] /\ r[2] <= a[2]
    BY <1>1, <1>3, <1>4 DEF RateInv, ArrivalsFollow
  <2>5. \A a \in arrived' : \A r \in recorded' : a[1] < r[1] => a[2] <= r[2]
    BY <1>1, <1>3, RowsTyped DEF RateInv, ArrivalsFollow, LedgerInOrder
  <2>6. \A a, b \in arrived' : a[1] = b[1] => a = b
    BY <1>1, <1>3 DEF RateInv, ArrivalsFollow
  <2> QED
    BY <1>2, <2>1, <2>3, <2>4, <2>5, <2>6 DEF ArrivalsFollow
<1> QED
  BY <1>2, <1>5, <1>6, <1>7 DEF RateInv

\* Pruning leaves every row of the window, as a row must be older to go.
LEMMA PruneInv ==
  ASSUME RateInv, Prune
  PROVE  RateInv'
<1>1. /\ worker.pc = "answered"
      /\ sendLog' = {s \in sendLog : s[2] + PruneAge >= now}
      /\ UNCHANGED <<now, worker, recorded, arrived>>
  BY DEF Prune
<1>2. TypeOK'
  BY <1>1 DEF RateInv, TypeOK
<1>3. LedgerKeepsWindow'
  BY <1>1, RowsTyped, RateAssumption DEF RateInv, LedgerKeepsWindow
<1>4. /\ LedgerInOrder' /\ GrantIsGood' /\ BudgetKept' /\ SleepsReach'
      /\ ArrivalsFollow' /\ CurrentIsRecorded'
  BY <1>1 DEF RateInv, LedgerInOrder, GrantIsGood, BudgetKept, SleepsReach,
              TwoSleepsAreEnough,
              ArrivalsFollow, CurrentIsRecorded, Span, InWindow, Current
<1> QED
  BY <1>1, <1>2, <1>3, <1>4 DEF RateInv

-----------------------------------------------------------------------------
\* One step per action of the module.
LEMMA RateNextInv == RateInv /\ [Next]_vars => RateInv'
<1> SUFFICES ASSUME RateInv, [Next]_vars PROVE RateInv'
  OBVIOUS
<1>1. CASE Tick
  BY <1>1, TickInv
<1>2. CASE UsedInWindow
  BY <1>2, UsedInWindowInv
<1>3. CASE Sleep
  BY <1>3, SleepInv
<1>4. CASE RecordSend
  BY <1>4, RecordSendInv
<1>5. CASE Request
  BY <1>5, RequestInv
<1>6. CASE Arrive
  BY <1>6, ArriveInv
<1>7. CASE Prune
  BY <1>7, PruneInv
<1>8. CASE Wake
  BY <1>8, WakeInv
<1>10. CASE NothingToSend \/ Iterate \/ GiveUp
  BY <1>10, WorkerMovesInv DEF NothingToSend, Iterate, GiveUp, WorkerPCs
<1>9. CASE UNCHANGED vars
  BY <1>9 DEF vars, RateInv, TypeOK, LedgerInOrder, LedgerKeepsWindow, GrantIsGood,
              BudgetKept, SleepsReach, TwoSleepsAreEnough, Room,
              ArrivalsFollow, CurrentIsRecorded,
              Span, InWindow, Current
<1> QED
  BY <1>1, <1>2, <1>3, <1>4, <1>5, <1>6, <1>7, <1>8, <1>9, <1>10 DEF Next

(***************************************************************************)
(* The inductive invariant of the budget: ledger, grant and arrivals.      *)
(***************************************************************************)
THEOREM RateInvariance == Spec => []RateInv
  BY RateInitInv, RateNextInv, PTL DEF Spec

(***************************************************************************)
(* In no rolling window are more than Max requests recorded, for every     *)
(* budget, window and pruning age (ratelimit.py).                          *)
(***************************************************************************)
THEOREM BudgetIsKept == Spec => []BudgetKept
<1>1. RateInv => BudgetKept
  BY DEF RateInv
<1> QED
  BY <1>1, RateInvariance, PTL

(***************************************************************************)
(* Whenever the two clocks disagree by no more than half of _MIN_SLEEP, a  *)
(* wait for a slot sleeps once, or once more because the first sleep fell  *)
(* short, and never a third time (ratelimit.py wait_for_budget).           *)
(***************************************************************************)
THEOREM TwoSleepsReachTheSlot == Spec => []TwoSleepsAreEnough
<1>1. RateInv => TwoSleepsAreEnough
  BY DEF RateInv, SleepsReach
<1> QED
  BY <1>1, RateInvariance, PTL

-----------------------------------------------------------------------------
\* Of the requests that arrive in a window only one was recorded before it: the
\* next one is recorded after the answer to it.
LEMMA OneStraggler ==
  ASSUME RateInv, NEW t \in Ticks,
         NEW a \in Span(arrived, t), NEW b \in Span(arrived, t), a # b,
         NEW r \in recorded, r[1] = a[1], r \notin Span(recorded, t),
         NEW u \in recorded, u[1] = b[1], u \notin Span(recorded, t)
  PROVE  FALSE
<1>1. /\ t \in Nat /\ a \in arrived /\ b \in arrived
      /\ a[2] <= t /\ a[2] + Window > t /\ b[2] <= t /\ b[2] + Window > t
  BY RateAssumption DEF Ticks, Span
<1>2. /\ a[1] \in Nat /\ a[2] \in Nat /\ b[1] \in Nat /\ b[2] \in Nat
      /\ r[2] \in Nat /\ u[2] \in Nat /\ r[1] \in Nat /\ u[1] \in Nat
  BY <1>1, RowsTyped DEF RateInv
<1>3. r[2] <= a[2] /\ u[2] <= b[2]
  BY <1>1 DEF RateInv, ArrivalsFollow, LedgerInOrder
<1>4. r[2] + Window <= t /\ u[2] + Window <= t
  BY <1>1, <1>2, <1>3, RateAssumption DEF Span
<1>5. a[1] # b[1]
  BY <1>1 DEF RateInv, ArrivalsFollow
<1>6. CASE a[1] < b[1]
  <2>1. a[2] <= u[2]
    BY <1>1, <1>6 DEF RateInv, ArrivalsFollow
  <2> QED
    BY <1>1, <1>2, <1>4, <2>1, RateAssumption
<1>7. CASE b[1] < a[1]
  <2>1. b[2] <= r[2]
    BY <1>1, <1>7 DEF RateInv, ArrivalsFollow
  <2> QED
    BY <1>1, <1>2, <1>4, <2>1, RateAssumption
<1> QED
  BY <1>2, <1>5, <1>6, <1>7

\* The others map to their rows, which the budget bounds.
LEMMA ArrivalsBounded == RateInv => LimitKept
<1> SUFFICES ASSUME RateInv, NEW t \in Ticks
             PROVE  Cardinality(Span(arrived, t)) <= Max + 1
  BY DEF LimitKept
<1> DEFINE A == Span(arrived, t)
           R == Span(recorded, t)
           InTime == {a \in A : \E r \in R : r[1] = a[1]}
           row == [a \in InTime |-> CHOOSE r \in R : r[1] = a[1]]
<1>1. /\ IsFiniteSet(A) /\ IsFiniteSet(R) /\ IsFiniteSet(InTime)
      /\ Cardinality(A) \in Nat /\ Cardinality(R) \in Nat /\ Cardinality(InTime) \in Nat
  <2>1. A \subseteq arrived /\ R \subseteq recorded /\ InTime \subseteq A
    BY DEF Span
  <2>2. IsFiniteSet(A) /\ IsFiniteSet(R)
    BY <2>1, Smaller DEF RateInv, ArrivalsFollow, LedgerInOrder
  <2> QED
    BY <2>1, <2>2, Smaller
<1>2. Cardinality(R) <= Max
  BY DEF RateInv, BudgetKept
<1>3. Cardinality(InTime) <= Cardinality(R)
  <2>1. \A a \in InTime : row[a] \in R /\ row[a][1] = a[1]
    OBVIOUS
  <2>2. \A a, b \in InTime : row[a] = row[b] => a = b
    BY <2>1 DEF RateInv, ArrivalsFollow, Span
  <2>3. row \in [InTime -> R]
    BY <2>1
  <2> HIDE DEF R, InTime, row
  <2>4. ~(Cardinality(R) < Cardinality(InTime))
    BY <1>1, <2>2, <2>3, FS_PigeonHole
  <2> QED
    BY <1>1, <2>4
<1>4. ASSUME A = InTime
      PROVE  Cardinality(A) <= Max + 1
  <2> HIDE DEF A, R, InTime
  <2> QED
    BY <1>1, <1>2, <1>3, <1>4, RateAssumption
<1>5. ASSUME NEW x \in A, x \notin InTime
      PROVE  Cardinality(A) <= Max + 1
  <2>1. \A a \in A : \E r \in recorded : r[1] = a[1]
    BY DEF RateInv, ArrivalsFollow, Span
  <2>2. \A a \in A : a \notin InTime => a = x
    <3> SUFFICES ASSUME NEW a \in A, a \notin InTime, a # x PROVE FALSE
      OBVIOUS
    <3>1. PICK r \in recorded : r[1] = a[1]
      BY <2>1
    <3>2. PICK u \in recorded : u[1] = x[1]
      BY <1>5, <2>1
    <3>3. r \notin R /\ u \notin R
      BY <1>5, <3>1, <3>2
    <3> QED
      BY <1>5, <3>1, <3>2, <3>3, OneStraggler
  <2>3. A = InTime \cup {x}
    BY <1>5, <2>2
  <2>4. Cardinality(InTime \cup {x}) = Cardinality(InTime) + 1
    BY <1>1, <1>5, FS_AddElement
  <2> HIDE DEF A, R, InTime
  <2> QED
    BY <1>1, <1>2, <1>3, <2>3, <2>4, RateAssumption
<1>6. A = InTime \/ \E x \in A : x \notin InTime
  OBVIOUS
<1> HIDE DEF A, InTime
<1>7. Cardinality(A) <= Max + 1
  BY <1>4, <1>5, <1>6
<1> QED
  BY <1>7 DEF A

(***************************************************************************)
(* PseudoGram meets at most Max + 1 of the worker's requests in a window   *)
(* of its own, however long each is on its way: the request that           *)
(* config.RATE_LIMIT_MAX banks is enough (worker.py _send_one).            *)
(***************************************************************************)
THEOREM LimitIsKept == Spec => []LimitKept
  BY RateInvariance, ArrivalsBounded, PTL
=============================================================================
