---------------------------- MODULE Reports_proofs ----------------------------
(***************************************************************************)
(* Proofs about Reports, for any finite set of jobs.                       *)
(*                                                                         *)
(* A row that is SENT or FAILED stays so and keeps its origin, hence what  *)
(* was counted never exceeds what is there.  A baseline was read before    *)
(* the run started, so it counts only what others sent (BaselineIsOthers), *)
(* and whatever the run sends comes on top of it.  A request of /stats     *)
(* reads its rows after all that was told before it (AnswersCovered).      *)
(***************************************************************************)
EXTENDS Reports, FiniteSetTheorems, TLAPS

\* The rows behind Count and OfRun, and those of no run.
With(statuses) == {j \in Jobs : rows[j].status \in statuses}
RunWith(statuses) == {j \in Jobs : rows[j].status \in statuses /\ rows[j].origin = "run"}
OtherWith(statuses) ==
  {j \in Jobs : rows[j].status \in statuses /\ rows[j].origin = "other"}

\* Numbers n of which row counts are not ahead of the rows.
RowsCover(n) == n.rows.sent <= Count({"SENT"}) /\ n.rows.failed <= Count({"FAILED"})

\* Before the run has started, nothing is its doing.
NothingBefore ==
  ~running => /\ \A j \in Jobs : rows[j].status # "ABSENT" => rows[j].origin = "other"
              /\ blocked["run"] = 0

\* What has been told is there, and was there when the rows of a request were read.
ToldIsThere ==
  /\ answered.sent <= Count({"SENT"}) /\ answered.failed <= Count({"FAILED"})
  /\ answered.blocked <= Blocked
RequestCovered(r) ==
  stats[r].pc = "counted" =>
    /\ RowsCover(stats[r].read)
    /\ stats[r].told.sent <= stats[r].read.rows.sent
    /\ stats[r].told.failed <= stats[r].read.rows.failed
    /\ stats[r].told.blocked <= Blocked
AnswersCovered == ToldIsThere /\ \A r \in Requests : RequestCovered(r)

\* A baseline counts nothing of the run.
SentByOthers(n) == n.rows.sent <= Cardinality(OtherWith({"SENT"}))
BaselineIsOthers ==
  /\ record # Null => SentByOthers(record) /\ record.blocked <= blocked["other"]
  /\ sim.pc \in {"counted", "posting"} => ~running
  /\ sim.pc \in {"counted", "posting", "started"} => SentByOthers(sim.read)
  /\ sim.pc \in {"posting", "started"} => sim.read.blocked <= blocked["other"]
  /\ sim.pc = "started" => running

\* What a report under way has read covers the run beside the baseline.
ReportUnderWay ==
  sim.pc = "reporting" =>
    /\ record # Null
    /\ sim.read.rows.sent >= sim.ofRun + record.rows.sent

ReportsInv ==
  /\ TypeOK /\ NothingBefore /\ AnswersCovered /\ BaselineIsOthers
  /\ ReportUnderWay /\ ReportCoversRun

-----------------------------------------------------------------------------
\* Counts are natural numbers, at most that of all rows.
LEMMA CountsTyped ==
  ASSUME NEW S
  PROVE  /\ IsFiniteSet(With(S)) /\ Count(S) = Cardinality(With(S))
         /\ IsFiniteSet(RunWith(S)) /\ OfRun(S) = Cardinality(RunWith(S))
         /\ IsFiniteSet(OtherWith(S)) /\ Cardinality(OtherWith(S)) \in Nat
         /\ Count(S) \in 0 .. Cardinality(Jobs) /\ OfRun(S) \in 0 .. Cardinality(Jobs)
         /\ Cardinality(Jobs) \in Nat
<1>1. /\ With(S) \subseteq Jobs /\ RunWith(S) \subseteq Jobs /\ OtherWith(S) \subseteq Jobs
      /\ Count(S) = Cardinality(With(S)) /\ OfRun(S) = Cardinality(RunWith(S))
  BY DEF With, RunWith, OtherWith, Count, OfRun
<1>2. /\ IsFiniteSet(With(S)) /\ Cardinality(With(S)) <= Cardinality(Jobs)
      /\ IsFiniteSet(RunWith(S)) /\ Cardinality(RunWith(S)) <= Cardinality(Jobs)
      /\ IsFiniteSet(OtherWith(S))
  BY <1>1, ReportsAssumption, FS_Subset
<1>3. /\ Cardinality(With(S)) \in Nat /\ Cardinality(RunWith(S)) \in Nat
      /\ Cardinality(OtherWith(S)) \in Nat /\ Cardinality(Jobs) \in Nat
  BY <1>2, ReportsAssumption, FS_CardinalityType
<1> QED
  BY <1>1, <1>2, <1>3

\* Every row is of the run or of the others.
LEMMA CountsAddUp ==
  ASSUME TypeOK, NEW S
  PROVE  Count(S) = OfRun(S) + Cardinality(OtherWith(S))
<1>1. /\ With(S) = RunWith(S) \cup OtherWith(S)
      /\ RunWith(S) \cap OtherWith(S) = {}
  BY DEF With, RunWith, OtherWith, TypeOK, Origins
<1>2. Cardinality(RunWith(S) \cup OtherWith(S)) =
        Cardinality(RunWith(S)) + Cardinality(OtherWith(S))
        - Cardinality(RunWith(S) \cap OtherWith(S))
  BY CountsTyped, FS_Union
<1>3. Cardinality(RunWith(S) \cap OtherWith(S)) = 0
  BY <1>1, FS_EmptySet
<1>4. /\ Count(S) = Cardinality(RunWith(S) \cup OtherWith(S))
      /\ OfRun(S) = Cardinality(RunWith(S))
      /\ OfRun(S) \in Nat /\ Cardinality(OtherWith(S)) \in Nat
  BY <1>1, CountsTyped
<1> QED
  BY <1>2, <1>3, <1>4

\* The pipeline takes back no DM sent, no failure and no duplicate, and does
\* nothing for a run that has not started.
LEMMA PipelineGrows ==
  ASSUME TypeOK, NothingBefore, Pipeline
  PROVE  /\ \A s \in {"SENT", "FAILED"} :
              With({s}) \subseteq With({s})' /\ OtherWith({s}) \subseteq OtherWith({s})'
         /\ \A o \in Origins : blocked[o] <= blocked'[o]
         /\ rows' \in [Jobs -> [status : Statuses, origin : Origins]]
         /\ blocked' \in [Origins -> 0 .. MaxBlocked]
         /\ NothingBefore'
<1> USE ReportsAssumption DEF Pipeline, MayCause, With, OtherWith, NothingBefore, TypeOK,
       Origins, Statuses, Owed, simVars, statsVars
<1>1. CASE \E j \in Jobs, o \in Origins :
             /\ rows[j].status = "ABSENT" /\ MayCause(o)
             /\ rows' = [rows EXCEPT ![j] = [status |-> "QUEUED", origin |-> o]]
             /\ UNCHANGED blocked
  BY <1>1
<1>2. CASE \E j \in Jobs, status \in Statuses :
             /\ <<rows[j].status, status>> \in Edges
             /\ rows' = [rows EXCEPT ![j].status = status]
             /\ UNCHANGED blocked
  <2>1. PICK j \in Jobs, status \in Statuses :
             /\ <<rows[j].status, status>> \in Edges
             /\ rows' = [rows EXCEPT ![j].status = status]
             /\ UNCHANGED blocked
    BY <1>2
  <2>2. rows[j].status \notin {"ABSENT", "SENT", "FAILED"}
    BY <2>1 DEF Edges
  <2> QED
    BY <2>1, <2>2
<1>3. CASE \E o \in Origins :
             /\ MayCause(o) /\ blocked[o] < MaxBlocked
             /\ blocked' = [blocked EXCEPT ![o] = @ + 1]
             /\ UNCHANGED rows
  BY <1>3
<1> QED
  BY <1>1, <1>2, <1>3


-----------------------------------------------------------------------------
\* A fresh database has sent nothing.
LEMMA InitInv == Init => ReportsInv
<1> SUFFICES ASSUME Init PROVE ReportsInv
  OBVIOUS
<1>1. Cardinality(Jobs) \in Nat /\ MaxBlocked \in Nat
  BY CountsTyped, ReportsAssumption
<1>2. NoNumbers \in Numbers
  BY <1>1 DEF Numbers, NoNumbers
<1>3. /\ Idle \in Reader /\ Idle.pc = "idle"
      /\ NoTotals \in Totals /\ Unasked \in Request /\ Unasked.pc = "idle"
  BY <1>1, <1>2 DEF Reader, Idle, NoTotals, Totals, Unasked, Request
<1>4. /\ rows \in [Jobs -> [status : Statuses, origin : Origins]]
      /\ blocked \in [Origins -> 0 .. MaxBlocked] /\ blocked["run"] = 0
  BY <1>1 DEF Init, Statuses, Origins
<1>5. TypeOK
  BY <1>3, <1>4 DEF TypeOK, Init
<1>6. NothingBefore /\ AnswersCovered
  <2>1. Blocked \in Nat
    BY <1>4, ReportsAssumption DEF Blocked, Origins
  <2> QED
    BY <1>3, <1>4, <2>1, CountsTyped
       DEF NothingBefore, AnswersCovered, ToldIsThere, RequestCovered, NoTotals, Init
<1>7. BaselineIsOthers /\ ReportUnderWay /\ ReportCoversRun
  BY <1>3 DEF BaselineIsOthers, ReportUnderWay, ReportCoversRun, Init
<1> QED
  BY <1>5, <1>6, <1>7 DEF ReportsInv

\* What was counted stays covered while the pipeline goes on.
LEMMA PipelineInv ==
  ASSUME ReportsInv, Pipeline
  PROVE  ReportsInv'
<1>1. TypeOK /\ NothingBefore /\ UNCHANGED <<stats, answered, sim, running, record, delta>>
  BY DEF ReportsInv, Pipeline, statsVars, simVars
<1>2. /\ \A s \in {"SENT", "FAILED"} :
            With({s}) \subseteq With({s})' /\ OtherWith({s}) \subseteq OtherWith({s})'
      /\ \A o \in Origins : blocked[o] <= blocked'[o]
      /\ rows' \in [Jobs -> [status : Statuses, origin : Origins]]
      /\ blocked' \in [Origins -> 0 .. MaxBlocked]
      /\ NothingBefore'
  BY <1>1, PipelineGrows
<1>3. \A s \in {"SENT", "FAILED"} :
        /\ Count({s}) <= Count({s})' /\ Count({s}) \in Nat /\ Count({s})' \in Nat
        /\ Cardinality(OtherWith({s})) <= Cardinality(OtherWith({s}))'
        /\ Cardinality(OtherWith({s})) \in Nat /\ Cardinality(OtherWith({s}))' \in Nat
  <2> SUFFICES ASSUME NEW s \in {"SENT", "FAILED"}
               PROVE  /\ Count({s}) <= Count({s})' /\ Count({s}) \in Nat /\ Count({s})' \in Nat
                      /\ Cardinality(OtherWith({s})) <= Cardinality(OtherWith({s}))'
                      /\ Cardinality(OtherWith({s})) \in Nat
                      /\ Cardinality(OtherWith({s}))' \in Nat
    OBVIOUS
  <2>1. /\ IsFiniteSet(With({s})') /\ IsFiniteSet(OtherWith({s})')
        /\ With({s})' \subseteq Jobs /\ OtherWith({s})' \subseteq Jobs
    BY ReportsAssumption, FS_Subset DEF With, OtherWith
  <2>2. /\ Cardinality(With({s})) <= Cardinality(With({s})')
        /\ Cardinality(OtherWith({s})) <= Cardinality(OtherWith({s})')
    BY <1>2, <2>1, FS_Subset
  <2>3. /\ Cardinality(With({s})') \in Nat /\ Cardinality(OtherWith({s})') \in Nat
    BY <2>1, FS_CardinalityType
  <2>4. Count({s})' = Cardinality(With({s})')
    BY DEF Count, With
  <2>5. Count({s}) = Cardinality(With({s})) /\ Count({s}) \in Nat
        /\ Cardinality(OtherWith({s})) \in Nat
    BY CountsTyped
  <2> QED
    BY <2>2, <2>3, <2>4, <2>5
<1>4. TypeOK'
  BY <1>1, <1>2 DEF TypeOK
<1>5. Blocked <= Blocked' /\ Blocked \in Nat /\ Blocked' \in Nat
  BY <1>1, <1>2, ReportsAssumption DEF Blocked, TypeOK, Origins
<1>6. AnswersCovered'
  <2>1. /\ Count({"SENT"}) <= Count({"SENT"})' /\ Count({"FAILED"}) <= Count({"FAILED"})'
        /\ Count({"SENT"}) \in Nat /\ Count({"FAILED"}) \in Nat
        /\ Count({"SENT"})' \in Nat /\ Count({"FAILED"})' \in Nat
    BY <1>3
  <2>2. ToldIsThere'
    <3>1. answered.sent \in Nat /\ answered.failed \in Nat /\ answered.blocked \in Nat
      BY <1>1, CountsTyped, ReportsAssumption DEF TypeOK, Totals
    <3> QED
      BY <1>1, <1>5, <2>1, <3>1 DEF ReportsInv, AnswersCovered, ToldIsThere
  <2>3. ASSUME NEW r \in Requests
        PROVE  RequestCovered(r)'
    <3>1. /\ stats[r].read.rows.sent \in Nat /\ stats[r].read.rows.failed \in Nat
          /\ stats[r].told.blocked \in Nat
      BY <1>1, CountsTyped, ReportsAssumption DEF TypeOK, Numbers, Totals, Request
    <3> QED
      BY <1>1, <1>5, <2>1, <3>1
         DEF ReportsInv, AnswersCovered, RequestCovered, RowsCover
  <2> QED
    BY <2>2, <2>3 DEF AnswersCovered
<1>7. BaselineIsOthers'
  <2>1. /\ record # Null => record.rows.sent \in Nat /\ record.blocked \in Nat
        /\ sim.read.rows.sent \in Nat /\ sim.read.blocked \in Nat
        /\ blocked["other"] \in Nat /\ blocked'["other"] \in Nat
        /\ blocked["other"] <= blocked'["other"]
    BY <1>1, <1>2, CountsTyped, ReportsAssumption DEF TypeOK, Numbers, Reader, Origins
  <2>2. /\ Cardinality(OtherWith({"SENT"})) <= Cardinality(OtherWith({"SENT"}))'
        /\ Cardinality(OtherWith({"SENT"})) \in Nat /\ Cardinality(OtherWith({"SENT"}))' \in Nat
    BY <1>3
  <2> QED
    BY <1>1, <2>1, <2>2 DEF ReportsInv, BaselineIsOthers, SentByOthers
<1>8. ReportUnderWay' /\ ReportCoversRun'
  BY <1>1 DEF ReportsInv, ReportUnderWay, ReportCoversRun
<1> QED
  BY <1>2, <1>4, <1>6, <1>7, <1>8 DEF ReportsInv

\* Reading the rows gives numbers that the rows cover.
LEMMA CountedIsCovered ==
  ASSUME TypeOK, NEW pc \in {"counted", "reporting"}
  PROVE  /\ Counted(pc) \in Reader /\ RowsCover(Counted(pc).read) /\ Counted(pc).pc = pc
         /\ Counted(pc).read.rows.sent = Count({"SENT"})
         /\ Counted(pc).read.rows.failed = Count({"FAILED"})
         /\ Counted(pc).ofRun = OfRun({"SENT"}) /\ Counted(pc).read = RowsRead
<1>1. /\ Counted(pc).pc = pc /\ Counted(pc).read = RowsRead
      /\ Counted(pc).read.rows.sent = Count({"SENT"})
      /\ Counted(pc).read.rows.failed = Count({"FAILED"})
      /\ Counted(pc).ofRun = OfRun({"SENT"})
  BY DEF Counted, RowsRead, Buckets
<1>2. Buckets \in [sent : 0 .. Cardinality(Jobs), failed : 0 .. Cardinality(Jobs),
                   queued : 0 .. Cardinality(Jobs)]
  BY CountsTyped DEF Buckets
<1>3. Counted(pc) \in Reader
  BY <1>2, CountsTyped, ReportsAssumption DEF Counted, RowsRead, Reader, Numbers
<1>4. RowsCover(Counted(pc).read)
  BY <1>1, CountsTyped DEF RowsCover
<1> QED
  BY <1>1, <1>3, <1>4

\* The second statement adds a count that is at least as recent.
LEMMA CompletedIsTyped ==
  ASSUME TypeOK, NEW n \in Numbers
  PROVE  /\ Completed(n) \in Numbers /\ Completed(n).blocked = Blocked
         /\ Completed(n).rows = n.rows
         /\ Blocked \in Nat /\ blocked["run"] \in Nat /\ blocked["other"] \in Nat
         /\ Blocked = blocked["run"] + blocked["other"]
<1>1. /\ blocked["run"] \in 0 .. MaxBlocked /\ blocked["other"] \in 0 .. MaxBlocked
      /\ Blocked = blocked["run"] + blocked["other"]
  BY DEF TypeOK, Origins, Blocked
<1>2. Blocked \in 0 .. 2 * MaxBlocked
  BY <1>1, ReportsAssumption
<1> QED
  BY <1>1, <1>2, ReportsAssumption DEF Completed, Numbers

-----------------------------------------------------------------------------
\* Totals told so far, raised by an answer.
LEMMA RaisedIsTyped ==
  ASSUME NEW t \in Totals, NEW n \in Numbers
  PROVE  /\ RaisedBy(t, n) \in Totals
         /\ RaisedBy(t, n).sent \in {t.sent, n.rows.sent}
         /\ RaisedBy(t, n).failed \in {t.failed, n.rows.failed}
         /\ RaisedBy(t, n).blocked \in {t.blocked, n.blocked}
BY DEF RaisedBy, Higher, Totals, Numbers

\* GET /stats answers with what the rows cover; another one that is being served
\* keeps what it was told.
LEMMA StatsInv ==
  ASSUME ReportsInv, NEW r \in Requests, CountRows(r) \/ AnswerStats(r)
  PROVE  ReportsInv'
<1>1. /\ TypeOK /\ UNCHANGED <<rows, blocked, sim, running, record, delta>>
      /\ stats \in [Requests -> Request] /\ stats[r].read \in Numbers
      /\ answered \in Totals
  BY DEF ReportsInv, CountRows, AnswerStats, pipeline, simVars, TypeOK, Request
<1>2. \A s \in {"SENT", "FAILED"} : Count({s})' = Count({s})
  BY <1>1 DEF Count
<1>3. Blocked' = Blocked /\ OtherWith({"SENT"})' = OtherWith({"SENT"})
  BY <1>1 DEF Blocked, OtherWith
<1>4. NothingBefore' /\ BaselineIsOthers' /\ ReportUnderWay' /\ ReportCoversRun'
  BY <1>1, <1>3 DEF ReportsInv, NothingBefore, BaselineIsOthers, SentByOthers,
                    ReportUnderWay, ReportCoversRun
<1>5. CASE CountRows(r)
  <2>1. /\ RowsRead \in Numbers /\ RowsCover(RowsRead)
        /\ RowsRead.rows.sent = Count({"SENT"}) /\ RowsRead.rows.failed = Count({"FAILED"})
    BY <1>1, CountedIsCovered DEF Reader
  <2> DEFINE q == [pc |-> "counted", read |-> RowsRead, told |-> answered]
  <2>2. q \in Request /\ q.read = RowsRead /\ q.told = answered
    BY <1>1, <2>1 DEF Request
  <2>3. stats' = [stats EXCEPT ![r] = q] /\ answered' = answered
    BY <1>5 DEF CountRows
  <2> HIDE DEF q
  <2>4. TypeOK'
    BY <1>1, <2>2, <2>3 DEF TypeOK
  <2>5. ASSUME NEW o \in Requests
        PROVE  RequestCovered(o)'
    <3>1. CASE o = r
      <4>1. stats'[o] = q
        BY <1>1, <2>3, <3>1
      <4> QED
        BY <1>2, <1>3, <2>1, <2>2, <4>1
           DEF ReportsInv, AnswersCovered, ToldIsThere, RequestCovered, RowsCover
    <3>2. CASE o # r
      BY <1>1, <1>2, <1>3, <2>3, <3>2
         DEF ReportsInv, AnswersCovered, RequestCovered, RowsCover
    <3> QED
      BY <3>1, <3>2
  <2>6. ToldIsThere'
    BY <1>2, <1>3, <2>3 DEF ReportsInv, AnswersCovered, ToldIsThere
  <2> QED
    BY <1>4, <2>4, <2>5, <2>6 DEF ReportsInv, AnswersCovered
<1>6. CASE AnswerStats(r)
  <2>1. PICK n \in Numbers :
          /\ n = Completed(stats[r].read) /\ n.rows = stats[r].read.rows
          /\ n.blocked = Blocked
    BY <1>1, CompletedIsTyped
  <2>2. /\ answered' = RaisedBy(answered, n) /\ stats' = [stats EXCEPT ![r] = Unasked]
        /\ stats[r].pc = "counted"
    BY <1>6, <2>1 DEF AnswerStats
  <2>3. Unasked \in Request /\ Unasked.pc = "idle"
    BY CountsTyped, ReportsAssumption
       DEF Unasked, Request, Numbers, NoNumbers, Totals, NoTotals
  <2>4. TypeOK'
    BY <1>1, <2>2, <2>3, RaisedIsTyped DEF TypeOK
  <2>5. ToldIsThere'
    <3>1. /\ n.rows.sent <= Count({"SENT"}) /\ n.rows.failed <= Count({"FAILED"})
          /\ n.blocked <= Blocked
      BY <1>1, <2>1, <2>2, CompletedIsTyped
         DEF ReportsInv, AnswersCovered, RequestCovered, RowsCover
    <3> QED
      BY <1>1, <1>2, <1>3, <2>2, <3>1, RaisedIsTyped
         DEF ReportsInv, AnswersCovered, ToldIsThere
  <2>6. \A o \in Requests : RequestCovered(o)'
    BY <1>1, <1>2, <1>3, <2>2, <2>3
       DEF ReportsInv, AnswersCovered, RequestCovered, RowsCover
  <2> QED
    BY <1>4, <2>4, <2>5, <2>6 DEF ReportsInv, AnswersCovered
<1> QED
  BY <1>5, <1>6

\* A step of the simulation that only moves its own state.
LEMMA SimInv ==
  ASSUME ReportsInv, NEW s \in Reader, sim' = s,
         UNCHANGED <<rows, blocked, stats, answered>>,
         running' \in BOOLEAN, record' \in Numbers \cup {Null}, running => running',
         BaselineIsOthers', ReportUnderWay', ReportCoversRun', record' # Null => running'
  PROVE  ReportsInv'
<1>1. TypeOK'
  BY DEF ReportsInv, TypeOK
<1>2. NothingBefore'
  BY DEF ReportsInv, NothingBefore, TypeOK
<1>3. AnswersCovered'
  BY DEF ReportsInv, AnswersCovered, ToldIsThere, RequestCovered, RowsCover, Count, Blocked
<1> QED
  BY <1>1, <1>2, <1>3 DEF ReportsInv

\* The baseline is read while no row is of the run.
LEMMA SnapshotInv ==
  ASSUME ReportsInv, Snapshot \/ SnapshotBlocked
  PROVE  ReportsInv'
<1>1. /\ TypeOK /\ UNCHANGED <<rows, blocked, stats, answered, running, record, delta>>
      /\ sim \in Reader /\ sim.read \in Numbers /\ record \in Numbers \cup {Null}
      /\ running \in BOOLEAN /\ (record # Null => running)
      /\ ~running
  BY DEF ReportsInv, Snapshot, SnapshotBlocked, pipeline, statsVars, TypeOK, Reader,
         BaselineIsOthers
<1>2. OtherWith({"SENT"})' = OtherWith({"SENT"}) /\ ReportCoversRun'
  BY <1>1 DEF OtherWith, ReportsInv, ReportCoversRun
<1>3. CASE Snapshot
  <2>1. PICK s \in Reader : s = Counted("counted") /\ s.pc = "counted"
                            /\ s.read.rows.sent = Count({"SENT"})
    BY <1>1, CountedIsCovered
  <2>2. sim' = s
    BY <1>3, <2>1 DEF Snapshot
  <2>3. Count({"SENT"}) <= Cardinality(OtherWith({"SENT"}))
    <3>1. OfRun({"SENT"}) = 0
      <4>1. RunWith({"SENT"}) = {}
        BY <1>1 DEF ReportsInv, NothingBefore, RunWith
      <4> QED
        BY <4>1, CountsTyped, FS_EmptySet
    <3> QED
      BY <1>1, <3>1, CountsAddUp, CountsTyped
  <2>4. BaselineIsOthers' /\ ReportUnderWay'
    BY <1>1, <1>2, <2>1, <2>2, <2>3 DEF ReportsInv, BaselineIsOthers, SentByOthers,
       ReportUnderWay
  <2> QED
    BY <1>1, <1>2, <2>2, <2>4, SimInv
<1>4. CASE SnapshotBlocked
  <2>1. PICK n \in Numbers :
          n = Completed(sim.read) /\ n.rows = sim.read.rows /\ n.blocked = Blocked
    BY <1>1, CompletedIsTyped
  <2>2. PICK s \in Reader : s = [sim EXCEPT !.pc = "posting", !.read = n]
    BY <1>1 DEF Reader
  <2>3. sim' = s /\ s.pc = "posting" /\ s.read = n /\ sim.pc = "counted"
    BY <1>1, <1>4, <2>1, <2>2 DEF SnapshotBlocked, Reader
  <2>4. n.blocked <= blocked["other"]
    BY <1>1, <2>1, CompletedIsTyped DEF ReportsInv, NothingBefore
  <2>5. BaselineIsOthers' /\ ReportUnderWay'
    BY <1>1, <1>2, <2>1, <2>3, <2>4 DEF ReportsInv, BaselineIsOthers, SentByOthers,
       ReportUnderWay
  <2> QED
    BY <1>1, <1>2, <2>3, <2>5, SimInv
<1> QED
  BY <1>3, <1>4

\* The run starts, is recorded with the baseline that was held, or is lost.
LEMMA StartInv ==
  ASSUME ReportsInv, StartRun \/ RecordRun \/ SimFails
  PROVE  ReportsInv'
<1>1. /\ TypeOK /\ UNCHANGED <<rows, blocked, stats, answered, delta>>
      /\ sim \in Reader /\ sim.read \in Numbers /\ record \in Numbers \cup {Null}
      /\ running \in BOOLEAN /\ (record # Null => running)
  BY DEF ReportsInv, StartRun, RecordRun, SimFails, pipeline, statsVars, TypeOK, Reader
<1>2. OtherWith({"SENT"})' = OtherWith({"SENT"}) /\ ReportCoversRun'
  BY <1>1 DEF OtherWith, ReportsInv, ReportCoversRun
<1>3. Idle \in Reader /\ Idle.pc = "idle"
  BY CountsTyped, ReportsAssumption DEF Idle, Reader, Numbers, NoNumbers
<1>4. CASE StartRun
  <2>1. PICK s \in Reader : s = [sim EXCEPT !.pc = "started"]
    BY <1>1 DEF Reader
  <2>2. s.pc = "started" /\ s.read = sim.read
    BY <1>1, <2>1 DEF Reader
  <2>3. /\ sim' = s \/ sim' = Idle
        /\ sim.pc = "posting" /\ running' = TRUE /\ UNCHANGED record
    BY <1>4, <2>1 DEF StartRun
  <2>4. BaselineIsOthers' /\ ReportUnderWay'
    BY <1>1, <1>2, <1>3, <2>2, <2>3 DEF ReportsInv, BaselineIsOthers, SentByOthers,
       ReportUnderWay
  <2> QED
    BY <1>1, <1>2, <1>3, <2>3, <2>4, SimInv
<1>5. CASE RecordRun
  <2>1. record' = sim.read /\ sim' = Idle /\ sim.pc = "started" /\ running /\ running' = running
    BY <1>5 DEF RecordRun, ReportsInv, BaselineIsOthers
  <2>2. BaselineIsOthers' /\ ReportUnderWay'
    BY <1>1, <1>2, <1>3, <2>1 DEF ReportsInv, BaselineIsOthers, SentByOthers,
       ReportUnderWay
  <2> QED
    BY <1>1, <1>2, <1>3, <2>1, <2>2, SimInv
<1>6. CASE SimFails
  <2>1. sim' = Idle /\ UNCHANGED <<running, record>>
    BY <1>6 DEF SimFails
  <2>2. BaselineIsOthers' /\ ReportUnderWay'
    BY <1>1, <1>2, <1>3, <2>1 DEF ReportsInv, BaselineIsOthers, SentByOthers,
       ReportUnderWay
  <2> QED
    BY <1>1, <1>2, <1>3, <2>1, <2>2, SimInv
<1> QED
  BY <1>4, <1>5, <1>6

\* A report takes the baseline, which is of the others, from all there is.
LEMMA ReportInv ==
  ASSUME ReportsInv, ReportRows \/ Report
  PROVE  ReportsInv'
<1>1. /\ TypeOK /\ UNCHANGED <<rows, blocked, stats, answered, running, record>>
      /\ sim \in Reader /\ sim.read \in Numbers
      /\ running \in BOOLEAN /\ (record # Null => running)
      /\ record # Null /\ record \in Numbers
  BY DEF ReportsInv, ReportRows, Report, pipeline, statsVars, TypeOK, Reader, ReportUnderWay
<1>2. OtherWith({"SENT"})' = OtherWith({"SENT"})
  BY <1>1 DEF OtherWith
<1>3. CASE ReportRows
  <2>1. PICK s \in Reader : /\ s = Counted("reporting") /\ s.pc = "reporting"
                            /\ s.read.rows.sent = Count({"SENT"}) /\ s.ofRun = OfRun({"SENT"})
    BY <1>1, CountedIsCovered
  <2>2. sim' = s /\ delta' = delta
    BY <1>3, <2>1 DEF ReportRows
  <2>3. Count({"SENT"}) >= OfRun({"SENT"}) + record.rows.sent
    <3>1. record.rows.sent <= Cardinality(OtherWith({"SENT"})) /\ record.rows.sent \in Nat
      BY <1>1, CountsTyped DEF ReportsInv, BaselineIsOthers, SentByOthers, Numbers
    <3>2. /\ Count({"SENT"}) = OfRun({"SENT"}) + Cardinality(OtherWith({"SENT"}))
          /\ OfRun({"SENT"}) \in Nat /\ Cardinality(OtherWith({"SENT"})) \in Nat
      BY <1>1, CountsAddUp, CountsTyped
    <3> QED
      BY <3>1, <3>2
  <2>4. BaselineIsOthers' /\ ReportUnderWay' /\ ReportCoversRun'
    BY <1>1, <1>2, <2>1, <2>2, <2>3 DEF ReportsInv, BaselineIsOthers, SentByOthers,
       ReportUnderWay, ReportCoversRun
  <2> QED
    BY <1>1, <2>2, <2>4, SimInv
<1>4. CASE Report
  <2>1. Idle \in Reader /\ Idle.pc = "idle" /\ sim' = Idle /\ sim.pc = "reporting"
    BY <1>4, CountsTyped, ReportsAssumption DEF Idle, Reader, Numbers, NoNumbers, Report
  <2>2. /\ delta'.sent = Floored(sim.read.rows.sent - record.rows.sent)
        /\ delta'.blocked = Floored(Blocked - record.blocked)
        /\ delta'.ofRun.sent = sim.ofRun /\ delta'.ofRun.blocked = blocked["run"]
    BY <1>4 DEF Report
  <2>3. /\ sim.read.rows.sent >= sim.ofRun + record.rows.sent
        /\ sim.read.rows.sent \in Nat /\ sim.ofRun \in Nat /\ record.rows.sent \in Nat
    BY <1>1, <2>1, CountsTyped DEF ReportsInv, ReportUnderWay, Reader, Numbers
  <2>4. /\ record.blocked <= blocked["other"] /\ record.blocked \in Nat
        /\ Blocked = blocked["run"] + blocked["other"]
        /\ blocked["run"] \in Nat /\ blocked["other"] \in Nat
    BY <1>1, CompletedIsTyped, ReportsAssumption DEF ReportsInv, BaselineIsOthers, Numbers
  <2>5. ReportCoversRun'
    BY <2>2, <2>3, <2>4 DEF ReportCoversRun, Floored
  <2>6. BaselineIsOthers' /\ ReportUnderWay'
    BY <1>1, <1>2, <2>1 DEF ReportsInv, BaselineIsOthers, SentByOthers, ReportUnderWay
  <2> QED
    BY <1>1, <2>1, <2>5, <2>6, SimInv
<1> QED
  BY <1>3, <1>4

\* Every step keeps the invariant.
LEMMA NextInv == ReportsInv /\ [Next]_vars => ReportsInv'
<1> SUFFICES ASSUME ReportsInv, [Next]_vars PROVE ReportsInv'
  OBVIOUS
<1>1. CASE Next
  BY <1>1, PipelineInv, StatsInv, SnapshotInv, StartInv, ReportInv DEF Next
<1>2. CASE UNCHANGED vars
  BY <1>2 DEF vars, pipeline, statsVars, simVars, ReportsInv, TypeOK, NothingBefore,
     AnswersCovered, ToldIsThere, RequestCovered, RowsCover, Count, Blocked,
     BaselineIsOthers, SentByOthers, OtherWith, ReportUnderWay, ReportCoversRun
<1> QED
  BY <1>1, <1>2

-----------------------------------------------------------------------------
(***************************************************************************)
(* The invariant of the readers: no count is ahead of the rows, and no     *)
(* baseline holds a DM of the run it is for.                               *)
(***************************************************************************)
THEOREM ReportsInvariance == Spec => []ReportsInv
<1>1. Init => ReportsInv
  BY InitInv
<1>2. ReportsInv /\ [Next]_vars => ReportsInv'
  BY NextInv
<1> QED
  BY <1>1, <1>2, PTL DEF Spec

(***************************************************************************)
(* A report misses nothing that its run has sent or blocked (simulate.py   *)
(* start_simulation, _delta).                                              *)
(***************************************************************************)
THEOREM ReportsCoverTheirRun == Spec => []ReportCoversRun
<1>1. ReportsInv => ReportCoversRun
  BY DEF ReportsInv
<1> QED
  BY <1>1, ReportsInvariance, PTL

(***************************************************************************)
(* Whatever totals an answer of /stats has told, no request of which the   *)
(* first statement comes later is answered with less, for any number of    *)
(* requests served at once (stats.py).                                     *)
(***************************************************************************)
THEOREM StatsTakeNothingBack == Spec => []StatsNeverTakesBack
<1>1. ReportsInv => StatsNeverTakesBack
  <2> SUFFICES ASSUME ReportsInv, NEW r \in Requests, stats[r].pc = "counted"
               PROVE  AtLeast(Completed(stats[r].read), stats[r].told)
    BY DEF StatsNeverTakesBack
  <2>1. TypeOK /\ stats[r].read \in Numbers /\ stats[r].told \in Totals
    BY DEF ReportsInv, TypeOK, Request
  <2>2. /\ Completed(stats[r].read).rows = stats[r].read.rows
        /\ Completed(stats[r].read).blocked = Blocked /\ Blocked \in Nat
    BY <2>1, CompletedIsTyped
  <2>3. /\ stats[r].told.sent <= stats[r].read.rows.sent
        /\ stats[r].told.failed <= stats[r].read.rows.failed
        /\ stats[r].told.blocked <= Blocked
    BY DEF ReportsInv, AnswersCovered, RequestCovered
  <2> QED
    BY <2>1, <2>2, <2>3, CountsTyped, ReportsAssumption DEF AtLeast, Numbers, Totals
<1> QED
  BY <1>1, ReportsInvariance, PTL
=============================================================================
