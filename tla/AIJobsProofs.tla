---------------------------- MODULE AIJobsProofs ----------------------------
(***************************************************************************)
(* Theorems about AIJobs, for every set of jobs and workers, every payload *)
(* and every FaultBound.                                                   *)
(***************************************************************************)
EXTENDS AIJobs, SequenceTheorems, TLAPS

(* A consumer that reports on a payload has one.                           *)
Busy == \A w \in Workers : wpc[w] = "status" => raw[w] \in Jobs

(* A failure past its read is one of a row, and was counted.               *)
Counted ==
  \A c \in calls : c.stage # "read" => /\ c.kind = "fail" /\ c.row \in Jobs
                                       /\ c.seen <= reports[c.row]

IInv == TypeOK /\ Busy /\ Counted /\ NeverGivenUpEarly

-----------------------------------------------------------------------------
(* Lists stay lists of jobs.                                               *)
LEMMA LPushType ==
  ASSUME TypeOK, NEW j \in Jobs, LPush(j)
  PROVE  queue' \in [Kinds -> Seq(Jobs)]
<1>1. Kind[j] \in Kinds
  BY JobsAssumption
<1>2. <<j>> \o queue[Kind[j]] \in Seq(Jobs)
  BY <1>1 DEF TypeOK
<1> QED
  BY <1>2 DEF TypeOK, LPush

(* What each outcome of an LPUSH does to the types.                        *)
LEMMA PushTypes ==
  ASSUME TypeOK, NEW j \in Jobs, Pushed(j) \/ PushedUnheard(j) \/ PushFails(j)
  PROVE  queue' \in [Kinds -> Seq(Jobs)] /\ faults' \in 0 .. FaultBound
BY LPushType, JobsAssumption DEF Pushed, PushedUnheard, PushFails, Fault, TypeOK

(* What a consumer takes is a job.                                         *)
LEMMA TakeTypes ==
  ASSUME TypeOK, NEW w \in Workers, List(w) # <<>>
  PROVE  /\ Last(List(w)) \in Jobs
         /\ TakeLast(w) => queue' \in [Kinds -> Seq(Jobs)]
<1>1. WorkerKind[w] \in Kinds
  BY JobsAssumption
<1>2. List(w) \in Seq(Jobs) /\ List(w) = queue[WorkerKind[w]]
  BY <1>1 DEF TypeOK, List
<1>3. Len(List(w)) \in Nat \ {0}
  BY <1>2, EmptySeq
<1>4. Last(List(w)) \in Jobs
  BY <1>2, <1>3 DEF Last
<1>5. Front(List(w)) \in Seq(Jobs)
  <2>1. Front(List(w)) = SubSeq(List(w), 1, Len(List(w)) - 1)
    BY DEF Front
  <2> QED
    BY <1>2, <1>3, <2>1
<1>6. TakeLast(w) => queue' \in [Kinds -> Seq(Jobs)]
  <2>1. queue[WorkerKind[w]] = List(w)
    BY DEF List
  <2> QED
    BY <1>1, <1>5, <2>1 DEF TypeOK, TakeLast
<1> QED
  BY <1>4, <1>6

(* A callback that is sent is one about the row that the payload names.    *)
LEMMA ReportTypes ==
  ASSUME IInv, NEW w \in Workers, NEW j \in Jobs, NEW kind \in {"status", "result", "fail"},
         Report(w, kind, j), UNCHANGED reports
  PROVE  /\ wpc' \in [Workers -> {"pop", "status", "result", "fail"}]
         /\ wpc' = [wpc EXCEPT ![w] = kind]
         /\ calls' \subseteq Call
         /\ Counted'
<1> DEFINE new == [from |-> w, kind |-> kind, row |-> Names[j],
                   stage |-> "read", seen |-> 0, late |-> FALSE]
<1>1. Names[j] \in Jobs \cup {NoJob}
  BY JobsAssumption
<1>2. new \in Call
  BY <1>1 DEF Call
<1>3. calls' = calls \cup {new}
  BY DEF Report, Send
<1>4. new.stage = "read"
  OBVIOUS
<1> HIDE DEF new
<1>5. Counted'
  BY <1>3, <1>4 DEF IInv, Counted
<1> QED
  BY <1>2, <1>3, <1>5 DEF IInv, TypeOK, Report

LEMMA ReportFailureTypes ==
  ASSUME IInv, NEW w \in Workers, NEW j \in Jobs \cup {NoJob},
         ReportFailure(w, j), UNCHANGED reports
  PROVE  /\ wpc' \in [Workers -> {"pop", "status", "result", "fail"}]
         /\ wpc' \in {[wpc EXCEPT ![w] = "pop"], [wpc EXCEPT ![w] = "fail"]}
         /\ calls' \subseteq Call
         /\ Counted'
<1>1. CASE j \in Silent \cup {NoJob}
  BY <1>1 DEF ReportFailure, IInv, TypeOK, Counted
<1>2. CASE j \notin Silent \cup {NoJob}
  <2>1. j \in Jobs /\ Report(w, "fail", j)
    BY <1>2 DEF ReportFailure
  <2> QED
    BY <2>1, ReportTypes
<1> QED
  BY <1>1, <1>2

(* A consumer that takes no new status keeps Busy.                         *)
LEMMA BusyKept ==
  ASSUME TypeOK, Busy, NEW w \in Workers, NEW next \in {"pop", "status", "result", "fail"},
         wpc' = [wpc EXCEPT ![w] = next], next = "status" => raw'[w] \in Jobs,
         \A v \in Workers \ {w} : raw'[v] = raw[v]
  PROVE  Busy'
<1> SUFFICES ASSUME NEW v \in Workers, wpc'[v] = "status" PROVE raw'[v] \in Jobs
  BY DEF Busy
<1> QED
  BY DEF TypeOK, Busy

(* A callback that advances is the same callback.                          *)
LEMMA AdvanceTypes ==
  ASSUME IInv, NEW c \in calls, NEW stage \in {"record", "push"}, NEW seen \in Nat,
         c.kind = "fail", c.row \in Jobs, Advance(c, stage, seen),
         seen <= reports'[c.row],
         \A j \in Jobs : reports[j] <= reports'[j],
         reports' \in [Jobs -> Nat]
  PROVE  calls' \subseteq Call /\ Counted'
<1> DEFINE new == [c EXCEPT !.stage = stage, !.seen = seen]
<1>1. c \in Call
  BY DEF IInv, TypeOK
<1>2. /\ new \in Call
      /\ new.kind = "fail" /\ new.row = c.row /\ new.seen = seen
  BY <1>1 DEF Call
<1>3. calls' = (calls \ {c}) \cup {new}
  BY DEF Advance
<1> HIDE DEF new
<1>4. Counted'
  <2> SUFFICES ASSUME NEW d \in calls', d.stage # "read"
               PROVE  d.kind = "fail" /\ d.row \in Jobs /\ d.seen <= reports'[d.row]
    BY DEF Counted
  <2>1. CASE d = new
    BY <2>1, <1>2
  <2>2. CASE d \in calls
    <3>1. d.kind = "fail" /\ d.row \in Jobs /\ d.seen <= reports[d.row] /\ d.seen \in Nat
      BY <2>2 DEF IInv, Counted, TypeOK, Call
    <3>2. reports[d.row] \in Nat /\ reports'[d.row] \in Nat /\ reports[d.row] <= reports'[d.row]
      BY <3>1 DEF IInv, TypeOK
    <3> QED
      BY <3>1, <3>2
  <2> QED
    BY <1>3, <2>1, <2>2
<1> QED
  BY <1>2, <1>3, <1>4 DEF IInv, TypeOK

(* Updates of a column keep its type.                                      *)
LEMMA UpdateTypes ==
  ASSUME NEW S, NEW column \in [Jobs -> S], NEW row, NEW value \in S
  PROVE  Update(column, row, value) \in [Jobs -> S]
BY DEF Update

-----------------------------------------------------------------------------
(* Rows are counted and given up only on what was reported.                *)
LEMMA Initially == Init => IInv
<1> SUFFICES ASSUME Init PROVE IInv
  OBVIOUS
<1>1. TypeOK
  <2>1. queue \in [Kinds -> Seq(Jobs)]
    BY DEF Init
  <2> QED
    BY <2>1, JobsAssumption DEF Init, TypeOK
<1> QED
  BY <1>1 DEF Init, IInv, Busy, Counted, NeverGivenUpEarly, MaxRetries

LEMMA EnqueueSteps ==
  ASSUME IInv, NEW j \in Jobs, Create(j) \/ Enqueue(j) \/ MarkFailed(j)
  PROVE  IInv'
<1> USE DEF rows, consumers, history
<1>1. CASE Create(j)
  <2>1. TypeOK'
    BY <1>1 DEF Create, IInv, TypeOK
  <2>2. Busy' /\ Counted'
    BY <1>1 DEF Create, IInv, Busy, Counted
  <2>3. NeverGivenUpEarly'
    BY <1>1 DEF Create, IInv, NeverGivenUpEarly, TypeOK
  <2> QED
    BY <2>1, <2>2, <2>3 DEF IInv
<1>2. CASE Enqueue(j)
  <2>1. TypeOK'
    <3>1. queue' \in [Kinds -> Seq(Jobs)] /\ faults' \in 0 .. FaultBound
      BY <1>2, PushTypes DEF Enqueue, IInv
    <3>2. push' \in [Jobs -> {"no", "push", "mark"}]
      BY <1>2 DEF Enqueue, IInv, TypeOK
    <3> QED
      BY <1>2, <3>1, <3>2 DEF Enqueue, IInv, TypeOK
  <2>2. Busy' /\ Counted' /\ NeverGivenUpEarly'
    BY <1>2 DEF Enqueue, IInv, Busy, Counted, NeverGivenUpEarly
  <2> QED
    BY <2>1, <2>2 DEF IInv
<1>3. CASE MarkFailed(j)
  <2>1. TypeOK'
    <3>1. /\ push' = [push EXCEPT ![j] = "no"]
          /\ UNCHANGED <<queue, wpc, raw, calls, reports>>
      BY <1>3 DEF MarkFailed
    <3>2. CASE Fault /\ UNCHANGED <<rows, refused>>
      BY <3>1, <3>2, JobsAssumption DEF IInv, TypeOK, Fault
    <3>3. CASE /\ status' = [status EXCEPT ![j] = "failed"]
               /\ retries' = [retries EXCEPT ![j] = 0]
               /\ refused' = refused \cup {j}
               /\ UNCHANGED faults
      BY <3>1, <3>3 DEF IInv, TypeOK
    <3> QED
      BY <1>3, <3>2, <3>3 DEF MarkFailed
  <2>2. Busy' /\ Counted'
    BY <1>3 DEF MarkFailed, IInv, Busy, Counted
  <2>3. NeverGivenUpEarly'
    BY <1>3 DEF MarkFailed, IInv, NeverGivenUpEarly, TypeOK, MaxRetries
  <2> QED
    BY <2>1, <2>2, <2>3 DEF IInv
<1> QED
  BY <1>1, <1>2, <1>3

LEMMA ConsumerSteps ==
  ASSUME IInv, NEW w \in Workers, Consume(w) \/ PopError(w) \/ Restart(w)
  PROVE  IInv'
<1> USE DEF rows, consumers, history
<1> USE DEF IInv
<1>0. UNCHANGED <<rows, push, history>>
  BY DEF Consume, Pop, Process, NextIteration, PopError, Restart
<1>n. NeverGivenUpEarly'
  BY <1>0 DEF NeverGivenUpEarly
<1>1. CASE Pop(w)
  <2> DEFINE j == Last(List(w))
  <2>1. j \in Jobs /\ queue' \in [Kinds -> Seq(Jobs)]
    BY <1>1, TakeTypes DEF Pop
  <2>2. /\ raw' = [raw EXCEPT ![w] = j]
        /\ IF j \in Malformed THEN ReportFailure(w, j) ELSE Report(w, "status", j)
        /\ UNCHANGED faults
    BY <1>1 DEF Pop
  <2> HIDE DEF j
  <2>3. raw' \in [Workers -> Jobs \cup {NoJob}] /\ raw'[w] = j
        /\ \A v \in Workers \ {w} : raw'[v] = raw[v]
    BY <2>1, <2>2 DEF TypeOK
  <2>4. /\ wpc' \in [Workers -> {"pop", "status", "result", "fail"}]
        /\ \E next \in {"pop", "status", "fail"} : wpc' = [wpc EXCEPT ![w] = next]
        /\ calls' \subseteq Call
        /\ Counted'
    BY <1>0, <2>1, <2>2, ReportTypes, ReportFailureTypes
  <2>5. Busy'
    BY <2>1, <2>3, <2>4, BusyKept
  <2>6. TypeOK'
    BY <1>0, <2>1, <2>2, <2>3, <2>4 DEF TypeOK
  <2> QED
    BY <1>n, <2>4, <2>5, <2>6
<1>2. CASE PopError(w)
  <2>1. queue' \in [Kinds -> Seq(Jobs)]
    BY <1>2, TakeTypes DEF PopError, TypeOK
  <2>2. /\ ReportFailure(w, raw[w]) /\ UNCHANGED raw
        /\ raw[w] \in Jobs \cup {NoJob}
        /\ faults' \in 0 .. FaultBound
    BY <1>2, JobsAssumption DEF PopError, Fault, TypeOK
  <2>3. /\ wpc' \in [Workers -> {"pop", "status", "result", "fail"}]
        /\ \E next \in {"pop", "fail"} : wpc' = [wpc EXCEPT ![w] = next]
        /\ calls' \subseteq Call
        /\ Counted'
    BY <1>0, <2>2, ReportFailureTypes
  <2>4. Busy'
    BY <2>2, <2>3, BusyKept
  <2>5. TypeOK'
    BY <1>0, <2>1, <2>2, <2>3 DEF TypeOK
  <2> QED
    BY <1>n, <2>3, <2>4, <2>5
<1>3. CASE Process(w)
  <2>1. raw[w] \in Jobs
    BY <1>3 DEF Process, Busy
  <2>2. PICK kind \in {"result", "fail"} : Report(w, kind, raw[w])
    BY <1>3 DEF Process
  <2>3. /\ wpc' \in [Workers -> {"pop", "status", "result", "fail"}]
        /\ wpc' = [wpc EXCEPT ![w] = kind]
        /\ calls' \subseteq Call
        /\ Counted'
    BY <1>0, <2>1, <2>2, ReportTypes
  <2>4. UNCHANGED <<queue, raw, faults>>
    BY <1>3 DEF Process
  <2>5. Busy'
    BY <2>3, <2>4, BusyKept
  <2>6. TypeOK'
    BY <1>0, <2>3, <2>4 DEF TypeOK
  <2> QED
    BY <1>n, <2>3, <2>5, <2>6
<1>4. CASE NextIteration(w)
  <2>1. Busy'
    BY <1>4, BusyKept DEF NextIteration
  <2>2. TypeOK' /\ Counted'
    BY <1>4 DEF NextIteration, TypeOK, Counted
  <2> QED
    BY <1>n, <2>1, <2>2
<1>5. CASE Restart(w)
  <2>1. Busy'
    BY <1>5, BusyKept DEF Restart, TypeOK
  <2>2. calls' \subseteq Call /\ Counted'
    <3>1. \A c \in calls : LET d == [c EXCEPT !.late = @ \/ c.from = w]
                           IN  /\ d \in Call
                               /\ d.stage = c.stage /\ d.kind = c.kind /\ d.row = c.row
                               /\ d.seen = c.seen
      <4> SUFFICES ASSUME NEW c \in calls
                   PROVE  LET d == [c EXCEPT !.late = @ \/ c.from = w]
                          IN  /\ d \in Call
                              /\ d.stage = c.stage /\ d.kind = c.kind /\ d.row = c.row
                              /\ d.seen = c.seen
        OBVIOUS
      <4>1. c \in Call
        BY DEF TypeOK
      <4>2. (c.late \/ c.from = w) \in BOOLEAN
        BY <4>1 DEF Call
      <4> QED
        BY <4>1, <4>2 DEF Call
    <3>2. \A d \in calls' : \E c \in calls : d = [c EXCEPT !.late = @ \/ c.from = w]
      BY <1>5 DEF Restart
    <3>3. calls' \subseteq Call
      BY <3>1, <3>2
    <3>4. Counted'
      <4> SUFFICES ASSUME NEW d \in calls', d.stage # "read"
                   PROVE  d.kind = "fail" /\ d.row \in Jobs /\ d.seen <= reports[d.row]
        BY <1>0 DEF Counted
      <4>1. PICK c \in calls : d = [c EXCEPT !.late = @ \/ c.from = w]
        BY <3>2
      <4>2. d.stage = c.stage /\ d.kind = c.kind /\ d.row = c.row /\ d.seen = c.seen
        BY <3>1, <4>1
      <4> QED
        BY <4>2 DEF Counted
    <3> QED
      BY <3>3, <3>4
  <2>3. TypeOK'
    BY <1>0, <1>5, <2>2, JobsAssumption DEF Restart, TypeOK, Fault
  <2> QED
    BY <1>n, <2>1, <2>2, <2>3
<1> QED
  BY <1>1, <1>2, <1>3, <1>4, <1>5 DEF Consume

LEMMA CallbackSteps ==
  ASSUME IInv, NEW c \in calls, Handle(c) \/ Lose(c) \/ TimeOut(c)
  PROVE  IInv'
<1> USE DEF rows, consumers, history
<1> USE DEF IInv
<1>0. c \in Call /\ UNCHANGED <<push, consumers, refused>>
  BY DEF TypeOK, Handle, UpdateStatus, HandleResult, FailRead, FailRecord, FailPush, Lose, TimeOut
<1>b. Busy'
  BY <1>0 DEF Busy
<1>a. Answer(c) /\ UNCHANGED reports => calls' \subseteq Call /\ Counted'
  BY DEF Answer, TypeOK, Counted
<1>1. CASE UpdateStatus(c) \/ HandleResult(c)
  <2>1. /\ calls' \subseteq Call /\ Counted'
        /\ UNCHANGED <<retries, queue, faults, reports>>
    BY <1>1, <1>a DEF UpdateStatus, HandleResult
  <2>2. \/ UNCHANGED status
        \/ \E value \in {"processing", "completed"} : status' = Update(status, c.row, value)
    BY <1>1 DEF UpdateStatus, HandleResult
  <2>3. status' \in [Jobs -> {"none", "pending", "processing", "completed", "failed"}]
    <3>1. \A value \in {"processing", "completed"} :
            Update(status, c.row, value)
              \in [Jobs -> {"none", "pending", "processing", "completed", "failed"}]
      BY DEF Update, TypeOK
    <3> QED
      BY <2>2, <3>1 DEF TypeOK
  <2>4. \A j \in Jobs : status'[j] = "failed" => status[j] = "failed"
    BY <2>2 DEF Update
  <2> QED
    BY <1>0, <1>b, <2>1, <2>3, <2>4 DEF TypeOK, NeverGivenUpEarly
<1>2. CASE FailRead(c)
  <2>1. CASE c.row = NoJob
    <3>1. Answer(c) /\ UNCHANGED <<rows, queue, faults, reports>>
      BY <1>2, <2>1 DEF FailRead
    <3> QED
      BY <1>0, <1>a, <1>b, <3>1 DEF TypeOK, NeverGivenUpEarly
  <2>2. CASE c.row # NoJob
    <3>1. c.row \in Jobs /\ c.kind = "fail"
      BY <1>0, <1>2, <2>2 DEF Call, FailRead
    <3>2. /\ Advance(c, "record", retries[c.row] + 1)
          /\ reports' = [reports EXCEPT ![c.row] = @ + 1]
          /\ UNCHANGED <<rows, queue, faults>>
      BY <1>2, <2>2 DEF FailRead
    <3>3. /\ reports' \in [Jobs -> Nat]
          /\ \A j \in Jobs : reports[j] <= reports'[j]
          /\ reports'[c.row] = reports[c.row] + 1
      BY <3>1, <3>2 DEF TypeOK
    <3>4. /\ retries[c.row] + 1 \in Nat
          /\ retries[c.row] + 1 <= reports'[c.row]
      BY <3>1, <3>3 DEF TypeOK, NeverGivenUpEarly
    <3>5. calls' \subseteq Call /\ Counted'
      BY <3>1, <3>2, <3>3, <3>4, AdvanceTypes
    <3>6. NeverGivenUpEarly'
      BY <1>0, <3>2, <3>3 DEF NeverGivenUpEarly, TypeOK, MaxRetries
    <3> QED
      BY <1>0, <1>b, <3>2, <3>3, <3>5, <3>6 DEF TypeOK
  <2> QED
    BY <2>1, <2>2
<1>3. CASE FailRecord(c)
  <2>1. /\ c.kind = "fail" /\ c.row \in Jobs
        /\ c.seen \in Nat /\ c.seen <= reports[c.row]
    BY <1>0, <1>3 DEF FailRecord, Counted, Call
  <2>2. /\ retries' = Update(retries, c.row, c.seen)
        /\ UNCHANGED <<queue, faults, reports, refused>>
    BY <1>3 DEF FailRecord
  <2>3. retries' \in [Jobs -> Nat]
    BY <2>1, <2>2, UpdateTypes DEF TypeOK
  <2>4. status' \in [Jobs -> {"none", "pending", "processing", "completed", "failed"}]
    BY <1>3, UpdateTypes DEF FailRecord, TypeOK
  <2>5. calls' \subseteq Call /\ Counted'
    <3>1. CASE Answer(c)
      BY <1>a, <2>2, <3>1
    <3>2. CASE Advance(c, "push", c.seen)
      <4>1. /\ c.seen <= reports'[c.row] /\ reports' \in [Jobs -> Nat]
            /\ \A j \in Jobs : reports[j] <= reports'[j]
        BY <2>1, <2>2 DEF TypeOK
      <4> QED
        BY <2>1, <3>2, <4>1, AdvanceTypes
    <3> QED
      BY <1>3, <3>1, <3>2 DEF FailRecord
  <2>6. NeverGivenUpEarly'
    <3> SUFFICES ASSUME NEW j \in Jobs
                 PROVE  /\ retries'[j] <= reports[j]
                        /\ status'[j] = "failed" => reports[j] >= MaxRetries \/ j \in refused
      BY <2>2 DEF NeverGivenUpEarly
    <3>1. CASE j = c.row
      <4>1. retries'[j] = c.seen
        BY <2>2, <3>1 DEF Update
      <4>2. status'[j] = "failed" => c.seen >= MaxRetries
        BY <1>3, <3>1 DEF FailRecord, Update, Exhausted
      <4> QED
        BY <2>1, <3>1, <4>1, <4>2 DEF MaxRetries, TypeOK
    <3>2. CASE j # c.row
      BY <1>3, <2>2, <3>2 DEF FailRecord, Update, NeverGivenUpEarly
    <3> QED
      BY <3>1, <3>2
  <2> QED
    BY <1>0, <1>b, <2>2, <2>3, <2>4, <2>5, <2>6 DEF TypeOK
<1>4. CASE FailPush(c)
  <2>1. c.row \in Jobs
    BY <1>4 DEF FailPush, Counted
  <2>2. queue' \in [Kinds -> Seq(Jobs)] /\ faults' \in 0 .. FaultBound
    BY <1>4, <2>1, PushTypes DEF FailPush
  <2>3. UNCHANGED <<rows, reports>>
    BY <1>4 DEF FailPush
  <2>4. calls' \subseteq Call /\ Counted'
    BY <1>4, <1>a, <2>3 DEF FailPush, TypeOK, Counted
  <2> QED
    BY <1>0, <1>b, <2>2, <2>3, <2>4 DEF TypeOK, NeverGivenUpEarly
<1>5. CASE Lose(c) \/ TimeOut(c)
  <2>1. faults' \in 0 .. FaultBound /\ UNCHANGED <<rows, queue, reports>>
    BY <1>5, JobsAssumption DEF Lose, TimeOut, Fault, TypeOK
  <2>2. calls' \subseteq Call /\ Counted'
    <3>1. CASE Lose(c)
      BY <1>a, <2>1, <3>1 DEF Lose
    <3>2. CASE TimeOut(c)
      <4> DEFINE new == [c EXCEPT !.late = TRUE]
      <4>1. /\ new \in Call /\ new.kind = c.kind /\ new.row = c.row
            /\ new.stage = c.stage /\ new.seen = c.seen
        BY <1>0 DEF Call
      <4>2. calls' = (calls \ {c}) \cup {new}
        BY <3>2 DEF TimeOut
      <4> HIDE DEF new
      <4> QED
        BY <2>1, <4>1, <4>2 DEF Counted, TypeOK
    <3> QED
      BY <1>5, <3>1, <3>2
  <2> QED
    BY <1>0, <1>b, <2>1, <2>2 DEF TypeOK, NeverGivenUpEarly
<1> QED
  BY <1>1, <1>2, <1>3, <1>4, <1>5 DEF Handle

-----------------------------------------------------------------------------
(* The invariant of AIJobs: types, busy consumers and counted failures.    *)
THEOREM Invariance == Spec => []IInv
<1>1. IInv /\ [Next]_vars => IInv'
  <2> SUFFICES ASSUME IInv, [Next]_vars PROVE IInv'
    OBVIOUS
  <2>1. CASE UNCHANGED vars
    BY <2>1 DEF vars, rows, consumers, history, IInv, TypeOK, Busy, Counted, NeverGivenUpEarly
  <2>2. CASE Next
    BY <2>2, EnqueueSteps, ConsumerSteps, CallbackSteps DEF Next
  <2> QED
    BY <2>1, <2>2
<1> QED
  BY <1>1, Initially, PTL DEF Spec

(* Rows, lists, consumers and callbacks of AIJobs hold values of their types. *)
THEOREM TypeCorrectness == Spec => []TypeOK
BY Invariance, PTL DEF IInv

(* Whatever fails and however handlers of one row overlap, the row counts no *)
(* failure that was not reported for it, and HandleFailure gives it up only  *)
(* after three (ai_job_service.go 85-103).                                   *)
THEOREM GivenUpAfterThree == Spec => []NeverGivenUpEarly
BY Invariance, PTL DEF IInv
=============================================================================
