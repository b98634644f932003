------------------------------- MODULE AIJobs -------------------------------
(***************************************************************************)
(* AI jobs: the Go service that stores and queues them (ai_job_service.go, *)
(* ai_job_repo.go), the Redis lists, the Python consumers (ai-worker       *)
(* main.py) and the HTTP callbacks by which a consumer reports to Go       *)
(* (handler/internal.go).                                                  *)
(*                                                                         *)
(* A message is a payload, represented by the row that stores it.  A       *)
(* callback is about the row whose id is the task_id or cycle_id of the    *)
(* payload.  EnqueueJob makes the id of a row when the payload is complete *)
(* and does not write it there, so that row is never the payload's own: it *)
(* is one of an earlier job, or none.                                      *)
(*                                                                         *)
(* A deployment is assumed whose list names agree and whose API_BASE_URL   *)
(* ends in /api/v1; with the defaults of the repository no message is ever *)
(* popped, and every callback is answered 404.                             *)
(***************************************************************************)
EXTENDS Naturals, Sequences, FiniteSets, SequencesExt

CONSTANTS
  Jobs,         \* rows of ai_jobs
  Kind,         \* job_type of each row: "ocr" or "ranking"
  Names,        \* the row whose id the payload carries, or NoJob (no uuid, or no row's)
  Malformed,    \* payloads that the consumer's model refuses ...
  Silent,       \* ... and among them those without an id, or that are no JSON object
  Raising,      \* payloads that are accepted and whose processing raises
  Workers,      \* consumer coroutines, one per queue and uvicorn process
  WorkerKind,   \* the queue a consumer reads
  NoJob,
  FaultBound    \* bound of the model: failures of the environment

Kinds == {"ocr", "ranking"}
MaxRetries == 3

ASSUME JobsAssumption ==
  /\ NoJob \notin Jobs
  /\ Kind \in [Jobs -> Kinds]
  /\ Names \in [Jobs -> Jobs \cup {NoJob}]
  /\ Silent \subseteq Malformed /\ Malformed \subseteq Jobs
  /\ Raising \subseteq Jobs \ Malformed
  /\ WorkerKind \in [Workers -> Kinds]
  /\ FaultBound \in Nat

VARIABLES
  status,   \* ai_jobs.status, "none" before the insert
  retries,  \* ai_jobs.retries
  queue,    \* the Redis list of each kind; LPUSH at the head, BRPOP at the end
  push,     \* EnqueueJob of each row: before, in, or after a failed LPUSH
  wpc,      \* what each consumer does next
  raw,      \* the consumer's local raw_payload: the last message it popped
  calls,    \* callbacks Go is handling
  faults,   \* failures so far
  reports,  \* history: how many failures of a row Go has read it for
  refused   \* history: rows whose EnqueueJob answered with an error

rows == <<status, retries>>
consumers == <<wpc, raw>>
history == <<reports, refused>>
vars == <<rows, queue, push, consumers, calls, faults, history>>

Call == [from : Workers, kind : {"status", "result", "fail"}, row : Jobs \cup {NoJob},
         stage : {"read", "record", "push"}, seen : Nat, late : BOOLEAN]

(* Rows, lists, consumers and callbacks hold values of their types.        *)
TypeOK ==
  /\ status \in [Jobs -> {"none", "pending", "processing", "completed", "failed"}]
  /\ retries \in [Jobs -> Nat]
  /\ queue \in [Kinds -> Seq(Jobs)]
  /\ push \in [Jobs -> {"no", "push", "mark"}]
  /\ wpc \in [Workers -> {"pop", "status", "result", "fail"}]
  /\ raw \in [Workers -> Jobs \cup {NoJob}]
  /\ calls \subseteq Call
  /\ faults \in 0 .. FaultBound
  /\ reports \in [Jobs -> Nat]
  /\ refused \subseteq Jobs

Init ==
  /\ status = [j \in Jobs |-> "none"]
  /\ retries = [j \in Jobs |-> 0]
  /\ queue = [k \in Kinds |-> <<>>]
  /\ push = [j \in Jobs |-> "no"]
  /\ wpc = [w \in Workers |-> "pop"]
  /\ raw = [w \in Workers |-> NoJob]
  /\ calls = {}
  /\ faults = 0
  /\ reports = [j \in Jobs |-> 0]
  /\ refused = {}

(* Something outside the program fails.                                    *)
Fault == faults < FaultBound /\ faults' = faults + 1

(* UPDATE ai_jobs SET column = value WHERE id = row: no row, no change.    *)
Update(column, row, value) == [j \in Jobs |-> IF j = row THEN value ELSE column[j]]

-----------------------------------------------------------------------------
(* EnqueueJob.                                                             *)

(* One LPUSH.  go-redis sends a command again when it does not hear the    *)
(* answer, and gives up after some tries: the payload may be pushed more   *)
(* than once, and may be pushed although an error is returned.             *)
LPush(j) == queue' = [queue EXCEPT ![Kind[j]] = <<j>> \o @]
Pushed(j) == LPush(j) /\ UNCHANGED faults
PushedUnheard(j) == Fault /\ LPush(j)
PushFails(j) == Fault /\ (LPush(j) \/ UNCHANGED queue)

(* The row is inserted first ("Source of Truth"); the row that the payload *)
(* names is older than its own.                                            *)
Create(j) ==
  /\ status[j] = "none"
  /\ Names[j] # NoJob => status[Names[j]] # "none"
  /\ status' = [status EXCEPT ![j] = "pending"]
  /\ push' = [push EXCEPT ![j] = "push"]
  /\ UNCHANGED <<retries, queue, consumers, calls, faults, history>>

(* Pushed, pushed and not heard, or given up; the process may also die.    *)
Enqueue(j) ==
  /\ push[j] = "push"
  /\ \/ Pushed(j) /\ push' = [push EXCEPT ![j] = "no"]
     \/ PushedUnheard(j) /\ UNCHANGED push
     \/ PushFails(j) /\ \E next \in {"mark", "no"} : push' = [push EXCEPT ![j] = next]
  /\ UNCHANGED <<rows, consumers, calls, history>>

(* "Mark as failed if we couldn't enqueue it"; an error is ignored.        *)
MarkFailed(j) ==
  /\ push[j] = "mark"
  /\ push' = [push EXCEPT ![j] = "no"]
  /\ \/ /\ status' = [status EXCEPT ![j] = "failed"]
        /\ retries' = [retries EXCEPT ![j] = 0]
        /\ refused' = refused \cup {j}
        /\ UNCHANGED faults
     \/ Fault /\ UNCHANGED <<rows, refused>>
  /\ UNCHANGED <<queue, consumers, calls, reports>>

-----------------------------------------------------------------------------
(* The consumer loop, ocr_worker and ranking_worker alike.                 *)

Send(w, kind, j) ==
  calls' = calls \cup {[from |-> w, kind |-> kind, row |-> Names[j],
                        stage |-> "read", seen |-> 0, late |-> FALSE]}

Awaiting(w) == {c \in calls : c.from = w /\ ~c.late}

(* The consumer goes on with a callback about payload j ...                *)
Report(w, kind, j) == wpc' = [wpc EXCEPT ![w] = kind] /\ Send(w, kind, j)

(* ... but the exception handler may find no payload, or no id in it.      *)
ReportFailure(w, j) ==
  IF j \in Silent \cup {NoJob} THEN wpc' = [wpc EXCEPT ![w] = "pop"] /\ UNCHANGED calls
                               ELSE Report(w, "fail", j)

List(w) == queue[WorkerKind[w]]
TakeLast(w) == queue' = [queue EXCEPT ![WorkerKind[w]] = Front(@)]

(* Mutant of Pop: the message stays in its list.                           *)
PopAndKeep(w) ==
  /\ wpc[w] = "pop" /\ List(w) # <<>>
  /\ LET j == Last(List(w)) IN
     /\ raw' = [raw EXCEPT ![w] = j]
     /\ IF j \in Malformed THEN ReportFailure(w, j) ELSE Report(w, "status", j)
  /\ UNCHANGED <<rows, queue, push, faults, history>>

(* brpop returns a message, which is gone from Redis.  A payload that      *)
(* parses is reported "processing", one that does not raises.              *)
Pop(w) ==
  /\ wpc[w] = "pop" /\ List(w) # <<>>
  /\ TakeLast(w)
  /\ LET j == Last(List(w)) IN
     /\ raw' = [raw EXCEPT ![w] = j]
     /\ IF j \in Malformed THEN ReportFailure(w, j) ELSE Report(w, "status", j)
  /\ UNCHANGED <<rows, push, faults, history>>

(* brpop raises (Redis restarts, the connection drops), perhaps after the  *)
(* message has left Redis: the exception handler finds raw_payload among   *)
(* the locals since an earlier iteration and reports the failure of that.  *)
PopError(w) ==
  /\ wpc[w] = "pop"
  /\ Fault
  /\ UNCHANGED queue \/ (List(w) # <<>> /\ TakeLast(w))
  /\ ReportFailure(w, raw[w])
  /\ UNCHANGED <<rows, push, raw, history>>

(* The status callback was answered or gave up.  The document is processed *)
(* and the result posted; ranking raises on a custom field that is no      *)
(* number, and its failure is reported.                                    *)
Process(w) ==
  /\ wpc[w] = "status" /\ Awaiting(w) = {}
  /\ Report(w, IF raw[w] \in Raising THEN "fail" ELSE "result", raw[w])
  /\ UNCHANGED <<rows, queue, push, raw, faults, history>>

(* The last callback of the iteration is over: the loop starts again.      *)
NextIteration(w) ==
  /\ wpc[w] \in {"result", "fail"} /\ Awaiting(w) = {}
  /\ wpc' = [wpc EXCEPT ![w] = "pop"]
  /\ UNCHANGED <<rows, queue, push, raw, calls, faults, history>>

(* The consumer is cancelled or killed at any await and starts afresh; the *)
(* message it had popped is nowhere any more.  Go goes on with a callback  *)
(* it has received.                                                        *)
Restart(w) ==
  /\ raw[w] # NoJob
  /\ Fault
  /\ wpc' = [wpc EXCEPT ![w] = "pop"]
  /\ raw' = [raw EXCEPT ![w] = NoJob]
  /\ calls' = {[c EXCEPT !.late = @ \/ c.from = w] : c \in calls}
  /\ UNCHANGED <<rows, queue, push, history>>

-----------------------------------------------------------------------------
(* The Go handlers of the callbacks, statement by statement.  An id that   *)
(* is no uuid is answered 400, one that no row has hits no row.            *)

Answer(c) == calls' = calls \ {c}

Advance(c, stage, seen) ==
  calls' = (calls \ {c}) \cup {[c EXCEPT !.stage = stage, !.seen = seen]}

(* Mutant of UpdateStatus: a status that is none of the model's.           *)
UpdateToOther(c) ==
  /\ c.kind = "status"
  /\ status' = Update(status, c.row, "in_progress")
  /\ Answer(c)
  /\ UNCHANGED <<retries, queue, push, consumers, faults, history>>

(* UpdateJobStatus: an UPDATE that does not look at the present status.    *)
UpdateStatus(c) ==
  /\ c.kind = "status"
  /\ status' = Update(status, c.row, "processing")
  /\ Answer(c)
  /\ UNCHANGED <<retries, queue, push, consumers, faults, history>>

(* HandleOCRResult marks the row completed, whatever its status;           *)
(* HandleRankingResult changes nothing.                                    *)
HandleResult(c) ==
  /\ c.kind = "result"
  /\ status' = IF WorkerKind[c.from] = "ocr" THEN Update(status, c.row, "completed") ELSE status
  /\ Answer(c)
  /\ UNCHANGED <<retries, queue, push, consumers, faults, history>>

(* HandleFailure reads the row; there may be none ...                      *)
FailRead(c) ==
  /\ c.kind = "fail" /\ c.stage = "read"
  /\ IF c.row = NoJob
       THEN Answer(c) /\ UNCHANGED reports
       ELSE /\ Advance(c, "record", retries[c.row] + 1)
            /\ reports' = [reports EXCEPT ![c.row] = @ + 1]
  /\ UNCHANGED <<rows, queue, push, consumers, faults, refused>>

(* "Max retries = 3".                                                      *)
Exhausted(n) == n >= MaxRetries

(* Mutant of FailRecord: the count is incremented by the UPDATE itself,    *)
(* after the read had counted the failure already.                         *)
FailRecordTwice(c) ==
  /\ c.kind = "fail" /\ c.stage = "record"
  /\ retries' = Update(retries, c.row, retries[c.row] + c.seen)
  /\ status' = Update(status, c.row, IF Exhausted(c.seen) THEN "failed" ELSE "pending")
  /\ IF Exhausted(c.seen) THEN Answer(c) ELSE Advance(c, "push", c.seen)
  /\ UNCHANGED <<queue, push, consumers, faults, history>>

(* ... writes back what it made of the count it read: failed at the third  *)
(* failure, pending before ...                                             *)
FailRecord(c) ==
  /\ c.kind = "fail" /\ c.stage = "record"
  /\ retries' = Update(retries, c.row, c.seen)
  /\ status' = Update(status, c.row, IF Exhausted(c.seen) THEN "failed" ELSE "pending")
  /\ IF Exhausted(c.seen) THEN Answer(c) ELSE Advance(c, "push", c.seen)
  /\ UNCHANGED <<queue, push, consumers, faults, history>>

(* ... and pushes the payload of a pending row again.  If that fails the   *)
(* row stays pending, pushed or not.                                       *)
FailPush(c) ==
  /\ c.kind = "fail" /\ c.stage = "push"
  /\ \/ Pushed(c.row) /\ Answer(c)
     \/ PushedUnheard(c.row) /\ UNCHANGED calls
     \/ PushFails(c.row) /\ Answer(c)
  /\ UNCHANGED <<rows, push, consumers, history>>

Handle(c) ==
  UpdateStatus(c) \/ HandleResult(c) \/ FailRead(c) \/ FailRecord(c) \/ FailPush(c)

(* Go is unreachable, a statement fails or its process dies: the consumer  *)
(* logs the error and goes on.                                             *)
Lose(c) ==
  /\ Fault
  /\ Answer(c)
  /\ UNCHANGED <<rows, queue, push, consumers, history>>

(* The consumer's 30 s are over while Go still works on the callback.      *)
TimeOut(c) ==
  /\ ~c.late
  /\ Fault
  /\ calls' = (calls \ {c}) \cup {[c EXCEPT !.late = TRUE]}
  /\ UNCHANGED <<rows, queue, push, consumers, history>>

-----------------------------------------------------------------------------
Consume(w) == Pop(w) \/ Process(w) \/ NextIteration(w)

Next ==
  \/ \E j \in Jobs : Create(j) \/ Enqueue(j) \/ MarkFailed(j)
  \/ \E w \in Workers : Consume(w) \/ PopError(w) \/ Restart(w)
  \/ \E c \in calls : Handle(c) \/ Lose(c) \/ TimeOut(c)

Spec == Init /\ [][Next]_vars

(* The Go process and the consumers execute what they have started; BRPOP  *)
(* returns when its list is not empty.  No failure has to happen.          *)
FairSpec ==
  /\ Spec
  /\ \A j \in Jobs : WF_vars(Enqueue(j)) /\ WF_vars(MarkFailed(j))
  /\ \A w \in Workers : SF_vars(Pop(w)) /\ WF_vars(Process(w)) /\ WF_vars(NextIteration(w))
                          /\ WF_vars(\E c \in calls : c.from = w /\ Handle(c))

-----------------------------------------------------------------------------
(* "Max retries = 3": a row counts no failure that was not reported for it, *)
(* and is given up after three of them (or when it could not be enqueued),  *)
(* although handlers that overlap overwrite each other's count with the one *)
(* they read before, and EnqueueJob may reset it (ai_job_service.go 85-103).*)
NeverGivenUpEarly ==
  \A j \in Jobs : /\ retries[j] <= reports[j]
                  /\ status[j] = "failed" => reports[j] >= MaxRetries \/ j \in refused

(* Retries come to an end: however often a push is repeated, a payload is  *)
(* reported and a handler loses a count, when nothing fails any more the   *)
(* lists run empty and the consumers wait, instead of handing the same     *)
(* payloads round for ever (HandleFailure of ai_job_service.go).           *)
AtRest == /\ \A k \in Kinds : queue[k] = <<>>
          /\ \A w \in Workers : wpc[w] = "pop"
          /\ calls = {}
EveryRetryEnds == <>[]AtRest

(* main.py 91: the callback with the result "also acts as the Complete job *)
(* trigger".  An OCR job whose payload is in order is completed.           *)
EveryOCRJobCompletes ==
  \A j \in Jobs : Kind[j] = "ocr" /\ j \notin Malformed \cup Raising
                    /\ status[j] = "pending" ~> status[j] = "completed"
=============================================================================
