---------------------------- MODULE OutboundQueue ----------------------------
(***************************************************************************)
(* The outbound retry queue: a first-hand send (OutboundService::send_raw) *)
(* that falls back to the queue on a transient failure (enqueue_job), and  *)
(* the daemon of every node that retries what is queued                    *)
(* (process_queue_tick).  A step ends at every await where another task,   *)
(* another node or a crash can come in between.                            *)
(*                                                                         *)
(* Time is kept relative: a row's "due" is next_retry_at - now in minutes, *)
(* and Tick moves the clock by lowering it.  Only rows in status pending   *)
(* are aged, because next_retry_at of the others is never read.            *)
(***************************************************************************)
EXTENDS Integers, Sequences, FiniteSets

CONSTANTS
  Messages,     \* messages handed to send_raw; a queued message is one job (one fresh Uuid)
  Nodes,        \* server processes on the same database and storage
  Origin,       \* the node on which each message's send_raw runs
  MaxAttempts,  \* the column default of max_attempts
  Limit,        \* the LIMIT of fetch_next_retryable_jobs
  TickSteps,    \* the minutes by which the clock may move at once
  OverdueCap,   \* a job overdue by more than this counts as overdue by this much
  FaultKinds,   \* the faults that may happen: "crash", "db", "io", "hang"
  MaxFaults     \* how many of them in one behaviour

ASSUME ConstantsAssumption ==
  /\ IsFiniteSet(Messages)
  /\ Origin \in [Messages -> Nodes]
  /\ MaxAttempts \in Nat \ {0}
  /\ Limit \in Nat \ {0}
  /\ TickSteps \subseteq Nat \ {0}
  /\ OverdueCap \in Nat
  /\ FaultKinds \subseteq {"crash", "db", "io", "hang"}
  /\ MaxFaults \in Nat

VARIABLES
  jobs,     \* table outbound_queue: Message -> row or NoJob
  files,    \* the messages whose body is in storage/outbound/<job id>.eml
  sender,   \* where each message's first-hand send_raw is, and how it ended
  worker,   \* each node's queue daemon: program counter, batch of snapshots, last result
  wire,     \* how often the remote server has taken responsibility for the message
  tries,    \* how often a queue daemon has started to deliver the message
  faults    \* faults that may still happen

vars == <<jobs, files, sender, worker, wire, tries, faults>>

-----------------------------------------------------------------------------
(* Rows, snapshots and results *)

NoJob == [status |-> "none", attempts |-> 0, due |-> 0]

Job(status, attempts, due) == [status |-> status, attempts |-> attempts, due |-> due]

HasJob(m) == jobs[m] # NoJob

Row == [status : {"none", "pending", "sending", "failed"}, attempts : Nat, due : Int]
Snapshot == [id : Messages, attempts : Nat, due : Int]

SenderStates ==
  {"new", "write", "insert", "rollback", "accepted", "refused", "lost"}
WorkerStates == {"idle", "lock", "read", "deliver", "record", "remove", "hung"}
Results == {"none", "ok", "permanent", "transient", "missing"}

IdleWorker == [pc |-> "idle", batch |-> <<>>, result |-> "none"]

Current(n) == Head(worker[n].batch)

(* What one call of send_raw_inner may return, and whether the remote server has
   accepted the message by then.  It may have accepted it although an error comes
   back: the reply to the final dot or to QUIT can be lost or bad. *)
OutcomesSwallowed == [result : {"ok", "permanent", "transient"}, accepted : BOOLEAN]
Outcomes == {o \in [result : {"ok", "permanent", "transient"}, accepted : BOOLEAN] :
               o.result = "ok" => o.accepted}

(* The budget pays for one fault of kind k. *)
Fault(k) == k \in FaultKinds /\ faults > 0 /\ faults' = faults - 1

-----------------------------------------------------------------------------
(* calculate_next_retry: minutes until the next try *)

RetryDelay(attempts) ==
  LET exponent == IF attempts - 1 < 10 THEN attempts - 1 ELSE 10
      base     == IF attempts <= 0 THEN 1 ELSE 2^exponent * 10
  IN  IF base < 1440 THEN base ELSE 1440

OneDay  == 24 * 60
OneYear == 365 * 24 * 60

(* The row the daemon writes after a try that did not succeed. *)
AfterFailureDone(attempts, result) == Job("done", attempts + 1, OneYear)
AfterFailureOneMore(attempts, result) ==
  IF result \in {"permanent", "missing"} \/ attempts + 1 > MaxAttempts
  THEN Job("failed", attempts + 1, OneYear)
  ELSE Job("pending", attempts + 1, RetryDelay(attempts + 1))
AfterFailureUncounted(attempts, result) ==
  IF result \in {"permanent", "missing"} \/ attempts + 1 >= MaxAttempts
  THEN Job("failed", attempts + 1, OneYear)
  ELSE Job("pending", attempts, RetryDelay(attempts + 1))
AfterFailureLocked(attempts, result) ==
  IF result \in {"permanent", "missing"} \/ attempts + 1 >= MaxAttempts
  THEN Job("failed", attempts + 1, OneYear)
  ELSE Job("sending", attempts + 1, RetryDelay(attempts + 1))
AfterFailure(attempts, result) ==
  IF result = "missing" THEN Job("failed", attempts + 1, OneDay)
  ELSE IF result = "permanent" \/ attempts + 1 >= MaxAttempts
  THEN Job("failed", attempts + 1, OneYear)
  ELSE Job("pending", attempts + 1, RetryDelay(attempts + 1))

-----------------------------------------------------------------------------
(* The statements on outbound_queue.  A statement that fails (a fault) may or may
   not have taken effect before the connection broke. *)

InsertJob(m) == jobs' = [jobs EXCEPT ![m] = Job("pending", 0, 0)]

(* UPDATE ... WHERE id = ?: touches nothing when the row is gone. *)
UpdateJob(m, job) == jobs' = [jobs EXCEPT ![m] = IF HasJob(m) THEN job ELSE NoJob]

DeleteJob(m) == jobs' = [jobs EXCEPT ![m] = NoJob]

Succeeds == UNCHANGED faults
Fails(stmt) == Fault("db") /\ (stmt \/ UNCHANGED jobs)

(* "let _ = stmt.await": whatever comes of the statement, the caller goes on. *)
Ignoring(stmt) == (Succeeds /\ stmt) \/ Fails(stmt)

-----------------------------------------------------------------------------
(* send_raw and enqueue_job *)

SenderGoes(m, pc) == sender' = [sender EXCEPT ![m] = pc]

Transmit(m, o) == wire' = [wire EXCEPT ![m] = IF o.accepted THEN @ + 1 ELSE @]

SenderAfter(result) ==
  IF result = "ok" THEN "accepted" ELSE IF result = "permanent" THEN "refused" ELSE "write"

(* send_raw's own delivery attempt; a transient failure goes on to enqueue_job *)
FirstTry(m) ==
  /\ sender[m] = "new"
  /\ \E o \in Outcomes :
       /\ Transmit(m, o)
       /\ SenderGoes(m, SenderAfter(o.result))
  /\ UNCHANGED <<jobs, files, worker, tries, faults>>

(* enqueue_job saves the body before the row; an I/O error fails the send *)
WriteFile(m) ==
  /\ sender[m] = "write"
  /\ \/ Succeeds /\ files' = files \cup {m} /\ SenderGoes(m, "insert")
     \/ Fault("io") /\ UNCHANGED files /\ SenderGoes(m, "refused")
  /\ UNCHANGED <<jobs, worker, wire, tries>>

InsertRow(m) ==
  /\ sender[m] = "insert"
  /\ \/ Succeeds /\ InsertJob(m) /\ SenderGoes(m, "accepted")
     \/ Fails(InsertJob(m)) /\ SenderGoes(m, "rollback")
  /\ UNCHANGED <<files, worker, wire, tries>>

(* the insert failed: remove the file (errors ignored) and report the failure *)
Rollback(m) ==
  /\ sender[m] = "rollback"
  /\ \/ Succeeds /\ files' = files \ {m}
     \/ Fault("io") /\ UNCHANGED files
  /\ SenderGoes(m, "refused")
  /\ UNCHANGED <<jobs, worker, wire, tries>>

SendRaw(m) == FirstTry(m) \/ WriteFile(m) \/ InsertRow(m) \/ Rollback(m)

-----------------------------------------------------------------------------
(* process_queue_tick *)

WorkerGoes(n, pc, result) ==
  worker' = [worker EXCEPT ![n].pc = pc, ![n].result = result]

(* continue: the next job of the batch, or the end of the tick *)
NextJob(n) ==
  worker' = [worker EXCEPT ![n] =
               IF Len(@.batch) > 1
               THEN [pc |-> "lock", batch |-> Tail(@.batch), result |-> "none"]
               ELSE IdleWorker]

Retryable == {m \in Messages : jobs[m].status = "pending" /\ jobs[m].due <= 0}

(* The answers of fetch_next_retryable_jobs: the oldest Limit retryable jobs,
   oldest first, in any order among equals. *)
Batches ==
  LET size == IF Cardinality(Retryable) < Limit THEN Cardinality(Retryable) ELSE Limit
      IdsOf(s) == {s[i] : i \in 1..size}
  IN  {s \in [1..size -> Retryable] :
         /\ \A i, j \in 1..size : i < j => s[i] # s[j] /\ jobs[s[i]].due <= jobs[s[j]].due
         /\ \A m \in Retryable \ IdsOf(s), i \in 1..size : jobs[s[i]].due <= jobs[m].due}

(* An empty answer (or a failed query) ends the tick: nothing changes. *)
Fetch(n) ==
  /\ worker[n].pc = "idle"
  /\ Retryable # {}
  /\ \E s \in Batches :
       worker' = [worker EXCEPT ![n] =
         [pc     |-> "lock",
          batch  |-> [i \in DOMAIN s |->
                        [id |-> s[i], attempts |-> jobs[s[i]].attempts, due |-> jobs[s[i]].due]],
          result |-> "none"]]
  /\ UNCHANGED <<jobs, files, sender, wire, tries, faults>>

(* Set the row to sending, whatever it is by now; on an error skip the job. *)
LockJob(n) ==
  LET job == Current(n)
      Lock == UpdateJob(job.id, Job("sending", job.attempts, job.due))
  IN  /\ worker[n].pc = "lock"
      /\ \/ Succeeds /\ Lock /\ WorkerGoes(n, "read", "none")
         \/ Fails(Lock) /\ NextJob(n)
      /\ UNCHANGED <<files, sender, wire, tries>>

ReadFile(n) ==
  LET job == Current(n) IN
  /\ worker[n].pc = "read"
  /\ \/ Succeeds /\ job.id \in files /\ WorkerGoes(n, "deliver", "none")
     \/ Succeeds /\ job.id \notin files /\ WorkerGoes(n, "record", "missing")
     \/ Fault("io") /\ WorkerGoes(n, "record", "missing")
  /\ UNCHANGED <<jobs, files, sender, wire, tries>>

(* deliver_once has no timeout: a silent remote server blocks the daemon. *)
Deliver(n) ==
  LET job == Current(n) IN
  /\ worker[n].pc = "deliver"
  /\ tries' = [tries EXCEPT ![job.id] = @ + 1]
  /\ \/ Succeeds /\ \E o \in Outcomes : Transmit(job.id, o) /\ WorkerGoes(n, "record", o.result)
     \/ Fault("hang") /\ WorkerGoes(n, "hung", "none") /\ UNCHANGED wire
  /\ UNCHANGED <<jobs, files, sender>>

(* Errors of these statements are ignored. *)
RecordResult(n) ==
  LET job == Current(n)
      result == worker[n].result
      Failed == UpdateJob(job.id, AfterFailure(job.attempts, result))
  IN  /\ worker[n].pc = "record"
      /\ IF result = "ok"
         THEN /\ Ignoring(DeleteJob(job.id))
              /\ WorkerGoes(n, "remove", "ok")
         ELSE /\ Ignoring(Failed)
              /\ NextJob(n)
      /\ UNCHANGED <<files, sender, wire, tries>>

RemoveFile(n) ==
  /\ worker[n].pc = "remove"
  /\ \/ Succeeds /\ files' = files \ {Current(n).id}
     \/ Fault("io") /\ UNCHANGED files
  /\ NextJob(n)
  /\ UNCHANGED <<jobs, sender, wire, tries>>

QueueTick(n) ==
  Fetch(n) \/ LockJob(n) \/ ReadFile(n) \/ Deliver(n) \/ RecordResult(n) \/ RemoveFile(n)

-----------------------------------------------------------------------------
(* A process dies and is started again: its daemon is back at the start of its
   loop, the first-hand sends it was running never answer. *)
Crash(n) ==
  /\ Fault("crash")
  /\ worker' = [worker EXCEPT ![n] = IdleWorker]
  /\ sender' = [m \in Messages |->
       IF Origin[m] = n /\ sender[m] \in {"write", "insert", "rollback"} THEN "lost" ELSE sender[m]]
  /\ UNCHANGED <<jobs, files, wire, tries>>

Aged(job, minutes) ==
  IF job.status # "pending" THEN job
  ELSE [job EXCEPT !.due = IF @ - minutes > -OverdueCap THEN @ - minutes ELSE -OverdueCap]

Tick ==
  /\ \E minutes \in TickSteps : jobs' = [m \in Messages |-> Aged(jobs[m], minutes)]
  /\ UNCHANGED <<files, sender, worker, wire, tries, faults>>

-----------------------------------------------------------------------------
Init ==
  /\ jobs = [m \in Messages |-> NoJob]
  /\ files = {}
  /\ sender = [m \in Messages |-> "new"]
  /\ worker = [n \in Nodes |-> IdleWorker]
  /\ wire = [m \in Messages |-> 0]
  /\ tries = [m \in Messages |-> 0]
  /\ faults = MaxFaults

Next ==
  \/ \E m \in Messages : SendRaw(m)
  \/ \E n \in Nodes : QueueTick(n) \/ Crash(n)
  \/ Tick

Spec == Init /\ [][Next]_vars

(* Every node's daemon keeps running, as its loop and interval do; send_raw runs to
   its end once called; the clock advances. *)
Fairness ==
  /\ \A m \in Messages : WF_vars(WriteFile(m) \/ InsertRow(m) \/ Rollback(m))
  /\ \A n \in Nodes : WF_vars(QueueTick(n))
  /\ WF_vars(Tick)

FairSpec == Spec /\ Fairness

-----------------------------------------------------------------------------
(* Properties *)

(* Rows, snapshots and program counters keep their shape; in particular the status
   column only holds the statuses the queries of db/queue.rs know.  *)
TypeOK ==
  /\ jobs \in [Messages -> Row]
  /\ files \in SUBSET Messages
  /\ sender \in [Messages -> SenderStates]
  /\ worker \in [Nodes -> [pc : WorkerStates, batch : Seq(Snapshot), result : Results]]
  /\ wire \in [Messages -> Nat]
  /\ tries \in [Messages -> Nat]
  /\ faults \in Nat

(* A message for which send_raw returned Ok and that no remote server has taken yet
   still has its row and its body: no crash, failed statement or second node makes
   the server forget it.  (send_raw, enqueue_job, process_queue_tick) *)
UndeliveredIsKept ==
  \A m \in Messages : sender[m] = "accepted" /\ wire[m] = 0 => HasJob(m) /\ m \in files

(* The attempts column never passes max_attempts, and a row that waits for another
   retry has attempts left: what process_queue_tick compares is never stale enough
   to grant an extra retry.  *)
AttemptsBounded ==
  \A m \in Messages :
    /\ jobs[m].attempts <= MaxAttempts
    /\ jobs[m].status = "pending" => jobs[m].attempts < MaxAttempts

(* One node delivers a queued message at most max_attempts times, also when
   statements fail or the process dies in the middle of a job.  *)
TriesWithinBudget == \A m \in Messages : tries[m] <= MaxAttempts

(* Unless something fails, every queued job ends: it is delivered and deleted, or it is
   failed, however many jobs wait for the same tick.  *)
EveryJobSettles ==
  [](faults = MaxFaults) => \A m \in Messages : HasJob(m) ~> (~HasJob(m) \/ jobs[m].status = "failed")

(* The comment on the lock in process_queue_tick: status sending prevents parallel
   worker pick-up, so no two daemons deliver the same job at the same time.  *)
NoParallelDelivery ==
  \A n1, n2 \in Nodes :
    worker[n1].pc = "deliver" /\ worker[n2].pc = "deliver" /\ n1 # n2
      => Current(n1).id # Current(n2).id

(* start_queue_daemon checks the queue periodically: it always gets back to the
   start of its loop.  *)
DaemonKeepsTicking == \A n \in Nodes : []<>(worker[n].pc = "idle")

-----------------------------------------------------------------------------
(* The refinement of MailPromise *)

(* What has become of a message: its row decides; without one, how send_raw ended. *)
Fate(m) ==
  CASE jobs[m].status = "failed" -> "failed"
    [] jobs[m].status \in {"pending", "sending"} -> "queued"
    [] ~HasJob(m) /\ sender[m] \in {"new", "write", "insert"} -> "submitted"
    [] ~HasJob(m) /\ sender[m] = "accepted" -> "delivered"
    [] OTHER -> IF wire[m] > 0 THEN "delivered" ELSE "refused"

Promise == INSTANCE MailPromise WITH fate <- [m \in Messages |-> Fate(m)]

(* One node with its send_raw, queue table, bodies and daemon keeps the promise,
   crashes and failing statements included. *)
KeepsPromise == Promise!Spec
=============================================================================
