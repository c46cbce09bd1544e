------------------------ MODULE OutboundQueueProofs ------------------------
(***************************************************************************)
(* Proofs about OutboundQueue, for every set of messages and nodes, every  *)
(* max_attempts and every number and kind of faults.                       *)
(***************************************************************************)
EXTENDS OutboundQueue, FiniteSetTheorems, SequenceTheorems, TLAPS

-----------------------------------------------------------------------------
(* The inductive invariant behind UndeliveredIsKept and AttemptsBounded.  What is
   not in the properties themselves: a body exists before its row is inserted; a
   daemon only holds snapshots with attempts left; a daemon that is about to delete
   a row or a body has seen the message accepted. *)

BodyBeforeRow ==
  \A m \in Messages : sender[m] = "insert" /\ wire[m] = 0 => m \in files

BusyHasJob == \A n \in Nodes : worker[n].pc # "idle" => worker[n].batch # <<>>

SnapshotsHaveAttempts ==
  \A n \in Nodes : \A i \in 1..Len(worker[n].batch) :
    worker[n].batch[i].attempts < MaxAttempts

DeletesOnlyDelivered ==
  \A n \in Nodes :
    worker[n].pc = "remove" \/ (worker[n].pc = "record" /\ worker[n].result = "ok")
      => wire[Current(n).id] > 0

IndInv ==
  /\ TypeOK
  /\ BodyBeforeRow
  /\ BusyHasJob
  /\ SnapshotsHaveAttempts
  /\ DeletesOnlyDelivered
  /\ UndeliveredIsKept
  /\ AttemptsBounded

-----------------------------------------------------------------------------
(* The backoff is a whole number of minutes. *)
LEMMA RetryDelayType == ASSUME NEW a \in Int PROVE RetryDelay(a) \in Int
  BY DEF RetryDelay

(* The rows process_queue_tick writes are rows, and keep the attempts column within
   max_attempts when the snapshot had attempts left. *)
LEMMA AfterFailureRow ==
  ASSUME NEW a \in Nat, a < MaxAttempts, NEW r \in Results
  PROVE  /\ AfterFailure(a, r) \in Row
         /\ AfterFailure(a, r) # NoJob
         /\ AfterFailure(a, r).attempts <= MaxAttempts
         /\ AfterFailure(a, r).status = "pending" => AfterFailure(a, r).attempts < MaxAttempts
  <1>1. a + 1 \in Nat /\ RetryDelay(a + 1) \in Int
    BY RetryDelayType
  <1>2. QED
    BY <1>1, ConstantsAssumption DEF AfterFailure, Row, Job, NoJob, OneDay, OneYear, Results

(* A function on 1..n is a sequence of length n. *)
LEMMA FunctionIsSeq ==
  ASSUME NEW S, NEW n \in Nat, NEW f \in [1..n -> S]
  PROVE  f \in Seq(S) /\ Len(f) = n
  OBVIOUS

(* Dropping the head shifts the rest by one. *)
LEMMA TailShifts ==
  ASSUME NEW S, NEW b \in Seq(S), Len(b) > 1
  PROVE  /\ Tail(b) \in Seq(S) /\ Len(Tail(b)) = Len(b) - 1 /\ Tail(b) # <<>>
         /\ \A i \in 1..Len(Tail(b)) : Tail(b)[i] = b[i + 1] /\ i + 1 \in 1..Len(b)
  <1>1. Tail(b) \in Seq(S) /\ Len(Tail(b)) = Len(b) - 1
    OBVIOUS
  <1>2. \A i \in 1..Len(Tail(b)) : Tail(b)[i] = b[i + 1] /\ i + 1 \in 1..Len(b)
    BY <1>1
  <1>3. Tail(b) # <<>>
    <2>1. Len(<<>>) = 0
      OBVIOUS
    <2>2. Len(Tail(b)) # 0
      BY <1>1
    <2>3. QED
      BY <2>1, <2>2, Zenon
  <1>4. QED
    BY <1>1, <1>2, <1>3

LEMMA NotLonger ==
  ASSUME NEW S, NEW b \in Seq(S), b # <<>>, ~(Len(b) > 1)
  PROVE  Len(b) = 1
  <1>1. Len(b) \in Nat /\ Len(b) > 0
    OBVIOUS
  <1>2. \A x \in Nat : x > 0 /\ ~(x > 1) => x = 1
    OBVIOUS
  <1>3. QED
    BY <1>1, <1>2

(* A fetched batch is a sequence of snapshots of retryable rows. *)
LEMMA FetchedBatch ==
  ASSUME TypeOK, NEW s \in Batches, NEW batch,
         batch = [i \in DOMAIN s |->
                    [id |-> s[i], attempts |-> jobs[s[i]].attempts, due |-> jobs[s[i]].due]]
  PROVE  /\ batch \in Seq(Snapshot)
         /\ Retryable # {} => batch # <<>>
         /\ \A i \in 1..Len(batch) : /\ s[i] \in Retryable
                                     /\ batch[i].id = s[i]
                                     /\ batch[i].attempts = jobs[s[i]].attempts
         /\ \A i, j \in 1..Len(batch) : i # j => batch[i].id # batch[j].id
  <1> DEFINE size == IF Cardinality(Retryable) < Limit THEN Cardinality(Retryable) ELSE Limit
  <1>1. IsFiniteSet(Retryable) /\ Retryable \subseteq Messages
    BY FS_Subset, ConstantsAssumption DEF Retryable
  <1>2. Cardinality(Retryable) \in Nat /\ (Retryable # {} => Cardinality(Retryable) # 0)
    BY <1>1, FS_CardinalityType, FS_EmptySet
  <1>3. size \in Nat /\ (Retryable # {} => size > 0)
    BY <1>2, ConstantsAssumption
  <1>4. s \in [1..size -> Retryable]
    BY DEF Batches
  <1>5. DOMAIN s = 1..size /\ \A i \in 1..size : s[i] \in Retryable /\ s[i] \in Messages
    BY <1>1, <1>4
  <1>6. \A i \in 1..size : [id |-> s[i], attempts |-> jobs[s[i]].attempts, due |-> jobs[s[i]].due] \in Snapshot
    BY <1>5 DEF TypeOK, Row, Snapshot
  <1>7. batch \in [1..size -> Snapshot]
    BY <1>5, <1>6
  <1>8. batch \in Seq(Snapshot) /\ Len(batch) = size
    <2> HIDE DEF size
    <2> QED BY <1>3, <1>7, FunctionIsSeq
  <1>9. \A i, j \in 1..size : i # j => s[i] # s[j]
    <2>1. \A i, j \in 1..size : i < j => s[i] # s[j]
      BY DEF Batches
    <2>2. QED
      BY <2>1, <1>3
  <1>10. \A i \in 1..size : batch[i].id = s[i] /\ batch[i].attempts = jobs[s[i]].attempts
    BY <1>5
  <1> HIDE DEF size
  <1>11. batch # <<>> \/ size = 0
    BY <1>8
  <1>12. Retryable # {} => batch # <<>>
    BY <1>3, <1>11
  <1>13. 1..Len(batch) = 1..size
    BY <1>8
  <1>14. \A i \in 1..Len(batch) : /\ s[i] \in Retryable
                                  /\ batch[i].id = s[i]
                                  /\ batch[i].attempts = jobs[s[i]].attempts
    BY <1>5, <1>10, <1>13, Zenon
  <1>15. ASSUME NEW i \in 1..Len(batch), NEW j \in 1..Len(batch), i # j
         PROVE  batch[i].id # batch[j].id
    <2>1. i \in 1..size /\ j \in 1..size
      BY <1>13
    <2>2. s[i] # s[j] /\ batch[i].id = s[i] /\ batch[j].id = s[j]
      BY <1>9, <1>10, <1>15, <2>1
    <2>3. QED
      BY <2>2
  <1>16. QED
    BY <1>8, <1>12, <1>14, <1>15, Zenon

-----------------------------------------------------------------------------
(* What the building blocks of the actions change. *)

WorkerType == [pc : WorkerStates, batch : Seq(Snapshot), result : Results]

LEMMA UpdateEffect ==
  ASSUME TypeOK, NEW m \in Messages, NEW job \in Row, job # NoJob, UpdateJob(m, job)
  PROVE  /\ jobs' \in [Messages -> Row]
         /\ \A k \in Messages : (HasJob(k) <=> HasJob(k)') /\ jobs'[k] \in {jobs[k], job}
         /\ \A k \in Messages : k # m => jobs'[k] = jobs[k]
  BY DEF TypeOK, UpdateJob, HasJob, NoJob, Row

LEMMA DeleteEffect ==
  ASSUME TypeOK, NEW m \in Messages, DeleteJob(m)
  PROVE  /\ jobs' \in [Messages -> Row]
         /\ \A k \in Messages : k # m => jobs'[k] = jobs[k]
         /\ jobs'[m] = NoJob
  BY DEF TypeOK, DeleteJob, NoJob, Row

LEMMA WorkerGoesEffect ==
  ASSUME TypeOK, NEW n \in Nodes, NEW pc \in WorkerStates, NEW r \in Results, WorkerGoes(n, pc, r)
  PROVE  /\ worker' \in [Nodes -> WorkerType]
         /\ \A k \in Nodes : k # n => worker'[k] = worker[k]
         /\ worker'[n] = [pc |-> pc, batch |-> worker[n].batch, result |-> r]
  BY DEF TypeOK, WorkerGoes, WorkerType

LEMMA NextJobEffect ==
  ASSUME TypeOK, NEW n \in Nodes, worker[n].batch # <<>>, NextJob(n)
  PROVE  /\ worker' \in [Nodes -> WorkerType]
         /\ \A k \in Nodes : k # n => worker'[k] = worker[k]
         /\ worker'[n].pc \in {"idle", "lock"}
         /\ worker'[n].pc # "idle" => worker'[n].batch # <<>>
         /\ Len(worker'[n].batch) = Len(worker[n].batch) - 1
         /\ \A i \in 1..Len(worker'[n].batch) :
              i + 1 \in 1..Len(worker[n].batch) /\ worker'[n].batch[i] = worker[n].batch[i + 1]
  <1> DEFINE b == worker[n].batch
  <1>1. b \in Seq(Snapshot) /\ b # <<>> /\ worker[n] \in WorkerType
    BY DEF TypeOK, WorkerType
  <1>2. Len(b) \in Nat /\ Len(b) > 0
    BY <1>1
  <1>3. CASE Len(b) > 1
    <2>1. worker' = [worker EXCEPT ![n] = [pc |-> "lock", batch |-> Tail(b), result |-> "none"]]
      BY <1>3 DEF NextJob
    <2>2. /\ Tail(b) \in Seq(Snapshot) /\ Len(Tail(b)) = Len(b) - 1 /\ Tail(b) # <<>>
          /\ \A i \in 1..Len(Tail(b)) : Tail(b)[i] = b[i + 1] /\ i + 1 \in 1..Len(b)
      <3> HIDE DEF b
      <3> QED BY <1>1, <1>3, TailShifts
    <2>3. worker'[n] = [pc |-> "lock", batch |-> Tail(b), result |-> "none"]
      BY <2>1 DEF TypeOK
    <2>4. worker'[n] \in WorkerType
      BY <2>2, <2>3 DEF WorkerType, WorkerStates, Results
    <2>5. worker' \in [Nodes -> WorkerType] /\ \A k \in Nodes : k # n => worker'[k] = worker[k]
      BY <2>1, <2>3, <2>4 DEF TypeOK, WorkerType
    <2>6. QED
      BY <2>2, <2>3, <2>5
  <1>4. CASE ~(Len(b) > 1)
    <2>1. worker' = [worker EXCEPT ![n] = IdleWorker]
      BY <1>4 DEF NextJob
    <2>2. IdleWorker \in WorkerType
      BY DEF IdleWorker, WorkerType, WorkerStates, Results
    <2>3. worker' \in [Nodes -> WorkerType] /\ worker'[n] = IdleWorker
          /\ \A k \in Nodes : k # n => worker'[k] = worker[k]
      BY <2>1, <2>2 DEF TypeOK, WorkerType
    <2>4. Len(b) = 1
      <3> HIDE DEF b
      <3> QED BY <1>1, <1>4, NotLonger
    <2>5. worker'[n].pc = "idle" /\ Len(worker'[n].batch) = 0
      BY <2>3 DEF IdleWorker
    <2>6. QED
      BY <2>3, <2>4, <2>5
  <1>5. QED
    BY <1>3, <1>4

LEMMA TransmitEffect ==
  ASSUME TypeOK, NEW m \in Messages, NEW o \in Outcomes, Transmit(m, o)
  PROVE  /\ wire' \in [Messages -> Nat]
         /\ \A k \in Messages : wire'[k] >= wire[k]
         /\ o.result = "ok" => wire'[m] > 0
         /\ o.result \in {"ok", "permanent", "transient"}
  BY DEF TypeOK, Transmit, Outcomes

LEMMA FaultEffect ==
  ASSUME TypeOK, NEW k, Fault(k)
  PROVE  faults' \in Nat
  BY DEF TypeOK, Fault

(* The part of the invariant that is about daemons, and how each way of moving a
   daemon keeps it. *)
DaemonInv ==
  /\ worker \in [Nodes -> WorkerType]
  /\ BusyHasJob
  /\ SnapshotsHaveAttempts
  /\ DeletesOnlyDelivered

WireGrows == \A k \in Messages : wire[k] \in Nat /\ wire'[k] \in Nat /\ wire'[k] >= wire[k]

(* The job a busy daemon works on is a snapshot with attempts left. *)
LEMMA CurrentJob ==
  ASSUME IndInv, NEW n \in Nodes, worker[n].pc # "idle"
  PROVE  /\ worker[n].batch # <<>>
         /\ Current(n) = worker[n].batch[1]
         /\ Current(n).id \in Messages
         /\ Current(n).attempts \in Nat
         /\ Current(n).due \in Int
         /\ Current(n).attempts < MaxAttempts
  <1>1. worker[n].batch \in Seq(Snapshot) /\ worker[n].batch # <<>>
    BY DEF IndInv, TypeOK, BusyHasJob
  <1>2. 1 \in 1..Len(worker[n].batch) /\ Head(worker[n].batch) = worker[n].batch[1]
    BY <1>1
  <1>3. worker[n].batch[1] \in Snapshot
    BY <1>1, <1>2
  <1>4. worker[n].batch[1].attempts < MaxAttempts
    BY <1>2 DEF IndInv, SnapshotsHaveAttempts
  <1>5. QED
    BY <1>1, <1>2, <1>3, <1>4 DEF Snapshot, Current

LEMMA CurrentInBatch ==
  ASSUME IndInv, NEW n \in Nodes, worker[n].pc = "remove" \/ worker[n].pc = "record"
  PROVE  Current(n).id \in Messages
  BY CurrentJob

LEMMA DaemonStays ==
  ASSUME IndInv, WireGrows, UNCHANGED worker
  PROVE  DaemonInv'
  <1>1. /\ worker' \in [Nodes -> WorkerType] /\ BusyHasJob' /\ SnapshotsHaveAttempts'
    BY DEF IndInv, TypeOK, WorkerType, BusyHasJob, SnapshotsHaveAttempts
  <1>2. DeletesOnlyDelivered'
    <2> SUFFICES ASSUME NEW k \in Nodes,
                        worker[k].pc = "remove" \/ (worker[k].pc = "record" /\ worker[k].result = "ok")
                 PROVE  wire'[Current(k).id] > 0
      BY DEF DeletesOnlyDelivered, Current
    <2>1. wire[Current(k).id] > 0 /\ Current(k).id \in Messages
      BY CurrentInBatch DEF IndInv, DeletesOnlyDelivered
    <2>2. QED
      BY <2>1 DEF WireGrows
  <1>3. QED
    BY <1>1, <1>2 DEF DaemonInv

LEMMA DaemonGoes ==
  ASSUME IndInv, WireGrows,
         NEW n \in Nodes, worker[n].pc # "idle",
         NEW pc \in WorkerStates, NEW r \in Results, WorkerGoes(n, pc, r),
         pc = "remove" \/ (pc = "record" /\ r = "ok") => wire'[Current(n).id] > 0
  PROVE  DaemonInv'
  <1>1. /\ worker' \in [Nodes -> WorkerType]
        /\ \A k \in Nodes : k # n => worker'[k] = worker[k]
        /\ worker'[n] = [pc |-> pc, batch |-> worker[n].batch, result |-> r]
    BY WorkerGoesEffect DEF IndInv
  <1>2. \A k \in Nodes : worker'[k].batch = worker[k].batch
    BY <1>1
  <1>3. SnapshotsHaveAttempts'
    BY <1>2 DEF IndInv, SnapshotsHaveAttempts
  <1>4. BusyHasJob'
    BY <1>1, <1>2 DEF IndInv, BusyHasJob
  <1>5. DeletesOnlyDelivered'
    <2> SUFFICES ASSUME NEW k \in Nodes,
                        worker'[k].pc = "remove" \/ (worker'[k].pc = "record" /\ worker'[k].result = "ok")
                 PROVE  wire'[Current(k).id] > 0
      BY <1>2 DEF DeletesOnlyDelivered, Current
    <2>1. CASE k = n
      BY <1>1, <2>1
    <2>2. CASE k # n
      <3>1. wire[Current(k).id] > 0 /\ Current(k).id \in Messages
        BY <1>1, <2>2, CurrentInBatch DEF IndInv, DeletesOnlyDelivered
      <3>2. QED
        BY <3>1 DEF WireGrows
    <2>3. QED
      BY <2>1, <2>2
  <1>6. QED
    BY <1>1, <1>3, <1>4, <1>5 DEF DaemonInv

LEMMA DaemonNext ==
  ASSUME IndInv, WireGrows, NEW n \in Nodes, worker[n].pc # "idle", NextJob(n)
  PROVE  DaemonInv'
  <1>1. /\ worker' \in [Nodes -> WorkerType]
        /\ \A k \in Nodes : k # n => worker'[k] = worker[k]
        /\ worker'[n].pc \in {"idle", "lock"}
        /\ worker'[n].pc # "idle" => worker'[n].batch # <<>>
        /\ \A i \in 1..Len(worker'[n].batch) :
              i + 1 \in 1..Len(worker[n].batch) /\ worker'[n].batch[i] = worker[n].batch[i + 1]
    BY NextJobEffect, CurrentJob DEF IndInv
  <1>2. BusyHasJob'
    BY <1>1 DEF IndInv, BusyHasJob
  <1>3. SnapshotsHaveAttempts'
    <2> SUFFICES ASSUME NEW k \in Nodes, NEW i \in 1..Len(worker'[k].batch)
                 PROVE  worker'[k].batch[i].attempts < MaxAttempts
      BY DEF SnapshotsHaveAttempts
    <2>1. CASE k = n
      BY <1>1, <2>1 DEF IndInv, SnapshotsHaveAttempts
    <2>2. CASE k # n
      BY <1>1, <2>2 DEF IndInv, SnapshotsHaveAttempts
    <2>3. QED
      BY <2>1, <2>2
  <1>4. DeletesOnlyDelivered'
    <2> SUFFICES ASSUME NEW k \in Nodes,
                        worker'[k].pc = "remove" \/ (worker'[k].pc = "record" /\ worker'[k].result = "ok")
                 PROVE  wire'[Current(k)'.id] > 0
      BY DEF DeletesOnlyDelivered
    <2>1. k # n
      BY <1>1
    <2>2. wire[Current(k).id] > 0 /\ Current(k).id \in Messages /\ Current(k)' = Current(k)
      BY <1>1, <2>1, CurrentInBatch DEF IndInv, DeletesOnlyDelivered, Current
    <2>3. QED
      BY <2>2 DEF WireGrows
  <1>5. QED
    BY <1>1, <1>2, <1>3, <1>4 DEF DaemonInv

-----------------------------------------------------------------------------
(* The rest of the invariant: table, bodies, senders and counters. *)
StoreInv ==
  /\ jobs \in [Messages -> Row]
  /\ files \in SUBSET Messages
  /\ sender \in [Messages -> SenderStates]
  /\ wire \in [Messages -> Nat]
  /\ tries \in [Messages -> Nat]
  /\ faults \in Nat
  /\ BodyBeforeRow
  /\ UndeliveredIsKept
  /\ AttemptsBounded

LEMMA Split == IndInv <=> StoreInv /\ DaemonInv
  BY DEF IndInv, StoreInv, DaemonInv, TypeOK, WorkerType

LEMMA SplitNext == StoreInv' /\ DaemonInv' => IndInv'
  BY DEF IndInv, StoreInv, DaemonInv, TypeOK, WorkerType

LEMMA InitInv == Init => IndInv
  <1> SUFFICES ASSUME Init PROVE IndInv
    OBVIOUS
  <1>1. StoreInv
    BY ConstantsAssumption
    DEF Init, StoreInv, Row, NoJob, SenderStates, BodyBeforeRow, UndeliveredIsKept, AttemptsBounded
  <1>2. \A n \in Nodes : worker[n] = IdleWorker
    BY DEF Init
  <1>3. IdleWorker \in WorkerType /\ Len(IdleWorker.batch) = 0 /\ IdleWorker.pc = "idle"
    BY DEF IdleWorker, WorkerType, WorkerStates, Results
  <1>4. worker \in [Nodes -> WorkerType]
    BY <1>3 DEF Init
  <1>5. BusyHasJob /\ SnapshotsHaveAttempts /\ DeletesOnlyDelivered
    BY <1>2, <1>3 DEF BusyHasJob, SnapshotsHaveAttempts, DeletesOnlyDelivered
  <1>6. QED
    BY <1>1, <1>4, <1>5, Split DEF DaemonInv

(* Steps of send_raw. *)
LEMMA SendRawStep ==
  ASSUME IndInv, NEW m \in Messages, SendRaw(m)
  PROVE  IndInv'
  <1>t. TypeOK
    BY DEF IndInv
  <1>1. CASE FirstTry(m)
    <2>1. PICK o \in Outcomes : Transmit(m, o) /\ SenderGoes(m, SenderAfter(o.result))
      BY <1>1 DEF FirstTry
    <2>2. WireGrows /\ wire' \in [Messages -> Nat] /\ (o.result = "ok" => wire'[m] > 0)
      BY <1>t, <2>1, TransmitEffect DEF WireGrows, TypeOK
    <2>3. /\ sender' \in [Messages -> SenderStates]
          /\ \A k \in Messages : k # m => sender'[k] = sender[k]
          /\ sender'[m] # "insert" /\ (sender'[m] = "accepted" => o.result = "ok")
      BY <1>t, <2>1 DEF SenderGoes, SenderAfter, TypeOK, SenderStates
    <2>4. StoreInv'
      BY <1>1, <1>t, <2>2, <2>3
      DEF FirstTry, IndInv, StoreInv, TypeOK, BodyBeforeRow, UndeliveredIsKept, AttemptsBounded,
          HasJob, WireGrows
    <2>5. DaemonInv'
      BY <1>1, <2>2, DaemonStays DEF FirstTry
    <2>6. QED
      BY <2>4, <2>5, SplitNext
  <1>2. CASE WriteFile(m)
    <2>1. StoreInv'
      BY <1>2, <1>t, FaultEffect
      DEF WriteFile, Succeeds, SenderGoes, IndInv, StoreInv, TypeOK, SenderStates, BodyBeforeRow,
          UndeliveredIsKept, AttemptsBounded, HasJob
    <2>2. WireGrows
      BY <1>2, <1>t DEF WriteFile, WireGrows, TypeOK
    <2>3. QED
      BY <1>2, <2>1, <2>2, DaemonStays, SplitNext DEF WriteFile
  <1>3. CASE InsertRow(m)
    <2>1. faults' \in Nat
      BY <1>3, <1>t, FaultEffect DEF InsertRow, Succeeds, Fails, TypeOK
    <2>2. /\ jobs' \in [Messages -> Row]
          /\ \A k \in Messages : HasJob(k) => HasJob(k)'
          /\ \A k \in Messages : jobs'[k] = jobs[k] \/ jobs'[k] = Job("pending", 0, 0)
          /\ sender'[m] = "accepted" => HasJob(m)'
      <3>1. CASE InsertJob(m)
        BY <1>t, <3>1 DEF InsertJob, TypeOK, Row, Job, HasJob, NoJob
      <3>2. CASE UNCHANGED jobs /\ SenderGoes(m, "rollback")
        BY <1>t, <3>2 DEF SenderGoes, TypeOK, HasJob
      <3>3. QED
        BY <1>3, <3>1, <3>2 DEF InsertRow, Fails
    <2>3. /\ sender' \in [Messages -> SenderStates] /\ sender[m] = "insert"
          /\ sender'[m] \in {"accepted", "rollback"}
          /\ \A k \in Messages : k # m => sender'[k] = sender[k]
      BY <1>3, <1>t DEF InsertRow, SenderGoes, TypeOK, SenderStates
    <2>4. AttemptsBounded'
      BY <2>2, ConstantsAssumption DEF IndInv, AttemptsBounded, Job
    <2>5. StoreInv'
      BY <1>3, <1>t, <2>1, <2>2, <2>3, <2>4
      DEF InsertRow, IndInv, StoreInv, TypeOK, BodyBeforeRow, UndeliveredIsKept
    <2>6. WireGrows
      BY <1>3, <1>t DEF InsertRow, WireGrows, TypeOK
    <2>7. QED
      BY <1>3, <2>5, <2>6, DaemonStays, SplitNext DEF InsertRow
  <1>4. CASE Rollback(m)
    <2>1. StoreInv'
      BY <1>4, <1>t, FaultEffect
      DEF Rollback, Succeeds, SenderGoes, IndInv, StoreInv, TypeOK, SenderStates, BodyBeforeRow,
          UndeliveredIsKept, AttemptsBounded, HasJob
    <2>2. WireGrows
      BY <1>4, <1>t DEF Rollback, WireGrows, TypeOK
    <2>3. QED
      BY <1>4, <2>1, <2>2, DaemonStays, SplitNext DEF Rollback
  <1>5. QED
    BY <1>1, <1>2, <1>3, <1>4 DEF SendRaw

(* A step that touches the table only through UPDATE keeps the store's part. *)
LEMMA StoreAfterUpdate ==
  ASSUME IndInv, NEW m \in Messages, NEW job \in Row, job # NoJob,
         job.attempts <= MaxAttempts, job.status = "pending" => job.attempts < MaxAttempts,
         UpdateJob(m, job) \/ UNCHANGED jobs,
         faults' \in Nat, UNCHANGED <<files, sender, wire, tries>>
  PROVE  StoreInv'
  <1>1. /\ jobs' \in [Messages -> Row]
        /\ \A k \in Messages : (HasJob(k) <=> HasJob(k)') /\ jobs'[k] \in {jobs[k], job}
    BY UpdateEffect DEF IndInv, TypeOK, HasJob
  <1>2. AttemptsBounded'
    BY <1>1 DEF IndInv, AttemptsBounded
  <1>3. QED
    BY <1>1, <1>2 DEF IndInv, TypeOK, StoreInv, BodyBeforeRow, UndeliveredIsKept

(* Steps of process_queue_tick. *)
LEMMA FetchStep ==
  ASSUME IndInv, NEW n \in Nodes, Fetch(n)
  PROVE  IndInv'
  <1>1. PICK s \in Batches :
          worker' = [worker EXCEPT ![n] =
            [pc     |-> "lock",
             batch  |-> [i \in DOMAIN s |->
                [id |-> s[i], attempts |-> jobs[s[i]].attempts, due |-> jobs[s[i]].due]],
             result |-> "none"]]
    BY DEF Fetch
  <1> DEFINE b == [i \in DOMAIN s |->
                [id |-> s[i], attempts |-> jobs[s[i]].attempts, due |-> jobs[s[i]].due]]
  <1>2. /\ b \in Seq(Snapshot) /\ b # <<>>
        /\ \A i \in 1..Len(b) : s[i] \in Retryable /\ b[i].attempts = jobs[s[i]].attempts
    <2>1. b = [i \in DOMAIN s |-> [id |-> s[i], attempts |-> jobs[s[i]].attempts, due |-> jobs[s[i]].due]]
      OBVIOUS
    <2> HIDE DEF b
    <2>2. TypeOK /\ Retryable # {}
      BY DEF IndInv, Fetch
    <2>3. QED
      BY <2>1, <2>2, FetchedBatch
  <1>3. \A i \in 1..Len(b) : b[i].attempts < MaxAttempts
    BY <1>2 DEF IndInv, AttemptsBounded, Retryable
  <1>4. worker'[n] = [pc |-> "lock", batch |-> b, result |-> "none"]
    BY <1>1 DEF IndInv, TypeOK
  <1>5. \A k \in Nodes : k # n => worker'[k] = worker[k]
    BY <1>1 DEF IndInv, TypeOK
  <1> HIDE DEF b
  <1>6. worker' \in [Nodes -> WorkerType]
    <2>1. worker'[n] \in WorkerType
      BY <1>2, <1>4 DEF WorkerType, WorkerStates, Results
    <2>2. QED
      BY <1>1, <1>5, <2>1 DEF IndInv, TypeOK, WorkerType
  <1>7. BusyHasJob' /\ SnapshotsHaveAttempts'
    <2>1. BusyHasJob'
      BY <1>2, <1>4, <1>5 DEF IndInv, BusyHasJob
    <2>2. SnapshotsHaveAttempts'
      <3> SUFFICES ASSUME NEW k \in Nodes, NEW i \in 1..Len(worker'[k].batch)
                   PROVE  worker'[k].batch[i].attempts < MaxAttempts
        BY DEF SnapshotsHaveAttempts
      <3>1. CASE k = n
        BY <1>3, <1>4, <3>1
      <3>2. CASE k # n
        BY <1>5, <3>2 DEF IndInv, SnapshotsHaveAttempts
      <3>3. QED
        BY <3>1, <3>2
    <2>3. QED
      BY <2>1, <2>2
  <1>8. DeletesOnlyDelivered'
    BY <1>4, <1>5 DEF IndInv, Fetch, DeletesOnlyDelivered, Current
  <1>9. StoreInv'
    BY DEF Fetch, IndInv, StoreInv, TypeOK, BodyBeforeRow, UndeliveredIsKept, AttemptsBounded, HasJob
  <1>10. QED
    BY <1>6, <1>7, <1>8, <1>9, SplitNext DEF DaemonInv

LEMMA QueueTickStep ==
  ASSUME IndInv, NEW n \in Nodes, QueueTick(n)
  PROVE  IndInv'
  <1> DEFINE job == Current(n)
  <1>t. TypeOK
    BY DEF IndInv
  <1>1. CASE Fetch(n)
    BY <1>1, FetchStep
  <1>2. CASE LockJob(n)
    <2>1. worker[n].pc # "idle" /\ job.id \in Messages /\ job.attempts < MaxAttempts
          /\ job.attempts \in Nat /\ job.due \in Int
      BY <1>2, CurrentJob DEF LockJob
    <2>2. Job("sending", job.attempts, job.due) \in Row /\ Job("sending", job.attempts, job.due) # NoJob
          /\ Job("sending", job.attempts, job.due).attempts = job.attempts
          /\ Job("sending", job.attempts, job.due).status = "sending"
      BY <2>1 DEF Row, Job, NoJob
    <2>3. UpdateJob(job.id, Job("sending", job.attempts, job.due)) \/ UNCHANGED jobs
      BY <1>2 DEF LockJob, Fails
    <2>4. faults' \in Nat /\ UNCHANGED <<files, sender, wire, tries>>
      BY <1>2, <1>t, FaultEffect DEF LockJob, Succeeds, Fails, TypeOK
    <2>5. StoreInv'
      <3> HIDE DEF job
      <3> QED BY <2>1, <2>2, <2>3, <2>4, StoreAfterUpdate, ConstantsAssumption
    <2>6. WireGrows
      BY <2>4, <1>t DEF WireGrows, TypeOK
    <2>7. DaemonInv'
      <3>1. CASE WorkerGoes(n, "read", "none")
        BY <2>1, <2>6, <3>1, DaemonGoes DEF WorkerStates, Results
      <3>2. CASE NextJob(n)
        BY <2>1, <2>6, <3>2, DaemonNext
      <3>3. QED
        BY <1>2, <3>1, <3>2 DEF LockJob
    <2>8. QED
      BY <2>5, <2>7, SplitNext
  <1>3. CASE ReadFile(n)
    <2>1. worker[n].pc # "idle" /\ WireGrows /\ faults' \in Nat
      BY <1>3, <1>t, FaultEffect DEF ReadFile, Succeeds, WireGrows, TypeOK
    <2>2. StoreInv'
      BY <1>3, <2>1 DEF ReadFile, IndInv, StoreInv, TypeOK, BodyBeforeRow, UndeliveredIsKept,
                        AttemptsBounded, HasJob
    <2>3. DaemonInv'
      <3>1. CASE WorkerGoes(n, "deliver", "none")
        BY <2>1, <3>1, DaemonGoes DEF WorkerStates, Results
      <3>2. CASE WorkerGoes(n, "record", "missing")
        BY <2>1, <3>2, DaemonGoes DEF WorkerStates, Results
      <3>3. QED
        BY <1>3, <3>1, <3>2 DEF ReadFile
    <2>4. QED
      BY <2>2, <2>3, SplitNext
  <1>4. CASE Deliver(n)
    <2>1. worker[n].pc # "idle" /\ job.id \in Messages
      BY <1>4, CurrentJob DEF Deliver
    <2>2. tries' \in [Messages -> Nat] /\ faults' \in Nat /\ UNCHANGED <<jobs, files, sender>>
      BY <1>4, <1>t, <2>1, FaultEffect DEF Deliver, Succeeds, TypeOK
    <2>3. CASE \E o \in Outcomes : Transmit(job.id, o) /\ WorkerGoes(n, "record", o.result)
      <3>1. PICK o \in Outcomes : Transmit(job.id, o) /\ WorkerGoes(n, "record", o.result)
        BY <2>3
      <3>2. WireGrows /\ wire' \in [Messages -> Nat] /\ (o.result = "ok" => wire'[job.id] > 0)
            /\ o.result \in Results
        BY <1>t, <2>1, <3>1, TransmitEffect DEF WireGrows, TypeOK, Results
      <3>3. DaemonInv'
        BY <2>1, <3>1, <3>2, DaemonGoes DEF WorkerStates
      <3>4. StoreInv'
        BY <2>2, <3>2 DEF IndInv, StoreInv, TypeOK, BodyBeforeRow, UndeliveredIsKept,
                          AttemptsBounded, HasJob, WireGrows
      <3>5. QED
        BY <3>3, <3>4, SplitNext
    <2>4. CASE WorkerGoes(n, "hung", "none") /\ UNCHANGED wire
      <3>1. WireGrows
        BY <1>t, <2>4 DEF WireGrows, TypeOK
      <3>2. DaemonInv'
        BY <2>1, <2>4, <3>1, DaemonGoes DEF WorkerStates, Results
      <3>3. StoreInv'
        BY <2>2, <2>4 DEF IndInv, StoreInv, TypeOK, BodyBeforeRow, UndeliveredIsKept,
                          AttemptsBounded, HasJob
      <3>4. QED
        BY <3>2, <3>3, SplitNext
    <2>5. QED
      BY <1>4, <2>3, <2>4 DEF Deliver
  <1>5. CASE RecordResult(n)
    <2>1. worker[n].pc # "idle" /\ job.id \in Messages /\ job.attempts \in Nat
          /\ job.attempts < MaxAttempts /\ worker[n].pc = "record"
      BY <1>5, CurrentJob DEF RecordResult
    <2>2. faults' \in Nat /\ UNCHANGED <<files, sender, wire, tries>> /\ WireGrows
      BY <1>5, <1>t, FaultEffect DEF RecordResult, Ignoring, Succeeds, Fails, TypeOK, WireGrows
    <2>3. CASE worker[n].result = "ok"
      <3>1. DeleteJob(job.id) \/ UNCHANGED jobs
        BY <1>5, <2>3 DEF RecordResult, Ignoring, Fails
      <3>2. wire[job.id] > 0
        BY <2>1, <2>3 DEF IndInv, DeletesOnlyDelivered
      <3>3. /\ jobs' \in [Messages -> Row]
            /\ \A k \in Messages : k # job.id => jobs'[k] = jobs[k]
            /\ jobs'[job.id] \in {NoJob, jobs[job.id]}
        BY <1>t, <2>1, <3>1, DeleteEffect DEF TypeOK
      <3>4. AttemptsBounded'
        BY <2>1, <3>3, ConstantsAssumption DEF IndInv, AttemptsBounded, NoJob
      <3>5. UndeliveredIsKept'
        BY <2>1, <2>2, <3>2, <3>3, <1>t DEF IndInv, UndeliveredIsKept, HasJob, TypeOK
      <3>6. StoreInv'
        BY <2>2, <3>3, <3>4, <3>5 DEF IndInv, StoreInv, TypeOK, BodyBeforeRow
      <3>7. DaemonInv'
        <4>1. WorkerGoes(n, "remove", "ok")
          BY <1>5, <2>3 DEF RecordResult
        <4>2. wire'[job.id] > 0
          BY <2>2, <3>2
        <4>3. QED
          BY <2>1, <2>2, <4>1, <4>2, DaemonGoes DEF WorkerStates, Results
      <3>8. QED
        BY <3>6, <3>7, SplitNext
    <2>4. CASE worker[n].result # "ok"
      <3>1. worker[n].result \in Results
        BY <1>t DEF TypeOK
      <3>2. UpdateJob(job.id, AfterFailure(job.attempts, worker[n].result)) \/ UNCHANGED jobs
        BY <1>5, <2>4 DEF RecordResult, Ignoring, Fails
      <3>3. StoreInv'
        <4> HIDE DEF job
        <4> QED BY <2>1, <2>2, <3>1, <3>2, AfterFailureRow, StoreAfterUpdate
      <3>4. NextJob(n)
        BY <1>5, <2>4 DEF RecordResult
      <3>5. QED
        BY <2>1, <2>2, <3>3, <3>4, DaemonNext, SplitNext
    <2>5. QED
      BY <2>3, <2>4
  <1>6. CASE RemoveFile(n)
    <2>1. worker[n].pc # "idle" /\ job.id \in Messages /\ wire[job.id] > 0
      BY <1>6, CurrentJob DEF RemoveFile, IndInv, DeletesOnlyDelivered
    <2>2. faults' \in Nat /\ UNCHANGED <<jobs, sender, wire, tries>> /\ WireGrows
      BY <1>6, <1>t, FaultEffect DEF RemoveFile, Succeeds, TypeOK, WireGrows
    <2>3. files' \in SUBSET Messages /\ \A m \in files : m # job.id => m \in files'
      BY <1>6, <1>t DEF RemoveFile, TypeOK
    <2>4. StoreInv'
      BY <2>1, <2>2, <2>3, <1>t DEF IndInv, StoreInv, TypeOK, BodyBeforeRow, UndeliveredIsKept,
                               AttemptsBounded, HasJob
    <2>5. QED
      BY <1>6, <2>1, <2>2, <2>4, DaemonNext, SplitNext DEF RemoveFile
  <1>7. QED
    BY <1>1, <1>2, <1>3, <1>4, <1>5, <1>6 DEF QueueTick

(* Crashes and the clock. *)
LEMMA CrashStep ==
  ASSUME IndInv, NEW n \in Nodes, Crash(n)
  PROVE  IndInv'
  <1>t. TypeOK
    BY DEF IndInv
  <1>1. faults' \in Nat /\ UNCHANGED <<jobs, files, wire, tries>>
    BY <1>t, FaultEffect DEF Crash
  <1>2. /\ sender' \in [Messages -> SenderStates]
        /\ \A m \in Messages : sender'[m] \in {"accepted", "insert"} => sender'[m] = sender[m]
    BY <1>t DEF Crash, TypeOK, SenderStates
  <1>3. StoreInv'
    BY <1>1, <1>2 DEF IndInv, StoreInv, TypeOK, BodyBeforeRow, UndeliveredIsKept, AttemptsBounded, HasJob
  <1>4. IdleWorker \in WorkerType /\ Len(IdleWorker.batch) = 0 /\ IdleWorker.pc = "idle"
    BY DEF IdleWorker, WorkerType, WorkerStates, Results
  <1>5. worker' \in [Nodes -> WorkerType] /\ worker'[n] = IdleWorker
        /\ \A k \in Nodes : k # n => worker'[k] = worker[k]
    BY <1>4, <1>t DEF Crash, TypeOK, WorkerType
  <1>6. BusyHasJob'
    BY <1>4, <1>5 DEF IndInv, BusyHasJob
  <1>7. SnapshotsHaveAttempts'
    <2> SUFFICES ASSUME NEW k \in Nodes, NEW i \in 1..Len(worker'[k].batch)
                 PROVE  worker'[k].batch[i].attempts < MaxAttempts
      BY DEF SnapshotsHaveAttempts
    <2>1. k # n
      BY <1>4, <1>5
    <2>2. QED
      BY <1>5, <2>1 DEF IndInv, SnapshotsHaveAttempts
  <1>8. DeletesOnlyDelivered'
    BY <1>1, <1>4, <1>5 DEF IndInv, DeletesOnlyDelivered, Current
  <1>9. QED
    BY <1>3, <1>5, <1>6, <1>7, <1>8, SplitNext DEF DaemonInv

LEMMA AgedRow ==
  ASSUME NEW job \in Row, NEW d \in Nat
  PROVE  /\ Aged(job, d) \in Row
         /\ Aged(job, d).status = job.status
         /\ Aged(job, d).attempts = job.attempts
         /\ job # NoJob => Aged(job, d) # NoJob
  BY ConstantsAssumption DEF Aged, Row, NoJob

LEMMA TickStep ==
  ASSUME IndInv, Tick
  PROVE  IndInv'
  <1>t. TypeOK
    BY DEF IndInv
  <1>1. PICK d \in Nat : jobs' = [m \in Messages |-> Aged(jobs[m], d)]
    BY ConstantsAssumption DEF Tick
  <1>2. \A m \in Messages : /\ jobs'[m] \in Row
                            /\ jobs'[m].status = jobs[m].status
                            /\ jobs'[m].attempts = jobs[m].attempts
                            /\ HasJob(m) => HasJob(m)'
    BY <1>1, <1>t, AgedRow DEF TypeOK, HasJob
  <1>3. StoreInv'
    BY <1>1, <1>2, <1>t DEF Tick, IndInv, StoreInv, TypeOK, BodyBeforeRow, UndeliveredIsKept, AttemptsBounded
  <1>4. WireGrows /\ UNCHANGED worker
    BY <1>t DEF Tick, WireGrows, TypeOK
  <1>5. QED
    BY <1>3, <1>4, DaemonStays, SplitNext

-----------------------------------------------------------------------------
(* IndInv is an invariant of the queue, with any number of nodes and faults. *)
THEOREM Invariance == Spec => []IndInv
  <1>1. Init => IndInv
    BY InitInv
  <1>2. IndInv /\ [Next]_vars => IndInv'
    <2> SUFFICES ASSUME IndInv, [Next]_vars PROVE IndInv'
      OBVIOUS
    <2>1. CASE Next
      BY <2>1, SendRawStep, QueueTickStep, CrashStep, TickStep DEF Next
    <2>2. CASE UNCHANGED vars
      <3>1. StoreInv'
        BY <2>2 DEF vars, IndInv, StoreInv, TypeOK, BodyBeforeRow, UndeliveredIsKept, AttemptsBounded, HasJob
      <3>2. WireGrows /\ UNCHANGED worker
        BY <2>2 DEF vars, WireGrows, IndInv, TypeOK
      <3>3. QED
        BY <3>1, <3>2, DaemonStays, SplitNext
    <2>3. QED
      BY <2>1, <2>2
  <1>3. QED
    BY <1>1, <1>2, PTL DEF Spec

(* Every reachable state of the queue is well typed. *)
THEOREM TypeCorrect == Spec => []TypeOK
  BY Invariance, PTL DEF IndInv

(* No message send_raw answered Ok for is forgotten before a remote server takes
   it, however many nodes share the queue and whatever faults happen. *)
THEOREM AcceptedMailIsKept == Spec => []UndeliveredIsKept
  BY Invariance, PTL DEF IndInv

(* The retry budget in the table is never overdrawn. *)
THEOREM RetryBudget == Spec => []AttemptsBounded
  BY Invariance, PTL DEF IndInv
-----------------------------------------------------------------------------
(* One node.  Nothing but its daemon and the insert of enqueue_job writes the table, so
   the snapshots of a batch are current: the job at work is the one in status sending,
   those that wait behind it are pending, and each has been tried no more often than its
   attempts column says.  With a second node none of this holds. *)

OneNode == \A a, b \in Nodes : a = b

Pending(m) == jobs[m].status = "pending"
Unqueued == {"new", "write", "insert"}

RowInv ==
  \A m \in Messages :
    /\ jobs[m].status = "none" => jobs[m] = NoJob
    /\ sender[m] \in Unqueued => jobs[m] = NoJob /\ tries[m] = 0
    /\ jobs[m].status = "sending" => jobs[m].attempts < MaxAttempts /\ tries[m] <= jobs[m].attempts + 1
    /\ Pending(m) => tries[m] <= jobs[m].attempts
    /\ tries[m] <= MaxAttempts

BatchOf(n, b) ==
  /\ \A i, j \in 1..Len(b) : i # j => b[i].id # b[j].id
  /\ \A i \in 1..Len(b) : i > 1 \/ worker[n].pc = "lock" =>
       Pending(b[i].id) /\ jobs[b[i].id].attempts = b[i].attempts
  /\ worker[n].pc \in {"read", "deliver", "record", "hung"} =>
       jobs[b[1].id].status = "sending" /\ jobs[b[1].id].attempts = b[1].attempts
  /\ worker[n].pc \in {"read", "deliver"} => tries[b[1].id] <= b[1].attempts

BatchInv == \A n \in Nodes : BatchOf(n, worker[n].batch)

(* The daemon goes on with the job it has. *)
LEMMA BatchGoes ==
  ASSUME OneNode, IndInv, BatchInv, NEW n \in Nodes, worker[n].pc # "idle",
         NEW pc \in WorkerStates \ {"lock"}, NEW r \in Results, WorkerGoes(n, pc, r),
         \A k \in Messages : k # Current(n).id => jobs'[k] = jobs[k],
         pc \in {"read", "deliver", "record", "hung"} =>
           jobs'[Current(n).id].status = "sending" /\ jobs'[Current(n).id].attempts = Current(n).attempts,
         pc \in {"read", "deliver"} => tries'[Current(n).id] <= Current(n).attempts
  PROVE  BatchInv'
  <1> DEFINE b == worker[n].batch
  <1>1. /\ worker'[n].batch = b /\ worker'[n].pc = pc
        /\ Current(n) = b[1] /\ \A i \in 1..Len(b) : b[i].id \in Messages
        /\ 1 \in 1..Len(b) /\ Len(b) \in Nat
    <2>1. b \in Seq(Snapshot) /\ b # <<>> /\ Current(n) = b[1]
      BY CurrentJob DEF IndInv, TypeOK
    <2>2. \A i \in 1..Len(b) : b[i] \in Snapshot
      BY <2>1
    <2>3. 1 \in 1..Len(b) /\ Len(b) \in Nat
      BY <2>1
    <2>4. worker'[n] = [pc |-> pc, batch |-> b, result |-> r]
      BY WorkerGoesEffect DEF IndInv
    <2>5. \A i \in 1..Len(b) : b[i].id \in Messages
      BY <2>2 DEF Snapshot
    <2>6. QED
      BY <2>1, <2>3, <2>4, <2>5
  <1> HIDE DEF b
  <1>2. BatchOf(n, b)
    BY DEF BatchInv, b
  <1>3. \A i \in 1..Len(b) : i > 1 => jobs'[b[i].id] = jobs[b[i].id]
    BY <1>1, <1>2 DEF BatchOf
  <1>4. \A i \in 1..Len(b) : i > 1 \/ worker'[n].pc = "lock" =>
          jobs'[b[i].id].status = "pending" /\ jobs'[b[i].id].attempts = b[i].attempts
    BY <1>1, <1>2, <1>3 DEF BatchOf, Pending
  <1>5. BatchOf(n, worker[n].batch)'
    BY <1>1, <1>2, <1>4 DEF BatchOf, Pending
  <1>6. QED
    BY <1>5 DEF BatchInv, OneNode

(* The daemon is done with its job. *)
LEMMA BatchNext ==
  ASSUME OneNode, IndInv, BatchInv, NEW n \in Nodes, worker[n].pc # "idle", NextJob(n),
         \A k \in Messages : k # Current(n).id => jobs'[k] = jobs[k]
  PROVE  BatchInv'
  <1> DEFINE b == worker[n].batch
             c == worker'[n].batch
  <1>1. /\ b \in Seq(Snapshot) /\ b # <<>> /\ Current(n) = b[1]
        /\ worker'[n].pc \in {"idle", "lock"} /\ c \in Seq(Snapshot)
        /\ \A i \in 1..Len(c) : i + 1 \in 1..Len(b) /\ c[i] = b[i + 1]
    BY CurrentJob, NextJobEffect DEF IndInv, TypeOK, WorkerType
  <1>2. /\ \A i \in 1..Len(b) : b[i].id \in Messages
        /\ 1 \in 1..Len(b) /\ Len(b) \in Nat /\ Len(c) \in Nat
    <2>1. \A i \in 1..Len(b) : b[i] \in Snapshot
      BY <1>1
    <2>2. \A i \in 1..Len(b) : b[i].id \in Messages
      BY <2>1 DEF Snapshot
    <2>3. 1 \in 1..Len(b) /\ Len(b) \in Nat
      BY <1>1
    <2>4. Len(c) \in Nat
      BY <1>1
    <2>5. QED
      BY <2>2, <2>3, <2>4
  <1>3. BatchOf(n, b)
    BY DEF BatchInv
  <1> HIDE DEF b, c
  <1>4. \A i \in 1..Len(c) : /\ i + 1 \in 1..Len(b) /\ i + 1 > 1 /\ i + 1 # 1
                             /\ c[i] = b[i + 1]
    BY <1>1, <1>2
  <1>5. \A i \in 1..Len(c) :
          /\ jobs'[c[i].id].status = "pending" /\ jobs'[c[i].id].attempts = c[i].attempts
    <2> TAKE i \in 1..Len(c)
    <2>1. b[i + 1].id # b[1].id /\ b[i + 1].id \in Messages
      BY <1>2, <1>3, <1>4 DEF BatchOf
    <2>2. jobs'[c[i].id] = jobs[b[i + 1].id]
      BY <1>1, <1>4, <2>1
    <2>3. jobs[b[i + 1].id].status = "pending" /\ jobs[b[i + 1].id].attempts = b[i + 1].attempts
      BY <1>3, <1>4 DEF BatchOf, Pending
    <2>4. QED
      BY <1>4, <2>2, <2>3
  <1>6. \A i, j \in 1..Len(c) : i # j => c[i].id # c[j].id
    <2> TAKE i, j \in 1..Len(c)
    <2>1. i # j => i + 1 # j + 1
      BY <1>2
    <2>2. QED
      BY <1>3, <1>4, <2>1 DEF BatchOf
  <1>7. BatchOf(n, worker[n].batch)'
    BY <1>1, <1>5, <1>6 DEF BatchOf, Pending, c
  <1>8. QED
    BY <1>7 DEF BatchInv, OneNode

(* The row of the job at work. *)
LEMMA RowAtWork ==
  ASSUME IndInv, BatchInv, NEW n \in Nodes, worker[n].pc # "idle"
  PROVE  LET job == Current(n)
         IN /\ worker[n].pc = "lock" => Pending(job.id) /\ jobs[job.id].attempts = job.attempts
            /\ worker[n].pc \in {"read", "deliver", "record", "hung"} =>
                 jobs[job.id].status = "sending" /\ jobs[job.id].attempts = job.attempts
            /\ worker[n].pc \in {"read", "deliver"} => tries[job.id] <= job.attempts
  <1>1. Current(n) = worker[n].batch[1] /\ worker[n].batch # <<>> /\ worker[n].batch \in Seq(Snapshot)
    BY CurrentJob DEF IndInv, TypeOK
  <1>2. 1 \in 1..Len(worker[n].batch)
    BY <1>1
  <1>3. BatchOf(n, worker[n].batch)
    BY DEF BatchInv
  <1>4. QED
    BY <1>1, <1>2, <1>3 DEF BatchOf

(* What the rows of a daemon's step must keep. *)
LEMMA RowsAfter ==
  ASSUME IndInv, RowInv, NEW m \in Messages, sender[m] \notin Unqueued, UNCHANGED sender,
         \A k \in Messages : k # m => jobs'[k] = jobs[k] /\ tries'[k] = tries[k],
         jobs'[m].status = "none" => jobs'[m] = NoJob,
         jobs'[m].status = "sending" =>
           jobs'[m].attempts < MaxAttempts /\ tries'[m] <= jobs'[m].attempts + 1,
         jobs'[m].status = "pending" => tries'[m] <= jobs'[m].attempts,
         tries'[m] <= MaxAttempts
  PROVE  RowInv'
  BY DEF RowInv, Pending

(* A row that has been inserted belongs to a send that is past the insert. *)
LEMMA RowMeansQueued ==
  ASSUME RowInv, NEW m \in Messages, jobs[m].status # "none"
  PROVE  sender[m] \notin Unqueued /\ jobs[m] # NoJob
  BY DEF RowInv, NoJob

LEMMA SoloSendRaw ==
  ASSUME OneNode, IndInv, RowInv, BatchInv, NEW m \in Messages, SendRaw(m)
  PROVE  RowInv' /\ BatchInv'
  <1>1. CASE FirstTry(m) \/ WriteFile(m) \/ Rollback(m)
    <2>1. UNCHANGED <<jobs, worker, tries>>
      BY <1>1 DEF FirstTry, WriteFile, Rollback
    <2>2. \A k \in Messages : sender'[k] \in Unqueued => sender[k] \in Unqueued
      BY <1>1 DEF FirstTry, WriteFile, Rollback, SenderGoes, Unqueued, IndInv, TypeOK
    <2>3. RowInv'
      BY <2>1, <2>2 DEF RowInv, Pending
    <2>4. BatchInv'
      BY <2>1 DEF BatchInv, BatchOf, Pending
    <2>5. QED
      BY <2>3, <2>4
  <1>2. CASE InsertRow(m)
    <2>1. /\ sender[m] = "insert" /\ jobs[m] = NoJob /\ tries[m] = 0
          /\ sender'[m] \notin Unqueued
          /\ \A k \in Messages : k # m => sender'[k] = sender[k]
          /\ UNCHANGED <<worker, tries>>
      BY <1>2 DEF InsertRow, SenderGoes, Unqueued, IndInv, TypeOK, RowInv
    <2>2. /\ \A k \in Messages : k # m => jobs'[k] = jobs[k]
          /\ jobs'[m] = NoJob \/ jobs'[m] = Job("pending", 0, 0)
      BY <1>2, <2>1 DEF InsertRow, Fails, InsertJob, IndInv, TypeOK
    <2>3. /\ Job("pending", 0, 0).status = "pending" /\ Job("pending", 0, 0).attempts = 0
          /\ NoJob.status = "none"
      BY DEF Job, NoJob
    <2>4. RowInv'
      <3>1. jobs'[m].status \in {"none", "pending"} /\ (jobs'[m].status = "none" => jobs'[m] = NoJob)
            /\ (jobs'[m].status = "pending" => jobs'[m].attempts = 0)
        BY <2>2, <2>3
      <3>2. QED
        BY <2>1, <2>2, <3>1, ConstantsAssumption DEF RowInv, Pending, Unqueued
    <2>5. BatchInv'
      <3> SUFFICES ASSUME NEW n \in Nodes PROVE BatchOf(n, worker[n].batch)'
        BY DEF BatchInv
      <3> DEFINE b == worker[n].batch
      <3>1. b \in Seq(Snapshot) /\ (worker[n].pc # "idle" => b # <<>>)
        BY DEF IndInv, TypeOK, BusyHasJob
      <3>2. \A i \in 1..Len(b) : b[i] \in Snapshot
        BY <3>1
      <3>3. \A i \in 1..Len(b) : b[i].id \in Messages
        BY <3>2 DEF Snapshot
      <3>4. worker[n].pc # "idle" => 1 \in 1..Len(b)
        BY <3>1
      <3> HIDE DEF b
      <3>5. BatchOf(n, b)
        BY DEF BatchInv, b
      <3>6. \A i \in 1..Len(b) : i > 1 \/ worker[n].pc = "lock" => jobs'[b[i].id] = jobs[b[i].id]
        BY <2>1, <2>2, <2>3, <3>3, <3>5 DEF BatchOf, Pending
      <3>7. worker[n].pc \in {"read", "deliver", "record", "hung"} => jobs'[b[1].id] = jobs[b[1].id]
        BY <2>1, <2>2, <2>3, <3>3, <3>4, <3>5 DEF BatchOf
      <3>8. worker'[n].batch = b /\ worker'[n].pc = worker[n].pc
        BY <2>1 DEF b
      <3>9. QED
        BY <2>1, <3>5, <3>6, <3>7, <3>8 DEF BatchOf, Pending
    <2>6. QED
      BY <2>4, <2>5
  <1>3. QED
    BY <1>1, <1>2 DEF SendRaw

LEMMA SoloFetch ==
  ASSUME OneNode, IndInv, RowInv, BatchInv, NEW n \in Nodes, Fetch(n)
  PROVE  RowInv' /\ BatchInv'
  <1>1. PICK s \in Batches :
          worker' = [worker EXCEPT ![n] =
            [pc     |-> "lock",
             batch  |-> [i \in DOMAIN s |->
                [id |-> s[i], attempts |-> jobs[s[i]].attempts, due |-> jobs[s[i]].due]],
             result |-> "none"]]
    BY DEF Fetch
  <1> DEFINE b == [i \in DOMAIN s |->
                [id |-> s[i], attempts |-> jobs[s[i]].attempts, due |-> jobs[s[i]].due]]
  <1>2. /\ \A i \in 1..Len(b) : s[i] \in Retryable /\ b[i].id = s[i] /\ b[i].attempts = jobs[s[i]].attempts
        /\ \A i, j \in 1..Len(b) : i # j => b[i].id # b[j].id
    <2>1. b = [i \in DOMAIN s |-> [id |-> s[i], attempts |-> jobs[s[i]].attempts, due |-> jobs[s[i]].due]]
      OBVIOUS
    <2> HIDE DEF b
    <2>2. QED
      BY <2>1, FetchedBatch DEF IndInv
  <1>3. worker'[n] = [pc |-> "lock", batch |-> b, result |-> "none"]
    BY <1>1 DEF IndInv, TypeOK
  <1>4. UNCHANGED <<jobs, sender, tries>>
    BY DEF Fetch
  <1> HIDE DEF b
  <1>5. \A i \in 1..Len(b) : jobs[b[i].id].status = "pending" /\ jobs[b[i].id].attempts = b[i].attempts
    BY <1>2 DEF Retryable
  <1>6. BatchOf(n, worker[n].batch)'
    BY <1>2, <1>3, <1>4, <1>5 DEF BatchOf, Pending
  <1>7. BatchInv'
    BY <1>6 DEF BatchInv, OneNode
  <1>8. RowInv'
    BY <1>4 DEF RowInv, Pending
  <1>9. QED
    BY <1>7, <1>8

LEMMA SoloLock ==
  ASSUME OneNode, IndInv, RowInv, BatchInv, NEW n \in Nodes, LockJob(n)
  PROVE  RowInv' /\ BatchInv'
  <1> DEFINE m == Current(n).id
             locked == Job("sending", Current(n).attempts, Current(n).due)
  <1>1. /\ worker[n].pc = "lock" /\ m \in Messages /\ Current(n).attempts \in Nat
        /\ Current(n).attempts < MaxAttempts
        /\ Pending(m) /\ jobs[m].attempts = Current(n).attempts
    BY CurrentJob, RowAtWork DEF LockJob
  <1>2. sender[m] \notin Unqueued /\ HasJob(m) /\ tries[m] \in Nat /\ tries[m] <= jobs[m].attempts
    BY <1>1, RowMeansQueued DEF Pending, HasJob, RowInv, IndInv, TypeOK
  <1>3. locked.status = "sending" /\ locked.attempts = Current(n).attempts
    BY DEF Job
  <1>4. UNCHANGED <<sender, tries>> /\ (UpdateJob(m, locked) \/ UNCHANGED jobs)
    BY DEF LockJob, Fails
  <1>5. /\ \A k \in Messages : k # m => jobs'[k] = jobs[k]
        /\ jobs'[m] = jobs[m] \/ jobs'[m] = locked
    BY <1>1, <1>2, <1>4 DEF UpdateJob, IndInv, TypeOK
  <1> HIDE DEF locked
  <1>6. RowInv'
    <2>1. /\ jobs'[m].status # "none"
          /\ jobs'[m].attempts = jobs[m].attempts
      BY <1>1, <1>3, <1>5 DEF Pending
    <2>2. tries'[m] = tries[m] /\ tries[m] <= MaxAttempts
      BY <1>1, <1>4 DEF RowInv
    <2>3. tries'[m] <= jobs'[m].attempts /\ tries'[m] <= jobs'[m].attempts + 1
      BY <1>1, <1>2, <2>1, <2>2
    <2> HIDE DEF m
    <2>4. QED
      BY <1>1, <1>2, <1>4, <1>5, <2>1, <2>2, <2>3, RowsAfter
  <1>7. CASE NextJob(n)
    BY <1>1, <1>5, <1>6, <1>7, BatchNext
  <1>8. CASE ~NextJob(n)
    <2>1. WorkerGoes(n, "read", "none") /\ UpdateJob(m, locked)
      BY <1>8 DEF LockJob, locked
    <2>2. jobs'[m] = locked
      BY <1>1, <1>2, <2>1 DEF UpdateJob, IndInv, TypeOK
    <2>3. BatchInv'
      BY <1>1, <1>2, <1>3, <1>4, <1>5, <2>1, <2>2, BatchGoes DEF WorkerStates, Results
    <2>4. QED
      BY <1>6, <2>3
  <1>9. QED
    BY <1>7, <1>8

LEMMA SoloDeliver ==
  ASSUME OneNode, IndInv, RowInv, BatchInv, NEW n \in Nodes, ReadFile(n) \/ Deliver(n)
  PROVE  RowInv' /\ BatchInv'
  <1> DEFINE m == Current(n).id
  <1>1. /\ worker[n].pc \in {"read", "deliver"} /\ m \in Messages /\ Current(n).attempts \in Nat
        /\ jobs[m].status = "sending" /\ jobs[m].attempts = Current(n).attempts
        /\ Current(n).attempts < MaxAttempts
        /\ tries[m] <= Current(n).attempts /\ tries \in [Messages -> Nat]
        /\ sender[m] \notin Unqueued
    BY CurrentJob, RowAtWork, RowMeansQueued DEF ReadFile, Deliver, IndInv, TypeOK
  <1>2. UNCHANGED <<jobs, sender>>
    BY DEF ReadFile, Deliver
  <1>3. /\ \A k \in Messages : k # m => tries'[k] = tries[k]
        /\ tries'[m] <= tries[m] + 1 /\ tries'[m] \in Nat
        /\ ReadFile(n) => tries'[m] = tries[m]
    BY <1>1 DEF ReadFile, Deliver
  <1>4. RowInv'
    <2>1. tries'[m] <= jobs'[m].attempts + 1 /\ tries'[m] <= MaxAttempts
      BY <1>1, <1>2, <1>3, ConstantsAssumption
    <2>2. jobs'[m].status = "sending" /\ jobs'[m].attempts < MaxAttempts
      BY <1>1, <1>2
    <2>3. QED
      BY <1>1, <1>2, <1>3, <2>1, <2>2, RowsAfter
  <1>5. PICK pc \in {"deliver", "record", "hung"}, r \in Results :
          WorkerGoes(n, pc, r) /\ (pc = "deliver" => ReadFile(n))
    <2>1. CASE ReadFile(n)
      BY <2>1 DEF ReadFile, Results
    <2>2. CASE Deliver(n)
      BY <2>2 DEF Deliver, Results, Outcomes
    <2>3. QED
      BY <2>1, <2>2
  <1>6. pc \in {"read", "deliver"} => tries'[Current(n).id] <= Current(n).attempts
    BY <1>1, <1>3, <1>5
  <1>7. BatchInv'
    BY <1>1, <1>2, <1>5, <1>6, BatchGoes DEF WorkerStates
  <1>8. QED
    BY <1>4, <1>7

LEMMA SoloRecord ==
  ASSUME OneNode, IndInv, RowInv, BatchInv, NEW n \in Nodes, RecordResult(n)
  PROVE  RowInv' /\ BatchInv'
  <1> DEFINE m == Current(n).id
             a == Current(n).attempts
             row == AfterFailure(a, worker[n].result)
  <1>1. /\ worker[n].pc = "record" /\ m \in Messages /\ a \in Nat /\ a < MaxAttempts
        /\ jobs[m].status = "sending" /\ jobs[m].attempts = a
        /\ sender[m] \notin Unqueued /\ HasJob(m)
        /\ worker[n].result \in Results
    BY CurrentJob, RowAtWork, RowMeansQueued DEF RecordResult, IndInv, TypeOK, HasJob
  <1>2. /\ UNCHANGED <<sender, tries>> /\ tries[m] \in Nat
        /\ tries[m] <= a + 1 /\ tries[m] <= MaxAttempts
    BY <1>1 DEF RecordResult, RowInv, IndInv, TypeOK
  <1>3. /\ row.status \in {"failed", "pending"} /\ row.attempts = a + 1
    BY <1>1 DEF AfterFailure, Job
  <1>4. /\ \A k \in Messages : k # m => jobs'[k] = jobs[k]
        /\ jobs'[m] \in {jobs[m], NoJob, row}
    <2>1. DeleteJob(m) \/ UpdateJob(m, row) \/ UNCHANGED jobs
      BY DEF RecordResult, Ignoring, Fails
    <2>2. QED
      BY <1>1, <2>1 DEF DeleteJob, UpdateJob, IndInv, TypeOK
  <1> HIDE DEF row
  <1>5. RowInv'
    <2>1. NoJob.status = "none"
      BY DEF NoJob
    <2>2. /\ jobs'[m].status = "none" => jobs'[m] = NoJob
          /\ jobs'[m].status = "sending" => jobs'[m].attempts = a
          /\ jobs'[m].status = "pending" => jobs'[m].attempts = a + 1
      BY <1>1, <1>3, <1>4, <2>1
    <2>3. tries'[m] = tries[m]
      BY <1>2
    <2> HIDE DEF m, a
    <2>4. QED
      BY <1>1, <1>2, <1>4, <2>2, <2>3, RowsAfter
  <1>6. NextJob(n) \/ WorkerGoes(n, "remove", "ok")
    BY DEF RecordResult
  <1>7. BatchInv'
    BY <1>1, <1>4, <1>6, BatchNext, BatchGoes DEF WorkerStates, Results
  <1>8. QED
    BY <1>5, <1>7

LEMMA SoloRemove ==
  ASSUME OneNode, IndInv, RowInv, BatchInv, NEW n \in Nodes, RemoveFile(n)
  PROVE  RowInv' /\ BatchInv'
  <1>1. UNCHANGED <<jobs, sender, tries>> /\ worker[n].pc # "idle" /\ NextJob(n)
    BY DEF RemoveFile
  <1>2. RowInv'
    BY <1>1 DEF RowInv, Pending
  <1>3. QED
    BY <1>1, <1>2, BatchNext

LEMMA SoloCrash ==
  ASSUME OneNode, IndInv, RowInv, BatchInv, NEW n \in Nodes, Crash(n)
  PROVE  RowInv' /\ BatchInv'
  <1>1. UNCHANGED <<jobs, tries>> /\ \A m \in Messages : sender'[m] \in Unqueued => sender[m] \in Unqueued
    BY DEF Crash, Unqueued
  <1>2. RowInv'
    BY <1>1 DEF RowInv, Pending
  <1>3. worker'[n] = IdleWorker /\ Len(IdleWorker.batch) = 0 /\ IdleWorker.pc = "idle"
    BY DEF Crash, IdleWorker, IndInv, TypeOK
  <1>4. BatchOf(n, worker[n].batch)'
    BY <1>3 DEF BatchOf
  <1>5. QED
    BY <1>2, <1>4 DEF BatchInv, OneNode

LEMMA SoloTick ==
  ASSUME OneNode, IndInv, RowInv, BatchInv, Tick
  PROVE  RowInv' /\ BatchInv'
  <1>1. PICK d \in Nat : jobs' = [m \in Messages |-> Aged(jobs[m], d)]
    BY ConstantsAssumption DEF Tick
  <1>2. \A m \in Messages : /\ jobs'[m].status = jobs[m].status
                            /\ jobs'[m].attempts = jobs[m].attempts
                            /\ jobs[m].status = "none" => jobs'[m] = jobs[m]
    BY <1>1, AgedRow DEF IndInv, TypeOK, Aged
  <1>3. UNCHANGED <<sender, worker, tries>>
    BY DEF Tick
  <1>4. NoJob.status = "none"
    BY DEF NoJob
  <1>5. RowInv'
    BY <1>2, <1>3, <1>4 DEF RowInv, Pending
  <1>6. \A n \in Nodes : BatchOf(n, worker[n].batch)'
    <2> TAKE n \in Nodes
    <2> DEFINE b == worker[n].batch
    <2>1. b \in Seq(Snapshot) /\ (worker[n].pc # "idle" => b # <<>>)
      BY DEF IndInv, TypeOK, BusyHasJob
    <2>2. \A i \in 1..Len(b) : b[i] \in Snapshot
      BY <2>1
    <2>3. \A i \in 1..Len(b) : b[i].id \in Messages
      BY <2>2 DEF Snapshot
    <2>4. worker[n].pc # "idle" => 1 \in 1..Len(b)
      BY <2>1
    <2> HIDE DEF b
    <2>5. BatchOf(n, b)
      BY DEF BatchInv, b
    <2>6. worker'[n].batch = b /\ worker'[n].pc = worker[n].pc
      BY <1>3 DEF b
    <2>7. QED
      BY <1>2, <1>3, <2>3, <2>4, <2>5, <2>6 DEF BatchOf, Pending
  <1>7. QED
    BY <1>5, <1>6 DEF BatchInv

LEMMA SoloInit == Init => RowInv /\ BatchInv
  <1> SUFFICES ASSUME Init PROVE RowInv /\ BatchInv
    OBVIOUS
  <1>1. NoJob.status = "none" /\ IdleWorker.pc = "idle" /\ Len(IdleWorker.batch) = 0
    BY DEF NoJob, IdleWorker
  <1>2. RowInv
    BY <1>1, ConstantsAssumption DEF Init, RowInv, Pending
  <1>3. BatchInv
    BY <1>1 DEF Init, BatchInv, BatchOf
  <1>4. QED
    BY <1>2, <1>3

LEMMA SoloStep ==
  ASSUME OneNode, IndInv, RowInv, BatchInv, Next
  PROVE  RowInv' /\ BatchInv'
  BY SoloSendRaw, SoloFetch, SoloLock, SoloDeliver, SoloRecord, SoloRemove, SoloCrash, SoloTick DEF Next, QueueTick

(* With one node the daemon's snapshots are current. *)
THEOREM SoloInvariance == ASSUME OneNode PROVE Spec => [](IndInv /\ RowInv /\ BatchInv)
  <1>1. RowInv /\ BatchInv /\ UNCHANGED vars => RowInv' /\ BatchInv'
    BY DEF vars, RowInv, BatchInv, BatchOf, Pending
  <1>2. IndInv /\ RowInv /\ BatchInv /\ [Next]_vars => RowInv' /\ BatchInv'
    BY <1>1, SoloStep
  <1>3. QED
    BY <1>2, Invariance, SoloInit, PTL DEF Spec

(* One node delivers a queued message at most max_attempts times, whatever statements
   fail and wherever its process dies. *)
THEOREM OneNodeStaysInBudget == ASSUME OneNode PROVE Spec => []TriesWithinBudget
  <1>1. RowInv => TriesWithinBudget
    BY DEF RowInv, TriesWithinBudget
  <1>2. QED
    BY <1>1, SoloInvariance, PTL

-----------------------------------------------------------------------------
(* The refinement: every step of one node is a step of MailPromise, or none. *)

Given(m) == IF wire[m] > 0 THEN "delivered" ELSE "refused"

(* Fate, by the row and the sender. *)
LEMMA FateCases ==
  ASSUME TypeOK, RowInv, NEW m \in Messages
  PROVE  /\ jobs[m].status = "failed" => Fate(m) = "failed"
         /\ jobs[m].status \in {"pending", "sending"} => Fate(m) = "queued"
         /\ jobs[m].status = "none" /\ sender[m] \in Unqueued => Fate(m) = "submitted"
         /\ jobs[m].status = "none" /\ sender[m] = "accepted" => Fate(m) = "delivered"
         /\ jobs[m].status = "none" /\ sender[m] \in {"rollback", "refused", "lost"} => Fate(m) = Given(m)
         /\ jobs[m].status \in {"none", "pending", "sending", "failed"}
         /\ Fate(m) \in Promise!Fates
  <1>1. /\ jobs[m].status \in {"none", "pending", "sending", "failed"} /\ sender[m] \in SenderStates
        /\ jobs[m].status = "none" <=> ~HasJob(m)
    BY DEF TypeOK, Row, RowInv, HasJob, NoJob
  <1>2. CASE jobs[m].status = "failed"
    BY <1>1, <1>2 DEF Fate, Promise!Fates, Promise!Open
  <1>3. CASE jobs[m].status \in {"pending", "sending"}
    BY <1>1, <1>3 DEF Fate, Promise!Fates, Promise!Open
  <1>4. CASE jobs[m].status = "none" /\ sender[m] \in Unqueued
    BY <1>1, <1>4 DEF Fate, Promise!Fates, Promise!Open, Unqueued
  <1>5. CASE jobs[m].status = "none" /\ sender[m] = "accepted"
    BY <1>1, <1>5 DEF Fate, Promise!Fates, Promise!Open, Unqueued
  <1>6. CASE jobs[m].status = "none" /\ sender[m] \in {"rollback", "refused", "lost"}
    BY <1>1, <1>6 DEF Fate, Promise!Fates, Promise!Open, Unqueued, Given
  <1>7. QED
    BY <1>1, <1>2, <1>3, <1>4, <1>5, <1>6 DEF SenderStates, Unqueued

(* The same in the next state. *)
LEMMA FateCasesNext ==
  ASSUME TypeOK', RowInv', NEW m \in Messages
  PROVE  /\ jobs'[m].status = "failed" => Fate(m)' = "failed"
         /\ jobs'[m].status \in {"pending", "sending"} => Fate(m)' = "queued"
         /\ jobs'[m].status = "none" /\ sender'[m] \in Unqueued => Fate(m)' = "submitted"
         /\ jobs'[m].status = "none" /\ sender'[m] = "accepted" => Fate(m)' = "delivered"
         /\ jobs'[m].status = "none" /\ sender'[m] \in {"rollback", "refused", "lost"} =>
              Fate(m)' = IF wire'[m] > 0 THEN "delivered" ELSE "refused"
         /\ jobs'[m].status \in {"none", "pending", "sending", "failed"}
         /\ Fate(m)' \in Promise!Fates
  <1>1. /\ jobs'[m].status \in {"none", "pending", "sending", "failed"} /\ sender'[m] \in SenderStates
        /\ jobs'[m].status = "none" <=> ~HasJob(m)'
    BY DEF TypeOK, Row, RowInv, HasJob, NoJob
  <1>2. CASE jobs'[m].status = "failed"
    BY <1>1, <1>2 DEF Fate, Promise!Fates, Promise!Open
  <1>3. CASE jobs'[m].status \in {"pending", "sending"}
    BY <1>1, <1>3 DEF Fate, Promise!Fates, Promise!Open
  <1>4. CASE jobs'[m].status = "none" /\ sender'[m] \in Unqueued
    BY <1>1, <1>4 DEF Fate, Promise!Fates, Promise!Open, Unqueued
  <1>5. CASE jobs'[m].status = "none" /\ sender'[m] = "accepted"
    BY <1>1, <1>5 DEF Fate, Promise!Fates, Promise!Open, Unqueued
  <1>6. CASE jobs'[m].status = "none" /\ sender'[m] \in {"rollback", "refused", "lost"}
    BY <1>1, <1>6 DEF Fate, Promise!Fates, Promise!Open, Unqueued
  <1>7. QED
    BY <1>1, <1>2, <1>3, <1>4, <1>5, <1>6 DEF SenderStates, Unqueued

(* The ways a step of the queue shows in the promise. *)
Shows ==
  \/ Promise!Next
  \/ UNCHANGED Promise!promiseVars

(* One message moves on. *)
LEMMA OneMoves ==
  ASSUME NEW m \in Messages, NEW k \in {0, 1}, Fate(m) \in {"submitted", "queued"},
         Fate(m)' \in Promise!MayBecome(Fate(m)),
         \A j \in Messages : j # m => Fate(j)' = Fate(j),
         wire' = [wire EXCEPT ![m] = @ + k], wire \in [Messages -> Nat],
         Fate(m)' = "delivered" => wire[m] + k > 0
  PROVE  Shows
  <1> DEFINE old == [j \in Messages |-> Fate(j)]
             new == [j \in Messages |-> Fate(j)']
             f == Fate(m)'
  <1>1. new = [old EXCEPT ![m] = f] /\ old[m] = Fate(m)
    OBVIOUS
  <1>2. Promise!Progress(m)
    BY <1>1 DEF Promise!Progress, Promise!Open
  <1>3. QED
    BY <1>2 DEF Shows, Promise!Next

(* Nothing that the promise speaks of happens. *)
LEMMA NoneMoves ==
  ASSUME \A j \in Messages : Fate(j)' = Fate(j), UNCHANGED wire
  PROVE  Shows
  BY DEF Shows, Promise!promiseVars

(* A message whose row, sender and transmissions stay keeps its fate. *)
LEMMA FateStays ==
  ASSUME NEW m \in Messages, jobs'[m] = jobs[m], sender'[m] = sender[m], wire'[m] = wire[m]
  PROVE  Fate(m)' = Fate(m)
  BY DEF Fate, HasJob

(* send_raw and enqueue_job, seen from outside. *)
LEMMA SendRawShows ==
  ASSUME OneNode, IndInv, RowInv, BatchInv, NEW m \in Messages, SendRaw(m)
  PROVE  Shows
  <1>1. TypeOK /\ TypeOK' /\ RowInv'
    BY SendRawStep, SoloSendRaw DEF IndInv
  <1>2. /\ "queued" \in Promise!MayBecome("submitted") /\ "submitted" \in Promise!MayBecome("submitted")
        /\ "delivered" \in Promise!MayBecome("submitted") /\ "refused" \in Promise!MayBecome("submitted")
    BY DEF Promise!MayBecome
  <1>3. sender[m] \in Unqueued => jobs[m].status = "none" /\ Fate(m) = "submitted"
    BY <1>1, FateCases DEF RowInv, NoJob
  <1>4. CASE FirstTry(m)
    <2>1. PICK o \in Outcomes : Transmit(m, o) /\ SenderGoes(m, SenderAfter(o.result))
      BY <1>4 DEF FirstTry
    <2>2. PICK k \in {0, 1} : wire' = [wire EXCEPT ![m] = @ + k] /\ (o.accepted => k = 1)
      <3>1. o.accepted => wire' = [wire EXCEPT ![m] = @ + 1]
        BY <2>1 DEF Transmit
      <3>2. ~o.accepted => wire' = wire
        BY <2>1, <1>1 DEF Transmit, TypeOK
      <3>3. wire = [wire EXCEPT ![m] = @ + 0]
        BY <1>1 DEF TypeOK
      <3>4. QED
        BY <3>1, <3>2, <3>3
    <2>3. /\ sender[m] = "new" /\ jobs' = jobs /\ wire[m] \in Nat /\ wire'[m] = wire[m] + k
          /\ sender'[m] = SenderAfter(o.result)
          /\ \A j \in Messages : j # m => sender'[j] = sender[j] /\ wire'[j] = wire[j]
      BY <1>4, <1>1, <2>1, <2>2 DEF FirstTry, SenderGoes, TypeOK
    <2>4. \A j \in Messages : j # m => Fate(j)' = Fate(j)
      BY <2>3, FateStays
    <2>5. /\ sender'[m] \in {"accepted", "refused", "write"}
          /\ sender'[m] = "accepted" => wire'[m] > 0
      BY <2>2, <2>3 DEF SenderAfter, Outcomes
    <2>6. /\ Fate(m) = "submitted" /\ jobs'[m].status = "none"
      BY <1>3, <2>3 DEF Unqueued
    <2>7. /\ Fate(m)' \in {"submitted", "delivered", "refused"}
          /\ Fate(m)' = "delivered" => wire'[m] > 0
      BY <1>1, <2>5, <2>6, FateCasesNext DEF Unqueued
    <2>8. QED
      BY <1>1, <1>2, <2>2, <2>3, <2>4, <2>6, <2>7, OneMoves DEF TypeOK
  <1>5. CASE WriteFile(m) \/ InsertRow(m)
    <2>1. /\ sender[m] \in Unqueued /\ wire' = wire /\ sender'[m] \in {"refused", "insert", "accepted", "rollback"}
          /\ \A j \in Messages : j # m => sender'[j] = sender[j] /\ jobs'[j] = jobs[j]
          /\ jobs'[m] \in {jobs[m], Job("pending", 0, 0)}
          /\ sender'[m] = "accepted" => jobs'[m] = Job("pending", 0, 0)
      <3>1. CASE WriteFile(m)
        BY <1>1, <3>1 DEF WriteFile, SenderGoes, TypeOK, Unqueued
      <3>2. CASE InsertRow(m)
        BY <1>1, <3>2 DEF InsertRow, SenderGoes, TypeOK, Unqueued, Fails, InsertJob
      <3>3. QED
        BY <1>5, <3>1, <3>2
    <2>2. \A j \in Messages : j # m => Fate(j)' = Fate(j)
      BY <2>1, FateStays
    <2>3. wire' = [wire EXCEPT ![m] = @ + 0] /\ wire[m] + 0 = wire'[m]
      BY <1>1, <2>1 DEF TypeOK
    <2>4. Job("pending", 0, 0).status = "pending"
      BY DEF Job
    <2>5. Fate(m) = "submitted" /\ jobs[m].status = "none"
      BY <1>3, <2>1
    <2>6. /\ Fate(m)' \in {"submitted", "queued", "delivered", "refused"}
          /\ Fate(m)' = "delivered" => wire'[m] > 0
      BY <1>1, <2>1, <2>4, <2>5, FateCasesNext DEF Unqueued
    <2>7. QED
      BY <1>1, <1>2, <2>2, <2>3, <2>5, <2>6, OneMoves DEF TypeOK
  <1>6. CASE Rollback(m)
    <2>1. /\ sender[m] = "rollback" /\ sender'[m] = "refused" /\ wire' = wire /\ jobs' = jobs
          /\ \A j \in Messages : j # m => sender'[j] = sender[j]
      BY <1>6, <1>1 DEF Rollback, SenderGoes, TypeOK
    <2>2. Fate(m)' = Fate(m)
      BY <1>1, <2>1, FateCases, FateCasesNext DEF Given
    <2>3. \A j \in Messages : Fate(j)' = Fate(j)
      BY <2>1, <2>2, FateStays
    <2>4. QED
      BY <2>1, <2>3, NoneMoves
  <1>7. QED
    BY <1>4, <1>5, <1>6 DEF SendRaw

(* The daemon, seen from outside. *)
LEMMA QueueTickShows ==
  ASSUME OneNode, IndInv, RowInv, BatchInv, NEW n \in Nodes, QueueTick(n)
  PROVE  Shows
  <1>1. TypeOK /\ TypeOK' /\ RowInv'
    BY QueueTickStep, SoloFetch, SoloLock, SoloDeliver, SoloRecord, SoloRemove DEF IndInv, QueueTick
  <1>2. CASE Fetch(n) \/ ReadFile(n) \/ RemoveFile(n)
    <2>1. UNCHANGED <<jobs, sender, wire>>
      BY <1>2 DEF Fetch, ReadFile, RemoveFile
    <2>2. QED
      BY <2>1, FateStays, NoneMoves
  <1>3. CASE LockJob(n)
    <2>0. PICK m \in Messages : m = Current(n).id
      BY <1>3, CurrentJob DEF LockJob
    <2>1. /\ jobs[m].status = "pending" /\ UNCHANGED <<sender, wire>>
      BY <1>3, <2>0, RowAtWork DEF LockJob, Pending
    <2>2. HasJob(m)
      BY <2>1, RowMeansQueued DEF HasJob
    <2>3. UpdateJob(m, Job("sending", Current(n).attempts, Current(n).due)) \/ UNCHANGED jobs
      BY <1>3, <2>0 DEF LockJob, Fails
    <2>4. /\ jobs'[m].status \in {"pending", "sending"}
          /\ \A j \in Messages : j # m => jobs'[j] = jobs[j]
      BY <1>1, <2>1, <2>2, <2>3 DEF UpdateJob, TypeOK, Job
    <2>5. Fate(m)' = Fate(m)
      BY <1>1, <2>1, <2>4, FateCases, FateCasesNext
    <2>6. \A j \in Messages : Fate(j)' = Fate(j)
      BY <2>1, <2>4, <2>5, FateStays
    <2>7. QED
      BY <2>1, <2>6, NoneMoves
  <1>4. CASE Deliver(n)
    <2>0. PICK m \in Messages : m = Current(n).id
      BY <1>4, CurrentJob DEF Deliver
    <2>1. /\ jobs[m].status = "sending" /\ UNCHANGED <<jobs, sender>>
      BY <1>4, <2>0, RowAtWork DEF Deliver
    <2>2. PICK k \in {0, 1} : wire' = [wire EXCEPT ![m] = @ + k]
      <3>1. \/ wire' = [wire EXCEPT ![m] = @ + 1]
            \/ wire' = wire
        BY <1>4, <1>1, <2>0, <2>1 DEF Deliver, Transmit, TypeOK
      <3>2. wire = [wire EXCEPT ![m] = @ + 0]
        BY <1>1, <2>1 DEF TypeOK
      <3>3. QED
        BY <3>1, <3>2
    <2>3. \A j \in Messages : j # m => wire'[j] = wire[j]
      BY <1>1, <2>2 DEF TypeOK
    <2>4. Fate(m) = "queued" /\ Fate(m)' = "queued"
      BY <1>1, <2>1, FateCases, FateCasesNext
    <2>5. \A j \in Messages : j # m => Fate(j)' = Fate(j)
      BY <2>1, <2>3, FateStays
    <2>6. "queued" \in Promise!MayBecome("queued")
      BY DEF Promise!MayBecome
    <2>7. QED
      BY <1>1, <2>1, <2>2, <2>4, <2>5, <2>6, OneMoves DEF TypeOK
  <1>5. CASE RecordResult(n)
    <2>0. PICK m \in Messages : m = Current(n).id
      BY <1>5, CurrentJob DEF RecordResult
    <2>1. /\ jobs[m].status = "sending" /\ UNCHANGED <<sender, wire>>
          /\ worker[n].pc = "record"
      BY <1>5, <2>0, RowAtWork DEF RecordResult
    <2>2. HasJob(m) /\ sender[m] \notin Unqueued /\ sender'[m] \notin Unqueued /\ sender'[m] \in SenderStates
      BY <1>1, <2>1, RowMeansQueued DEF HasJob, TypeOK
    <2>3. /\ \A j \in Messages : j # m => jobs'[j] = jobs[j]
          /\ \/ jobs'[m] = jobs[m]
             \/ jobs'[m] = NoJob /\ worker[n].result = "ok"
             \/ jobs'[m] = AfterFailure(Current(n).attempts, worker[n].result)
      <3>1. \/ DeleteJob(m) /\ worker[n].result = "ok"
            \/ UpdateJob(m, AfterFailure(Current(n).attempts, worker[n].result))
            \/ UNCHANGED jobs
        BY <1>5, <2>0 DEF RecordResult, Ignoring, Fails
      <3>2. QED
        BY <1>1, <2>1, <2>2, <3>1 DEF DeleteJob, UpdateJob, TypeOK
    <2>4. AfterFailure(Current(n).attempts, worker[n].result).status \in {"failed", "pending"}
      BY DEF AfterFailure, Job
    <2>5. worker[n].result = "ok" => wire[m] > 0
      BY <2>0, <2>1 DEF IndInv, DeletesOnlyDelivered
    <2>6. Fate(m) = "queued"
      BY <1>1, <2>1, FateCases
    <2>7. /\ Fate(m)' \in {"queued", "delivered", "failed"}
          /\ Fate(m)' = "delivered" => wire[m] > 0
      <3>1. \/ jobs'[m].status \in {"sending", "failed", "pending"}
            \/ jobs'[m].status = "none" /\ wire'[m] > 0
        BY <2>1, <2>3, <2>4, <2>5 DEF NoJob
      <3>2. sender'[m] \in {"accepted", "rollback", "refused", "lost"}
        BY <2>2 DEF SenderStates, Unqueued
      <3>3. QED
        BY <1>1, <2>1, <3>1, <3>2, FateCasesNext
    <2>8. \A j \in Messages : j # m => Fate(j)' = Fate(j)
      BY <2>1, <2>3, FateStays
    <2>9. {"queued", "delivered", "failed"} \subseteq Promise!MayBecome("queued")
      BY DEF Promise!MayBecome
    <2>10. wire' = [wire EXCEPT ![m] = @ + 0] /\ wire[m] + 0 = wire[m]
      BY <1>1, <2>1 DEF TypeOK
    <2>11. QED
      BY <1>1, <2>1, <2>6, <2>7, <2>8, <2>9, <2>10, OneMoves DEF TypeOK
  <1>6. QED
    BY <1>2, <1>3, <1>4, <1>5 DEF QueueTick

(* A process that dies, seen from outside. *)
LEMMA CrashShows ==
  ASSUME OneNode, IndInv, RowInv, BatchInv, NEW n \in Nodes, Crash(n)
  PROVE  Shows
  <1>1. TypeOK /\ TypeOK' /\ RowInv'
    BY CrashStep, SoloCrash DEF IndInv
  <1>2. /\ UNCHANGED <<jobs, wire>>
        /\ \A m \in Messages : \/ sender'[m] = sender[m]
                               \/ sender'[m] = "lost" /\ sender[m] \in {"write", "insert", "rollback"}
    BY DEF Crash
  <1>3. \A m \in Messages :
          \/ Fate(m)' = Fate(m)
          \/ /\ Fate(m) = "submitted" /\ Fate(m)' \in {"refused", "delivered"}
             /\ Fate(m)' = "delivered" => wire[m] > 0
    <2> TAKE m \in Messages
    <2>1. CASE sender'[m] = sender[m]
      BY <1>2, <2>1, FateStays
    <2>2. CASE jobs[m].status # "none"
      BY <1>1, <1>2, <2>2, FateCases, FateCasesNext
    <2>3. CASE sender'[m] = "lost" /\ sender[m] \in {"write", "insert", "rollback"} /\ jobs[m].status = "none"
      BY <1>1, <1>2, <2>3, FateCases, FateCasesNext DEF Unqueued, Given
    <2>4. QED
      BY <1>2, <2>1, <2>2, <2>3
  <1>4. \A m \in Messages : Fate(m)' \in Promise!Fates
    BY <1>1, FateCasesNext
  <1>5. Promise!Abandon
    BY <1>2, <1>3, <1>4 DEF Promise!Abandon
  <1>6. QED
    BY <1>5 DEF Shows, Promise!Next

(* The clock, seen from outside. *)
LEMMA TickShows ==
  ASSUME OneNode, IndInv, RowInv, BatchInv, Tick
  PROVE  Shows
  <1>1. TypeOK /\ TypeOK' /\ RowInv'
    BY TickStep, SoloTick DEF IndInv
  <1>2. PICK d \in Nat : jobs' = [m \in Messages |-> Aged(jobs[m], d)]
    BY ConstantsAssumption DEF Tick
  <1>3. \A m \in Messages : jobs'[m].status = jobs[m].status
    BY <1>1, <1>2, AgedRow DEF TypeOK
  <1>4. UNCHANGED <<sender, wire>>
    BY DEF Tick
  <1>5. \A m \in Messages : sender[m] \in SenderStates
    BY <1>1 DEF TypeOK
  <1>6. \A m \in Messages : Fate(m)' = Fate(m)
    BY <1>1, <1>3, <1>4, <1>5, FateCases, FateCasesNext DEF Given, SenderStates, Unqueued
  <1>7. QED
    BY <1>4, <1>6, NoneMoves

(* One node with its send_raw, queue table, bodies and daemon implements MailPromise:
   fates only move forward, failed and refused mail is never sent again, and what is
   reported delivered was taken by a remote server, whatever faults happen. *)
THEOREM OneNodeKeepsPromise == ASSUME OneNode PROVE Spec => KeepsPromise
  <1>1. Init => Promise!Init
    <2> SUFFICES ASSUME Init PROVE Promise!Init
      OBVIOUS
    <2>1. \A m \in Messages : Fate(m) = "submitted"
      BY DEF Init, Fate, HasJob, NoJob
    <2>2. QED
      BY <2>1 DEF Init, Promise!Init
  <1>2. IndInv /\ RowInv /\ BatchInv /\ [Next]_vars => [Promise!Next]_Promise!promiseVars
    <2> SUFFICES ASSUME IndInv, RowInv, BatchInv, [Next]_vars PROVE Shows
      BY DEF Shows
    <2>1. CASE Next
      BY <2>1, SendRawShows, QueueTickShows, CrashShows, TickShows DEF Next
    <2>2. CASE UNCHANGED vars
      BY <2>2, FateStays, NoneMoves DEF vars
    <2>3. QED
      BY <2>1, <2>2
  <1>3. QED
    BY <1>1, <1>2, SoloInvariance, PTL DEF Spec, KeepsPromise, Promise!Spec
=============================================================================
