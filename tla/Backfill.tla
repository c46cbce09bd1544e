------------------------------ MODULE Backfill ------------------------------
(***************************************************************************)
(* Applying a new filter to the mail that is already there: the keywords   *)
(* of create_filter_handler submitted to the BackfillEngine, its bounded   *)
(* channel, and its single worker that scans the user's unlabelled mail in *)
(* batches, while mail arrives, labels are put on mail and taken off, and  *)
(* mail and labels are deleted.                                            *)
(***************************************************************************)
EXTENDS Integers, Sequences, FiniteSets

CONSTANTS
  Tenants,     \* users
  Emails,      \* all mail there may be
  Owner,       \* whose it is
  Initial,     \* the mail that is there at the start
  Order,       \* its order: pairs of a mail and an older one
  Keywords,    \* keywords
  LabelIds,    \* labels
  Capacity,    \* capacity of the channel (100 in the code)
  BatchSize,   \* mails in one batch (50 in the code)
  Forms,       \* the filter forms of each user: a job for every keyword
  Changes,     \* what else may happen: "mail" or "label" deleted, "assign", "remove"
  MaxChanges,  \* bound: how often it does
  MaxFaults    \* bound: failing statements

Job == [tenant : Tenants, keyword : Keywords, label : LabelIds]

ASSUME BackfillAssumption ==
  /\ IsFiniteSet(Emails) /\ Owner \in [Emails -> Tenants] /\ Initial \subseteq Emails
  /\ Order \subseteq Initial \X Initial /\ \A p \in Order : <<p[2], p[1]>> \notin Order
  /\ Capacity \in Nat \ {0} /\ BatchSize \in Nat \ {0}
  /\ MaxChanges \in Nat /\ MaxFaults \in Nat
  /\ Forms \in [Tenants -> SUBSET Seq(Job)]
  /\ Changes \subseteq {"mail", "label", "assign", "remove"}

VARIABLES
  contains,   \* the keywords in each mail's first 64 KB of text
  emails,     \* received_emails
  newer,      \* the order of received_at: pairs of a mail and an older one
  arriving,   \* mail that has not arrived yet
  labels,     \* table labels
  labelled,   \* email_labels: <<mail, label>>
  form,       \* each user's create_filter_handler: jobs still to submit
  active,     \* active_tenants
  channel,    \* jobs sent to the worker
  worker,     \* the worker: its job, offset, the batch it fetched; auxiliary: the mail
              \* it is to look at, and whether its scan was disturbed
  changes, faults,
  missed      \* auxiliary: mail a finished scan should have labelled and did not, and
              \* whether the scan was disturbed

store == <<contains, emails, newer, arriving, labels>>
backfillVars == <<store, labelled, form, active, channel, worker, changes, faults, missed>>

IdleWorker ==
  [pc |-> "idle", jobs |-> {}, offset |-> 0, batch |-> {}, due |-> {}, disturbed |-> FALSE]

TheJob == CHOOSE j \in worker.jobs : TRUE
EmailsOf(t) == {m \in emails : Owner[m] = t}

Succeeds == UNCHANGED faults
Fault == faults > 0 /\ faults' = faults - 1

-----------------------------------------------------------------------------
(* create_filter_handler with apply_to_existing, and BackfillEngine::submit *)

SendForm(t, jobs) ==
  /\ form[t] = <<>>
  /\ form' = [form EXCEPT ![t] = jobs]
  /\ UNCHANGED <<store, labelled, active, channel, worker, changes, faults, missed>>

(* The tenant is marked active first; the result of try_send is ignored. *)
Submit(job) ==
  IF job.tenant \notin active
  THEN /\ active' = active \cup {job.tenant}
       /\ channel' = IF Len(channel) < Capacity THEN Append(channel, job) ELSE channel
  ELSE UNCHANGED <<active, channel>>  \* submit returns false

SubmitKeyword(t) ==
  /\ form[t] # <<>>
  /\ Submit(Head(form[t]))
  /\ form' = [form EXCEPT ![t] = Tail(@)]
  /\ UNCHANGED <<store, labelled, worker, changes, faults, missed>>

-----------------------------------------------------------------------------
(* start_worker and process_job *)

Receive ==
  /\ worker.pc = "idle" /\ channel # <<>>
  /\ worker' = [pc |-> "fetch", jobs |-> {Head(channel)}, offset |-> 0, batch |-> {},
                due |-> EmailsOf(Head(channel).tenant), disturbed |-> FALSE]
  /\ channel' = Tail(channel)
  /\ UNCHANGED <<store, labelled, form, active, changes, faults, missed>>

(* get_unlabeled_emails_for_user: ORDER BY received_at DESC LIMIT BatchSize OFFSET offset.
   The rows are split into those skipped, the page and the rest, each newer than what
   follows; a part is short only if nothing follows. *)
Unlabeled(job) == {m \in EmailsOf(job.tenant) : <<m, job.label>> \notin labelled}

IsPage(job, skipped, page) ==
  LET rest == Unlabeled(job) \ (skipped \cup page)
  IN  /\ skipped \X (page \cup rest) \subseteq newer /\ page \X rest \subseteq newer
      /\ Cardinality(skipped) <= worker.offset /\ Cardinality(page) <= BatchSize
      /\ page \cup rest # {} => Cardinality(skipped) = worker.offset
      /\ rest # {} => Cardinality(page) = BatchSize

(* What the scan was to label: what was there from its start to its end, if the label
   still is. *)
Missing(job, marks) ==
  {m \in worker.due \cap emails : /\ job.keyword \in contains[m]
                                  /\ job.label \in labels /\ <<m, job.label>> \notin marks}

(* process_job returns, and the tenant may submit again *)
EndJobActive(marks, disturbed) ==
  /\ worker' = IdleWorker
  /\ UNCHANGED active
  /\ missed' = missed \cup [mail : Missing(TheJob, marks), disturbed : {disturbed}]
EndJob(marks, disturbed) ==
  /\ worker' = IdleWorker
  /\ active' = active \ {TheJob.tenant}
  /\ missed' = missed \cup [mail : Missing(TheJob, marks), disturbed : {disturbed}]

FetchBatch ==
  /\ worker.pc = "fetch"
  /\ \/ \E skipped \in SUBSET Unlabeled(TheJob) :
        \E page \in SUBSET (Unlabeled(TheJob) \ skipped) :
          /\ Succeeds /\ IsPage(TheJob, skipped, page)
          /\ \/ /\ page # {} /\ worker' = [worker EXCEPT !.pc = "label", !.batch = page]
                /\ UNCHANGED <<active, missed>>
             \/ page = {} /\ EndJob(labelled, worker.disturbed)
     \/ Fault /\ EndJob(labelled, TRUE)
  /\ UNCHANGED <<store, labelled, form, channel, changes>>

(* The mails of the batch that match: those whose file is gone do not, and a deleted
   mail may still have its file (left). *)
Matches(job, left) ==
  {m \in worker.batch : job.keyword \in contains[m] /\ m \in emails \cup left}

(* batch_assign_label_to_emails inserts one by one, newest first, and stops at the first
   error: a fault, or a foreign key whose mail or label was deleted in between. *)
Insertable(job, m) == job.label \in labels /\ m \in emails

IsNext(m, rest) == m \in rest /\ \A x \in rest \ {m} : <<m, x>> \in newer

Assign(job, matched) ==
  \E done \in SUBSET matched :
    /\ \A m \in done : Insertable(job, m)
    /\ done \X (matched \ done) \subseteq newer
    /\ \/ Succeeds /\ (done = matched
                        \/ \E m \in matched : IsNext(m, matched \ done) /\ ~Insertable(job, m))
       \/ Fault /\ done # matched
    /\ labelled' = labelled \cup (done \X {job.label})

NextOffsetByBatch(offset, count, matched) == offset + count
NextOffset(offset, count, matched) == offset + (count - matched)

(* Read the batch, label what matches (an error is only logged), and go on with the
   next batch unless this one was short. *)
LabelBatch ==
  /\ worker.pc = "label"
  /\ \E left \in SUBSET (worker.batch \ emails) :
       LET count     == Cardinality(worker.batch)
           matched   == Matches(TheJob, left)
           disturbed == worker.disturbed \/ faults' # faults
       IN  /\ Assign(TheJob, matched)
           /\ IF count < BatchSize
              THEN EndJob(labelled', disturbed)
              ELSE /\ worker' = [worker EXCEPT !.pc = "fetch", !.batch = {},
                                   !.offset = NextOffset(@, count, Cardinality(matched)),
                                   !.disturbed = disturbed]
                   /\ UNCHANGED <<active, missed>>
  /\ UNCHANGED <<store, form, channel, changes>>

Worker == Receive \/ FetchBatch \/ LabelBatch

-----------------------------------------------------------------------------
(* Meanwhile mail is stored, labelled and deleted. *)

Arrive(m) ==
  /\ m \in arriving
  /\ arriving' = arriving \ {m}
  /\ emails' = emails \cup {m}
  /\ newer' = newer \cup ({m} \X emails)
  /\ UNCHANGED <<contains, labels, labelled, form, active, channel, worker, changes, faults, missed>>

Allowed(kind) == kind \in Changes /\ changes > 0 /\ changes' = changes - 1

(* Mail that has left the list in which a scan counts its offset disturbs the scan. *)
Leaves(m, listed) ==
  worker' = [worker EXCEPT !.disturbed =
    @ \/ \E j \in worker.jobs : j.label \in listed /\ m \in Unlabeled(j)]

(* assign_labels_to_email: by the session that has stored the mail, after its filters
   were evaluated, or by the user. *)
AssignLabel(m, label) ==
  /\ Allowed("assign") /\ m \in emails /\ label \in labels
  /\ Leaves(m, {label})
  /\ labelled' = labelled \cup {<<m, label>>}
  /\ UNCHANGED <<store, form, active, channel, faults, missed>>

(* remove_label_from_email: a scan under way is not to put the label back. *)
RemoveLabel(m, label) ==
  /\ Allowed("remove") /\ <<m, label>> \in labelled
  /\ labelled' = labelled \ {<<m, label>>}
  /\ worker' = [worker EXCEPT !.due =
       IF \E j \in worker.jobs : j.label = label THEN @ \ {m} ELSE @]
  /\ UNCHANGED <<store, form, active, channel, faults, missed>>

(* The rows of email_labels go with their mail and their label (ON DELETE CASCADE). *)
DeleteMail(m) ==
  /\ Allowed("mail") /\ m \in emails
  /\ Leaves(m, LabelIds)
  /\ emails' = emails \ {m}
  /\ labelled' = {l \in labelled : l[1] # m}
  /\ UNCHANGED <<contains, newer, arriving, labels, form, active, channel, faults, missed>>

DropLabel(label) ==
  /\ Allowed("label") /\ label \in labels
  /\ labels' = labels \ {label}
  /\ labelled' = {l \in labelled : l[2] # label}
  /\ UNCHANGED <<contains, emails, newer, arriving, form, active, channel, worker, faults, missed>>

-----------------------------------------------------------------------------
BackfillInit ==
  /\ contains \in [Emails -> SUBSET Keywords]
  /\ emails = Initial /\ newer = Order /\ arriving = Emails \ Initial
  /\ labels = LabelIds /\ labelled = {} /\ form = [t \in Tenants |-> <<>>]
  /\ active = {} /\ channel = <<>> /\ worker = IdleWorker
  /\ changes = MaxChanges /\ faults = MaxFaults
  /\ missed = {}

BackfillNext ==
  \/ \E t \in Tenants : \E jobs \in Forms[t] : SendForm(t, jobs)
  \/ \E t \in Tenants : SubmitKeyword(t)
  \/ Worker
  \/ \E m \in Emails : Arrive(m) \/ DeleteMail(m)
  \/ \E m \in Emails, label \in LabelIds : AssignLabel(m, label) \/ RemoveLabel(m, label)
  \/ \E label \in LabelIds : DropLabel(label)

BackfillSpec == BackfillInit /\ [][BackfillNext]_backfillVars

(* The worker is a task of its own that the runtime keeps scheduling. *)
FairBackfill == BackfillSpec /\ WF_backfillVars(Worker)

-----------------------------------------------------------------------------
(* Properties *)

JobsOf(t) == {i \in DOMAIN channel : channel[i].tenant = t}
Scanning(t) == \E j \in worker.jobs : j.tenant = t

(* process_job labels every mail with the keyword that was there from its start to its
   end, over several batches, although the mail it labels leaves the list the offset
   counts in, new mail arrives at its front, and labels are taken off or deleted.  A scan
   is disturbed, and may miss mail, if a statement fails or if mail leaves the list by
   another hand: it is deleted, or a session or the user puts the label on it.  *)
ExistingMailIsLabelled == \A miss \in missed : miss.disturbed

(* A tenant whose job got into the channel is let go again, so that a later filter can
   be applied: the scans before its own and its own end, whatever arrives, is deleted or
   fails on the way and although the jobs of others are dropped at a full channel.  This
   needs that the label of a scan exists while it runs and that only finitely many
   statements fail: a scan repeats a batch of which nothing could be labelled.  A tenant
   whose own job was dropped stays marked (ActiveIsQueued).  *)
TenantsAreReleased ==
  [](\A j \in worker.jobs : j.label \in labels) =>
    \A t \in Tenants : (JobsOf(t) # {} \/ Scanning(t)) ~> t \notin active

(* "the dedicated background worker loop that processes backfill jobs sequentially":
   every job in the channel is taken out of it.  *)
EveryJobIsTaken == \A t \in Tenants : JobsOf(t) # {} ~> JobsOf(t) = {}

(* "Returns true if successfully queued": an active tenant has a job.  *)
ActiveIsQueued == \A t \in active : JobsOf(t) # {} \/ Scanning(t)

(* Without the exception: no scan misses mail that was there all the time. *)
NothingIsMissed == missed = {}
=============================================================================
