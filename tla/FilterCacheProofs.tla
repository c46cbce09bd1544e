-------------------------- MODULE FilterCacheProofs --------------------------
(***************************************************************************)
(* Proofs about the filters: the rule cache (FilterCache), for any number  *)
(* of rules, mails and overlapping edits, and the scan of existing mail    *)
(* (Backfill), for any mail, jobs and size of the batches.                 *)
(***************************************************************************)
EXTENDS FilterCache, Backfill, FiniteSetTheorems, TLAPS

Shape ==
  /\ edit \in [Edits -> {"idle", "creating", "deleted"}]
  /\ mail \in [Mails -> [pc : {"new", "compile", "done"}, rules : SUBSET Rules]]
  /\ rules \subseteq Rules
  /\ cache \in [cached : BOOLEAN, rules : SUBSET Rules]
  /\ exposed \in BOOLEAN

(* While no edit crossed a reading mail, what the mails have read is current. *)
ReadIsCurrent == ~exposed => \A m \in Mails : mail[m].pc = "compile" => mail[m].rules = rules

CacheInv == Shape /\ ReadIsCurrent /\ CacheIsCurrent

LEMMA InitCache == Init => CacheInv
<1>. SUFFICES ASSUME Init PROVE CacheInv
  OBVIOUS
<1>1. Shape
  BY DEF Init, Shape, NoCache
<1>2. ReadIsCurrent
  BY DEF Init, ReadIsCurrent
<1>3. CacheIsCurrent
  BY DEF Init, CacheIsCurrent
<1>. QED BY <1>1, <1>2, <1>3 DEF CacheInv

(* A change of the rules leaves its request waiting for invalidate, and either no
   mail is reading or exposed is set. *)
LEMMA ChangeCache ==
  ASSUME CacheInv, NEW e \in Edits, NEW rs \in SUBSET Rules, NEW pc \in {"creating", "deleted"},
         Change(e, rs, pc)
  PROVE  CacheInv'
<1>1. Shape'
  BY DEF CacheInv, Shape, Change
<1>2. ReadIsCurrent'
  BY DEF CacheInv, Shape, Change, ReadIsCurrent, Reading
<1>3. ~Quiet'
  BY DEF CacheInv, Shape, Change, Quiet
<1>. QED BY <1>1, <1>2, <1>3 DEF CacheInv, CacheIsCurrent

LEMMA InvalidateCache ==
  ASSUME CacheInv, NEW e \in Edits, Invalidate(e)
  PROVE  CacheInv'
<1>1. Shape'
  BY DEF CacheInv, Shape, Invalidate, NoCache
<1>2. ReadIsCurrent'
  BY DEF CacheInv, Shape, Invalidate, ReadIsCurrent, Reading
<1>3. CacheIsCurrent'
  BY DEF Invalidate, CacheIsCurrent
<1>. QED BY <1>1, <1>2, <1>3 DEF CacheInv

LEMMA LookupCache ==
  ASSUME CacheInv, NEW m \in Mails, Lookup(m)
  PROVE  CacheInv'
<1>1. Shape'
  BY DEF CacheInv, Shape, Lookup, MailGoes
<1>2. ReadIsCurrent'
  BY DEF CacheInv, Shape, Lookup, MailGoes, ReadIsCurrent
<1>3. CacheIsCurrent'
  BY DEF CacheInv, Lookup, CacheIsCurrent, Quiet, Cached, NoCache
<1>. QED BY <1>1, <1>2, <1>3 DEF CacheInv

LEMMA CacheRulesCache ==
  ASSUME CacheInv, NEW m \in Mails, CacheRules(m)
  PROVE  CacheInv'
<1>1. Shape'
  BY DEF CacheInv, Shape, CacheRules, MailGoes, Cached
<1>2. ReadIsCurrent'
  BY DEF CacheInv, Shape, CacheRules, MailGoes, ReadIsCurrent
<1>3. CacheIsCurrent'
  BY DEF CacheInv, CacheRules, CacheIsCurrent, ReadIsCurrent, Quiet, Cached, NoCache
<1>. QED BY <1>1, <1>2, <1>3 DEF CacheInv

LEMMA StepCache == CacheInv /\ [Next]_vars => CacheInv'
<1>. SUFFICES ASSUME CacheInv, [Next]_vars PROVE CacheInv'
  OBVIOUS
<1>1. ASSUME NEW e \in Edits, NEW rule \in Rules, CreateFilter(e, rule) PROVE CacheInv'
  <2>1. rules \cup {rule} \in SUBSET Rules
    BY DEF CacheInv, Shape
  <2>. QED BY <1>1, <2>1, ChangeCache DEF CreateFilter
<1>2. ASSUME NEW e \in Edits, NEW rule \in Rules, DeleteFilter(e, rule) PROVE CacheInv'
  <2>1. rules \ {rule} \in SUBSET Rules
    BY DEF CacheInv, Shape
  <2>. QED BY <1>2, <2>1, ChangeCache DEF DeleteFilter
<1>3. ASSUME NEW e \in Edits, NEW label \in Labels, DeleteLabel(e, label) PROVE CacheInv'
  <2>1. {rule \in rules : LabelOf[rule] # label} \in SUBSET Rules
    BY DEF CacheInv, Shape
  <2>. QED BY <1>3, <2>1, ChangeCache DEF DeleteLabel
<1>4. CASE UNCHANGED vars
  BY <1>4 DEF vars, CacheInv, Shape, ReadIsCurrent, CacheIsCurrent, Quiet, Cached, NoCache
<1>. QED
  BY <1>1, <1>2, <1>3, <1>4, InvalidateCache, LookupCache, CacheRulesCache DEF Next

(* Whatever edits overlap with each other and with mails that hit the cache, the
   FilterEngine's cache is empty or current outside the window of get_or_compile. *)
THEOREM CacheStaysCurrent == Spec => []CacheIsCurrent
<1>1. CacheInv => CacheIsCurrent
  BY DEF CacheInv
<1>. QED BY InitCache, StepCache, <1>1, PTL DEF Spec

-----------------------------------------------------------------------------
(* The scan of the backfill worker *)

(* The mail a scan still has to label, and what the query lists before a mail. *)
Pending(job) == {m \in worker.due \cap Unlabeled(job) : job.keyword \in contains[m]}
Ahead(job, m) == {x \in Unlabeled(job) : <<x, m>> \in newer}

(* Between two batches the offset does not reach any mail that is still to be labelled;
   while a batch is read it does not either, and what is not in the batch will not be
   reached by the offset that counts the whole batch. *)
Fetching(job) == \A m \in Pending(job) : worker.offset <= Cardinality(Ahead(job, m))
Labelling(job) ==
  /\ worker.batch \subseteq Unlabeled(job)
  /\ \A m \in Pending(job) \ worker.batch :
       /\ Cardinality(worker.batch) = BatchSize
       /\ worker.offset + BatchSize <= Cardinality(Ahead(job, m))

(* ... as long as the scan is not disturbed and its label is there. *)
InStep(job) ==
  ~worker.disturbed /\ job.label \in labels =>
    /\ worker.pc = "fetch" => Fetching(job)
    /\ worker.pc = "label" => Labelling(job)

StoreShape ==
  /\ contains \in [Emails -> SUBSET Keywords]
  /\ emails \subseteq Emails /\ arriving \subseteq Emails \ emails
  /\ newer \subseteq (Emails \ arriving) \X (Emails \ arriving)
  /\ \A x, y \in Emails : <<x, y>> \in newer => <<y, x>> \notin newer

WorkerShape ==
  /\ form \in [Tenants -> Seq(Job)] /\ channel \in Seq(Job) /\ faults \in Nat
  /\ worker \in [pc : {"idle", "fetch", "label"}, jobs : SUBSET Job, offset : Nat,
                 batch : SUBSET Emails, due : SUBSET Emails, disturbed : BOOLEAN]
  /\ worker.pc # "idle" => \E job \in Job : worker.jobs = {job}
  /\ \A job \in worker.jobs, m \in worker.due : Owner[m] = job.tenant
  /\ worker.due \cap arriving = {}

ScanInv ==
  /\ StoreShape
  /\ WorkerShape
  /\ \A job \in worker.jobs : InStep(job)
  /\ ExistingMailIsLabelled

LEMMA ScanStarts == BackfillInit => ScanInv
<1>. SUFFICES ASSUME BackfillInit PROVE ScanInv
  OBVIOUS
<1>1. StoreShape
  BY BackfillAssumption DEF BackfillInit, StoreShape
<1>2. WorkerShape
  BY BackfillAssumption DEF BackfillInit, WorkerShape, IdleWorker
<1>3. worker.jobs = {} /\ ExistingMailIsLabelled
  BY DEF BackfillInit, IdleWorker, ExistingMailIsLabelled
<1>. QED BY <1>1, <1>2, <1>3 DEF ScanInv

LEMMA FiniteLists ==
  ASSUME StoreShape, NEW job, NEW m
  PROVE  /\ IsFiniteSet(Unlabeled(job)) /\ IsFiniteSet(Ahead(job, m))
         /\ Cardinality(Ahead(job, m)) \in Nat
<1>1. Unlabeled(job) \subseteq Emails /\ Ahead(job, m) \subseteq Emails
  BY DEF StoreShape, Unlabeled, EmailsOf, Ahead
<1>2. IsFiniteSet(Unlabeled(job)) /\ IsFiniteSet(Ahead(job, m))
  BY <1>1, FS_Subset, BackfillAssumption
<1>. QED BY <1>2, FS_CardinalityType

(* A list that only grows leaves a scan in step. *)
LEMMA ListGrows ==
  ASSUME StoreShape', WorkerShape, NEW job, InStep(job),
         Unlabeled(job) \subseteq Unlabeled(job)', newer \subseteq newer',
         Pending(job)' \subseteq Pending(job), job.label \in labels' => job.label \in labels,
         worker'.pc = worker.pc, worker'.offset = worker.offset, worker'.batch = worker.batch,
         worker'.disturbed = worker.disturbed
  PROVE  InStep(job)'
<1>1. ASSUME NEW m PROVE /\ Cardinality(Ahead(job, m)) \in Nat /\ Cardinality(Ahead(job, m)') \in Nat
                         /\ Cardinality(Ahead(job, m)) <= Cardinality(Ahead(job, m)')
  <2>1. Ahead(job, m)' \subseteq Emails
    BY DEF StoreShape, Unlabeled, EmailsOf, Ahead
  <2>2. IsFiniteSet(Ahead(job, m)') /\ Ahead(job, m) \subseteq Ahead(job, m)'
    BY <2>1, FS_Subset, BackfillAssumption DEF Ahead
  <2>. QED BY <2>2, FS_Subset, FS_CardinalityType
<1>2. worker.offset \in Nat /\ BatchSize \in Nat
  BY BackfillAssumption DEF WorkerShape
<1>. SUFFICES ASSUME ~worker.disturbed, job.label \in labels
              PROVE  /\ worker.pc = "fetch" => Fetching(job)'
                     /\ worker.pc = "label" => Labelling(job)'
  BY DEF InStep
<1>3. CASE worker.pc = "fetch"
  <2>1. Fetching(job)
    BY <1>3 DEF InStep
  <2>. SUFFICES ASSUME NEW m \in Pending(job)' PROVE worker.offset <= Cardinality(Ahead(job, m)')
    BY <1>3 DEF Fetching
  <2>2. worker.offset <= Cardinality(Ahead(job, m))
    BY <2>1 DEF Fetching
  <2>. QED BY <1>1, <1>2, <2>2
<1>4. CASE worker.pc = "label"
  <2>1. Labelling(job)
    BY <1>4 DEF InStep
  <2>2. worker'.batch \subseteq Unlabeled(job)'
    BY <2>1 DEF Labelling
  <2>3. ASSUME NEW m \in Pending(job)' \ worker.batch
        PROVE  /\ Cardinality(worker.batch) = BatchSize
               /\ worker.offset + BatchSize <= Cardinality(Ahead(job, m)')
    <3>1. /\ Cardinality(worker.batch) = BatchSize
          /\ worker.offset + BatchSize <= Cardinality(Ahead(job, m))
      BY <2>1 DEF Labelling
    <3>. QED BY <1>1, <1>2, <3>1
  <2>. QED BY <1>4, <2>2, <2>3 DEF Labelling
<1>. QED BY <1>3, <1>4

(* The page query: what is still to be labelled is not skipped; if it is not in the page
   either, the page is full and all of it, and all that was skipped, is ahead. *)
LEMMA PageInStep ==
  ASSUME StoreShape, WorkerShape, NEW job, Fetching(job), NEW skipped \in SUBSET Unlabeled(job),
         NEW page \in SUBSET (Unlabeled(job) \ skipped), IsPage(job, skipped, page),
         NEW m \in Pending(job) \ page
  PROVE  /\ Cardinality(page) = BatchSize
         /\ worker.offset + BatchSize <= Cardinality(Ahead(job, m))
<1>. DEFINE rest == Unlabeled(job) \ (skipped \cup page)
<1>1. m \in Unlabeled(job) /\ m \in Emails
  BY DEF Pending, Unlabeled, EmailsOf, StoreShape
<1>2. /\ IsFiniteSet(skipped) /\ IsFiniteSet(page) /\ IsFiniteSet(Ahead(job, m))
      /\ Cardinality(Ahead(job, m)) \in Nat
  BY FiniteLists, FS_Subset
<1>3. Cardinality(skipped) \in Nat /\ Cardinality(page) \in Nat /\ worker.offset \in Nat
  BY <1>2, FS_CardinalityType DEF WorkerShape
<1>4. m \notin skipped
  <2>. SUFFICES ASSUME m \in skipped PROVE FALSE
    OBVIOUS
  <2>1. Ahead(job, m) \subseteq skipped \ {m}
    <3>. SUFFICES ASSUME NEW x \in Ahead(job, m) PROVE x \in skipped /\ x # m
      OBVIOUS
    <3>1. x \in Unlabeled(job) /\ <<x, m>> \in newer /\ x \in Emails
      BY DEF Ahead, Unlabeled, EmailsOf, StoreShape
    <3>2. <<m, x>> \notin newer
      BY <1>1, <3>1 DEF StoreShape
    <3>3. x \notin skipped => <<m, x>> \in newer
      BY <3>1 DEF IsPage
    <3>. QED BY <3>1, <3>2, <3>3
  <2>2. IsFiniteSet(skipped \ {m}) /\ Cardinality(skipped \ {m}) = Cardinality(skipped) - 1
    BY <1>2, FS_RemoveElement
  <2>3. Cardinality(Ahead(job, m)) <= Cardinality(skipped) - 1
    BY <2>1, <2>2, FS_Subset
  <2>4. Cardinality(skipped) <= worker.offset /\ worker.offset <= Cardinality(Ahead(job, m))
    BY DEF IsPage, Fetching
  <2>. QED BY <1>2, <1>3, <2>3, <2>4
<1>5. m \in rest
  BY <1>1, <1>4
<1>6. Cardinality(skipped) = worker.offset /\ Cardinality(page) = BatchSize
  BY <1>5 DEF IsPage
<1>7. skipped \cup page \subseteq Ahead(job, m)
  <2>. SUFFICES ASSUME NEW x \in skipped \cup page PROVE <<x, m>> \in newer
    BY DEF Ahead
  <2>. QED BY <1>5 DEF IsPage
<1>8. Cardinality(skipped \cup page) = worker.offset + BatchSize
  <2>1. skipped \cap page = {}
    OBVIOUS
  <2>2. Cardinality(skipped \cup page)
          = Cardinality(skipped) + Cardinality(page) - Cardinality(skipped \cap page)
    BY <1>2, FS_Union
  <2>3. Cardinality(skipped \cap page) = 0
    BY <2>1, FS_EmptySet
  <2>. QED BY <1>3, <1>6, <2>2, <2>3
<1>9. Cardinality(skipped \cup page) <= Cardinality(Ahead(job, m))
  BY <1>2, <1>7, FS_Subset
<1>. QED BY <1>6, <1>8, <1>9

LEMMA OneJob ==
  ASSUME WorkerShape, worker.pc # "idle"
  PROVE  TheJob \in Job /\ worker.jobs = {TheJob}
  BY DEF WorkerShape, TheJob

(* A scan that ends with nothing to be labelled has missed nothing. *)
LEMMA NothingMissed ==
  ASSUME ScanInv, worker.pc # "idle", NEW marks, NEW disturbed \in BOOLEAN, EndJob(marks, disturbed),
         disturbed \/ Missing(TheJob, marks) = {}, UNCHANGED <<store, form, channel>>, faults' \in Nat
  PROVE  ScanInv'
<1>1. \A miss \in missed' : miss.disturbed
  <2>. SUFFICES ASSUME NEW miss \in missed' PROVE miss.disturbed
    OBVIOUS
  <2>1. CASE miss \in missed
    BY <2>1 DEF ScanInv, ExistingMailIsLabelled
  <2>2. CASE miss \in [mail : Missing(TheJob, marks), disturbed : {disturbed}]
    BY <2>2
  <2>. QED BY <2>1, <2>2 DEF EndJob
<1>2. StoreShape'
  BY DEF ScanInv, StoreShape, store
<1>3. WorkerShape' /\ worker'.jobs = {}
  BY DEF ScanInv, WorkerShape, EndJob, IdleWorker, store
<1>. QED BY <1>1, <1>2, <1>3 DEF ScanInv, ExistingMailIsLabelled

LEMMA FetchScan ==
  ASSUME ScanInv, FetchBatch
  PROVE  ScanInv'
<1>1. PICK job \in Job : TheJob = job /\ worker.jobs = {job} /\ worker.pc = "fetch" /\ InStep(job)
  BY OneJob DEF ScanInv, FetchBatch
<1>2. worker.disturbed \in BOOLEAN /\ \A m \in worker.due : Owner[m] = job.tenant
  BY <1>1 DEF ScanInv, WorkerShape
<1>3. UNCHANGED <<store, form, channel, labelled>> /\ faults' \in Nat
  <2>1. faults \in Nat /\ (Succeeds \/ Fault)
    BY DEF FetchBatch, ScanInv, WorkerShape
  <2>2. faults' \in Nat
    BY <2>1 DEF Succeeds, Fault
  <2>. QED BY <2>2 DEF FetchBatch
<1>4. CASE \E d \in {TRUE} : EndJob(labelled, d)
  BY <1>1, <1>3, <1>4, NothingMissed
<1>5. ASSUME NEW skipped \in SUBSET Unlabeled(job), NEW page \in SUBSET (Unlabeled(job) \ skipped),
             IsPage(job, skipped, page), page = {}, EndJob(labelled, worker.disturbed)
      PROVE  ScanInv'
  <2>1. ASSUME ~worker.disturbed, NEW m \in Missing(job, labelled) PROVE FALSE
    <3>1. m \in Pending(job) /\ job.label \in labels
      BY <1>2 DEF Missing, Pending, Unlabeled, EmailsOf
    <3>2. Fetching(job)
      BY <1>1, <2>1, <3>1 DEF InStep
    <3>3. Cardinality(page) = BatchSize
      BY <1>5, <3>1, <3>2, PageInStep DEF ScanInv
    <3>. QED BY <1>5, <3>3, FS_EmptySet, BackfillAssumption
  <2>. QED BY <1>1, <1>2, <1>3, <1>5, <2>1, NothingMissed
<1>6. ASSUME NEW skipped \in SUBSET Unlabeled(job), NEW page \in SUBSET (Unlabeled(job) \ skipped),
             IsPage(job, skipped, page), UNCHANGED missed,
             worker' = [worker EXCEPT !.pc = "label", !.batch = page]
      PROVE  ScanInv'
  <2>1. /\ worker'.pc = "label" /\ worker'.batch = page /\ worker'.offset = worker.offset
        /\ worker'.due = worker.due /\ worker'.jobs = {job}
        /\ worker'.disturbed = worker.disturbed
    BY <1>1, <1>6 DEF ScanInv, WorkerShape
  <2>2. page \in SUBSET Emails
    BY DEF Unlabeled, EmailsOf, ScanInv, StoreShape
  <2>3. StoreShape' /\ WorkerShape' /\ ExistingMailIsLabelled'
    BY <1>1, <1>3, <1>6, <2>1, <2>2 DEF ScanInv, StoreShape, WorkerShape, store, ExistingMailIsLabelled
  <2>4. /\ Unlabeled(job)' = Unlabeled(job) /\ Pending(job)' = Pending(job)
        /\ \A m : Ahead(job, m)' = Ahead(job, m)
    BY <1>3, <2>1 DEF Unlabeled, EmailsOf, Pending, Ahead, store
  <2>5. ASSUME ~worker.disturbed, job.label \in labels PROVE Labelling(job)'
    <3>1. Fetching(job)
      BY <1>1, <2>5 DEF InStep
    <3>2. ASSUME NEW m \in Pending(job) \ page
          PROVE  /\ Cardinality(page) = BatchSize
                 /\ worker.offset + BatchSize <= Cardinality(Ahead(job, m))
      BY <1>6, <3>1, PageInStep DEF ScanInv
    <3>. QED BY <2>1, <2>4, <3>2 DEF Labelling
  <2>6. InStep(job)'
    BY <1>3, <2>1, <2>5 DEF InStep, store
  <2>. QED BY <2>1, <2>3, <2>6 DEF ScanInv
<1>. QED BY <1>1, <1>4, <1>5, <1>6 DEF FetchBatch

(* An undisturbed batch labels all that match, and the offset gives up as many places as
   have left the list. *)
LEMMA LabelScan ==
  ASSUME ScanInv, LabelBatch
  PROVE  ScanInv'
<1>1. PICK job \in Job : TheJob = job /\ worker.jobs = {job} /\ worker.pc = "label" /\ InStep(job)
  BY OneJob DEF ScanInv, LabelBatch
<1>2. PICK left \in SUBSET (worker.batch \ emails) :
        LET count     == Cardinality(worker.batch)
            matched   == Matches(job, left)
            disturbed == worker.disturbed \/ faults' # faults
        IN  /\ Assign(job, matched)
            /\ IF count < BatchSize
               THEN EndJob(labelled', disturbed)
               ELSE /\ worker' = [worker EXCEPT !.pc = "fetch", !.batch = {},
                                    !.offset = NextOffset(@, count, Cardinality(matched)),
                                    !.disturbed = disturbed]
                    /\ UNCHANGED <<active, missed>>
  BY <1>1 DEF LabelBatch
<1>. DEFINE count     == Cardinality(worker.batch)
            matched   == Matches(job, left)
            disturbed == worker.disturbed \/ faults' # faults
<1>3. PICK done \in SUBSET matched :
        /\ \A m \in done : Insertable(job, m)
        /\ disturbed \/ done = matched \/ \E m \in matched : ~Insertable(job, m)
        /\ labelled' = labelled \cup (done \X {job.label})
  <2>1. Assign(job, matched) /\ faults \in Nat
    BY <1>2 DEF ScanInv, WorkerShape
  <2>. QED BY <2>1 DEF Assign, Succeeds, Fault
<1>f. faults' \in Nat
  BY <1>2 DEF Assign, Succeeds, Fault, ScanInv, WorkerShape
<1>4. /\ UNCHANGED <<store, form, channel>> /\ disturbed \in BOOLEAN
      /\ worker \in [pc : {"idle", "fetch", "label"}, jobs : SUBSET Job, offset : Nat,
                     batch : SUBSET Emails, due : SUBSET Emails, disturbed : BOOLEAN]
      /\ \A m \in worker.due : Owner[m] = job.tenant
      /\ StoreShape /\ WorkerShape
  BY <1>1 DEF LabelBatch, ScanInv, WorkerShape
<1>5. /\ IsFiniteSet(worker.batch) /\ IsFiniteSet(matched) /\ count \in Nat
      /\ Cardinality(matched) \in Nat /\ Cardinality(matched) <= count
  <2>1. matched \subseteq worker.batch
    BY DEF Matches
  <2>. QED BY <1>4, <2>1, FS_Subset, FS_CardinalityType, BackfillAssumption
(* what is still to be labelled after the batch was not in it *)
<1>6. ASSUME ~disturbed, job.label \in labels, NEW m \in worker.due \cap emails,
             job.keyword \in contains[m], <<m, job.label>> \notin labelled'
      PROVE  /\ m \in Pending(job) \ worker.batch /\ done = matched
             /\ count = BatchSize /\ worker.offset + BatchSize <= Cardinality(Ahead(job, m))
  <2>1. Labelling(job)
    BY <1>1, <1>6 DEF InStep
  <2>2. worker.batch \subseteq emails
    BY <2>1 DEF Labelling, Unlabeled, EmailsOf
  <2>3. done = matched
    BY <1>3, <1>6, <2>2 DEF Insertable, Matches
  <2>4. m \in Pending(job)
    BY <1>3, <1>4, <1>6 DEF Pending, Unlabeled, EmailsOf
  <2>5. m \notin worker.batch
    BY <1>3, <1>6, <2>3 DEF Matches
  <2>. QED BY <2>1, <2>3, <2>4, <2>5 DEF Labelling
<1>7. CASE count < BatchSize
  <2>1. EndJob(labelled', disturbed)
    BY <1>2, <1>7
  <2>2. disturbed \/ Missing(job, labelled') = {}
    BY <1>5, <1>6, <1>7, BackfillAssumption DEF Missing
  <2>. QED BY <1>1, <1>4, <1>f, <2>1, <2>2, NothingMissed
<1>8. CASE ~(count < BatchSize)
  <2>. DEFINE next == NextOffset(worker.offset, count, Cardinality(matched))
  <2>1. worker' = [worker EXCEPT !.pc = "fetch", !.batch = {}, !.offset = next, !.disturbed = disturbed]
        /\ UNCHANGED missed
    BY <1>2, <1>8
  <2>2. next \in Nat /\ next = worker.offset + (count - Cardinality(matched))
    BY <1>4, <1>5 DEF NextOffset
  <2>. HIDE DEF next, disturbed
  <2>3. /\ worker'.pc = "fetch" /\ worker'.offset = next /\ worker'.due = worker.due
        /\ worker'.jobs = {job} /\ worker'.disturbed = disturbed
    BY <1>1, <1>4, <2>1
  <2>4. StoreShape' /\ WorkerShape' /\ ExistingMailIsLabelled'
    <3>1. StoreShape' /\ ExistingMailIsLabelled'
      BY <1>4, <2>1 DEF ScanInv, StoreShape, store, ExistingMailIsLabelled
    <3>2. worker' \in [pc : {"idle", "fetch", "label"}, jobs : SUBSET Job, offset : Nat,
                       batch : SUBSET Emails, due : SUBSET Emails, disturbed : BOOLEAN]
      BY <1>4, <2>1, <2>2
    <3>3. WorkerShape'
      BY <1>1, <1>4, <1>f, <2>3, <3>2 DEF WorkerShape, store
    <3>. QED BY <3>1, <3>3
  <2>5. ASSUME ~disturbed, job.label \in labels, NEW m \in Pending(job)'
        PROVE  next <= Cardinality(Ahead(job, m)')
    <3>1. /\ m \in worker.due \cap emails /\ job.keyword \in contains[m]
          /\ <<m, job.label>> \notin labelled'
      BY <1>4, <2>3, <2>5 DEF Pending, Unlabeled, EmailsOf, store
    <3>2. /\ done = matched /\ count = BatchSize
          /\ worker.offset + BatchSize <= Cardinality(Ahead(job, m))
      BY <1>6, <2>5, <3>1
    <3>3. Ahead(job, m)' = Ahead(job, m) \ matched
      BY <1>3, <1>4, <3>2 DEF Ahead, Unlabeled, EmailsOf, store
    <3>4. IsFiniteSet(Ahead(job, m)) /\ Cardinality(Ahead(job, m)) \in Nat
      BY <1>4, FiniteLists
    <3>5. /\ Cardinality(Ahead(job, m) \ matched)
              = Cardinality(Ahead(job, m)) - Cardinality(Ahead(job, m) \cap matched)
      BY <3>4, FS_Difference
    <3>6. /\ Cardinality(Ahead(job, m) \cap matched) <= Cardinality(matched)
          /\ Cardinality(Ahead(job, m) \cap matched) \in Nat
      BY <1>5, FS_Intersection, FS_CardinalityType
    <3>. QED BY <1>4, <1>5, <2>2, <3>2, <3>3, <3>4, <3>5, <3>6, BackfillAssumption
  <2>6. InStep(job)'
    BY <1>4, <2>3, <2>5 DEF InStep, Fetching, store
  <2>. QED BY <2>3, <2>4, <2>6 DEF ScanInv
<1>. QED BY <1>7, <1>8

(* The steps of the others keep the shape of the worker and of what it holds. *)
LEMMA OthersScan ==
  ASSUME ScanInv, StoreShape', UNCHANGED <<form, channel, faults, missed>>,
         arriving' \subseteq arriving,
         worker' \in [pc : {"idle", "fetch", "label"}, jobs : SUBSET Job, offset : Nat,
                      batch : SUBSET Emails, due : SUBSET worker.due, disturbed : BOOLEAN],
         worker'.pc = worker.pc, worker'.jobs = worker.jobs,
         \A job \in worker.jobs : worker.pc # "idle" => InStep(job)'
  PROVE  ScanInv'
<1>1. WorkerShape'
  BY DEF ScanInv, WorkerShape
<1>2. \A job \in worker.jobs : InStep(job)'
  BY DEF InStep
<1>. QED BY <1>1, <1>2 DEF ScanInv, ExistingMailIsLabelled

LEMMA ArriveScan ==
  ASSUME ScanInv, NEW m \in Emails, Arrive(m)
  PROVE  ScanInv'
<1>1. StoreShape'
  <2>1. m \notin emails /\ m \in arriving /\ emails \subseteq Emails \ arriving
    BY DEF ScanInv, StoreShape, Arrive
  <2>2. \A x, y \in Emails : <<x, y>> \in newer' => <<y, x>> \notin newer'
    BY <2>1 DEF ScanInv, StoreShape, Arrive
  <2>3. newer' \subseteq (Emails \ arriving') \X (Emails \ arriving')
    BY <2>1 DEF ScanInv, StoreShape, Arrive
  <2>. QED BY <2>1, <2>2, <2>3 DEF ScanInv, StoreShape, Arrive
<1>2. ASSUME NEW job \in worker.jobs PROVE InStep(job)'
  <2>1. Unlabeled(job) \subseteq Unlabeled(job)' /\ newer \subseteq newer'
    BY DEF Arrive, Unlabeled, EmailsOf
  <2>2. m \notin worker.due
    BY DEF Arrive, ScanInv, WorkerShape
  <2>3. Pending(job)' \subseteq Pending(job)
    BY <2>2 DEF Arrive, Pending, Unlabeled, EmailsOf
  <2>4. StoreShape' /\ WorkerShape /\ InStep(job)
    BY <1>1 DEF ScanInv
  <2>5. UNCHANGED <<labels, worker>>
    BY DEF Arrive
  <2>. QED BY <2>1, <2>3, <2>4, <2>5, ListGrows
<1>. QED BY <1>1, <1>2, OthersScan DEF Arrive, ScanInv, WorkerShape

(* Mail that leaves the list of a scan disturbs it. *)
LEMMA LeavesScan ==
  ASSUME ScanInv, NEW m \in emails, NEW listed, Leaves(m, listed), NEW job \in worker.jobs,
         worker.pc # "idle", job.label \notin listed \/ m \notin Unlabeled(job) =>
           Unlabeled(job)' = Unlabeled(job),
         StoreShape', UNCHANGED <<contains, newer, labels>>
  PROVE  InStep(job)'
<1>1. worker.jobs = {job} /\ worker.disturbed \in BOOLEAN
  BY DEF ScanInv, WorkerShape
<1>2. /\ worker'.pc = worker.pc /\ worker'.offset = worker.offset /\ worker'.batch = worker.batch
      /\ worker'.due = worker.due
      /\ worker'.disturbed = (worker.disturbed \/ (job.label \in listed /\ m \in Unlabeled(job)))
  BY <1>1 DEF Leaves, ScanInv, WorkerShape
<1>3. CASE job.label \in listed /\ m \in Unlabeled(job)
  BY <1>2, <1>3 DEF InStep
<1>4. CASE ~(job.label \in listed /\ m \in Unlabeled(job))
  <2>1. Unlabeled(job)' = Unlabeled(job) /\ Pending(job)' \subseteq Pending(job)
    BY <1>2, <1>4 DEF Pending
  <2>2. WorkerShape /\ InStep(job)
    BY DEF ScanInv
  <2>3. worker'.disturbed = worker.disturbed
    BY <1>1, <1>2, <1>4
  <2>. QED BY <1>2, <2>1, <2>2, <2>3, ListGrows
<1>. QED BY <1>3, <1>4

LEMMA LeavingWorker ==
  ASSUME ScanInv, NEW m, NEW listed, Leaves(m, listed)
  PROVE  /\ worker' \in [pc : {"idle", "fetch", "label"}, jobs : SUBSET Job, offset : Nat,
                         batch : SUBSET Emails, due : SUBSET worker.due, disturbed : BOOLEAN]
         /\ worker'.pc = worker.pc /\ worker'.jobs = worker.jobs
  BY DEF ScanInv, WorkerShape, Leaves

LEMMA AssignScan ==
  ASSUME ScanInv, NEW m \in Emails, NEW label \in LabelIds, AssignLabel(m, label)
  PROVE  ScanInv'
<1>1. StoreShape'
  BY DEF AssignLabel, ScanInv, StoreShape, store
<1>2. ASSUME NEW job \in worker.jobs, worker.pc # "idle" PROVE InStep(job)'
  <2>1. job.label \notin {label} \/ m \notin Unlabeled(job) => Unlabeled(job)' = Unlabeled(job)
    BY DEF AssignLabel, Unlabeled, EmailsOf, store
  <2>2. m \in emails /\ Leaves(m, {label}) /\ UNCHANGED <<contains, newer, labels>>
    BY DEF AssignLabel, store
  <2>. QED BY <1>1, <1>2, <2>1, <2>2, LeavesScan
<1>3. Leaves(m, {label}) /\ UNCHANGED <<form, channel, faults, missed, arriving>>
  BY DEF AssignLabel, store
<1>. QED BY <1>1, <1>2, <1>3, LeavingWorker, OthersScan

LEMMA DeleteScan ==
  ASSUME ScanInv, NEW m \in Emails, DeleteMail(m)
  PROVE  ScanInv'
<1>1. StoreShape'
  BY DEF DeleteMail, ScanInv, StoreShape
<1>2. ASSUME NEW job \in worker.jobs, worker.pc # "idle" PROVE InStep(job)'
  <2>1. job.label \in LabelIds
    BY DEF ScanInv, WorkerShape, Job
  <2>2. m \notin Unlabeled(job) => Unlabeled(job)' = Unlabeled(job)
    BY DEF DeleteMail, Unlabeled, EmailsOf
  <2>3. m \in emails /\ Leaves(m, LabelIds) /\ UNCHANGED <<contains, newer, labels>>
    BY DEF DeleteMail
  <2>. QED BY <1>1, <1>2, <2>1, <2>2, <2>3, LeavesScan
<1>3. Leaves(m, LabelIds) /\ UNCHANGED <<form, channel, faults, missed, arriving>>
  BY DEF DeleteMail
<1>. QED BY <1>1, <1>2, <1>3, LeavingWorker, OthersScan

(* A label taken off or deleted makes the list longer. *)
LEMMA RemoveScan ==
  ASSUME ScanInv, NEW m \in Emails, NEW label \in LabelIds, RemoveLabel(m, label)
  PROVE  ScanInv'
<1>1. StoreShape' /\ UNCHANGED <<form, channel, faults, missed, arriving, newer, labels>>
  BY DEF RemoveLabel, ScanInv, StoreShape, store
<1>. DEFINE due == IF \E j \in worker.jobs : j.label = label THEN worker.due \ {m} ELSE worker.due
<1>2. worker' = [worker EXCEPT !.due = due] /\ due \in SUBSET worker.due
  BY DEF RemoveLabel
<1>. HIDE DEF due
<1>3. /\ worker' \in [pc : {"idle", "fetch", "label"}, jobs : SUBSET Job, offset : Nat,
                      batch : SUBSET Emails, due : SUBSET worker.due, disturbed : BOOLEAN]
      /\ worker'.pc = worker.pc /\ worker'.jobs = worker.jobs /\ worker'.offset = worker.offset
      /\ worker'.batch = worker.batch /\ worker'.disturbed = worker.disturbed /\ worker'.due = due
  BY <1>2 DEF ScanInv, WorkerShape
<1>4. ASSUME NEW job \in worker.jobs PROVE InStep(job)'
  <2>1. Unlabeled(job) \subseteq Unlabeled(job)'
    BY DEF RemoveLabel, Unlabeled, EmailsOf, store
  <2>2. Pending(job)' \subseteq Pending(job)
    BY <1>2, <1>3 DEF RemoveLabel, Pending, Unlabeled, EmailsOf, store, due
  <2>3. WorkerShape /\ InStep(job)
    BY DEF ScanInv
  <2>. QED BY <1>1, <1>3, <2>1, <2>2, <2>3, ListGrows
<1>. QED BY <1>1, <1>3, <1>4, OthersScan

LEMMA DropScan ==
  ASSUME ScanInv, NEW label \in LabelIds, DropLabel(label)
  PROVE  ScanInv'
<1>1. StoreShape' /\ UNCHANGED <<form, channel, faults, missed, arriving, newer, worker>>
  BY DEF DropLabel, ScanInv, StoreShape
<1>2. ASSUME NEW job \in worker.jobs PROVE InStep(job)'
  <2>1. CASE job.label = label
    BY <2>1 DEF DropLabel, InStep
  <2>2. CASE job.label # label
    <3>1. Unlabeled(job)' = Unlabeled(job) /\ Pending(job)' = Pending(job)
      BY <2>2 DEF DropLabel, Unlabeled, EmailsOf, Pending
    <3>2. WorkerShape /\ InStep(job) /\ (job.label \in labels' => job.label \in labels)
      BY DEF ScanInv, DropLabel
    <3>. QED BY <1>1, <3>1, <3>2, ListGrows
  <2>. QED BY <2>1, <2>2
<1>. QED BY <1>1, <1>2, OthersScan DEF ScanInv, WorkerShape

(* Forms and the channel hold jobs; a scan starts with nothing to skip. *)
LEMMA SubmitScan ==
  ASSUME ScanInv, NEW t \in Tenants,
         (\E jobs \in Forms[t] : SendForm(t, jobs)) \/ SubmitKeyword(t)
  PROVE  ScanInv'
<1>1. form' \in [Tenants -> Seq(Job)] /\ channel' \in Seq(Job)
  <2>1. form \in [Tenants -> Seq(Job)] /\ channel \in Seq(Job)
    BY DEF ScanInv, WorkerShape
  <2>2. CASE \E jobs \in Forms[t] : SendForm(t, jobs)
    <3>1. PICK jobs \in Forms[t] : form' = [form EXCEPT ![t] = jobs] /\ channel' = channel
      BY <2>2 DEF SendForm
    <3>2. jobs \in Seq(Job)
      BY BackfillAssumption
    <3>3. form' \in [Tenants -> Seq(Job)]
      BY <2>1, <3>1, <3>2, Zenon
    <3>. QED BY <2>1, <3>1, <3>3
  <2>3. CASE SubmitKeyword(t)
    <3>1. form[t] \in Seq(Job) /\ form[t] # <<>>
      BY <2>1, <2>3 DEF SubmitKeyword
    <3>2. Head(form[t]) \in Job /\ Tail(form[t]) \in Seq(Job)
      BY <3>1
    <3>3. channel' = channel \/ channel' = Append(channel, Head(form[t]))
      BY <2>3 DEF SubmitKeyword, Submit
    <3>4. form' = [form EXCEPT ![t] = Tail(form[t])]
      BY <2>3 DEF SubmitKeyword
    <3>5. form' \in [Tenants -> Seq(Job)]
      BY <2>1, <3>2, <3>4, Zenon
    <3>6. channel' \in Seq(Job)
      BY <2>1, <3>2, <3>3
    <3>. QED BY <3>5, <3>6
  <2>. QED BY <2>2, <2>3
<1>2. UNCHANGED <<store, labelled, worker, faults, missed>>
  BY DEF SendForm, SubmitKeyword
<1>3. StoreShape' /\ WorkerShape' /\ ExistingMailIsLabelled'
  BY <1>1, <1>2 DEF ScanInv, StoreShape, WorkerShape, store, ExistingMailIsLabelled
<1>4. ASSUME NEW job \in worker.jobs PROVE InStep(job)'
  BY <1>2 DEF ScanInv, InStep, Fetching, Labelling, Pending, Ahead, Unlabeled, EmailsOf, store
<1>. QED BY <1>2, <1>3, <1>4 DEF ScanInv

LEMMA ReceiveScan ==
  ASSUME ScanInv, Receive
  PROVE  ScanInv'
<1>1. PICK job \in Job : job = Head(channel)
  BY DEF Receive, ScanInv, WorkerShape
<1>2. /\ worker' = [pc |-> "fetch", jobs |-> {job}, offset |-> 0, batch |-> {},
                    due |-> EmailsOf(job.tenant), disturbed |-> FALSE]
      /\ channel' \in Seq(Job) /\ UNCHANGED <<store, labelled, form, faults, missed>>
  BY <1>1 DEF Receive, ScanInv, WorkerShape
<1>3. StoreShape' /\ ExistingMailIsLabelled'
  BY <1>2 DEF ScanInv, StoreShape, store, ExistingMailIsLabelled
<1>4. EmailsOf(job.tenant) \in SUBSET Emails /\ EmailsOf(job.tenant) \cap arriving = {}
  BY DEF EmailsOf, ScanInv, StoreShape
<1>5. WorkerShape'
  <2>1. \A m \in EmailsOf(job.tenant) : Owner[m] = job.tenant
    BY DEF EmailsOf
  <2>. QED BY <1>2, <1>4, <2>1 DEF ScanInv, WorkerShape, store
<1>6. InStep(job)'
  <2>1. \A m : Cardinality(Ahead(job, m)') \in Nat
    <3>. SUFFICES ASSUME NEW m PROVE Cardinality(Ahead(job, m)') \in Nat
      OBVIOUS
    <3>1. Ahead(job, m)' = Ahead(job, m)
      BY <1>2 DEF Ahead, Unlabeled, EmailsOf, store
    <3>. QED BY <3>1, FiniteLists DEF ScanInv
  <2>. QED BY <1>2, <2>1 DEF InStep, Fetching
<1>. QED BY <1>2, <1>3, <1>5, <1>6 DEF ScanInv

LEMMA ScanStep == ScanInv /\ [BackfillNext]_backfillVars => ScanInv'
<1>. SUFFICES ASSUME ScanInv, [BackfillNext]_backfillVars PROVE ScanInv'
  OBVIOUS
<1>1. CASE UNCHANGED backfillVars
  <2>1. StoreShape' /\ WorkerShape' /\ ExistingMailIsLabelled'
    BY <1>1 DEF backfillVars, store, ScanInv, StoreShape, WorkerShape, ExistingMailIsLabelled
  <2>2. \A job \in worker.jobs : InStep(job)'
    BY <1>1 DEF backfillVars, store, ScanInv, InStep, Fetching, Labelling, Pending, Ahead, Unlabeled, EmailsOf
  <2>. QED BY <1>1, <2>1, <2>2 DEF ScanInv, backfillVars
<1>2. CASE \E t \in Tenants : (\E jobs \in Forms[t] : SendForm(t, jobs)) \/ SubmitKeyword(t)
  BY <1>2, SubmitScan
<1>3. CASE Worker
  BY <1>3, ReceiveScan, FetchScan, LabelScan DEF Worker
<1>4. CASE \E m \in Emails : Arrive(m) \/ DeleteMail(m)
  BY <1>4, ArriveScan, DeleteScan
<1>5. CASE \E m \in Emails, label \in LabelIds : AssignLabel(m, label) \/ RemoveLabel(m, label)
  BY <1>5, AssignScan, RemoveScan
<1>6. CASE \E label \in LabelIds : DropLabel(label)
  BY <1>6, DropScan
<1>. QED BY <1>1, <1>2, <1>3, <1>4, <1>5, <1>6 DEF BackfillNext

(* process_job: whatever the size of the batches and the number of mails, a scan that no
   failing statement and no other hand has disturbed labels every mail with the keyword
   that was there from its start to its end. *)
THEOREM ScansMissNothing == BackfillSpec => []ExistingMailIsLabelled
<1>1. ScanInv => ExistingMailIsLabelled
  BY DEF ScanInv
<1>. QED BY <1>1, ScanStarts, ScanStep, PTL DEF BackfillSpec

=============================================================================
