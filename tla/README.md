# Maileroo in TLA+

Maileroo is a self-hosted mail alias server: it receives mail for aliases over SMTP,
stores it, labels and forwards it, relays replies under the alias, and lets its users
write mail in the browser. This directory holds TLA+ models of the parts whose
correctness depends on the order of things: several requests, sessions, tasks and
nodes at work on the same rows and files, commands in any order, crashes and failing
statements between two steps. TLC checks them on small instances; TLAPS proves the
most important properties for every instance.

    tlc -config QueueSafety.cfg MCOutboundQueue
    tlapm OutboundQueueProofs.tla

`PROJECT.json` lists the runs, the source lines behind every definition, the hazards and
the theorems. Source paths below are relative to the crate's `src/`, unless they begin
with `README.md` or `docs/`.

## 1. Inventory

| Component | State it keeps | Operations | Hard about it |
|---|---|---|---|
| Outbound queue (`outbound/queue.rs`, `db/queue.rs`) | table `outbound_queue`, bodies in `storage/outbound` | `enqueue_job`, `process_queue_tick`, `start_queue_daemon` | crash between file and row, fetch and lock as two statements, several nodes, a delivery that never returns |
| SMTP client (`outbound/mod.rs`, `relay.rs`) | one connection | `send_raw`, `deliver_once`, `send_raw_inner`, `send_via_relay` | a lost reply after the message was taken; errors classified by their text; when credentials may go out |
| Inbound session (`inbound/protocol.rs`) | state, envelope, body buffer | one handler per command, `RSET`, `STARTTLS`, end of data | what survives from one mail of a session to the next; a buffer that moves to disk and is consumed in stages |
| Inbound server (`inbound/mod.rs`, `rate_limit.rs`, `blocklist.rs`) | failure counters, blocked addresses, block file | accept, record a failure, tarpit, block, cleanup | sessions of one address in parallel, cleanup in between, restart |
| Compose (`web/send_email.rs`, `db/sent_emails.rs`, `web/dashboard.rs`) | table `sent_emails`, `<key>` and `<key>.eml` files | save a draft, send, delete | auto-save, send and delete of the same form overlap; every step may fail; files are removed by detached tasks |
| DKIM rotation (`web/dkim.rs`, `db/domains.rs`) | active and pending key of a domain | rotate, verify, cancel | verify waits for DNS between reading and promoting |
| Filter engine (`filter.rs`, `web/labels.rs`, `db/labels.rs`) | rules, cache of compiled rules | evaluate, create and delete rules and labels, invalidate | a cache filled with what was read before an edit |
| Backfill (`filter.rs`) | active tenants, channel, one worker | submit, scan in batches | an offset into a list that changes; a full channel; failing inserts |
| TLS acceptor (`inbound/acceptor.rs`) | loaded configuration, modification time | start, poll, reload | two files read one after the other while a tool rewrites them; a time remembered before the reload has worked |
| Received mail (`db/mod.rs`, `db/attachments.rs`, `server.rs`, `web/mod.rs`, `web/replies.rs`) | `received_emails`, `email_replies`, attachments, `.eml` files | insert, thread lookup, open, star, delete, reply, retention | rows and files removed in separate steps; threads looked up in several statements |
| Folders and paging (`db/mod.rs`, `db/sent_emails.rs`, `web/dashboard.rs`, `web/api.rs`) | none of its own | list, count, follow the links | list and count are separate queries over tables that change |
| Mail building and parsing (`outbound/mime.rs`, `web/attachments_form.rs`, `inbound/parser.rs`) | none | build, forward, relay, download a part | parts numbered in one place and found in another; three limits in one loop |
| SRS, SPF (`outbound/srs.rs`, `dns.rs`) | none | encode, decode, evaluate | time modulo a period, prefix lengths, records that include each other |
| Accounts (`web/auth.rs`, `web/session.rs`, `web/api_auth.rs`, `web/alias_api.rs`, `db/aliases.rs`, `db/reply_mappings.rs`, ...) | users, sessions, tokens, API keys, domains, aliases, reply mappings | log in and out, create and delete aliases, forward | limits checked before an insert; requests in flight across a login; two tasks making the same mapping |

How they interact. A session that stores a mail calls the filter engine and hands the
mail to the outbound service; a reply goes to the outbound service as well, and so does
everything that is composed. The outbound service tries once and falls back to the
queue, whose daemon tries again with the same client. Web handlers change the rules
the filter engine caches and submit backfill jobs, which label mail sessions have
stored. Sessions share the rate limiter and the blocklist. Everything goes through
the database and the storage directory; there are no locks or transactions around
several of these steps.

What makes them correct: mail that was accepted is delivered, failed visibly or still
there; it is filed under the right alias and kept whole; a reply is sent for its owner
only; a message is tried a bounded number of times; what a user was told about a
message is what the tables say; signatures verify all the time; rules that are in
force are the ones the user sees; and the single workers everybody waits for go on.

## 2. The modules and the code

A step of a model ends where the code awaits the database, the disk, the network or
another task, because that is where something else can happen. A statement that
fails may or may not have taken effect. Faults are paid for from a budget, and where
there are several kinds `FaultKinds` says which an instance may spend it on.

**OutboundQueue** models `send_raw` with `enqueue_job` (`FirstTry`, `WriteFile`,
`InsertRow`, `Rollback`) and one daemon per node (`Fetch`, `LockJob`, `ReadFile`,
`Deliver`, `RecordResult`, `RemoveFile`). `jobs` is the table, `files` the bodies,
`worker[n].batch` the rows a daemon has fetched: it goes on working from these
snapshots. `Crash` restarts a node. Time is relative: `due` is `next_retry_at` minus
now in minutes, `Tick` lowers it. `Outcomes` is all the queue knows of a delivery, and
SmtpDialogue justifies it (`ResultMatchesServer`). **MailPromise** is the abstract
specification: a message is submitted, then queued, delivered, failed or refused; fates
only move forward, only open messages are transmitted, and only a message some server
took is reported delivered. `Fate` is the refinement mapping, `KeepsPromise` says that the
queue implements MailPromise under it.

**SmtpDialogue** is one delivery attempt, command by command, with an MX or a relay;
the remote server answers with any code or breaks off. It ends in `ok`, `permanent`
or `transient` as `is_permanent_delivery_error` would say. Of an error text it keeps
what the classification can see: the code, whether the rest of the reply has one of
the four numbers, whether the quoted address has.

**InboundSession** is `SmtpSession::handle` with one action per command and per way
a body can end. `destination` stands for `destination_email` and `auto_forward`, which
are always set together. `buffer` is the `SmartBodyBuffer`; `held` says how many of its
last lines are still in the `BufWriter`. `rcpt` and `typed` only record what the client
was told and what it sent, so that properties can speak of them.

**InboundGuard** is what survives a session: `record_failure`, the two thresholds,
`add_ip` with its file, the cleanup task and a restart. Time is counted in cleanup
periods. CIDR arithmetic is abstracted to the set `Listed`.

**Compose** models `send_firsthand_email`, `save_draft_handler` and
`perform_smart_delete` as requests that run in steps. `spawned` are the file removals
handed to `tokio::spawn`. `answers` and `saved` record what the user was told and what
was last saved. `raced` records the rows on which a request did its step between two steps
of another: an update between a send's upsert and its mark, or a draft's file written
between another save's file and row.

**DkimRotation** models the three handlers over the row; `dns` is the zone, which the
administrator edits by what the dialog shows (`Publish`, external). `raced` records that a
verify has promoted another pending key than the one it had looked up, or that a rotate has
written a selector that had become the active one since it read the row.

**FilterCache** models one user's rules, the handlers that edit them and then call
`invalidate`, and `evaluate` with its read, await and insert. `exposed` records
that an edit was made inside that window.

**Backfill** models the form, `submit`, the channel and the worker's paged scan, while
mail arrives, sessions and users label mail, users take labels off, and mail and labels are
deleted. `newer` is the order of `received_at`; a page is any split of the unlabelled mail
into what is skipped, the page and the rest that `ORDER BY`, `LIMIT` and `OFFSET` allow.
`missed` records what a finished scan should have labelled, and whether it was disturbed:
a statement failed, or mail left the list it counts in by another hand.

**MailStore** holds the rows of `received_emails` and `email_replies`, the attachment rows and
the file names in the storage directory. Mail arrives in the steps of `handle_body_line` at
the final dot (write the file, look for the thread by the mails it refers to and then by the
replies, insert, mark the root unread); page views, stars, deletions, replies, alias deletions
and the daily retention task run in between; a restart loses what was in memory. `UserOf` and
`Author` say whose an alias and a reply is; the thread lookup does not ask, so a mail may be
filed under another user's root. `known`, `shown` and `answered` are history: what a mail
referred to that was on record when it arrived, what a user was shown and what was reported
sent.

**HotReload** is the start of the SMTP server and the watcher of `acceptor.rs` against a
tool that renews certificate and key. A pair is its version; a write truncates a file and
completes it later. The tool writes two files, key first, or one file that holds both
(AUTO_TLS). `overtaken` records that the certificate changed between the first load and the
watcher's first look at the time: that renewal is not noticed until the next one.

**Accounts** models users with their permissions, the session store, the cookies of a
browser, API keys, domains, aliases with their limit and reply mappings. A request carries
the cookies its browser had when it was sent and then goes through the checks and the
handler in steps; responses reach the browser in any order. A login has a number that
stands for its session id and its CSRF token.

**Listing** is a reader who goes through a folder page by page, each page a list query and a
count query with their own WHERE clauses, while mail arrives, moves and disappears. **Mime**
builds mail from uploads, parses it into its parts and finds them by the recorded index; mail
is the sequence of its structural lines. **Spf** is `check_spf_for_domain` as a loop with one
lookup per step: `check` holds the stack of domains, those already fetched and their number; a
term has the qualifier it was written with, which the code strips. **Srs**, **Wire** (dot
stuffing at the client, unstuffing at the server) and **Keywords** (the automaton of
`filter.rs`, which reports a match as soon as one ends and goes on behind it) are pure
operators. Their loops over a sequence are written with the two operators of
**SequenceFolds**, as recursive functions, which can be reasoned about. **Algorithms** puts
them under one specification: a behaviour draws one input for one algorithm, or runs one SPF
check, or reads a folder; its invariants compare each with a reference definition.
**MCAlgorithms** holds the inputs.

## 3. The runs

| Run | Instance | What it shows |
|---|---|---|
| `queue_safety` | 1 node, 2 messages, batches of 1, 3 attempts, 2 faults of any kind | accepted mail is kept, the budget holds in the table and on the wire, the queue implements `MailPromise` (failed is final); in behaviours without faults every job settles |
| `dialogue_safety` | every configuration, 4 kinds of envelope, 6 codes | Ok means taken; repeats only from the last two commands; credentials only as configured |
| `session_safety` | 2 mails of up to 3 lines, 2 senders, 2 aliases, 1 mapping | no panic, right file, whole body, authorized relay |
| `guard_safety` | 3 addresses, one of them in a listed subnet, 2 sessions, 1 failing write, 2 restarts | recent failures are never forgotten; a block that is not on file is one whose write failed |
| `compose_safety` | 2 overlapping requests, 2 texts, 1 fault, file removals at any time | settled rows are frozen and have their mail, reported success is on record; while nothing fails a draft opens with the text last saved; all but the frozen rows with the exceptions of `raced` |
| `dkim_safety` | 2 overlapping requests, 4 rotations | signatures verify and selectors never collide, with the exceptions of `raced` |
| `filter_current` | 2 rules, 2 edits, 3 mails | the cache is empty or current outside one window |
| `backfill_scan` | 2 users, a channel with 1 place, 2 mails and one arriving, batches of 2, 2 faults, 1 label put on or taken off or mail or label deleted, every pattern of matches | an undisturbed scan misses no mail; every user whose job got into the channel is released if labels exist while they are scanned for |
| `mail_store` | 2 users, 3 mails, one of them there before, that refer to each other and to 1 reply, 2 requests, 2 uses, 1 fault or restart, the retention task | mail has its file and its attachments, replies reported sent are kept, every mail is reached from an inbox, its own user's if references do not cross users, conversations stay together, read means shown, retention spares what is starred or kept, unless it is filed under another user's root |
| `hot_reload` | two files (key first) or one, 3 renewals, 2 starts | certificate and key in use belong together; a complete pair is served in the end |
| `accounts` | 2 users, 1 browser, 2 requests, 2 forwarding tasks, 2 aliases, 3 names of which 1 is reserved, limit 1, 2 logins, 4 uses, 1 fault or restart | a request acts for who sent it, overlapping creations pass the limit by at most their number, reply tokens keep their meaning |
| `algorithms` | inputs up to the bounds below; folders of 2 rows, pages of 1, 2 changes, 1 failing query | paging shows the folder; built mail parses back; uploads are let through by the limits and found again; embedded parts are found; SRS, SPF, stuffing and labelling agree with their references |

### Bounds

Two messages are enough for jobs to compete for a batch; three attempts give a first, a middle
and a last failure, and two faults a crash on top of a failed statement. `OverdueCap` bounds
how overdue a job counts: only the order of overdue jobs matters, and with 10 it is kept for
one backoff step. Lines of 1 and 3 bytes with limits of 3 and 6 meet every case of the buffer:
fits in memory, spills, bypasses the writer, is held back by it, is refused. Two mails are
enough to see what the first leaves for the second. `MaxAge` 2 stands for the six cleanup
periods of an hour. In Compose two requests are all that a form has at once (its auto-save and
a send or a delete), or two windows with it; three keys allow a draft, its send and one stray
save. `Capacity`, `BatchSize` and the thresholds are scaled down from 100, 50 and the
configured numbers; the code treats them as parameters. With batches of two over up to three
mails a scan has full batches and a last one, and uses its offset. The channel has one place
for two users, so that one user's job is dropped while the other's is waiting. With several
nodes the queue is covered by the theorems.

In MailStore the second mail answers the first and the third a reply, which may have been
written to either: both lookups are needed, and a reply to a child leads to its root. The
first two came to the administrator, who wrote the reply, and the third to another user: its
thread is the administrator's, and either may turn automatic cleaning off. In Accounts one
browser is enough: what matters is a request that was sent under an earlier login. Two names
that are not reserved let one user get two aliases, one above the limit. HotReload needs three
renewals for one to be half read while the next is written. In `algorithms` the page size of
10, the limits of 10 files, 10 MB and 25 MB, the 10 lookups of SPF and the widths of 32 and
128 bits are scaled down (to 1, to 2, 2 and 3, to 2, to 3); the code uses them as parameters.
SRS has the real period of 1024 days and age of 21, and every age of an address is tried.
Bodies are all sequences of up to 5 of dot, CR, LF and another byte, texts all of up to 4
letters, uploads up to 3 fields in chunks, mails up to 3 attachments, received mails up to 2
parts, SPF policies every combination of 17 records over 3 domains.

Sessions, requests, dialogues and inputs end, so runs over them do not check for deadlock;
the queue, the guard, the filter cache, the backfill and the mail store never stop.

### Fairness

`queue_safety` assumes for `EveryJobSettles` that a started `enqueue_job` goes on, that each
node's daemon goes on (its loop waits on an interval and handles every error) and that the
clock advances; that a remote server answers or breaks off is what having no `hang` fault
means, and the property speaks of behaviours without faults. `backfill_scan` assumes that
the worker task is scheduled, `hot_reload` that the start and the watcher's timer go on while
the process runs. Nothing is assumed of users, clients, the renewal tool or other requests.

## 4. What the code does not keep

The modules also state what comments and documents say of the code and what it does not
do. Putting the property in place of those of the configuration, with the changes in the
last column, shows the behaviour.

| Property | What happens instead | Configuration |
|---|---|---|
| `KeepsPromise`, several nodes | `outbound/queue.rs:73`: a daemon sets a job another node has failed back to sending ("A second tick must not resurrect it", `docs/fix-outbound-retry-loop.md:381`) | `QueueSafety`: two nodes, one message, 2 attempts, `OverdueCap` 0, no faults |
| `NoParallelDelivery` | `outbound/queue.rs:73`: two nodes fetch a job before either locks it, and both deliver it ("Lock job state to 'sending' to prevent parallel worker pick-up", line 72; "multi-node PostgreSQL clusters", `README.md:31`) | the same |
| `EveryJobSettles`, with crashes | `db/queue.rs:60`: a crash after the lock leaves the job in sending, which no query selects | `QueueSafety`, one crash, without the condition on faults |
| `DaemonKeepsTicking` | `outbound/queue.rs:118`: a silent server blocks the daemon ("checking the queue on a periodic interval", line 185) | `QueueSafety`, one hang |
| `SoftFailuresAreRetried` | `outbound/mod.rs:594`: a 4xx is permanent when 550, 554, 552 or 501 occurs in its text or the address ("everything else is transient", lines 591-593) | `DialogueSafety` |
| `HardFailuresAreFinal` | same place: 553, 535 and others are retried ("Permanent = hard 5xx", line 592) | `DialogueSafety` |
| `ForwardIsWhole` | `inbound/protocol.rs:638`: a mail that was buffered on disk is forwarded empty, its file has been moved away | `SessionSafety` |
| `MetadataSeesFullFile` | `inbound/protocol.rs:185`: the file is read before its writer is flushed ("Take the full file because we need to parse attachments") | `SessionSafety` |
| `OnlyRepliesAreRelayed` | `inbound/protocol.rs:573`: the reply mapping of an earlier mail is still set, so a mail to an alias is relayed as a reply ("Reset for next email") | `SessionSafety` |
| `CountsOnlyRecent` | `inbound/rate_limit.rs:55`: failures of any age count as long as new ones keep coming ("the total number of recent failures", line 54) | `GuardSafety` |
| `NoOrphanedDrafts` | `web/send_email.rs:598`: an auto-save of a deleted draft leaves a file behind (lines 594-595 want to prevent that) | `ComposeSafety`, no faults |
| `EverySendIsRecorded` | `web/send_email.rs:380`: a second send of a form goes out and is on no record ("sends it, records the outcome", lines 273-274) | `ComposeSafety`, no faults |
| `DatabaseFailureMeansSent` | `web/send_email.rs:300`: a failed alias lookup, before the send, gives the answer reserved for after it (line 553) | `ComposeSafety` |
| `ZeroDowntime` | `db/domains.rs:281`: cancel, or a second verify, during verify's DNS lookup leaves nothing pending, and the promotion makes the active key empty ("Rotate DKIM selectors and keys dynamically with zero downtime.", `README.md:25`) | `DkimSafety` |
| `InvalidationHolds` | `filter.rs:147`: rules read before an edit are cached after its invalidation | `FilterCacheCurrent` |
| `ActiveIsQueued` | `filter.rs:229`: a job that does not fit is dropped and its user stays marked ("Returns true if successfully queued", line 226) | `BackfillScan` |
| `NothingIsMissed` | `filter.rs:293`: a mail before the offset that is labelled by its user, or by the session that has stored it, or deleted, moves mail that was not looked at before the offset, and the scan never sees it | `BackfillScan`, `Changes = {"assign"}`, no faults |
| `EveryJobIsTaken` | `filter.rs:293`: a label deleted during its scan makes a full matching batch repeat for ever; the worker takes no other job | `BackfillScan` |
| `RetentionTakesOnlyOldMail` | `server.rs:213`: deleting an old root deletes the recent mail of its thread ("cleanup for emails older than {} days") | `MailStoreSafety`, as a PROPERTY |
| `BodiesBelongToMail` | `server.rs:216`: retention removes `<key>` where the file is `<key>.eml`; the files of expired mail stay | `MailStoreSafety` |
| `OwnDashboard` | `db/mod.rs:709`: the thread is looked up without asking whose mail is found, so mail that answers another user's is filed under a root that only that user's dashboard lists | `MailStoreSafety` |
| `KeepersLoseNothing` | same place: with that root its retention deletes the mail of a user who has turned automatic cleaning off | `MailStoreSafety`, as a PROPERTY |
| `RenewalIsServed`, certificate first | `inbound/acceptor.rs:69`: a reload between the two writes fails, and the key's write does not change the time that is watched | `HotReloadSafety`, `Orders = {"cert_first"}` |
| `SpfHonoursQualifiers` | `dns.rs:217`: the qualifier of a term is stripped, so `-ip4:` authorizes like `ip4:` ("RFC 7208 compliant", line 194; "under RFC 7208", line 295) | `AlgorithmsChecked` |
| `EveryKeywordLabels` | `filter.rs:117`: `find_iter` goes on behind a match, so a keyword that overlaps another is not seen | `AlgorithmsChecked` |
| `ForwardKeepsTypes` | `outbound/mime.rs:264`: of a part's type only `ctype()` is kept, `image/png` is forwarded as `image` | `AlgorithmsChecked` |
| `ApiLimitsHold` | `web/api.rs:162`: the loop of the API has no limit for a single file ("enforcing the shared attachment limits") | `AlgorithmsChecked` |
| `EveryMailIsListed` | `db/sent_emails.rs`: a mail that is being sent or has failed is in no folder, unless it is starred | `AlgorithmsChecked` |

More follows from the models without a property of its own:

- Of a comma-separated list of keywords only the first is applied to existing mail: `submit`
  refuses the others while the first is active, and `web/labels.rs:203` ignores it. A mail
  deleted during a scan shifts the offset past another, which is why
  `ExistingMailIsLabelled` excludes deletions; likewise `PagingMissesNothing`.
- A renewal between the first load of the certificate and the watcher's first look at its
  time is not noticed (`overtaken`); an error in the first load ends the start.
- An error while a login replaces the session id is ignored and the login goes on under the
  old id, which is why `ActsForItsSender` is for behaviours without faults. Alias creations
  that overlap exceed the limit; `AliasLimit` says by how much.
- Two mails of a conversation that arrive together may each become a root. Of References
  only the last is looked up; the label filter looks at the labels of the root only.
- Two overlaps of requests on one form cost it its text (`raced` of Compose): after a send's
  upsert and before its mark, an auto-save or a second send puts another body key on the row,
  which is then marked as sent with a mail that is not the one that went out, or has no file;
  and of two auto-saves, the second's text may be in the file and the first's be the last save
  that is reported.
- Two overlaps do the same to DKIM (`raced` of DkimRotation): besides `ZeroDowntime`, a rotate
  that has read the row before a verify promotes writes its new key as pending under what is
  by then the active selector, and publishing it replaces the record of the key in use.
- An upload that breaks off is taken for one that ended: `web/attachments_form.rs:138` and
  150 leave their loops on an error, and a truncated file is sent and recorded like a whole
  one. The uploads of Mime are what got through.
- The certificate `RenewalIsServed` is about is the one of the SMTP server. The web server with
  certificates of its own keeps the configuration of its start (`web/mod.rs:671`).
- An SRS address is good again after 1024 days. Its hash is over the sender as written, while
  recipients are lowercased.
- A failing count shows a folder as having one page, a failing list of sent mail as empty.

## 5. What is proved

| Theorem | Says | For | Rests on |
|---|---|---|---|
| `OutboundQueueProofs!TypeCorrect`, `AcceptedMailIsKept`, `RetryBudget` | `TypeOK`, `UndeliveredIsKept`, `AttemptsBounded` | any nodes, messages, faults | `IndInv` |
| `OutboundQueueProofs!OneNodeStaysInBudget`, `OneNodeKeepsPromise` | `TriesWithinBudget`; the queue implements `MailPromise` | one node, any messages and faults | `IndInv`, `RowInv`, `BatchInv` |
| `TransportProofs!AttemptReportsTheServer`, `PasswordIsProtected` | `ResultMatchesServer`, `CredentialsProtected` | any envelopes and codes | `DialogueInv` |
| `TransportProofs!ServedPairIsOne`, `WatcherSeesRenewals` | `ServedPairMatches`; the safety part of `RenewalIsServed` | any renewals and starts | `ReloadInv` |
| `InboundSessionProofs!SessionNeverPanics`, `MailFiledUnderRecipient`, `RepliesAreAuthorized` | `NeverPanics`, `FiledUnderRecipient`, `RelayIsAuthorized` | any session | `SessionInv` |
| `InboundSessionProofs!BodiesAreWhole` | `WholeBodyKept` | any lines, lengths and limits | `BodyInv` |
| `InboundSessionProofs!RecentFailuresCount`, `BlocksSurviveRestarts` | `NeverUndercounts`, `BlocksAreOnFile` of InboundGuard | any addresses, sessions, restarts | `GuardInv` |
| `MailStoreProofs!StoredMailIsComplete`, `ReadThreadsWereShown` | `MailIsComplete`, `ReadMeansShown` | any users, mails, requests, faults | `Invariance` |
| `MailStoreProofs!MailIsReachable`, `RetentionIsSparing` | `EveryMailIsReachable`, the action property `RetentionSparesKeptMail` | as above, any references, across users too | `Invariance`, `ThreadsHaveOneOwner` |
| `MailStoreProofs!ConversationsAreJoined` | `ConversationsStayTogether` | as above, if `NamesOneMessage` | `Invariance` |
| `AccountsProofs!RequestsActForTheirSender`, `AliasesAreLimited`, `TokensAreStable` | `ActsForItsSender`, `AliasLimit`, `TokensKeepTheirMeaning` | any users, browsers, requests, aliases | `IndInv` |
| `ComposeProofs!SettledStaysFrozen` | the action property `SettledIsFrozen` | any overlapping requests and faults | `RowsInv` |
| `ComposeProofs!TextsAreKept`, `SuccessIsOnRecord` | `RowsHaveTheirText`, `SentIsOnRecord` | any overlapping requests and faults, with the exceptions of `raced` | `TextsInv` |
| `TransportProofs!RotationKeepsSignatures`, `RotationUsesOtherSelector` | `SignaturesVerify`, `PendingElsewhere` | any overlapping requests and rotations, with the exceptions of `raced` | `RotationInv` |
| `FilterCacheProofs!CacheStaysCurrent` | `CacheIsCurrent` | any rules, edits, mails | `CacheInv` |
| `FilterCacheProofs!ScansMissNothing` | `ExistingMailIsLabelled` | any mail, labels, jobs, size of the batches | `ScanInv` |
| `AlgorithmsProofs!AlgorithmsInvariance` | `AlgorithmsInv` is inductive | any constants | its three parts below |
| `AlgorithmsProofs!PagingIsComplete` | `PagingMissesNothing` | any mailbox, page size, changes and faults | `ListingInv` |
| `AlgorithmsProofs!SpfFollowsTheRecords` | `SpfAnswers` | any zone, even an infinite one, any width and limit | `SpfInv`, `MatchIsInBlock` |
| `AlgorithmsProofs!MailIsReadBack`, `EmbeddedPartsServed` | `MimeRoundTrip`, `EmbeddedPartsAreFound` | any number of parts | `MailParsed`, `RoundTrip` |
| `AlgorithmsProofs!UploadsComeBack` | `UploadsAreDownloaded` | any files, chunks and limits | `FormRead`, `ApiDecoded` |
| `AlgorithmsProofs!BodiesSurvive` | `BodySurvivesTransport` | bodies of any length | `AlwaysInStep` |
| `AlgorithmsProofs!FiltersLabelRightly` | `LabelsMatchKeywords` | any rules and texts | `FindAtStep`, `Compiled` |
| `AlgorithmsProofs!SrsIsGoodForItsTime`, `SrsAddressesExpire` | `GoodForMaxAge`, and with it `SrsExpires` | any sender, any day | `DaysLater`, `AgeIsTheDaysPassed` |

Every inductive invariant was checked by TLC on the instance of its run (with batches of two
for the queue) before it was proved.

### The hypotheses

The assumptions on constants (`ConstantsAssumption`, `SessionAssumption`, ...) are in the
modules that declare them and are evaluated by TLC in every run. InboundGuard, HotReload,
DkimRotation and Backfill name their specifications `GuardSpec`, `ReloadSpec`,
`RotationSpec` and `BackfillSpec`, so that a proof module can extend them together with
InboundSession, SmtpDialogue and FilterCache. `SpfAssumption` says that every domain a record
names is in the zone, found or not, and `MimeAssumption` that the types and Content-IDs
include the ones the code itself writes. `SpfAnswers` asks for the second half of its promise
only that there are finitely many reachable records and no more than the limit.
Beyond the assumptions on constants:

- `OneNode`: there is one node, as in the run. The two properties that need it fail with
  several (section 4).
- `NamesOneMessage`: a mail refers to one message. With two references one of them may
  arrive between the two steps of the arrival and be preferred by `LIMIT 1`: the mail then
  joins the thread of a message that was not on record when it arrived.

### The arguments

`IndInv` of the queue. `UndeliveredIsKept` is not inductive: a daemon may delete a row
because of a result it got some steps ago, and several daemons may hold old snapshots
of the same row. The invariant adds that a daemon that is about to delete a row or its
file works on a message some server has taken, that the snapshots in every batch have
attempts to spare, and that a message with a row keeps its body unless its send was
not accepted or it was taken. Each daemon step changes only its own
worker and the row of its current job, so one lemma (`DaemonStays`) carries the facts
about the others over.

With one node `RowInv` adds that the attempts in a row account for the tries on the wire and
`BatchInv` that the snapshots still to be worked on are distinct and equal their rows. Hence
a job that is locked is a pending one, no settled fate is reopened, and each step of the
queue is a step of MailPromise on the message it works on, or a stutter:
`OneNodeKeepsPromise` goes through the actions one by one. It is at the lock that several
nodes break the refinement.

`DialogueInv` says what each phase of an attempt implies: the server can have taken the
message only after the final dot, and from the second EHLO on the stream is encrypted.
`ReloadInv` follows version and completeness of the two files through a renewal; for a tool
that writes the key first it says that the time the watcher remembers is older than any
change it has not loaded (`WatcherInStep`), which is what `RenewalIsServed` needs besides
fairness.

`SessionInv` ties the command state to the envelope: from `Data` on there is an alias
or a reply mapping, and what the envelope holds is what the client was last told. `BodyInv`
says that between mails the buffer is empty and in a body it holds the lines typed so far,
with a size that is the sum of their lengths. That sum is defined by recursion. The library's
induction schemes take an operator, which no installed prover can instantiate, but that `<`
is well-founded on the numbers is a first-order fact: `Induction` derives from it that a
set of numbers with 0 and all successors is Nat, and with that the existence of the recursive
function and the equations for appended lines are proved (`SumExists`, `AppendedBytes`).
`NeverUndercounts` is proved the same way: a sum over ages, which a failure increases by one
and the passing of a period never increases; and an address that was last seen MaxAge periods
ago has no recent failures left to forget (`QuietSinceSeen`). For `BlocksAreOnFile`, the set
of lost blocks grows only with a write error.

In MailStore the invariant describes each step of an arrival, a deletion and a retention run
by what it still has to remove or insert, and says that threads are one level deep at every
step. In Accounts it is a function that gives every session id an owner, on which the store, the
browsers, the responses under way and the requests agree; the limit is a count of aliases and
of requests past the check; and an alias goes from unused to live to gone and never back, so that
a mapping is made once.

In MailStore a mail is filed under a root it names, or one that a reply it names has answered,
which is its author's own mail. So a set of mails that is closed under `Named` and has one
owner keeps to itself (`OwnerInv`, with `AuthorInv` for the replies): `ThreadsHaveOneOwner`
says that a mail of `OwnConversations` has a root of its own user. A deletion by retention
cascades from roots that are not kept; if root and mail have the same user, one is kept if the
other is.

`RowsInv` of Compose says that ids above `lastRow` have no row and requests hold known ids: an
insert then never meets a settled row. `TextsInv` follows the body keys: a key belongs to one
row for ever (`RowKeys`, `SharedKeys`), the key of a send is nobody else's until its upsert
(`OwnKey`), and a file waiting to be removed belongs to a row that is gone, or, if it is a
draft's, to one that has been sent (`MailRemovals`, `TextRemovals`). Then, for each step of a
send, what row and file look like unless the row is in `raced` (`SendingMail`, `MarkedMail`,
`AttachedMail`, `SettledMail`), with at most one send past its upsert on a row (`OneMarker`);
and for drafts that the file has the text last saved, or the one a save under way has written
and is about to report (`DraftTexts`, `SavedTexts`).
`RotationInv` says that a key still to be saved is nowhere else, and that a verify past its
lookup has found the key it read under the selector it read, as long as that key is the pending one: it then promotes a key that is
published, unless the row has changed since, and that change is what `raced` records.
`CacheInv` says that rules held by a reading mail are current unless an edit was made since.

`ScanInv` counts what the query lists before a mail that is still to be labelled: between two
batches at least as many as the offset, and for a mail that is not in the batch the worker
holds, at least the offset and a full batch. Arriving mail and labels that are taken off only
add to that count; a batch takes away as many as it labels, which is what the offset gives
up; and anything else that takes mail from the list disturbs the scan (`Leaves`).

`AlgorithmsInv` has three independent parts. `ListingInv`: rows have ids of their own, and
what was in the folder at the start and has not been shown is behind the pages read so far
(`PageInv`). That is inductive because whatever arrives or moves goes to the top and can only
push a row further down: `FewerPlaces` compares the number of rows before a row, in the old
mailbox and the new, through their ids. `CountedIsListed` says that the count query counts
the rows of the list query, folder by folder, and `TotalPages` that the division then gives a
last page that is not empty. `SpfInv`: the domains fetched and those on the stack can all be
reached, no fetched record lists the client, everything a fetched record names is fetched or
on the stack, and the number of fetched domains is the count of lookups (`LookupsInv`). When
the stack is empty the fetched domains are closed and so are all that can be reached; when the
limit is passed there were more than the limit. `InputInv` only says of what kind an input is,
with no bound on its length: what is true of it is a fact about the operators.

These facts are proved by induction over the input. The library's induction schemes cannot be
used, as said above, and again a first-order form replaces them: `LeastOf` takes the
least element of a set of numbers from the well-foundedness of `<`, `Induction` follows, and
`SeqInduction` says that a set of sequences that has the empty one, and with a sequence every
sequence one element longer, has all. A lemma by induction names the set of sequences it is
true of. `FoldAppend` and `KeepAppend` are the only places where the recursive functions of
SequenceFolds are unfolded; every other lemma cites them.

- Wire: `InStep` relates client and server after each byte of the body: the bytes of the
  complete lines are in the server's body, those of the last line are held and unstuff to what
  was sent of it, and if that line begins with a dot a second one follows. So no line of a stuffed
  body is the end, and the dot that is the end is one (`AlwaysInStep`, `BodyArrives`).
- Mime: `Reaches` says that reading some lines takes the parser from one state to another. It
  composes (`Then`), so the proof follows `build_mime` from the inside out: one attachment,
  a run of them, a container, the whole mail (`AttachmentsRun`, `ContainerRun`, `RelatedRun`,
  `MailParsed`). The parts found are then known as a sequence; that each is there once and in
  the right container is counting (`OnesSplit`, `MailSet`, `WithinIs`).
- Uploads: after each field the form has either an error, and the fields so far break a limit,
  or holds exactly the files that are not empty, with their sizes (`FormRead`). None of them is
  inline, so the parts of the mail built from them are in the order of the rows.
- Keywords: after each letter, what was found ends somewhere in what was read, and where no
  two patterns share a letter all that ended so far was found (`SearchInv`, `FindAtStep`).
  Pattern and label of an index belong to the same rule because both tables skip the same rules
  (`Compiled`).

### Only model-checked

Three properties, all temporal under fairness and so out of the prover's reach:
`EveryJobSettles`, `TenantsAreReleased`, and `RenewalIsServed` beyond its safety part, which
`WatcherSeesRenewals` proves. Every invariant and every action property of the runs is stated
by a theorem.

## 6. What is not modelled, and the plan

Left out on purpose: rendering, translations and constant tables (no state); cryptographic
primitives and password handling; header texts, encodings and HTML (text conversion by
libraries on unbounded input; Mime keeps the nesting of the parts); the order of MX hosts; the
audit log (logging); the buckets of the web rate limiter (the tower_governor crate); the event
stream to open dashboards (a missed event shows the page as it was); the report on a domain's
DNS records (reads only); automatic certificates (the rustls-acme crate), the command line,
the configuration and the test tools. In InboundSession the syntax of addresses and the texts
of answers are abstracted away; a body that is not UTF-8, which ends the session, is an
instance of `Leave`. In Backfill a mail whose file exists but cannot be read is left out.
Idealised: the hash of an SRS address is injective in timestamp, domain and local part, while
the code hashes them without a separator (`outbound/srs.rs:29`, 74); every write of a
certificate changes its modification time, which has the granularity of the file system
(`inbound/acceptor.rs:93`); the blocks of an SPF term are well-formed (a malformed address
never matches, a malformed prefix is an exact match, `dns.rs:247`); a body that cannot be
parsed is forwarded as it is (`outbound/mime.rs:288`), which Mime leaves out. In Listing no
two rows have the same date.

What remains to be done is in what is modelled, not in what is proved: header texts and the
order of MX hosts in the SMTP client, the event stream, and rows with equal dates.
