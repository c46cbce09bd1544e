------------------------------ MODULE MailStore ------------------------------
(* Received mail: the rows of received_emails and email_replies, the attachment
   rows, and the <key>.eml files in the storage directory, under arriving mail,
   page views, deletions, replies, the daily retention task and restarts.

   A mail stands for its id, its body key and its Message-ID; a reply likewise.  A
   step ends at an await, where other requests and tasks go on.  Ordering by time and
   what the pages look like are left out. *)
EXTENDS Naturals, FiniteSets

CONSTANTS
  Mails, Replies,     \* mails that arrive, replies that users write
  Present,            \* the mails that have arrived before, each a thread of its own
  Aliases, Requests,  \* aliases, slots for web requests at work at the same time
  AliasOf, UserOf,    \* the recipient of a mail, the user of an alias
  Author,             \* the user who writes a reply
  Refs,               \* what In-Reply-To and the last of References name
  Attached,           \* the mails and replies with attachments
  Admins,             \* users with is_admin
  FaultKinds,         \* of {"db", "io", "crash"}
  MaxFaults,          \* bound on the number of faults
  MaxUses,            \* bound on the operations that users start
  None

Users == {UserOf[a] : a \in Aliases}

ASSUME StoreAssumption ==
  /\ AliasOf \in [Mails -> Aliases]
  /\ Author \in [Replies -> Users]
  /\ Refs \in [Mails -> SUBSET (Mails \cup Replies)]
  /\ Attached \in SUBSET (Mails \cup Replies)
  /\ Admins \in SUBSET Users
  /\ Mails \cap Replies = {}
  /\ Present \in SUBSET Mails
  /\ {None, "no", "error"} \cap (Mails \cup Replies) = {}
  /\ FaultKinds \subseteq {"db", "io", "crash"}
  /\ MaxFaults \in Nat
  /\ MaxUses \in Nat

VARIABLES
  mail,       \* received_emails
  replies,    \* email_replies: the mail a recorded reply belongs to
  atts,       \* mails and replies that have rows in attachments
  files,      \* file names in the storage directory
  aliases,    \* aliases that exist
  keepers,    \* users with disable_autoclean
  session,    \* how far the SMTP session has got with a mail
  found,      \* the thread a session has found for its mail
  request,    \* the web requests
  removing,   \* file removals handed to tokio::spawn
  cleanup,    \* the retention task: idle, or the keys it has selected
  faults,     \* faults that may still happen
  uses,       \* operations that users may still start
  known,      \* history: the references of a mail that were on record when it arrived
  shown,      \* history: mails that were displayed on the page of their thread
  answered    \* history: the mail a reply was reported sent for, or "no", or "error"

vars == <<mail, replies, atts, files, aliases, keepers, session, found, request,
          removing, cleanup, faults, uses, known, shown, answered>>

NoRow == [thread |-> None, viewed |-> FALSE, starred |-> FALSE, old |-> FALSE, row |-> FALSE]
NewRow(root) == [NoRow EXCEPT !.thread = root, !.row = TRUE]

Stored(m) == mail[m].row
Owner(m) == UserOf[AliasOf[m]]

(* COALESCE(thread_id, id) *)
Root(m) == IF mail[m].thread = None THEN m ELSE mail[m].thread

(* What the dashboard lists, and what a page shows below a mail.  *)
Inbox(u) == {m \in Mails : Stored(m) /\ Owner(m) = u /\ mail[m].thread = None}
Children(r) == {m \in Mails : Stored(m) /\ mail[m].thread = r}
Thread(r) == {r} \cup Children(r)

(* The body of a received mail or of a reply, and the name without a suffix that
   drafts have.  *)
EmlFile(k) == <<k, "eml">>
PlainFile(k) == <<k, "plain">>

Fault(kind) == kind \in FaultKinds /\ faults > 0 /\ faults' = faults - 1
Succeeds == UNCHANGED faults
Use == uses > 0 /\ uses' = uses - 1

-----------------------------------------------------------------------------
(* Rows *)

(* thread_id references received_emails ON DELETE CASCADE: the smallest set of rows
   that contains ms and the children of its members.  *)
Cascade(ms) ==
  {m \in Mails : \A S \in SUBSET Mails :
     ms \subseteq S /\ (\A c \in Mails : Stored(c) /\ mail[c].thread \in S => c \in S) => m \in S}

(* The rows of ms, what cascades from them, and the replies to any of it with their
   attachment rows; the attachment rows of a mail have no foreign key.  *)
DeleteRows(ms) ==
  LET gone == Cascade(ms)
  IN /\ mail' = [m \in Mails |-> IF m \in gone THEN NoRow ELSE mail[m]]
     /\ replies' = [p \in Replies |-> IF replies[p] \in gone THEN None ELSE replies[p]]
     /\ atts' = atts \ {p \in Replies : replies[p] \in gone}

SetViewed(ms, value) ==
  mail' = [m \in Mails |-> IF m \in ms /\ Stored(m) THEN [mail[m] EXCEPT !.viewed = value] ELSE mail[m]]

-----------------------------------------------------------------------------
(* A mail arrives: handle_body_line from the end of the data on *)

(* The alias was resolved by RCPT TO; the body goes to its file first.  *)
Persist(m) ==
  /\ session[m] = "new"
  /\ AliasOf[m] \in aliases
  /\ \/ /\ Succeeds
        /\ files' = files \cup {EmlFile(m)}
        /\ session' = [session EXCEPT ![m] = IF Refs[m] = {} THEN "insert" ELSE "lookup_mail"]
     \/ Fault("io") /\ UNCHANGED files /\ session' = [session EXCEPT ![m] = "refused"]
  /\ known' = [known EXCEPT ![m] =
       {x \in Refs[m] : IF x \in Mails THEN Stored(x) ELSE replies[x] # None}]
  /\ UNCHANGED <<mail, replies, atts, aliases, keepers, found, request, removing,
                 cleanup, uses, shown, answered>>

LookupDone(m, root) ==
  /\ found' = [found EXCEPT ![m] = root]
  /\ session' = [session EXCEPT ![m] = "insert"]

RootsOfMails(m) == {Root(x) : x \in {y \in Refs[m] \cap Mails : Stored(y)}}

RootsOfRepliesUnresolved(m) == {replies[p] : p \in {q \in Refs[m] \cap Replies : replies[q] # None}}

RootsOfRepliesSkipped(m) == {}

RootsOfReplies(m) == {Root(replies[p]) : p \in {q \in Refs[m] \cap Replies : replies[q] # None}}

(* find_thread_id_by_references: first the mails (LIMIT 1 in no order), then our own
   replies.  An error counts as no thread.  *)
LookupMails(m) ==
  /\ session[m] = "lookup_mail"
  /\ \/ Succeeds /\ RootsOfMails(m) # {} /\ \E r \in RootsOfMails(m) : LookupDone(m, r)
     \/ /\ Succeeds /\ RootsOfMails(m) = {}
        /\ session' = [session EXCEPT ![m] = "lookup_reply"]
        /\ UNCHANGED found
     \/ Fault("db") /\ LookupDone(m, None)
  /\ UNCHANGED <<mail, replies, atts, files, aliases, keepers, request, removing,
                 cleanup, uses, known, shown, answered>>

LookupReplies(m) ==
  /\ session[m] = "lookup_reply"
  /\ \/ Succeeds /\ RootsOfReplies(m) # {} /\ \E r \in RootsOfReplies(m) : LookupDone(m, r)
     \/ Succeeds /\ RootsOfReplies(m) = {} /\ LookupDone(m, None)
     \/ Fault("db") /\ LookupDone(m, None)
  /\ UNCHANGED <<mail, replies, atts, files, aliases, keepers, request, removing,
                 cleanup, uses, known, shown, answered>>

InsertedQuietly(m) ==
  /\ AliasOf[m] \in aliases
  /\ found[m] # None => Stored(found[m])
  /\ mail' = [mail EXCEPT ![m] = NewRow(found[m])]
  /\ atts' = atts \cup ({m} \cap Attached)

(* The transaction of insert_email_with_attachments: the root becomes unread again,
   then the mail and its attachment rows.  The foreign keys refuse it when the alias or
   the root has been deleted since.  *)
Inserted(m) ==
  /\ AliasOf[m] \in aliases
  /\ found[m] # None => Stored(found[m])
  /\ mail' = [x \in Mails |->
       IF x = m THEN NewRow(found[m])
       ELSE IF x = found[m] THEN [mail[x] EXCEPT !.viewed = FALSE] ELSE mail[x]]
  /\ atts' = atts \cup ({m} \cap Attached)

InsertMail(m) ==
  /\ session[m] = "insert"
  /\ \/ Succeeds /\ Inserted(m) /\ session' = [session EXCEPT ![m] = "accepted"]
     \/ /\ Succeeds /\ ~(AliasOf[m] \in aliases /\ (found[m] # None => Stored(found[m])))
        /\ session' = [session EXCEPT ![m] = "refused"]
        /\ UNCHANGED <<mail, atts>>
     \/ /\ Fault("db") /\ session' = [session EXCEPT ![m] = "refused"]
        /\ (Inserted(m) \/ UNCHANGED <<mail, atts>>)
  /\ found' = [found EXCEPT ![m] = None]
  /\ UNCHANGED <<replies, files, aliases, keepers, request, removing, cleanup,
                 uses, known, shown, answered>>

-----------------------------------------------------------------------------
(* Web requests *)

Idle == [kind |-> "idle", mail |-> None, reply |-> None, pc |-> "start"]
BeginReply(q, kind, m, p, pc) ==
  /\ request[q] = Idle
  /\ request' = [request EXCEPT ![q] = [kind |-> kind, mail |-> m, reply |-> p, pc |-> pc]]
Begin(q, kind, m, pc) == BeginReply(q, kind, m, None, pc)
At(q, kind, pc) == request[q].kind = kind /\ request[q].pc = pc
GoTo(q, pc) == request' = [request EXCEPT ![q].pc = pc]
End(q) == request' = [request EXCEPT ![q] = Idle]

(* get_email: read the row, mark it viewed, show the mail with its children.  *)
OpenRead(q, m) ==
  /\ Use
  /\ Stored(m) /\ Begin(q, "open", m, "mark")
  /\ UNCHANGED <<mail, replies, atts, files, aliases, keepers, session, found, removing,
                 cleanup, faults, known, shown, answered>>

OpenMark(q) ==
  /\ At(q, "open", "mark")
  /\ \/ Succeeds /\ SetViewed({request[q].mail}, TRUE)
     \/ Fault("db") /\ (SetViewed({request[q].mail}, TRUE) \/ UNCHANGED mail)
  /\ GoTo(q, "show")
  /\ UNCHANGED <<replies, atts, files, aliases, keepers, session, found, removing,
                 cleanup, uses, known, shown, answered>>

Readable(ms) == {m \in ms : EmlFile(m) \in files}

(* Without its file a mail is not found; a child without its file is left out, and so
   are all children when their query fails.  *)
OpenShow(q) ==
  /\ At(q, "open", "show")
  /\ LET m == request[q].mail
     IN \/ Succeeds /\ shown' = IF EmlFile(m) \in files
                                THEN shown \cup {m} \cup Readable(Children(m)) ELSE shown
        \/ Fault("db") /\ EmlFile(m) \in files /\ shown' = shown \cup {m}
  /\ End(q)
  /\ UNCHANGED <<mail, replies, atts, files, aliases, keepers, session, found, removing,
                 cleanup, uses, known, answered>>

(* mark_email_unread_handler, batch_mark_unread_handler: one statement.  *)
MarkUnread(ms) ==
  /\ Use
  /\ ms # {} /\ \A m \in ms : Stored(m)
  /\ SetViewed(ms, FALSE)
  /\ UNCHANGED <<replies, atts, files, aliases, keepers, session, found, request, removing,
                 cleanup, faults, known, shown, answered>>

FlipStar(m) == mail' = [mail EXCEPT ![m].starred = ~@]

(* toggle_favorite_handler: one statement.  *)
ToggleFavorite(m) ==
  /\ Use
  /\ Stored(m)
  /\ FlipStar(m)
  /\ UNCHANGED <<replies, atts, files, aliases, keepers, session, found, request, removing,
                 cleanup, faults, known, shown, answered>>

(* perform_smart_delete, also once per mail of a batch: read the row, delete it, then
   its attachment rows, and leave the file to a task.  *)
DeleteRead(q, m) ==
  /\ Use
  /\ Stored(m) /\ Begin(q, "delete", m, "row")
  /\ UNCHANGED <<mail, replies, atts, files, aliases, keepers, session, found, removing,
                 cleanup, faults, known, shown, answered>>

DeleteRow(q) ==
  /\ At(q, "delete", "row")
  /\ LET m == request[q].mail
     IN \/ Succeeds /\ Stored(m) /\ DeleteRows({m}) /\ GoTo(q, "attachments")
        \/ Succeeds /\ ~Stored(m) /\ End(q) /\ UNCHANGED <<mail, replies, atts>>
        \/ Fault("db") /\ End(q) /\ (DeleteRows({m}) \/ UNCHANGED <<mail, replies, atts>>)
  /\ UNCHANGED <<files, aliases, keepers, session, found, removing, cleanup,
                 uses, known, shown, answered>>

DeleteAttachments(q) ==
  /\ At(q, "delete", "attachments")
  /\ \/ Succeeds /\ atts' = atts \ {request[q].mail}
     \/ Fault("db") /\ UNCHANGED atts
  /\ removing' = removing \cup {request[q].mail}
  /\ End(q)
  /\ UNCHANGED <<mail, replies, files, aliases, keepers, session, found, cleanup,
                 uses, known, shown, answered>>

RemoveFiles(m) ==
  /\ m \in removing
  /\ removing' = removing \ {m}
  /\ \/ Succeeds /\ files' = files \ {EmlFile(m), PlainFile(m)}
     \/ Fault("io") /\ UNCHANGED files
  /\ UNCHANGED <<mail, replies, atts, aliases, keepers, session, found, request, cleanup, uses, known, shown, answered>>

-----------------------------------------------------------------------------
(* A reply: process_reply, from the form or from the API *)

(* Only to mail of the user's own: get_email_by_id asks for the user.  *)
ReplyRead(q, m, p) ==
  /\ Use
  /\ Stored(m) /\ Owner(m) = Author[p]
  /\ answered[p] = "no" /\ \A r \in Requests : request[r].reply # p
  /\ BeginReply(q, "reply", m, p, "send")
  /\ UNCHANGED <<mail, replies, atts, files, aliases, keepers, session, found, removing,
                 cleanup, faults, known, shown, answered>>

Answer(q, result) == End(q) /\ answered' = [answered EXCEPT ![request[q].reply] = result]

(* The outbound service takes the reply, or nothing is recorded.  *)
ReplySend(q) ==
  /\ At(q, "reply", "send")
  /\ \/ GoTo(q, "write") /\ UNCHANGED answered
     \/ Answer(q, "error")
  /\ UNCHANGED <<mail, replies, atts, files, aliases, keepers, session, found, removing,
                 cleanup, faults, uses, known, shown>>

ReplyWrite(q) ==
  /\ At(q, "reply", "write")
  /\ \/ Succeeds /\ files' = files \cup {EmlFile(request[q].reply)}
     \/ Fault("io") /\ UNCHANGED files
  /\ GoTo(q, "record")
  /\ UNCHANGED <<mail, replies, atts, aliases, keepers, session, found, removing,
                 cleanup, uses, known, shown, answered>>

(* The foreign key refuses a reply to a mail that has been deleted.  *)
InsertReply(m, p) == Stored(m) /\ replies' = [replies EXCEPT ![p] = m]

ReplyRecord(q) ==
  /\ At(q, "reply", "record")
  /\ LET m == request[q].mail
         p == request[q].reply
     IN \/ /\ Succeeds /\ InsertReply(m, p)
           /\ IF p \in Attached THEN GoTo(q, "attach") /\ UNCHANGED answered ELSE Answer(q, m)
        \/ Succeeds /\ ~Stored(m) /\ UNCHANGED replies /\ Answer(q, "error")
        \/ Fault("db") /\ (InsertReply(m, p) \/ UNCHANGED replies) /\ Answer(q, "error")
  /\ UNCHANGED <<mail, atts, files, aliases, keepers, session, found, removing,
                 cleanup, uses, known, shown>>

(* insert_reply_attachment, whose foreign key needs the reply.  *)
ReplyAttach(q) ==
  /\ At(q, "reply", "attach")
  /\ LET p == request[q].reply
     IN \/ Succeeds /\ replies[p] # None /\ atts' = atts \cup {p} /\ Answer(q, request[q].mail)
        \/ Succeeds /\ replies[p] = None /\ UNCHANGED atts /\ Answer(q, "error")
        \/ Fault("db") /\ (UNCHANGED atts \/ atts' = atts \cup {p}) /\ Answer(q, "error")
  /\ UNCHANGED <<mail, replies, files, aliases, keepers, session, found, removing,
                 cleanup, uses, known, shown>>

-----------------------------------------------------------------------------
(* The retention task, aliases, time, restarts *)

NoCleanup == [pc |-> "idle", keys |-> {}]

StarredInThread(m) == \E t \in Thread(Root(m)) : mail[t].starred

(* The condition of delete_old_emails.  *)
ExpiredByItself(m) ==
  /\ Stored(m) /\ mail[m].old
  /\ Owner(m) \notin keepers
  /\ ~(Owner(m) \in Admins /\ mail[m].starred)

Expired(m) ==
  /\ Stored(m) /\ mail[m].old
  /\ Owner(m) \notin keepers
  /\ ~(Owner(m) \in Admins /\ StarredInThread(m))

(* SQLite: the keys are selected by one statement, the rows deleted by the next.  The
   rounds of one run may use either system, which only adds behaviours.  *)
CleanupSelect ==
  /\ cleanup.pc = "idle"
  /\ cleanup' = [pc |-> "delete", keys |-> {m \in Mails : Expired(m)}]
  /\ UNCHANGED <<mail, replies, atts, files, aliases, keepers, session, found, request,
                 removing, faults, uses, known, shown, answered>>

(* PostgreSQL: DELETE ... RETURNING body_key.  An error ends the round.  *)
CleanupDelete ==
  /\ cleanup.pc \in {"idle", "delete"}
  /\ LET expired == {m \in Mails : Expired(m)}
         keys == IF cleanup.pc = "delete" THEN cleanup.keys ELSE expired
     IN \/ Succeeds /\ DeleteRows(expired) /\ cleanup' = [pc |-> "files", keys |-> keys]
        \/ /\ Fault("db") /\ cleanup' = NoCleanup
           /\ (DeleteRows(expired) \/ UNCHANGED <<mail, replies, atts>>)
  /\ UNCHANGED <<files, aliases, keepers, session, found, request, removing,
                 uses, known, shown, answered>>

CleanedFileWithSuffix(k) == EmlFile(k)

(* The task removes storage_dir/<key>.  *)
CleanedFile(k) == PlainFile(k)

CleanupFiles ==
  /\ cleanup.pc = "files"
  /\ files' = files \ {CleanedFile(k) : k \in cleanup.keys}
  /\ cleanup' = NoCleanup
  /\ UNCHANGED <<mail, replies, atts, aliases, keepers, session, found, request, removing, faults, uses, known, shown, answered>>

(* delete_alias_by_id, or the deletion of its domain: mail cascades.  *)
DeleteAlias(a) ==
  /\ Use
  /\ a \in aliases
  /\ aliases' = aliases \ {a}
  /\ DeleteRows({m \in Mails : Stored(m) /\ AliasOf[m] = a})
  /\ UNCHANGED <<files, keepers, session, found, request, removing, cleanup,
                 faults, known, shown, answered>>

ToggleAutoclean(u) ==
  /\ Use
  /\ keepers' = IF u \in keepers THEN keepers \ {u} ELSE keepers \cup {u}
  /\ UNCHANGED <<mail, replies, atts, files, aliases, session, found, request, removing,
                 cleanup, faults, known, shown, answered>>

(* email_retention_days pass: what has arrived so far is old.  *)
TimePasses ==
  /\ mail' = [m \in Mails |-> [mail[m] EXCEPT !.old = mail[m].row]]
  /\ UNCHANGED <<replies, atts, files, aliases, keepers, session, found, request, removing,
                 cleanup, faults, uses, known, shown, answered>>

Restart ==
  /\ Fault("crash")
  /\ session' = [m \in Mails |-> IF session[m] \in {"new", "accepted"} THEN session[m] ELSE "refused"]
  /\ found' = [m \in Mails |-> None]
  /\ request' = [q \in Requests |-> Idle]
  /\ answered' = [p \in Replies |->
       IF \E q \in Requests : request[q].reply = p THEN "error" ELSE answered[p]]
  /\ removing' = {}
  /\ cleanup' = NoCleanup
  /\ UNCHANGED <<mail, replies, atts, files, aliases, keepers, uses, known, shown>>

-----------------------------------------------------------------------------
Init ==
  /\ mail = [m \in Mails |-> IF m \in Present THEN NewRow(None) ELSE NoRow]
  /\ replies = [p \in Replies |-> None]
  /\ atts = Present \cap Attached
  /\ files = {EmlFile(m) : m \in Present}
  /\ aliases = Aliases
  /\ keepers = {}
  /\ session = [m \in Mails |-> IF m \in Present THEN "accepted" ELSE "new"]
  /\ found = [m \in Mails |-> None]
  /\ request = [q \in Requests |-> Idle]
  /\ removing = {}
  /\ cleanup = NoCleanup
  /\ faults = MaxFaults
  /\ uses = MaxUses
  /\ known = [m \in Mails |-> {}]
  /\ shown = {}
  /\ answered = [p \in Replies |-> "no"]

Arrival(m) == Persist(m) \/ LookupMails(m) \/ LookupReplies(m) \/ InsertMail(m)

WebRequest(q) ==
  \/ \E m \in Mails : OpenRead(q, m) \/ DeleteRead(q, m) \/ \E p \in Replies : ReplyRead(q, m, p)
  \/ OpenMark(q) \/ OpenShow(q)
  \/ DeleteRow(q) \/ DeleteAttachments(q)
  \/ ReplySend(q) \/ ReplyWrite(q) \/ ReplyRecord(q) \/ ReplyAttach(q)

Next ==
  \/ \E m \in Mails : Arrival(m) \/ ToggleFavorite(m) \/ RemoveFiles(m)
  \/ \E ms \in SUBSET Mails : MarkUnread(ms)
  \/ \E q \in Requests : WebRequest(q)
  \/ CleanupSelect \/ CleanupDelete \/ CleanupFiles
  \/ \E a \in Aliases : DeleteAlias(a)
  \/ \E u \in Users : ToggleAutoclean(u)
  \/ TimePasses
  \/ Restart

Spec == Init /\ [][Next]_vars

-----------------------------------------------------------------------------
(* Properties *)

(* A mail that has a row has its body and its attachment rows, whatever is deleted,
   selected for deletion or interrupted at the time: persist_to_path comes before the
   insert, perform_smart_delete and the retention task remove the row before the rest.
   A reply that was reported as sent (process_reply) is on record with its attachments
   as long as the mail it answers is.  *)
MailIsComplete ==
  /\ \A m \in Mails : Stored(m) => EmlFile(m) \in files /\ (m \in Attached => m \in atts)
  /\ \A p \in Replies : answered[p] \in Mails /\ Stored(answered[p]) =>
       replies[p] = answered[p] /\ (p \in Attached => p \in atts)

(* The mails that m may be filed with: those it names, and those that a reply it names
   may have answered.  *)
Named(m) ==
  {x \in Mails : x \in Refs[m] \/ \E p \in Refs[m] \cap Replies : Owner(x) = Author[p]}

(* The mails that stay within one user, however far what they name is followed.  *)
OwnConversations ==
  UNION {S \in SUBSET Mails : \A m \in S : \A x \in Named(m) : x \in S /\ Owner(x) = Owner(m)}

(* Every mail can be found on a dashboard, which lists roots, and in a thread, which
   shows the children of a root: threads are one level deep and a root exists as long
   as its children.  It is the dashboard of the mail's own user unless some mail named
   another user's: find_thread_id_by_references does not ask whose mail it finds, so
   mail that came to several users is filed under the root of one of them.  *)
EveryMailIsReachable ==
  \A m \in Mails : Stored(m) =>
    /\ \E r \in Inbox(Owner(Root(m))) : m \in Thread(r)
    /\ m \in OwnConversations => Owner(Root(m)) = Owner(m)

(* A mail joins the conversation it refers to, if what it refers to was on record when
   it arrived and still is, and no statement failed: also when it answers a reply
   that was sent from a child of the thread.  (find_thread_id_by_references) *)
ConversationsStayTogether ==
  \A m \in Mails :
    LET onRecord == {x \in known[m] : IF x \in Mails THEN Stored(x) ELSE replies[x] # None}
        rootOf(x) == IF x \in Mails THEN Root(x) ELSE Root(replies[x])
    IN Stored(m) /\ known[m] # {} /\ onRecord = known[m] /\ faults = MaxFaults
         => \E x \in known[m] : Root(m) = rootOf(x)

(* A thread that is marked as read has no mail that its page has not shown, unless the
   page that shows it is being made: get_email marks first and reads the children
   afterwards, and an insert marks the root as unread.  *)
ReadMeansShown ==
  \A m \in Mails :
    Stored(m) /\ mail[m].viewed /\ faults = MaxFaults =>
      \/ Thread(m) \subseteq shown
      \/ \E q \in Requests : At(q, "open", "show") /\ request[q].mail = m

(* The user has turned automatic cleaning off, or is an administrator and something in
   the mail's thread is starred.  *)
Kept(m) == Owner(m) \in keepers \/ (Owner(m) \in Admins /\ StarredInThread(m))

(* The retention task takes no mail of a user whose automatic cleaning is off, and none
   of an administrator's with anything starred in its thread, cascades and the time
   between its two statements included.  The one exception is mail filed under another
   user's root, which goes with that root when its own user does not keep it.
   (delete_old_emails) *)
RetentionSparesKeptMail ==
  [][CleanupDelete => \A m \in Mails : Stored(m) /\ ~mail'[m].row /\ Kept(m) =>
       Owner(Root(m)) # Owner(m) /\ ~Kept(Root(m))]_vars

(* What the task logs: it removes emails older than the retention period.  Not kept:
   a recent mail goes with the old root of its thread.  *)
RetentionTakesOnlyOldMail ==
  [][CleanupDelete => \A m \in Mails : Stored(m) /\ ~mail'[m].row => mail[m].old]_vars

(* Without the exceptions: whoever turned automatic cleaning off loses nothing, and every
   mail is on the dashboard of its own user.  Not kept across users.  *)
KeepersLoseNothing ==
  [][CleanupDelete => \A m \in Mails : Stored(m) /\ ~mail'[m].row => ~Kept(m)]_vars
OwnDashboard == \A m \in Mails : Stored(m) => \E r \in Inbox(Owner(m)) : m \in Thread(r)

(* Every body belongs to a row, to a session, a request or a removal at work.  Not kept:
   refused inserts, the retention task and cascades leave bodies behind.  *)
BodiesBelongToMail ==
  \A m \in Mails : EmlFile(m) \in files =>
    \/ Stored(m) \/ m \in removing \/ session[m] \notin {"accepted", "refused"}
    \/ \E q \in Requests : request[q].kind = "delete" /\ request[q].mail = m
=============================================================================
