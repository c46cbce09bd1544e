------------------------------- MODULE Compose -------------------------------
(***************************************************************************)
(* Composing mail in the web interface: saving a draft                     *)
(* (save_draft_handler), sending it (send_firsthand_email) and deleting it *)
(* (perform_smart_delete), over the table sent_emails and the two kinds of *)
(* body files: <key>, the text of a draft, and <key>.eml, a built mail.    *)
(* A step ends at every await on the database, the disk or the network.    *)
(***************************************************************************)
EXTENDS Naturals

CONSTANTS
  Requests,   \* requests of one user that may overlap
  Texts,      \* what the user may have typed
  MaxRows,    \* bound: rows inserted
  MaxKeys,    \* bound: body keys generated
  FaultKinds, \* the faults that may happen: "db", "io"
  MaxFaults   \* bound: faults in one behaviour

ASSUME ComposeAssumption ==
  /\ MaxRows \in Nat /\ MaxKeys \in Nat /\ MaxFaults \in Nat
  /\ FaultKinds \subseteq {"db", "io"}
  /\ "none" \notin Texts

VARIABLES
  rows,        \* sent_emails: id -> status and body_key
  attachments, \* ids that own rows in the table attachments
  draftFiles,  \* body key -> text in <key>
  emlFiles,    \* body key -> mail in <key>.eml
  req,         \* the requests under way
  spawned,     \* file removals handed to tokio::spawn and not yet run
  lastRow, lastKey,
  answers,     \* auxiliary: what finished sends were answered
  saved,       \* auxiliary: the text last saved for each row
  raced,       \* auxiliary: rows on which a request got between two steps of another
  faults       \* faults that may still happen

vars == <<rows, attachments, draftFiles, emlFiles, req, spawned, lastRow, lastKey,
          answers, saved, raced, faults>>

store == <<rows, attachments>>
disk  == <<draftFiles, emlFiles>>
fresh == <<lastRow, lastKey>>

Ids  == 1..MaxRows
Keys == 1..MaxKeys
NoId == 0
NoKey == 0
NoText == "none"
NoRow == [status |-> "none", key |-> NoKey]
NoRequest == [pc |-> "done", id |-> NoId, text |-> NoText, key |-> NoKey, old |-> NoKey, ok |-> FALSE]

-----------------------------------------------------------------------------
Idle(r) == req[r].pc = "done"
At(r, pc) == req[r].pc = pc
Goes(r, pc) == req' = [req EXCEPT ![r].pc = pc]
Done(r) == req' = [req EXCEPT ![r] = NoRequest]

(* The handler's answer to a send, whether the mail was handed over to send_firsthand
   with success, and for a reported success which row and mail it is about. *)
Told(a, ok) == [answer |-> a, ok |-> ok, id |-> NoId, key |-> NoKey, text |-> NoText]

Answer(r, a) ==
  /\ answers' = answers \cup
       {IF a = "sent" THEN [answer |-> a, ok |-> req[r].ok, id |-> req[r].id,
                            key |-> req[r].key, text |-> req[r].text]
                      ELSE Told(a, req[r].ok)}
  /\ Done(r)

Succeeds == UNCHANGED faults
Fault(k) == k \in FaultKinds /\ faults > 0 /\ faults' = faults - 1

(* A statement that fails may or may not have taken effect. *)
Fails(effect, noEffect) == Fault("db") /\ (effect \/ noEffect)

(* A step on row id while another request on it is about to do step pc. *)
Between(id, pc) ==
  raced' = raced \cup {i \in {id} \ {NoId} : \E q \in Requests : At(q, pc) /\ req[q].id = i}

(* The form knows the id of a row that exists or has existed, or none. *)
KnownIds == {NoId} \cup 1..lastRow

Exists(id) == id # NoId /\ rows[id] # NoRow

-----------------------------------------------------------------------------
(* upsert_draft: inserts a row when the form has no id; otherwise it updates the row
   only while it is a draft, and fails with RowNotFound when it is not. *)

UpsertFindsAny(id) == id = NoId \/ Exists(id)
UpsertFinds(id) == id = NoId \/ (Exists(id) /\ rows[id].status = "draft")

Upsert(id, key) ==
  IF id = NoId
  THEN /\ lastRow' = lastRow + 1
       /\ rows' = [rows EXCEPT ![lastRow'] = [status |-> "draft", key |-> key]]
       /\ UNCHANGED raced
  ELSE /\ UNCHANGED lastRow
       /\ rows' = [rows EXCEPT ![id].key = key]
       /\ Between(id, "mark")

UpsertedId(id) == IF id = NoId THEN lastRow + 1 ELSE id

(* mark_sent_email_success and mark_sent_email_failed: WHERE id = ? only *)
Mark(id, status) ==
  rows' = IF Exists(id) THEN [rows EXCEPT ![id].status = status] ELSE rows

-----------------------------------------------------------------------------
(* send_firsthand_email *)

(* The alias is looked up; a database error here answers DatabaseFailure. *)
SendStart(r, id, text) ==
  /\ Idle(r)
  /\ id = NoId => lastRow < MaxRows
  /\ \/ /\ Succeeds
        /\ req' = [req EXCEPT ![r] = [NoRequest EXCEPT !.pc = "store", !.id = id, !.text = text]]
        /\ UNCHANGED answers
     \/ /\ Fault("db")
        /\ answers' = answers \cup {Told("database", FALSE)}
        /\ UNCHANGED req
  /\ UNCHANGED <<store, disk, spawned, fresh, saved, raced>>

(* "Store the email on disk BEFORE sending" *)
SendStore(r) ==
  /\ At(r, "store") /\ lastKey < MaxKeys
  /\ lastKey' = lastKey + 1
  /\ \/ /\ Succeeds
        /\ emlFiles' = [emlFiles EXCEPT ![lastKey'] = req[r].text]
        /\ req' = [req EXCEPT ![r].pc = "lookup", ![r].key = lastKey']
        /\ UNCHANGED answers
     \/ Fault("io") /\ Answer(r, "storage") /\ UNCHANGED emlFiles
  /\ UNCHANGED <<store, draftFiles, spawned, lastRow, saved, raced>>

(* the body key of the draft, to clean up later *)
SendLookup(r) ==
  /\ At(r, "lookup")
  /\ \/ Succeeds /\ req' = [req EXCEPT ![r].pc = "transmit",
                              ![r].old = IF Exists(req[r].id) THEN rows[req[r].id].key ELSE NoKey]
     \/ Fault("db") /\ req' = [req EXCEPT ![r].pc = "transmit"]
  /\ UNCHANGED <<store, disk, spawned, fresh, answers, saved, raced>>

(* send_firsthand: Ok means delivered or queued *)
SendTransmit(r) ==
  /\ At(r, "transmit")
  /\ \E ok \in BOOLEAN : req' = [req EXCEPT ![r].pc = "upsert", ![r].ok = ok]
  /\ UNCHANGED <<store, disk, spawned, fresh, answers, saved, raced, faults>>

(* A failed upsert ends the request: DatabaseFailure after a sent mail,
   DeliveryFailed otherwise. *)
SendUpsert(r) ==
  LET id == req[r].id IN
  /\ At(r, "upsert")
  /\ id = NoId => lastRow < MaxRows
  /\ \/ /\ Succeeds /\ UpsertFinds(id)
        /\ Upsert(id, req[r].key)
        /\ spawned' = spawned \cup ({[key |-> req[r].old, eml |-> FALSE]} \ {[key |-> NoKey, eml |-> FALSE]})
        /\ req' = [req EXCEPT ![r].pc = "mark", ![r].id = UpsertedId(id)]
        /\ UNCHANGED answers
     \/ /\ \/ Succeeds /\ ~UpsertFinds(id) /\ UNCHANGED <<rows, lastRow, raced>>
           \/ Fails(UpsertFinds(id) /\ Upsert(id, req[r].key), UNCHANGED <<rows, lastRow, raced>>)
        /\ Answer(r, IF req[r].ok THEN "database" ELSE "delivery")
        /\ UNCHANGED spawned
  /\ UNCHANGED <<attachments, disk, lastKey, saved>>

(* After a failed delivery a failed update is only logged. *)
SendMark(r) ==
  LET Update == Mark(req[r].id, IF req[r].ok THEN "sent" ELSE "failed") IN
  /\ At(r, "mark")
  /\ \/ Succeeds /\ Update /\ Goes(r, "attach") /\ UNCHANGED answers
     \/ /\ Fails(Update, UNCHANGED rows)
        /\ IF req[r].ok THEN Answer(r, "database") ELSE Goes(r, "attach") /\ UNCHANGED answers
  /\ UNCHANGED <<attachments, disk, spawned, fresh, saved, raced>>

(* record_sent_attachments: errors are only logged *)
SendAttach(r) ==
  /\ At(r, "attach")
  /\ \/ Succeeds /\ attachments' = attachments \cup {req[r].id}
     \/ Fault("db") /\ UNCHANGED attachments
  /\ Answer(r, IF req[r].ok THEN "sent" ELSE "delivery")
  /\ UNCHANGED <<rows, disk, spawned, fresh, saved, raced>>

Send(r) ==
  \/ \E id \in KnownIds, text \in Texts : SendStart(r, id, text)
  \/ SendStore(r) \/ SendLookup(r) \/ SendTransmit(r) \/ SendUpsert(r) \/ SendMark(r)
  \/ SendAttach(r)

-----------------------------------------------------------------------------
(* save_draft_handler: the body key of the row, whatever its status, or a new one *)

SaveStart(r, id, text) ==
  /\ Idle(r)
  /\ id = NoId => lastRow < MaxRows
  /\ \/ /\ Succeeds /\ Exists(id)
        /\ req' = [req EXCEPT ![r] = [NoRequest EXCEPT !.pc = "write", !.id = id, !.text = text,
                                                       !.key = rows[id].key]]
        /\ UNCHANGED lastKey
     \/ /\ (Succeeds /\ ~Exists(id)) \/ (id # NoId /\ Fault("db"))
        /\ lastKey < MaxKeys /\ lastKey' = lastKey + 1
        /\ req' = [req EXCEPT ![r] = [NoRequest EXCEPT !.pc = "write", !.id = id, !.text = text,
                                                       !.key = lastKey']]
  /\ UNCHANGED <<store, disk, spawned, lastRow, answers, saved, raced>>

SaveWriteOnce(r) ==
  /\ At(r, "write")
  /\ \/ /\ Succeeds
        /\ draftFiles' = [draftFiles EXCEPT ![req[r].key] = IF @ = NoText THEN req[r].text ELSE @]
        /\ Between(req[r].id, "save")
        /\ Goes(r, "save")
     \/ Fault("io") /\ Done(r) /\ UNCHANGED <<draftFiles, raced>>
  /\ UNCHANGED <<store, emlFiles, spawned, fresh, answers, saved>>
SaveWrite(r) ==
  /\ At(r, "write")
  /\ \/ /\ Succeeds
        /\ draftFiles' = [draftFiles EXCEPT ![req[r].key] = req[r].text]
        /\ Between(req[r].id, "save")
        /\ Goes(r, "save")
     \/ Fault("io") /\ Done(r) /\ UNCHANGED <<draftFiles, raced>>
  /\ UNCHANGED <<store, emlFiles, spawned, fresh, answers, saved>>

SaveUpsert(r) ==
  LET id == req[r].id IN
  /\ At(r, "save")
  /\ id = NoId => lastRow < MaxRows
  /\ \/ /\ Succeeds /\ UpsertFinds(id)
        /\ Upsert(id, req[r].key)
        /\ saved' = [saved EXCEPT ![UpsertedId(id)] = req[r].text]
     \/ /\ \/ Succeeds /\ ~UpsertFinds(id) /\ UNCHANGED <<rows, lastRow, raced>>
           \/ Fails(UpsertFinds(id) /\ Upsert(id, req[r].key), UNCHANGED <<rows, lastRow, raced>>)
        /\ UNCHANGED saved
  /\ Done(r)
  /\ UNCHANGED <<attachments, disk, spawned, lastKey, answers>>

Save(r) ==
  \/ \E id \in KnownIds, text \in Texts : SaveStart(r, id, text)
  \/ SaveWrite(r) \/ SaveUpsert(r)

-----------------------------------------------------------------------------
(* perform_smart_delete *)

DeleteStart(r, id) ==
  /\ Idle(r) /\ Exists(id)
  /\ req' = [req EXCEPT ![r] = [NoRequest EXCEPT !.pc = "delete", !.id = id, !.key = rows[id].key]]
  /\ UNCHANGED <<store, disk, spawned, fresh, answers, saved, raced, faults>>

(* nothing more happens when the row is gone by now *)
DeleteRow(r) ==
  /\ At(r, "delete")
  /\ \/ /\ Succeeds
        /\ rows' = [rows EXCEPT ![req[r].id] = NoRow]
        /\ IF Exists(req[r].id) THEN Goes(r, "detach") ELSE Done(r)
     \/ Fails(rows' = [rows EXCEPT ![req[r].id] = NoRow], UNCHANGED rows) /\ Done(r)
  /\ UNCHANGED <<attachments, disk, spawned, fresh, answers, saved, raced>>

DeleteAttachments(r) ==
  /\ At(r, "detach")
  /\ \/ Succeeds /\ attachments' = attachments \ {req[r].id}
     \/ Fault("db") /\ UNCHANGED attachments
  /\ spawned' = spawned \cup {[key |-> req[r].key, eml |-> FALSE], [key |-> req[r].key, eml |-> TRUE]}
  /\ Done(r)
  /\ UNCHANGED <<rows, disk, fresh, answers, saved, raced>>

Delete(r) == (\E id \in 1..lastRow : DeleteStart(r, id)) \/ DeleteRow(r) \/ DeleteAttachments(r)

(* A spawned removal runs at any later time; its errors are ignored. *)
RemoveSpawned(f) ==
  /\ spawned' = spawned \ {f}
  /\ \/ /\ Succeeds
        /\ IF f.eml
           THEN emlFiles' = [emlFiles EXCEPT ![f.key] = NoText] /\ UNCHANGED draftFiles
           ELSE draftFiles' = [draftFiles EXCEPT ![f.key] = NoText] /\ UNCHANGED emlFiles
     \/ Fault("io") /\ UNCHANGED disk
  /\ UNCHANGED <<store, req, fresh, answers, saved, raced>>

-----------------------------------------------------------------------------
Init ==
  /\ rows = [id \in Ids |-> NoRow] /\ attachments = {}
  /\ draftFiles = [k \in Keys |-> NoText] /\ emlFiles = [k \in Keys |-> NoText]
  /\ req = [r \in Requests |-> NoRequest] /\ spawned = {}
  /\ lastRow = 0 /\ lastKey = 0
  /\ answers = {} /\ saved = [id \in Ids |-> NoText] /\ raced = {}
  /\ faults = MaxFaults

Next ==
  \/ \E r \in Requests : Send(r) \/ Save(r) \/ Delete(r)
  \/ \E f \in spawned : RemoveSpawned(f)

Spec == Init /\ [][Next]_vars

-----------------------------------------------------------------------------
(* Properties *)

Settled(id) == rows[id].status \in {"sent", "failed"}

(* A row that was sent or has failed keeps its status class and its mail until it is
   deleted: neither a late auto-save nor a second send of the same form, overlapping
   in any way, points it at another body (upsert_draft, mark_sent_email_success).  *)
SettledIsFrozen ==
  [][\A id \in Ids : Settled(id) =>
       rows'[id] = NoRow \/ (Settled(id)' /\ rows'[id].key = rows[id].key)]_vars

(* However requests overlap, with two exceptions: a sent or failed row's mail is on disk,
   whichever database statement or file operation failed on the way; and unless
   something failed, a draft on which no request is under way opens with the text last
   saved, although removals of older files may still be waiting (save_draft_handler,
   cleanup_old_draft).  The exceptions are a save or a send that updates the row between
   another send's upsert and its mark, and a save that writes the draft's file between
   another save's write and its upsert.  *)
RowsHaveTheirText ==
  \A id \in Ids \ raced :
    /\ Settled(id) => emlFiles[rows[id].key] # NoText
    /\ /\ faults = MaxFaults /\ rows[id].status = "draft"
       /\ \A r \in Requests : req[r].id # id
       => draftFiles[rows[id].key] = saved[id]

(* A send answered with success was handed over to the outbound service, and until it is
   deleted its row says sent and shows exactly the mail that went out, however requests
   overlap, with the exceptions of RowsHaveTheirText: of these it is an update between
   the send's upsert and its mark that breaks it.  *)
SentIsOnRecord ==
  \A a \in answers : a.answer = "sent" =>
    /\ a.ok
    /\ a.id \notin raced /\ rows[a.id] # NoRow =>
         rows[a.id] = [status |-> "sent", key |-> a.key] /\ emlFiles[a.key] = a.text

(* "fetch its existing body_key to overwrite the same file preventing orphaned files
   from piling up on disk": once everything is finished, a draft text on disk
   belongs to a row.  *)
NoOrphanedDrafts ==
  (\A r \in Requests : Idle(r)) /\ spawned = {} =>
    \A k \in Keys : draftFiles[k] # NoText => \E id \in Ids : rows[id].key = k

(* "With `execute` true it stores the message, sends it, records the outcome": a mail
   that went out is recorded as sent, at least when no statement fails.  *)
EverySendIsRecorded == \A a \in answers : a.ok => a.answer = "sent"

(* "The one error that happens after the message hit the wire" is DatabaseFailure,
   and the user is then told that the mail was sent.  *)
DatabaseFailureMeansSent == \A a \in answers : a.answer = "database" => a.ok
=============================================================================
