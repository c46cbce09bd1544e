---------------------------- MODULE ComposeProofs ----------------------------
(* Proofs about Compose, for any number of overlapping requests, rows and faults and any
   late file removals: SettledIsFrozen, from the shape of the rows and the requests
   (RowsInv), and RowsHaveTheirText and SentIsOnRecord, from what the files hold
   (TextsInv). *)
EXTENDS Compose, TLAPS

Row == [status : {"none", "draft", "sent", "failed"}, key : Nat]

Steps == {"done", "store", "lookup", "transmit", "upsert", "mark", "attach",
          "write", "save", "delete", "detach"}

RequestType ==
  [pc : Steps, id : 0..MaxRows, text : Texts \cup {NoText}, key : Nat, old : Nat, ok : BOOLEAN]

(* Every row has a status and a key, the ids that were not given out have no row, and
   a request holds an id that was given out, or none. *)
RowsShape ==
  /\ lastRow \in 0..MaxRows
  /\ rows \in [Ids -> Row]
  /\ \A id \in Ids : id > lastRow => rows[id] = NoRow

ReqShape ==
  /\ lastKey \in Nat
  /\ req \in [Requests -> RequestType]
  /\ \A r \in Requests : req[r].id <= lastRow

RowsInv == RowsShape /\ ReqShape

(* What SettledIsFrozen says of one step. *)
Frozen ==
  \A id \in Ids : Settled(id) =>
    rows'[id] = NoRow \/ (Settled(id)' /\ rows'[id].key = rows[id].key)

LEMMA NoRequestType == NoRequest \in RequestType
  BY ComposeAssumption DEF NoRequest, RequestType, Steps, NoId, NoKey

LEMMA InitRows == Init => RowsInv
<1>. SUFFICES ASSUME Init PROVE RowsInv
  OBVIOUS
<1>1. RowsShape
  BY ComposeAssumption DEF Init, RowsShape, Row, NoRow, NoKey
<1>2. ReqShape
  BY NoRequestType DEF Init, ReqShape, NoRequest, NoId
<1>. QED BY <1>1, <1>2 DEF RowsInv

(* A step that leaves the rows alone. *)
LEMMA SameRows ==
  ASSUME RowsShape, UNCHANGED <<rows, lastRow>>
  PROVE  RowsShape' /\ Frozen
  BY DEF RowsShape, Frozen, Settled

(* upsert_draft touches a new id or a draft. *)
LEMMA UpsertRows ==
  ASSUME RowsShape, NEW id \in 0..MaxRows, NEW key \in Nat,
         id = NoId => lastRow < MaxRows, UpsertFinds(id), Upsert(id, key)
  PROVE  RowsShape' /\ Frozen /\ lastRow' >= lastRow /\ UpsertedId(id) \in 0..lastRow'
<1>. USE ComposeAssumption DEF NoId
<1>1. CASE id = NoId
  <2>1. lastRow' = lastRow + 1 /\ lastRow' \in Ids
    BY <1>1 DEF Upsert, RowsShape, Ids
  <2>2. rows' = [rows EXCEPT ![lastRow'] = [status |-> "draft", key |-> key]]
    BY <1>1 DEF Upsert
  <2>3. rows[lastRow'] = NoRow
    BY <2>1 DEF RowsShape
  <2>4. RowsShape'
    BY <2>1, <2>2 DEF RowsShape, Row, Ids
  <2>5. Frozen
    BY <2>1, <2>2, <2>3 DEF Frozen, Settled, RowsShape, NoRow
  <2>. QED BY <1>1, <2>1, <2>4, <2>5 DEF UpsertedId, RowsShape
<1>2. CASE id # NoId
  <2>1. lastRow' = lastRow /\ rows' = [rows EXCEPT ![id].key = key] /\ id \in Ids
    BY <1>2 DEF Upsert, Ids
  <2>2. rows[id].status = "draft" /\ rows[id] # NoRow
    BY <1>2 DEF UpsertFinds, Exists
  <2>3. RowsShape'
    BY <2>1, <2>2 DEF RowsShape, Row
  <2>4. Frozen
    BY <2>1, <2>2 DEF Frozen, Settled, RowsShape, Row
  <2>5. id <= lastRow
    BY <2>1, <2>2 DEF RowsShape, Ids
  <2>. QED BY <1>2, <2>1, <2>3, <2>4, <2>5 DEF UpsertedId, RowsShape
<1>. QED BY <1>1, <1>2

(* mark_sent_email_success and mark_sent_email_failed settle a row as it is. *)
LEMMA MarkRows ==
  ASSUME RowsShape, NEW id \in 0..MaxRows, NEW status \in {"sent", "failed"},
         Mark(id, status), UNCHANGED lastRow
  PROVE  RowsShape' /\ Frozen
<1>. USE ComposeAssumption DEF NoId
<1>1. CASE Exists(id)
  <2>1. rows' = [rows EXCEPT ![id].status = status] /\ id \in Ids /\ rows[id] # NoRow
    BY <1>1 DEF Mark, Exists, Ids
  <2>2. RowsShape'
    BY <2>1 DEF RowsShape, Row
  <2>3. Frozen
    BY <2>1 DEF Frozen, Settled, RowsShape, Row
  <2>. QED BY <2>2, <2>3
<1>2. CASE ~Exists(id)
  BY <1>2, SameRows DEF Mark
<1>. QED BY <1>1, <1>2

LEMMA RemovedRow ==
  ASSUME RowsShape, NEW id, rows' = [rows EXCEPT ![id] = NoRow], UNCHANGED lastRow
  PROVE  RowsShape' /\ Frozen
<1>1. NoRow \in Row
  BY DEF NoRow, NoKey, Row
<1>. QED BY <1>1 DEF RowsShape, Frozen, Settled

-----------------------------------------------------------------------------
(* The requests.  The three facts of a step: rows keep their shape, settled rows are
   left alone, and requests keep their shape. *)

Good == RowsShape' /\ Frozen /\ ReqShape'

(* A request takes a step: it is all that changes, and its id stays given out. *)
LEMMA RequestStep ==
  ASSUME ReqShape, NEW r \in Requests, NEW q \in RequestType, req' = [req EXCEPT ![r] = q],
         lastRow \in Nat, lastRow' \in Nat, lastRow' >= lastRow, q.id <= lastRow', lastKey' \in Nat
  PROVE  ReqShape'
<1>1. \A x \in Requests : req[x].id \in Nat /\ req'[x] = IF x = r THEN q ELSE req[x]
  BY ComposeAssumption DEF ReqShape, RequestType
<1>2. req' \in [Requests -> RequestType]
  BY DEF ReqShape
<1>3. \A x \in Requests : req'[x].id <= lastRow'
  BY <1>1 DEF ReqShape
<1>. QED BY <1>2, <1>3 DEF ReqShape

LEMMA RequestEnds ==
  ASSUME ReqShape, NEW r \in Requests, Done(r),
         lastRow \in Nat, lastRow' \in Nat, lastRow' >= lastRow, lastKey' \in Nat
  PROVE  ReqShape'
<1>1. NoRequest.id <= lastRow'
  BY DEF NoRequest, NoId
<1>. QED BY <1>1, NoRequestType, RequestStep DEF Done

LEMMA RequestGoes ==
  ASSUME ReqShape, NEW r \in Requests, NEW pc \in Steps, Goes(r, pc),
         lastRow \in Nat, UNCHANGED <<lastRow, lastKey>>
  PROVE  ReqShape'
<1>. DEFINE q == [req[r] EXCEPT !.pc = pc]
<1>1. q \in RequestType /\ q.id <= lastRow'
  BY DEF ReqShape, RequestType
<1>2. req' = [req EXCEPT ![r] = q] /\ lastKey' \in Nat
  BY DEF Goes, ReqShape
<1>3. lastRow' \in Nat /\ lastRow' >= lastRow
  OBVIOUS
<1>. HIDE DEF q
<1>. QED BY <1>1, <1>2, <1>3, RequestStep

LEMMA Numbers == RowsInv => lastRow \in Nat /\ lastRow \in 0..MaxRows /\ lastKey \in Nat
  BY ComposeAssumption DEF RowsInv, RowsShape, ReqShape

(* A step that changes no row. *)
LEMMA QuietStep ==
  ASSUME RowsInv, rows' = rows, lastRow' = lastRow, lastKey' \in Nat,
         NEW r \in Requests, NEW q \in RequestType, q.id <= lastRow, req' = [req EXCEPT ![r] = q]
  PROVE  Good
<1>1. RowsShape' /\ Frozen
  BY SameRows DEF RowsInv
<1>2. ReqShape'
  <2>1. ReqShape /\ lastRow \in Nat /\ lastRow' \in Nat /\ lastRow' >= lastRow /\ q.id <= lastRow'
    BY Numbers DEF RowsInv
  <2>. QED BY <2>1, RequestStep
<1>. QED BY <1>1, <1>2 DEF Good

LEMMA QuietEnd ==
  ASSUME RowsInv, rows' = rows, lastRow' = lastRow, lastKey' \in Nat, NEW r \in Requests, Done(r)
  PROVE  Good
<1>1. RowsShape' /\ Frozen
  BY SameRows DEF RowsInv
<1>2. ReqShape'
  BY Numbers, RequestEnds DEF RowsInv
<1>. QED BY <1>1, <1>2 DEF Good

(* A step that changes nothing of what RowsInv speaks of. *)
LEMMA Still ==
  ASSUME RowsInv, rows' = rows, lastRow' = lastRow, lastKey' = lastKey, req' = req
  PROVE  Good
<1>1. RowsShape' /\ Frozen
  BY SameRows DEF RowsInv
<1>2. ReqShape'
  BY DEF RowsInv, ReqShape
<1>. QED BY <1>1, <1>2 DEF Good

(* A request that starts on a known id. *)
LEMMA StartStep ==
  ASSUME RowsInv, rows' = rows, lastRow' = lastRow, lastKey' \in Nat,
         NEW r \in Requests, NEW id \in KnownIds, NEW text \in Texts \cup {NoText},
         NEW pc \in Steps, NEW key \in Nat,
         req' = [req EXCEPT ![r] = [pc |-> pc, id |-> id, text |-> text, key |-> key,
                                    old |-> NoKey, ok |-> FALSE]]
  PROVE  Good
<1>. DEFINE q == [pc |-> pc, id |-> id, text |-> text, key |-> key, old |-> NoKey, ok |-> FALSE]
<1>1. id \in 0..lastRow /\ id \in 0..MaxRows
  BY ComposeAssumption DEF KnownIds, RowsInv, RowsShape, NoId
<1>2. q \in RequestType /\ q.id <= lastRow
  BY <1>1 DEF RequestType, NoKey
<1>. HIDE DEF q
<1>3. req' = [req EXCEPT ![r] = q]
  BY DEF q
<1>. QED BY <1>2, <1>3, QuietStep

LEMMA RequestFacts ==
  ASSUME RowsInv, NEW r \in Requests
  PROVE  req[r] \in RequestType /\ req[r].id \in 0..MaxRows /\ req[r].key \in Nat
         /\ req[r].id <= lastRow
  BY DEF RowsInv, ReqShape, RequestType

LEMMA SendStartStep ==
  ASSUME RowsInv, NEW r \in Requests, NEW id \in KnownIds, NEW text \in Texts, SendStart(r, id, text)
  PROVE  Good
<1>1. rows' = rows /\ lastRow' = lastRow /\ lastKey' = lastKey
  BY DEF SendStart, store, fresh
<1>2. CASE req' = req
  BY <1>1, <1>2, Still
<1>3. CASE req' # req
  <2>1. req' = [req EXCEPT ![r] = [pc |-> "store", id |-> id, text |-> text, key |-> NoKey,
                                   old |-> NoKey, ok |-> FALSE]]
    BY <1>3 DEF SendStart, NoRequest
  <2>2. "store" \in Steps /\ NoKey \in Nat /\ text \in Texts \cup {NoText}
    BY DEF Steps, NoKey
  <2>. QED BY <1>1, <2>1, <2>2, Numbers, StartStep
<1>. QED BY <1>2, <1>3

LEMMA SendStoreStep ==
  ASSUME RowsInv, NEW r \in Requests, SendStore(r)
  PROVE  Good
<1>1. rows' = rows /\ lastRow' = lastRow /\ lastKey' \in Nat
  BY Numbers DEF SendStore, store
<1>2. CASE Done(r)
  BY <1>1, <1>2, QuietEnd
<1>3. CASE req' = [req EXCEPT ![r].pc = "lookup", ![r].key = lastKey']
  <2>. DEFINE q == [req[r] EXCEPT !.pc = "lookup", !.key = lastKey']
  <2>1. q \in RequestType /\ q.id <= lastRow
    BY <1>1, RequestFacts DEF RequestType, Steps
  <2>2. req' = [req EXCEPT ![r] = q]
    BY <1>3 DEF RowsInv, ReqShape, RequestType
  <2>. HIDE DEF q
  <2>. QED BY <1>1, <2>1, <2>2, QuietStep
<1>. QED BY <1>2, <1>3 DEF SendStore, Answer

LEMMA SendLookupStep ==
  ASSUME RowsInv, NEW r \in Requests, SendLookup(r)
  PROVE  Good
<1>1. rows' = rows /\ lastRow' = lastRow /\ lastKey' \in Nat
  BY Numbers DEF SendLookup, store, fresh
<1>2. CASE Goes(r, "transmit")
  <2>1. RowsShape' /\ Frozen
    BY <1>1, SameRows DEF RowsInv
  <2>2. ReqShape'
    BY <1>2, Numbers, RequestGoes DEF SendLookup, fresh, RowsInv, Steps
  <2>. QED BY <2>1, <2>2 DEF Good
<1>3. ASSUME NEW old \in Nat, req' = [req EXCEPT ![r].pc = "transmit", ![r].old = old]
      PROVE  Good
  <2>. DEFINE q == [req[r] EXCEPT !.pc = "transmit", !.old = old]
  <2>1. q \in RequestType /\ q.id <= lastRow
    BY RequestFacts DEF RequestType, Steps
  <2>2. req' = [req EXCEPT ![r] = q]
    BY <1>3 DEF RowsInv, ReqShape, RequestType
  <2>. HIDE DEF q
  <2>. QED BY <1>1, <2>1, <2>2, QuietStep
<1>. DEFINE old == IF Exists(req[r].id) THEN rows[req[r].id].key ELSE NoKey
<1>4. old \in Nat
  BY RequestFacts DEF Exists, RowsInv, RowsShape, Row, Ids, NoId, NoKey
<1>5. Goes(r, "transmit") \/ req' = [req EXCEPT ![r].pc = "transmit", ![r].old = old]
  BY DEF SendLookup, Goes
<1>. HIDE DEF old
<1>. QED BY <1>2, <1>3, <1>4, <1>5

LEMMA SendTransmitStep ==
  ASSUME RowsInv, NEW r \in Requests, SendTransmit(r)
  PROVE  Good
<1>1. rows' = rows /\ lastRow' = lastRow /\ lastKey' \in Nat
  BY Numbers DEF SendTransmit, store, fresh
<1>2. PICK ok \in BOOLEAN : req' = [req EXCEPT ![r].pc = "upsert", ![r].ok = ok]
  BY DEF SendTransmit
<1>. DEFINE q == [req[r] EXCEPT !.pc = "upsert", !.ok = ok]
<1>3. q \in RequestType /\ q.id <= lastRow
  BY RequestFacts DEF RequestType, Steps
<1>4. req' = [req EXCEPT ![r] = q]
  BY <1>2 DEF RowsInv, ReqShape, RequestType
<1>. HIDE DEF q
<1>. QED BY <1>1, <1>3, <1>4, QuietStep

(* The upsert of a send or of a save that ends the request. *)
LEMMA UpsertEnd ==
  ASSUME RowsInv, NEW r \in Requests, Done(r), lastKey' = lastKey,
         req[r].id = NoId => lastRow < MaxRows,
         \/ UpsertFinds(req[r].id) /\ Upsert(req[r].id, req[r].key)
         \/ UNCHANGED <<rows, lastRow>>
  PROVE  Good
<1>1. CASE UNCHANGED <<rows, lastRow>>
  BY <1>1, Numbers, QuietEnd
<1>2. CASE UpsertFinds(req[r].id) /\ Upsert(req[r].id, req[r].key)
  <2>1. RowsShape' /\ Frozen /\ lastRow' >= lastRow
    BY <1>2, RequestFacts, UpsertRows DEF RowsInv
  <2>2. lastRow' \in Nat
    BY <2>1, ComposeAssumption DEF RowsShape
  <2>3. ReqShape'
    BY <2>1, <2>2, Numbers, RequestEnds DEF RowsInv
  <2>. QED BY <2>1, <2>3 DEF Good
<1>. QED BY <1>1, <1>2

LEMMA SendUpsertStep ==
  ASSUME RowsInv, NEW r \in Requests, SendUpsert(r)
  PROVE  Good
<1>1. lastKey' = lastKey /\ (req[r].id = NoId => lastRow < MaxRows)
  BY DEF SendUpsert
<1>2. CASE Done(r)
  BY <1>1, <1>2, UpsertEnd DEF SendUpsert, Fails
<1>3. CASE /\ UpsertFinds(req[r].id) /\ Upsert(req[r].id, req[r].key)
           /\ req' = [req EXCEPT ![r].pc = "mark", ![r].id = UpsertedId(req[r].id)]
  <2>1. RowsShape' /\ Frozen /\ lastRow' >= lastRow /\ UpsertedId(req[r].id) \in 0..lastRow'
    BY <1>1, <1>3, RequestFacts, UpsertRows DEF RowsInv
  <2>2. lastRow' \in Nat /\ lastRow' <= MaxRows
    BY <2>1, ComposeAssumption DEF RowsShape
  <2>3. PICK id \in 0..lastRow' : id = UpsertedId(req[r].id)
    BY <2>1
  <2>. DEFINE q == [req[r] EXCEPT !.pc = "mark", !.id = id]
  <2>4. id \in 0..MaxRows /\ id <= lastRow'
    BY <2>2, <2>3, ComposeAssumption
  <2>5. q \in RequestType /\ q.id <= lastRow'
    BY <2>4, RequestFacts DEF RequestType, Steps
  <2>6. req' = [req EXCEPT ![r] = q]
    BY <1>3, <2>3 DEF RowsInv, ReqShape, RequestType
  <2>. HIDE DEF q
  <2>7. ReqShape'
    BY <1>1, <2>1, <2>2, <2>5, <2>6, Numbers, RequestStep DEF RowsInv
  <2>. QED BY <2>1, <2>7 DEF Good
<1>. QED BY <1>2, <1>3 DEF SendUpsert, Answer

LEMMA SendMarkStep ==
  ASSUME RowsInv, NEW r \in Requests, SendMark(r)
  PROVE  Good
<1>1. lastRow' = lastRow /\ lastKey' = lastKey
  BY DEF SendMark, fresh
<1>2. RowsShape' /\ Frozen
  <2>1. CASE rows' = rows
    BY <1>1, <2>1, SameRows DEF RowsInv
  <2>2. CASE Mark(req[r].id, IF req[r].ok THEN "sent" ELSE "failed")
    BY <1>1, <2>2, RequestFacts, MarkRows DEF RowsInv
  <2>. QED BY <2>1, <2>2 DEF SendMark, Fails
<1>3. ReqShape'
  <2>1. CASE Done(r)
    BY <1>1, <2>1, Numbers, RequestEnds DEF RowsInv
  <2>2. CASE Goes(r, "attach")
    BY <1>1, <2>2, Numbers, RequestGoes DEF RowsInv, Steps
  <2>. QED BY <2>1, <2>2 DEF SendMark, Answer
<1>. QED BY <1>2, <1>3 DEF Good

LEMMA SendAttachStep ==
  ASSUME RowsInv, NEW r \in Requests, SendAttach(r)
  PROVE  Good
<1>1. rows' = rows /\ lastRow' = lastRow /\ lastKey' \in Nat /\ Done(r)
  BY Numbers DEF SendAttach, fresh, Answer
<1>. QED BY <1>1, QuietEnd

LEMMA SaveStartStep ==
  ASSUME RowsInv, NEW r \in Requests, NEW id \in KnownIds, NEW text \in Texts, SaveStart(r, id, text)
  PROVE  Good
<1>1. rows' = rows /\ lastRow' = lastRow /\ lastKey' \in Nat
  BY Numbers DEF SaveStart, store
<1>2. ASSUME NEW key \in Nat,
             req' = [req EXCEPT ![r] = [pc |-> "write", id |-> id, text |-> text, key |-> key,
                                        old |-> NoKey, ok |-> FALSE]]
      PROVE  Good
  <2>1. "write" \in Steps /\ text \in Texts \cup {NoText}
    BY DEF Steps
  <2>. QED BY <1>1, <1>2, <2>1, StartStep
<1>3. Exists(id) => rows[id].key \in Nat
  BY ComposeAssumption DEF Exists, KnownIds, RowsInv, RowsShape, Row, Ids, NoId
<1>4. \/ /\ Exists(id)
         /\ req' = [req EXCEPT ![r] = [pc |-> "write", id |-> id, text |-> text, key |-> rows[id].key,
                                       old |-> NoKey, ok |-> FALSE]]
      \/ req' = [req EXCEPT ![r] = [pc |-> "write", id |-> id, text |-> text, key |-> lastKey',
                                    old |-> NoKey, ok |-> FALSE]]
  BY DEF SaveStart, NoRequest
<1>. QED BY <1>1, <1>2, <1>3, <1>4

LEMMA SaveWriteStep ==
  ASSUME RowsInv, NEW r \in Requests, SaveWrite(r)
  PROVE  Good
<1>1. rows' = rows /\ lastRow' = lastRow /\ lastKey' = lastKey
  BY DEF SaveWrite, store, fresh
<1>2. CASE Done(r)
  BY <1>1, <1>2, Numbers, QuietEnd
<1>3. CASE Goes(r, "save")
  <2>1. RowsShape' /\ Frozen
    BY <1>1, SameRows DEF RowsInv
  <2>2. ReqShape'
    BY <1>1, <1>3, Numbers, RequestGoes DEF RowsInv, Steps
  <2>. QED BY <2>1, <2>2 DEF Good
<1>. QED BY <1>2, <1>3 DEF SaveWrite

LEMMA SaveUpsertStep ==
  ASSUME RowsInv, NEW r \in Requests, SaveUpsert(r)
  PROVE  Good
  BY UpsertEnd DEF SaveUpsert, Fails

LEMMA DeleteStartStep ==
  ASSUME RowsInv, NEW r \in Requests, NEW id \in 1..lastRow, DeleteStart(r, id)
  PROVE  Good
<1>1. rows' = rows /\ lastRow' = lastRow /\ lastKey' \in Nat
  BY Numbers DEF DeleteStart, store, fresh
<1>2. id \in 0..MaxRows /\ id <= lastRow /\ rows[id].key \in Nat
  BY ComposeAssumption DEF RowsInv, RowsShape, Row, Ids
<1>. DEFINE q == [NoRequest EXCEPT !.pc = "delete", !.id = id, !.key = rows[id].key]
<1>3. q \in RequestType /\ q.id <= lastRow
  BY <1>2, NoRequestType DEF RequestType, Steps
<1>4. req' = [req EXCEPT ![r] = q]
  BY DEF DeleteStart
<1>. HIDE DEF q
<1>. QED BY <1>1, <1>3, <1>4, QuietStep

LEMMA DeleteRowStep ==
  ASSUME RowsInv, NEW r \in Requests, DeleteRow(r)
  PROVE  Good
<1>1. lastRow' = lastRow /\ lastKey' = lastKey
  BY DEF DeleteRow, fresh
<1>2. RowsShape' /\ Frozen
  <2>1. CASE rows' = rows
    BY <1>1, <2>1, SameRows DEF RowsInv
  <2>2. CASE rows' = [rows EXCEPT ![req[r].id] = NoRow]
    BY <1>1, <2>2, RemovedRow DEF RowsInv
  <2>. QED BY <2>1, <2>2 DEF DeleteRow, Fails
<1>3. ReqShape'
  <2>1. CASE Done(r)
    BY <1>1, <2>1, Numbers, RequestEnds DEF RowsInv
  <2>2. CASE Goes(r, "detach")
    BY <1>1, <2>2, Numbers, RequestGoes DEF RowsInv, Steps
  <2>. QED BY <2>1, <2>2 DEF DeleteRow
<1>. QED BY <1>2, <1>3 DEF Good

LEMMA DeleteAttachmentsStep ==
  ASSUME RowsInv, NEW r \in Requests, DeleteAttachments(r)
  PROVE  Good
<1>1. rows' = rows /\ lastRow' = lastRow /\ lastKey' \in Nat /\ Done(r)
  BY Numbers DEF DeleteAttachments, fresh
<1>. QED BY <1>1, QuietEnd

-----------------------------------------------------------------------------
(* Every step of every request keeps the shape of the state and leaves the settled
   rows alone. *)
LEMMA NextIsGood ==
  ASSUME RowsInv, Next
  PROVE  Good
<1>1. ASSUME NEW r \in Requests, Send(r)
      PROVE  Good
  BY <1>1, SendStartStep, SendStoreStep, SendLookupStep, SendTransmitStep, SendUpsertStep,
     SendMarkStep, SendAttachStep DEF Send
<1>2. ASSUME NEW r \in Requests, Save(r)
      PROVE  Good
  BY <1>2, SaveStartStep, SaveWriteStep, SaveUpsertStep DEF Save
<1>3. ASSUME NEW r \in Requests, Delete(r)
      PROVE  Good
  BY <1>3, DeleteStartStep, DeleteRowStep, DeleteAttachmentsStep DEF Delete
<1>4. ASSUME NEW f \in spawned, RemoveSpawned(f)
      PROVE  Good
  BY <1>4, Still DEF RemoveSpawned, store, fresh
<1>. QED BY <1>1, <1>2, <1>3, <1>4 DEF Next

(* Whatever requests overlap and whichever statements fail, a settled row keeps its
   mail until it is deleted: upsert_draft writes drafts and new rows only, and the
   mark functions write nothing but a settled status. *)
THEOREM SettledStaysFrozen == Spec => SettledIsFrozen
<1>1. RowsInv /\ [Next]_vars => RowsInv'
  <2>1. CASE RowsInv /\ Next
    BY <2>1, NextIsGood DEF Good, RowsInv
  <2>2. CASE RowsInv /\ UNCHANGED vars
    BY <2>2, Still DEF vars, Good, RowsInv
  <2>. QED BY <2>1, <2>2
<1>2. RowsInv /\ [Next]_vars => [Frozen]_vars
  BY NextIsGood DEF Good
<1>3. Spec => [][Frozen]_vars
  BY <1>1, <1>2, InitRows, PTL DEF Spec
<1>. QED BY <1>3 DEF SettledIsFrozen, Frozen
-----------------------------------------------------------------------------
(* What the files hold, for requests that overlap in any way.  A body key belongs to one
   row for ever: it is made for one request, and every other request that holds it has
   read it from the row.  So a file that is to be removed belongs to a row that is gone,
   or is the text of a draft that has been sent. *)

Gone(id) == id # NoId /\ rows[id] = NoRow

(* A send between the mail on disk and the upsert. *)
Sending(r) == req[r].pc \in {"lookup", "transmit", "upsert"}

Marking(id) == \E r \in Requests : At(r, "mark") /\ req[r].id = id

(* What the files, the removals and the rows hold. *)
DiskShape ==
  /\ lastKey \in 0..MaxKeys
  /\ draftFiles \in [Keys -> Texts \cup {NoText}]
  /\ emlFiles \in [Keys -> Texts \cup {NoText}]
  /\ spawned \subseteq [key : 1..lastKey, eml : BOOLEAN]
  /\ saved \in [Ids -> Texts \cup {NoText}]
  /\ faults \in 0..MaxFaults
  /\ \A id \in Ids : rows[id] = NoRow \/ (rows[id].status # "none" /\ rows[id].key \in 1..lastKey)

(* What a request holds at each of its steps. *)
Fits ==
  \A r \in Requests :
    /\ req[r].key <= lastKey /\ req[r].old <= lastKey
    /\ IF req[r].pc \in {"done", "store"} THEN req[r].key = NoKey ELSE req[r].key # NoKey
    /\ req[r].pc \in {"done", "delete", "detach"} \/ req[r].text \in Texts
    /\ req[r].pc \in {"mark", "attach", "delete", "detach"} => req[r].id # NoId
    /\ req[r].old # NoKey => req[r].id # NoId
    /\ req[r].pc = "detach" => Gone(req[r].id)

(* A key belongs to one row, and to none while only the send that made it holds it. *)
RowKeys == \A i, j \in Ids : rows[i].key = rows[j].key /\ rows[i].key # NoKey => i = j

HeldKeys ==
  \A i \in Ids, r \in Requests :
    rows[i].key # NoKey /\ rows[i].key \in {req[r].key, req[r].old} => req[r].id = i

SharedKeys ==
  \A r, q \in Requests :
    /\ r # q /\ req[r].key = req[q].key /\ req[r].key # NoKey =>
         req[r].id = req[q].id /\ req[r].id # NoId
    /\ req[r].old = req[q].key /\ req[r].old # NoKey => req[q].id = req[r].id

OwnKey ==
  \A r \in Requests : Sending(r) =>
    /\ \A i \in Ids : rows[i].key # req[r].key
    /\ \A q \in Requests : (q # r => req[q].key # req[r].key) /\ req[q].old # req[r].key
    /\ \A f \in spawned : f.key # req[r].key

KeysInv == RowKeys /\ HeldKeys /\ SharedKeys /\ OwnKey

(* A mail that is to be removed belongs to a row that is gone. *)
MailRemovals ==
  \A f \in spawned : f.eml =>
    /\ \A i \in Ids : rows[i].key # f.key
    /\ \A r \in Requests : req[r].key = f.key => Gone(req[r].id)

(* The mail of a send before its upsert, before its mark and after it, of a settled row,
   and of a send that was answered. *)
SendingMail ==
  \A r \in Requests : Sending(r) => emlFiles[req[r].key] = req[r].text \/ Gone(req[r].id)

MarkedMail ==
  \A r \in Requests : At(r, "mark") /\ req[r].id \notin raced =>
    \/ Gone(req[r].id)
    \/ rows[req[r].id] = [status |-> "draft", key |-> req[r].key] /\ emlFiles[req[r].key] = req[r].text

OneMarker ==
  \A r, q \in Requests :
    At(r, "mark") /\ At(q, "mark") /\ req[r].id = req[q].id /\ req[r].id \notin raced => r = q

AttachedMail ==
  \A r \in Requests : At(r, "attach") /\ req[r].ok /\ req[r].id \notin raced =>
    \/ Gone(req[r].id)
    \/ rows[req[r].id] = [status |-> "sent", key |-> req[r].key] /\ emlFiles[req[r].key] = req[r].text

SettledMail == \A id \in Ids \ raced : Settled(id) => emlFiles[rows[id].key] # NoText

AnsweredMail == SentIsOnRecord /\ \A a \in answers : a.answer = "sent" => a.id \in 1..lastRow

MailInv ==
  MailRemovals /\ SendingMail /\ MarkedMail /\ OneMarker /\ AttachedMail /\ SettledMail /\ AnsweredMail

(* The text of a draft that is not being sent, unless something failed. *)
Past(id) == id # NoId /\ (rows[id].status # "draft" \/ id \in raced \/ Marking(id))

DraftTexts ==
  \A id \in Ids \ raced : rows[id].status = "draft" =>
    \/ draftFiles[rows[id].key] = saved[id]
    \/ \E r \in Requests : req[r].id = id /\ req[r].pc \in {"save", "mark"}

SavedTexts ==
  \A r \in Requests : At(r, "save") => draftFiles[req[r].key] = req[r].text \/ Past(req[r].id)

TextRemovals ==
  \A f \in spawned : ~f.eml =>
    /\ \A id \in Ids \ raced : rows[id].status = "draft" => rows[id].key # f.key
    /\ \A r \in Requests : req[r].pc \in {"write", "save"} /\ req[r].key = f.key => Past(req[r].id)

DraftInv == faults = MaxFaults => DraftTexts /\ SavedTexts /\ TextRemovals

TextsInv == DiskShape /\ Fits /\ KeysInv /\ MailInv /\ DraftInv

LEMMA InitTexts == Init => TextsInv
<1>. SUFFICES ASSUME Init PROVE TextsInv
  OBVIOUS
<1>. USE ComposeAssumption DEF Init, NoRow, NoRequest, NoKey, NoId
<1>1. DiskShape
  BY DEF DiskShape
<1>2. Fits
  <2>1. ASSUME NEW r \in Requests
        PROVE  req[r].pc = "done" /\ req[r].key = 0 /\ req[r].old = 0 /\ lastKey = 0 /\ 0 <= 0
    OBVIOUS
  <2>. QED BY <2>1 DEF Fits
<1>3. KeysInv
  BY DEF KeysInv, RowKeys, HeldKeys, SharedKeys, OwnKey, Sending
<1>4. MailInv
  BY DEF MailInv, MailRemovals, SendingMail, Sending, MarkedMail, OneMarker, AttachedMail, At,
         SettledMail, Settled, AnsweredMail, SentIsOnRecord
<1>5. DraftInv
  BY DEF DraftInv, DraftTexts, SavedTexts, At, TextRemovals
<1>. QED BY <1>1, <1>2, <1>3, <1>4, <1>5 DEF TextsInv

(* The types that every step needs, one fact per field. *)
LEMMA TextFacts ==
  ASSUME RowsInv, TextsInv
  PROVE  /\ lastKey \in 0..MaxKeys /\ lastKey \in Nat /\ lastRow \in 0..MaxRows /\ lastRow \in Nat
         /\ \A q \in Requests :
              /\ req[q].id \in 0..lastRow /\ req[q].id \in 0..MaxRows
              /\ req[q].key \in 0..lastKey /\ req[q].old \in 0..lastKey
              /\ req[q].pc \in Steps
         /\ \A i \in Ids : rows[i] \in Row /\ rows[i].key \in 0..lastKey
<1>. USE ComposeAssumption
<1>1. lastKey \in 0..MaxKeys /\ lastKey \in Nat /\ lastRow \in 0..MaxRows /\ lastRow \in Nat
  BY DEF RowsInv, RowsShape, TextsInv, DiskShape
<1>2. ASSUME NEW q \in Requests
      PROVE  /\ req[q].id \in 0..lastRow /\ req[q].id \in 0..MaxRows
             /\ req[q].key \in 0..lastKey /\ req[q].old \in 0..lastKey
             /\ req[q].pc \in Steps
  <2>1. req[q] \in RequestType /\ req[q].id <= lastRow
    BY DEF RowsInv, ReqShape
  <2>2. req[q].key <= lastKey /\ req[q].old <= lastKey
    BY DEF TextsInv, Fits
  <2>. QED BY <1>1, <2>1, <2>2 DEF RequestType
<1>3. ASSUME NEW i \in Ids
      PROVE  rows[i] \in Row /\ rows[i].key \in 0..lastKey
  BY <1>1 DEF TextsInv, DiskShape, RowsInv, RowsShape, NoRow, NoKey
<1>. QED BY <1>1, <1>2, <1>3

(* A request that leaves, or goes on with what it holds, changes nothing else. *)
LEMMA OneRequestMoves ==
  ASSUME RowsInv, NEW r \in Requests, NEW v, req' = [req EXCEPT ![r] = v]
  PROVE  req'[r] = v /\ \A q \in Requests : q # r => req'[q] = req[q]
  BY DEF RowsInv, ReqShape

-----------------------------------------------------------------------------
(* Steps that change one request and neither the rows nor the files. *)

(* What a request holds fits its step. *)
FitsStep(v, last) ==
  /\ v.key <= last /\ v.old <= last
  /\ IF v.pc \in {"done", "store"} THEN v.key = NoKey ELSE v.key # NoKey
  /\ v.pc \in {"done", "delete", "detach"} \/ v.text \in Texts
  /\ v.pc \in {"mark", "attach", "delete", "detach"} => v.id # NoId
  /\ v.old # NoKey => v.id # NoId

(* The keys that r holds belong to its row and to no other request's row. *)
KeysFit(r, v) ==
  /\ \A i \in Ids : rows[i].key # NoKey /\ rows[i].key \in {v.key, v.old} => v.id = i
  /\ \A q \in Requests \ {r} :
       /\ v.key = req[q].key /\ v.key # NoKey => v.id = req[q].id /\ v.id # NoId
       /\ v.old = req[q].key /\ v.old # NoKey => v.id = req[q].id
       /\ req[q].old = v.key /\ v.key # NoKey => v.id = req[q].id
       /\ Sending(q) => req[q].key \notin {v.key, v.old}
  /\ v.pc \in {"lookup", "transmit", "upsert"} =>
       /\ \A i \in Ids : rows[i].key # v.key
       /\ \A q \in Requests \ {r} : v.key \notin {req[q].key, req[q].old}
       /\ v.old # v.key /\ \A f \in spawned : f.key # v.key

(* No removal that waits takes what r works on. *)
FilesFit(v) ==
  /\ v.pc \notin {"mark", "attach", "save", "detach"}
  /\ v.pc \in {"lookup", "transmit", "upsert"} => emlFiles[v.key] = v.text \/ Gone(v.id)
  /\ \A f \in spawned : f.eml /\ v.key = f.key => Gone(v.id)

DraftFits(r, v) ==
  /\ ~At(r, "mark")
  /\ At(r, "save") => req[r].id # NoId /\ rows[req[r].id].status # "draft"
  /\ v.pc = "write" => \A f \in spawned : ~f.eml /\ v.key = f.key => Past(v.id)

LEMMA QuietTexts ==
  ASSUME RowsInv, TextsInv, NEW r \in Requests, NEW v \in RequestType, req' = [req EXCEPT ![r] = v],
         UNCHANGED <<rows, draftFiles, emlFiles, spawned, saved, raced, lastRow>>,
         lastKey' \in lastKey..MaxKeys, faults' \in 0..faults, AnsweredMail',
         FitsStep(v, lastKey'), KeysFit(r, v), FilesFit(v), faults' = MaxFaults => DraftFits(r, v)
  PROVE  TextsInv'
<1>. USE ComposeAssumption
<1>1. req'[r] = v /\ \A q \in Requests : q # r => req'[q] = req[q]
  BY OneRequestMoves
<1>2. lastKey \in 0..MaxKeys /\ lastKey \in Nat /\ lastKey' \in Nat /\ lastKey <= lastKey' /\ faults \in 0..MaxFaults
  BY TextFacts DEF TextsInv, DiskShape
<1>3. \A i : Gone(i)' <=> Gone(i)
  BY DEF Gone
<1>4. \A q \in Requests : q # r => (Sending(q)' <=> Sending(q))
  BY <1>1 DEF Sending
<1>5. DiskShape'
  BY <1>2 DEF DiskShape, TextsInv
<1>6. Fits'
  <2>1. \A q \in Requests : req[q].key <= lastKey' /\ req[q].old <= lastKey'
    BY <1>2, TextFacts
  <2>2. ASSUME NEW q \in Requests, q # r PROVE FitsStep(req[q], lastKey')
    BY <2>1, <2>2 DEF TextsInv, Fits, FitsStep
  <2>3. ASSUME NEW q \in Requests PROVE FitsStep(req'[q], lastKey')
    BY <1>1, <2>2
  <2>4. ASSUME NEW q \in Requests, req'[q].pc = "detach" PROVE Gone(req'[q].id)
    BY <1>1, <2>4 DEF TextsInv, Fits, FilesFit
  <2>. QED BY <1>3, <2>3, <2>4 DEF Fits, FitsStep
<1>7. KeysInv'
  <2>. USE <1>1 DEF KeysFit
  <2>1. RowKeys'
    BY DEF TextsInv, KeysInv, RowKeys
  <2>2. HeldKeys'
    BY DEF TextsInv, KeysInv, HeldKeys
  <2>3. SharedKeys'
    BY DEF TextsInv, KeysInv, SharedKeys
  <2>4. OwnKey'
    BY <1>4 DEF TextsInv, KeysInv, OwnKey, Sending
  <2>. QED BY <2>1, <2>2, <2>3, <2>4 DEF KeysInv
<1>8. MailInv'
  <2>. USE <1>1, <1>3 DEF TextsInv, MailInv, FilesFit
  <2>1. MailRemovals'
    BY DEF MailRemovals
  <2>2. SendingMail'
    BY <1>4 DEF SendingMail, Sending
  <2>3. MarkedMail'
    BY DEF MarkedMail, At
  <2>4. OneMarker'
    BY DEF OneMarker, At
  <2>5. AttachedMail'
    BY DEF AttachedMail, At
  <2>6. SettledMail'
    BY DEF SettledMail, Settled
  <2>. QED BY <2>1, <2>2, <2>3, <2>4, <2>5, <2>6 DEF MailInv
<1>9. DraftInv'
  <2>1. SUFFICES ASSUME faults' = MaxFaults PROVE (DraftTexts /\ SavedTexts /\ TextRemovals)'
    BY DEF DraftInv
  <2>2. DraftTexts /\ SavedTexts /\ TextRemovals /\ DraftFits(r, v)
    BY <1>2, <2>1 DEF TextsInv, DraftInv
  <2>3. ASSUME NEW i, Past(i)
        PROVE  Past(i)'
    <3>1. Marking(i) => Marking(i)'
      BY <1>1, <2>2 DEF Marking, At, DraftFits
    <3>. QED BY <2>3, <3>1 DEF Past
  <2>4. DraftTexts'
    BY <1>1, <2>2 DEF DraftTexts, DraftFits, At
  <2>5. SavedTexts'
    <3>1. SUFFICES ASSUME NEW q \in Requests, req'[q].pc = "save"
                   PROVE  draftFiles[req'[q].key] = req'[q].text \/ Past(req[q].id)'
      BY <1>1 DEF SavedTexts, At
    <3>. QED BY <1>1, <2>2, <2>3, <3>1 DEF SavedTexts, FilesFit, At
  <2>6. TextRemovals'
    <3>1. SUFFICES ASSUME NEW f \in spawned, ~f.eml, NEW q \in Requests,
                          req'[q].pc \in {"write", "save"}, req'[q].key = f.key
                   PROVE  Past(req[q].id)'
      BY <1>1, <2>2 DEF TextRemovals
    <3>. QED BY <1>1, <2>2, <2>3, <3>1 DEF TextRemovals, DraftFits, FilesFit
  <2>. QED BY <2>4, <2>5, <2>6
<1>. QED BY <1>5, <1>6, <1>7, <1>8, <1>9 DEF TextsInv

LEMMA FaultFacts ==
  ASSUME TextsInv
  PROVE  /\ Succeeds => faults' \in 0..faults
         /\ \A k : Fault(k) => faults' \in 0..faults /\ faults' # MaxFaults
  BY ComposeAssumption DEF TextsInv, DiskShape, Succeeds, Fault

(* Answers that report no success say nothing about rows. *)
NoneSent == \A a \in answers' : a.answer = "sent" => a \in answers

LEMMA NoneSentTexts ==
  ASSUME TextsInv, NoneSent, UNCHANGED <<rows, emlFiles, raced, lastRow>>
  PROVE  AnsweredMail'
  BY DEF TextsInv, MailInv, AnsweredMail, SentIsOnRecord, NoneSent

LEMMA AnswerIsNoneSent ==
  ASSUME NEW r, NEW a, a # "sent", Answer(r, a)
  PROVE  NoneSent /\ Done(r)
  BY DEF Answer, Told, NoneSent

(* A request that ends holds nothing. *)
LEMMA EndTexts ==
  ASSUME RowsInv, TextsInv, NEW r \in Requests, Done(r),
         UNCHANGED <<rows, draftFiles, emlFiles, spawned, saved, raced, lastRow>>,
         lastKey' \in lastKey..MaxKeys, faults' \in 0..faults, AnsweredMail',
         faults' = MaxFaults => ~At(r, "mark") /\ (At(r, "save") => ~UpsertFinds(req[r].id))
  PROVE  TextsInv'
<1>1. lastKey \in Nat /\ lastKey' \in Nat /\ 0 <= lastKey'
  BY TextFacts
<1>2. FitsStep(NoRequest, lastKey')
  BY <1>1 DEF FitsStep, NoRequest, NoKey
<1>3. KeysFit(r, NoRequest)
  <2>1. \A q \in Requests : Sending(q) => req[q].key # NoKey
    BY DEF TextsInv, Fits, Sending
  <2>. QED BY <2>1 DEF KeysFit, NoRequest
<1>4. FilesFit(NoRequest)
  <2>1. \A f \in spawned : f.key # NoKey
    BY ComposeAssumption DEF TextsInv, DiskShape, NoKey
  <2>. QED BY <2>1 DEF FilesFit, NoRequest
<1>5. faults' = MaxFaults => DraftFits(r, NoRequest)
  <2>1. At(r, "save") /\ ~UpsertFinds(req[r].id) =>
          req[r].id # NoId /\ rows[req[r].id].status # "draft"
    BY DEF UpsertFinds, Exists, NoRow
  <2>. QED BY <2>1 DEF DraftFits, NoRequest
<1>. QED BY <1>2, <1>3, <1>4, <1>5, NoRequestType, QuietTexts DEF Done

LEMMA SendStartTexts ==
  ASSUME RowsInv, TextsInv, NEW r \in Requests, NEW id \in KnownIds, NEW text \in Texts,
         SendStart(r, id, text)
  PROVE  TextsInv'
<1>. DEFINE v == [pc |-> "store", id |-> id, text |-> text, key |-> NoKey, old |-> NoKey, ok |-> FALSE]
<1>1. UNCHANGED <<rows, draftFiles, emlFiles, spawned, saved, raced, lastRow, lastKey>>
  BY DEF SendStart, store, disk, fresh
<1>2. faults' \in 0..faults /\ (req' # req => req' = [req EXCEPT ![r] = v])
  BY FaultFacts DEF SendStart, NoRequest
<1>3. AnsweredMail'
  BY <1>1, NoneSentTexts DEF SendStart, NoneSent, Told
<1>4. lastKey \in Nat /\ lastKey' \in lastKey..MaxKeys
  BY <1>1, TextFacts, ComposeAssumption
<1>5. CASE req' = req
  <2>1. req' = [req EXCEPT ![r] = req[r]] /\ req[r] \in RequestType
    BY <1>5 DEF RowsInv, ReqShape
  <2>2. req[r].pc = "done" /\ req[r].key = NoKey
    BY DEF SendStart, Idle, TextsInv, Fits
  <2>3. FitsStep(req[r], lastKey')
    BY <1>1 DEF TextsInv, Fits, FitsStep
  <2>4. KeysFit(r, req[r])
    BY <2>2 DEF TextsInv, KeysInv, HeldKeys, SharedKeys, OwnKey, KeysFit
  <2>5. FilesFit(req[r]) /\ DraftFits(r, req[r])
    BY <2>2 DEF FilesFit, DraftFits, At, TextsInv, MailInv, MailRemovals
  <2>. QED BY <1>1, <1>2, <1>3, <1>4, <2>1, <2>3, <2>4, <2>5, QuietTexts
<1>6. CASE req' # req
  <2>1. v \in RequestType
    BY ComposeAssumption DEF RequestType, Steps, KnownIds, RowsInv, RowsShape, NoId, NoKey
  <2>2. FitsStep(v, lastKey')
    BY <1>1, <1>4 DEF FitsStep, NoKey
  <2>3. KeysFit(r, v)
    <3>1. \A q \in Requests : Sending(q) => req[q].key # NoKey
      BY DEF TextsInv, Fits, Sending
    <3>. QED BY <3>1 DEF KeysFit
  <2>4. FilesFit(v) /\ DraftFits(r, v)
    <3>1. \A f \in spawned : f.key # NoKey
      BY ComposeAssumption DEF TextsInv, DiskShape, NoKey
    <3>. QED BY <3>1 DEF FilesFit, DraftFits, At, Idle, SendStart
  <2>. HIDE DEF v
  <2>. QED BY <1>1, <1>2, <1>3, <1>4, <1>6, <2>1, <2>2, <2>3, <2>4, QuietTexts
<1>. QED BY <1>5, <1>6

LEMMA SendLookupTexts ==
  ASSUME RowsInv, TextsInv, NEW r \in Requests, SendLookup(r)
  PROVE  TextsInv'
<1>1. UNCHANGED <<rows, draftFiles, emlFiles, spawned, saved, raced, lastRow, lastKey, answers>>
  BY DEF SendLookup, store, disk, fresh
<1>2. AnsweredMail'
  BY <1>1, NoneSentTexts DEF NoneSent
<1>3. lastKey' \in lastKey..MaxKeys /\ faults' \in 0..faults
  BY <1>1, TextFacts, FaultFacts, ComposeAssumption DEF SendLookup
<1>4. PICK old \in Nat :
        /\ req' = [req EXCEPT ![r] = [req[r] EXCEPT !.pc = "transmit", !.old = old]]
        /\ old = req[r].old \/ old = NoKey \/ (Exists(req[r].id) /\ old = rows[req[r].id].key)
  <2>1. req[r].old \in Nat /\ NoKey \in Nat /\ (Exists(req[r].id) => rows[req[r].id].key \in Nat)
    BY TextFacts, ComposeAssumption DEF Exists, NoId, NoKey, Ids
  <2>. DEFINE old == IF Exists(req[r].id) THEN rows[req[r].id].key ELSE NoKey
  <2>2. CASE req' = [req EXCEPT ![r].pc = "transmit", ![r].old = old]
    <3>1. old \in Nat /\ (old = NoKey \/ (Exists(req[r].id) /\ old = rows[req[r].id].key))
      BY <2>1
    <3>2. req' = [req EXCEPT ![r] = [req[r] EXCEPT !.pc = "transmit", !.old = old]]
      BY <2>2 DEF RowsInv, ReqShape, RequestType
    <3>. HIDE DEF old
    <3>. QED BY <3>1, <3>2
  <2>3. CASE req' = [req EXCEPT ![r].pc = "transmit"]
    <3>1. req' = [req EXCEPT ![r] = [req[r] EXCEPT !.pc = "transmit", !.old = req[r].old]]
      BY <2>3 DEF RowsInv, ReqShape, RequestType
    <3>. QED BY <2>1, <3>1
  <2>. QED BY <2>2, <2>3 DEF SendLookup
<1>. DEFINE v == [req[r] EXCEPT !.pc = "transmit", !.old = old]
<1>5. /\ v \in RequestType /\ v.pc = "transmit" /\ v.id = req[r].id /\ v.text = req[r].text
      /\ v.key = req[r].key /\ v.old = old
  BY DEF RowsInv, ReqShape, RequestType, Steps
<1>. HIDE DEF v
<1>6. req[r].pc = "lookup" /\ Sending(r) /\ (Exists(req[r].id) => req[r].id \in Ids)
  BY TextFacts DEF SendLookup, At, Sending, Exists, Ids, NoId
<1>7. FitsStep(v, lastKey')
  BY <1>1, <1>4, <1>5, <1>6, TextFacts DEF FitsStep, TextsInv, Fits, Exists, NoKey
<1>8. KeysFit(r, v)
  <2>1. CASE old \in {req[r].old, NoKey}
    <3>1. \A q \in Requests : Sending(q) => req[q].key # NoKey
      BY DEF TextsInv, Fits, Sending
    <3>. QED BY <1>5, <1>6, <2>1, <3>1
            DEF KeysFit, TextsInv, KeysInv, HeldKeys, SharedKeys, OwnKey
  <2>2. CASE req[r].id \in Ids /\ old = rows[req[r].id].key
    <3>1. \A i \in Ids : rows[i].key # NoKey /\ rows[i].key \in {v.key, v.old} => v.id = i
      BY <1>5, <2>2 DEF TextsInv, KeysInv, RowKeys, HeldKeys
    <3>. QED BY <1>5, <1>6, <2>2, <3>1 DEF KeysFit, TextsInv, KeysInv, HeldKeys, SharedKeys, OwnKey
  <2>. QED BY <1>4, <1>6, <2>1, <2>2
<1>9. FilesFit(v) /\ DraftFits(r, v)
  BY <1>5, <1>6 DEF FilesFit, DraftFits, At, TextsInv, MailInv, MailRemovals, SendingMail
<1>. QED BY <1>1, <1>2, <1>3, <1>4, <1>5, <1>7, <1>8, <1>9, QuietTexts DEF v

LEMMA SendTransmitTexts ==
  ASSUME RowsInv, TextsInv, NEW r \in Requests, SendTransmit(r)
  PROVE  TextsInv'
<1>1. UNCHANGED <<rows, draftFiles, emlFiles, spawned, saved, raced, lastRow, lastKey, answers, faults>>
  BY DEF SendTransmit, store, disk, fresh
<1>2. AnsweredMail'
  BY <1>1, NoneSentTexts DEF NoneSent
<1>3. lastKey' \in lastKey..MaxKeys /\ faults' \in 0..faults
  BY <1>1, TextFacts, FaultFacts, ComposeAssumption DEF Succeeds
<1>4. PICK ok \in BOOLEAN : req' = [req EXCEPT ![r] = [req[r] EXCEPT !.pc = "upsert", !.ok = ok]]
  BY DEF SendTransmit
<1>. DEFINE v == [req[r] EXCEPT !.pc = "upsert", !.ok = ok]
<1>5. /\ v \in RequestType /\ v.pc = "upsert" /\ v.id = req[r].id /\ v.text = req[r].text
      /\ v.key = req[r].key /\ v.old = req[r].old
  BY DEF RowsInv, ReqShape, RequestType, Steps
<1>. HIDE DEF v
<1>6. req[r].pc = "transmit" /\ Sending(r)
  BY DEF SendTransmit, At, Sending
<1>7. FitsStep(v, lastKey')
  BY <1>1, <1>5, <1>6 DEF FitsStep, TextsInv, Fits
<1>8. KeysFit(r, v)
  BY <1>5, <1>6 DEF KeysFit, TextsInv, KeysInv, RowKeys, HeldKeys, SharedKeys, OwnKey
<1>9. FilesFit(v) /\ DraftFits(r, v)
  BY <1>5, <1>6 DEF FilesFit, DraftFits, At, TextsInv, MailInv, MailRemovals, SendingMail
<1>. QED BY <1>1, <1>2, <1>3, <1>4, <1>5, <1>7, <1>8, <1>9, QuietTexts DEF v

(* A request that starts on a row with the row's own key, or with a new one. *)
LEMMA OpenTexts ==
  ASSUME RowsInv, TextsInv, NEW r \in Requests, Idle(r), NEW id \in KnownIds, NEW pc \in {"write", "delete"},
         NEW key \in Nat, NEW v \in RequestType, v.pc = pc, v.id = id, v.key = key, v.old = NoKey,
         pc = "write" => v.text \in Texts, pc = "delete" => id # NoId, req' = [req EXCEPT ![r] = v],
         UNCHANGED <<rows, draftFiles, emlFiles, spawned, saved, raced, lastRow, answers>>,
         \/ Exists(id) /\ key = rows[id].key /\ lastKey' = lastKey
         \/ key = lastKey + 1 /\ lastKey < MaxKeys /\ lastKey' = lastKey + 1,
         faults' \in 0..faults
  PROVE  TextsInv'
<1>. USE ComposeAssumption
<1>1. id \in 0..MaxRows /\ (Exists(id) => id \in Ids /\ rows[id] # NoRow /\ id # NoId)
  BY DEF KnownIds, RowsInv, RowsShape, NoId, Ids, Exists
<1>2. v.pc = pc /\ v.id = id /\ v.key = key /\ v.old = NoKey
  OBVIOUS
<1>3. AnsweredMail'
  BY NoneSentTexts DEF NoneSent
<1>4. lastKey' \in lastKey..MaxKeys
  BY TextFacts
<1>5. \A q \in Requests : Sending(q) => req[q].key # NoKey
  BY DEF TextsInv, Fits, Sending
<1>6. FitsStep(v, lastKey') /\ KeysFit(r, v) /\ FilesFit(v) /\ (faults' = MaxFaults => DraftFits(r, v))
  <2>1. CASE Exists(id) /\ key = rows[id].key /\ lastKey' = lastKey
    <3>1. key \in 1..lastKey
      BY <1>1, <2>1 DEF TextsInv, DiskShape
    <3>2. FitsStep(v, lastKey')
      BY <1>1, <1>2, <2>1, <3>1, TextFacts DEF FitsStep, NoKey
    <3>3. KeysFit(r, v)
      <4>1. \A i \in Ids : rows[i].key # NoKey /\ rows[i].key \in {v.key, v.old} => v.id = i
        BY <1>1, <1>2, <2>1 DEF TextsInv, KeysInv, RowKeys
      <4>2. \A q \in Requests : key \in {req[q].key, req[q].old} => req[q].id = id
        BY <1>1, <2>1, <3>1 DEF TextsInv, KeysInv, HeldKeys, NoKey
      <4>. QED BY <1>1, <1>2, <1>5, <2>1, <4>1, <4>2 DEF KeysFit, TextsInv, KeysInv, OwnKey
    <3>4. FilesFit(v)
      BY <1>1, <1>2, <2>1 DEF FilesFit, TextsInv, MailInv, MailRemovals
    <3>5. ASSUME faults' = MaxFaults PROVE DraftFits(r, v)
      <4>1. TextRemovals
        BY <3>5 DEF TextsInv, DiskShape, DraftInv
      <4>. QED BY <1>1, <1>2, <2>1, <4>1 DEF DraftFits, Idle, At, Past, TextRemovals
    <3>. QED BY <3>2, <3>3, <3>4, <3>5
  <2>2. CASE key = lastKey + 1 /\ lastKey < MaxKeys /\ lastKey' = lastKey + 1
    <3>1. /\ \A i \in Ids : rows[i].key # key
          /\ \A q \in Requests : key # req[q].key /\ key # req[q].old
          /\ \A f \in spawned : f.key # key
          /\ key # NoKey
      BY <2>2, TextFacts DEF TextsInv, DiskShape, NoKey
    <3>2. FitsStep(v, lastKey')
      BY <1>2, <2>2, <3>1, TextFacts DEF FitsStep, NoKey
    <3>3. KeysFit(r, v)
      BY <1>2, <1>5, <2>2, <3>1 DEF KeysFit
    <3>4. FilesFit(v) /\ DraftFits(r, v)
      BY <1>2, <2>2, <3>1 DEF FilesFit, DraftFits, Idle, At
    <3>. QED BY <3>2, <3>3, <3>4
  <2>. QED BY <2>1, <2>2
<1>. QED BY <1>3, <1>4, <1>6, QuietTexts

LEMMA SaveStartTexts ==
  ASSUME RowsInv, TextsInv, NEW r \in Requests, NEW id \in KnownIds, NEW text \in Texts,
         SaveStart(r, id, text)
  PROVE  TextsInv'
<1>1. UNCHANGED <<rows, draftFiles, emlFiles, spawned, saved, raced, lastRow, answers>> /\ Idle(r)
  BY DEF SaveStart, store, disk
<1>2. faults' \in 0..faults
  BY FaultFacts DEF SaveStart
<1>3. PICK key \in Nat :
        /\ req' = [req EXCEPT ![r] = [NoRequest EXCEPT !.pc = "write", !.id = id, !.text = text, !.key = key]]
        /\ \/ Exists(id) /\ key = rows[id].key /\ lastKey' = lastKey
           \/ key = lastKey + 1 /\ lastKey < MaxKeys /\ lastKey' = lastKey + 1
  <2>1. Exists(id) => rows[id].key \in Nat
    BY ComposeAssumption DEF Exists, KnownIds, RowsInv, RowsShape, Row, Ids, NoId
  <2>2. lastKey + 1 \in Nat
    BY TextFacts
  <2>. QED BY <2>1, <2>2 DEF SaveStart
<1>. DEFINE v == [NoRequest EXCEPT !.pc = "write", !.id = id, !.text = text, !.key = key]
<1>4. v \in RequestType /\ v.pc = "write" /\ v.id = id /\ v.text = text /\ v.key = key /\ v.old = NoKey
  <2>1. id \in 0..MaxRows
    BY ComposeAssumption DEF KnownIds, RowsInv, RowsShape, NoId
  <2>2. v \in RequestType
    BY <2>1, NoRequestType DEF RequestType, Steps
  <2>. QED BY <2>2 DEF NoRequest
<1>. HIDE DEF v
<1>5. req' = [req EXCEPT ![r] = v]
  BY <1>3 DEF v
<1>6. CASE Exists(id) /\ key = rows[id].key /\ lastKey' = lastKey
  BY <1>1, <1>2, <1>4, <1>5, <1>6, OpenTexts
<1>7. CASE key = lastKey + 1 /\ lastKey < MaxKeys /\ lastKey' = lastKey + 1
  BY <1>1, <1>2, <1>4, <1>5, <1>7, OpenTexts
<1>. QED BY <1>3, <1>6, <1>7

LEMMA DeleteStartTexts ==
  ASSUME RowsInv, TextsInv, NEW r \in Requests, NEW id \in 1..lastRow, DeleteStart(r, id)
  PROVE  TextsInv'
<1>1. UNCHANGED <<rows, draftFiles, emlFiles, spawned, saved, raced, lastRow, lastKey, answers>>
      /\ Idle(r) /\ Exists(id) /\ id # NoId
  BY DEF DeleteStart, Exists, store, disk, fresh
<1>2. faults' \in 0..faults
  BY FaultFacts DEF DeleteStart, Succeeds
<1>3. id \in KnownIds /\ id \in 0..MaxRows /\ rows[id].key \in Nat
  BY ComposeAssumption DEF KnownIds, RowsInv, RowsShape, Row, Ids
<1>. DEFINE v == [NoRequest EXCEPT !.pc = "delete", !.id = id, !.key = rows[id].key]
<1>4. v \in RequestType /\ v.pc = "delete" /\ v.id = id /\ v.key = rows[id].key /\ v.old = NoKey
  <2>1. v \in RequestType
    BY <1>3, NoRequestType DEF RequestType, Steps
  <2>. QED BY <2>1 DEF NoRequest
<1>. HIDE DEF v
<1>5. req' = [req EXCEPT ![r] = v]
  BY DEF DeleteStart, v
<1>. QED BY <1>1, <1>2, <1>3, <1>4, <1>5, OpenTexts

(* The mail is stored under a key that nobody has seen. *)
LEMMA SendStoreTexts ==
  ASSUME RowsInv, TextsInv, NEW r \in Requests, SendStore(r)
  PROVE  TextsInv'
<1>. USE ComposeAssumption
<1>1. /\ UNCHANGED <<rows, draftFiles, spawned, saved, raced, lastRow>> /\ At(r, "store")
      /\ lastKey' = lastKey + 1 /\ lastKey' \in Keys /\ lastKey' \in lastKey..MaxKeys
  BY TextFacts DEF SendStore, store, Keys
<1>2. CASE Fault("io") /\ Answer(r, "storage") /\ UNCHANGED emlFiles
  <2>1. Done(r) /\ NoneSent
    BY <1>2, AnswerIsNoneSent
  <2>2. AnsweredMail' /\ faults' \in 0..faults
    BY <1>1, <1>2, <2>1, NoneSentTexts, FaultFacts
  <2>. QED BY <1>1, <1>2, <2>1, <2>2, EndTexts DEF At
<1>3. CASE /\ Succeeds
           /\ emlFiles' = [emlFiles EXCEPT ![lastKey'] = req[r].text]
           /\ req' = [req EXCEPT ![r].pc = "lookup", ![r].key = lastKey']
           /\ UNCHANGED answers
  <2>. DEFINE v == [req[r] EXCEPT !.pc = "lookup", !.key = lastKey']
  <2>1. /\ v.pc = "lookup" /\ v.id = req[r].id /\ v.text = req[r].text
        /\ v.key = lastKey' /\ v.old = req[r].old /\ req' = [req EXCEPT ![r] = v]
    BY <1>3 DEF RowsInv, ReqShape, RequestType
  <2>. HIDE DEF v
  <2>2. req'[r] = v /\ \A q \in Requests : q # r => req'[q] = req[q]
    BY <2>1, OneRequestMoves
  <2>3. \A k \in 1..lastKey : k \in Keys /\ k # lastKey' /\ emlFiles'[k] = emlFiles[k]
    BY <1>1, <1>3, TextFacts DEF Keys, TextsInv, DiskShape
  <2>4. emlFiles'[lastKey'] = req[r].text
    BY <1>1, <1>3 DEF TextsInv, DiskShape
  <2>5. /\ \A i \in Ids : rows[i].key # lastKey'
        /\ \A q \in Requests : lastKey' # req[q].key /\ lastKey' # req[q].old
        /\ \A f \in spawned : f.key # lastKey'
        /\ lastKey' # NoKey
    BY <1>1, TextFacts DEF TextsInv, DiskShape, NoKey
  <2>6. faults' = faults
    BY <1>3 DEF Succeeds
  <2>7. \A q \in Requests : Sending(q)' <=> (q = r \/ Sending(q))
    BY <2>1, <2>2 DEF Sending
  <2>8. \A i : Gone(i)' <=> Gone(i)
    BY <1>1 DEF Gone
  <2>9. DiskShape'
    <3>1. req[r].text \in Texts
      BY <1>1 DEF At, TextsInv, Fits
    <3>2. emlFiles' \in [Keys -> Texts \cup {NoText}]
      BY <1>3, <3>1 DEF TextsInv, DiskShape
    <3>. QED BY <1>1, <2>6, <3>2, TextFacts DEF DiskShape, TextsInv
  <2>10. Fits'
    <3>1. \A q \in Requests : req[q].key <= lastKey' /\ req[q].old <= lastKey'
      BY <1>1, TextFacts
    <3>2. FitsStep(v, lastKey')
      BY <1>1, <2>1, <2>5, <3>1, TextFacts DEF TextsInv, Fits, FitsStep, At
    <3>3. ASSUME NEW q \in Requests, q # r PROVE FitsStep(req[q], lastKey')
      BY <3>1, <3>3 DEF TextsInv, Fits, FitsStep
    <3>4. ASSUME NEW q \in Requests PROVE FitsStep(req'[q], lastKey')
      BY <2>2, <3>2, <3>3
    <3>5. ASSUME NEW q \in Requests, req'[q].pc = "detach" PROVE Gone(req'[q].id)
      BY <2>1, <2>2, <3>5 DEF TextsInv, Fits
    <3>. QED BY <2>8, <3>4, <3>5 DEF Fits, FitsStep
  <2>11. KeysInv'
    <3>. USE <1>1, <2>1, <2>2, <2>5
    <3>1. RowKeys'
      BY DEF TextsInv, KeysInv, RowKeys
    <3>2. HeldKeys'
      BY DEF TextsInv, KeysInv, HeldKeys
    <3>3. SharedKeys'
      BY DEF TextsInv, KeysInv, SharedKeys
    <3>4. OwnKey'
      BY <2>7 DEF TextsInv, KeysInv, OwnKey
    <3>. QED BY <3>1, <3>2, <3>3, <3>4 DEF KeysInv
  <2>12. MailInv'
    <3>. USE <1>1, <2>1, <2>2, <2>8 DEF TextsInv, MailInv
    <3>1. MailRemovals'
      BY <2>5 DEF MailRemovals
    <3>2. SendingMail'
      <4>1. \A q \in Requests : Sending(q) => req[q].key \in 1..lastKey
        BY TextFacts DEF Fits, Sending, NoKey
      <4>. QED BY <2>3, <2>4, <2>7, <4>1 DEF SendingMail
    <3>3. MarkedMail'
      <4>1. \A q \in Requests : At(q, "mark") => req[q].key \in 1..lastKey
        BY TextFacts DEF Fits, At, NoKey
      <4>. QED BY <2>3, <4>1 DEF MarkedMail, At
    <3>4. OneMarker'
      BY DEF OneMarker, At
    <3>5. AttachedMail'
      <4>1. \A q \in Requests : At(q, "attach") => req[q].key \in 1..lastKey
        BY TextFacts DEF Fits, At, NoKey
      <4>. QED BY <2>3, <4>1 DEF AttachedMail, At
    <3>6. \A i \in Ids : rows[i] # NoRow => rows[i].key \in 1..lastKey
      BY DEF DiskShape
    <3>7. SettledMail'
      <4>1. \A i \in Ids : Settled(i) => rows[i] # NoRow
        BY DEF Settled, NoRow
      <4>. QED BY <2>3, <3>6, <4>1 DEF SettledMail, Settled
    <3>8. AnsweredMail'
      <4>1. \A a \in answers : a.answer = "sent" => a.id \in Ids
        BY DEF AnsweredMail, RowsInv, RowsShape, Ids
      <4>. QED BY <1>3, <2>3, <3>6, <4>1 DEF AnsweredMail, SentIsOnRecord
    <3>. QED BY <3>1, <3>2, <3>3, <3>4, <3>5, <3>7, <3>8 DEF MailInv
  <2>13. DraftInv'
    <3>1. \A i : Marking(i)' <=> Marking(i)
      BY <1>1, <2>1, <2>2 DEF Marking, At
    <3>2. \A i : Past(i)' <=> Past(i)
      BY <1>1, <3>1 DEF Past
    <3>3. DraftTexts => DraftTexts'
      BY <1>1, <2>1, <2>2 DEF DraftTexts, At
    <3>4. SavedTexts => SavedTexts'
      BY <1>1, <2>1, <2>2, <3>2 DEF SavedTexts, At
    <3>5. TextRemovals => TextRemovals'
      BY <1>1, <2>1, <2>2, <3>2 DEF TextRemovals, At
    <3>. QED BY <2>6, <3>3, <3>4, <3>5 DEF TextsInv, DraftInv
  <2>. QED BY <2>9, <2>10, <2>11, <2>12, <2>13 DEF TextsInv
<1>. QED BY <1>2, <1>3 DEF SendStore

LEMMA SendAttachTexts ==
  ASSUME RowsInv, TextsInv, NEW r \in Requests, SendAttach(r)
  PROVE  TextsInv'
<1>1. UNCHANGED <<rows, draftFiles, emlFiles, spawned, saved, raced, lastRow, lastKey>> /\ At(r, "attach")
  BY DEF SendAttach, disk, fresh
<1>2. lastKey' \in lastKey..MaxKeys /\ faults' \in 0..faults
  BY <1>1, TextFacts, FaultFacts, ComposeAssumption DEF SendAttach
<1>3. Done(r)
  BY DEF SendAttach, Answer
<1>4. AnsweredMail'
  <2>1. CASE ~req[r].ok
    <3>1. NoneSent
      BY <2>1, AnswerIsNoneSent DEF SendAttach
    <3>. QED BY <1>1, <3>1, NoneSentTexts
  <2>2. CASE req[r].ok
    <3>. DEFINE a == [answer |-> "sent", ok |-> req[r].ok, id |-> req[r].id,
                      key |-> req[r].key, text |-> req[r].text]
    <3>1. answers' = answers \cup {a}
      BY <2>2 DEF SendAttach, Answer
    <3>2. a.ok /\ a.id = req[r].id /\ a.key = req[r].key /\ a.text = req[r].text
      BY <2>2
    <3>. HIDE DEF a
    <3>3. req[r].id \in 1..lastRow
      BY <1>1, TextFacts DEF TextsInv, Fits, At, NoId
    <3>4. req[r].id \notin raced /\ rows[req[r].id] # NoRow =>
            rows[req[r].id] = [status |-> "sent", key |-> req[r].key] /\ emlFiles[req[r].key] = req[r].text
      BY <1>1, <2>2 DEF TextsInv, MailInv, AttachedMail, Gone
    <3>5. SentIsOnRecord'
      BY <1>1, <3>1, <3>2, <3>4 DEF SentIsOnRecord, TextsInv, MailInv, AnsweredMail
    <3>. QED BY <1>1, <3>1, <3>2, <3>3, <3>5 DEF TextsInv, MailInv, AnsweredMail
  <2>. QED BY <2>1, <2>2
<1>. QED BY <1>1, <1>2, <1>3, <1>4, EndTexts DEF At

-----------------------------------------------------------------------------
(* Steps that change the rows or the files. *)

(* The keys of a step that changes no key: every row keeps its own or is gone, and r holds
   what it held or nothing. *)
LEMMA SameKeys ==
  ASSUME RowsInv, TextsInv, NEW r \in Requests, NEW v, req' = [req EXCEPT ![r] = v],
         \/ v = NoRequest
         \/ /\ v.id = req[r].id /\ v.key = req[r].key /\ v.old = req[r].old
            /\ v.pc \notin {"lookup", "transmit", "upsert"},
         \A i \in Ids : rows'[i].key \in {rows[i].key, NoKey},
         \A f \in spawned' : f \in spawned \/ f.key = req[r].key
  PROVE  KeysInv'
<1>1. req'[r] = v /\ \A q \in Requests : q # r => req'[q] = req[q]
  BY OneRequestMoves
<1>2. NoRequest.key = NoKey /\ NoRequest.old = NoKey /\ NoRequest.pc = "done"
  BY DEF NoRequest
<1>3. \A q \in Requests : Sending(q)' => q # r /\ Sending(q) /\ req[q].key # NoKey
  BY <1>1, <1>2 DEF Sending, TextsInv, Fits
<1>. USE <1>1, <1>2 DEF TextsInv, KeysInv
<1>4. RowKeys'
  BY DEF RowKeys
<1>5. HeldKeys'
  BY DEF HeldKeys
<1>6. SharedKeys'
  BY DEF SharedKeys
<1>7. OwnKey'
  BY <1>3 DEF OwnKey
<1>. QED BY <1>4, <1>5, <1>6, <1>7 DEF KeysInv

(* What the other requests hold still fits. *)
LEMMA SameFits ==
  ASSUME RowsInv, TextsInv, NEW r \in Requests, NEW v, req' = [req EXCEPT ![r] = v], lastKey' = lastKey,
         v = NoRequest \/ FitsStep(v, lastKey), v.pc = "detach" => v.id # NoId /\ rows'[v.id] = NoRow,
         \A i \in 0..lastRow : Gone(i) => Gone(i)'
  PROVE  Fits'
<1>1. req'[r] = v /\ \A q \in Requests : q # r => req'[q] = req[q]
  BY OneRequestMoves
<1>2. lastKey \in Nat /\ 0 <= lastKey
  BY TextFacts
<1>3. FitsStep(v, lastKey)
  BY <1>2 DEF FitsStep, NoRequest, NoKey
<1>4. ASSUME NEW q \in Requests
      PROVE  FitsStep(req'[q], lastKey)
  <2>1. CASE q = r
    BY <1>1, <1>3, <2>1
  <2>2. CASE q # r
    BY <1>1, <2>2 DEF FitsStep, TextsInv, Fits
  <2>. QED BY <2>1, <2>2
<1>5. ASSUME NEW q \in Requests, req'[q].pc = "detach"
      PROVE  Gone(req[q].id)'
  <2>1. CASE q = r
    BY <1>1, <1>5, <2>1 DEF Gone
  <2>2. CASE q # r
    BY <1>1, <1>5, <2>2, TextFacts DEF TextsInv, Fits
  <2>. QED BY <2>1, <2>2
<1>. QED BY <1>4, <1>5 DEF Fits, FitsStep

(* The draft's file is overwritten: if another save of the same row is waiting, the row
   is raced. *)
LEMMA SaveWriteTexts ==
  ASSUME RowsInv, TextsInv, NEW r \in Requests, SaveWrite(r)
  PROVE  TextsInv'
<1>. USE ComposeAssumption
<1>1. UNCHANGED <<rows, emlFiles, spawned, saved, lastRow, lastKey, answers>> /\ At(r, "write")
  BY DEF SaveWrite, store, fresh
<1>2. CASE Fault("io") /\ Done(r) /\ UNCHANGED <<draftFiles, raced>>
  <2>1. AnsweredMail' /\ lastKey' \in lastKey..MaxKeys /\ faults' \in 0..faults
    BY <1>1, <1>2, NoneSentTexts, TextFacts, FaultFacts DEF NoneSent
  <2>. QED BY <1>1, <1>2, <2>1, EndTexts DEF At
<1>3. CASE /\ Succeeds
           /\ draftFiles' = [draftFiles EXCEPT ![req[r].key] = req[r].text]
           /\ Between(req[r].id, "save")
           /\ Goes(r, "save")
  <2>. DEFINE v == [req[r] EXCEPT !.pc = "save"]
  <2>1. /\ v.pc = "save" /\ v.id = req[r].id /\ v.text = req[r].text
        /\ v.key = req[r].key /\ v.old = req[r].old /\ req' = [req EXCEPT ![r] = v]
    BY <1>3 DEF Goes, RowsInv, ReqShape, RequestType
  <2>. HIDE DEF v
  <2>2. req'[r] = v /\ \A q \in Requests : q # r => req'[q] = req[q]
    BY <2>1, OneRequestMoves
  <2>3. /\ raced \subseteq raced'
        /\ \A q \in Requests : At(q, "save") /\ req[q].id = req[r].id /\ req[r].id # NoId => req[r].id \in raced'
    BY <1>3 DEF Between
  <2>4. req[r].pc = "write" /\ req[r].key \in Keys /\ req[r].key # NoKey /\ req[r].text \in Texts
    BY <1>1, TextFacts DEF At, TextsInv, Fits, Keys, NoKey
  <2>5. draftFiles'[req[r].key] = req[r].text /\ \A k \in Keys : k # req[r].key => draftFiles'[k] = draftFiles[k]
    BY <1>3, <2>4 DEF TextsInv, DiskShape
  <2>6. \A i : Gone(i)' <=> Gone(i)
    BY <1>1 DEF Gone
  <2>7. \A q \in Requests : Sending(q)' <=> Sending(q)
    BY <2>1, <2>2, <2>4 DEF Sending
  <2>8. DiskShape'
    <3>1. draftFiles' \in [Keys -> Texts \cup {NoText}]
      BY <1>3, <2>4 DEF TextsInv, DiskShape
    <3>. QED BY <1>1, <1>3, <3>1 DEF TextsInv, DiskShape, Succeeds
  <2>9. Fits'
    <3>1. FitsStep(v, lastKey)
      BY <1>1, <2>1, <2>4 DEF FitsStep, TextsInv, Fits
    <3>. QED BY <1>1, <2>1, <2>6, <3>1, SameFits
  <2>10. KeysInv'
    BY <1>1, <2>1, SameKeys
  <2>11. MailInv'
    <3>. USE <1>1, <2>1, <2>2, <2>3, <2>6 DEF TextsInv, MailInv
    <3>1. MailRemovals'
      BY DEF MailRemovals
    <3>2. SendingMail'
      BY <2>7 DEF SendingMail, Sending
    <3>3. MarkedMail' /\ OneMarker' /\ AttachedMail'
      BY DEF MarkedMail, OneMarker, AttachedMail, At
    <3>4. SettledMail' /\ AnsweredMail'
      BY DEF SettledMail, Settled, AnsweredMail, SentIsOnRecord
    <3>. QED BY <3>1, <3>2, <3>3, <3>4 DEF MailInv
  <2>12. DraftInv'
    <3>1. SUFFICES ASSUME faults' = MaxFaults PROVE (DraftTexts /\ SavedTexts /\ TextRemovals)'
      BY DEF DraftInv
    <3>2. DraftTexts /\ SavedTexts /\ TextRemovals
      BY <1>3, <3>1 DEF Succeeds, TextsInv, DraftInv
    <3>3. \A i : Marking(i) => Marking(i)'
      BY <2>1, <2>2, <2>4 DEF Marking, At
    <3>4. \A i : Past(i) => Past(i)'
      BY <1>1, <2>3, <3>3 DEF Past
    <3>5. DraftTexts'
      <4>1. SUFFICES ASSUME NEW id \in Ids, id \notin raced', rows[id].status = "draft"
                     PROVE  \/ draftFiles'[rows[id].key] = saved[id]
                            \/ \E q \in Requests : req'[q].id = id /\ req'[q].pc \in {"save", "mark"}
        BY <1>1 DEF DraftTexts
      <4>2. id \notin raced /\ rows[id].key \in Keys /\ rows[id].key # NoKey
        BY <2>3, <4>1 DEF TextsInv, DiskShape, NoRow, Keys, NoKey
      <4>3. CASE rows[id].key = req[r].key
        <5>1. req[r].id = id
          BY <4>2, <4>3 DEF TextsInv, KeysInv, HeldKeys
        <5>. QED BY <2>1, <2>2, <5>1
      <4>4. CASE rows[id].key # req[r].key
        BY <2>1, <2>2, <2>4, <2>5, <3>2, <4>1, <4>2, <4>4 DEF DraftTexts
      <4>. QED BY <4>3, <4>4
    <3>6. SavedTexts'
      <4>1. SUFFICES ASSUME NEW q \in Requests, req'[q].pc = "save"
                     PROVE  draftFiles'[req'[q].key] = req'[q].text \/ Past(req[q].id)'
        BY DEF SavedTexts, At
      <4>2. CASE q = r
        BY <2>1, <2>2, <2>5, <4>2
      <4>3. CASE q # r /\ req[q].key = req[r].key
        <5>1. req[q].id = req[r].id /\ req[r].id # NoId
          BY <2>4, <4>3 DEF TextsInv, KeysInv, SharedKeys
        <5>2. req'[q].id # NoId /\ req'[q].id \in raced'
          BY <2>2, <2>3, <4>1, <4>3, <5>1 DEF At
        <5>. QED BY <5>2 DEF Past
      <4>4. CASE q # r /\ req[q].key # req[r].key
        <5>1. req[q].key \in Keys /\ req'[q] = req[q]
          BY <2>2, <4>1, <4>4, TextFacts DEF TextsInv, Fits, Keys, NoKey
        <5>2. draftFiles[req[q].key] = req[q].text \/ Past(req[q].id)
          BY <3>2, <4>1, <5>1 DEF SavedTexts, At
        <5>. QED BY <2>5, <3>4, <4>4, <5>1, <5>2
      <4>. QED BY <4>2, <4>3, <4>4
    <3>7. TextRemovals'
      <4>1. SUFFICES ASSUME NEW f \in spawned, ~f.eml, NEW q \in Requests,
                            req'[q].pc \in {"write", "save"}, req'[q].key = f.key
                     PROVE  Past(req[q].id)'
        BY <1>1, <2>3, <3>2 DEF TextRemovals
      <4>2. req[q].pc \in {"write", "save"} /\ req[q].key = f.key /\ req'[q].id = req[q].id
        BY <2>1, <2>2, <2>4, <4>1
      <4>. QED BY <3>2, <3>4, <4>1, <4>2 DEF TextRemovals
    <3>. QED BY <3>5, <3>6, <3>7
  <2>. QED BY <2>8, <2>9, <2>10, <2>11, <2>12 DEF TextsInv
<1>. QED BY <1>2, <1>3 DEF SaveWrite

(* A row goes: nothing that is said of rows is said of it any more. *)
LEMMA RowGoes ==
  ASSUME RowsInv, TextsInv, NEW r \in Requests, At(r, "delete"), NEW v, req' = [req EXCEPT ![r] = v],
         \/ v = NoRequest
         \/ v.pc = "detach" /\ v.id = req[r].id /\ v.key = req[r].key /\ v.old = req[r].old,
         rows' = [rows EXCEPT ![req[r].id] = NoRow],
         UNCHANGED <<draftFiles, emlFiles, spawned, saved, raced, lastRow, lastKey, answers>>, faults' \in 0..faults
  PROVE  TextsInv'
<1>. USE ComposeAssumption
<1>1. req'[r] = v /\ (\A q \in Requests : q # r => req'[q] = req[q]) /\ v.pc \in {"done", "detach"}
  <2>1. NoRequest.pc = "done"
    BY DEF NoRequest
  <2>. QED BY <2>1, OneRequestMoves
<1>2. req[r].pc = "delete" /\ req[r].id \in Ids /\ req[r].id # NoId
  BY TextFacts DEF At, TextsInv, Fits, NoId, Ids
<1>3. \A i \in Ids : rows'[i] = IF i = req[r].id THEN NoRow ELSE rows[i]
  BY DEF RowsInv, RowsShape
<1>4. \A i \in Ids : rows'[i] = NoRow \/ rows'[i] = rows[i]
  BY <1>3
<1>5. ASSUME NEW i, Gone(i) PROVE Gone(i)'
  <2>1. rows'[i] = rows[i] \/ rows'[i] = NoRow
    BY DEF RowsInv, RowsShape
  <2>. QED BY <1>5, <2>1 DEF Gone
<1>6. \A q \in Requests : Sending(q)' => q # r /\ Sending(q)
  BY <1>1 DEF Sending
<1>7. NoRow.key = NoKey /\ NoRow.status = "none"
  BY DEF NoRow
<1>8. DiskShape'
  BY <1>4 DEF TextsInv, DiskShape
<1>9. Fits'
  <2>1. v = NoRequest \/ FitsStep(v, lastKey)
    BY <1>2 DEF FitsStep, TextsInv, Fits
  <2>2. v.pc = "detach" => v.id # NoId /\ rows'[v.id] = NoRow
    BY <1>2, <1>3 DEF NoRequest
  <2>. QED BY <1>5, <2>1, <2>2, SameFits
<1>10. KeysInv'
  <2>1. \A i \in Ids : rows'[i].key \in {rows[i].key, NoKey}
    BY <1>4, <1>7
  <2>. QED BY <1>1, <2>1, SameKeys
<1>11. MailInv'
  <2>. USE <1>1 DEF TextsInv, MailInv
  <2>1. MailRemovals'
    <3>1. \A f \in spawned : f.key # NoKey
      BY DEF DiskShape, NoKey
    <3>2. ASSUME NEW f \in spawned, f.eml, NEW q \in Requests, req'[q].key = f.key
          PROVE  Gone(req[q].id)'
      <4>1. req[q].key = f.key /\ req'[q].id = req[q].id
        BY <3>1, <3>2 DEF NoRequest
      <4>. QED BY <1>5, <3>2, <4>1 DEF MailRemovals
    <3>. QED BY <1>4, <1>7, <3>1, <3>2 DEF MailRemovals
  <2>2. ASSUME NEW q \in Requests, q # r, Gone(req[q].id) PROVE Gone(req[q].id)'
    BY <1>5, <2>2
  <2>3. SendingMail'
    BY <1>6, <2>2 DEF SendingMail
  <2>4. ASSUME NEW q \in Requests, q # r, req[q].id # NoId
        PROVE  Gone(req[q].id)' \/ rows'[req[q].id] = rows[req[q].id]
    <3>1. req[q].id \in Ids
      BY <2>4, TextFacts DEF Ids, NoId
    <3>. QED BY <1>4, <2>4, <3>1 DEF Gone
  <2>5. \A q \in Requests : q # r /\ req[q].pc \in {"mark", "attach"} => req[q].id # NoId
    BY DEF Fits
  <2>6. MarkedMail'
    BY <2>2, <2>4, <2>5 DEF MarkedMail, At
  <2>7. OneMarker'
    BY DEF OneMarker, At
  <2>8. AttachedMail'
    BY <2>2, <2>4, <2>5 DEF AttachedMail, At
  <2>9. SettledMail'
    BY <1>4, <1>7 DEF SettledMail, Settled
  <2>10. AnsweredMail'
    <3>1. \A a \in answers : a.answer = "sent" => a.id \in Ids
      BY DEF AnsweredMail, RowsInv, RowsShape, Ids
    <3>. QED BY <1>4, <3>1 DEF AnsweredMail, SentIsOnRecord
  <2>. QED BY <2>1, <2>3, <2>6, <2>7, <2>8, <2>9, <2>10
<1>12. DraftInv'
  <2>1. SUFFICES ASSUME faults' = MaxFaults PROVE (DraftTexts /\ SavedTexts /\ TextRemovals)'
    BY DEF DraftInv
  <2>2. DraftTexts /\ SavedTexts /\ TextRemovals
    BY <2>1 DEF TextsInv, DiskShape, DraftInv
  <2>3. \A i : Marking(i) => Marking(i)'
    BY <1>1, <1>2 DEF Marking, At
  <2>4. ASSUME NEW q \in Requests, Past(req[q].id), req'[q].id = req[q].id
        PROVE  Past(req[q].id)'
    <3>1. req[q].id \in Ids
      BY <2>4, TextFacts DEF Past, Ids, NoId
    <3>2. rows'[req[q].id].status # "draft" \/ rows'[req[q].id] = rows[req[q].id]
      BY <1>4, <1>7, <3>1
    <3>. QED BY <2>3, <2>4, <3>2 DEF Past
  <2>5. DraftTexts'
    BY <1>1, <1>2, <1>4, <1>7, <2>2 DEF DraftTexts
  <2>6. SavedTexts'
    BY <1>1, <2>2, <2>4 DEF SavedTexts, At
  <2>7. TextRemovals'
    BY <1>1, <1>4, <1>7, <2>2, <2>4 DEF TextRemovals
  <2>. QED BY <2>5, <2>6, <2>7
<1>. QED BY <1>8, <1>9, <1>10, <1>11, <1>12 DEF TextsInv

LEMMA DeleteRowTexts ==
  ASSUME RowsInv, TextsInv, NEW r \in Requests, DeleteRow(r)
  PROVE  TextsInv'
<1>1. UNCHANGED <<draftFiles, emlFiles, spawned, saved, raced, lastRow, lastKey, answers>> /\ At(r, "delete")
  BY DEF DeleteRow, disk, fresh
<1>2. faults' \in 0..faults
  BY FaultFacts DEF DeleteRow, Fails
<1>3. CASE rows' = rows /\ Done(r)
  <2>1. AnsweredMail' /\ lastKey' \in lastKey..MaxKeys
    BY <1>1, <1>3, NoneSentTexts, TextFacts, ComposeAssumption DEF NoneSent
  <2>. QED BY <1>1, <1>2, <1>3, <2>1, EndTexts DEF At
<1>4. CASE rows' = [rows EXCEPT ![req[r].id] = NoRow] /\ Done(r)
  BY <1>1, <1>2, <1>4, RowGoes DEF Done
<1>5. CASE rows' = [rows EXCEPT ![req[r].id] = NoRow] /\ Goes(r, "detach")
  <2>. DEFINE v == [req[r] EXCEPT !.pc = "detach"]
  <2>1. /\ v.pc = "detach" /\ v.id = req[r].id /\ v.key = req[r].key /\ v.old = req[r].old
        /\ req' = [req EXCEPT ![r] = v]
    BY <1>5 DEF Goes, RowsInv, ReqShape, RequestType
  <2>. HIDE DEF v
  <2>. QED BY <1>1, <1>2, <1>5, <2>1, RowGoes
<1>. QED BY <1>3, <1>4, <1>5 DEF DeleteRow, Fails

(* Both files of a row that is gone are to be removed. *)
LEMMA DeleteAttachmentsTexts ==
  ASSUME RowsInv, TextsInv, NEW r \in Requests, DeleteAttachments(r)
  PROVE  TextsInv'
<1>. USE ComposeAssumption
<1>. DEFINE new == {[key |-> req[r].key, eml |-> FALSE], [key |-> req[r].key, eml |-> TRUE]}
<1>1. /\ UNCHANGED <<rows, draftFiles, emlFiles, saved, raced, lastRow, lastKey, answers>>
      /\ At(r, "detach") /\ req' = [req EXCEPT ![r] = NoRequest] /\ spawned' = spawned \cup new
  BY DEF DeleteAttachments, disk, fresh, Done
<1>2. faults' \in 0..faults
  BY FaultFacts DEF DeleteAttachments
<1>3. req'[r] = NoRequest /\ \A q \in Requests : q # r => req'[q] = req[q]
  BY <1>1, OneRequestMoves
<1>4. /\ req[r].pc = "detach" /\ req[r].key \in 1..lastKey /\ req[r].id \in Ids
      /\ rows[req[r].id] = NoRow /\ req[r].id # NoId
  BY <1>1, TextFacts DEF At, TextsInv, Fits, Gone, NoId, NoKey, Ids
<1>5. \A f \in new : f.key = req[r].key
  OBVIOUS
<1>6. /\ \A i \in Ids : rows[i].key # req[r].key
      /\ \A q \in Requests : q # r /\ req[q].key = req[r].key => req[q].id = req[r].id
  BY <1>4 DEF TextsInv, KeysInv, HeldKeys, SharedKeys, NoRow, NoKey
<1>7. \A i : Gone(i)' <=> Gone(i)
  BY <1>1 DEF Gone
<1>8. NoRequest.pc = "done" /\ NoRequest.key = NoKey
  BY DEF NoRequest
<1>9. \A f \in spawned : f.key # NoKey
  BY DEF TextsInv, DiskShape, NoKey
<1>10. DiskShape'
  <2>1. new \subseteq [key : 1..lastKey, eml : BOOLEAN]
    BY <1>4
  <2>. HIDE DEF new
  <2>. QED BY <1>1, <1>2, <2>1 DEF TextsInv, DiskShape
<1>. HIDE DEF new
<1>11. Fits'
  BY <1>1, <1>7, <1>8, SameFits
<1>12. KeysInv'
  BY <1>1, <1>5, SameKeys
<1>13. MailInv'
  <2>. USE <1>1, <1>3, <1>7, <1>8 DEF TextsInv, MailInv
  <2>1. MailRemovals'
    <3>1. SUFFICES ASSUME NEW f \in spawned \cup new, f.eml
                   PROVE  /\ \A i \in Ids : rows[i].key # f.key
                          /\ \A q \in Requests : q # r /\ req[q].key = f.key => Gone(req[q].id)
      BY <1>4, <1>5, <1>9 DEF MailRemovals, NoKey
    <3>2. CASE f \in spawned
      BY <3>1, <3>2 DEF MailRemovals
    <3>3. CASE f \in new
      BY <1>4, <1>5, <1>6, <3>3 DEF Gone
    <3>. QED BY <3>1, <3>2, <3>3
  <2>2. SendingMail'
    BY DEF SendingMail, Sending
  <2>3. MarkedMail' /\ OneMarker' /\ AttachedMail'
    BY DEF MarkedMail, OneMarker, AttachedMail, At
  <2>4. SettledMail' /\ AnsweredMail'
    BY DEF SettledMail, Settled, AnsweredMail, SentIsOnRecord
  <2>. QED BY <2>1, <2>2, <2>3, <2>4
<1>14. DraftInv'
  <2>1. SUFFICES ASSUME faults' = MaxFaults PROVE (DraftTexts /\ SavedTexts /\ TextRemovals)'
    BY DEF DraftInv
  <2>2. DraftTexts /\ SavedTexts /\ TextRemovals
    BY <1>2, <2>1 DEF TextsInv, DiskShape, DraftInv
  <2>3. \A i : Marking(i) => Marking(i)'
    BY <1>3, <1>4 DEF Marking, At
  <2>4. \A i : Past(i) => Past(i)'
    BY <1>1, <2>3 DEF Past
  <2>5. DraftTexts'
    BY <1>1, <1>3, <1>4, <2>2 DEF DraftTexts
  <2>6. SavedTexts'
    BY <1>1, <1>3, <1>8, <2>2, <2>4 DEF SavedTexts, At
  <2>7. TextRemovals'
    <3>1. SUFFICES ASSUME NEW f \in spawned \cup new, ~f.eml
                   PROVE  /\ \A id \in Ids \ raced : rows[id].status = "draft" => rows[id].key # f.key
                          /\ \A q \in Requests : q # r /\ req[q].pc \in {"write", "save"} /\ req[q].key = f.key =>
                               Past(req[q].id)
      BY <1>1, <1>3, <1>8, <2>4 DEF TextRemovals
    <3>2. CASE f \in spawned
      BY <2>2, <3>1, <3>2 DEF TextRemovals
    <3>3. CASE f \in new
      BY <1>4, <1>5, <1>6, <3>3 DEF Past, NoRow
    <3>. QED BY <3>1, <3>2, <3>3
  <2>. QED BY <2>5, <2>6, <2>7
<1>. QED BY <1>10, <1>11, <1>12, <1>13, <1>14 DEF TextsInv

(* A removal takes the mail of no row and the text of no draft. *)
LEMMA RemoveSpawnedTexts ==
  ASSUME RowsInv, TextsInv, NEW f \in spawned, RemoveSpawned(f)
  PROVE  TextsInv'
<1>. USE ComposeAssumption
<1>1. UNCHANGED <<rows, req, saved, raced, lastRow, lastKey, answers>> /\ spawned' \subseteq spawned
  BY DEF RemoveSpawned, store, fresh
<1>2. f.key \in Keys /\ faults' \in 0..faults
  BY FaultFacts, TextFacts DEF RemoveSpawned, TextsInv, DiskShape, Keys
<1>3. \/ emlFiles' = emlFiles
      \/ f.eml /\ emlFiles' = [emlFiles EXCEPT ![f.key] = NoText]
  BY DEF RemoveSpawned, disk
<1>4. \/ draftFiles' = draftFiles
      \/ ~f.eml /\ draftFiles' = [draftFiles EXCEPT ![f.key] = NoText]
  BY DEF RemoveSpawned, disk
<1>5. \A k \in Keys : emlFiles'[k] = emlFiles[k] \/ (f.eml /\ k = f.key)
  BY <1>3 DEF TextsInv, DiskShape
<1>6. \A k \in Keys : draftFiles'[k] = draftFiles[k] \/ (~f.eml /\ k = f.key)
  BY <1>4 DEF TextsInv, DiskShape
<1>7. \A i : Gone(i)' <=> Gone(i)
  BY <1>1 DEF Gone
<1>8. DiskShape'
  <2>1. emlFiles' \in [Keys -> Texts \cup {NoText}] /\ draftFiles' \in [Keys -> Texts \cup {NoText}]
    BY <1>2, <1>3, <1>4 DEF TextsInv, DiskShape
  <2>. QED BY <1>1, <1>2, <2>1 DEF TextsInv, DiskShape
<1>9. Fits'
  BY <1>1, <1>7 DEF TextsInv, Fits
<1>10. KeysInv'
  BY <1>1 DEF TextsInv, KeysInv, RowKeys, HeldKeys, SharedKeys, OwnKey, Sending
<1>11. \A q \in Requests : req[q].pc \notin {"done", "store"} => req[q].key \in Keys
  BY TextFacts DEF TextsInv, Fits, Keys, NoKey
<1>12. \A i \in Ids : rows[i] # NoRow => rows[i].key \in Keys
  BY TextFacts DEF TextsInv, DiskShape, Keys
<1>13. MailInv'
  <2>. USE <1>1, <1>7 DEF TextsInv, MailInv
  <2>1. MailRemovals'
    BY DEF MailRemovals
  <2>2. \A q \in Requests : req[q].pc \notin {"done", "store"} =>
          emlFiles'[req[q].key] = emlFiles[req[q].key] \/ Gone(req[q].id)
    BY <1>5, <1>11 DEF MailRemovals
  <2>3. \A i \in Ids : rows[i] # NoRow => emlFiles'[rows[i].key] = emlFiles[rows[i].key]
    BY <1>5, <1>12 DEF MailRemovals
  <2>4. SendingMail'
    BY <2>2 DEF SendingMail, Sending
  <2>5. MarkedMail'
    BY <2>2 DEF MarkedMail, At
  <2>6. OneMarker'
    BY DEF OneMarker, At
  <2>7. AttachedMail'
    BY <2>2 DEF AttachedMail, At
  <2>8. SettledMail'
    <3>1. \A i \in Ids : Settled(i) => rows[i] # NoRow
      BY DEF Settled, NoRow
    <3>. QED BY <2>3, <3>1 DEF SettledMail, Settled
  <2>9. AnsweredMail'
    <3>1. \A a \in answers : a.answer = "sent" => a.id \in Ids
      BY DEF AnsweredMail, RowsInv, RowsShape, Ids
    <3>. QED BY <2>3, <3>1 DEF AnsweredMail, SentIsOnRecord
  <2>. QED BY <2>1, <2>4, <2>5, <2>6, <2>7, <2>8, <2>9
<1>14. DraftInv'
  <2>1. SUFFICES ASSUME faults' = MaxFaults PROVE (DraftTexts /\ SavedTexts /\ TextRemovals)'
    BY DEF DraftInv
  <2>2. DraftTexts /\ SavedTexts /\ TextRemovals
    BY <1>2, <2>1 DEF TextsInv, DiskShape, DraftInv
  <2>3. \A i : Past(i)' <=> Past(i)
    BY <1>1 DEF Past, Marking, At
  <2>4. DraftTexts'
    <3>1. \A i \in Ids : rows[i].status = "draft" => rows[i].key \in Keys
      BY <1>12 DEF NoRow
    <3>. QED BY <1>1, <1>6, <2>2, <3>1 DEF DraftTexts, TextRemovals
  <2>5. SavedTexts'
    BY <1>1, <1>6, <1>11, <2>2, <2>3 DEF SavedTexts, TextRemovals, At
  <2>6. TextRemovals'
    BY <1>1, <2>2, <2>3 DEF TextRemovals
  <2>. QED BY <2>4, <2>5, <2>6
<1>. QED BY <1>8, <1>9, <1>10, <1>13, <1>14 DEF TextsInv

(* A send marks its row.  Unless the row is raced or gone, it is the draft that this
   send has filled, and no other send is about to mark it. *)
LEMMA MarkTexts ==
  ASSUME RowsInv, TextsInv, NEW r \in Requests, At(r, "mark"), NEW v, req' = [req EXCEPT ![r] = v],
         NEW id \in Ids, id = req[r].id, NEW status \in {"sent", "failed"}, req[r].ok => status = "sent",
         \/ v = NoRequest
         \/ /\ v.pc = "attach" /\ v.id = id /\ v.text = req[r].text /\ v.key = req[r].key
            /\ v.old = req[r].old /\ v.ok = req[r].ok /\ (v.ok => Mark(id, status)),
         Mark(id, status) \/ (rows' = rows /\ faults' # MaxFaults), NoneSent,
         UNCHANGED <<draftFiles, emlFiles, spawned, saved, raced, lastRow, lastKey>>, faults' \in 0..faults
  PROVE  TextsInv'
<1>. USE ComposeAssumption
<1>1. req'[r] = v /\ (\A q \in Requests : q # r => req'[q] = req[q]) /\ v.pc \in {"done", "attach"}
  <2>1. NoRequest.pc = "done"
    BY DEF NoRequest
  <2>. QED BY <2>1, OneRequestMoves
<1>2. req[r].pc = "mark" /\ id # NoId /\ req[r].text \in Texts
  BY DEF At, TextsInv, Fits
<1>3. /\ \A i \in Ids \ {id} : rows'[i] = rows[i]
      /\ \A i \in Ids : rows'[i].key = rows[i].key /\ (rows'[i] = NoRow <=> rows[i] = NoRow)
      /\ Mark(id, status) => rows[id] = NoRow \/ rows'[id] = [status |-> status, key |-> rows[id].key]
      /\ rows'[id].status \in {rows[id].status, status}
  <2>1. CASE rows' = rows /\ ~Mark(id, status)
    BY <2>1
  <2>2. CASE Mark(id, status) /\ ~Exists(id)
    BY <1>2, <2>2 DEF Mark, Exists
  <2>3. CASE Mark(id, status) /\ Exists(id)
    <3>1. rows' = [rows EXCEPT ![id].status = status]
      BY <2>3 DEF Mark
    <3>2. rows[id] \in [status : {"none", "draft", "sent", "failed"}, key : Nat]
      BY <3>1 DEF RowsInv, RowsShape, Row
    <3>3. rows'[id] = [rows[id] EXCEPT !.status = status] /\ \A i \in Ids \ {id} : rows'[i] = rows[i]
      BY <3>1 DEF RowsInv, RowsShape
    <3>4. rows'[id] = [status |-> status, key |-> rows[id].key] /\ rows'[id] # NoRow /\ rows[id] # NoRow
      BY <2>3, <3>2, <3>3 DEF NoRow, Exists
    <3>. QED BY <3>2, <3>3, <3>4
  <2>. QED BY <2>1, <2>2, <2>3
<1>4. ASSUME NEW i \in 0..MaxRows
      PROVE  Gone(i)' <=> Gone(i)
  BY <1>3 DEF Gone, Ids, NoId
<1>5. \A q \in Requests : Sending(q)' => q # r /\ Sending(q)
  BY <1>1 DEF Sending
<1>6. id \notin raced => \/ rows[id] = NoRow
                         \/ rows[id] = [status |-> "draft", key |-> req[r].key] /\ emlFiles[req[r].key] = req[r].text
  BY DEF TextsInv, MailInv, MarkedMail, Gone
<1>7. DiskShape'
  <2>1. \A i \in Ids : rows'[i] = NoRow \/ (rows'[i].status # "none" /\ rows'[i].key \in 1..lastKey)
    BY <1>3 DEF TextsInv, DiskShape
  <2>. QED BY <2>1 DEF TextsInv, DiskShape
<1>8. Fits'
  <2>1. v = NoRequest \/ FitsStep(v, lastKey)
    BY <1>2 DEF FitsStep, TextsInv, Fits
  <2>2. v.pc # "detach"
    BY <1>1
  <2>3. \A i \in 0..lastRow : Gone(i) => Gone(i)'
    BY <1>4, TextFacts
  <2>. QED BY <2>1, <2>2, <2>3, SameFits
<1>9. KeysInv'
  BY <1>1, <1>3, SameKeys
<1>10. MailInv'
  <2>. USE <1>1 DEF TextsInv, MailInv
  <2>1. MailRemovals'
    <3>1. \A f \in spawned : f.key # NoKey
      BY DEF DiskShape, NoKey
    <3>2. ASSUME NEW f \in spawned, f.eml, NEW q \in Requests, req'[q].key = f.key
          PROVE  Gone(req[q].id)'
      <4>1. req[q].key = f.key /\ req'[q].id = req[q].id
        BY <3>1, <3>2 DEF NoRequest
      <4>. QED BY <1>4, <3>2, <4>1, TextFacts DEF MailRemovals
    <3>. QED BY <1>3, <3>1, <3>2 DEF MailRemovals
  <2>2. SendingMail'
    BY <1>4, <1>5, TextFacts DEF SendingMail
  <2>3. ASSUME NEW q \in Requests, q # r, req[q].pc \in {"mark", "attach"}, ~Gone(req[q].id)', req[q].id \notin raced,
               req[q].pc = "mark" \/ req[q].ok
        PROVE  /\ rows'[req[q].id] = [status |-> IF req[q].pc = "mark" THEN "draft" ELSE "sent", key |-> req[q].key]
               /\ emlFiles[req[q].key] = req[q].text
    <3>1. req[q].id \in Ids /\ ~Gone(req[q].id) /\ rows[req[q].id] # NoRow
      BY <1>1, <1>3, <1>4, <2>3, TextFacts DEF Fits, Ids, NoId, Gone
    <3>2. /\ rows[req[q].id] = [status |-> IF req[q].pc = "mark" THEN "draft" ELSE "sent", key |-> req[q].key]
          /\ emlFiles[req[q].key] = req[q].text
      BY <2>3, <3>1 DEF MarkedMail, AttachedMail, At
    <3>3. req[q].id # id
      BY <1>2, <1>6, <2>3, <3>1, <3>2 DEF OneMarker, At
    <3>. QED BY <1>3, <3>1, <3>2, <3>3
  <2>4. MarkedMail'
    BY <2>3 DEF MarkedMail, At
  <2>5. OneMarker'
    BY DEF OneMarker, At
  <2>6. AttachedMail'
    <3>1. SUFFICES ASSUME NEW q \in Requests, req'[q].pc = "attach", req'[q].ok, req'[q].id \notin raced,
                          ~Gone(req[q].id)'
                   PROVE  /\ rows'[req'[q].id] = [status |-> "sent", key |-> req'[q].key]
                          /\ emlFiles[req'[q].key] = req'[q].text
      BY DEF AttachedMail, At
    <3>2. CASE q # r
      BY <2>3, <3>1, <3>2
    <3>3. CASE q = r
      <4>1. v.id = id /\ v.key = req[r].key /\ v.text = req[r].text /\ Mark(id, status) /\ status = "sent"
        BY <3>1, <3>3 DEF NoRequest
      <4>2. rows'[id] # NoRow
        BY <1>2, <3>1, <3>3, <4>1 DEF Gone
      <4>. QED BY <1>3, <1>6, <3>1, <3>3, <4>1, <4>2
    <3>. QED BY <3>2, <3>3
  <2>7. SettledMail'
    <3>1. SUFFICES ASSUME NEW i \in Ids, i \notin raced, rows'[i].status \in {"sent", "failed"}
                   PROVE  emlFiles[rows'[i].key] # NoText
      BY DEF SettledMail, Settled
    <3>2. CASE rows[i].status \in {"sent", "failed"}
      BY <1>3, <3>1, <3>2 DEF SettledMail, Settled
    <3>3. CASE rows[i].status \notin {"sent", "failed"}
      <4>1. i = id
        BY <1>3, <3>1, <3>3
      <4>2. rows'[id] # NoRow /\ rows[id] # NoRow
        BY <1>3, <3>1, <4>1 DEF NoRow
      <4>. QED BY <1>2, <1>3, <1>6, <3>1, <4>1, <4>2 DEF NoText
    <3>. QED BY <3>2, <3>3
  <2>8. AnsweredMail'
    <3>1. ASSUME NEW a \in answers, a.answer = "sent", a.id \notin raced, rows'[a.id] # NoRow
          PROVE  rows'[a.id] = [status |-> "sent", key |-> a.key] /\ emlFiles[a.key] = a.text
      <4>1. a.id \in Ids
        BY <3>1 DEF AnsweredMail, RowsInv, RowsShape, Ids
      <4>2. rows[a.id] = [status |-> "sent", key |-> a.key] /\ emlFiles[a.key] = a.text /\ rows[a.id] # NoRow
        BY <1>3, <3>1, <4>1 DEF AnsweredMail, SentIsOnRecord
      <4>3. a.id # id
        BY <1>6, <3>1, <4>2
      <4>. QED BY <1>3, <4>1, <4>2, <4>3
    <3>. QED BY <3>1 DEF AnsweredMail, SentIsOnRecord, NoneSent
  <2>. QED BY <2>1, <2>2, <2>4, <2>5, <2>6, <2>7, <2>8
<1>11. DraftInv'
  <2>1. SUFFICES ASSUME faults' = MaxFaults PROVE (DraftTexts /\ SavedTexts /\ TextRemovals)'
    BY DEF DraftInv
  <2>2. DraftTexts /\ SavedTexts /\ TextRemovals
    BY <2>1 DEF TextsInv, DiskShape, DraftInv
  <2>3. rows'[id].status # "draft"
    BY <1>3, <2>1 DEF NoRow
  <2>4. ASSUME NEW q \in Requests, Past(req[q].id), q # r
        PROVE  Past(req[q].id)'
    <3>1. req[q].id \in Ids
      BY <2>4, TextFacts DEF Past, Ids, NoId
    <3>2. CASE req[q].id = id
      BY <1>1, <1>2, <2>3, <2>4, <3>2 DEF Past
    <3>3. CASE req[q].id # id
      <4>1. Marking(req[q].id) => Marking(req[q].id)'
        BY <1>1, <2>4, <3>3 DEF Marking, At
      <4>. QED BY <1>1, <1>3, <2>4, <3>1, <3>3, <4>1 DEF Past
    <3>. QED BY <3>2, <3>3
  <2>5. DraftTexts'
    BY <1>1, <1>2, <1>3, <2>2, <2>3 DEF DraftTexts
  <2>6. SavedTexts'
    BY <1>1, <2>2, <2>4 DEF SavedTexts, At
  <2>7. TextRemovals'
    BY <1>1, <1>3, <2>2, <2>3, <2>4 DEF TextRemovals
  <2>. QED BY <2>5, <2>6, <2>7
<1>. QED BY <1>7, <1>8, <1>9, <1>10, <1>11 DEF TextsInv

LEMMA SendMarkTexts ==
  ASSUME RowsInv, TextsInv, NEW r \in Requests, SendMark(r)
  PROVE  TextsInv'
<1>. DEFINE status == IF req[r].ok THEN "sent" ELSE "failed"
<1>1. UNCHANGED <<draftFiles, emlFiles, spawned, saved, raced, lastRow, lastKey>> /\ At(r, "mark")
  BY DEF SendMark, disk, fresh
<1>2. faults' \in 0..faults /\ (Mark(req[r].id, status) \/ (rows' = rows /\ faults' # MaxFaults))
  BY FaultFacts DEF SendMark, Fails
<1>3. status \in {"sent", "failed"} /\ (req[r].ok => status = "sent")
  OBVIOUS
<1>4. NoneSent
  BY AnswerIsNoneSent DEF SendMark, NoneSent
<1>5. req[r].id \in Ids
  BY <1>1, TextFacts, ComposeAssumption DEF At, TextsInv, Fits, NoId, Ids
<1>6. CASE Done(r)
  <2>. HIDE DEF status
  <2>. QED BY <1>1, <1>2, <1>3, <1>4, <1>5, <1>6, MarkTexts DEF Done
<1>7. CASE Goes(r, "attach") /\ (req[r].ok => Mark(req[r].id, status))
  <2>. DEFINE v == [req[r] EXCEPT !.pc = "attach"]
  <2>1. /\ v.pc = "attach" /\ v.id = req[r].id /\ v.text = req[r].text /\ v.key = req[r].key
        /\ v.old = req[r].old /\ v.ok = req[r].ok /\ req' = [req EXCEPT ![r] = v]
    BY <1>7 DEF Goes, RowsInv, ReqShape, RequestType
  <2>. HIDE DEF v, status
  <2>. QED BY <1>1, <1>2, <1>3, <1>4, <1>5, <1>7, <2>1, MarkTexts
<1>. QED BY <1>6, <1>7 DEF SendMark, Answer

-----------------------------------------------------------------------------
(* upsert_draft, with what it finds.  n is the row it writes. *)
UpsertStep(r, n) ==
  /\ req[r].pc \in {"upsert", "save"} /\ (req[r].id = NoId => lastRow < MaxRows)
  /\ UpsertFinds(req[r].id) /\ Upsert(req[r].id, req[r].key) /\ n = UpsertedId(req[r].id)

LEMMA UpsertFacts ==
  ASSUME RowsInv, TextsInv, NEW r \in Requests, NEW n, UpsertStep(r, n)
  PROVE  /\ n \in Ids /\ n # NoId /\ req[r].key \in 1..lastKey
         /\ rows'[n] = [status |-> "draft", key |-> req[r].key] /\ \A i \in Ids \ {n} : rows'[i] = rows[i]
         /\ \/ req[r].id = n /\ rows[n].status = "draft" /\ rows[n] # NoRow
            \/ req[r].id = NoId /\ n = lastRow + 1 /\ \A q \in Requests : req[q].id # n
         /\ lastRow' \in lastRow..MaxRows /\ n <= lastRow'
         /\ raced \subseteq raced' /\ \A q \in Requests : At(q, "mark") /\ req[q].id = n => n \in raced'
<1>. USE ComposeAssumption
<1>1. req[r].key \in 1..lastKey
  BY TextFacts DEF UpsertStep, TextsInv, Fits, NoKey
<1>2. CASE req[r].id = NoId
  <2>1. n = lastRow + 1 /\ n \in Ids /\ n # NoId /\ lastRow' = n /\ raced' = raced
    BY <1>2, TextFacts DEF UpsertStep, Upsert, UpsertedId, Ids, NoId
  <2>2. rows' = [rows EXCEPT ![n] = [status |-> "draft", key |-> req[r].key]]
    BY <1>2, <2>1 DEF UpsertStep, Upsert
  <2>3. rows'[n] = [status |-> "draft", key |-> req[r].key] /\ \A i \in Ids \ {n} : rows'[i] = rows[i]
    BY <2>1, <2>2 DEF RowsInv, RowsShape
  <2>4. \A q \in Requests : req[q].id # n
    BY <2>1, TextFacts
  <2>5. lastRow' \in lastRow..MaxRows /\ n <= lastRow'
    BY <2>1, TextFacts DEF Ids
  <2>. QED BY <1>1, <1>2, <2>1, <2>3, <2>4, <2>5
<1>3. CASE req[r].id # NoId
  <2>1. n = req[r].id /\ n \in Ids /\ n # NoId /\ n <= lastRow /\ lastRow' = lastRow
    BY <1>3, TextFacts DEF UpsertStep, Upsert, UpsertedId, Ids, NoId
  <2>2. rows[n].status = "draft" /\ rows[n] # NoRow
    BY <1>3, <2>1 DEF UpsertStep, UpsertFinds, Exists
  <2>3. rows' = [rows EXCEPT ![n].key = req[r].key] /\ Between(n, "mark")
    BY <1>3, <2>1 DEF UpsertStep, Upsert
  <2>4. rows[n] \in [status : {"none", "draft", "sent", "failed"}, key : Nat]
    BY <2>1 DEF RowsInv, RowsShape, Row
  <2>5. rows'[n] = [rows[n] EXCEPT !.key = req[r].key] /\ \A i \in Ids \ {n} : rows'[i] = rows[i]
    BY <2>1, <2>3 DEF RowsInv, RowsShape
  <2>6. rows'[n] = [status |-> "draft", key |-> req[r].key]
    BY <2>2, <2>4, <2>5
  <2>7. raced \subseteq raced' /\ \A q \in Requests : At(q, "mark") /\ req[q].id = n => n \in raced'
    BY <2>1, <2>3 DEF Between
  <2>8. lastRow' \in lastRow..MaxRows
    BY <2>1, TextFacts
  <2>. QED BY <1>1, <2>1, <2>2, <2>5, <2>6, <2>7, <2>8
<1>. QED BY <1>2, <1>3

(* It is the request's own row, a draft, or one that no request knows. *)
LEMMA UpsertedRow ==
  ASSUME RowsInv, TextsInv, NEW r \in Requests, NEW n, UpsertStep(r, n)
  PROVE  /\ n \in Ids /\ n # NoId /\ raced \subseteq raced'
         /\ \/ req[r].id = n /\ rows[n].status = "draft" /\ rows[n] # NoRow
            \/ req[r].id = NoId /\ n = lastRow + 1 /\ \A q \in Requests : req[q].id # n
  BY UpsertFacts

(* The row now has the key of the request, and had none or another one. *)
LEMMA UpsertKeys ==
  ASSUME RowsInv, TextsInv, NEW r \in Requests, NEW n, UpsertStep(r, n), NEW v, req' = [req EXCEPT ![r] = v],
         \/ v = NoRequest
         \/ v.pc = "mark" /\ v.id = n /\ v.key = req[r].key /\ v.old = req[r].old,
         \A f \in spawned' : f \in spawned \/ f.key = req[r].old
  PROVE  KeysInv'
<1>1. req'[r] = v /\ \A q \in Requests : q # r => req'[q] = req[q]
  BY OneRequestMoves
<1>2. NoRequest.key = NoKey /\ NoRequest.old = NoKey /\ NoRequest.pc = "done"
  BY DEF NoRequest
<1>3. \A q \in Requests : Sending(q)' => q # r /\ Sending(q) /\ req[q].key # NoKey
  BY <1>1, <1>2 DEF Sending, TextsInv, Fits
<1>4. /\ n \in Ids /\ n # NoId /\ req[r].key # NoKey /\ req[r].id \in {n, NoId}
      /\ rows'[n].key = req[r].key /\ \A i \in Ids \ {n} : rows'[i] = rows[i]
  <2>1. n \in Ids /\ n # NoId /\ req[r].key \in 1..lastKey /\ req[r].id \in {n, NoId}
    BY UpsertFacts
  <2>2. rows'[n] = [status |-> "draft", key |-> req[r].key] /\ \A i \in Ids \ {n} : rows'[i] = rows[i]
    BY UpsertFacts
  <2>. QED BY <2>1, <2>2, TextFacts DEF NoKey
<1>5. \A q \in Requests : req[q].old # NoKey => req[q].id # NoId
  BY DEF TextsInv, Fits
<1>6. NoId \notin Ids
  BY DEF NoId, Ids
<1>. USE <1>1, <1>2, <1>4, <1>5, <1>6 DEF TextsInv, KeysInv
<1>7. RowKeys'
  <2>1. \A j \in Ids : rows[j].key = req[r].key => j = n
    BY DEF HeldKeys
  <2>. QED BY <2>1 DEF RowKeys
<1>8. HeldKeys'
  <2>1. SUFFICES ASSUME NEW i \in Ids, NEW q \in Requests, rows'[i].key # NoKey,
                        rows'[i].key \in {req'[q].key, req'[q].old}
                 PROVE  req'[q].id = i
    BY DEF HeldKeys
  <2>2. CASE i = n /\ q = r
    BY <2>1, <2>2
  <2>3. CASE i = n /\ q # r
    BY <2>1, <2>3 DEF SharedKeys
  <2>4. CASE i # n /\ q = r
    BY <2>1, <2>4 DEF HeldKeys
  <2>5. CASE i # n /\ q # r
    BY <2>1, <2>5 DEF HeldKeys
  <2>. QED BY <2>2, <2>3, <2>4, <2>5
<1>9. SharedKeys'
  <2>1. ASSUME NEW q \in Requests, q # r
        PROVE  /\ req[r].key = req[q].key => req[q].id = n
               /\ req[r].old = req[q].key /\ req[r].old # NoKey => req[q].id = n
               /\ req[q].old = req[r].key => req[q].id = n
    BY <2>1 DEF SharedKeys
  <2>. QED BY <2>1 DEF SharedKeys
<1>10. OwnKey'
  BY <1>3 DEF OwnKey
<1>. QED BY <1>7, <1>8, <1>9, <1>10

(* No send of the row is answered or marked, unless it is raced. *)
LEMMA UpsertMail ==
  ASSUME RowsInv, TextsInv, NEW r \in Requests, NEW n, UpsertStep(r, n), NEW v, req' = [req EXCEPT ![r] = v],
         \/ v = NoRequest
         \/ v.pc = "mark" /\ v.id = n /\ v.key = req[r].key /\ v.text = req[r].text /\ req[r].pc = "upsert",
         \A f \in spawned' : f \in spawned \/ ~f.eml, NoneSent, UNCHANGED emlFiles
  PROVE  MailInv' /\ \A i \in 0..lastRow : Gone(i) => Gone(i)'
<1>. USE ComposeAssumption
<1>1. req'[r] = v /\ (\A q \in Requests : q # r => req'[q] = req[q]) /\ v.pc \in {"done", "mark"}
  <2>1. NoRequest.pc = "done"
    BY DEF NoRequest
  <2>. QED BY <2>1, OneRequestMoves
<1>2. /\ n \in Ids /\ n # NoId /\ req[r].key # NoKey
      /\ rows'[n] = [status |-> "draft", key |-> req[r].key] /\ \A i \in Ids \ {n} : rows'[i] = rows[i]
  <2>1. n \in Ids /\ n # NoId /\ req[r].key \in 1..lastKey
    BY UpsertFacts
  <2>2. rows'[n] = [status |-> "draft", key |-> req[r].key] /\ \A i \in Ids \ {n} : rows'[i] = rows[i]
    BY UpsertFacts
  <2>. QED BY <2>1, <2>2 DEF NoKey
<1>3. \/ req[r].id = n /\ rows[n].status = "draft" /\ rows[n] # NoRow
      \/ req[r].id = NoId /\ n = lastRow + 1 /\ \A q \in Requests : req[q].id # n
  BY UpsertedRow
<1>4. raced \subseteq raced' /\ \A q \in Requests : At(q, "mark") /\ req[q].id = n => n \in raced'
  BY UpsertFacts
<1>5. ASSUME NEW i \in 0..lastRow, Gone(i)
      PROVE  Gone(i)'
  <2>1. i \in Ids /\ rows[i] = NoRow /\ i # NoId
    BY <1>5, TextFacts DEF Gone, Ids, NoId
  <2>2. i # n
    BY <1>3, <2>1, TextFacts
  <2>. QED BY <1>2, <2>1, <2>2 DEF Gone
<1>6. ~Gone(req[r].id)
  BY <1>3 DEF Gone, NoId
<1>7. \A q \in Requests : Sending(q)' => q # r /\ Sending(q)
  BY <1>1 DEF Sending
<1>8. ASSUME NEW q \in Requests, q # r, req[q].pc \in {"mark", "attach"}, req[q].id \notin raced',
             req[q].pc = "mark" \/ req[q].ok
      PROVE  Gone(req[q].id) \/ rows'[req[q].id] = rows[req[q].id]
  <2>1. req[q].id \in Ids
    BY <1>8, TextFacts DEF TextsInv, Fits, Ids, NoId
  <2>2. CASE req[q].id = n
    <3>1. req[r].id = n /\ rows[n].status = "draft" /\ req[q].pc = "attach"
      BY <1>3, <1>4, <1>8, <2>2 DEF At
    <3>2. At(q, "attach") /\ req[q].ok /\ req[q].id \notin raced
      BY <1>4, <1>8, <3>1 DEF At
    <3>3. Gone(req[q].id) \/ rows[req[q].id] = [status |-> "sent", key |-> req[q].key]
      BY <3>2 DEF TextsInv, MailInv, AttachedMail
    <3>. QED BY <2>2, <3>1, <3>3
  <2>3. CASE req[q].id # n
    BY <1>2, <2>1, <2>3
  <2>. QED BY <2>2, <2>3
<1>9. ASSUME NEW q \in Requests, q # r, Gone(req[q].id) PROVE Gone(req[q].id)'
  BY <1>1, <1>5, <1>9, TextFacts
<1>10. MailRemovals'
  <2>1. SUFFICES ASSUME NEW f \in spawned, f.eml
                 PROVE  /\ \A i \in Ids : rows'[i].key # f.key
                        /\ \A q \in Requests : req'[q].key = f.key => Gone(req[q].id)'
    BY DEF MailRemovals
  <2>2. f.key # req[r].key /\ f.key # NoKey
    BY <1>6, <2>1 DEF TextsInv, MailInv, MailRemovals, DiskShape, NoKey
  <2>3. ASSUME NEW q \in Requests, req'[q].key = f.key PROVE Gone(req[q].id)'
    <3>1. q # r
      BY <1>1, <2>2, <2>3 DEF NoRequest
    <3>. QED BY <1>1, <1>9, <2>1, <2>3, <3>1 DEF TextsInv, MailInv, MailRemovals
  <2>. QED BY <1>2, <2>1, <2>2, <2>3 DEF TextsInv, MailInv, MailRemovals
<1>. USE <1>1 DEF TextsInv, MailInv
<1>11. SendingMail'
  BY <1>7, <1>9 DEF SendingMail
<1>12. MarkedMail'
  <2>1. SUFFICES ASSUME NEW q \in Requests, req'[q].pc = "mark", req'[q].id \notin raced', ~Gone(req[q].id)'
                 PROVE  /\ rows'[req'[q].id] = [status |-> "draft", key |-> req'[q].key]
                        /\ emlFiles[req'[q].key] = req'[q].text
    BY DEF MarkedMail, At
  <2>2. CASE q # r
    <3>1. rows'[req[q].id] = rows[req[q].id] /\ ~Gone(req[q].id)
      BY <1>8, <1>9, <2>1, <2>2
    <3>. QED BY <1>4, <2>1, <2>2, <3>1 DEF MarkedMail, At
  <2>3. CASE q = r
    <3>1. v.id = n /\ v.key = req[r].key /\ v.text = req[r].text /\ Sending(r)
      BY <2>1, <2>3 DEF NoRequest, Sending
    <3>2. emlFiles[req[r].key] = req[r].text
      BY <1>6, <3>1 DEF SendingMail
    <3>. QED BY <1>2, <2>3, <3>1, <3>2
  <2>. QED BY <2>2, <2>3
<1>13. OneMarker'
  <2>1. ASSUME NEW q \in Requests, q # r, req[q].pc = "mark", req[q].id \notin raced' PROVE req[q].id # n
    BY <1>4, <2>1 DEF At
  <2>2. v.pc = "mark" => v.id = n
    BY DEF NoRequest
  <2>. QED BY <1>4, <2>1, <2>2 DEF OneMarker, At
<1>14. AttachedMail'
  <2>1. SUFFICES ASSUME NEW q \in Requests, q # r, req[q].pc = "attach", req[q].ok, req[q].id \notin raced',
                        ~Gone(req[q].id)'
                 PROVE  /\ rows'[req[q].id] = [status |-> "sent", key |-> req[q].key]
                        /\ emlFiles[req[q].key] = req[q].text
    BY DEF AttachedMail, At
  <2>2. rows'[req[q].id] = rows[req[q].id] /\ ~Gone(req[q].id)
    BY <1>8, <1>9, <2>1
  <2>. QED BY <1>4, <2>1, <2>2 DEF AttachedMail, At
<1>15. SettledMail'
  BY <1>2, <1>4 DEF SettledMail, Settled
<1>16. AnsweredMail'
  <2>1. lastRow' \in lastRow..MaxRows
    BY UpsertFacts
  <2>2. ASSUME NEW a \in answers, a.answer = "sent"
        PROVE  /\ a.id \in 1..lastRow'
               /\ a.id \notin raced' /\ rows'[a.id] # NoRow =>
                    rows'[a.id] = [status |-> "sent", key |-> a.key] /\ emlFiles[a.key] = a.text
    <3>1. a.id \in 1..lastRow /\ a.id \in Ids
      BY <2>2, TextFacts DEF AnsweredMail, Ids
    <3>2. CASE a.id = n
      <4>1. rows[n].status = "draft" /\ rows[n] # NoRow
        BY <1>3, <3>1, <3>2, TextFacts
      <4>. QED BY <1>4, <2>1, <2>2, <3>1, <3>2, <4>1, TextFacts DEF AnsweredMail, SentIsOnRecord
    <3>3. CASE a.id # n
      BY <1>2, <1>4, <2>1, <2>2, <3>1, <3>3, TextFacts DEF AnsweredMail, SentIsOnRecord
    <3>. QED BY <3>2, <3>3
  <2>. QED BY <2>2 DEF AnsweredMail, SentIsOnRecord, NoneSent
<1>. QED BY <1>5, <1>10, <1>11, <1>12, <1>13, <1>14, <1>15, <1>16

(* The upsert of a send that goes on: the draft's text is to be removed, and whoever
   still holds it works on a row that is being sent. *)
LEMMA SendUpsertDrafts ==
  ASSUME RowsInv, TextsInv, NEW r \in Requests, NEW n, UpsertStep(r, n), NEW v, req' = [req EXCEPT ![r] = v],
         v.pc = "mark" /\ v.id = n /\ req[r].pc = "upsert",
         \A f \in spawned' : f \in spawned \/ (f.key = req[r].old /\ f.key # NoKey),
         UNCHANGED <<draftFiles, saved, faults>>
  PROVE  DraftInv'
<1>1. req'[r] = v /\ \A q \in Requests : q # r => req'[q] = req[q]
  BY OneRequestMoves
<1>2. n \in Ids /\ n # NoId /\ req[r].id \in {n, NoId} /\ raced \subseteq raced'
  BY UpsertedRow
<1>3. rows'[n].key = req[r].key /\ \A i \in Ids \ {n} : rows'[i] = rows[i]
  <2>1. rows'[n] = [status |-> "draft", key |-> req[r].key] /\ \A i \in Ids \ {n} : rows'[i] = rows[i]
    BY UpsertFacts
  <2>. QED BY <2>1
<1>4. SUFFICES ASSUME faults = MaxFaults PROVE (DraftTexts /\ SavedTexts /\ TextRemovals)'
  BY DEF DraftInv
<1>5. DraftTexts /\ SavedTexts /\ TextRemovals
  BY <1>4 DEF TextsInv, DraftInv
<1>6. ASSUME NEW q \in Requests, q # r, Past(req[q].id) \/ req[q].id = n
      PROVE  Past(req[q].id)'
  <2>1. CASE req[q].id = n
    BY <1>1, <1>2, <1>6, <2>1 DEF Past, Marking, At
  <2>2. CASE req[q].id # n /\ Past(req[q].id)
    <3>1. req[q].id \in Ids
      BY <2>2, TextFacts, ComposeAssumption DEF Past, Ids, NoId
    <3>2. Marking(req[q].id) => Marking(req[q].id)'
      BY <1>1, <1>6 DEF Marking, At
    <3>. QED BY <1>1, <1>2, <1>3, <1>6, <2>2, <3>1, <3>2 DEF Past
  <2>. QED BY <1>6, <2>1, <2>2
<1>7. DraftTexts'
  BY <1>1, <1>2, <1>3, <1>5 DEF DraftTexts
<1>8. SavedTexts'
  BY <1>1, <1>5, <1>6 DEF SavedTexts, At
<1>9. TextRemovals'
  <2>1. SUFFICES ASSUME NEW f \in spawned', ~f.eml
                 PROVE  /\ \A i \in Ids \ raced' : rows'[i].status = "draft" => rows'[i].key # f.key
                        /\ \A q \in Requests : q # r /\ req[q].pc \in {"write", "save"} /\ req[q].key = f.key =>
                             Past(req[q].id)'
    BY <1>1 DEF TextRemovals
  <2>2. req[r].key # req[r].old /\ \A g \in spawned : g.key # req[r].key
    BY DEF TextsInv, KeysInv, OwnKey, Sending
  <2>3. CASE f \in spawned
    BY <1>1, <1>2, <1>3, <1>5, <1>6, <2>1, <2>2, <2>3 DEF TextRemovals
  <2>4. CASE f.key = req[r].old /\ f.key # NoKey
    <3>1. req[r].id = n
      BY <1>2, <2>4 DEF TextsInv, Fits
    <3>2. \A i \in Ids \ {n} : rows[i].key # req[r].old
      BY <2>4, <3>1 DEF TextsInv, KeysInv, HeldKeys
    <3>3. \A q \in Requests : req[q].key = req[r].old => req[q].id = n
      BY <2>4, <3>1 DEF TextsInv, KeysInv, SharedKeys
    <3>. QED BY <1>2, <1>3, <1>6, <2>2, <2>4, <3>2, <3>3
  <2>. QED BY <2>1, <2>3, <2>4
<1>. QED BY <1>7, <1>8, <1>9

(* The upsert of a save: the row opens with its text, unless it is raced. *)
LEMMA SaveUpsertDrafts ==
  ASSUME RowsInv, TextsInv, NEW r \in Requests, NEW n, UpsertStep(r, n), Done(r), req[r].pc = "save",
         saved' = [saved EXCEPT ![n] = req[r].text], UNCHANGED <<draftFiles, spawned, faults>>
  PROVE  DraftInv'
<1>1. req'[r] = NoRequest /\ (\A q \in Requests : q # r => req'[q] = req[q]) /\ NoRequest.pc = "done"
  BY OneRequestMoves DEF Done, NoRequest
<1>2. n \in Ids /\ n # NoId /\ raced \subseteq raced' /\ req[r].id \in {n, NoId}
      /\ (req[r].id = n => rows[n].status = "draft")
  BY UpsertedRow
<1>3. rows'[n].key = req[r].key /\ rows'[n].status = "draft" /\ \A i \in Ids \ {n} : rows'[i] = rows[i]
  <2>1. rows'[n] = [status |-> "draft", key |-> req[r].key] /\ \A i \in Ids \ {n} : rows'[i] = rows[i]
    BY UpsertFacts
  <2>. QED BY <2>1
<1>4. \A q \in Requests : At(q, "mark") /\ req[q].id = n => n \in raced'
  BY UpsertFacts
<1>5. saved'[n] = req[r].text /\ \A i \in Ids \ {n} : saved'[i] = saved[i]
  BY <1>2 DEF TextsInv, DiskShape
<1>6. SUFFICES ASSUME faults = MaxFaults PROVE (DraftTexts /\ SavedTexts /\ TextRemovals)'
  BY DEF DraftInv
<1>7. DraftTexts /\ SavedTexts /\ TextRemovals
  BY <1>6 DEF TextsInv, DraftInv
<1>8. ASSUME NEW q \in Requests, q # r, Past(req[q].id)
      PROVE  Past(req[q].id)'
  <2>1. req[q].id \in Ids
    BY <1>8, TextFacts, ComposeAssumption DEF Past, Ids, NoId
  <2>2. Marking(req[q].id) => Marking(req[q].id)'
    BY <1>1, <1>8 DEF Marking, At
  <2>3. req[q].id = n => req[r].id = n
    BY UpsertedRow
  <2>4. rows'[req[q].id].status = rows[req[q].id].status
    BY <1>2, <1>3, <2>1, <2>3
  <2>. QED BY <1>1, <1>2, <1>8, <2>2, <2>4 DEF Past
<1>9. Past(req[r].id) => n \in raced'
  BY <1>2, <1>4 DEF Past, Marking
<1>10. DraftTexts'
  <2>1. SUFFICES ASSUME NEW i \in Ids, i \notin raced', rows'[i].status = "draft"
                 PROVE  \/ draftFiles[rows'[i].key] = saved'[i]
                        \/ \E q \in Requests : req'[q].id = i /\ req'[q].pc \in {"save", "mark"}
    BY DEF DraftTexts
  <2>2. CASE i = n
    BY <1>3, <1>5, <1>7, <1>9, <2>1, <2>2 DEF SavedTexts, At
  <2>3. CASE i # n
    <3>1. i # req[r].id
      BY <1>2, <2>3 DEF NoId, Ids
    <3>. QED BY <1>1, <1>2, <1>3, <1>5, <1>7, <2>1, <2>3, <3>1 DEF DraftTexts
  <2>. QED BY <2>2, <2>3
<1>11. SavedTexts'
  BY <1>1, <1>7, <1>8 DEF SavedTexts, At
<1>12. TextRemovals'
  <2>1. \A f \in spawned : ~f.eml /\ n \notin raced' => req[r].key # f.key
    BY <1>7, <1>9 DEF TextRemovals
  <2>. QED BY <1>1, <1>2, <1>3, <1>7, <1>8, <2>1 DEF TextRemovals
<1>. QED BY <1>10, <1>11, <1>12

(* An upsert that writes its row, put together. *)
LEMMA UpsertTexts ==
  ASSUME RowsInv, TextsInv, NEW r \in Requests, NEW n, UpsertStep(r, n), NEW v, req' = [req EXCEPT ![r] = v],
         \/ v = NoRequest
         \/ /\ v.pc = "mark" /\ v.id = n /\ v.key = req[r].key /\ v.old = req[r].old
            /\ v.text = req[r].text /\ req[r].pc = "upsert",
         \A f \in spawned' : f \in spawned \/ (f = [key |-> req[r].old, eml |-> FALSE] /\ req[r].old # NoKey),
         saved' = saved \/ saved' = [saved EXCEPT ![n] = req[r].text], NoneSent,
         UNCHANGED <<draftFiles, emlFiles, lastKey>>, faults' \in 0..faults, DraftInv'
  PROVE  TextsInv'
<1>. USE ComposeAssumption
<1>1. n \in Ids /\ n # NoId /\ req[r].key \in 1..lastKey
  BY UpsertFacts
<1>2. rows'[n] = [status |-> "draft", key |-> req[r].key] /\ \A i \in Ids \ {n} : rows'[i] = rows[i]
  BY UpsertFacts
<1>3. \A f \in spawned' : f \in spawned \/ (~f.eml /\ f.key = req[r].old)
  OBVIOUS
<1>4. DiskShape'
  <2>1. req[r].text \in Texts
    BY DEF TextsInv, Fits, UpsertStep
  <2>2. saved' \in [Ids -> Texts \cup {NoText}]
    BY <2>1 DEF TextsInv, DiskShape
  <2>3. ASSUME NEW f \in spawned' PROVE f \in [key : 1..lastKey, eml : BOOLEAN]
    <3>1. req[r].old # NoKey => req[r].old \in 1..lastKey
      BY TextFacts DEF NoKey
    <3>2. CASE f \in spawned
      BY <3>2 DEF TextsInv, DiskShape
    <3>3. CASE f = [key |-> req[r].old, eml |-> FALSE] /\ req[r].old # NoKey
      BY <3>1, <3>3
    <3>. QED BY <3>2, <3>3
  <2>4. \A i \in Ids : rows'[i] = NoRow \/ (rows'[i].status # "none" /\ rows'[i].key \in 1..lastKey)
    BY <1>1, <1>2 DEF TextsInv, DiskShape
  <2>. QED BY <2>2, <2>3, <2>4 DEF TextsInv, DiskShape
<1>5. KeysInv'
  BY <1>3, UpsertKeys
<1>6. MailInv' /\ \A i \in 0..lastRow : Gone(i) => Gone(i)'
  BY <1>3, UpsertMail
<1>7. Fits'
  <2>1. v = NoRequest \/ FitsStep(v, lastKey)
    BY <1>1 DEF FitsStep, TextsInv, Fits
  <2>2. v.pc # "detach"
    BY DEF NoRequest
  <2>. QED BY <1>6, <2>1, <2>2, SameFits
<1>. QED BY <1>4, <1>5, <1>6, <1>7 DEF TextsInv

LEMMA SendUpsertTexts ==
  ASSUME RowsInv, TextsInv, NEW r \in Requests, SendUpsert(r)
  PROVE  TextsInv'
<1>. DEFINE n == UpsertedId(req[r].id)
<1>1. UNCHANGED <<draftFiles, emlFiles, saved, lastKey>> /\ req[r].pc = "upsert" /\ (req[r].id = NoId => lastRow < MaxRows)
  BY DEF SendUpsert, disk, At
<1>2. CASE /\ Succeeds /\ UpsertFinds(req[r].id) /\ Upsert(req[r].id, req[r].key)
           /\ spawned' = spawned \cup ({[key |-> req[r].old, eml |-> FALSE]} \ {[key |-> NoKey, eml |-> FALSE]})
           /\ req' = [req EXCEPT ![r].pc = "mark", ![r].id = n]
           /\ UNCHANGED answers
  <2>. DEFINE v == [req[r] EXCEPT !.pc = "mark", !.id = n]
  <2>1. /\ v.pc = "mark" /\ v.id = n /\ v.key = req[r].key /\ v.old = req[r].old
        /\ v.text = req[r].text /\ req' = [req EXCEPT ![r] = v]
    BY <1>2 DEF RowsInv, ReqShape, RequestType
  <2>2. UpsertStep(r, n)
    BY <1>1, <1>2 DEF UpsertStep
  <2>. HIDE DEF v, n
  <2>3. \A f \in spawned' : f \in spawned \/ (f = [key |-> req[r].old, eml |-> FALSE] /\ req[r].old # NoKey)
    BY <1>2
  <2>4. DraftInv'
    <3>1. \A f \in spawned' : f \in spawned \/ (f.key = req[r].old /\ f.key # NoKey)
      BY <2>3
    <3>2. faults' = faults
      BY <1>2 DEF Succeeds
    <3>. QED BY <1>1, <2>1, <2>2, <3>1, <3>2, SendUpsertDrafts
  <2>5. NoneSent /\ faults' \in 0..faults
    BY <1>2, FaultFacts DEF NoneSent
  <2>. QED BY <1>1, <2>1, <2>2, <2>3, <2>4, <2>5, UpsertTexts
<1>. DEFINE a == IF req[r].ok THEN "database" ELSE "delivery"
<1>3. CASE Answer(r, a) /\ spawned' = spawned
  <2>1. NoneSent /\ Done(r)
    BY <1>3, AnswerIsNoneSent
  <2>2. faults' \in 0..faults
    BY FaultFacts DEF SendUpsert, Fails
  <2>3. CASE UNCHANGED <<rows, lastRow, raced>>
    <3>1. AnsweredMail' /\ lastKey' \in lastKey..MaxKeys
      BY <1>1, <2>1, <2>3, NoneSentTexts, TextFacts, ComposeAssumption
    <3>. QED BY <1>1, <1>3, <2>1, <2>2, <2>3, <3>1, EndTexts DEF At
  <2>4. CASE Fault("db") /\ UpsertFinds(req[r].id) /\ Upsert(req[r].id, req[r].key)
    <3>1. UpsertStep(r, n)
      BY <1>1, <2>4 DEF UpsertStep
    <3>2. DraftInv'
      BY <2>4, FaultFacts DEF DraftInv
    <3>3. req' = [req EXCEPT ![r] = NoRequest] /\ \A f \in spawned' : f \in spawned
      BY <1>3, <2>1 DEF Done
    <3>. HIDE DEF n
    <3>. QED BY <1>1, <2>1, <2>2, <3>1, <3>2, <3>3, UpsertTexts
  <2>. QED BY <1>2, <1>3, <2>3, <2>4 DEF SendUpsert, Fails
<1>. QED BY <1>2, <1>3 DEF SendUpsert

LEMMA SaveUpsertTexts ==
  ASSUME RowsInv, TextsInv, NEW r \in Requests, SaveUpsert(r)
  PROVE  TextsInv'
<1>. DEFINE n == UpsertedId(req[r].id)
<1>1. /\ UNCHANGED <<draftFiles, emlFiles, spawned, lastKey, answers>> /\ Done(r)
      /\ req[r].pc = "save" /\ (req[r].id = NoId => lastRow < MaxRows)
  BY DEF SaveUpsert, disk, At
<1>2. NoneSent /\ faults' \in 0..faults
  BY <1>1, FaultFacts DEF NoneSent, SaveUpsert, Fails
<1>3. CASE Succeeds /\ UpsertFinds(req[r].id) /\ Upsert(req[r].id, req[r].key)
           /\ saved' = [saved EXCEPT ![n] = req[r].text]
  <2>1. UpsertStep(r, n)
    BY <1>1, <1>3 DEF UpsertStep
  <2>. HIDE DEF n
  <2>2. DraftInv'
    BY <1>1, <1>3, <2>1, SaveUpsertDrafts DEF Succeeds
  <2>. QED BY <1>1, <1>2, <1>3, <2>1, <2>2, UpsertTexts DEF Done
<1>4. CASE Fault("db") /\ UpsertFinds(req[r].id) /\ Upsert(req[r].id, req[r].key) /\ UNCHANGED saved
  <2>1. UpsertStep(r, n)
    BY <1>1, <1>4 DEF UpsertStep
  <2>2. DraftInv'
    BY <1>4, FaultFacts DEF DraftInv
  <2>. HIDE DEF n
  <2>. QED BY <1>1, <1>2, <1>4, <2>1, <2>2, UpsertTexts DEF Done
<1>5. CASE UNCHANGED <<rows, lastRow, raced, saved>> /\ (faults' # MaxFaults \/ ~UpsertFinds(req[r].id))
  <2>1. AnsweredMail' /\ lastKey' \in lastKey..MaxKeys
    BY <1>1, <1>2, <1>5, NoneSentTexts, TextFacts, ComposeAssumption
  <2>. QED BY <1>1, <1>2, <1>5, <2>1, EndTexts DEF At
<1>. QED BY <1>3, <1>4, <1>5, FaultFacts DEF SaveUpsert, Fails

-----------------------------------------------------------------------------
LEMMA NextTexts ==
  ASSUME RowsInv, TextsInv, Next
  PROVE  TextsInv'
<1>1. ASSUME NEW r \in Requests, Send(r)
      PROVE  TextsInv'
  BY <1>1, SendStartTexts, SendStoreTexts, SendLookupTexts, SendTransmitTexts, SendUpsertTexts,
     SendMarkTexts, SendAttachTexts DEF Send
<1>2. ASSUME NEW r \in Requests, Save(r)
      PROVE  TextsInv'
  BY <1>2, SaveStartTexts, SaveWriteTexts, SaveUpsertTexts DEF Save
<1>3. ASSUME NEW r \in Requests, Delete(r)
      PROVE  TextsInv'
  BY <1>3, DeleteStartTexts, DeleteRowTexts, DeleteAttachmentsTexts DEF Delete
<1>4. ASSUME NEW f \in spawned, RemoveSpawned(f)
      PROVE  TextsInv'
  BY <1>4, RemoveSpawnedTexts
<1>. QED BY <1>1, <1>2, <1>3, <1>4 DEF Next

LEMMA StillTexts ==
  ASSUME TextsInv, UNCHANGED vars
  PROVE  TextsInv'
<1>. USE DEF vars, TextsInv, Gone
<1>1. DiskShape' /\ Fits'
  BY DEF DiskShape, Fits
<1>2. KeysInv'
  BY DEF KeysInv, RowKeys, HeldKeys, SharedKeys, OwnKey, Sending
<1>3. MailInv'
  BY DEF MailInv, MailRemovals, SendingMail, Sending, MarkedMail, OneMarker, AttachedMail, At,
         SettledMail, Settled, AnsweredMail, SentIsOnRecord
<1>4. DraftInv'
  BY DEF DraftInv, DraftTexts, SavedTexts, TextRemovals, Past, Marking, At
<1>. QED BY <1>1, <1>2, <1>3, <1>4

LEMMA TextsInvariance == Spec => [](RowsInv /\ TextsInv)
<1>1. RowsInv /\ TextsInv /\ [Next]_vars => (RowsInv /\ TextsInv)'
  <2>1. CASE RowsInv /\ TextsInv /\ Next
    BY <2>1, NextIsGood, NextTexts DEF Good, RowsInv
  <2>2. CASE RowsInv /\ TextsInv /\ UNCHANGED vars
    BY <2>2, Still, StillTexts DEF vars, Good, RowsInv
  <2>. QED BY <2>1, <2>2
<1>. QED BY <1>1, InitRows, InitTexts, PTL DEF Spec

(* Whatever requests overlap, statements fail and removals are late: a settled row's mail
   is on disk, and without failures a draft that nobody works on opens with the text last
   saved, save for the rows on which one request got between two steps of another in one
   of the two ways that RowsHaveTheirText names. *)
THEOREM TextsAreKept == Spec => []RowsHaveTheirText
<1>1. TextsInv => RowsHaveTheirText
  BY DEF TextsInv, MailInv, SettledMail, DraftInv, DraftTexts, RowsHaveTheirText
<1>. QED BY <1>1, TextsInvariance, PTL

(* Whatever requests overlap, a send answered with success has its row marked sent with
   exactly the mail that went out, until the row is deleted, save for the rows on which one
   request got between two steps of another (raced). *)
THEOREM SuccessIsOnRecord == Spec => []SentIsOnRecord
<1>1. TextsInv => SentIsOnRecord
  BY DEF TextsInv, MailInv, AnsweredMail
<1>. QED BY <1>1, TextsInvariance, PTL
=============================================================================
