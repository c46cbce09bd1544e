--------------------------- MODULE MailStoreProofs ---------------------------
(***************************************************************************)
(* Proofs about MailStore, for every set of mails, replies and requests at *)
(* work together, and every number and kind of faults.                     *)
(***************************************************************************)
EXTENDS MailStore, TLAPS

-----------------------------------------------------------------------------
(* The inductive invariant.  Arrived says that a mail's session is over: from then
   on it can only lose its row, so what is removed for good stays removed. *)

Row == [thread : Mails \cup {None}, viewed : BOOLEAN, starred : BOOLEAN, old : BOOLEAN, row : BOOLEAN]
SessionStates == {"new", "lookup_mail", "lookup_reply", "insert", "accepted", "refused"}
RequestType ==
  [kind  : {"idle", "open", "delete", "reply"},
   mail  : Mails \cup {None},
   reply : Replies \cup {None},
   pc    : {"start", "mark", "show", "row", "attachments", "send", "write", "record", "attach"}]

TypeInv ==
  /\ mail \in [Mails -> Row]
  /\ replies \in [Replies -> Mails \cup {None}]
  /\ session \in [Mails -> SessionStates]
  /\ found \in [Mails -> Mails \cup {None}]
  /\ request \in [Requests -> RequestType]
  /\ removing \in SUBSET Mails
  /\ answered \in [Replies -> Mails \cup {"no", "error"}]
  /\ faults \in Nat /\ faults <= MaxFaults

Arrived(m) == session[m] \in {"accepted", "refused"}

(* A row comes with the end of the session, a body before; the thread that a session has
   found is a root as long as it exists. *)
ArrivalInv ==
  \A m \in Mails :
    /\ Stored(m) => Arrived(m)
    /\ ~Arrived(m) /\ session[m] # "new" => EmlFile(m) \in files
    /\ found[m] # None => /\ session[m] = "insert" /\ Arrived(found[m])
                          /\ Stored(found[m]) => mail[found[m]].thread = None

(* Threads are one level deep, and a root exists as long as its children. *)
FlatThreads ==
  \A m \in Mails : Stored(m) /\ mail[m].thread # None =>
    Stored(mail[m].thread) /\ mail[mail[m].thread].thread = None

(* Requests work on mail that has arrived; what they and the tasks remove next to a row
   belongs to a row that is gone. *)
WorkInv ==
  /\ \A q \in Requests :
       /\ request[q].kind # "idle" => request[q].mail # None
       /\ request[q].mail # None => Arrived(request[q].mail)
       /\ request[q].kind = "reply" => request[q].reply # None
       /\ At(q, "delete", "attachments") => ~Stored(request[q].mail)
  /\ \A m \in removing : Arrived(m) /\ ~Stored(m)

(* A reply is written by one request, which has not answered yet; a recorded reply has
   its mail. *)
ReplyInv ==
  /\ \A q \in Requests : request[q].reply # None => answered[request[q].reply] = "no"
  /\ \A q, r \in Requests : request[q].reply # None /\ request[q].reply = request[r].reply => q = r
  /\ \A q \in Requests : At(q, "reply", "attach") /\ Stored(request[q].mail)
       => replies[request[q].reply] = request[q].mail
  /\ \A p \in Replies : answered[p] \in Mails => Arrived(answered[p])
  /\ \A p \in Replies : replies[p] # None => Stored(replies[p])

IndInv ==
  /\ TypeInv
  /\ ArrivalInv
  /\ FlatThreads
  /\ WorkInv
  /\ ReplyInv
  /\ MailIsComplete

-----------------------------------------------------------------------------
(* Operators *)

LEMMA Names ==
  /\ \A k, n : EmlFile(k) = EmlFile(n) => k = n
  /\ \A k, n : EmlFile(k) # PlainFile(n)
  BY DEF EmlFile, PlainFile

LEMMA Sentinels ==
  /\ None \notin Mails /\ None \notin Replies
  /\ "no" \notin Mails /\ "error" \notin Mails
  /\ \A x \in Mails : x \notin Replies
  BY StoreAssumption

(* A cascade takes what it starts from and every child of what it takes ... *)
LEMMA CascadeCloses ==
  ASSUME NEW ms \in SUBSET Mails
  PROVE  /\ ms \subseteq Cascade(ms) /\ Cascade(ms) \subseteq Mails
         /\ \A c \in Mails : Stored(c) /\ mail[c].thread \in Cascade(ms) => c \in Cascade(ms)
  BY DEF Cascade

(* ... and, as threads are one level deep, nothing but the children of the first. *)
LEMMA CascadeIsShallow ==
  ASSUME FlatThreads, TypeInv, NEW ms \in SUBSET Mails, NEW m \in Cascade(ms)
  PROVE  m \in ms \/ (Stored(m) /\ mail[m].thread \in ms)
  <1> DEFINE S == ms \cup {c \in Mails : Stored(c) /\ mail[c].thread \in ms}
  <1>1. S \in SUBSET Mails /\ ms \subseteq S
    OBVIOUS
  <1>2. ASSUME NEW c \in Mails, Stored(c), mail[c].thread \in S PROVE c \in S
    <2>1. mail[c].thread \in Mails /\ mail[c].thread # None
      BY <1>1, <1>2, Sentinels
    <2>2. mail[mail[c].thread].thread = None
      BY <1>2, <2>1 DEF FlatThreads
    <2>3. mail[c].thread \in ms
      BY <1>2, <2>2, Sentinels
    <2>4. QED
      BY <1>2, <2>3
  <1>3. m \in S
    <2> HIDE DEF S
    <2> QED BY <1>1, <1>2 DEF Cascade
  <1>4. QED
    BY <1>3

(* What deleting rows leaves: the other rows as they were, and their replies. *)
LEMMA DeletedRows ==
  ASSUME IndInv, NEW ms \in SUBSET Mails, DeleteRows(ms)
  PROVE  /\ mail' \in [Mails -> Row] /\ replies' \in [Replies -> Mails \cup {None}]
         /\ \A m \in Mails : mail'[m].row => Stored(m) /\ mail'[m] = mail[m]
         /\ \A m \in ms : ~mail'[m].row
         /\ FlatThreads'
         /\ \A p \in Replies : replies'[p] # None => replies'[p] = replies[p] /\ mail'[replies[p]].row
         /\ \A p \in Replies : replies[p] # None /\ mail'[replies[p]].row =>
              replies'[p] = replies[p] /\ (p \in atts => p \in atts')
         /\ \A m \in Mails : m \in atts => m \in atts'
  <1> DEFINE gone == Cascade(ms)
  <1>1. /\ ms \subseteq gone /\ gone \subseteq Mails
        /\ \A c \in Mails : Stored(c) /\ mail[c].thread \in gone => c \in gone
    BY CascadeCloses
  <1>2. /\ mail' = [m \in Mails |-> IF m \in gone THEN NoRow ELSE mail[m]]
        /\ replies' = [p \in Replies |-> IF replies[p] \in gone THEN None ELSE replies[p]]
        /\ atts' = atts \ {p \in Replies : replies[p] \in gone}
    BY DEF DeleteRows
  <1> HIDE DEF gone
  <1>3. NoRow \in Row /\ ~NoRow.row
    BY DEF NoRow, Row
  <1>4. mail' \in [Mails -> Row] /\ replies' \in [Replies -> Mails \cup {None}]
    BY <1>2, <1>3 DEF IndInv, TypeInv
  <1>5. \A m \in Mails : mail'[m].row => m \notin gone /\ Stored(m) /\ mail'[m] = mail[m]
    BY <1>2, <1>3 DEF Stored
  <1>6. \A m \in Mails \ gone : mail'[m] = mail[m] /\ (mail'[m].row <=> Stored(m))
    BY <1>2 DEF Stored
  <1>7. \A m \in ms : ~mail'[m].row
    BY <1>1, <1>5
  <1>8. FlatThreads'
    <2> SUFFICES ASSUME NEW m \in Mails, mail'[m].row, mail'[m].thread # None
                 PROVE  mail'[mail'[m].thread].row /\ mail'[mail'[m].thread].thread = None
      BY DEF FlatThreads, Stored
    <2>1. Stored(m) /\ m \notin gone /\ mail'[m].thread = mail[m].thread
      BY <1>5
    <2>2. mail[m].thread \in Mails \ gone
      BY <1>1, <2>1 DEF IndInv, TypeInv, Row
    <2>3. Stored(mail[m].thread) /\ mail[mail[m].thread].thread = None
      BY <2>1 DEF IndInv, FlatThreads
    <2>4. QED
      BY <1>6, <2>1, <2>2, <2>3 DEF Stored
  <1>9. \A p \in Replies : replies'[p] # None => replies'[p] = replies[p] /\ mail'[replies[p]].row
    BY <1>2, <1>6 DEF IndInv, TypeInv, ReplyInv, Stored
  <1>10. \A p \in Replies : replies[p] # None /\ mail'[replies[p]].row =>
              replies'[p] = replies[p] /\ (p \in atts => p \in atts')
    <2> SUFFICES ASSUME NEW p \in Replies, replies[p] # None, mail'[replies[p]].row
                 PROVE  replies'[p] = replies[p] /\ (p \in atts => p \in atts')
      OBVIOUS
    <2>1. replies[p] \in Mails /\ replies[p] \notin gone
      BY <1>5 DEF IndInv, TypeInv
    <2>2. QED
      BY <1>2, <2>1
  <1>11. \A m \in Mails : m \in atts => m \in atts'
    BY <1>2, Sentinels
  <1>12. QED
    BY <1>4, <1>5, <1>7, <1>8, <1>9, <1>10, <1>11

-----------------------------------------------------------------------------
(* Steps.  Fault or not, the budget of faults stays one. *)

LEMMA FaultType ==
  ASSUME TypeInv, NEW kind, Succeeds \/ Fault(kind)
  PROVE  faults' \in Nat /\ faults' <= faults /\ faults' <= MaxFaults
  BY StoreAssumption DEF TypeInv, Succeeds, Fault

LEMMA InitInv == Init => IndInv
  <1> SUFFICES ASSUME Init PROVE IndInv
    OBVIOUS
  <1> USE Sentinels DEF Init, Stored, NoRow, NewRow, Idle, Arrived
  <1>1. TypeInv
    <2>1. NoRow \in Row /\ NewRow(None) \in Row /\ Idle \in RequestType
      BY DEF Row, RequestType
    <2>2. mail \in [Mails -> Row] /\ request \in [Requests -> RequestType]
      <3> HIDE DEF NoRow, NewRow, Idle
      <3> QED BY <2>1
    <2>3. session \in [Mails -> SessionStates] /\ faults \in Nat /\ faults <= MaxFaults
      BY StoreAssumption DEF SessionStates
    <2>4. QED
      BY <2>2, <2>3 DEF TypeInv
  <1>2. ArrivalInv /\ FlatThreads
    BY StoreAssumption DEF ArrivalInv, FlatThreads
  <1>3. WorkInv /\ ReplyInv
    BY DEF WorkInv, ReplyInv, At
  <1>4. MailIsComplete
    BY StoreAssumption DEF MailIsComplete
  <1>5. QED
    BY <1>1, <1>2, <1>3, <1>4 DEF IndInv

(* A mail arrives. *)
LEMMA PersistStep ==
  ASSUME IndInv, NEW m \in Mails, Persist(m)
  PROVE  IndInv'
  <1>1. TypeInv'
    BY FaultType DEF Persist, IndInv, TypeInv, SessionStates, Fault
  <1>2. /\ \A k \in Mails : Arrived(k) => Arrived(k)'
        /\ \A k \in Mails : k # m => session'[k] = session[k]
        /\ session[m] = "new" /\ session'[m] \in {"refused", "insert", "lookup_mail"}
        /\ session'[m] # "refused" => EmlFile(m) \in files'
        /\ files \subseteq files'
        /\ UNCHANGED <<mail, replies, atts, found, request, removing, answered>>
    BY DEF Persist, IndInv, TypeInv, Arrived
  <1>3. ArrivalInv' /\ FlatThreads'
    BY <1>2 DEF IndInv, TypeInv, ArrivalInv, FlatThreads, Stored, Arrived
  <1>4. WorkInv' /\ ReplyInv'
    BY <1>2 DEF IndInv, TypeInv, RequestType, WorkInv, ReplyInv, Stored, At
  <1>5. MailIsComplete'
    BY <1>2 DEF IndInv, MailIsComplete, Stored
  <1>6. QED
    BY <1>1, <1>3, <1>4, <1>5 DEF IndInv

(* The thread a session finds is the root of a mail on record. *)
LEMMA RootIsRoot ==
  ASSUME IndInv, NEW x \in Mails, Stored(x)
  PROVE  /\ Root(x) \in Mails /\ Stored(Root(x)) /\ Arrived(Root(x))
         /\ mail[Root(x)].thread = None
  BY DEF Root, IndInv, TypeInv, Row, FlatThreads, ArrivalInv

LEMMA LookupStep ==
  ASSUME IndInv, NEW m \in Mails, LookupMails(m) \/ LookupReplies(m)
  PROVE  IndInv'
  <1>1. \A r \in RootsOfMails(m) \cup RootsOfReplies(m) :
          r \in Mails /\ Arrived(r) /\ mail[r].thread = None
    BY RootIsRoot DEF RootsOfMails, RootsOfReplies, IndInv, TypeInv, ReplyInv
  <1>2. faults' \in Nat /\ faults' <= MaxFaults
    BY FaultType DEF LookupMails, LookupReplies, IndInv
  <1>3. /\ \A k \in Mails : k # m => session'[k] = session[k] /\ found'[k] = found[k]
        /\ session[m] \in {"lookup_mail", "lookup_reply"}
        /\ session'[m] \in {"lookup_reply", "insert"}
        /\ found' \in [Mails -> Mails \cup {None}] /\ session' \in [Mails -> SessionStates]
        /\ found'[m] # None => /\ session'[m] = "insert" /\ Arrived(found'[m])
                               /\ mail[found'[m]].thread = None
    <2>1. CASE \E r \in RootsOfMails(m) \cup RootsOfReplies(m) \cup {None} : LookupDone(m, r)
      BY <1>1, <2>1 DEF LookupMails, LookupReplies, LookupDone, IndInv, TypeInv, SessionStates
    <2>2. CASE session[m] = "lookup_mail" /\ session' = [session EXCEPT ![m] = "lookup_reply"] /\ UNCHANGED found
      BY <2>2 DEF IndInv, TypeInv, SessionStates, ArrivalInv
    <2>3. QED
      BY <2>1, <2>2 DEF LookupMails, LookupReplies
  <1>4. /\ \A k \in Mails : Arrived(k)' <=> Arrived(k)
        /\ UNCHANGED <<mail, replies, atts, files, request, removing, answered>>
    BY <1>3 DEF LookupMails, LookupReplies, Arrived
  <1>5. TypeInv'
    BY <1>2, <1>3, <1>4 DEF IndInv, TypeInv
  <1>6. ArrivalInv' /\ FlatThreads'
    BY <1>3, <1>4 DEF IndInv, TypeInv, ArrivalInv, FlatThreads, Stored, Arrived
  <1>7. WorkInv' /\ ReplyInv'
    BY <1>4 DEF IndInv, TypeInv, RequestType, WorkInv, ReplyInv, Stored, At
  <1>8. MailIsComplete'
    BY <1>4 DEF IndInv, MailIsComplete, Stored
  <1>9. QED
    BY <1>5, <1>6, <1>7, <1>8 DEF IndInv

(* The row of a mail appears when its session ends, at most once. *)
LEMMA InsertedRow ==
  ASSUME IndInv, NEW m \in Mails, session[m] = "insert", Inserted(m)
  PROVE  /\ mail' \in [Mails -> Row]
         /\ mail'[m] = NewRow(found[m]) /\ mail'[m].row /\ mail'[m].thread = found[m]
         /\ \A k \in Mails : k # m => mail'[k].row = mail[k].row /\ mail'[k].thread = mail[k].thread
         /\ found[m] # None => found[m] # m /\ mail[found[m]].row /\ mail[found[m]].thread = None
         /\ atts \subseteq atts' /\ (m \in Attached => m \in atts')
  <1>1. found[m] \in Mails \cup {None} /\ mail \in [Mails -> Row]
    BY DEF IndInv, TypeInv
  <1>2. NewRow(found[m]) \in Row /\ NewRow(found[m]).row /\ NewRow(found[m]).thread = found[m]
    BY <1>1 DEF NewRow, NoRow, Row
  <1>3. found[m] # None => found[m] # m /\ mail[found[m]].row /\ mail[found[m]].thread = None
    BY DEF Inserted, IndInv, ArrivalInv, Arrived, Stored
  <1>4. mail' = [x \in Mails |->
          IF x = m THEN NewRow(found[m])
          ELSE IF x = found[m] THEN [mail[x] EXCEPT !.viewed = FALSE] ELSE mail[x]]
    BY DEF Inserted
  <1>5. \A x \in Mails : /\ [mail[x] EXCEPT !.viewed = FALSE] \in Row
                         /\ [mail[x] EXCEPT !.viewed = FALSE].row = mail[x].row
                         /\ [mail[x] EXCEPT !.viewed = FALSE].thread = mail[x].thread
    BY <1>1 DEF Row
  <1>6. mail' \in [Mails -> Row]
    BY <1>1, <1>2, <1>4, <1>5
  <1>7. atts \subseteq atts' /\ (m \in Attached => m \in atts')
    BY DEF Inserted
  <1>8. QED
    BY <1>2, <1>3, <1>4, <1>5, <1>6, <1>7

LEMMA InsertStep ==
  ASSUME IndInv, NEW m \in Mails, InsertMail(m)
  PROVE  IndInv'
  <1>1. /\ session[m] = "insert" /\ session'[m] \in {"accepted", "refused"}
        /\ session' \in [Mails -> SessionStates]
        /\ \A k \in Mails : k # m => session'[k] = session[k] /\ found'[k] = found[k]
        /\ found'[m] = None /\ found' \in [Mails -> Mails \cup {None}]
        /\ UNCHANGED <<replies, files, request, removing, answered>>
    BY DEF InsertMail, IndInv, TypeInv, SessionStates
  <1>2. Inserted(m) \/ UNCHANGED <<mail, atts>>
    BY DEF InsertMail
  <1>3. faults' \in Nat /\ faults' <= MaxFaults
    BY FaultType DEF InsertMail, IndInv
  <1>4. /\ mail' \in [Mails -> Row]
        /\ mail'[m].row => /\ m \in Attached => m \in atts'
                           /\ mail'[m].thread # None => /\ mail'[m].thread # m
                                                        /\ mail[mail'[m].thread].row
                                                        /\ mail[mail'[m].thread].thread = None
        /\ \A k \in Mails : k # m => mail'[k].row = mail[k].row /\ mail'[k].thread = mail[k].thread
        /\ ~mail[m].row /\ atts \subseteq atts'
    BY <1>1, <1>2, InsertedRow DEF IndInv, TypeInv, ArrivalInv, Stored, Arrived
  <1>5. TypeInv'
    BY <1>1, <1>3, <1>4 DEF IndInv, TypeInv
  <1>6. FlatThreads'
    BY <1>4 DEF IndInv, TypeInv, Row, FlatThreads, Stored
  <1>7. ArrivalInv'
    BY <1>1, <1>4 DEF IndInv, TypeInv, ArrivalInv, Stored, Arrived
  <1>8. WorkInv'
    BY <1>1, <1>4 DEF IndInv, TypeInv, RequestType, WorkInv, Stored, Arrived, At
  <1>9. ReplyInv'
    BY <1>1, <1>4 DEF IndInv, TypeInv, RequestType, WorkInv, ReplyInv, Stored, Arrived, At
  <1>10. MailIsComplete'
    BY <1>1, <1>4 DEF IndInv, TypeInv, ArrivalInv, ReplyInv, MailIsComplete, Stored, Arrived
  <1>11. QED
    BY <1>5, <1>6, <1>7, <1>8, <1>9, <1>10 DEF IndInv

(* Steps that delete rows, or change nothing but flags of rows. *)

LoseRows ==
  /\ mail' \in [Mails -> Row]
  /\ \A m \in Mails : mail'[m].row => mail[m].row /\ mail'[m].thread = mail[m].thread

SameRows ==
  /\ mail' \in [Mails -> Row]
  /\ \A m \in Mails : mail'[m].row = mail[m].row /\ mail'[m].thread = mail[m].thread

LEMMA ArrivalKept ==
  ASSUME IndInv, LoseRows, UNCHANGED <<session, found, files>>
  PROVE  ArrivalInv'
  BY DEF LoseRows, IndInv, TypeInv, ArrivalInv, Stored, Arrived

LEMMA WorkKept ==
  ASSUME IndInv, LoseRows, UNCHANGED <<session, request, removing>>
  PROVE  WorkInv'
  BY DEF LoseRows, IndInv, TypeInv, RequestType, WorkInv, Stored, Arrived, At

LEMMA FlagsStep ==
  ASSUME IndInv, SameRows, UNCHANGED <<replies, atts, files, session, found, removing, answered>>
  PROVE  /\ ArrivalInv' /\ FlatThreads' /\ MailIsComplete'
         /\ UNCHANGED request => WorkInv' /\ ReplyInv'
  <1>1. LoseRows
    BY DEF SameRows, LoseRows
  <1>2. FlatThreads' /\ MailIsComplete'
    BY DEF SameRows, IndInv, TypeInv, Row, FlatThreads, MailIsComplete, Stored
  <1>3. UNCHANGED request => ReplyInv'
    BY DEF SameRows, IndInv, TypeInv, RequestType, WorkInv, ReplyInv, Stored, Arrived, At
  <1>4. QED
    BY <1>1, <1>2, <1>3, ArrivalKept, WorkKept

LEMMA ViewedRows ==
  ASSUME IndInv, NEW ms, NEW value \in BOOLEAN, SetViewed(ms, value)
  PROVE  SameRows
  BY DEF SetViewed, SameRows, IndInv, TypeInv, Row

(* MarkUnread, ToggleFavorite and TimePasses *)
LEMMA FlagRows ==
  ASSUME IndInv,
         \/ \E ms \in SUBSET Mails : MarkUnread(ms)
         \/ \E m \in Mails : ToggleFavorite(m)
         \/ TimePasses
  PROVE  SameRows
  <1>1. CASE \E ms \in SUBSET Mails : MarkUnread(ms)
    BY <1>1, ViewedRows DEF MarkUnread
  <1>2. CASE \E m \in Mails : ToggleFavorite(m)
    <2>1. PICK m \in Mails : mail' = [mail EXCEPT ![m].starred = ~@]
      BY <1>2 DEF ToggleFavorite, FlipStar
    <2>2. /\ [mail[m] EXCEPT !.starred = ~@] \in Row
          /\ [mail[m] EXCEPT !.starred = ~@].row = mail[m].row
          /\ [mail[m] EXCEPT !.starred = ~@].thread = mail[m].thread
      BY DEF IndInv, TypeInv, Row
    <2>3. mail' = [mail EXCEPT ![m] = [mail[m] EXCEPT !.starred = ~@]] /\ mail \in [Mails -> Row]
      BY <2>1 DEF IndInv, TypeInv
    <2>4. QED
      BY <2>2, <2>3 DEF SameRows
  <1>3. CASE TimePasses
    <2>1. \A m \in Mails : /\ [mail[m] EXCEPT !.old = mail[m].row] \in Row
                           /\ [mail[m] EXCEPT !.old = mail[m].row].row = mail[m].row
                           /\ [mail[m] EXCEPT !.old = mail[m].row].thread = mail[m].thread
      BY DEF IndInv, TypeInv, Row
    <2>2. QED
      BY <1>3, <2>1 DEF TimePasses, SameRows
  <1>4. QED
    BY <1>1, <1>2, <1>3

LEMMA FlagActions ==
  ASSUME IndInv,
         \/ \E ms \in SUBSET Mails : MarkUnread(ms)
         \/ \E m \in Mails : ToggleFavorite(m)
         \/ TimePasses
  PROVE  IndInv'
  <1>1. SameRows
    BY FlagRows
  <1>2. UNCHANGED <<replies, atts, files, session, found, request, removing, answered, faults>>
    BY DEF MarkUnread, ToggleFavorite, TimePasses
  <1>3. TypeInv'
    BY <1>1, <1>2 DEF SameRows, IndInv, TypeInv
  <1>4. QED
    BY <1>1, <1>2, <1>3, FlagsStep DEF IndInv

(* Deleting rows keeps everything that is not about the requests. *)
LEMMA RowsDeleted ==
  ASSUME IndInv, NEW ms \in SUBSET Mails, DeleteRows(ms) \/ UNCHANGED <<mail, replies, atts>>,
         UNCHANGED <<files, session, found, removing, answered>>
  PROVE  /\ LoseRows /\ replies' \in [Replies -> Mails \cup {None}]
         /\ ArrivalInv' /\ FlatThreads' /\ MailIsComplete'
         /\ UNCHANGED request => WorkInv' /\ ReplyInv'
  <1>1. CASE DeleteRows(ms)
    <2>1. /\ LoseRows /\ FlatThreads' /\ replies' \in [Replies -> Mails \cup {None}]
          /\ \A p \in Replies : replies'[p] # None => replies'[p] = replies[p] /\ mail'[replies[p]].row
          /\ \A p \in Replies : replies[p] # None /\ mail'[replies[p]].row =>
               replies'[p] = replies[p] /\ (p \in atts => p \in atts')
          /\ \A m \in Mails : m \in atts => m \in atts'
      BY <1>1, DeletedRows DEF LoseRows, Stored
    <2>2. MailIsComplete'
      BY <2>1, Sentinels DEF LoseRows, IndInv, TypeInv, MailIsComplete, Stored
    <2>3. UNCHANGED request => ReplyInv'
      BY <2>1 DEF LoseRows, IndInv, TypeInv, RequestType, WorkInv, ReplyInv, Stored, Arrived, At
    <2>4. QED
      BY <2>1, <2>2, <2>3, ArrivalKept, WorkKept
  <1>2. CASE UNCHANGED <<mail, replies, atts>>
    <2>1. SameRows /\ LoseRows
      BY <1>2 DEF SameRows, LoseRows, IndInv, TypeInv
    <2>2. QED
      BY <1>2, <2>1, FlagsStep DEF IndInv, TypeInv
  <1>3. QED
    BY <1>1, <1>2

(* The retention task, the end of an alias, and what touches no mail at all. *)
LEMMA TaskStep ==
  ASSUME IndInv,
         \/ CleanupSelect \/ CleanupDelete
         \/ \E a \in Aliases : DeleteAlias(a)
         \/ \E u \in Users : ToggleAutoclean(u)
  PROVE  IndInv'
  <1>1. \E ms \in SUBSET Mails : DeleteRows(ms) \/ UNCHANGED <<mail, replies, atts>>
    BY DEF CleanupSelect, CleanupDelete, DeleteAlias, ToggleAutoclean
  <1>2. UNCHANGED <<files, session, found, request, removing, answered>>
    BY DEF CleanupSelect, CleanupDelete, DeleteAlias, ToggleAutoclean
  <1>3. faults' \in Nat /\ faults' <= MaxFaults
    BY FaultType DEF CleanupSelect, CleanupDelete, DeleteAlias, ToggleAutoclean, IndInv, Succeeds
  <1>4. TypeInv'
    BY <1>1, <1>2, <1>3, RowsDeleted DEF LoseRows, IndInv, TypeInv
  <1>5. QED
    BY <1>1, <1>2, <1>4, RowsDeleted DEF IndInv

(* Files are removed after their row, and never come back to need them. *)
LEMMA FilesStep ==
  ASSUME IndInv, CleanupFiles \/ \E m \in Mails : RemoveFiles(m)
  PROVE  IndInv'
  <1>1. \A m \in Mails : Stored(m) \/ ~Arrived(m) => (EmlFile(m) \in files => EmlFile(m) \in files')
    BY Names DEF CleanupFiles, CleanedFile, RemoveFiles, IndInv, WorkInv
  <1>2. UNCHANGED <<mail, replies, atts, session, found, request, answered>> /\ removing' \subseteq removing
    BY DEF CleanupFiles, RemoveFiles
  <1>3. faults' \in Nat /\ faults' <= MaxFaults
    BY FaultType DEF CleanupFiles, RemoveFiles, IndInv, Succeeds
  <1>4. TypeInv'
    BY <1>2, <1>3 DEF IndInv, TypeInv
  <1>5. ArrivalInv' /\ FlatThreads'
    BY <1>1, <1>2 DEF IndInv, ArrivalInv, FlatThreads, Stored, Arrived
  <1>6. WorkInv' /\ ReplyInv'
    BY <1>2 DEF IndInv, WorkInv, ReplyInv, Stored, Arrived, At
  <1>7. MailIsComplete'
    BY <1>1, <1>2 DEF IndInv, MailIsComplete, Stored
  <1>8. QED
    BY <1>4, <1>5, <1>6, <1>7 DEF IndInv

(* Web requests.  What a request may do to the table of requests: begin with a mail that
   has a row, go to another step, or end. *)

Begins(q) ==
  /\ request[q] = Idle
  /\ request' \in [Requests -> RequestType]
  /\ \A r \in Requests : r # q => request'[r] = request[r]
  /\ request'[q].mail \in Mails /\ Stored(request'[q].mail)
  /\ request'[q].kind = "reply" <=> request'[q].reply # None
  /\ request'[q].pc \notin {"attachments", "attach"}

Moves(q) ==
  /\ request' \in [Requests -> RequestType]
  /\ \A r \in Requests : r # q => request'[r] = request[r]
  /\ \/ request'[q] = Idle
     \/ /\ request'[q].kind = request[q].kind /\ request'[q].mail = request[q].mail
        /\ request'[q].reply = request[q].reply

LEMMA BeginEffect ==
  ASSUME IndInv, NEW q \in Requests, NEW m \in Mails, Stored(m), NEW p \in Replies \cup {None},
         NEW kind \in {"open", "delete", "reply"}, kind = "reply" <=> p # None,
         NEW pc \in {"mark", "row", "send"}, BeginReply(q, kind, m, p, pc)
  PROVE  Begins(q) /\ request'[q].reply = p
  BY DEF BeginReply, Begins, IndInv, TypeInv, RequestType

LEMMA MoveEffect ==
  ASSUME IndInv, NEW q \in Requests,
         NEW pc \in {"show", "attachments", "write", "record", "attach"}, GoTo(q, pc) \/ End(q)
  PROVE  /\ Moves(q)
         /\ request'[q].pc \in {pc, "start"}
         /\ request'[q].kind # "idle" => GoTo(q, pc)
  BY DEF GoTo, End, Moves, Idle, IndInv, TypeInv, RequestType

LEMMA BeginStep ==
  ASSUME IndInv, NEW q \in Requests, NEW m \in Mails,
         OpenRead(q, m) \/ DeleteRead(q, m) \/ \E p \in Replies : ReplyRead(q, m, p)
  PROVE  IndInv'
  <1>1. /\ Begins(q)
        /\ request'[q].reply # None =>
             /\ answered[request'[q].reply] = "no"
             /\ \A r \in Requests : request[r].reply # request'[q].reply
    <2>1. CASE OpenRead(q, m)
      BY <2>1, BeginEffect DEF OpenRead, Begin
    <2>2. CASE DeleteRead(q, m)
      BY <2>2, BeginEffect DEF DeleteRead, Begin
    <2>3. CASE \E p \in Replies : ReplyRead(q, m, p)
      BY <2>3, BeginEffect, Sentinels DEF ReplyRead
    <2>4. QED
      BY <2>1, <2>2, <2>3
  <1>2. UNCHANGED <<mail, replies, atts, files, session, found, removing, answered, faults>>
    BY DEF OpenRead, DeleteRead, ReplyRead
  <1>3. TypeInv'
    BY <1>1, <1>2 DEF Begins, IndInv, TypeInv
  <1>4. WorkInv'
    <2> SUFFICES ASSUME NEW r \in Requests
                 PROVE  /\ request'[r].kind # "idle" => request'[r].mail # None
                        /\ request'[r].mail # None => Arrived(request'[r].mail)
                        /\ request'[r].kind = "reply" => request'[r].reply # None
                        /\ At(r, "delete", "attachments")' => ~Stored(request'[r].mail)
      BY <1>2 DEF IndInv, WorkInv, Stored, Arrived
    <2>1. CASE r = q
      BY <1>1, <2>1, Sentinels DEF Begins, IndInv, ArrivalInv, At
    <2>2. CASE r # q
      BY <1>1, <2>2 DEF Begins, IndInv, WorkInv, At
    <2>3. QED
      BY <2>1, <2>2
  <1>5. ReplyInv'
    BY <1>1, <1>2 DEF Begins, IndInv, TypeInv, ReplyInv, Stored, Arrived, At
  <1>6. SameRows
    BY <1>2 DEF SameRows, IndInv, TypeInv
  <1>7. QED
    BY <1>2, <1>3, <1>4, <1>5, <1>6, FlagsStep DEF IndInv

(* A request that goes on or ends keeps what the invariant says about requests. *)
LEMMA MoveKeepsWork ==
  ASSUME IndInv, NEW q \in Requests, Moves(q), LoseRows, UNCHANGED <<session, removing>>,
         request'[q].kind = "delete" /\ request'[q].pc = "attachments" => ~mail'[request[q].mail].row
  PROVE  WorkInv'
  <1>1. \A m \in removing' : Arrived(m)' /\ ~Stored(m)'
    BY DEF LoseRows, IndInv, TypeInv, WorkInv, Stored, Arrived
  <1> SUFFICES ASSUME NEW r \in Requests
               PROVE  /\ request'[r].kind # "idle" => request'[r].mail # None
                      /\ request'[r].mail # None => Arrived(request'[r].mail)
                      /\ request'[r].kind = "reply" => request'[r].reply # None
                      /\ At(r, "delete", "attachments")' => ~mail'[request'[r].mail].row
    BY <1>1 DEF WorkInv, Stored, Arrived
  <1>2. CASE r = q
    <2>1. CASE request'[q] = Idle
      BY <1>2, <2>1 DEF Idle, At
    <2>2. CASE request'[q] # Idle
      BY <1>2, <2>2 DEF Moves, IndInv, WorkInv, At
    <2>3. QED
      BY <2>1, <2>2
  <1>3. CASE r # q
    <2>1. request'[r] = request[r] /\ request[r].mail \in Mails \cup {None}
      BY <1>3 DEF Moves, IndInv, TypeInv, RequestType
    <2>2. QED
      BY <2>1 DEF LoseRows, IndInv, WorkInv, Stored, At
  <1>4. QED
    BY <1>2, <1>3

(* ... and, when it leaves the replies alone, what it says about them. *)
LEMMA MoveKeepsReplies ==
  ASSUME IndInv, NEW q \in Requests, Moves(q), LoseRows,
         UNCHANGED <<session, answered>>,
         \A p \in Replies : replies'[p] # None => replies'[p] = replies[p] /\ mail'[replies[p]].row,
         \A p \in Replies : replies[p] # None /\ mail'[replies[p]].row => replies'[p] = replies[p],
         request'[q].pc # "attach"
  PROVE  ReplyInv'
  <1>1. \A r \in Requests : /\ request'[r].reply \in {request[r].reply, None}
                            /\ r # q => request'[r] = request[r]
                            /\ request[r].reply \in Replies \cup {None}
                            /\ request[r].mail \in Mails \cup {None}
    BY DEF Moves, Idle, IndInv, TypeInv, RequestType
  <1>2. \A r \in Requests : At(r, "reply", "attach")' /\ mail'[request'[r].mail].row
          => replies'[request'[r].reply] = request'[r].mail
    <2> SUFFICES ASSUME NEW r \in Requests, At(r, "reply", "attach")', mail'[request'[r].mail].row
                 PROVE  replies'[request'[r].reply] = request'[r].mail
      OBVIOUS
    <2>1. r # q /\ request'[r] = request[r]
      BY <1>1 DEF At
    <2>2. request[r].reply \in Replies /\ request[r].mail \in Mails
      BY <1>1, <2>1 DEF At, IndInv, WorkInv
    <2>3. replies[request[r].reply] = request[r].mail /\ request[r].mail # None
      BY <2>1, <2>2, Sentinels DEF At, LoseRows, IndInv, ReplyInv, Stored
    <2>4. QED
      BY <2>1, <2>2, <2>3
  <1>3. \A r \in Requests : request'[r].reply # None => answered'[request'[r].reply] = "no"
    BY <1>1 DEF IndInv, ReplyInv
  <1>4. \A r, t \in Requests : request'[r].reply # None /\ request'[r].reply = request'[t].reply => r = t
    BY <1>1 DEF IndInv, ReplyInv
  <1>5. \A p \in Replies : answered[p] \in Mails => Arrived(answered[p])
    BY DEF IndInv, ReplyInv
  <1>6. QED
    BY <1>2, <1>3, <1>4, <1>5 DEF ReplyInv, Stored, Arrived

LEMMA OpenStep ==
  ASSUME IndInv, NEW q \in Requests, OpenMark(q) \/ OpenShow(q)
  PROVE  IndInv'
  <1>1. SameRows /\ LoseRows
    BY ViewedRows DEF OpenMark, OpenShow, SameRows, LoseRows, IndInv, TypeInv
  <1>2. Moves(q) /\ request'[q].pc \in {"show", "start"}
    BY MoveEffect DEF OpenMark, OpenShow
  <1>3. /\ UNCHANGED <<replies, atts, files, session, found, removing, answered>>
        /\ faults' \in Nat /\ faults' <= MaxFaults
    BY FaultType DEF OpenMark, OpenShow, IndInv
  <1>4. TypeInv'
    BY <1>1, <1>2, <1>3 DEF SameRows, Moves, IndInv, TypeInv
  <1>5. ReplyInv'
    <2>1. \A p \in Replies : replies[p] # None => mail'[replies[p]].row
      BY <1>1 DEF SameRows, IndInv, TypeInv, ReplyInv, Stored
    <2>2. QED
      BY <1>1, <1>2, <1>3, <2>1, MoveKeepsReplies
  <1>6. QED
    BY <1>1, <1>2, <1>3, <1>4, <1>5, FlagsStep, MoveKeepsWork DEF IndInv

LEMMA DeleteRowStep ==
  ASSUME IndInv, NEW q \in Requests, DeleteRow(q)
  PROVE  IndInv'
  <1> DEFINE m == request[q].mail
  <1>1. m \in Mails
    BY DEF DeleteRow, At, IndInv, TypeInv, RequestType, WorkInv
  <1>2. /\ DeleteRows({m}) \/ UNCHANGED <<mail, replies, atts>>
        /\ UNCHANGED <<files, session, found, removing, answered>>
        /\ faults' \in Nat /\ faults' <= MaxFaults
    BY FaultType DEF DeleteRow, IndInv
  <1>3. Moves(q) /\ request'[q].pc \in {"attachments", "start"}
    BY MoveEffect DEF DeleteRow
  <1>4. request'[q].pc = "attachments" => DeleteRows({m})
    BY DEF DeleteRow, End, Idle, IndInv, TypeInv
  <1>5. /\ LoseRows /\ ArrivalInv' /\ FlatThreads' /\ MailIsComplete'
        /\ replies' \in [Replies -> Mails \cup {None}]
    BY <1>1, <1>2, RowsDeleted
  <1>6. TypeInv'
    BY <1>2, <1>3, <1>5 DEF LoseRows, Moves, IndInv, TypeInv
  <1>7. WorkInv'
    <2>1. DeleteRows({m}) => ~mail'[m].row
      BY <1>1, DeletedRows
    <2>2. QED
      BY <1>2, <1>3, <1>4, <1>5, <2>1, MoveKeepsWork
  <1>8. ReplyInv'
    <2>1. /\ \A p \in Replies : replies'[p] # None => replies'[p] = replies[p] /\ mail'[replies[p]].row
          /\ \A p \in Replies : replies[p] # None /\ mail'[replies[p]].row => replies'[p] = replies[p]
      <3>1. CASE DeleteRows({m})
        BY <1>1, <3>1, DeletedRows
      <3>2. CASE UNCHANGED <<mail, replies, atts>>
        BY <3>2 DEF IndInv, ReplyInv, Stored
      <3>3. QED
        BY <1>2, <3>1, <3>2
    <2>2. QED
      BY <1>2, <1>3, <1>5, <2>1, MoveKeepsReplies
  <1>9. QED
    BY <1>5, <1>6, <1>7, <1>8 DEF IndInv

LEMMA DeleteAttachmentsStep ==
  ASSUME IndInv, NEW q \in Requests, DeleteAttachments(q)
  PROVE  IndInv'
  <1> DEFINE m == request[q].mail
  <1>1. m \in Mails /\ ~Stored(m) /\ Arrived(m)
    BY DEF DeleteAttachments, At, IndInv, TypeInv, RequestType, WorkInv
  <1>2. /\ UNCHANGED <<mail, replies, files, session, found, answered>>
        /\ faults' \in Nat /\ faults' <= MaxFaults
        /\ removing' = removing \cup {m}
        /\ \A x : x \in atts /\ x # m => x \in atts'
    BY FaultType DEF DeleteAttachments, IndInv
  <1>3. /\ request' \in [Requests -> RequestType] /\ request'[q] = Idle
        /\ \A r \in Requests : r # q => request'[r] = request[r]
    BY DEF DeleteAttachments, End, Idle, IndInv, TypeInv, RequestType
  <1>4. TypeInv'
    BY <1>1, <1>2, <1>3 DEF IndInv, TypeInv
  <1>5. ArrivalInv' /\ FlatThreads'
    BY <1>2 DEF IndInv, ArrivalInv, FlatThreads, Stored, Arrived
  <1>6. WorkInv'
    BY <1>1, <1>2, <1>3 DEF Idle, IndInv, WorkInv, Stored, Arrived, At
  <1>7. ReplyInv'
    BY <1>2, <1>3 DEF Idle, IndInv, ReplyInv, Stored, Arrived, At
  <1>8. MailIsComplete'
    BY <1>1, <1>2, Sentinels DEF IndInv, MailIsComplete, Stored
  <1>9. QED
    BY <1>4, <1>5, <1>6, <1>7, <1>8 DEF IndInv

(* A reply is answered once, by the request that wrote it. *)
LEMMA Answers ==
  ASSUME IndInv, NEW q \in Requests, request[q].kind = "reply",
         NEW result \in {"error", request[q].mail}, Answer(q, result)
  PROVE  /\ request[q].reply \in Replies /\ request[q].mail \in Mails /\ Arrived(request[q].mail)
         /\ Moves(q) /\ request'[q] = Idle
         /\ \A r \in Requests : r # q => request[r].reply # request[q].reply
         /\ answered' = [answered EXCEPT ![request[q].reply] = result]
         /\ answered' \in [Replies -> Mails \cup {"no", "error"}]
  <1>1. request[q].reply \in Replies /\ request[q].mail \in Mails /\ Arrived(request[q].mail)
    BY DEF IndInv, TypeInv, RequestType, WorkInv
  <1>2. Moves(q) /\ request'[q] = Idle
    BY DEF Answer, End, Moves, Idle, IndInv, TypeInv, RequestType
  <1>3. \A r \in Requests : r # q => request[r].reply # request[q].reply
    BY <1>1, Sentinels DEF IndInv, ReplyInv
  <1>4. answered' = [answered EXCEPT ![request[q].reply] = result]
    BY DEF Answer
  <1>5. QED
    BY <1>1, <1>2, <1>3, <1>4 DEF IndInv, TypeInv

(* The invariant after a step of a reply, from what the step does to its reply p. *)
LEMMA ReplyEffect ==
  ASSUME IndInv, NEW q \in Requests, request[q].kind = "reply",
         NEW p \in Replies, p = request[q].reply, NEW m \in Mails, m = request[q].mail,
         Moves(q), request'[q] = Idle \/ (request'[q].pc = "attach" => Stored(m) /\ replies'[p] = m),
         UNCHANGED <<mail, session, found, removing>>,
         files \subseteq files', faults' \in Nat, faults' <= MaxFaults,
         \A k \in Replies : k # p => replies'[k] = replies[k] /\ (k \in atts <=> k \in atts'),
         \A k \in Mails : k \in atts <=> k \in atts',
         replies' \in [Replies -> Mails \cup {None}],
         replies'[p] # None => Stored(replies'[p]),
         \/ UNCHANGED answered
         \/ /\ request'[q] = Idle
            /\ \/ answered' = [answered EXCEPT ![p] = "error"]
               \/ /\ answered' = [answered EXCEPT ![p] = m]
                  /\ Stored(m) => replies'[p] = m /\ (p \in Attached => p \in atts')
  PROVE  IndInv'
  <1>1. /\ answered[p] = "no" /\ Arrived(m)
        /\ \A r \in Requests : r # q => request[r].reply # p
    BY Sentinels DEF IndInv, TypeInv, WorkInv, ReplyInv
  <1>2. answered' \in [Replies -> Mails \cup {"no", "error"}] /\ \A k \in Replies : k # p => answered'[k] = answered[k]
    BY DEF IndInv, TypeInv
  <1>3. TypeInv'
    BY <1>2 DEF Moves, IndInv, TypeInv
  <1>4. ArrivalInv' /\ FlatThreads'
    BY DEF IndInv, ArrivalInv, FlatThreads, Stored, Arrived
  <1>5. WorkInv'
    <2>1. LoseRows
      BY DEF LoseRows, IndInv, TypeInv
    <2>2. request'[q].kind # "delete"
      BY DEF Moves, Idle
    <2>3. QED
      BY <2>1, <2>2, MoveKeepsWork
  <1>6. ReplyInv'
    <2>1. \A r \in Requests : /\ request'[r].reply \in {request[r].reply, None}
                              /\ r # q => request'[r] = request[r]
                              /\ request[r].reply \in Replies \cup {None}
      BY DEF Moves, Idle, IndInv, TypeInv, RequestType
    <2>2. \A r \in Requests : request'[r].reply # None => answered'[request'[r].reply] = "no"
      BY <1>1, <1>2, <2>1 DEF Idle, IndInv, ReplyInv
    <2>3. \A r, t \in Requests : request'[r].reply # None /\ request'[r].reply = request'[t].reply => r = t
      BY <2>1 DEF IndInv, ReplyInv
    <2>4. \A r \in Requests : At(r, "reply", "attach")' /\ mail[request'[r].mail].row
            => replies'[request'[r].reply] = request'[r].mail
      <3> SUFFICES ASSUME NEW r \in Requests, At(r, "reply", "attach")', mail[request'[r].mail].row
                   PROVE  replies'[request'[r].reply] = request'[r].mail
        OBVIOUS
      <3>1. CASE r = q
        BY <3>1 DEF Moves, Idle, At
      <3>2. CASE r # q
        <4>1. request[r].reply \in Replies /\ request[r].reply # p
          BY <1>1, <2>1, <3>2 DEF At, IndInv, WorkInv
        <4>2. replies[request[r].reply] = request[r].mail
          BY <2>1, <3>2 DEF At, IndInv, ReplyInv, Stored
        <4>3. QED
          BY <2>1, <3>2, <4>1, <4>2
      <3>3. QED
        BY <3>1, <3>2
    <2>5. \A k \in Replies : answered'[k] \in Mails => Arrived(answered'[k])
      <3> SUFFICES ASSUME NEW k \in Replies, answered'[k] \in Mails PROVE Arrived(answered'[k])
        OBVIOUS
      <3>1. CASE k = p
        BY <1>1, <3>1, Sentinels DEF IndInv, TypeInv
      <3>2. CASE k # p
        BY <1>2, <3>2 DEF IndInv, ReplyInv
      <3>3. QED
        BY <3>1, <3>2
    <2>6. \A k \in Replies : replies'[k] # None => Stored(replies'[k])
      BY DEF IndInv, ReplyInv
    <2>7. QED
      BY <2>2, <2>3, <2>4, <2>5, <2>6 DEF ReplyInv, Stored, Arrived
  <1>7. MailIsComplete'
    <2>1. \A k \in Mails : Stored(k) => EmlFile(k) \in files' /\ (k \in Attached => k \in atts')
      BY DEF IndInv, MailIsComplete
    <2>2. \A k \in Replies : answered'[k] \in Mails /\ Stored(answered'[k]) =>
            replies'[k] = answered'[k] /\ (k \in Attached => k \in atts')
      <3> SUFFICES ASSUME NEW k \in Replies, answered'[k] \in Mails, Stored(answered'[k])
                   PROVE  replies'[k] = answered'[k] /\ (k \in Attached => k \in atts')
        OBVIOUS
      <3>1. CASE k = p
        BY <1>1, <3>1, Sentinels DEF IndInv, TypeInv
      <3>2. CASE k # p
        BY <1>2, <3>2 DEF IndInv, MailIsComplete
      <3>3. QED
        BY <3>1, <3>2
    <2>3. QED
      BY <2>1, <2>2 DEF MailIsComplete, Stored
  <1>8. QED
    BY <1>3, <1>4, <1>5, <1>6, <1>7 DEF IndInv

LEMMA ReplyStep ==
  ASSUME IndInv, NEW q \in Requests,
         ReplySend(q) \/ ReplyWrite(q) \/ ReplyRecord(q) \/ ReplyAttach(q)
  PROVE  IndInv'
  <1> DEFINE p == request[q].reply
             m == request[q].mail
  <1>1. request[q].kind = "reply"
    BY DEF ReplySend, ReplyWrite, ReplyRecord, ReplyAttach, At
  <1>2. p \in Replies /\ m \in Mails
    BY <1>1 DEF IndInv, TypeInv, RequestType, WorkInv
  <1>3. faults' \in Nat /\ faults' <= MaxFaults
    BY FaultType DEF ReplySend, ReplyWrite, ReplyRecord, ReplyAttach, IndInv, Succeeds
  <1>4. UNCHANGED <<mail, session, found, removing>> /\ files \subseteq files'
    BY DEF ReplySend, ReplyWrite, ReplyRecord, ReplyAttach
  <1>5. replies \in [Replies -> Mails \cup {None}] /\ (replies[p] # None => Stored(replies[p]))
    BY <1>2 DEF IndInv, TypeInv, ReplyInv
  <1>6. CASE ReplySend(q) \/ ReplyWrite(q)
    <2>1. Moves(q) /\ request'[q].pc # "attach"
      BY <1>6, MoveEffect DEF ReplySend, ReplyWrite, Answer
    <2>2. /\ UNCHANGED <<replies, atts>>
          /\ UNCHANGED answered \/ (Answer(q, "error") /\ request'[q] = Idle)
      BY <1>1, <1>6, Answers DEF ReplySend, ReplyWrite
    <2>3. QED
      BY <1>1, <1>2, <1>3, <1>4, <1>5, <2>1, <2>2, ReplyEffect DEF Answer
  <1>7. CASE ReplyRecord(q)
    <2>1. /\ UNCHANGED atts
          /\ InsertReply(m, p) \/ UNCHANGED replies
      BY <1>7 DEF ReplyRecord
    <2>2. /\ \A k \in Replies : k # p => replies'[k] = replies[k]
          /\ replies' \in [Replies -> Mails \cup {None}] /\ (replies'[p] # None => Stored(replies'[p]))
          /\ InsertReply(m, p) => Stored(m) /\ replies'[p] = m
      BY <1>2, <1>5, <2>1 DEF InsertReply
    <2>3. \/ GoTo(q, "attach") /\ UNCHANGED answered /\ InsertReply(m, p)
          \/ Answer(q, m) /\ InsertReply(m, p) /\ p \notin Attached
          \/ Answer(q, "error")
      BY <1>7 DEF ReplyRecord
    <2>4. CASE GoTo(q, "attach") /\ UNCHANGED answered /\ InsertReply(m, p)
      BY <1>1, <1>2, <1>3, <1>4, <2>1, <2>2, <2>4, MoveEffect, ReplyEffect
    <2>5. CASE Answer(q, m) /\ InsertReply(m, p) /\ p \notin Attached
      BY <1>1, <1>2, <1>3, <1>4, <2>1, <2>2, <2>5, Answers, ReplyEffect
    <2>6. CASE Answer(q, "error")
      BY <1>1, <1>2, <1>3, <1>4, <2>1, <2>2, <2>6, Answers, ReplyEffect
    <2>7. QED
      BY <2>3, <2>4, <2>5, <2>6
  <1>8. CASE ReplyAttach(q)
    <2>1. /\ UNCHANGED replies
          /\ UNCHANGED atts \/ atts' = atts \cup {p}
          /\ Answer(q, "error") \/ (Answer(q, m) /\ p \in atts')
      BY <1>8 DEF ReplyAttach
    <2>2. /\ \A k \in Replies : k # p => (k \in atts <=> k \in atts')
          /\ \A k \in Mails : k \in atts <=> k \in atts'
      BY <1>2, <2>1, Sentinels
    <2>3. Stored(m) => replies[p] = m
      BY <1>8 DEF ReplyAttach, IndInv, ReplyInv
    <2>4. CASE Answer(q, "error")
      BY <1>1, <1>2, <1>3, <1>4, <1>5, <2>1, <2>2, <2>4, Answers, ReplyEffect
    <2>5. CASE Answer(q, m) /\ p \in atts'
      BY <1>1, <1>2, <1>3, <1>4, <1>5, <2>1, <2>2, <2>3, <2>5, Answers, ReplyEffect
    <2>6. QED
      BY <2>1, <2>4, <2>5
  <1>9. QED
    BY <1>6, <1>7, <1>8

(* A restart loses what is at work, never what is stored. *)
LEMMA RestartStep ==
  ASSUME IndInv, Restart
  PROVE  IndInv'
  <1>1. /\ UNCHANGED <<mail, replies, atts, files>> /\ removing' = {}
        /\ \A m \in Mails : found'[m] = None
        /\ \A q \in Requests : request'[q] = Idle
        /\ faults' \in Nat /\ faults' <= MaxFaults
    BY FaultType DEF Restart, IndInv
  <1>2. /\ session' \in [Mails -> SessionStates]
        /\ \A m \in Mails : session'[m] \in {"new", "accepted", "refused"}
        /\ \A m \in Mails : Arrived(m) => Arrived(m)'
    BY DEF Restart, IndInv, TypeInv, SessionStates, Arrived
  <1>3. /\ answered' \in [Replies -> Mails \cup {"no", "error"}]
        /\ \A p \in Replies : answered'[p] \in Mails => answered'[p] = answered[p]
    BY Sentinels DEF Restart, IndInv, TypeInv
  <1>4. TypeInv'
    <2>1. Idle \in RequestType
      BY DEF Idle, RequestType
    <2>2. request' \in [Requests -> RequestType] /\ found' \in [Mails -> Mails \cup {None}]
      BY <2>1 DEF Restart
    <2>3. QED
      BY <1>1, <1>2, <1>3, <2>2 DEF IndInv, TypeInv
  <1>5. ArrivalInv' /\ FlatThreads'
    BY <1>1, <1>2 DEF IndInv, ArrivalInv, FlatThreads, Stored, Arrived
  <1>6. WorkInv' /\ ReplyInv'
    BY <1>1, <1>2, <1>3 DEF Idle, IndInv, WorkInv, ReplyInv, Stored, Arrived, At
  <1>7. MailIsComplete'
    BY <1>1, <1>3 DEF IndInv, MailIsComplete, Stored
  <1>8. QED
    BY <1>4, <1>5, <1>6, <1>7 DEF IndInv

LEMMA StutterStep ==
  ASSUME IndInv, UNCHANGED vars
  PROVE  IndInv'
  <1> USE DEF vars
  <1>1. TypeInv' /\ ArrivalInv' /\ FlatThreads'
    BY DEF IndInv, TypeInv, ArrivalInv, FlatThreads, Stored, Arrived
  <1>2. WorkInv' /\ ReplyInv' /\ MailIsComplete'
    BY DEF IndInv, WorkInv, ReplyInv, MailIsComplete, Stored, Arrived, At
  <1>3. QED
    BY <1>1, <1>2 DEF IndInv

LEMMA NextInv == ASSUME IndInv, [Next]_vars PROVE IndInv'
  <1>1. ASSUME NEW m \in Mails, Arrival(m) PROVE IndInv'
    BY <1>1, PersistStep, LookupStep, InsertStep DEF Arrival
  <1>2. ASSUME NEW q \in Requests, WebRequest(q) PROVE IndInv'
    BY <1>2, BeginStep, OpenStep, DeleteRowStep, DeleteAttachmentsStep, ReplyStep DEF WebRequest
  <1>3. QED
    BY <1>1, <1>2, FlagActions, FilesStep, TaskStep, RestartStep, StutterStep DEF Next

(* The invariant holds whatever arrives, is read, answered, deleted, expires or is
   interrupted. *)
THEOREM Invariance == Spec => []IndInv
  BY InitInv, NextInv, PTL DEF Spec

(* A mail that has a row has its body and attachment rows, and a reply reported as sent
   is on record with its own as long as its mail is. *)
THEOREM StoredMailIsComplete == Spec => []MailIsComplete
  BY Invariance, PTL DEF IndInv

-----------------------------------------------------------------------------
(* Reading: ReadMeansShown is inductive on top of IndInv. *)

(* Every step but an insert only takes rows away. *)
LEMMA RowsStep ==
  ASSUME IndInv, [Next]_vars
  PROVE  LoseRows \/ \E m \in Mails : InsertMail(m)
  <1>1. ASSUME SameRows PROVE LoseRows
    BY <1>1 DEF SameRows, LoseRows
  <1>2. ASSUME UNCHANGED mail PROVE LoseRows
    BY <1>2 DEF LoseRows, IndInv, TypeInv
  <1>3. ASSUME NEW ms \in SUBSET Mails, DeleteRows(ms) PROVE LoseRows
    BY <1>3, DeletedRows DEF LoseRows, Stored
  <1>4. ASSUME NEW m \in Mails, Arrival(m), ~InsertMail(m) PROVE LoseRows
    BY <1>2, <1>4 DEF Arrival, Persist, LookupMails, LookupReplies
  <1>5. ASSUME NEW q \in Requests, WebRequest(q) PROVE LoseRows
    <2>1. CASE OpenMark(q)
      BY <1>1, <1>2, <2>1, ViewedRows DEF OpenMark
    <2>2. CASE DeleteRow(q)
      <3>1. {request[q].mail} \in SUBSET Mails
        BY <2>2 DEF DeleteRow, At, IndInv, TypeInv, RequestType, WorkInv
      <3>2. QED
        BY <1>2, <1>3, <2>2, <3>1 DEF DeleteRow
    <2>3. CASE ~OpenMark(q) /\ ~DeleteRow(q)
      BY <1>2, <1>5, <2>3 DEF WebRequest, OpenRead, OpenShow, DeleteRead, DeleteAttachments, ReplyRead,
         ReplySend, ReplyWrite, ReplyRecord, ReplyAttach
    <2>4. QED
      BY <2>1, <2>2, <2>3
  <1>6. CASE CleanupDelete \/ \E a \in Aliases : DeleteAlias(a)
    BY <1>2, <1>3, <1>6 DEF CleanupDelete, DeleteAlias
  <1>7. CASE TimePasses \/ (\E ms \in SUBSET Mails : MarkUnread(ms)) \/ \E m \in Mails : ToggleFavorite(m)
    BY <1>1, <1>7, FlagRows
  <1>8. QED
    BY <1>2, <1>4, <1>5, <1>6, <1>7
    DEF Next, vars, RemoveFiles, CleanupSelect, CleanupFiles, ToggleAutoclean, Restart

(* While no fault has happened, none happens in a step that leaves it so. *)
LEMMA NoFaultYet ==
  ASSUME TypeInv, faults' = MaxFaults
  PROVE  (\A kind : ~Fault(kind)) /\ (UNCHANGED faults => faults = MaxFaults)
  BY StoreAssumption DEF TypeInv, Fault

(* Faults are only used up. *)
LEMMA FaultsFall ==
  ASSUME TypeInv, [Next]_vars
  PROVE  faults' <= faults
  <1>1. \A kind : Fault(kind) => faults' <= faults
    BY DEF TypeInv, Fault
  <1>2. UNCHANGED faults => faults' <= faults
    BY DEF TypeInv
  <1>3. ASSUME NEW q \in Requests, WebRequest(q) PROVE faults' <= faults
    BY <1>1, <1>2, <1>3
    DEF WebRequest, OpenRead, OpenMark, OpenShow, DeleteRead, DeleteRow, DeleteAttachments, ReplyRead,
        ReplySend, ReplyWrite, ReplyRecord, ReplyAttach, Succeeds
  <1>4. QED
    BY <1>1, <1>2, <1>3
    DEF Next, vars, Arrival, Persist, LookupMails, LookupReplies, InsertMail, ToggleFavorite, RemoveFiles,
        MarkUnread, CleanupSelect, CleanupDelete, CleanupFiles, DeleteAlias, ToggleAutoclean, TimePasses,
        Restart, Succeeds

(* A step that marks nothing as viewed, adds no child and leaves the pages being made. *)
LEMMA NothingRead ==
  ASSUME IndInv, ReadMeansShown, LoseRows,
         \A m \in Mails : mail'[m].row /\ mail'[m].viewed => mail[m].viewed,
         shown \subseteq shown', UNCHANGED faults,
         \A q \in Requests : At(q, "open", "show") => request'[q] = request[q]
  PROVE  ReadMeansShown'
  <1> SUFFICES ASSUME NEW m \in Mails, mail'[m].row, mail'[m].viewed, faults = MaxFaults,
                      ~(Thread(m)' \subseteq shown')
               PROVE  \E q \in Requests : At(q, "open", "show")' /\ request'[q].mail = m
    BY DEF ReadMeansShown, Stored
  <1>1. Thread(m)' \subseteq Thread(m)
    BY DEF LoseRows, Thread, Children, Stored
  <1>2. PICK q \in Requests : At(q, "open", "show") /\ request[q].mail = m
    BY <1>1 DEF ReadMeansShown, LoseRows, Stored
  <1>3. QED
    BY <1>2 DEF At

LEMMA ReadStep ==
  ASSUME IndInv, ReadMeansShown, [Next]_vars
  PROVE  ReadMeansShown'
  <1>0. SUFFICES ASSUME faults' = MaxFaults PROVE ReadMeansShown'
    BY DEF ReadMeansShown
  <1>f. (\A kind : ~Fault(kind)) /\ (UNCHANGED faults => faults = MaxFaults)
    BY <1>0, NoFaultYet DEF IndInv
  <1>1. ASSUME NEW m \in Mails, InsertMail(m) PROVE ReadMeansShown'
    <2>1. session[m] = "insert" /\ UNCHANGED <<faults, shown, request>>
          /\ (Inserted(m) \/ UNCHANGED mail)
      BY <1>1, <1>f DEF InsertMail, Succeeds
    <2>2. CASE UNCHANGED mail
      <3>1. LoseRows
        BY <2>2 DEF LoseRows, IndInv, TypeInv
      <3>2. QED
        BY <2>1, <2>2, <3>1, NothingRead
    <2>3. CASE Inserted(m)
      <3>1. /\ mail'[m].thread = found[m] /\ ~mail'[m].viewed
            /\ found[m] # None => found[m] \in Mails /\ ~mail'[found[m]].viewed
            /\ \A k \in Mails : k # m => mail'[k].row = mail[k].row /\ mail'[k].thread = mail[k].thread
                                          /\ (mail'[k].viewed => mail[k].viewed)
        <4>1. NewRow(found[m]).viewed = FALSE
          BY DEF NewRow, NoRow
        <4>2. \A x \in Mails : [mail[x] EXCEPT !.viewed = FALSE].viewed = FALSE
          BY DEF IndInv, TypeInv, Row
        <4>3. found[m] # None => found[m] \in Mails /\ found[m] # m
          BY <2>1, <2>3, InsertedRow DEF IndInv, TypeInv
        <4>4. \A x \in Mails : mail'[x] =
                IF x = m THEN NewRow(found[m])
                ELSE IF x = found[m] THEN [mail[x] EXCEPT !.viewed = FALSE] ELSE mail[x]
          BY <2>3 DEF Inserted
        <4>5. /\ mail'[m].thread = found[m]
              /\ \A k \in Mails : k # m => mail'[k].row = mail[k].row /\ mail'[k].thread = mail[k].thread
          BY <2>1, <2>3, InsertedRow
        <4>6. ~mail'[m].viewed
          BY <4>1, <4>4
        <4>7. found[m] # None => found[m] \in Mails /\ ~mail'[found[m]].viewed
          BY <4>2, <4>3, <4>4
        <4>8. \A k \in Mails : k # m => (mail'[k].viewed => mail[k].viewed)
          BY <4>2, <4>4
        <4>9. QED
          BY <4>5, <4>6, <4>7, <4>8
      <3> SUFFICES ASSUME NEW k \in Mails, mail'[k].row, mail'[k].viewed
                   PROVE  \/ Thread(k)' \subseteq shown
                          \/ \E q \in Requests : At(q, "open", "show") /\ request[q].mail = k
        BY <2>1 DEF ReadMeansShown, Stored, At
      <3>2. k # m /\ k # found[m]
        BY <3>1, Sentinels
      <3>3. Thread(k)' \subseteq Thread(k)
        BY <3>1, <3>2 DEF Thread, Children, Stored
      <3>4. QED
        BY <1>f, <2>1, <3>1, <3>2, <3>3 DEF ReadMeansShown, Stored
    <2>4. QED
      BY <2>1, <2>2, <2>3
  <1>2. ASSUME NEW q \in Requests, OpenMark(q) PROVE ReadMeansShown'
    <2>1. /\ SetViewed({request[q].mail}, TRUE) /\ UNCHANGED <<faults, shown>>
          /\ At(q, "open", "mark") /\ GoTo(q, "show")
      BY <1>2, <1>f DEF OpenMark, Succeeds
    <2>2. /\ At(q, "open", "show")' /\ request'[q].mail = request[q].mail
          /\ \A r \in Requests : r # q => request'[r] = request[r]
      BY <2>1 DEF GoTo, At, IndInv, TypeInv, RequestType
    <2>3. SameRows
      BY <2>1, ViewedRows
    <2> SUFFICES ASSUME NEW k \in Mails, mail'[k].row, mail'[k].viewed, k # request[q].mail
                 PROVE  \/ Thread(k)' \subseteq shown
                        \/ \E r \in Requests : At(r, "open", "show")' /\ request'[r].mail = k
      BY <2>1, <2>2 DEF ReadMeansShown, Stored
    <2>4. mail'[k] = mail[k] /\ Thread(k)' \subseteq Thread(k)
      BY <2>1, <2>3 DEF SetViewed, SameRows, Thread, Children, Stored
    <2>5. CASE Thread(k) \subseteq shown
      BY <2>4, <2>5
    <2>6. CASE \E r \in Requests : At(r, "open", "show") /\ request[r].mail = k
      BY <2>1, <2>2, <2>6 DEF At
    <2>7. QED
      BY <1>f, <2>1, <2>4, <2>5, <2>6 DEF ReadMeansShown, Stored
  <1>3. ASSUME NEW q \in Requests, OpenShow(q) PROVE ReadMeansShown'
    <2> DEFINE m == request[q].mail
    <2>1. /\ shown' = IF EmlFile(m) \in files THEN shown \cup {m} \cup Readable(Children(m)) ELSE shown
          /\ UNCHANGED <<mail, faults>> /\ End(q)
      BY <1>3, <1>f DEF OpenShow, Succeeds
    <2>2. \A r \in Requests : r # q => request'[r] = request[r]
      BY <2>1 DEF End, IndInv, TypeInv
    <2> SUFFICES ASSUME NEW k \in Mails, Stored(k), mail[k].viewed, ~(Thread(k) \subseteq shown')
                 PROVE  \E r \in Requests : At(r, "open", "show")' /\ request'[r].mail = k
      BY <2>1 DEF ReadMeansShown, Stored, Thread, Children
    <2>3. k # m
      <3>1. SUFFICES ASSUME k = m PROVE FALSE
        OBVIOUS
      <3>2. EmlFile(m) \in files /\ Readable(Children(m)) = Children(m)
        BY <3>1 DEF Readable, Children, IndInv, MailIsComplete
      <3>3. QED
        BY <2>1, <3>1, <3>2 DEF Thread
    <2>4. PICK r \in Requests : At(r, "open", "show") /\ request[r].mail = k
      BY <1>f, <2>1 DEF ReadMeansShown
    <2>5. QED
      BY <2>2, <2>3, <2>4 DEF At
  <1>4. ASSUME UNCHANGED <<faults, shown>>,
               \A m \in Mails : mail'[m].row /\ mail'[m].viewed => mail[m].viewed,
               \A q \in Requests : At(q, "open", "show") => request'[q] = request[q]
        PROVE  ReadMeansShown'
    BY <1>1, <1>4, RowsStep, NothingRead
  <1>5. ASSUME NEW q \in Requests, WebRequest(q), ~OpenMark(q), ~OpenShow(q) PROVE ReadMeansShown'
    <2>1. UNCHANGED <<faults, shown>>
      BY <1>5, <1>f DEF WebRequest, OpenRead, DeleteRead, ReplyRead, DeleteRow, DeleteAttachments,
         ReplySend, ReplyWrite, ReplyRecord, ReplyAttach, Succeeds
    <2>2. UNCHANGED mail \/ \E ms \in SUBSET Mails : DeleteRows(ms)
      <3>1. CASE DeleteRow(q)
        <4>1. {request[q].mail} \in SUBSET Mails
          BY <3>1 DEF DeleteRow, At, IndInv, TypeInv, RequestType, WorkInv
        <4>2. QED
          BY <3>1, <4>1 DEF DeleteRow
      <3>2. CASE ~DeleteRow(q)
        BY <1>5, <3>2 DEF WebRequest, OpenRead, DeleteRead, ReplyRead, DeleteAttachments, ReplySend,
           ReplyWrite, ReplyRecord, ReplyAttach
      <3>3. QED
        BY <3>1, <3>2
    <2>3. ~At(q, "open", "show") /\ \A r \in Requests : r # q => request'[r] = request[r]
      BY <1>5 DEF WebRequest, OpenRead, DeleteRead, ReplyRead, DeleteRow, DeleteAttachments, ReplySend,
         ReplyWrite, ReplyRecord, ReplyAttach, Begin, BeginReply, GoTo, Answer, End, At, Idle, IndInv, TypeInv
    <2>4. QED
      BY <1>4, <2>1, <2>2, <2>3, DeletedRows DEF Stored
  <1>6. CASE \/ \E m \in Mails : ToggleFavorite(m)
             \/ \E ms \in SUBSET Mails : MarkUnread(ms)
             \/ TimePasses
    <2>1. \A m \in Mails : mail'[m].row /\ mail'[m].viewed => mail[m].viewed
      <3>1. CASE \E m \in Mails : ToggleFavorite(m)
        BY <3>1 DEF ToggleFavorite, FlipStar, IndInv, TypeInv, Row
      <3>2. CASE \E ms \in SUBSET Mails : MarkUnread(ms)
        BY <3>2 DEF MarkUnread, SetViewed, IndInv, TypeInv, Row
      <3>3. CASE TimePasses
        BY <3>3 DEF TimePasses, IndInv, TypeInv, Row
      <3>4. QED
        BY <1>6, <3>1, <3>2, <3>3
    <2>2. QED
      BY <1>4, <1>6, <2>1 DEF ToggleFavorite, MarkUnread, TimePasses
  <1>7. CASE CleanupDelete \/ \E a \in Aliases : DeleteAlias(a)
    <2>1. UNCHANGED <<faults, shown, request>>
      BY <1>7, <1>f DEF CleanupDelete, DeleteAlias, Succeeds
    <2>2. UNCHANGED mail \/ \E ms \in SUBSET Mails : DeleteRows(ms)
      BY <1>7 DEF CleanupDelete, DeleteAlias
    <2>3. QED
      BY <1>4, <2>1, <2>2, DeletedRows DEF Stored
  <1>8. CASE \/ \E m \in Mails : (Arrival(m) /\ ~InsertMail(m)) \/ RemoveFiles(m)
             \/ CleanupSelect \/ CleanupFiles
             \/ \E u \in Users : ToggleAutoclean(u)
             \/ UNCHANGED vars
    <2>1. UNCHANGED <<mail, faults, shown, request>>
      BY <1>8, <1>f DEF Arrival, Persist, LookupMails, LookupReplies, RemoveFiles, CleanupSelect, CleanupFiles,
         ToggleAutoclean, vars, Succeeds
    <2>2. QED
      BY <1>4, <2>1
  <1>9. ~Restart
    BY <1>f DEF Restart
  <1>10. QED
    BY <1>1, <1>2, <1>3, <1>5, <1>6, <1>7, <1>8, <1>9 DEF Next

(* A thread that is marked as read has no mail its user has not been shown, unless the
   page that shows it is being made. *)
THEOREM ReadThreadsWereShown == Spec => []ReadMeansShown
  <1>1. Init => ReadMeansShown
    BY DEF Init, ReadMeansShown, NewRow, NoRow
  <1>2. QED
    BY <1>1, Invariance, ReadStep, PTL DEF Spec

-----------------------------------------------------------------------------
(* Ownership.  find_thread_id_by_references does not ask whose mail it finds, so a thread
   belongs to one user as far as the mails in it name only that user's. *)

(* A reply is written to mail of its author. *)
AuthorInv ==
  /\ \A q \in Requests : request[q].reply # None => Owner(request[q].mail) = Author[request[q].reply]
  /\ \A p \in Replies : replies[p] # None => Owner(replies[p]) = Author[p]

OwnerInv ==
  \A m \in OwnConversations :
    /\ Stored(m) /\ mail[m].thread # None => Owner(mail[m].thread) = Owner(m)
    /\ found[m] # None => Owner(found[m]) = Owner(m)

(* What a mail of such a conversation names is in it too, and the same user's. *)
LEMMA OwnClosed ==
  ASSUME NEW m \in OwnConversations, NEW x \in Named(m)
  PROVE  m \in Mails /\ x \in OwnConversations /\ Owner(x) = Owner(m)
  BY DEF OwnConversations

LEMMA AuthorStep ==
  ASSUME IndInv, AuthorInv, [Next]_vars
  PROVE  AuthorInv'
  <1>0. request \in [Requests -> RequestType] /\ replies \in [Replies -> Mails \cup {None}]
    BY DEF IndInv, TypeInv
  <1>1. ASSUME UNCHANGED request, UNCHANGED replies \/ \E ms \in SUBSET Mails : DeleteRows(ms)
        PROVE  AuthorInv'
    BY <1>0, <1>1 DEF AuthorInv, DeleteRows, Owner
  <1>2. ASSUME NEW q \in Requests, WebRequest(q)
        PROVE  AuthorInv'
    <2>1. \A r \in Requests : request'[r].reply # None =>
            Owner(request'[r].mail) = Author[request'[r].reply]
      <3>1. CASE \E m \in Mails : OpenRead(q, m) \/ DeleteRead(q, m) \/ \E p \in Replies : ReplyRead(q, m, p)
        BY <1>0, <3>1 DEF OpenRead, DeleteRead, ReplyRead, Begin, BeginReply, AuthorInv
      <3>2. CASE ~(\E m \in Mails : OpenRead(q, m) \/ DeleteRead(q, m) \/ \E p \in Replies : ReplyRead(q, m, p))
        <4>1. (\E pc : GoTo(q, pc)) \/ End(q)
          BY <1>2, <3>2 DEF WebRequest, OpenMark, OpenShow, DeleteRow, DeleteAttachments,
             ReplySend, ReplyWrite, ReplyRecord, ReplyAttach, Answer
        <4>2. QED
          BY <1>0, <4>1 DEF GoTo, End, Idle, RequestType, AuthorInv
      <3>3. QED
        BY <3>1, <3>2
    <2>2. \A p \in Replies : replies'[p] # None => Owner(replies'[p]) = Author[p]
      <3>1. CASE ReplyRecord(q)
        <4>1. request[q].reply \in Replies /\ request[q].reply # None /\ request[q].mail \in Mails
          BY <3>1, Sentinels DEF ReplyRecord, At, IndInv, TypeInv, RequestType, WorkInv
        <4>2. UNCHANGED replies \/ replies' = [replies EXCEPT ![request[q].reply] = request[q].mail]
          BY <3>1 DEF ReplyRecord, InsertReply
        <4>3. QED
          BY <1>0, <4>1, <4>2 DEF AuthorInv
      <3>2. CASE ~ReplyRecord(q)
        <4>1. UNCHANGED replies \/ \E ms : DeleteRows(ms)
          BY <1>2, <3>2 DEF WebRequest, OpenRead, OpenMark, OpenShow, DeleteRead, ReplyRead, DeleteRow,
             DeleteAttachments, ReplySend, ReplyWrite, ReplyAttach
        <4>2. QED
          BY <1>0, <4>1 DEF AuthorInv, DeleteRows
      <3>3. QED
        BY <3>1, <3>2
    <2>3. QED
      BY <2>1, <2>2 DEF AuthorInv, Owner
  <1>3. CASE Restart
    BY <1>0, <1>3 DEF Restart, AuthorInv, Idle, Owner
  <1>4. QED
    BY <1>1, <1>2, <1>3
    DEF Next, vars, Arrival, Persist, LookupMails, LookupReplies, InsertMail, ToggleFavorite, RemoveFiles,
        MarkUnread, CleanupSelect, CleanupDelete, CleanupFiles, DeleteAlias, ToggleAutoclean, TimePasses

(* The roots a lookup may answer belong to the mail's own user. *)
LEMMA FoundIsOwn ==
  ASSUME IndInv, AuthorInv, OwnerInv, NEW m \in OwnConversations,
         NEW r \in RootsOfMails(m) \cup RootsOfReplies(m)
  PROVE  Owner(r) = Owner(m)
  <1>1. ASSUME NEW x \in Mails, Stored(x), x \in Named(m), r = Root(x) PROVE Owner(r) = Owner(m)
    <2>1. x \in OwnConversations /\ Owner(x) = Owner(m)
      BY <1>1, OwnClosed
    <2>2. Owner(Root(x)) = Owner(x)
      BY <1>1, <2>1 DEF Root, OwnerInv
    <2>3. QED
      BY <1>1, <2>1, <2>2
  <1>2. CASE r \in RootsOfMails(m)
    <2>1. PICK x \in Refs[m] \cap Mails : Stored(x) /\ r = Root(x)
      BY <1>2 DEF RootsOfMails
    <2>2. QED
      BY <1>1, <2>1 DEF Named
  <1>3. CASE r \in RootsOfReplies(m)
    <2>1. PICK p \in Refs[m] \cap Replies : replies[p] # None /\ r = Root(replies[p])
      BY <1>3 DEF RootsOfReplies
    <2>2. replies[p] \in Mails /\ Stored(replies[p]) /\ Owner(replies[p]) = Author[p]
      BY <2>1 DEF IndInv, TypeInv, ReplyInv, AuthorInv
    <2>3. QED
      BY <1>1, <2>1, <2>2 DEF Named
  <1>4. QED
    BY <1>2, <1>3

LEMMA OwnerStep ==
  ASSUME IndInv, AuthorInv, OwnerInv, [Next]_vars
  PROVE  OwnerInv'
  <1>0. OwnConversations \subseteq Mails
    BY DEF OwnConversations
  <1>1. \A m \in OwnConversations : found'[m] # None => Owner(found'[m]) = Owner(m)
    <2>1. ASSUME NEW k \in Mails, NEW r \in RootsOfMails(k) \cup RootsOfReplies(k) \cup {None}, LookupDone(k, r)
          PROVE  \A m \in OwnConversations : found'[m] # None => Owner(found'[m]) = Owner(m)
      BY <1>0, <2>1, FoundIsOwn DEF LookupDone, OwnerInv, IndInv, TypeInv
    <2>2. ASSUME NEW k \in Mails, Arrival(k), ~UNCHANGED found
          PROVE  \A m \in OwnConversations : found'[m] # None => Owner(found'[m]) = Owner(m)
      <3>1. CASE InsertMail(k)
        BY <1>0, <3>1 DEF InsertMail, OwnerInv, IndInv, TypeInv
      <3>2. CASE \E r \in RootsOfMails(k) \cup RootsOfReplies(k) \cup {None} : LookupDone(k, r)
        BY <2>1, <3>2
      <3>3. QED
        BY <2>2, <3>1, <3>2 DEF Arrival, Persist, LookupMails, LookupReplies
    <2>3. CASE UNCHANGED found
      BY <2>3 DEF OwnerInv
    <2>4. CASE Restart
      BY <1>0, <2>4 DEF Restart
    <2>5. ASSUME NEW q \in Requests, WebRequest(q) PROVE UNCHANGED found
      BY <2>5 DEF WebRequest, OpenRead, OpenMark, OpenShow, DeleteRead, DeleteRow, DeleteAttachments,
         ReplyRead, ReplySend, ReplyWrite, ReplyRecord, ReplyAttach
    <2>6. QED
      BY <2>2, <2>3, <2>4, <2>5
      DEF Next, vars, ToggleFavorite, RemoveFiles, MarkUnread, CleanupSelect, CleanupDelete, CleanupFiles,
          DeleteAlias, ToggleAutoclean, TimePasses
  <1>2. \A m \in OwnConversations :
          mail'[m].row /\ mail'[m].thread # None => Owner(mail'[m].thread) = Owner(m)
    <2>1. CASE LoseRows
      BY <1>0, <2>1 DEF LoseRows, OwnerInv, Stored
    <2>2. ASSUME NEW k \in Mails, InsertMail(k)
          PROVE  \A m \in OwnConversations :
                   mail'[m].row /\ mail'[m].thread # None => Owner(mail'[m].thread) = Owner(m)
      <3>1. session[k] = "insert" /\ (Inserted(k) \/ UNCHANGED mail)
        BY <2>2 DEF InsertMail
      <3>2. QED
        BY <1>0, <3>1, InsertedRow DEF OwnerInv, Stored
    <2>3. QED
      BY <2>1, <2>2, RowsStep
  <1>3. QED
    BY <1>1, <1>2 DEF OwnerInv, Stored, Owner

(* Threads stay with one user as far as what their mails name does. *)
THEOREM ThreadsHaveOneOwner == Spec => []OwnerInv
  <1>1. Init => OwnerInv /\ AuthorInv
    BY DEF Init, OwnerInv, AuthorInv, NewRow, NoRow, Idle, OwnConversations
  <1>2. QED
    BY <1>1, Invariance, AuthorStep, OwnerStep, PTL DEF Spec

(* Whatever mail names across users: every mail is in a thread of somebody's dashboard,
   and of its owner's if the conversation stays with the owner. *)
THEOREM MailIsReachable == Spec => []EveryMailIsReachable
  <1>1. ASSUME IndInv, OwnerInv PROVE EveryMailIsReachable
    <2> SUFFICES ASSUME NEW m \in Mails, Stored(m)
                 PROVE  /\ \E r \in Inbox(Owner(Root(m))) : m \in Thread(r)
                        /\ m \in OwnConversations => Owner(Root(m)) = Owner(m)
      BY DEF EveryMailIsReachable
    <2>1. /\ Root(m) \in Mails /\ Stored(Root(m)) /\ mail[Root(m)].thread = None
          /\ m \in Thread(Root(m))
      BY <1>1, RootIsRoot DEF Root, Thread, Children
    <2>2. m \in OwnConversations => Owner(Root(m)) = Owner(m)
      BY <1>1 DEF Root, OwnerInv
    <2>3. QED
      BY <2>1, <2>2 DEF Inbox
  <1>2. QED
    BY <1>1, Invariance, ThreadsHaveOneOwner, PTL

(* The retention task spares what the user or a starred mail of the thread protects,
   cascades included, except under another user's root that nothing protects. *)
THEOREM RetentionIsSparing == Spec => RetentionSparesKeptMail
  <1>1. ASSUME IndInv, CleanupDelete, NEW m \in Mails, Stored(m), ~mail'[m].row, Kept(m)
        PROVE  Owner(Root(m)) # Owner(m) /\ ~Kept(Root(m))
    <2> DEFINE expired == {k \in Mails : Expired(k)}
    <2>1. DeleteRows(expired)
      BY <1>1 DEF CleanupDelete, Stored
    <2>2. m \in Cascade(expired)
      BY <1>1, <2>1 DEF DeleteRows, Stored
    <2>3. m \in expired \/ mail[m].thread \in expired
      BY <1>1, <2>2, CascadeIsShallow DEF IndInv
    <2>4. m \notin expired
      BY <1>1 DEF Expired, Kept
    <2>5. Root(m) \in Mails /\ Expired(Root(m)) /\ mail[Root(m)].thread = None
      BY <1>1, <2>3, <2>4, Sentinels, RootIsRoot DEF Root
    <2>6. Root(Root(m)) = Root(m)
      BY <2>5 DEF Root
    <2>7. QED
      BY <1>1, <2>5, <2>6 DEF Expired, Kept, StarredInThread
  <1>2. IndInv =>
          (CleanupDelete => \A m \in Mails : Stored(m) /\ ~mail'[m].row /\ Kept(m) =>
             Owner(Root(m)) # Owner(m) /\ ~Kept(Root(m)))
    BY <1>1
  <1>3. QED
    BY <1>2, Invariance, PTL DEF RetentionSparesKeptMail

-----------------------------------------------------------------------------
(* Conversations.  What was on record when a mail arrived may be deleted, but never comes
   back, so what is still on record has been all the time, with the same root. *)

OnRecord(x) == IF x \in Mails THEN Stored(x) ELSE replies[x] # None
RootOf(x) == IF x \in Mails THEN Root(x) ELSE Root(replies[x])

(* The request that writes reply p has got past recording it. *)
Written(p) ==
  answered[p] # "no" \/ \E q \in Requests : At(q, "reply", "attach") /\ request[q].reply = p

KnownInv ==
  /\ known \in [Mails -> SUBSET (Mails \cup Replies)]
  /\ \A m \in Mails : /\ known[m] \subseteq Refs[m]
                      /\ \A x \in known[m] \cap Mails : Arrived(x)
                      /\ \A x \in known[m] \cap Replies : Written(x)
  /\ \A p \in Replies : replies[p] # None => Written(p)

(* A lookup that finds nothing among the mails goes on to the replies; once it is over, the
   session and then the row have the root of what the mail names. *)
JoinInv ==
  \A m \in Mails :
    faults = MaxFaults /\ known[m] # {} /\ (\A x \in known[m] : OnRecord(x)) =>
      /\ session[m] = "lookup_reply" => \A x \in known[m] : x \notin Mails
      /\ session[m] = "insert" => \E x \in known[m] : found[m] = RootOf(x)
      /\ Stored(m) => \E x \in known[m] : Root(m) = RootOf(x)

(* A reply is recorded only by its request, before it is Written. *)
LEMMA RepliesStep ==
  ASSUME IndInv, [Next]_vars, NEW p \in Replies
  PROVE  /\ Written(p) => Written(p)' /\ replies'[p] \in {replies[p], None}
         /\ replies'[p] \notin {replies[p], None} => Written(p)'
  <1>1. ASSUME UNCHANGED <<request, answered>>, UNCHANGED replies \/ \E ms \in SUBSET Mails : DeleteRows(ms)
        PROVE  (Written(p) => Written(p)') /\ replies'[p] \in {replies[p], None}
    BY <1>1 DEF Written, At, DeleteRows
  <1>2. ASSUME NEW q \in Requests, WebRequest(q)
        PROVE  /\ Written(p) => Written(p)' /\ replies'[p] \in {replies[p], None}
               /\ replies'[p] \notin {replies[p], None} => Written(p)'
    <2>1. CASE ReplyRecord(q)
      <3>1. request[q].reply \in Replies /\ answered[request[q].reply] = "no" /\ request[q].mail \in Mails
        BY <2>1 DEF ReplyRecord, At, IndInv, TypeInv, RequestType, WorkInv, ReplyInv
      <3>2. \A r \in Requests : request[r].reply = request[q].reply => r = q
        BY <3>1, Sentinels DEF IndInv, ReplyInv
      <3>3. CASE p = request[q].reply
        <4>1. ~Written(p)
          BY <2>1, <3>1, <3>2, <3>3 DEF Written, ReplyRecord, At
        <4>2. Written(p)'
          BY <2>1, <3>1, <3>3, Sentinels DEF Written, ReplyRecord, At, GoTo, Answer, IndInv, TypeInv, RequestType
        <4>3. QED
          BY <4>1, <4>2
      <3>4. CASE p # request[q].reply
        <4>1. replies'[p] = replies[p] /\ answered'[p] = answered[p]
          BY <2>1, <3>4 DEF ReplyRecord, InsertReply, Answer, IndInv, TypeInv
        <4>2. \A r \in Requests : request[r].reply = p => request'[r] = request[r]
          BY <2>1, <3>4 DEF ReplyRecord, GoTo, Answer, End, IndInv, TypeInv
        <4>3. QED
          BY <4>1, <4>2 DEF Written, At
      <3>5. QED
        BY <3>3, <3>4
    <2>2. CASE ReplyAttach(q) \/ ReplySend(q)
      <3>1. request[q].reply \in Replies /\ request[q].mail \in Mails /\ UNCHANGED replies
        BY <2>2 DEF ReplyAttach, ReplySend, At, IndInv, TypeInv, RequestType, WorkInv
      <3>2. CASE p = request[q].reply
        <4>1. answered'[p] # "no" \/ (request[q].pc = "send" /\ UNCHANGED answered)
          BY <2>2, <3>1, <3>2, Sentinels DEF ReplyAttach, ReplySend, At, Answer, IndInv, TypeInv
        <4>2. request[q].pc = "send" => ~Written(p)
          BY <3>1, <3>2, Sentinels DEF Written, At, IndInv, ReplyInv
        <4>3. QED
          BY <3>1, <4>1, <4>2 DEF Written
      <3>3. CASE p # request[q].reply
        <4>1. answered'[p] = answered[p]
          BY <2>2, <3>3 DEF ReplyAttach, ReplySend, Answer, IndInv, TypeInv
        <4>2. \A r \in Requests : request[r].reply = p => request'[r] = request[r]
          BY <2>2, <3>3 DEF ReplyAttach, ReplySend, GoTo, Answer, End, IndInv, TypeInv
        <4>3. QED
          BY <3>1, <4>1, <4>2 DEF Written, At
      <3>4. QED
        BY <3>2, <3>3
    <2>3. CASE ~ReplyRecord(q) /\ ~ReplyAttach(q) /\ ~ReplySend(q)
      <3>1. ~At(q, "reply", "attach") /\ \A r \in Requests : r # q => request'[r] = request[r]
        <4>1. request \in [Requests -> RequestType]
          BY DEF IndInv, TypeInv
        <4>2. CASE \E m \in Mails : OpenRead(q, m) \/ DeleteRead(q, m) \/ \E k \in Replies : ReplyRead(q, m, k)
          BY <4>1, <4>2 DEF OpenRead, DeleteRead, ReplyRead, Begin, BeginReply, At, Idle
        <4>3. CASE OpenMark(q) \/ OpenShow(q) \/ DeleteRow(q) \/ DeleteAttachments(q) \/ ReplyWrite(q)
          BY <4>1, <4>3 DEF OpenMark, OpenShow, DeleteRow, DeleteAttachments, ReplyWrite, GoTo, End, At
        <4>4. QED
          BY <1>2, <2>3, <4>2, <4>3 DEF WebRequest
      <3>2. UNCHANGED answered /\ (UNCHANGED replies \/ \E ms : DeleteRows(ms))
        BY <1>2, <2>3 DEF WebRequest, OpenRead, OpenMark, OpenShow, DeleteRead, ReplyRead, DeleteRow,
           DeleteAttachments, ReplyWrite
      <3>3. QED
        BY <3>1, <3>2 DEF Written, At, DeleteRows
    <2>4. QED
      BY <2>1, <2>2, <2>3
  <1>3. CASE Restart
    BY <1>3 DEF Restart, Written
  <1>4. QED
    BY <1>1, <1>2, <1>3
    DEF Next, vars, Arrival, Persist, LookupMails, LookupReplies, InsertMail, ToggleFavorite, RemoveFiles,
        MarkUnread, CleanupSelect, CleanupDelete, CleanupFiles, DeleteAlias, ToggleAutoclean, TimePasses

(* Only its own session, or a restart, moves a mail on. *)
LEMMA SessionStep ==
  ASSUME IndInv, KnownInv, [Next]_vars, NEW m \in Mails
  PROVE  \/ UNCHANGED <<session[m], found[m], known[m]>>
         \/ UNCHANGED known[m] /\ (LookupMails(m) \/ LookupReplies(m) \/ InsertMail(m) \/ Restart)
         \/ Persist(m)
  <1>1. ASSUME NEW k \in Mails, Arrival(k), k # m PROVE UNCHANGED <<session[m], found[m], known[m]>>
    BY <1>1 DEF Arrival, Persist, LookupMails, LookupReplies, LookupDone, InsertMail, IndInv, TypeInv, KnownInv
  <1>2. CASE Arrival(m)
    BY <1>2 DEF Arrival, LookupMails, LookupReplies, InsertMail
  <1>3. ASSUME NEW q \in Requests, WebRequest(q) PROVE UNCHANGED <<session, found, known>>
    BY <1>3 DEF WebRequest, OpenRead, OpenMark, OpenShow, DeleteRead, DeleteRow, DeleteAttachments,
       ReplyRead, ReplySend, ReplyWrite, ReplyRecord, ReplyAttach
  <1>4. CASE Restart
    BY <1>4 DEF Restart
  <1>5. QED
    BY <1>1, <1>2, <1>3, <1>4
    DEF Next, vars, ToggleFavorite, RemoveFiles, MarkUnread, CleanupSelect, CleanupDelete, CleanupFiles,
        DeleteAlias, ToggleAutoclean, TimePasses

(* Once a session is over it stays over. *)
LEMMA ArrivedStays ==
  ASSUME IndInv, KnownInv, [Next]_vars, NEW m \in Mails, Arrived(m)
  PROVE  Arrived(m)'
  BY SessionStep DEF Arrived, LookupMails, LookupReplies, InsertMail, Persist, Restart

LEMMA KnownInvStep ==
  ASSUME IndInv, KnownInv, [Next]_vars
  PROVE  KnownInv'
  <1>1. known' \in [Mails -> SUBSET (Mails \cup Replies)]
    <2>1. ASSUME NEW m \in Mails, Persist(m) PROVE known' \in [Mails -> SUBSET (Mails \cup Replies)]
      BY <2>1, StoreAssumption DEF Persist, KnownInv
    <2>2. CASE UNCHANGED known
      BY <2>2 DEF KnownInv
    <2>3. ASSUME NEW q \in Requests, WebRequest(q) PROVE UNCHANGED known
      BY <2>3 DEF WebRequest, OpenRead, OpenMark, OpenShow, DeleteRead, DeleteRow, DeleteAttachments,
         ReplyRead, ReplySend, ReplyWrite, ReplyRecord, ReplyAttach
    <2>4. QED
      BY <2>1, <2>2, <2>3
      DEF Next, vars, Arrival, LookupMails, LookupReplies, InsertMail, ToggleFavorite, RemoveFiles, MarkUnread,
          CleanupSelect, CleanupDelete, CleanupFiles, DeleteAlias, ToggleAutoclean, TimePasses, Restart
  <1>2. \A p \in Replies : (Written(p) => Written(p)') /\ (replies'[p] # None => Written(p)')
    BY RepliesStep DEF KnownInv
  <1>3. ASSUME NEW m \in Mails
        PROVE  /\ known'[m] \subseteq Refs[m]
               /\ \A x \in known'[m] \cap Mails : Arrived(x)'
               /\ \A x \in known'[m] \cap Replies : Written(x)'
    <2>1. CASE Persist(m)
      <3>1. known'[m] = {x \in Refs[m] : IF x \in Mails THEN Stored(x) ELSE replies[x] # None}
        BY <2>1 DEF Persist, KnownInv
      <3>2. \A x \in known'[m] \cap Mails : Arrived(x)'
        BY <3>1, ArrivedStays DEF IndInv, ArrivalInv
      <3>3. \A x \in known'[m] \cap Replies : Written(x)'
        BY <1>2, <3>1, Sentinels DEF KnownInv
      <3>4. QED
        BY <3>1, <3>2, <3>3
    <2>2. CASE UNCHANGED known[m]
      BY <1>2, <2>2, ArrivedStays DEF KnownInv
    <2>3. QED
      BY <2>1, <2>2, SessionStep
  <1>4. QED
    BY <1>1, <1>2, <1>3 DEF KnownInv

(* What is still on record has kept its root. *)
LEMMA RecordStays ==
  ASSUME IndInv, IndInv', KnownInv, [Next]_vars, NEW m \in Mails, NEW x \in known[m], OnRecord(x)'
  PROVE  OnRecord(x) /\ RootOf(x)' = RootOf(x)
  <1>1. ASSUME NEW k \in Mails, Arrived(k), mail'[k].row
        PROVE  mail[k].row /\ mail'[k].thread = mail[k].thread
    <2>1. CASE LoseRows
      BY <1>1, <2>1 DEF LoseRows
    <2>2. ASSUME NEW n \in Mails, InsertMail(n) PROVE mail[k].row /\ mail'[k].thread = mail[k].thread
      <3>1. session[n] = "insert" /\ (Inserted(n) \/ UNCHANGED mail) /\ k # n
        BY <1>1, <2>2 DEF InsertMail, Arrived
      <3>2. QED
        BY <1>1, <3>1, InsertedRow
    <2>3. QED
      BY <2>1, <2>2, RowsStep
  <1>2. CASE x \in Mails
    <2>1. Arrived(x)
      BY <1>2 DEF KnownInv
    <2>2. QED
      BY <1>1, <1>2, <2>1 DEF OnRecord, RootOf, Root, Stored
  <1>3. CASE x \notin Mails
    <2>1. x \in Replies /\ Written(x) /\ replies'[x] # None
      BY <1>3 DEF KnownInv, OnRecord
    <2>2. replies[x] # None /\ replies'[x] = replies[x] /\ replies[x] \in Mails
      BY <2>1, RepliesStep DEF IndInv, TypeInv
    <2>3. mail'[replies[x]].row /\ Arrived(replies[x])
      BY <2>1, <2>2 DEF IndInv, ReplyInv, ArrivalInv, Stored
    <2>4. mail'[replies[x]].thread = mail[replies[x]].thread
      BY <1>1, <2>2, <2>3
    <2>5. QED
      BY <1>3, <2>2, <2>4 DEF OnRecord, RootOf, Root
  <1>4. QED
    BY <1>2, <1>3

(* In-Reply-To and References agree.  When they name two messages, one of them may arrive
   after the mail that names it and before its lookup, which then may prefer that one. *)
NamesOneMessage == \A m \in Mails : \A x, y \in Refs[m] : x = y

LEMMA JoinStep ==
  ASSUME NamesOneMessage, IndInv, IndInv', KnownInv, KnownInv', JoinInv, [Next]_vars
  PROVE  JoinInv'
  <1> SUFFICES ASSUME faults' = MaxFaults,
                      NEW m \in Mails, known'[m] # {}, \A x \in known'[m] : OnRecord(x)'
               PROVE  /\ session'[m] = "lookup_reply" => \A x \in known'[m] : x \notin Mails
                      /\ session'[m] = "insert" => \E x \in known'[m] : found'[m] = RootOf(x)'
                      /\ mail'[m].row => \E x \in known'[m] : Root(m)' = RootOf(x)'
    BY DEF JoinInv, Stored
  <1>f. (\A kind : ~Fault(kind)) /\ (UNCHANGED faults => faults = MaxFaults)
    BY NoFaultYet DEF IndInv
  <1>0. faults = MaxFaults
    <2>1. MaxFaults \in Nat
      BY StoreAssumption
    <2>2. faults \in Nat /\ faults <= MaxFaults
      BY DEF IndInv, TypeInv
    <2>3. faults' <= faults
      BY FaultsFall DEF IndInv
    <2>4. QED
      BY <2>1, <2>2, <2>3
  <1>1. CASE Persist(m)
    <2>1. session'[m] \in {"refused", "insert", "lookup_mail"} /\ (session'[m] = "insert" => known'[m] = {})
      BY <1>1 DEF Persist, IndInv, TypeInv, KnownInv
    <2>2. ~mail'[m].row
      BY <1>1 DEF Persist, IndInv, ArrivalInv, Stored, Arrived
    <2>3. QED
      BY <2>1, <2>2
  <1>2. CASE UNCHANGED known[m]
    <2>1. \A x \in known[m] : OnRecord(x) /\ RootOf(x)' = RootOf(x)
      BY <1>2, RecordStays
    <2>2. /\ session[m] = "lookup_reply" => \A x \in known[m] : x \notin Mails
          /\ session[m] = "insert" => \E x \in known[m] : found[m] = RootOf(x)
          /\ Stored(m) => \E x \in known[m] : Root(m) = RootOf(x)
      BY <1>0, <1>2, <2>1 DEF JoinInv
    <2>3. PICK x \in known[m] : known[m] = {x} /\ Refs[m] = {x}
      BY <1>2 DEF KnownInv, NamesOneMessage
    <2>4. x \in Mails \cup Replies /\ OnRecord(x)
      BY <2>1 DEF KnownInv
    <2>5. session'[m] = "lookup_reply" => x \notin Mails
      <3>1. CASE LookupMails(m)
        <4>1. x \in Mails => Root(x) \in RootsOfMails(m)
          BY <2>3, <2>4 DEF RootsOfMails, OnRecord
        <4>2. QED
          BY <3>1, <4>1, <1>f DEF LookupMails, LookupDone, IndInv, TypeInv
      <3>2. CASE session'[m] = session[m]
        BY <2>2, <3>2
      <3>3. QED
        BY <1>f, <3>1, <3>2, SessionStep DEF LookupReplies, LookupDone, InsertMail, Persist, Restart, IndInv, TypeInv
    <2>6. session'[m] = "insert" => found'[m] = RootOf(x)
      <3>1. CASE LookupMails(m) /\ session'[m] = "insert"
        <4>1. PICK r \in RootsOfMails(m) : LookupDone(m, r)
          BY <3>1, <1>f DEF LookupMails, IndInv, TypeInv
        <4>2. r = RootOf(x)
          BY <2>3, <4>1 DEF RootsOfMails, RootOf
        <4>3. QED
          BY <4>1, <4>2 DEF LookupDone, IndInv, TypeInv
      <3>2. CASE LookupReplies(m)
        <4>1. x \notin Mails /\ x \in Replies /\ replies[x] # None
          BY <2>2, <2>4, <3>2 DEF LookupReplies, OnRecord
        <4>2. RootsOfReplies(m) = {Root(replies[x])}
          BY <2>3, <4>1 DEF RootsOfReplies
        <4>3. LookupDone(m, Root(replies[x]))
          BY <3>2, <4>2, <1>f DEF LookupReplies
        <4>4. QED
          BY <4>1, <4>3 DEF LookupDone, RootOf, IndInv, TypeInv
      <3>3. CASE UNCHANGED <<session[m], found[m]>>
        BY <2>2, <2>3, <3>3
      <3>4. QED
        BY <1>f, <2>3, <3>1, <3>2, <3>3, SessionStep DEF InsertMail, Persist, Restart, IndInv, TypeInv
    <2>7. mail'[m].row => Root(m)' = RootOf(x)
      <3>1. CASE LoseRows
        BY <2>2, <2>3, <3>1 DEF LoseRows, Root, Stored
      <3>2. ASSUME NEW k \in Mails, InsertMail(k) PROVE mail'[m].row => Root(m)' = RootOf(x)
        <4>1. session[k] = "insert" /\ (Inserted(k) \/ UNCHANGED mail)
          BY <3>2 DEF InsertMail
        <4>2. CASE k # m \/ UNCHANGED mail
          BY <2>2, <2>3, <4>1, <4>2, InsertedRow DEF Root, Stored
        <4>3. CASE k = m /\ Inserted(m)
          <5>1. found[m] = RootOf(x)
            BY <2>2, <2>3, <4>1, <4>3
          <5>2. RootOf(x) \in Mails
            BY <2>4, RootIsRoot DEF OnRecord, RootOf, IndInv, TypeInv, ReplyInv
          <5>3. mail'[m].thread = found[m]
            BY <4>1, <4>3, InsertedRow
          <5>4. QED
            BY <5>1, <5>2, <5>3, Sentinels DEF Root
        <4>4. QED
          BY <4>1, <4>2, <4>3
      <3>3. QED
        BY <3>1, <3>2, RowsStep
    <2>8. QED
      BY <1>2, <2>1, <2>3, <2>5, <2>6, <2>7
  <1>3. QED
    BY <1>1, <1>2, SessionStep

(* A mail joins the conversation of the message it names, if that was on record when the
   mail arrived and still is, and no statement failed. *)
THEOREM ConversationsAreJoined == ASSUME NamesOneMessage PROVE Spec => []ConversationsStayTogether
  <1>1. Init => KnownInv /\ JoinInv
    BY DEF Init, KnownInv, JoinInv, Written
  <1>2. JoinInv => ConversationsStayTogether
    BY DEF JoinInv, ConversationsStayTogether, OnRecord, RootOf
  <1>3. QED
    BY <1>1, <1>2, Invariance, KnownInvStep, JoinStep, PTL DEF Spec
=============================================================================
