--------------------------- MODULE InboundSession ---------------------------
(***************************************************************************)
(* One SMTP session (SmtpSession::handle): the command state machine, the  *)
(* envelope it keeps between commands and between mails, and the body      *)
(* buffer that moves from memory to a temporary file.  The client chooses  *)
(* the commands; the database, SPF and TLS answers are nondeterministic.   *)
(*                                                                         *)
(* A body is a sequence of lines, a line is a value with a length in       *)
(* Bytes.  A handler runs to its end as one step: everything it changes    *)
(* belongs to its session or is handed over to a task of its own.          *)
(* SmtpSession.recipient is left out: it is written and never read.        *)
(***************************************************************************)
EXTENDS Integers, Sequences, FiniteSets

CONSTANTS
  Senders,      \* envelope senders
  Aliases,      \* recipients resolve_recipient_alias finds
  AutoForward,  \* the aliases with auto_forward set
  Mappings,     \* reply tokens get_reply_mapping_by_token finds
  Authorized,   \* the destination_email each reply mapping belongs to
  Lines,        \* body lines, dot unstuffed
  Bytes,        \* their lengths
  MaxMemory,    \* max_memory of the body buffer
  MaxTotal,     \* max_total_size of the body buffer
  WriterCap,    \* capacity of the BufWriter over the temporary file
  MaxLines,     \* bound: lines in one body
  MaxMails      \* bound: mails finished in one session

ASSUME SessionAssumption ==
  /\ AutoForward \subseteq Aliases
  /\ Authorized \in [Mappings -> Senders]
  /\ Bytes \in [Lines -> Nat]
  /\ MaxMemory \in Nat /\ MaxTotal \in Nat /\ WriterCap \in Nat
  /\ MaxLines \in Nat /\ MaxMails \in Nat
  /\ Aliases \cap Mappings = {}
  /\ "none" \notin Senders \cup Aliases \cup Mappings

VARIABLES
  conn,           \* "plain" or "tls" while open, then "closed" or "panicked"
  state,          \* SmtpState
  sender, alias_id, reply_mapping,
  destination,    \* the alias whose destination_email and auto_forward are held
  buffer,         \* SmartBodyBuffer
  emails,         \* mails stored: what each step after end-of-data was given
  relays,         \* replies handed to send_firsthand
  mails,          \* mails finished
  rcpt,           \* auxiliary: the recipient the client was last told is accepted
  typed           \* auxiliary: the lines the client sent for the current mail

vars == <<conn, state, sender, alias_id, reply_mapping, destination, buffer,
          emails, relays, mails, rcpt, typed>>

envelope == <<sender, alias_id, reply_mapping, destination, rcpt>>
outcome  == <<emails, relays, mails>>

None == "none"

-----------------------------------------------------------------------------
(* SmartBodyBuffer: text is what was appended, held how many of its last lines are
   still in the BufWriter and not in the temporary file. *)

EmptyBuffer == [kind |-> "memory", text |-> <<>>, size |-> 0, held |-> 0]

(* The bytes that the last k lines of a text have. *)
TailBytes(text, k) ==
  LET sum[i \in 0..k] == IF i = 0 THEN 0 ELSE sum[i - 1] + Bytes[text[Len(text) - i + 1]]
  IN  sum[k]

Fits(line) == buffer.size + Bytes[line] <= MaxTotal

(* Writing a line to a BufWriter that holds k lines: it is emptied first when the
   line does not fit, and bypassed by a line of its capacity or more. *)
HeldAfter(line, k) ==
  IF Bytes[line] >= WriterCap THEN 0
  ELSE IF TailBytes(buffer.text, k) + Bytes[line] > WriterCap THEN 1
  ELSE k + 1

Appended(line) ==
  LET spill == buffer.kind = "memory" /\ buffer.size + Bytes[line] > MaxMemory
      disk  == buffer.kind = "disk" \/ spill
      \* on a spill the whole memory buffer goes to the writer first
      k     == IF spill THEN (IF buffer.size >= WriterCap THEN 0 ELSE Len(buffer.text))
               ELSE buffer.held
  IN  [kind |-> IF disk THEN "disk" ELSE "memory",
       text |-> Append(buffer.text, line),
       size |-> buffer.size + Bytes[line],
       held |-> IF disk THEN HeldAfter(line, k) ELSE 0]

(* extract_full_metadata reads the temporary file without flushing the writer. *)
MetadataText == SubSeq(buffer.text, 1, Len(buffer.text) - buffer.held)

(* persist_to_path moves a temporary file away and leaves an empty memory buffer;
   get_content_bytes afterwards returns what is left. *)
ContentAfterPersist == IF buffer.kind = "memory" THEN buffer.text ELSE <<>>

-----------------------------------------------------------------------------
(* Commands *)

Open == conn \in {"plain", "tls"}

Command(s) == Open /\ state = s

Greet ==
  /\ Command("Greet")
  /\ state' = "MailFrom"
  /\ UNCHANGED <<conn, envelope, buffer, outcome, typed>>

MailFrom(s) ==
  /\ Command("MailFrom")
  /\ sender' = s
  /\ state' = "RcptTo"
  /\ UNCHANGED <<conn, alias_id, reply_mapping, destination, rcpt, buffer, outcome, typed>>

(* A reply token: only the owner of the mapping may use it, and only from a host
   that passes SPF (a failed check answers 550 and changes nothing). *)
RcptReplyUnchecked(mp) ==
  /\ Command("RcptTo")
  /\ reply_mapping' = mp
  /\ rcpt' = mp
  /\ state' = "Data"
  /\ UNCHANGED <<conn, sender, alias_id, destination, buffer, outcome, typed>>
RcptReply(mp) ==
  /\ Command("RcptTo")
  /\ sender = Authorized[mp]
  /\ reply_mapping' = mp
  /\ rcpt' = mp
  /\ state' = "Data"
  /\ UNCHANGED <<conn, sender, alias_id, destination, buffer, outcome, typed>>

RcptAliasKeepsRoute(a) ==
  /\ Command("RcptTo")
  /\ alias_id' = a
  /\ destination' = IF destination = None THEN a ELSE destination
  /\ rcpt' = a
  /\ state' = "Data"
  /\ UNCHANGED <<conn, sender, reply_mapping, buffer, outcome, typed>>
RcptAlias(a) ==
  /\ Command("RcptTo")
  /\ alias_id' = a
  /\ destination' = a
  /\ rcpt' = a
  /\ state' = "Data"
  /\ UNCHANGED <<conn, sender, reply_mapping, buffer, outcome, typed>>

(* An unknown recipient from an address that has reached the block threshold. *)
RcptBlocked ==
  /\ Command("RcptTo")
  /\ conn' = "closed"
  /\ UNCHANGED <<state, envelope, buffer, outcome, typed>>

Data ==
  /\ Command("Data")
  /\ state' = "ReadingBody"
  /\ typed' = <<>>
  /\ UNCHANGED <<conn, envelope, buffer, outcome>>

(* A body line; 552 and the end of the session when it does not fit. *)
BodyLine(line) ==
  /\ Command("ReadingBody")
  /\ Len(typed) < MaxLines
  /\ typed' = Append(typed, line)
  /\ IF Fits(line)
     THEN buffer' = Appended(line) /\ UNCHANGED conn
     ELSE conn' = "closed" /\ UNCHANGED buffer
  /\ UNCHANGED <<state, envelope, outcome>>

(* "Reset for next email" *)
ResetKeepingBody ==
  /\ state' = "Greet"
  /\ mails' = mails + 1
  /\ UNCHANGED <<conn, envelope, typed, buffer>>
ResetForNext ==
  /\ state' = "Greet"
  /\ buffer' = EmptyBuffer
  /\ mails' = mails + 1
  /\ UNCHANGED <<conn, envelope, typed>>

(* End of data with a reply mapping held: the body is relayed to the mapping's
   original sender. *)
EndRelay ==
  /\ Command("ReadingBody") /\ mails < MaxMails
  /\ reply_mapping # None
  /\ relays' = relays \cup
       {[mapping |-> reply_mapping, by |-> sender, rcpt |-> rcpt,
         body |-> buffer.text, typed |-> typed]}
  /\ ResetForNext
  /\ UNCHANGED emails

(* End of data for an alias: metadata, persist, row, labels, forward.  Without an
   alias alias_id.expect("Alias ID unset") panics. *)
StoreMail ==
  /\ emails' = emails \cup
       {[alias |-> alias_id, by |-> sender, rcpt |-> rcpt, typed |-> typed,
         metadata |-> MetadataText, file |-> buffer.text, filtered |-> ContentAfterPersist,
         to |-> IF destination \in AutoForward THEN destination ELSE None,
         forwarded |-> IF destination \in AutoForward THEN ContentAfterPersist ELSE <<>>]}
  /\ ResetForNext
  /\ UNCHANGED relays

Panic ==
  /\ conn' = "panicked"
  /\ UNCHANGED <<state, envelope, buffer, outcome, typed>>

EndStore ==
  /\ Command("ReadingBody") /\ mails < MaxMails
  /\ reply_mapping = None
  /\ IF alias_id = None THEN Panic ELSE StoreMail

(* The insert failed: 451, and the session goes on. *)
EndInsertFails ==
  /\ Command("ReadingBody") /\ mails < MaxMails
  /\ reply_mapping = None /\ alias_id # None
  /\ ResetForNext
  /\ UNCHANGED <<emails, relays>>

(* An I/O error of the body buffer ends the session without an answer. *)
EndIoError ==
  /\ Command("ReadingBody")
  /\ conn' = "closed"
  /\ UNCHANGED <<state, envelope, buffer, outcome, typed>>

(* Commands that are taken in every state but ReadingBody. *)
OutsideBody == Open /\ state # "ReadingBody"

RsetKeepingState ==
  /\ OutsideBody
  /\ sender' = None /\ alias_id' = None
  /\ buffer' = EmptyBuffer
  /\ UNCHANGED <<conn, state, reply_mapping, destination, rcpt, outcome, typed>>
Rset ==
  /\ OutsideBody
  /\ sender' = None /\ alias_id' = None
  /\ buffer' = EmptyBuffer
  /\ state' = "MailFrom"
  /\ UNCHANGED <<conn, reply_mapping, destination, rcpt, outcome, typed>>

(* A finished handshake starts over at Greet; a failed one, or a second STARTTLS,
   ends the session.  Without a certificate nothing changes (502 or 454). *)
StartTls ==
  /\ OutsideBody
  /\ \/ conn = "plain" /\ conn' = "tls" /\ state' = "Greet"
     \/ conn' = "closed" /\ UNCHANGED state
  /\ UNCHANGED <<envelope, buffer, outcome, typed>>

(* QUIT, end of stream, or 30 seconds without a line (also within a body). *)
Leave ==
  /\ Open
  /\ conn' = "closed"
  /\ UNCHANGED <<state, envelope, buffer, outcome, typed>>

-----------------------------------------------------------------------------
Init ==
  /\ conn = "plain" /\ state = "Greet"
  /\ sender = None /\ alias_id = None /\ reply_mapping = None /\ destination = None
  /\ buffer = EmptyBuffer
  /\ emails = {} /\ relays = {} /\ mails = 0
  /\ rcpt = None /\ typed = <<>>

Next ==
  \/ Greet
  \/ \E s \in Senders : MailFrom(s)
  \/ \E mp \in Mappings : RcptReply(mp)
  \/ \E a \in Aliases : RcptAlias(a)
  \/ RcptBlocked
  \/ Data
  \/ \E line \in Lines : BodyLine(line)
  \/ EndRelay \/ EndStore \/ EndInsertFails \/ EndIoError
  \/ Rset \/ StartTls \/ Leave

Spec == Init /\ [][Next]_vars

-----------------------------------------------------------------------------
(* Properties *)

(* The expect on alias_id in handle_body_line never fires: whatever commands came
   before, a body is only read for an alias or for a reply. *)
NeverPanics == conn # "panicked"

(* A stored mail is filed under the alias its client was told is accepted, and
   forwarded by that alias's own settings, not by those of an earlier mail.  *)
FiledUnderRecipient ==
  \A e \in emails : e.alias = e.rcpt /\ e.to \in {None, e.rcpt}

(* Exactly the lines of this mail, all of them and within the size limit, reach the
   .eml file and the relay, in memory or on disk, whatever mails came before.  *)
WholeBodyKept ==
  /\ \A e \in emails : e.file = e.typed /\ TailBytes(e.file, Len(e.file)) <= MaxTotal
  /\ \A r \in relays : r.body = r.typed

(* A reply the client addressed to a token is relayed under that token and only for
   the owner of the mapping.  *)
RelayIsAuthorized ==
  \A r \in relays : r.rcpt \in Mappings => r.mapping = r.rcpt /\ r.by = Authorized[r.mapping]

(* "Reset for next email": a mail accepted for an alias is not relayed as a reply.  *)
OnlyRepliesAreRelayed == \A r \in relays : r.rcpt \in Mappings

(* "It forwards the email to your configured real personal inbox": the whole mail. *)
ForwardIsWhole == \A e \in emails : e.to # None => e.forwarded = e.typed

(* "Take the full file because we need to parse attachments". *)
MetadataSeesFullFile == \A e \in emails : e.metadata = e.typed
=============================================================================
