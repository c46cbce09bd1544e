-------------------------------- MODULE Mime --------------------------------
(* Building mail and finding its parts again: uploads collected into attachments       *)
(* (web/attachments_form.rs, web/api.rs), mail built from them (outbound/mime.rs,      *)
(* build_mime), received mail rebuilt for forwarding (rewrite_body_for_forward,        *)
(* prepare_reply_for_relay), and a part served by the index its row recorded           *)
(* (download_attachment_handler, inline_image_handler).                                *)
(*                                                                                     *)
(* Mail is the sequence of its structural lines: a multipart header, the delimiters    *)
(* that open a part or close a container, and leaves.  Header texts, encodings and     *)
(* bytes are left out; an attachment is [id, inline, cid, type, size].                 *)
EXTENDS Naturals, Sequences, SequencesExt, SequenceFolds

CONSTANTS
  MAX_ATTACHMENTS, MAX_ATTACHMENT_BYTES, MAX_TOTAL_ATTACHMENT_BYTES,
  ContentIds, TypeNames   \* Content-IDs and halves of content types, "none" for a missing one

ASSUME MimeAssumption ==
  /\ MAX_ATTACHMENTS \in Nat
  /\ MAX_ATTACHMENT_BYTES \in Nat
  /\ MAX_TOTAL_ATTACHMENT_BYTES \in Nat
  /\ "none" \in ContentIds
  /\ {"none", "application", "octet-stream"} \subseteq TypeNames

----------------------------------------------------------------------------
(* build_mime                                                                          *)

Multi(b) == [t |-> "multi", b |-> b]
OpenPart(b) == [t |-> "open", b |-> b]
ClosePart(b) == [t |-> "close", b |-> b]
Leaf(c) == [t |-> "leaf", c |-> c]

TextBody == [id |-> "text"]
HtmlBody == [id |-> "html"]
Types == [main : TypeNames, sub : TypeNames]
Attachment == [id : Nat, inline : BOOLEAN, cid : ContentIds, type : Types, size : Nat]

write_alt_part(html) ==
  IF html
  THEN << Multi("alternative"), OpenPart("alternative"), Leaf(TextBody),
          OpenPart("alternative"), Leaf(HtmlBody), ClosePart("alternative") >>
  ELSE << Leaf(TextBody) >>

\* The delimiter and the part, for each attachment of the container.
WriteAttachments(b, s) ==
  [k \in 1..(2 * Len(s)) |-> IF k % 2 = 1 THEN OpenPart(b) ELSE Leaf(s[k \div 2])]

InlineOnes(s) == Keep(s, {a \in ToSet(s) : a.inline})
RealOnes(s) == Keep(s, {a \in ToSet(s) : ~a.inline})

\* The body written without the delimiter that opens it.
RelatedUnopened(mail) ==
  IF InlineOnes(mail.attachments) # <<>>
  THEN << Multi("related") >> \o write_alt_part(mail.html)
         \o WriteAttachments("related", InlineOnes(mail.attachments))
         \o << ClosePart("related") >>
  ELSE write_alt_part(mail.html)

\* The body, with the parts it refers to by Content-ID.
Related(mail) ==
  IF InlineOnes(mail.attachments) # <<>>
  THEN << Multi("related"), OpenPart("related") >> \o write_alt_part(mail.html)
         \o WriteAttachments("related", InlineOnes(mail.attachments))
         \o << ClosePart("related") >>
  ELSE write_alt_part(mail.html)

build_mime(mail) ==
  IF RealOnes(mail.attachments) # <<>>
  THEN << Multi("mixed"), OpenPart("mixed") >> \o Related(mail)
         \o WriteAttachments("mixed", RealOnes(mail.attachments))
         \o << ClosePart("mixed") >>
  ELSE Related(mail)

----------------------------------------------------------------------------
(* The parser (external: the mail_parser crate).  It keeps the containers it is in; a   *)
(* leaf counts where a part has just been opened, or at the top of the mail, and every *)
(* other line is preamble, epilogue or the text of the part before.                    *)

Pop(stack, b) ==
  IF \E i \in DOMAIN stack : stack[i] = b
  THEN SubSeq(stack, 1, (CHOOSE i \in DOMAIN stack : stack[i] = b))
  ELSE stack

ParseLine(p, line) ==
  CASE line.t = "multi" /\ p.expects ->
         [p EXCEPT !.stack = Append(@, line.b), !.expects = FALSE]
    [] line.t = "open" /\ line.b \in ToSet(p.stack) ->
         [p EXCEPT !.stack = Pop(@, line.b), !.expects = TRUE]
    [] line.t = "close" /\ line.b \in ToSet(p.stack) ->
         [p EXCEPT !.stack = Front(Pop(@, line.b)), !.expects = FALSE]
    [] line.t = "leaf" /\ p.expects ->
         [p EXCEPT !.leaves = Append(@, [part |-> line.c, within |-> p.stack]),
                   !.expects = FALSE]
    [] OTHER -> p

Containers == {"mixed", "related", "alternative"}
Contents == {TextBody, HtmlBody} \cup Attachment
Line == [t : {"multi", "open", "close"}, b : Containers] \cup [t : {"leaf"}, c : Contents]
Found == [part : Contents, within : Seq(Containers)]
Parser == [stack : Seq(Containers), expects : BOOLEAN, leaves : Seq(Found)]

ParseStep == [q \in Parser \X Line |-> ParseLine(q[1], q[2])]

Parse(lines) ==
  Fold(ParseStep, [stack |-> <<>>, expects |-> TRUE, leaves |-> <<>>], lines).leaves

\* message.attachments(): the leaves that are not the body.
Attachments(leaves) ==
  Keep(leaves, {l \in ToSet(leaves) : l.part \notin {TextBody, HtmlBody}})

----------------------------------------------------------------------------
(* Uploads.  A field is an id, the sizes of its chunks, and, when it comes in a JSON      *)
(* request, whether it is valid base64.                                               *)

\* resolve_content_type: whatever the client or the file name says.
AnyType == [main |-> "application", sub |-> "octet-stream"]

Field == [id : Nat, valid : BOOLEAN, chunks : Seq(Nat)]

Total(sizes) == Fold([q \in Nat \X Nat |-> q[1] + q[2]], 0, sizes)
Bytes(s) == Total([i \in DOMAIN s |-> s[i].size])

\* The files counted without the one that is added.
check_attachment_limits_loose(count, total, next) ==
  /\ next <= MAX_ATTACHMENT_BYTES
  /\ count <= MAX_ATTACHMENTS
  /\ total + next <= MAX_TOTAL_ATTACHMENT_BYTES

check_attachment_limits(count, total, next) ==
  /\ next <= MAX_ATTACHMENT_BYTES
  /\ count + 1 <= MAX_ATTACHMENTS
  /\ total + next <= MAX_TOTAL_ATTACHMENT_BYTES

NewAttachment(f, size) ==
  [id |-> f.id, inline |-> FALSE, cid |-> "none", type |-> AnyType, size |-> size]

\* One field of the form: the first one over a limit ends the reading.  A request that
\* breaks off is read as one that ended there, so fields and chunks are what got through.
ReadField(r, f) ==
  LET size == Total(f.chunks)
      fits == /\ \A k \in DOMAIN f.chunks :
                   Total(SubSeq(f.chunks, 1, k)) <= MAX_ATTACHMENT_BYTES
              /\ \/ size = 0
                 \/ check_attachment_limits(Len(r.attachments), Bytes(r.attachments), size)
  IN  CASE r.error -> r
        [] ~r.error /\ ~fits -> [r EXCEPT !.error = TRUE]
        [] ~r.error /\ fits /\ size = 0 -> r
        [] ~r.error /\ fits /\ size > 0 ->
             [r EXCEPT !.attachments = Append(@, NewAttachment(f, size))]

Form == [attachments : Seq(Attachment), error : BOOLEAN]

read_multipart_fields(fields) ==
  Fold([q \in Form \X Field |-> ReadField(q[1], q[2])],
       [attachments |-> <<>>, error |-> FALSE], fields)

\* The same uploads as base64 in a JSON request: counted first, then decoded and added up.
DecodeOne(r, f) ==
  IF r.error \/ ~f.valid \/ Bytes(r.attachments) + Total(f.chunks) > MAX_TOTAL_ATTACHMENT_BYTES
  THEN [r EXCEPT !.error = TRUE]
  ELSE [r EXCEPT !.attachments = Append(@, NewAttachment(f, Total(f.chunks)))]

decode_api_attachments(fields) ==
  IF Len(fields) > MAX_ATTACHMENTS
  THEN [attachments |-> <<>>, error |-> TRUE]
  ELSE Fold([q \in Form \X Field |-> DecodeOne(q[1], q[2])],
            [attachments |-> <<>>, error |-> FALSE], fields)

\* The answer 404, or 400 for what is not an image.
NotFound == 0

\* record_sent_attachments, and the loop of the reply handler: one row per attachment, in
\* the order of the upload, and what a download of the row then finds in the stored mail.
RecordedRows(attachments) ==
  [i \in DOMAIN attachments |-> [id |-> attachments[i].id, part_index |-> i - 1]]

Download(lines, row) ==
  LET found == Attachments(Parse(lines))
  IN  IF row.part_index < Len(found) THEN found[row.part_index + 1].part.id ELSE NotFound

----------------------------------------------------------------------------
(* Received mail.  A part is [id, binary, disposition, cid, type, size]: binary when the *)
(* parser met it inside a related container.                                           *)

Dispositions == {"none", "inline", "attachment"}
Part == [id : Nat, binary : BOOLEAN, disposition : Dispositions, cid : ContentIds,
         type : Types, size : Nat]

\* Without the test of the Content-ID.
IsInlineByDisposition(part) == part.binary \/ part.disposition = "inline"

\* The same three tests in the forward, in the relayed reply and in extract_full_metadata.
IsInline(part) == part.binary \/ part.disposition = "inline" \/ part.cid # "none"

\* The mail as it is rebuilt: its text, its HTML (the parser makes one from the text when
\* there is none), and its parts with the first half of their content type.
Rebuilt(parts) ==
  [html |-> TRUE,
   attachments |-> [i \in DOMAIN parts |->
     [id |-> parts[i].id, inline |-> IsInline(parts[i]), cid |-> parts[i].cid,
      type |-> [main |-> parts[i].type.main, sub |-> "none"], size |-> parts[i].size]]]

rewrite_body_for_forward(parts) == build_mime(Rebuilt(parts))

\* The rows that extract_full_metadata makes of received mail.
extract_full_metadata(parts) ==
  [i \in DOMAIN parts |-> [id |-> parts[i].id, part_index |-> i - 1, cid |-> parts[i].cid,
                           is_inline |-> IsInline(parts[i]), type |-> parts[i].type]]

\* The content type starts with "image/".
IsImage(type) == type.main = "image" /\ type.sub # "none"

\* The first inline row with the Content-ID, served when it is an image.
inline_image_handler(parts, cid) ==
  LET rows == extract_full_metadata(parts)
      found == Keep(rows, {r \in ToSet(rows) : r.cid = cid /\ r.is_inline})
  IN  CASE found = <<>> -> NotFound
        [] found # <<>> /\ ~IsImage(found[1].type) -> NotFound
        [] found # <<>> /\ IsImage(found[1].type) -> parts[found[1].part_index + 1].id
=============================================================================
