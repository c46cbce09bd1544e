----------------------------- MODULE Algorithms -----------------------------
(* The pure algorithms of the server, each compared with a reference definition, and    *)
(* the paging of Listing.  A behaviour either draws one input for one algorithm, or     *)
(* reads a folder page by page; the two do not interact.                                *)
EXTENDS Listing, Mime, Srs, Spf, Wire, Keywords

CONSTANTS
  MaxParts,      \* bound on the attachments of a mail
  MaxReceived,   \* bound on the parts of received mail
  Chunks,        \* what a field of a form is read as: sequences of chunk sizes
  PartTypes,     \* content types of received parts: [main, sub]
  SrsDays,       \* days on which an SRS address is made
  MaxBody,       \* bound on the length of a body
  Letters,       \* the letters of keywords and texts, with the blank
  RuleSets, MaxText \* filter rules, and a bound on the length of a text

ASSUME AlgorithmsAssumption ==
  /\ MaxParts \in Nat /\ MaxReceived \in Nat /\ MaxBody \in Nat /\ MaxText \in Nat
  /\ Chunks \subseteq Seq(Nat)
  /\ PartTypes \subseteq Types
  /\ SrsDays \subseteq Nat
  /\ RuleSets \subseteq Seq([keyword : Seq(Letters), label : Nat])

VARIABLE input   \* the input drawn, or Nothing

vars == <<listingVars, input, check>>

Nothing == [of |-> "nothing"]

Init == ListingInit /\ SpfInit /\ input = Nothing

Undrawn == input = Nothing /\ check = NoCheck /\ reader.phase = "idle"
Draw(i) == input' = i /\ UNCHANGED <<listingVars, check>>

SeqsUpTo(S, n) == UNION {[1..k -> S] : k \in 0..n}

DrawUpload ==
  /\ Undrawn
  /\ \E s \in SeqsUpTo([valid : BOOLEAN, chunks : Chunks], MaxParts) : \E html \in BOOLEAN :
       Draw([of |-> "upload", html |-> html,
             fields |-> [i \in DOMAIN s |-> [id |-> i, valid |-> s[i].valid,
                                             chunks |-> s[i].chunks]]])

DrawMail ==
  /\ Undrawn
  /\ \E s \in SeqsUpTo(BOOLEAN, MaxParts) : \E html \in BOOLEAN :
       Draw([of |-> "mail", mail |->
              [html |-> html,
               attachments |->
                 [i \in DOMAIN s |-> [id |-> i, inline |-> s[i], cid |-> "none",
                                      type |-> AnyType, size |-> 1]]]])

DrawReceived ==
  /\ Undrawn
  /\ \E s \in SeqsUpTo([binary : BOOLEAN, disposition : Dispositions, cid : ContentIds,
                        type : PartTypes], MaxReceived) :
       Draw([of |-> "received", parts |->
              [i \in DOMAIN s |-> [id |-> i, binary |-> s[i].binary, cid |-> s[i].cid,
                                   disposition |-> s[i].disposition,
                                   type |-> s[i].type, size |-> 1]]])

DrawSrs == Undrawn /\ \E day \in SrsDays : Draw([of |-> "srs", day |-> day])

DrawSpf ==
  /\ Undrawn
  /\ \E zone \in Zones : \E domain \in DOMAIN zone : \E ip \in Clients :
       Begin(zone, domain, ip)
  /\ UNCHANGED <<listingVars, input>>

DrawBody ==
  /\ Undrawn
  /\ \E body \in SeqsUpTo(Byte, MaxBody) :
       Draw([of |-> "body", body |-> body])

DrawText ==
  /\ Undrawn
  /\ \E rules \in RuleSets : \E text \in SeqsUpTo(Letters, MaxText) :
       Draw([of |-> "text", rules |-> rules, text |-> text])

Reading == input = Nothing /\ check = NoCheck /\ UNCHANGED <<input, check>>
Checking == UNCHANGED <<listingVars, input>>

Next ==
  \/ DrawUpload \/ DrawMail \/ DrawReceived \/ DrawSrs \/ DrawSpf
  \/ DrawBody \/ DrawText
  \/ Checking /\ SkipVisited
  \/ Checking /\ GiveUp
  \/ Checking /\ LookupFails
  \/ Checking /\ LookupAnswers
  \/ Checking /\ RunsOut
  \/ Reading /\ Open
  \/ Reading /\ ListRows
  \/ Reading /\ ListFails
  \/ Reading /\ CountRows
  \/ Reading /\ CountFails
  \/ Reading /\ NextPage
  \/ Reading /\ Arrive
  \/ Reading /\ ReplyArrives
  \/ Reading /\ Advance
  \/ Reading /\ Mark
  \/ Reading /\ Delete

Spec == Init /\ [][Next]_vars

----------------------------------------------------------------------------
(* Reading page by page.                                                               *)

\* A reader who follows the links to the last page has been shown every mail that was in
\* the folder at the start and has not moved to the top since, however much arrived
\* between the queries (dashboard_handler reads by OFFSET without a snapshot), and no page
\* that was linked to is empty: the count, a separate query, counts the rows listed.
PagingMissesNothing ==
  ~excused =>
    /\ reader.phase = "shown" /\ reader.page >= reader.total => wanted \subseteq shown
    /\ reader.phase = "count" /\ reader.page > 1 => ~blank

----------------------------------------------------------------------------
(* Mail and its parts.                                                                 *)

\* What build_mime writes, a parser reads back: every body and every attachment once, the
\* two bodies as alternatives, inline attachments in the container of the body and the
\* others beside it.
MimeRoundTrip ==
  input.of = "mail" =>
    LET mail == input.mail
        leaves == Parse(build_mime(mail))
        bodies == IF mail.html THEN {TextBody, HtmlBody} ELSE {TextBody}
        Within(c) == (CHOOSE l \in ToSet(leaves) : l.part = c).within
    IN  /\ {l.part : l \in ToSet(leaves)} = bodies \cup ToSet(mail.attachments)
        /\ Len(leaves) = Cardinality(bodies) + Len(mail.attachments)
        /\ mail.html => /\ Within(TextBody) = Within(HtmlBody)
                        /\ Last(Within(TextBody)) = "alternative"
        /\ \A a \in ToSet(mail.attachments) :
             IF a.inline
             THEN Last(Within(a)) = "related" /\ IsPrefix(Within(a), Within(TextBody))
             ELSE Within(a) = <<"mixed">>

\* What a form is let through with is what is within the limits, whatever chunks it
\* arrives in and however many empty fields there are, and the row recorded for a file
\* leads back to that file in the mail that was built and stored: rows are numbered in the
\* order of the upload, parts are found in the order build_mime wrote them.  The latter
\* for the API as well (record_sent_attachments, download_attachment_handler).
UploadsAreDownloaded ==
  input.of = "upload" =>
    LET form == read_multipart_fields(input.fields)
        api == decode_api_attachments(input.fields)
        files == Keep(input.fields, {f \in ToSet(input.fields) : Total(f.chunks) > 0})
        sizes == [i \in DOMAIN files |-> Total(files[i].chunks)]
        within == /\ Len(files) <= MAX_ATTACHMENTS
                  /\ \A i \in DOMAIN sizes : sizes[i] <= MAX_ATTACHMENT_BYTES
                  /\ Total(sizes) <= MAX_TOTAL_ATTACHMENT_BYTES
        Downloads(r) ==
          LET recorded == RecordedRows(r.attachments)
              stored == build_mime([html |-> input.html, attachments |-> r.attachments])
          IN  [i \in DOMAIN recorded |-> Download(stored, recorded[i])]
        IdsOf(s) == [i \in DOMAIN s |-> s[i].id]
    IN  /\ form.error = ~within
        /\ within => Downloads(form) = IdsOf(files)
        /\ ~api.error => Downloads(api) = IdsOf(api.attachments)

\* A part that the HTML refers to by Content-ID is found: the forwarded mail has it in the
\* container of the body, and the page gets the image from inline_image_handler, also
\* when the sender called it an attachment.
EmbeddedPartsAreFound ==
  input.of = "received" =>
    LET parts == input.parts
        found == Attachments(Parse(rewrite_body_for_forward(parts)))
    IN  \A i \in DOMAIN parts :
          parts[i].cid # "none" =>
            /\ \E l \in ToSet(found) :
                 /\ l.part.id = parts[i].id /\ l.part.cid = parts[i].cid
                 /\ Last(l.within) = "related"
            /\ (IsImage(parts[i].type) /\ \A j \in 1..(i - 1) : parts[j].cid # parts[i].cid)
                 => inline_image_handler(parts, parts[i].cid) = parts[i].id

----------------------------------------------------------------------------
(* Addresses, policies, bodies and filters.                                            *)

\* An SRS address is good on the day it is made and for 21 days, whether or not the
\* counter of days starts again meanwhile, and for none of the rest of the counter's
\* period; with another timestamp it is not good at all.
SrsExpires ==
  input.of = "srs" =>
    GoodForMaxAge("sender", input.day,
                  {0, (input.day + 1) % Period, Period + 1, 4 * Period})

\* A client passes the policy only if a record that can be reached lists its address, and
\* passes it whenever one does, the records deny nothing, and there are few enough of
\* them to fetch them all: includes may name one another, and some cannot be fetched.
SpfAnswers ==
  check.answer \in {"pass", "fail"} =>
    LET reached == Reachable(check.zone, check.domain)
        listed == \E d \in reached : Lists(check.zone, d, check.ip)
        denying == \E d \in reached : Denies(check.zone, d)
    IN  /\ check.answer = "pass" => listed
        /\ listed /\ ~denying /\ IsFiniteSet(reached) /\ Cardinality(reached) <= SpfMaxLookups
             => check.answer = "pass"

\* The body that the server keeps is the body the client was given, with a line end added
\* when it had none, and nothing of it is left to be read as a command.
BodySurvivesTransport ==
  input.of = "body" =>
    LET received == ReceiveBody(SendBody(input.body))
    IN  /\ received.done /\ received.rest = <<>>
        /\ received.body =
             (IF IsSuffix(CRLF, input.body) THEN input.body ELSE input.body \o CRLF)

\* A filter labels only mail in which its keyword occurs, and all of it where no two
\* keywords overlap.
LabelsMatchKeywords ==
  input.of = "text" =>
    LET given == FilterMatches(input.rules, input.text)
    IN  /\ given \subseteq Deserved(input.rules, input.text)
        /\ Apart(input.rules, input.text) => given = Deserved(input.rules, input.text)

----------------------------------------------------------------------------
(* What the code does not keep (no run checks these; README, section 4).               *)

\* A mail is labelled by every keyword that occurs in it: find_iter goes on behind each
\* match and reports one pattern per place.
EveryKeywordLabels ==
  input.of = "text" =>
    FilterMatches(input.rules, input.text) = Deserved(input.rules, input.text)

\* A policy is evaluated "under RFC 7208" (dns.rs:194, 295), in which -ip4, ~ip4 and ?ip4
\* do not pass whom they name: the code takes every qualifier for +.
SpfHonoursQualifiers ==
  check.answer = "pass" =>
    \E d \in Reachable(check.zone, check.domain) :
      /\ check.zone[d].found
      /\ \E t \in ToSet(check.zone[d].terms) :
           t.pass /\ t.kind = check.ip.family /\ InBlock(check.ip, t.block)

\* A forwarded part keeps its content type: only the main type is carried over.
ForwardKeepsTypes ==
  input.of = "received" =>
    \A l \in ToSet(Attachments(Parse(rewrite_body_for_forward(input.parts)))) :
      l.part.type = input.parts[l.part.id].type

\* The limits of the form hold for the API as well, as its comment says
\* (web/api.rs:163): it does not look at the size of a single file.
ApiLimitsHold ==
  input.of = "upload" =>
    LET r == decode_api_attachments(input.fields)
    IN  ~r.error => \A i \in DOMAIN r.attachments :
                      r.attachments[i].size <= MAX_ATTACHMENT_BYTES

\* Every mail but a reply is listed in the inbox, the sent folder or the drafts: one that
\* is being sent or has failed is not.
EveryMailIsListed ==
  \A i \in DOMAIN rows :
    \/ rows[i].kind = "child"
    \/ \E f \in {"inbox", "sent", "drafts"} :
         Listed([folder |-> f, active |-> {}], rows[i])
=============================================================================
