--------------------------- MODULE TransportProofs ---------------------------
(***************************************************************************)
(* Proofs about the mail transport: one delivery attempt (SmtpDialogue),   *)
(* for every set of envelopes and reply codes; the TLS configuration of    *)
(* the server (HotReload), for every number of renewals and restarts; and  *)
(* the rotation of DKIM keys (DkimRotation), for any number of overlapping *)
(* requests and of keys generated.                                         *)
(***************************************************************************)
EXTENDS SmtpDialogue, HotReload, DkimRotation, TLAPS

-----------------------------------------------------------------------------
(* One delivery attempt *)

Answered == {"ehlo", "starttls", "ehlo2", "auth", "mail", "rcpt", "data", "dot", "quit"}
Phases == {"lookup", "connect", "greeting", "handshake", "end"} \cup Answered

(* What the order of the commands adds to the two properties: the server can have taken
   the message only once the final dot was sent, an attempt without a result has not
   failed, and the stream is encrypted from the second EHLO on. *)
DialogueInv ==
  /\ phase \in Phases
  /\ config \in [relay : BOOLEAN, credentials : BOOLEAN, plaintext : BOOLEAN]
  /\ tls \in BOOLEAN /\ offered \in BOOLEAN /\ accepted \in BOOLEAN
  /\ result \in {"none", "ok", "permanent", "transient"}
  /\ phase # "end" <=> result = "none"
  /\ accepted => phase \in {"quit", "end"}
  /\ phase = "quit" => accepted
  /\ phase \in {"lookup", "connect", "greeting", "ehlo"} => ~offered
  /\ phase \in {"starttls", "handshake", "ehlo2"} => offered
  /\ phase = "ehlo2" => tls
  /\ phase = "auth" => config.relay /\ config.credentials
  /\ ResultMatchesServer
  /\ CredentialsProtected

(* An attempt starts with nothing sent. *)
LEMMA DialogueInit == Init => DialogueInv
  BY DEF Init, DialogueInv, Phases, Answered, ResultMatchesServer,
         CredentialsProtected

(* An attempt that ends in an error keeps the invariant. *)
LEMMA FailureStep ==
  ASSUME DialogueInv, phase # "end",
         NEW r \in {"permanent", "transient"}, NEW code, End(phase, r, code),
         accepted' \in {accepted, accepted \/ phase = "dot"},
         authOver' = authOver \/ (authOver' = "tls") \/ (authOver' = "plain" /\ config.plaintext),
         UNCHANGED <<config, tls, offered>>
  PROVE  DialogueInv'
  BY DEF DialogueInv, End, Phases, Answered, ResultMatchesServer,
         CredentialsProtected

(* AUTH PLAIN goes out in clear only where the configuration allows it. *)
LEMMA AuthIsProtected ==
  ASSUME DialogueInv, phase = "auth", AuthPermitted
  PROVE  tls \/ config.plaintext
  BY DEF DialogueInv, AuthPermitted, CredentialsProtected

(* Every step of an attempt keeps the invariant. *)
LEMMA DialogueStep ==
  ASSUME DialogueInv, Next
  PROVE  DialogueInv'
  <1> USE DEF Phases, Answered, Unanswered
  <1>1. CASE Proceed
    BY <1>1 DEF Proceed, Following, DialogueInv, ResultMatchesServer,
                CredentialsProtected
  <1>2. CASE EhloReplied
    BY <1>2 DEF EhloReplied, AfterEhlo, DialogueInv, ResultMatchesServer,
                CredentialsProtected
  <1>3. CASE CommandReplied
    BY <1>3 DEF CommandReplied, Following, AfterEhlo, DialogueInv,
                ResultMatchesServer, CredentialsProtected
  <1>4. CASE AuthReplied
    BY <1>4, AuthIsProtected
    DEF AuthReplied, AuthOver, DialogueInv, ResultMatchesServer, CredentialsProtected
  <1>5. CASE AuthWithheld
    BY <1>5, FailureStep DEF AuthWithheld, Quiet
  <1>6. CASE QuitReplied
    BY <1>6 DEF QuitReplied, Quiet, DialogueInv, ResultMatchesServer,
                CredentialsProtected
  <1>7. CASE CommandRefused
    <2>1. PICK code \in Codes, textHasCode \in BOOLEAN :
            End(phase, IF IsPermanentReply(phase, code, textHasCode)
                                THEN "permanent" ELSE "transient", code)
      BY <1>7 DEF CommandRefused, Refused
    <2>2. authOver' = authOver \/ authOver' = "tls" \/ (authOver' = "plain" /\ config.plaintext)
      BY <1>7, AuthIsProtected DEF CommandRefused, AuthOver
    <2>3. QED
      BY <1>7, <2>1, <2>2, FailureStep DEF CommandRefused
  <1>8. CASE ConnectionBreaks
    <2>1. authOver' = authOver \/ authOver' = "tls" \/ (authOver' = "plain" /\ config.plaintext)
      BY <1>8, AuthIsProtected DEF ConnectionBreaks, AuthOver
    <2>2. QED
      BY <1>8, <2>1, FailureStep DEF ConnectionBreaks, Broken
  <1>9. CASE AddressRejected
    BY <1>9, FailureStep DEF AddressRejected, Malformed, Quiet
  <1>10. QED
    BY <1>1, <1>2, <1>3, <1>4, <1>5, <1>6, <1>7, <1>8, <1>9 DEF Next

(* DialogueInv holds throughout every attempt. *)
THEOREM DialogueInvariance == Spec => []DialogueInv
  <1>1. DialogueInv /\ UNCHANGED vars => DialogueInv'
    BY DEF DialogueInv, vars, ResultMatchesServer, CredentialsProtected
  <1>2. QED
    BY DialogueInit, DialogueStep, <1>1, PTL DEF Spec

(* send_raw_inner answers Ok only for a message the server has taken, and a taken
   message is reported as failed only when the dot or QUIT went wrong. *)
THEOREM AttemptReportsTheServer == Spec => []ResultMatchesServer
  BY DialogueInvariance, PTL DEF DialogueInv

(* The relay password goes out in clear only where the configuration allows it. *)
THEOREM PasswordIsProtected == Spec => []CredentialsProtected
  BY DialogueInvariance, PTL DEF DialogueInv

-----------------------------------------------------------------------------
(* The TLS configuration *)

Previous(content) ==
  \/ content = Missing /\ writing.version = 1
  \/ writing.version > 1 /\ content = Whole(writing.version - 1)

Newest(content) ==
  \/ content = Missing /\ writing.version = 0
  \/ writing.version > 0 /\ content = Whole(writing.version)

(* How far a renewal has come, by the files that are still to be written: the key is
   in place before the certificate is touched. *)
FilesInStep ==
  \/ /\ writing.files = <<>>
     /\ disk["key"] = disk["cert"] /\ Newest(disk["cert"])
  \/ /\ mode = "auto" /\ writing.files = <<"cert">>
     /\ disk["key"] = disk["cert"] /\ (Previous(disk["cert"]) \/ disk["cert"] = Torn)
  \/ /\ mode = "manual" /\ writing.files = <<"key", "cert">>
     /\ Previous(disk["cert"]) /\ disk["key"] \in {disk["cert"], Torn}
  \/ /\ mode = "manual" /\ writing.files = <<"cert">>
     /\ disk["key"] = Whole(writing.version)
     /\ Previous(disk["cert"]) \/ disk["cert"] = Torn

KeyFirst == mode = "auto" \/ order = "key_first"

(* While the modification time is the one the watcher knows, the certificate is the one
   it has seen: the one it serves, or one whose key was not there. *)
WatcherInStep ==
  /\ last <= mtime
  /\ disk["cert"] # Missing => mtime > 0
  /\ server = "reload_key" /\ mtime = last => read = disk["cert"]
  /\ server = "sleep" /\ mtime = last /\ ~overtaken /\ disk["cert"].state = "whole"
       => served.cert = disk["cert"].version \/ disk["key"] # disk["cert"]

ReloadInv ==
  /\ mode \in {"manual", "auto"} /\ order \in {"key_first", "cert_first"}
  /\ disk \in [Files -> [state : {"missing", "torn", "whole"}, version : Nat]]
  /\ mtime \in Nat /\ last \in Nat
  /\ writing \in [version : Nat, files : {<<>>, <<"key">>, <<"cert">>, <<"key", "cert">>, <<"cert", "key">>}]
  /\ writing.files # <<>> => writing.version > 0
  /\ ServedPairMatches
  /\ KeyFirst => FilesInStep /\ WatcherInStep

(* What RenewalIsServed needs besides fairness: a complete pair that is neither served
   nor overtaken by the start finds the watcher ready to wake up for it.  *)
NoRenewalEscapes ==
  KeyFirst =>
    \A v \in 1..MaxVersion :
      server = "sleep" /\ OnDisk(v)
        => served.cert = v \/ overtaken \/ (mtime > 0 /\ Changed)

(* The server is down, and nothing has been written. *)
LEMMA ReloadStarts == ReloadInit => ReloadInv
  BY ReloadAssumption DEF ReloadInit, ReloadInv, Files, Missing, Nothing,
         ServedPairMatches, KeyFirst, FilesInStep, Newest, WatcherInStep

(* The tool that renews the files. *)
LEMMA RenewStep ==
  ASSUME ReloadInv, Renew \/ WriteBegins \/ WriteEnds
  PROVE  ReloadInv'
  <1> USE DEF Files, Missing, Torn, Whole
  <1>s. ServedPairMatches'
    BY DEF Renew, WriteBegins, WriteEnds, ReloadInv, ServedPairMatches
  <1>1. CASE Renew
    BY <1>1, <1>s DEF Renew, ReloadInv, KeyFirst, FilesInStep, Previous, Newest, WatcherInStep
  <1>2. CASE WriteBegins
    BY <1>2, <1>s DEF WriteBegins, Set, ReloadInv, KeyFirst, FilesInStep, Previous, Newest,
                      WatcherInStep
  <1>3. CASE WriteEnds
    <2>1. PICK f \in Files : f = writing.files[1] /\ Set(f, Whole(writing.version))
      BY <1>3 DEF WriteEnds, ReloadInv
    <2>t. /\ writing.files \in {<<"cert">>, <<"cert", "key">>} => f = "cert"
          /\ writing.files \in {<<"key">>, <<"key", "cert">>} => f = "key"
      <3>1. /\ <<"cert">>[1] = "cert" /\ <<"cert", "key">>[1] = "cert"
            /\ <<"key">>[1] = "key" /\ <<"key", "cert">>[1] = "key"
        OBVIOUS
      <3>2. QED
        BY <2>1, <3>1, Zenon
    <2>2. /\ disk' \in [Files -> [state : {"missing", "torn", "whole"}, version : Nat]]
          /\ mtime' \in Nat /\ mtime' >= mtime
          /\ mode = "auto" \/ f = "cert" => mtime' > mtime
      BY <2>1 DEF Set, ReloadInv
    <2>3. \/ writing.files \in {<<"key">>, <<"cert">>} /\ writing'.files = <<>>
          \/ writing.files = <<"key", "cert">> /\ writing'.files = <<"cert">>
          \/ writing.files = <<"cert", "key">> /\ writing'.files = <<"key">>
      BY <1>3 DEF WriteEnds, ReloadInv
    <2>4. /\ writing' \in [version : Nat, files : {<<>>, <<"key">>, <<"cert">>, <<"key", "cert">>, <<"cert", "key">>}]
          /\ writing'.version = writing.version /\ writing.version > 0
      BY <1>3, <2>3 DEF WriteEnds, ReloadInv
    <2>5. UNCHANGED <<mode, order, served, server, read, last, overtaken>>
      BY <1>3 DEF WriteEnds
    <2>6. KeyFirst => FilesInStep'
      <3> SUFFICES ASSUME KeyFirst PROVE FilesInStep'
        OBVIOUS
      <3>1. FilesInStep
        BY DEF ReloadInv
      <3>2. disk[f] = Torn /\ writing.files # <<>>
        BY <1>3, <2>1 DEF WriteEnds
      <3>3. CASE mode = "auto"
        <4>0. writing.files = <<"cert">>
          BY <2>1, <3>1, <3>2, <3>3 DEF FilesInStep
        <4>1. writing'.files = <<>> /\ writing.version > 0
          BY <2>3, <3>2, <4>0 DEF ReloadInv
        <4>2. disk'["cert"] = Whole(writing.version) /\ disk'["key"] = disk'["cert"]
          BY <2>1, <3>3 DEF Set
        <4>3. QED
          BY <2>4, <4>1, <4>2 DEF FilesInStep, Newest
      <3>4. CASE mode = "manual" /\ f = "cert"
        <4>0. writing.files = <<"cert">> /\ disk["key"] = Whole(writing.version)
          BY <2>t, <3>1, <3>2, <3>4 DEF FilesInStep
        <4>1. writing'.files = <<>> /\ writing.version > 0
          BY <2>3, <3>2, <4>0 DEF ReloadInv
        <4>2. disk'["cert"] = Whole(writing.version) /\ disk'["key"] = disk["key"]
          BY <2>1, <3>4 DEF Set, ReloadInv
        <4>3. QED
          BY <2>4, <4>0, <4>1, <4>2 DEF FilesInStep, Newest
      <3>5. CASE mode = "manual" /\ f = "key"
        <4>0. writing.files = <<"key", "cert">> /\ Previous(disk["cert"])
          BY <2>t, <3>1, <3>2, <3>5 DEF FilesInStep
        <4>1. writing'.files = <<"cert">>
          BY <2>3, <4>0
        <4>2. disk'["key"] = Whole(writing.version) /\ disk'["cert"] = disk["cert"]
          BY <2>1, <3>5 DEF Set, ReloadInv
        <4>3. QED
          BY <2>4, <2>5, <3>5, <4>0, <4>1, <4>2 DEF FilesInStep, Previous
      <3>6. QED
        BY <3>3, <3>4, <3>5 DEF ReloadInv
    <2>7. KeyFirst => WatcherInStep'
      BY <2>1, <2>2, <2>5, <2>6 DEF Set, ReloadInv, KeyFirst, FilesInStep, Previous, WatcherInStep
    <2>8. QED
      BY <1>s, <2>2, <2>4, <2>5, <2>6, <2>7 DEF ReloadInv, KeyFirst
  <1>4. QED
    BY <1>1, <1>2, <1>3

(* The server leaves the files alone. *)
LEMMA FilesStay ==
  ASSUME ReloadInv, UNCHANGED <<mode, order, disk, mtime, writing>>
  PROVE  (KeyFirst' <=> KeyFirst) /\ (KeyFirst => FilesInStep')
  BY DEF ReloadInv, KeyFirst, FilesInStep, Previous, Newest

(* The steps of the server: the start, the watcher and the stop. *)
LEMMA ServerStep ==
  ASSUME ReloadInv, Start \/ Stop \/ Process
  PROVE  ReloadInv'
  <1>f. UNCHANGED <<mode, order, disk, mtime, writing>>
    BY DEF Start, Stop, Process, FirstKey, FirstLook, Wake,
           ReadCert, ReadKey
  <1>w. ASSUME last' \in Nat, ServedPairMatches', KeyFirst => WatcherInStep' PROVE ReloadInv'
    BY <1>f, <1>w, FilesStay DEF ReloadInv
  <1> USE DEF Files, Missing
  <1>1. CASE Start
    BY <1>1, <1>w DEF Start, Nothing, ReloadInv, ServedPairMatches, WatcherInStep
  <1>2. CASE Stop
    BY <1>2, <1>w DEF Stop, Nothing, ReloadInv, ServedPairMatches, WatcherInStep
  <1>3. CASE FirstKey
    BY <1>3, <1>w DEF FirstKey, PairMatches, Loaded, Nothing, ReloadInv,
                      ServedPairMatches, WatcherInStep
  <1>4. CASE FirstLook
    <2>1. ~overtaken' /\ disk["cert"].state = "whole" => served.cert = disk["cert"].version
      BY <1>4, Zenon DEF FirstLook
    <2>2. KeyFirst => WatcherInStep'
      BY <1>4, <2>1 DEF FirstLook, ReloadInv, WatcherInStep
    <2>3. QED
      BY <1>4, <1>w, <2>2 DEF FirstLook, ReloadInv, ServedPairMatches
  <1>5. CASE Wake
    BY <1>5, <1>w DEF Wake, ReloadInv, ServedPairMatches, WatcherInStep
  <1>6. CASE ReadCert
    BY <1>6, <1>w DEF ReadCert, FilesExist, ReloadInv, ServedPairMatches,
                      WatcherInStep
  <1>7. CASE ReadKey
    BY <1>7, <1>w DEF ReadKey, PairMatches, Loaded, ReloadInv,
                      ServedPairMatches, WatcherInStep
  <1>8. QED
    BY <1>1, <1>2, <1>3, <1>4, <1>5, <1>6, <1>7 DEF Process

(* ReloadInv holds however renewals, starts and the watcher interleave. *)
THEOREM ReloadInvariance == ReloadSpec => []ReloadInv
  <1>1. ReloadInv /\ [ReloadNext]_reloadVars => ReloadInv'
    <2>1. ReloadInv /\ UNCHANGED reloadVars => ReloadInv'
      BY DEF reloadVars, ReloadInv, ServedPairMatches, KeyFirst, FilesInStep, Previous, Newest,
             WatcherInStep
    <2>2. QED
      BY <2>1, RenewStep, ServerStep DEF ReloadNext
  <1>2. QED
    BY <1>1, ReloadStarts, PTL DEF ReloadSpec

(* STARTTLS never offers a certificate with the key of another renewal. *)
THEOREM ServedPairIsOne == ReloadSpec => []ServedPairMatches
  BY ReloadInvariance, PTL DEF ReloadInv

(* No write of a tool that puts the key first, or both into one file, escapes the
   watcher: the safety part of RenewalIsServed. *)
THEOREM WatcherSeesRenewals == ReloadSpec => []NoRenewalEscapes
  <1>1. ReloadInv => NoRenewalEscapes
    <2> SUFFICES ASSUME ReloadInv, KeyFirst, NEW v \in 1..MaxVersion,
                        server = "sleep", OnDisk(v), served.cert # v, ~overtaken
                 PROVE  mtime > 0 /\ Changed
      BY DEF NoRenewalEscapes
    <2>1. disk["cert"] = Whole(v) /\ disk["key"] = Whole(v)
      BY DEF OnDisk, Files
    <2>2. QED
      BY <2>1 DEF ReloadInv, WatcherInStep, Whole, Missing, Changed
  <1>2. QED
    BY <1>1, ReloadInvariance, PTL

-----------------------------------------------------------------------------
(* The rotation of a DKIM key *)

(* What the row, the zone and the requests hold. *)
RotationType ==
  /\ row \in [key : Nat, selector : Selectors, pkey : Nat, pselector : Selectors \cup {NoSelector}]
  /\ dns \in [Selectors -> Nat]
  /\ req \in [Requests -> [op : {"none", "rotate", "verify"},
                           pc : {"done", "write", "lookup", "promote"},
                           selector : Selectors \cup {NoSelector}, key : Nat]]
  /\ lastKey \in Nat
  /\ raced \in BOOLEAN

(* Where a request is, and which it is. *)
RequestsInOrder ==
  \A r \in Requests :
    /\ req[r].op = "rotate" <=> req[r].pc = "write"
    /\ req[r].op = "verify" <=> req[r].pc \in {"lookup", "promote"}
    /\ req[r].pc # "done" => req[r].key # NoKey /\ req[r].selector # NoSelector
    /\ req[r].key <= lastKey

(* A key that is still to be saved is nowhere else: a pending key that was replaced
   never returns. *)
KeysAreFresh ==
  \A r \in Requests : req[r].pc = "write" =>
    /\ row.pkey # req[r].key
    /\ \A q \in Requests : q # r => req[q].key # req[r].key

(* What a verify has read and found belongs to the pending key as long as it is that. *)
FoundIsPublished ==
  \A r \in Requests : req[r].pc \in {"lookup", "promote"} /\ row.pkey = req[r].key =>
    /\ row.pselector = req[r].selector
    /\ req[r].pc = "promote" => dns[req[r].selector] = req[r].key

(* The inductive invariant of a rotation. *)
RotationInv ==
  /\ RotationType
  /\ RequestsInOrder
  /\ KeysAreFresh
  /\ FoundIsPublished
  /\ row.pselector = NoSelector <=> row.pkey = NoKey
  /\ row.pkey <= lastKey
  /\ SignaturesVerify
  /\ PendingElsewhere

(* The first key is published before the first rotation. *)
LEMMA RotationStarts == RotationInit => RotationInv
  <1> SUFFICES ASSUME RotationInit PROVE RotationInv
    OBVIOUS
  <1> USE DEF RotationInit, NoKey, NoSelector, Selectors, NoRequest
  <1>1. RotationType
    BY DEF RotationType
  <1>2. RequestsInOrder /\ KeysAreFresh /\ FoundIsPublished
    BY DEF RequestsInOrder, KeysAreFresh, FoundIsPublished
  <1>3. SignaturesVerify /\ PendingElsewhere
    BY DEF SignaturesVerify, PendingElsewhere
  <1>4. QED
    BY <1>1, <1>2, <1>3 DEF RotationInv

(* Every step of a request keeps the invariant, whatever other requests are under way. *)
LEMMA RotationStep == RotationInv /\ [RotationNext]_rotationVars => RotationInv'
  <1> SUFFICES ASSUME RotationInv, [RotationNext]_rotationVars PROVE RotationInv'
    OBVIOUS
  <1> USE DEF RotationInv, RotationType, RequestsInOrder, KeysAreFresh, FoundIsPublished,
              SignaturesVerify, PendingElsewhere, NoKey, NoSelector, Selectors, NoRequest, Idle
  <1>1. ASSUME NEW r \in Requests, RotateRead(r) PROVE RotationInv'
    BY <1>1 DEF RotateRead, Goes, NextSelector
  <1>2. ASSUME NEW r \in Requests, RotateWrite(r) PROVE RotationInv'
    <2>1. row'.key = row.key /\ row'.selector = row.selector /\ UNCHANGED <<dns, lastKey>>
      BY <1>2 DEF RotateWrite, UpdatePending
    <2>2. row'.pkey = req[r].key /\ row'.pselector = req[r].selector
      BY <1>2 DEF RotateWrite, UpdatePending
    <2>3. row' \in [key : Nat, selector : Selectors, pkey : Nat, pselector : Selectors \cup {NoSelector}]
      BY <1>2 DEF RotateWrite, UpdatePending
    <2>4. /\ req' \in [Requests -> [op : {"none", "rotate", "verify"},
                           pc : {"done", "write", "lookup", "promote"},
                           selector : Selectors \cup {NoSelector}, key : Nat]]
          /\ \A q \in Requests : req'[q] = IF q = r THEN NoRequest ELSE req[q]
      BY <1>2 DEF RotateWrite, Done
    <2>5. raced' \in BOOLEAN /\ (~raced' => ~raced /\ req[r].selector = NextSelector(row.selector))
      BY <1>2 DEF RotateWrite
    <2>6. /\ req[r].pc = "write" /\ req[r].key # NoKey /\ req[r].selector # NoSelector
          /\ \A q \in Requests : q # r => req[q].key # req[r].key
      BY <1>2 DEF RotateWrite
    <2>. QED BY <2>1, <2>2, <2>3, <2>4, <2>5, <2>6 DEF NextSelector
  <1>3. ASSUME NEW r \in Requests, VerifyRead(r) PROVE RotationInv'
    BY <1>3 DEF VerifyRead, Goes
  <1>4. ASSUME NEW r \in Requests, VerifyLookup(r) PROVE RotationInv'
    BY <1>4 DEF VerifyLookup, RecordMatches, Done
  <1>5. ASSUME NEW r \in Requests, VerifyPromote(r) PROVE RotationInv'
    <2>1. /\ row' \in [key : Nat, selector : Selectors, pkey : Nat, pselector : Selectors \cup {NoSelector}]
          /\ row'.pkey = NoKey /\ row'.pselector = NoSelector /\ row'.key = row.pkey
          /\ row'.selector = IF row.pselector = NoSelector THEN row.selector ELSE row.pselector
      BY <1>5 DEF VerifyPromote, PromotePending
    <2>2. /\ req' \in [Requests -> [op : {"none", "rotate", "verify"},
                           pc : {"done", "write", "lookup", "promote"},
                           selector : Selectors \cup {NoSelector}, key : Nat]]
          /\ \A q \in Requests : req'[q] = IF q = r THEN NoRequest ELSE req[q]
          /\ UNCHANGED <<dns, lastKey>>
      BY <1>5 DEF VerifyPromote, Done
    <2>3. raced' \in BOOLEAN /\ (~raced' => ~raced /\ row.pkey = req[r].key)
      BY <1>5 DEF VerifyPromote
    <2>4. req[r].pc = "promote" /\ req[r].key # NoKey /\ req[r].selector # NoSelector
      BY <1>5 DEF VerifyPromote
    <2>. QED BY <2>1, <2>2, <2>3, <2>4
  <1>6. ASSUME NEW r \in Requests, Cancel(r) PROVE RotationInv'
    <2>1. /\ row' \in [key : Nat, selector : Selectors, pkey : Nat, pselector : Selectors \cup {NoSelector}]
          /\ row'.pkey = NoKey /\ row'.pselector = NoSelector
          /\ row'.key = row.key /\ row'.selector = row.selector
      BY <1>6 DEF Cancel, ClearPending, UpdatePending
    <2>2. UNCHANGED <<dns, req, lastKey, raced>>
      BY <1>6 DEF Cancel
    <2>3. QED
      BY <2>1, <2>2
  <1>7. CASE Publish
    <2>1. /\ row.pselector \in Selectors /\ row.pkey \in Nat /\ UNCHANGED <<row, req, lastKey, raced>>
          /\ dns' \in [Selectors -> Nat]
          /\ \A s \in Selectors : dns'[s] = IF s = row.pselector THEN row.pkey ELSE dns[s]
      BY <1>7 DEF Publish
    <2>2. SignaturesVerify'
      BY <2>1
    <2>3. FoundIsPublished'
      BY <2>1
    <2>4. QED
      BY <2>1, <2>2, <2>3
  <1>8. CASE UNCHANGED rotationVars
    BY <1>8 DEF rotationVars
  <1>9. QED
    BY <1>1, <1>2, <1>3, <1>4, <1>5, <1>6, <1>7, <1>8 DEF RotationNext

(* RotationInv holds throughout every behaviour, for any number of requests at once. *)
LEMMA RotationInvariance == RotationSpec => []RotationInv
  BY RotationStarts, RotationStep, PTL DEF RotationSpec

(* For any number of overlapping requests: until a handler writes what no longer fits the
   row, the active key is published under the active selector.  That a verify promotes
   what it found needs only that the pending key is the one it read: a replaced key does
   not return, so the record is still the one the lookup saw. *)
THEOREM RotationKeepsSignatures == RotationSpec => []SignaturesVerify
  <1>1. RotationInv => SignaturesVerify
    BY DEF RotationInv
  <1>2. QED
    BY <1>1, RotationInvariance, PTL

(* Nor does publishing the pending key ever overwrite the active key's record. *)
THEOREM RotationUsesOtherSelector == RotationSpec => []PendingElsewhere
  <1>1. RotationInv => PendingElsewhere
    BY DEF RotationInv
  <1>2. QED
    BY <1>1, RotationInvariance, PTL
=============================================================================
