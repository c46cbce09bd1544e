---------------------------- MODULE SmtpDialogue ----------------------------
(***************************************************************************)
(* One delivery attempt (send_raw_inner): the SMTP dialogue with the       *)
(* recipient's MX, or with the configured relay (send_via_relay), and the  *)
(* classification of its error (is_permanent_delivery_error).              *)
(*                                                                         *)
(* The remote server is external: it answers every command with some reply *)
(* code, or the connection breaks.  An error is kept as what the           *)
(* classification can see of its text.                                     *)
(***************************************************************************)
EXTENDS Naturals, Sequences

CONSTANTS
  Recipients,  \* kinds of envelope: "plain", "digits" (550 occurs in an address),
               \* "newline" (in the recipient), "nodomain" (recipient without one)
  Codes        \* reply codes the remote server uses for refusals

ASSUME DialogueAssumption ==
  /\ Recipients \subseteq {"plain", "digits", "newline", "nodomain"}
  /\ Codes \subseteq 400..599

VARIABLES
  config,    \* relay or MX, relay credentials set, allow_plaintext_auth
  to,        \* the kind of envelope
  phase,     \* the command whose reply is awaited, or "end"
  tls,       \* the stream is encrypted
  offered,   \* the server advertised STARTTLS in its EHLO reply
  authOver,  \* how AUTH PLAIN went out: "none", "plain" or "tls"
  accepted,  \* the remote server has taken the message
  result,    \* "none", "ok", "permanent" or "transient"
  failed,    \* auxiliary: the phase that failed
  reply      \* auxiliary: the refusing reply code, 0 for none

vars == <<config, to, phase, tls, offered, authOver, accepted, result, failed, reply>>

-----------------------------------------------------------------------------
(* is_permanent_delivery_error looks for these in the error text: in the reply code,
   in the rest of the reply, and in the command with its address. *)

PermanentCodes == {550, 554, 552, 501}

(* the error names the command, and with it an address *)
NamesAddress(p) == p \in {"lookup", "mail", "rcpt"}

(* a refusal: SMTP Error for command '...': code text *)
IsPermanentReply(p, code, textHasCode) ==
  code \in PermanentCodes \/ textHasCode \/ (to = "digits" /\ NamesAddress(p))

End(p, r, code) ==
  /\ phase' = "end" /\ result' = r /\ failed' = p /\ reply' = code

(* A resolver, connection or TLS error; only resolver errors name the domain. *)
Broken(p) ==
  End(p, IF to = "digits" /\ p = "lookup" THEN "permanent" ELSE "transient", 0)

Refused(p) ==
  \E code \in Codes, textHasCode \in BOOLEAN :
    End(p, IF IsPermanentReply(p, code, textHasCode) THEN "permanent" ELSE "transient", code)

(* "Command contains invalid characters", "Invalid recipient email address" *)
Malformed(p) == End(p, "permanent", 0)

-----------------------------------------------------------------------------
(* The order of the dialogue.  The relay has no lookup; AUTH comes only there. *)

AfterEhlo == IF config.relay /\ config.credentials THEN "auth" ELSE "mail"

Following(p) ==
  CASE p = "lookup"    -> "connect"
    [] p = "connect"   -> "greeting"
    [] p = "greeting"  -> "ehlo"
    [] p = "starttls"  -> "handshake"
    [] p = "handshake" -> "ehlo2"
    [] p = "ehlo2"     -> AfterEhlo
    [] p = "auth"      -> "mail"
    [] p = "mail"      -> "rcpt"
    [] p = "rcpt"      -> "data"
    [] p = "data"      -> "dot"
    [] p = "dot"       -> "quit"

Quiet == UNCHANGED <<config, to, tls, offered, authOver, accepted>>

(* Steps that end in a connection rather than in a reply; the greeting is read and
   its code ignored. *)
Unanswered == {"lookup", "connect", "greeting", "handshake"}

Proceed ==
  /\ phase \in Unanswered
  /\ ~(phase = "lookup" /\ to = "nodomain")
  /\ phase' = Following(phase)
  /\ tls' = (tls \/ phase = "handshake")
  /\ UNCHANGED <<config, to, offered, authOver, accepted, result, failed, reply>>

(* send_cmd got a 2xx or 3xx reply.  The reply to the dot means the server has
   taken the message. *)
EhloReplied ==
  /\ phase = "ehlo"
  /\ offered' \in BOOLEAN
  /\ phase' = IF offered' THEN "starttls" ELSE AfterEhlo
  /\ UNCHANGED <<config, to, tls, authOver, accepted, result, failed, reply>>

DotUnchecked ==
  /\ phase \in {"starttls", "ehlo2", "mail", "rcpt", "data", "dot"}
  /\ ~(phase = "rcpt" /\ to = "newline")
  /\ phase' = Following(phase)
  /\ accepted' \in {accepted, accepted \/ phase = "dot"}
  /\ UNCHANGED <<config, to, tls, offered, authOver, result, failed, reply>>
CommandReplied ==
  /\ phase \in {"starttls", "ehlo2", "mail", "rcpt", "data", "dot"}
  /\ ~(phase = "rcpt" /\ to = "newline")
  /\ phase' = Following(phase)
  /\ accepted' = (accepted \/ phase = "dot")
  /\ UNCHANGED <<config, to, tls, offered, authOver, result, failed, reply>>

(* check_relay_auth_security *)
AuthAlways == TRUE
AuthPermitted == ~config.credentials \/ offered \/ config.plaintext

(* how the credentials have gone out once the awaited command is written *)
AuthOver == IF phase = "auth" /\ AuthPermitted THEN (IF tls THEN "tls" ELSE "plain") ELSE authOver

AuthReplied ==
  /\ phase = "auth" /\ AuthPermitted
  /\ authOver' = AuthOver
  /\ phase' = "mail"
  /\ UNCHANGED <<config, to, tls, offered, accepted, result, failed, reply>>

AuthWithheld ==
  /\ phase = "auth" /\ ~AuthPermitted
  /\ End("auth", "transient", 0)
  /\ Quiet

QuitReplied ==
  /\ phase = "quit"
  /\ phase' = "end" /\ result' = "ok"
  /\ UNCHANGED <<failed, reply>>
  /\ Quiet

(* send_cmd got any other reply *)
CommandRefused ==
  /\ phase \notin Unanswered \cup {"end"}
  /\ phase = "auth" => AuthPermitted
  /\ authOver' = AuthOver
  /\ Refused(phase)
  /\ UNCHANGED <<config, to, tls, offered, accepted>>

(* The connection breaks before or after the command is written; at the dot the server
   may have taken the message. *)
ConnectionBreaks ==
  /\ phase # "end"
  /\ ~(phase = "lookup" /\ to = "nodomain")
  /\ Broken(phase)
  /\ accepted' \in {accepted, accepted \/ phase = "dot"}
  /\ authOver' \in {authOver, AuthOver}
  /\ UNCHANGED <<config, to, tls, offered>>

(* The recipient has no domain, or a line break that send_cmd refuses to send. *)
AddressRejected ==
  /\ (phase = "lookup" /\ to = "nodomain") \/ (phase = "rcpt" /\ to = "newline")
  /\ Malformed(phase)
  /\ Quiet

-----------------------------------------------------------------------------
Init ==
  /\ config \in [relay : BOOLEAN, credentials : BOOLEAN, plaintext : BOOLEAN]
  /\ to \in Recipients
  /\ phase = IF config.relay THEN "connect" ELSE "lookup"
  /\ tls = FALSE /\ offered = FALSE /\ authOver = "none"
  /\ accepted = FALSE /\ result = "none" /\ failed = "none" /\ reply = 0

Next ==
  \/ Proceed \/ EhloReplied \/ CommandReplied \/ AuthReplied \/ AuthWithheld \/ QuitReplied
  \/ CommandRefused \/ ConnectionBreaks \/ AddressRejected

Spec == Init /\ [][Next]_vars

-----------------------------------------------------------------------------
(* Properties *)

(* send_raw_inner answers Ok only when the remote server has taken the message:
   this is what the queue relies on when it deletes a job.  A message the server has
   taken is reported as failed only when the reply to the final dot was lost or
   something went wrong at QUIT: those are the deliveries a retry repeats.  *)
ResultMatchesServer ==
  /\ result = "ok" => accepted
  /\ accepted /\ result \in {"permanent", "transient"} => failed \in {"dot", "quit"}

(* The relay password leaves the host only over TLS unless the configuration allows
   plaintext, also when the relay stops in the middle of an upgrade.  *)
CredentialsProtected ==
  /\ authOver = "plain" => config.plaintext
  /\ offered /\ phase \in {"auth", "mail", "rcpt", "data", "dot", "quit"} => tls

Hard(code) == code >= 500

(* "everything else is transient (connection resets, timeouts, TLS errors, 4xx
   greylisting, DNS, etc.)" *)
SoftFailuresAreRetried ==
  result = "permanent" => Hard(reply) \/ to \in {"newline", "nodomain"}

(* "Permanent = hard 5xx and malformed-input conditions" *)
HardFailuresAreFinal == result = "transient" => ~Hard(reply)
=============================================================================
