---------------------------- MODULE DkimRotation ----------------------------
(***************************************************************************)
(* Rotation of a domain's DKIM key: the handlers rotate, verify and cancel *)
(* of web/dkim.rs over the domain's row, the DNS zone the administrator    *)
(* edits, and the signer that uses whatever key is active.  A handler      *)
(* reads the row first and writes it in a later statement; verify waits    *)
(* for a DNS answer in between.                                            *)
(***************************************************************************)
EXTENDS Naturals, FiniteSets

CONSTANTS
  Requests,  \* handler invocations that may overlap
  MaxKeys    \* bound: keys generated in one behaviour

ASSUME RotationAssumption == MaxKeys \in Nat

VARIABLES
  row,      \* the domain's row: active and pending key and selector
  dns,      \* selector -> the key its TXT record holds
  req,      \* each request: what it does, where it is and the row it read
  lastKey,  \* the last key generated
  raced     \* auxiliary: a handler wrote what no longer fitted the row it had read

rotationVars == <<row, dns, req, lastKey, raced>>

NoKey == 0
NoSelector == "null"
Selectors == {"maileroo", "maileroo2"}
Keys == 1..(MaxKeys + 1)

NoRequest == [op |-> "none", pc |-> "done", selector |-> NoSelector, key |-> NoKey]

-----------------------------------------------------------------------------
(* Statements on the row *)

UpdatePending(key, selector) ==
  row' = [row EXCEPT !.pkey = key, !.pselector = selector]

(* UPDATE ... SET dkim_private_key = pending_dkim_private_key, ...: unconditional;
   only the selector is COALESCEd. *)
PromotePending ==
  row' = [key       |-> row.pkey,
          selector  |-> IF row.pselector = NoSelector THEN row.selector ELSE row.pselector,
          pkey      |-> NoKey,
          pselector |-> NoSelector]

ClearPending == UpdatePending(NoKey, NoSelector)

SameSelector(selector) == selector
NextSelector(selector) == IF selector = "maileroo" THEN "maileroo2" ELSE "maileroo"

(* check_dkim_record: the record at the selector holds the key that was read. *)
RecordPresent(selector, key) == dns[selector] # NoKey
RecordMatches(selector, key) == dns[selector] = key

-----------------------------------------------------------------------------
(* Handlers *)

Idle(r) == req[r].pc = "done"

Goes(r, op, pc, selector, key) ==
  req' = [req EXCEPT ![r] = [op |-> op, pc |-> pc, selector |-> selector, key |-> key]]

Done(r) == req' = [req EXCEPT ![r] = NoRequest]

(* rotate_dkim_handler: choose the other selector, generate a key, save as pending *)
RotateRead(r) ==
  /\ Idle(r) /\ lastKey <= MaxKeys
  /\ lastKey' = lastKey + 1
  /\ Goes(r, "rotate", "write", NextSelector(row.selector), lastKey')
  /\ UNCHANGED <<row, dns, raced>>

RotateWrite(r) ==
  /\ req[r].op = "rotate" /\ req[r].pc = "write"
  /\ UpdatePending(req[r].key, req[r].selector)
  /\ raced' = (raced \/ req[r].selector # NextSelector(row.selector))
  /\ Done(r)
  /\ UNCHANGED <<dns, lastKey>>

(* verify_dkim_handler: nothing to do without a pending key *)
VerifyRead(r) ==
  /\ Idle(r)
  /\ row.pselector # NoSelector /\ row.pkey # NoKey
  /\ Goes(r, "verify", "lookup", row.pselector, row.pkey)
  /\ UNCHANGED <<row, dns, lastKey, raced>>

VerifyLookup(r) ==
  /\ req[r].op = "verify" /\ req[r].pc = "lookup"
  /\ \/ RecordMatches(req[r].selector, req[r].key)
          /\ req' = [req EXCEPT ![r].pc = "promote"]
     \/ Done(r)   \* no matching record, or the lookup failed
  /\ UNCHANGED <<row, dns, lastKey, raced>>

VerifyPromote(r) ==
  /\ req[r].op = "verify" /\ req[r].pc = "promote"
  /\ PromotePending
  /\ raced' = (raced \/ row.pkey # req[r].key)
  /\ Done(r)
  /\ UNCHANGED <<dns, lastKey>>

(* cancel_dkim_rotation_handler: its first read is only for the answer *)
Cancel(r) ==
  /\ Idle(r)
  /\ ClearPending
  /\ UNCHANGED <<dns, req, lastKey, raced>>

(* The administrator publishes the pending key the dialog shows (external). *)
Publish ==
  /\ row.pselector # NoSelector
  /\ dns' = [dns EXCEPT ![row.pselector] = row.pkey]
  /\ UNCHANGED <<row, req, lastKey, raced>>

-----------------------------------------------------------------------------
(* insert_domain made key 1 under selector maileroo, and it has been published. *)
RotationInit ==
  /\ row = [key |-> 1, selector |-> "maileroo", pkey |-> NoKey, pselector |-> NoSelector]
  /\ dns = [s \in Selectors |-> IF s = "maileroo" THEN 1 ELSE NoKey]
  /\ req = [r \in Requests |-> NoRequest]
  /\ lastKey = 1 /\ raced = FALSE

RotationNext ==
  \/ \E r \in Requests : \/ RotateRead(r) \/ RotateWrite(r)
                         \/ VerifyRead(r) \/ VerifyLookup(r) \/ VerifyPromote(r)
                         \/ Cancel(r)
  \/ Publish

RotationSpec == RotationInit /\ [][RotationNext]_rotationVars

-----------------------------------------------------------------------------
(* Properties *)

(* However rotate, verify, cancel and the administrator's edits of the zone interleave,
   the active key is the one receivers find under the active selector, so every
   signature verifies during a rotation too.  Only two overlaps break this: a rotate
   that saves a selector chosen before another request promoted a key, and a verify that
   promotes when the key it found in the zone is no longer the pending one.  *)
SignaturesVerify == ~raced => row.key # NoKey /\ dns[row.selector] = row.key

(* Before one of those two overlaps, publishing the pending key never touches the active
   key's record, whatever a verify has promoted meanwhile.  *)
PendingElsewhere == ~raced => row.pselector # row.selector

(* "Rotate DKIM selectors and keys dynamically with zero downtime": there is always
   an active key to sign with, whatever overlaps.  *)
ZeroDowntime == row.key # NoKey
=============================================================================
