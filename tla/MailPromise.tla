---------------------------- MODULE MailPromise ----------------------------
(***************************************************************************)
(* What the outbound side promises about one message handed to send_raw,   *)
(* whatever tables, files and daemons it uses for it.                      *)
(***************************************************************************)
EXTENDS Naturals

CONSTANT Messages

VARIABLES
  fate,  \* what has become of each message
  wire   \* how often a remote server has taken it

promiseVars == <<fate, wire>>

Open == {"submitted", "queued"}
Fates == Open \cup {"delivered", "failed", "refused"}

(* Fates only move forward; the last three are final. *)
MayBecome(f) ==
  CASE f = "submitted" -> {"submitted", "queued", "delivered", "refused"}
    [] f = "queued"    -> {"queued", "delivered", "failed"}
    [] OTHER           -> {f}

Init ==
  /\ fate = [m \in Messages |-> "submitted"]
  /\ wire = [m \in Messages |-> 0]

(* Only an open message is transmitted, at most once in a step, and only a message
   some remote server took is reported delivered. *)
Progress(m) ==
  /\ fate[m] \in Open
  /\ \E f \in MayBecome(fate[m]), k \in {0, 1} :
       /\ fate' = [fate EXCEPT ![m] = f]
       /\ wire' = [wire EXCEPT ![m] = @ + k]
       /\ f = "delivered" => wire[m] + k > 0

(* A process that dies ends several sends at once, and tells nobody. *)
Abandon ==
  /\ fate' \in [Messages -> Fates]
  /\ \A m \in Messages :
       fate'[m] = fate[m] \/ (fate[m] = "submitted" /\ fate'[m] \in {"refused", "delivered"}
                                /\ (fate'[m] = "delivered" => wire[m] > 0))
  /\ UNCHANGED wire

Next == (\E m \in Messages : Progress(m)) \/ Abandon

Spec == Init /\ [][Next]_promiseVars
=============================================================================
