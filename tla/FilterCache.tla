----------------------------- MODULE FilterCache -----------------------------
(***************************************************************************)
(* One user's filter rules: the handlers of web/labels.rs that change them *)
(* and then invalidate the cache, and the FilterEngine that labels         *)
(* incoming mail by the cached rules, or reads and caches them on a miss.  *)
(* The compiled automaton is abstracted to the set of rules it was built   *)
(* from: matching a mail against it changes nothing here.                  *)
(***************************************************************************)
EXTENDS FiniteSets

CONSTANTS
  Rules,     \* (keyword, label) pairs
  Labels,    \* labels
  LabelOf,   \* the label each rule assigns
  Mails,     \* incoming mails
  Edits      \* edit requests that may overlap

ASSUME FilterAssumption == LabelOf \in [Rules -> Labels]

VARIABLES
  rules,    \* table email_filters
  cache,    \* FilterEngine.cache of the user: a set of rules, or NoCache
  edit,     \* each edit request: idle, or between a statement and invalidate
  mail,     \* each mail: where its evaluate is, and the rules it works with
  exposed   \* auxiliary: an edit was made while a mail held rules it had read

vars == <<rules, cache, edit, mail, exposed>>

NoCache == [cached |-> FALSE, rules |-> {}]
Cached(rs) == [cached |-> TRUE, rules |-> rs]

Reading == {m \in Mails : mail[m].pc = "compile"}

-----------------------------------------------------------------------------
(* The handlers: statements on the tables, and after them invalidate, also when a
   statement failed.  create_filter_handler inserts a rule for each keyword it was
   given; delete_label takes its rules with it (ON DELETE CASCADE). *)

Change(e, rs, pc) ==
  /\ rules' \in {rs, rules}
  /\ edit' = [edit EXCEPT ![e] = pc]
  /\ exposed' = (exposed \/ Reading # {})
  /\ UNCHANGED <<cache, mail>>

CreateFilter(e, rule) ==
  edit[e] \in {"idle", "creating"} /\ Change(e, rules \cup {rule}, "creating")

DeleteFilter(e, rule) == edit[e] = "idle" /\ Change(e, rules \ {rule}, "deleted")

DeleteLabel(e, label) ==
  edit[e] = "idle" /\ Change(e, {rule \in rules : LabelOf[rule] # label}, "deleted")

InvalidateNothing(e) ==
  /\ edit[e] \in {"creating", "deleted"}
  /\ edit' = [edit EXCEPT ![e] = "idle"]
  /\ exposed' = (Reading # {})
  /\ UNCHANGED <<rules, cache, mail>>
Invalidate(e) ==
  /\ edit[e] \in {"creating", "deleted"}
  /\ cache' = NoCache
  /\ edit' = [edit EXCEPT ![e] = "idle"]
  /\ exposed' = (Reading # {})
  /\ UNCHANGED <<rules, mail>>

-----------------------------------------------------------------------------
(* evaluate, called for every mail that was stored *)

MailGoes(m, pc, rs) == mail' = [mail EXCEPT ![m] = [pc |-> pc, rules |-> rs]]

(* get_or_compile: a hit, or get_filters_for_engine; a failed query labels nothing *)
Lookup(m) ==
  /\ mail[m].pc = "new"
  /\ \/ cache.cached /\ MailGoes(m, "done", cache.rules)
     \/ ~cache.cached /\ MailGoes(m, "compile", rules)
     \/ ~cache.cached /\ MailGoes(m, "done", {})
  /\ UNCHANGED <<rules, cache, edit, exposed>>

(* The rules that were read go into the cache, whatever happened since. *)
CacheRules(m) ==
  /\ mail[m].pc = "compile"
  /\ cache' = Cached(mail[m].rules)
  /\ MailGoes(m, "done", mail[m].rules)
  /\ UNCHANGED <<rules, edit, exposed>>

-----------------------------------------------------------------------------
Init ==
  /\ rules \in SUBSET Rules
  /\ cache = NoCache
  /\ edit = [e \in Edits |-> "idle"]
  /\ mail = [m \in Mails |-> [pc |-> "new", rules |-> {}]]
  /\ exposed = FALSE

Next ==
  \/ \E e \in Edits, rule \in Rules : CreateFilter(e, rule) \/ DeleteFilter(e, rule)
  \/ \E e \in Edits, label \in Labels : DeleteLabel(e, label)
  \/ \E e \in Edits : Invalidate(e)
  \/ \E m \in Mails : Lookup(m) \/ CacheRules(m)

Spec == Init /\ [][Next]_vars

-----------------------------------------------------------------------------
(* Properties *)

Quiet == \A e \in Edits : edit[e] = "idle"

(* Outside the one window in which a mail holds rules it read before an edit, the
   cache is empty or holds exactly the user's rules once the edits are through;
   overlapping edits and mails that hit the cache do not spoil it.  *)
CacheIsCurrent == Quiet /\ ~exposed => cache = NoCache \/ cache = Cached(rules)

(* "Invalidates cached rules for a user when they add, update, or remove rules":
   when no edit and no compilation is under way, no other rules are cached.  *)
InvalidationHolds ==
  Quiet /\ Reading = {} => cache = NoCache \/ cache = Cached(rules)
=============================================================================
