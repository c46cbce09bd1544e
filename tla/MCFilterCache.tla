---------------------------- MODULE MCFilterCache ----------------------------
(* Two rules with a label each, two overlapping edit requests and three mails. *)
EXTENDS FilterCache

CONSTANTS rule1, rule2, label1, label2

MCLabelOf == [rule \in Rules |-> IF rule = rule1 THEN label1 ELSE label2]
=============================================================================
