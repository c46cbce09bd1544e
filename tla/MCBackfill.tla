----------------------------- MODULE MCBackfill -----------------------------
(* An instance of Backfill: one user with two mails and a third on its way, and a
   second user without mail. *)
EXTENDS Backfill

CONSTANTS t1, t2, m1, m2, m3, k1, l1, l2

MCOwner == [m \in Emails |-> t1]
MCOrder == {<<m1, m2>>}
MCForms == [t \in Tenants |->
  {<<[tenant |-> t, keyword |-> k1, label |-> IF t = t1 THEN l1 ELSE l2]>>}]
=============================================================================
