----------------------------- MODULE MCMailStore -----------------------------
(* An instance of MailStore: an administrator and a user with an alias each.  The second
   mail answers the first; the third answers a reply of the administrator and came to
   the user. *)
EXTENDS MailStore, TLC

CONSTANTS m1, m2, m3, p1, a1, a2, q1, q2, admin, user

MCUserOf == (a1 :> admin) @@ (a2 :> user)
MCAliasOf == (m1 :> a1) @@ (m2 :> a1) @@ (m3 :> a2)
MCAuthor == p1 :> admin
MCRefs == (m1 :> {}) @@ (m2 :> {m1}) @@ (m3 :> {p1})
RequestSymmetry == Permutations(Requests)
=============================================================================
