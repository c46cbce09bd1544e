---------------------------- MODULE MCAlgorithms ----------------------------
(* The inputs on which TLC compares the algorithms with their references.              *)
EXTENDS Algorithms

Row(kind, starred, hits) == [kind |-> kind, starred |-> starred, hits |-> hits]

\* Every kind of row, with and without a star, inside and outside the filters.
MCMail ==
  { Row("root", FALSE, {"alias"}), Row("root", TRUE, {"alias", "label"}),
    Row("child", TRUE, {"alias", "label"}), Row("draft", TRUE, {"alias"}),
    Row("sending", TRUE, {}), Row("sent", FALSE, {"alias"}), Row("failed", TRUE, {"alias"}) }

MCViews ==
  { [folder |-> f, active |-> a] :
      f \in {"inbox", "sent", "drafts", "favorites"}, a \in {{}, {"alias", "label"}} }

MCChunks == { <<>>, <<1>>, <<2>>, <<1, 1>>, <<1, 2>> }

MCPartTypes == { [main |-> "image", sub |-> "png"], [main |-> "image", sub |-> "none"],
                 [main |-> "application", sub |-> "pdf"] }

MCSrsDays == (0..2) \cup (1000..1023) \cup {2047, 20000}

\* The bits of a number.
Bits(a) == [i \in 1..Width |-> (a \div 2^(Width - i)) % 2]
Block(a, p) == [family |-> "ip4", addr |-> Bits(a), prefix |-> p]
Ip(b) == [kind |-> "ip4", block |-> b, pass |-> TRUE]
Include(d) == [kind |-> "include", domain |-> d, pass |-> TRUE]

\* Three domains: records that list or deny addresses, name one another or themselves,
\* fail, are empty or hold only what is left out.
Domains == {"d1", "d2", "d3"}
MCTerms ==
  { <<[kind |-> "mx", pass |-> TRUE]>>, <<Ip(Block(6, 2))>>, <<Ip(Block(5, 9))>>,
    <<[Ip(Block(7, 3)) EXCEPT !.pass = FALSE], Ip(Block(5, 3))>>,
    <<[kind |-> "ip6", block |-> [family |-> "ip6", addr |-> Bits(5), prefix |-> 0],
       pass |-> TRUE]>> }
  \cup { <<Include(d)>> : d \in Domains }
  \cup { <<Include(d), Ip(Block(0, 1)), Include(e)>> : d \in Domains, e \in Domains }
MCZones == [Domains -> {[found |-> FALSE, terms |-> <<>>]}
                         \cup {[found |-> TRUE, terms |-> t] : t \in MCTerms}]
MCClients == { [family |-> f, addr |-> Bits(a)] : f \in {"ip4", "ip6"}, a \in {5, 7} }

Rule(k, l) == [keyword |-> k, label |-> l]
MCKeywords == { <<>>, <<" ">>, <<"a">>, <<" ", "b">>, <<"a", "b">>, <<"b", "a">> }
MCRuleSets == { [i \in 1..n |-> Rule(k[i], i)] :
                  n \in 0..2, k \in [1..2 -> MCKeywords] }

=============================================================================
