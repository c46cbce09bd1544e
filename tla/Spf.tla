-------------------------------- MODULE Spf --------------------------------
(* The sender policy of a domain (dns.rs): the records it includes are fetched one by   *)
(* one until one of them lists the client's address.                                    *)
(* A zone maps a domain to whether its record is found, and the terms of the record.    *)
EXTENDS Naturals, Sequences, FiniteSets, SequencesExt, SequenceFolds

CONSTANTS
  Zones,          \* what the name servers may hold
  Clients,        \* the clients that are checked: [family, addr]
  Width,          \* bits of an address, 32 or 128 in the code
  SpfMaxLookups   \* records fetched for one check, 10 in the code

\* An address is its bits, the first one most significant.
Address == [1..Width -> 0..1]

Families == {"ip4", "ip6"}
Blocks == [family : Families, addr : Address, prefix : Nat]

\* Every domain that a record names is in the zone, found or not.
IsTerm(zone, t) ==
  /\ t.pass \in BOOLEAN    \* its qualifier is + or left out
  /\ t.kind \in Families => t.block \in Blocks
  /\ t.kind \in {"include", "redirect"} => t.domain \in DOMAIN zone

ASSUME SpfAssumption ==
  /\ Width \in Nat \ {0} /\ SpfMaxLookups \in Nat \ {0}
  /\ Clients \subseteq [family : Families, addr : Address]
  /\ \A zone \in Zones : \A d \in DOMAIN zone :
       /\ zone[d].found \in BOOLEAN
       /\ zone[d].terms \in Seq(ToSet(zone[d].terms))
       /\ \A t \in ToSet(zone[d].terms) : IsTerm(zone, t)

VARIABLE check    \* the check under way: check_spf_for_domain between two lookups

----------------------------------------------------------------------------
Followed == {"ip4", "ip6", "include", "redirect"}

\* A qualifier is taken off whatever it says; the other mechanisms are left out.
parse_spf_record(terms) == Keep(terms, {t \in ToSet(terms) : t.kind \in Followed})

\* The mask has ones for the bits of the prefix and zeros for the others.
match_ip_cidr(ip, block) ==
  LET prefix == IF block.prefix < Width THEN block.prefix ELSE Width
      Masked(addr) == [i \in 1..Width |-> IF i <= prefix THEN addr[i] ELSE 0]
  IN  /\ ip.family = block.family
      /\ \/ prefix = 0
         \/ prefix = Width /\ ip.addr = block.addr
         \/ prefix \in 1..(Width - 1) /\ Masked(ip.addr) = Masked(block.addr)

Hit(directives, ip) ==
  \E i \in DOMAIN directives :
    /\ directives[i].kind = ip.family
    /\ match_ip_cidr(ip, directives[i].block)

Pushed(directives) ==
  LET d == Keep(directives, {t \in ToSet(directives) : t.kind \in {"include", "redirect"}})
  IN  [i \in DOMAIN d |-> d[i].domain]

----------------------------------------------------------------------------
(* The loop of check_spf_for_domain: the stack of domains to check, those checked, and   *)
(* how many records were fetched.                                                      *)

NoCheck == [answer |-> "unasked"]

SpfInit == check = NoCheck

Begin(zone, domain, ip) ==
  check' = [zone |-> zone, domain |-> domain, ip |-> ip, stack |-> <<domain>>,
            checked |-> {}, depth |-> 0, answer |-> "pending"]

Current == Last(check.stack)

\* The domain popped and counted, and fetched again each time it is named.
VisitedUnmarked == [check EXCEPT !.stack = Front(@), !.depth = @ + 1]

\* The domain is popped, marked and counted.
Visited ==
  [check EXCEPT !.stack = Front(@), !.checked = @ \cup {Current}, !.depth = @ + 1]

Pending == check.answer = "pending" /\ check.stack # <<>>
Unvisited == Pending /\ Current \notin check.checked

SkipVisited ==
  /\ Pending /\ Current \in check.checked
  /\ check' = [check EXCEPT !.stack = Front(@)]

GiveUp ==
  /\ Unvisited /\ check.depth + 1 > SpfMaxLookups
  /\ check' = [Visited EXCEPT !.answer = "fail"]

LookupFails ==
  /\ Unvisited /\ check.depth < SpfMaxLookups /\ ~check.zone[Current].found
  /\ check' = Visited

LookupAnswers ==
  /\ Unvisited /\ check.depth < SpfMaxLookups /\ check.zone[Current].found
  /\ LET directives == parse_spf_record(check.zone[Current].terms)
     IN  check' = IF Hit(directives, check.ip)
                  THEN [Visited EXCEPT !.answer = "pass"]
                  ELSE [Visited EXCEPT !.stack = @ \o Pushed(directives)]

RunsOut ==
  /\ check.answer = "pending" /\ check.stack = <<>>
  /\ check' = [check EXCEPT !.answer = "fail"]

----------------------------------------------------------------------------
(* The reference: the domains that can be reached by include and redirect, and the      *)
(* addresses that begin with the bits of a block.                                      *)

Names(zone, d) ==
  {t.domain : t \in {u \in ToSet(zone[d].terms) :
                       zone[d].found /\ u.kind \in {"include", "redirect"}}}

Closed(zone, D) == \A d \in D : Names(zone, d) \subseteq D

Reachable(zone, domain) ==
  {d \in DOMAIN zone :
     \A D \in SUBSET DOMAIN zone : domain \in D /\ Closed(zone, D) => d \in D}

InBlock(ip, block) ==
  /\ ip.family = block.family
  /\ \A i \in 1..Width : i <= block.prefix => ip.addr[i] = block.addr[i]

Lists(zone, d, ip) ==
  /\ zone[d].found
  /\ \E t \in ToSet(zone[d].terms) : t.kind = ip.family /\ InBlock(ip, t.block)

\* Some address or domain is named with a qualifier other than +.
Denies(zone, d) ==
  zone[d].found /\ \E t \in ToSet(zone[d].terms) : t.kind \in Followed /\ ~t.pass
=============================================================================
