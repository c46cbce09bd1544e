-------------------------- MODULE MCInboundSession --------------------------
(* A small instance of InboundSession: two senders, an alias that forwards and one
   that does not, a reply mapping, and lines of 1 and 3 bytes for a buffer that
   spills after 3 bytes and is full at 6. *)
EXTENDS InboundSession

CONSTANTS s1, s2, a1, a2, r1, short, long

MCAuthorized == [mp \in {r1} |-> s1]
MCBytes == [l \in {short, long} |-> IF l = short THEN 1 ELSE 3]
=============================================================================
