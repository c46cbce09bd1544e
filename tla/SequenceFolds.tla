--------------------------- MODULE SequenceFolds ---------------------------
(* Loops over a sequence, as recursive functions on its prefixes.                      *)
EXTENDS Naturals, Sequences

\* The loop that begins with init and does step for one element after the other.  The
\* step is a function of pairs: the state of the loop and the element.
Fold(step, init, s) ==
  LET after[n \in 0..Len(s)] == IF n = 0 THEN init ELSE step[<<after[n - 1], s[n]>>]
  IN  after[Len(s)]

\* The elements of s that are in S, in their order.
Keep(s, S) ==
  LET kept[n \in 0..Len(s)] ==
        IF n = 0 THEN <<>>
        ELSE IF s[n] \in S THEN Append(kept[n - 1], s[n]) ELSE kept[n - 1]
  IN  kept[Len(s)]
=============================================================================
