------------------------------ MODULE Keywords ------------------------------
(* The keyword automaton of a user's filters (filter.rs, CompiledFilterSet).  A rule is *)
(* [keyword, label]; a keyword and a text are sequences of letters, a blank is " ".     *)
EXTENDS Naturals, Sequences, SequencesExt, SequenceFolds

\* From the first letter that is not a blank to the last one.
Trim(s) ==
  LET ink == {i \in DOMAIN s : s[i] # " "}
  IN  IF ink = {} THEN <<>> ELSE SubSeq(s, Min(ink), Max(ink))

\* The rules that have a pattern.
Used(rules) == Keep(rules, {r \in ToSet(rules) : Trim(r.keyword) # <<>>})

\* The labels of blank keywords kept in the table.
CompileUnaligned(rules) ==
  [patterns |-> [i \in DOMAIN Used(rules) |-> Trim(Used(rules)[i].keyword)],
   labels |-> [i \in DOMAIN rules |-> rules[i].label]]

\* CompiledFilterSet::new: pattern i of the automaton belongs to label i of the table.
Compile(rules) ==
  LET used == Used(rules)
  IN  [patterns |-> [i \in DOMAIN used |-> Trim(used[i].keyword)],
       labels |-> [i \in DOMAIN used |-> used[i].label]]

----------------------------------------------------------------------------
(* find_iter with MatchKind::Standard (external: the aho_corasick crate).  It reads the *)
(* text letter by letter, and reports at the first place where a match ends: of those   *)
(* that end there the longest, of those the first pattern.  The search goes on behind   *)
(* the match, with nothing remembered of what came before.                             *)

Search == [from : Nat, found : SUBSET Nat]

\* The patterns that end at this place and begin no earlier than the search.
Ending(patterns, text, from, end) ==
  {i \in DOMAIN patterns :
     /\ end + 1 >= from + Len(patterns[i])
     /\ SubSeq(text, (end + 1) - Len(patterns[i]), end) = patterns[i]}

FindAt(patterns, text, r, end) ==
  LET ending == Ending(patterns, text, r.from, end)
      first == CHOOSE i \in ending : \A j \in ending :
                 \/ Len(patterns[i]) > Len(patterns[j])
                 \/ Len(patterns[i]) = Len(patterns[j]) /\ i <= j
  IN  IF ending = {} THEN r ELSE [from |-> end + 1, found |-> r.found \cup {first}]

FindIter(patterns, text) ==
  Fold([q \in Search \X Nat |-> FindAt(patterns, text, q[1], q[2])],
       [from |-> 1, found |-> {}],
       [i \in 1..Len(text) |-> i]).found

\* CompiledFilterSet::matches.
FilterMatches(rules, text) ==
  LET set == Compile(rules)
  IN  {set.labels[i] : i \in FindIter(set.patterns, text) \cap DOMAIN set.labels}

----------------------------------------------------------------------------
(* The reference: a label belongs to a text in which its keyword occurs.                *)

OccursAt(pattern, text, first) ==
  /\ first + Len(pattern) - 1 <= Len(text)
  /\ SubSeq(text, first, first + Len(pattern) - 1) = pattern

Occurrences(rules, text) ==
  {m \in (DOMAIN rules) \X (DOMAIN text) :
     /\ Trim(rules[m[1]].keyword) # <<>>
     /\ OccursAt(Trim(rules[m[1]].keyword), text, m[2])}

Deserved(rules, text) == {rules[m[1]].label : m \in Occurrences(rules, text)}

\* No two keywords share a letter of the text.
Apart(rules, text) ==
  \A m, n \in Occurrences(rules, text) :
    m[1] = n[1] \/ m[2] + Len(Trim(rules[m[1]].keyword)) - 1 < n[2]
                \/ n[2] + Len(Trim(rules[n[1]].keyword)) - 1 < m[2]
=============================================================================
