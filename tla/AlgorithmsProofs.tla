-------------------------- MODULE AlgorithmsProofs --------------------------
(***************************************************************************)
(* Proofs about the pure algorithms and the paging of Algorithms, for      *)
(* every mail, upload, zone, body, text and mailbox, of any size.          *)
(*                                                                         *)
(* What a loop computes is proved by induction over what it has read.  The *)
(* induction itself is drawn from the well-foundedness of the naturals,    *)
(* for sets instead of predicates (Induction, SeqInduction): a claim about *)
(* every sequence is the claim that the set of the sequences it holds for  *)
(* is the set of all of them.  The loops of the modules are all written    *)
(* with Fold and Keep, so the recursion is unfolded once, in FoldAppend    *)
(* and KeepAppend.                                                         *)
(***************************************************************************)
EXTENDS Algorithms, FiniteSetTheorems, SequenceTheorems, WellFoundedInduction, TLAPS

-----------------------------------------------------------------------------
(* Loops over sequences (SequenceFolds) *)

(* A set of numbers has a least one. *)
LEMMA LeastOf ==
  ASSUME NEW S \in SUBSET Nat, S # {}
  PROVE  \E n \in S : \A m \in S : n <= m
  <1>1. PICK n \in S : \A m \in S : ~(<<m, n>> \in OpToRel(<, Nat))
    BY WFMin, NatLessThanWellFounded
  <1>2. \A m \in S : ~(m < n)
    BY <1>1 DEF OpToRel
  <1>3. QED
    BY <1>2

(* A set of numbers with 0 and the successor of each of its members is all of them. *)
LEMMA Induction ==
  ASSUME NEW S \in SUBSET Nat, 0 \in S, \A n \in S : n + 1 \in S
  PROVE  S = Nat
  <1> DEFINE Rest == Nat \ S
  <1>1. SUFFICES ASSUME Rest # {} PROVE FALSE
    OBVIOUS
  <1>2. PICK n \in Rest : \A m \in Rest : n <= m
    BY <1>1, LeastOf
  <1>3. n # 0 /\ n - 1 \in Nat /\ n - 1 \notin Rest
    BY <1>2
  <1>4. QED
    BY <1>2, <1>3

(* A set of sequences with the empty one and with every extension by one element is the
   set of all sequences. *)
LEMMA SeqInduction ==
  ASSUME NEW T, NEW S \in SUBSET Seq(T), <<>> \in S,
         \A s \in S : \A x \in T : Append(s, x) \in S
  PROVE  S = Seq(T)
  <1> DEFINE N == {n \in Nat : \A s \in Seq(T) : Len(s) = n => s \in S}
  <1>1. 0 \in N
    <2>1. \A s \in Seq(T) : Len(s) = 0 => s = <<>>
      OBVIOUS
    <2>2. QED
      BY <2>1
  <1>2. ASSUME NEW n \in N PROVE n + 1 \in N
    <2> SUFFICES ASSUME NEW s \in Seq(T), Len(s) = n + 1 PROVE s \in S
      OBVIOUS
    <2>1. s # <<>>
      BY <1>2
    <2>2. PICK t \in Seq(T), x \in T : s = Append(t, x)
      BY <2>1, SequenceEmptyOrAppend
    <2>3. Len(t) = n
      BY <1>2, <2>2
    <2>4. QED
      BY <1>2, <2>2, <2>3
  <1>3. N = Nat
    <2>1. N \in SUBSET Nat
      OBVIOUS
    <2> HIDE DEF N
    <2>2. QED
      BY <1>1, <1>2, <2>1, Induction
  <1>4. ASSUME NEW s \in Seq(T) PROVE s \in S
    <2>1. Len(s) \in N
      BY <1>3
    <2>2. QED
      BY <2>1
  <1>5. QED
    BY <1>4

(* after is the function that Fold defines by recursion. *)
IsFold(after, step, init, s, k) ==
  after = [n \in 0..k |-> IF n = 0 THEN init ELSE step[<<after[n - 1], s[n]>>]]

(* The recursion of Fold has a solution. *)
LEMMA FoldExists ==
  ASSUME NEW step, NEW init, NEW s, NEW k \in Nat
  PROVE  \E after : IsFold(after, step, init, s, k)
  <1> DEFINE S == {n \in Nat : \E after : IsFold(after, step, init, s, n)}
  <1>1. 0 \in S
    <2>1. IsFold([n \in 0..0 |-> init], step, init, s, 0)
      BY DEF IsFold
    <2>2. QED
      BY <2>1
  <1>2. ASSUME NEW n \in S PROVE n + 1 \in S
    <2>1. PICK f : IsFold(f, step, init, s, n)
      BY <1>2
    <2> DEFINE g == [i \in 0..(n + 1) |-> IF i = n + 1 THEN step[<<f[n], s[n + 1]>>] ELSE f[i]]
    <2>2. ASSUME NEW i \in 0..(n + 1)
          PROVE  g[i] = IF i = 0 THEN init ELSE step[<<g[i - 1], s[i]>>]
      <3>1. CASE i = n + 1
        BY <3>1
      <3>2. CASE i # n + 1
        BY <3>2, <2>1 DEF IsFold
      <3>3. QED
        BY <3>1, <3>2
    <2>3. IsFold(g, step, init, s, n + 1)
      BY <2>2 DEF IsFold
    <2>4. QED
      BY <2>3
  <1>3. S = Nat
    <2>1. S \in SUBSET Nat
      OBVIOUS
    <2> HIDE DEF S
    <2>2. QED
      BY <1>1, <1>2, <2>1, Induction
  <1>4. QED
    BY <1>3

(* Fold is the last value of that solution. *)
LEMMA FoldIsAfter ==
  ASSUME NEW step, NEW init, NEW T, NEW s \in Seq(T)
  PROVE  \E after : IsFold(after, step, init, s, Len(s)) /\ Fold(step, init, s) = after[Len(s)]
  <1> DEFINE f == CHOOSE f : IsFold(f, step, init, s, Len(s))
  <1>0. Len(s) \in Nat
    OBVIOUS
  <1>1. IsFold(f, step, init, s, Len(s))
    BY <1>0, FoldExists, Zenon
  <1>2. Fold(step, init, s) = f[Len(s)]
    BY DEF Fold, IsFold
  <1>3. QED
    BY <1>1, <1>2

(* A loop over nothing leaves its state as it was. *)
LEMMA FoldEmpty ==
  ASSUME NEW step, NEW init
  PROVE  Fold(step, init, <<>>) = init
  <1>1. PICK f : IsFold(f, step, init, <<>>, Len(<<>>)) /\ Fold(step, init, <<>>) = f[Len(<<>>)]
    <2>1. <<>> \in Seq({})
      OBVIOUS
    <2>2. QED
      BY <2>1, FoldIsAfter
  <1>2. QED
    BY <1>1 DEF IsFold

(* A loop over one element more does one step more. *)
LEMMA FoldAppend ==
  ASSUME NEW step, NEW init, NEW T, NEW s \in Seq(T), NEW x \in T
  PROVE  Fold(step, init, Append(s, x)) = step[<<Fold(step, init, s), x>>]
  <1> DEFINE n == Len(s)
             more == Append(s, x)
  <1>1. /\ n \in Nat /\ more \in Seq(T) /\ Len(more) = n + 1 /\ more[n + 1] = x
        /\ \A i \in 1..n : more[i] = s[i]
    OBVIOUS
  <1>2. PICK f : IsFold(f, step, init, s, n) /\ Fold(step, init, s) = f[n]
    BY FoldIsAfter
  <1>3. PICK g : IsFold(g, step, init, more, n + 1) /\ Fold(step, init, more) = g[n + 1]
    BY <1>1, FoldIsAfter
  <1> HIDE DEF n, more
  <1>4. \A i \in 0..n : f[i] = IF i = 0 THEN init ELSE step[<<f[i - 1], s[i]>>]
    BY <1>2 DEF IsFold
  <1>5. \A i \in 0..(n + 1) : g[i] = IF i = 0 THEN init ELSE step[<<g[i - 1], more[i]>>]
    BY <1>3 DEF IsFold
  <1> DEFINE S == {i \in Nat : i <= n => f[i] = g[i]}
  <1>6. 0 \in S
    <2>1. 0 \in 0..n /\ 0 \in 0..(n + 1)
      BY <1>1
    <2>2. f[0] = init /\ g[0] = init
      BY <2>1, <1>4, <1>5
    <2>3. QED
      BY <2>2
  <1>7. ASSUME NEW i \in S PROVE i + 1 \in S
    <2> SUFFICES ASSUME i + 1 <= n PROVE f[i + 1] = g[i + 1]
      OBVIOUS
    <2>1. f[i] = g[i] /\ i + 1 \in 0..n /\ i + 1 \in 0..(n + 1) /\ i + 1 # 0 /\ (i + 1) - 1 = i
      BY <1>1, <1>7
    <2>2. more[i + 1] = s[i + 1]
      BY <1>1
    <2>3. f[i + 1] = step[<<f[i], s[i + 1]>>]
      BY <1>4, <2>1
    <2>4. g[i + 1] = step[<<g[i], more[i + 1]>>]
      BY <1>5, <2>1
    <2>5. QED
      BY <2>1, <2>2, <2>3, <2>4
  <1>8. S = Nat
    <2>1. S \in SUBSET Nat
      OBVIOUS
    <2> HIDE DEF S
    <2>2. QED
      BY <1>6, <1>7, <2>1, Induction
  <1>9. f[n] = g[n]
    BY <1>1, <1>8
  <1>10. g[n + 1] = step[<<g[n], x>>]
    BY <1>1, <1>5
  <1>11. QED
    BY <1>2, <1>3, <1>9, <1>10 DEF more

(* kept is the function that Keep defines by recursion. *)
IsKeep(kept, s, S, k) ==
  kept = [n \in 0..k |->
            IF n = 0 THEN <<>>
            ELSE IF s[n] \in S THEN Append(kept[n - 1], s[n]) ELSE kept[n - 1]]

(* The recursion of Keep has a solution. *)
LEMMA KeepExists ==
  ASSUME NEW s, NEW S, NEW k \in Nat
  PROVE  \E kept : IsKeep(kept, s, S, k)
  <1> DEFINE N == {n \in Nat : \E kept : IsKeep(kept, s, S, n)}
  <1>1. 0 \in N
    <2>1. IsKeep([n \in 0..0 |-> <<>>], s, S, 0)
      BY DEF IsKeep
    <2>2. QED
      BY <2>1
  <1>2. ASSUME NEW n \in N PROVE n + 1 \in N
    <2>1. PICK f : IsKeep(f, s, S, n)
      BY <1>2
    <2> DEFINE last == IF s[n + 1] \in S THEN Append(f[n], s[n + 1]) ELSE f[n]
               g == [i \in 0..(n + 1) |-> IF i = n + 1 THEN last ELSE f[i]]
    <2>2. ASSUME NEW i \in 0..(n + 1)
          PROVE  g[i] = IF i = 0 THEN <<>>
                        ELSE IF s[i] \in S THEN Append(g[i - 1], s[i]) ELSE g[i - 1]
      <3>1. CASE i = n + 1
        <4>1. i - 1 = n /\ g[i] = last /\ g[n] = f[n] /\ i # 0
          BY <3>1
        <4>2. QED
          BY <3>1, <4>1
      <3>2. CASE i # n + 1
        <4>1. i \in 0..n /\ g[i] = f[i] /\ (i # 0 => g[i - 1] = f[i - 1])
          BY <3>2
        <4>2. f[i] = IF i = 0 THEN <<>>
                     ELSE IF s[i] \in S THEN Append(f[i - 1], s[i]) ELSE f[i - 1]
          BY <2>1, <4>1 DEF IsKeep
        <4> HIDE DEF g
        <4>3. QED
          BY <4>1, <4>2
      <3>3. QED
        BY <3>1, <3>2
    <2>3. IsKeep(g, s, S, n + 1)
      BY <2>2 DEF IsKeep
    <2>4. QED
      BY <2>3
  <1>3. N = Nat
    <2>1. N \in SUBSET Nat
      OBVIOUS
    <2> HIDE DEF N
    <2>2. QED
      BY <1>1, <1>2, <2>1, Induction
  <1>4. QED
    BY <1>3

(* Keep is the last value of that solution. *)
LEMMA KeepIsKept ==
  ASSUME NEW T, NEW s \in Seq(T), NEW S
  PROVE  \E kept : IsKeep(kept, s, S, Len(s)) /\ Keep(s, S) = kept[Len(s)]
  <1> DEFINE f == CHOOSE f : IsKeep(f, s, S, Len(s))
  <1>0. Len(s) \in Nat
    OBVIOUS
  <1>1. IsKeep(f, s, S, Len(s))
    BY <1>0, KeepExists, Zenon
  <1>2. Keep(s, S) = f[Len(s)]
    BY DEF Keep, IsKeep
  <1>3. QED
    BY <1>1, <1>2

(* Of nothing, nothing is kept. *)
LEMMA KeepEmpty ==
  ASSUME NEW S
  PROVE  Keep(<<>>, S) = <<>>
  <1>1. PICK f : IsKeep(f, <<>>, S, Len(<<>>)) /\ Keep(<<>>, S) = f[Len(<<>>)]
    <2>1. <<>> \in Seq({})
      OBVIOUS
    <2>2. QED
      BY <2>1, KeepIsKept
  <1>2. QED
    BY <1>1 DEF IsKeep

(* An element more is kept behind the others, or left out. *)
LEMMA KeepAppend ==
  ASSUME NEW T, NEW s \in Seq(T), NEW x \in T, NEW S
  PROVE  Keep(Append(s, x), S) = IF x \in S THEN Append(Keep(s, S), x) ELSE Keep(s, S)
  <1> DEFINE n == Len(s)
             more == Append(s, x)
  <1>1. /\ n \in Nat /\ more \in Seq(T) /\ Len(more) = n + 1 /\ more[n + 1] = x
        /\ \A i \in 1..n : more[i] = s[i]
    OBVIOUS
  <1>2. PICK f : IsKeep(f, s, S, n) /\ Keep(s, S) = f[n]
    BY KeepIsKept
  <1>3. PICK g : IsKeep(g, more, S, n + 1) /\ Keep(more, S) = g[n + 1]
    BY <1>1, KeepIsKept
  <1> HIDE DEF n, more
  <1>4. \A i \in 0..n : f[i] = IF i = 0 THEN <<>>
                               ELSE IF s[i] \in S THEN Append(f[i - 1], s[i]) ELSE f[i - 1]
    BY <1>2 DEF IsKeep
  <1>5. \A i \in 0..(n + 1) :
          g[i] = IF i = 0 THEN <<>>
                 ELSE IF more[i] \in S THEN Append(g[i - 1], more[i]) ELSE g[i - 1]
    BY <1>3 DEF IsKeep
  <1> DEFINE N == {i \in Nat : i <= n => f[i] = g[i]}
  <1>6. 0 \in N
    <2>1. 0 \in 0..n /\ 0 \in 0..(n + 1)
      BY <1>1
    <2>2. f[0] = <<>> /\ g[0] = <<>>
      BY <2>1, <1>4, <1>5
    <2>3. QED
      BY <2>2
  <1>7. ASSUME NEW i \in N PROVE i + 1 \in N
    <2> SUFFICES ASSUME i + 1 <= n PROVE f[i + 1] = g[i + 1]
      OBVIOUS
    <2>1. f[i] = g[i] /\ i + 1 \in 0..n /\ i + 1 \in 0..(n + 1) /\ i + 1 # 0 /\ (i + 1) - 1 = i
      BY <1>1, <1>7
    <2>2. more[i + 1] = s[i + 1]
      BY <1>1
    <2>3. f[i + 1] = IF s[i + 1] \in S THEN Append(f[i], s[i + 1]) ELSE f[i]
      BY <1>4, <2>1
    <2>4. g[i + 1] = IF more[i + 1] \in S THEN Append(g[i], more[i + 1]) ELSE g[i]
      BY <1>5, <2>1
    <2>5. QED
      BY <2>1, <2>2, <2>3, <2>4
  <1>8. N = Nat
    <2>1. N \in SUBSET Nat
      OBVIOUS
    <2> HIDE DEF N
    <2>2. QED
      BY <1>6, <1>7, <2>1, Induction
  <1>9. f[n] = g[n]
    BY <1>1, <1>8
  <1>10. g[n + 1] = IF x \in S THEN Append(g[n], x) ELSE g[n]
    <2>1. n + 1 \in 0..(n + 1) /\ n + 1 # 0 /\ (n + 1) - 1 = n
      BY <1>1
    <2>2. QED
      BY <1>1, <1>5, <2>1
  <1>11. QED
    BY <1>2, <1>3, <1>9, <1>10 DEF more

(* h leads from each element that is kept to its place in s. *)
IsKeepIndex(h, s, S) ==
  /\ h \in [1..Len(Keep(s, S)) -> 1..Len(s)]
  /\ \A k \in 1..Len(Keep(s, S)) : Keep(s, S)[k] = s[h[k]] /\ s[h[k]] \in S
  /\ \A k, m \in 1..Len(Keep(s, S)) : k < m => h[k] < h[m]
  /\ \A i \in 1..Len(s) : s[i] \in S => \E k \in 1..Len(Keep(s, S)) : h[k] = i

(* What is kept stands in its old order, and nothing of it is lost. *)
LEMMA KeepIndexed ==
  ASSUME NEW T, NEW S
  PROVE  \A s \in Seq(T) : Keep(s, S) \in Seq(T \cap S) /\ \E h : IsKeepIndex(h, s, S)
  <1> DEFINE Good(s) == Keep(s, S) \in Seq(T \cap S) /\ \E h : IsKeepIndex(h, s, S)
             G == {s \in Seq(T) : Good(s)}
  <1>1. Good(<<>>)
    <2>1. Keep(<<>>, S) = <<>> /\ Len(<<>>) = 0 /\ <<>> \in Seq(T \cap S)
      BY KeepEmpty
    <2>2. 1..0 = {}
      OBVIOUS
    <2>3. IsKeepIndex([k \in {} |-> 1], <<>>, S)
      BY <2>1, <2>2 DEF IsKeepIndex
    <2>4. QED
      BY <2>1, <2>3
  <1>2. ASSUME NEW s \in Seq(T), Good(s), NEW x \in T PROVE Good(Append(s, x))
    <2> DEFINE q == Keep(s, S)
               t == Append(s, x)
    <2>1. PICK h : IsKeepIndex(h, s, S)
      BY <1>2
    <2>2. q \in Seq(T \cap S) /\ Len(q) \in Nat /\ Len(s) \in Nat
      BY <1>2
    <2>3. /\ h \in [1..Len(q) -> 1..Len(s)]
          /\ \A k \in 1..Len(q) : q[k] = s[h[k]] /\ s[h[k]] \in S
          /\ \A k, m \in 1..Len(q) : k < m => h[k] < h[m]
          /\ \A i \in 1..Len(s) : s[i] \in S => \E k \in 1..Len(q) : h[k] = i
      BY <2>1 DEF IsKeepIndex
    <2>4. Keep(t, S) = IF x \in S THEN Append(q, x) ELSE q
      BY KeepAppend
    <2>5. /\ Len(t) = Len(s) + 1 /\ t[Len(s) + 1] = x
          /\ \A i \in 1..Len(s) : t[i] = s[i]
      OBVIOUS
    <2> HIDE DEF q, t
    <2>6. CASE x \in S
      <3>1. Keep(t, S) = Append(q, x)
        BY <2>4, <2>6
      <3>2. /\ Append(q, x) \in Seq(T \cap S) /\ Len(Append(q, x)) = Len(q) + 1
            /\ Append(q, x)[Len(q) + 1] = x
            /\ \A i \in 1..Len(q) : Append(q, x)[i] = q[i]
        BY <2>2, <2>6
      <3> DEFINE g == [k \in 1..(Len(q) + 1) |-> IF k = Len(q) + 1 THEN Len(s) + 1 ELSE h[k]]
                 n == Len(q) + 1
      <3>3. g \in [1..n -> 1..Len(t)]
        BY <2>2, <2>3, <2>5
      <3>4. ASSUME NEW k \in 1..n PROVE Keep(t, S)[k] = t[g[k]] /\ t[g[k]] \in S
        <4>1. CASE k = n
          BY <4>1, <2>2, <2>5, <2>6, <3>1, <3>2
        <4>2. CASE k # n
          <5>1. k \in 1..Len(q) /\ g[k] = h[k] /\ h[k] \in 1..Len(s)
            BY <2>2, <2>3, <4>2
          <5>2. QED
            BY <2>3, <2>5, <3>1, <3>2, <5>1
        <4>3. QED
          BY <4>1, <4>2
      <3>5. ASSUME NEW k \in 1..n, NEW m \in 1..n, k < m PROVE g[k] < g[m]
        <4>1. k \in 1..Len(q) /\ g[k] = h[k] /\ h[k] \in 1..Len(s)
          <5>1. k \in 1..Len(q) /\ k # Len(q) + 1
            BY <2>2, <3>5
          <5>2. QED
            BY <2>3, <5>1
        <4>2. CASE m = n
          BY <2>2, <4>1, <4>2
        <4>3. CASE m # n
          <5>1. m \in 1..Len(q) /\ g[m] = h[m]
            BY <2>2, <4>3
          <5>2. QED
            BY <2>3, <3>5, <4>1, <5>1
        <4>4. QED
          BY <4>2, <4>3
      <3>6. ASSUME NEW i \in 1..Len(t), t[i] \in S PROVE \E k \in 1..n : g[k] = i
        <4>1. CASE i = Len(s) + 1
          <5>1. n \in 1..n /\ g[n] = i
            BY <2>2, <4>1
          <5>2. QED
            BY <5>1
        <4>2. CASE i # Len(s) + 1
          <5>1. i \in 1..Len(s) /\ s[i] \in S
            BY <2>2, <2>5, <3>6, <4>2
          <5>2. PICK k \in 1..Len(q) : h[k] = i
            BY <2>3, <5>1
          <5>3. k \in 1..n /\ g[k] = i
            BY <2>2, <5>2
          <5>4. QED
            BY <5>3
        <4>3. QED
          BY <4>1, <4>2
      <3>7. Len(Keep(t, S)) = n
        BY <3>1, <3>2
      <3> HIDE DEF g, n
      <3>8. IsKeepIndex(g, t, S)
        BY <3>3, <3>4, <3>5, <3>6, <3>7 DEF IsKeepIndex
      <3>9. QED
        BY <3>1, <3>2, <3>8 DEF t
    <2>7. CASE x \notin S
      <3>1. Keep(t, S) = q
        BY <2>4, <2>7
      <3>2. h \in [1..Len(q) -> 1..Len(t)]
        BY <2>2, <2>3, <2>5
      <3>3. ASSUME NEW k \in 1..Len(q) PROVE q[k] = t[h[k]] /\ t[h[k]] \in S
        BY <2>3, <2>5
      <3>4. ASSUME NEW i \in 1..Len(t), t[i] \in S PROVE \E k \in 1..Len(q) : h[k] = i
        <4>1. i \in 1..Len(s) /\ s[i] \in S
          BY <2>2, <2>5, <2>7, <3>4
        <4>2. QED
          BY <2>3, <4>1
      <3>5. IsKeepIndex(h, t, S)
        BY <2>3, <3>1, <3>2, <3>3, <3>4 DEF IsKeepIndex
      <3>6. QED
        BY <2>2, <3>1, <3>5 DEF t
    <2>8. QED
      BY <2>6, <2>7
  <1>3. G = Seq(T)
    <2>1. <<>> \in G
      BY <1>1
    <2>2. \A s \in G : \A x \in T : Append(s, x) \in G
      BY <1>2
    <2>3. G \in SUBSET Seq(T)
      OBVIOUS
    <2> HIDE DEF G
    <2>4. QED
      BY <2>1, <2>2, <2>3, SeqInduction
  <1>4. QED
    BY <1>3

(* What is kept is what is in S. *)
LEMMA KeepRange ==
  ASSUME NEW T, NEW s \in Seq(T), NEW S
  PROVE  /\ Keep(s, S) \in Seq(T \cap S) /\ Keep(s, S) \in Seq(T)
         /\ ToSet(Keep(s, S)) = ToSet(s) \cap S
  <1> DEFINE q == Keep(s, S)
  <1>1. q \in Seq(T \cap S)
    BY KeepIndexed
  <1>2. PICK h : IsKeepIndex(h, s, S)
    BY KeepIndexed
  <1>3. /\ h \in [1..Len(q) -> 1..Len(s)]
        /\ \A k \in 1..Len(q) : q[k] = s[h[k]] /\ s[h[k]] \in S
        /\ \A i \in 1..Len(s) : s[i] \in S => \E k \in 1..Len(q) : h[k] = i
    BY <1>2 DEF IsKeepIndex
  <1> HIDE DEF q
  <1>4. q \in Seq(T)
    BY <1>1
  <1>5. DOMAIN q = 1..Len(q) /\ DOMAIN s = 1..Len(s)
    BY <1>4
  <1>6. ToSet(q) \subseteq ToSet(s) \cap S
    BY <1>3, <1>5 DEF ToSet
  <1>7. ASSUME NEW i \in 1..Len(s), s[i] \in S PROVE s[i] \in ToSet(q)
    <2>1. PICK k \in 1..Len(q) : h[k] = i
      BY <1>3, <1>7
    <2>2. q[k] = s[i]
      BY <1>3, <2>1
    <2>3. QED
      BY <1>5, <2>2 DEF ToSet
  <1>8. ToSet(s) \cap S \subseteq ToSet(q)
    BY <1>5, <1>7 DEF ToSet
  <1>9. QED
    BY <1>1, <1>4, <1>6, <1>8 DEF q

(* The elements of two sequences put together. *)
LEMMA Joined ==
  ASSUME NEW T, NEW s \in Seq(T), NEW t \in Seq(T)
  PROVE  s \o t \in Seq(T) /\ ToSet(s \o t) = ToSet(s) \cup ToSet(t)
  <1>1. /\ s \o t \in Seq(T) /\ Len(s \o t) = Len(s) + Len(t)
        /\ \A i \in 1..Len(s) : (s \o t)[i] = s[i]
        /\ \A i \in 1..Len(t) : (s \o t)[Len(s) + i] = t[i]
        /\ Len(s) \in Nat /\ Len(t) \in Nat
    OBVIOUS
  <1>2. DOMAIN (s \o t) = 1..(Len(s) + Len(t)) /\ DOMAIN s = 1..Len(s) /\ DOMAIN t = 1..Len(t)
    BY <1>1
  <1>3. ASSUME NEW i \in 1..(Len(s) + Len(t)) PROVE (s \o t)[i] \in ToSet(s) \cup ToSet(t)
    <2>1. CASE i \in 1..Len(s)
      BY <1>1, <1>2, <2>1 DEF ToSet
    <2>2. CASE i \notin 1..Len(s)
      <3>1. i - Len(s) \in 1..Len(t) /\ i = Len(s) + (i - Len(s))
        BY <1>1, <2>2
      <3>2. (s \o t)[i] = t[i - Len(s)]
        BY <1>1, <3>1
      <3>3. QED
        BY <1>2, <3>1, <3>2 DEF ToSet
    <2>3. QED
      BY <2>1, <2>2
  <1>4. ASSUME NEW i \in 1..Len(s) PROVE s[i] \in ToSet(s \o t)
    <2>1. i \in DOMAIN (s \o t) /\ (s \o t)[i] = s[i]
      BY <1>1, <1>2
    <2>2. QED
      BY <2>1 DEF ToSet
  <1>5. ASSUME NEW i \in 1..Len(t) PROVE t[i] \in ToSet(s \o t)
    <2>1. Len(s) + i \in DOMAIN (s \o t) /\ (s \o t)[Len(s) + i] = t[i]
      BY <1>1, <1>2
    <2>2. QED
      BY <2>1 DEF ToSet
  <1>6. QED
    BY <1>1, <1>2, <1>3, <1>4, <1>5 DEF ToSet

-----------------------------------------------------------------------------
(* A folder read page by page (Listing) *)

(* The rows of a mailbox. *)
RowType == [id : Nat, kind : Kinds, starred : BOOLEAN, hits : SUBSET Filters]

(* What a reader may open. *)
ViewType == [folder : {"inbox", "sent", "drafts", "favorites"}, active : SUBSET Filters]

(* No two rows have the same id. *)
Unique(s) == \A i, j \in DOMAIN s : s[i].id = s[j].id => i = j

(* The reader is idle, or on a page of a folder. *)
ReaderInv ==
  /\ reader = [view |-> reader.view, phase |-> reader.phase, page |-> reader.page,
               total |-> reader.total]
  /\ reader.phase \in {"idle", "list", "count", "shown"}
  /\ reader.page \in Nat /\ reader.total \in Nat
  /\ reader.phase # "idle" => reader.view \in ViewType /\ reader.page > 0
  /\ reader.phase = "idle" => wanted = {}

(* The rows differ in their ids, and the ids given so far leave room for a fresh one. *)
RowsInv ==
  /\ rows \in Seq(RowType)
  /\ changes \in Nat
  /\ Unique(rows)
  /\ \A i \in DOMAIN rows : rows[i].id <= Len(rows) + changes

(* The rows of the folder that come before the page that is read next. *)
Passed == IF reader.phase = "list" THEN (reader.page - 1) * PageSize
          ELSE reader.page * PageSize

(* The row at this place has still to be read. *)
Behind(i) == Rank(rows, reader.view, i) > Passed

(* Unless something excuses it, what was in the folder and has not been shown is behind
   the page, and a page that is linked to has rows. *)
PageInv ==
  ~excused /\ reader.phase # "idle" =>
    /\ wanted \subseteq FolderIds(rows)
    /\ \A i \in Folder(rows, reader.view) : rows[i].id \in wanted \ shown => Behind(i)
    /\ \/ reader.phase = "list" /\ reader.page > 1
       \/ reader.phase = "shown" /\ reader.page < reader.total
       => Cardinality(Folder(rows, reader.view)) > Passed

(* The inductive invariant of the reader and the mailbox. *)
ListingInv == ReaderInv /\ RowsInv /\ PageInv /\ PagingMissesNothing

(* A folder has finitely many rows. *)
LEMMA FolderIsFinite ==
  ASSUME NEW T, NEW s \in Seq(T), NEW v
  PROVE  /\ Folder(s, v) \subseteq DOMAIN s /\ IsFiniteSet(Folder(s, v))
         /\ \A i \in Nat : IsFiniteSet({j \in Folder(s, v) : j <= i})
         /\ IsFiniteSet({i \in DOMAIN s : Counted(v, s[i])})
  <1>1. IsFiniteSet(DOMAIN s)
    BY FS_Interval, Len(s) \in Nat, DOMAIN s = 1..Len(s)
  <1>2. Folder(s, v) \subseteq DOMAIN s
    BY DEF Folder
  <1>3. IsFiniteSet(Folder(s, v))
    BY <1>1, <1>2, FS_Subset
  <1>4. QED
    BY <1>1, <1>2, <1>3, FS_Subset

(* Places whose ids are among the ids of other places are not more than those. *)
LEMMA FewerPlaces ==
  ASSUME NEW r, NEW s, NEW P, NEW Q, Unique(r), P \subseteq DOMAIN r, IsFiniteSet(Q),
         \A k \in P : \E m \in Q : s[m].id = r[k].id
  PROVE  Cardinality(P) <= Cardinality(Q) /\ IsFiniteSet(P)
  <1> DEFINE f == [k \in P |-> CHOOSE m \in Q : s[m].id = r[k].id]
  <1>1. \A k \in P : f[k] \in Q /\ s[f[k]].id = r[k].id
    OBVIOUS
  <1>2. \A k, m \in P : f[k] = f[m] => k = m
    <2> SUFFICES ASSUME NEW k \in P, NEW m \in P, f[k] = f[m] PROVE k = m
      BY Zenon
    <2>1. r[k].id = r[m].id
      BY <1>1
    <2>2. QED
      BY <2>1 DEF Unique
  <1>3. f \in Injection(P, Q)
    <2>1. f \in [P -> Q]
      BY <1>1
    <2>2. QED
      BY <1>2, <2>1 DEF Injection, IsInjective
  <1>4. QED
    BY <1>3, FS_Injection

(* A set of places has one with each rank up to its size. *)
LEMMA RankTaken ==
  ASSUME NEW T, NEW s \in Seq(T), NEW v, NEW k \in Nat, k < Cardinality(Folder(s, v))
  PROVE  \E i \in Folder(s, v) : Rank(s, v, i) = k + 1
  <1> DEFINE F == Folder(s, v)
             Upto(i) == {j \in F : j <= i}
             S == {i \in Nat : Cardinality(Upto(i)) <= k}
  <1>0. Len(s) \in Nat /\ DOMAIN s = 1..Len(s)
    OBVIOUS
  <1>1. F \subseteq 1..Len(s) /\ IsFiniteSet(F)
    BY <1>0, FolderIsFinite
  <1>2. ASSUME NEW i \in Nat PROVE IsFiniteSet(Upto(i)) /\ Cardinality(Upto(i)) \in Nat
    <2>1. IsFiniteSet(Upto(i))
      BY FolderIsFinite
    <2>2. QED
      BY <2>1, FS_CardinalityType
  <1>3. Cardinality(F) \in Nat /\ Cardinality(F) > k
    BY <1>1, FS_CardinalityType
  <1>a. \A j \in F : j \in Int /\ 1 <= j /\ j <= Len(s)
    BY <1>0, <1>1
  <1> HIDE DEF F
  <1>4. 0 \in S
    <2>1. Upto(0) = {}
      BY <1>0, <1>a
    <2>2. Cardinality(Upto(0)) = 0
      BY <2>1, FS_EmptySet
    <2>3. QED
      BY <2>2
  <1>5. Len(s) \notin S
    <2>1. Upto(Len(s)) = F
      BY <1>0, <1>a
    <2>2. Cardinality(Upto(Len(s))) = Cardinality(F)
      BY <2>1, Zenon
    <2>3. QED
      BY <1>3, <2>2
  <1>6. PICK n \in Nat : Cardinality(Upto(n)) <= k /\ ~(Cardinality(Upto(n + 1)) <= k)
    <2>1. S \in SUBSET Nat
      OBVIOUS
    <2> HIDE DEF S
    <2>2. \E n \in S : n + 1 \notin S
      BY <1>0, <1>4, <1>5, <2>1, Induction
    <2>3. PICK n \in S : n + 1 \notin S
      BY <2>2
    <2>4. n \in Nat /\ n + 1 \in Nat
      BY <2>3 DEF S
    <2>5. QED
      BY <2>3, <2>4 DEF S
  <1>7. n + 1 \in F
    <2> SUFFICES ASSUME n + 1 \notin F PROVE FALSE
      OBVIOUS
    <2>1. Upto(n + 1) = Upto(n)
      BY <1>0, <1>a
    <2>2. QED
      BY <1>6, <2>1
  <1>8. Upto(n + 1) = Upto(n) \cup {n + 1} /\ n + 1 \notin Upto(n)
    BY <1>0, <1>a, <1>7
  <1>9. Cardinality(Upto(n + 1)) = Cardinality(Upto(n)) + 1
    BY <1>2, <1>8, FS_AddElement
  <1>10. Cardinality(Upto(n + 1)) = k + 1
    <2>1. Cardinality(Upto(n)) \in Nat
      BY <1>2
    <2>2. QED
      BY <1>6, <1>9, <2>1
  <1>11. QED
    BY <1>7, <1>10 DEF Rank, F

(* The two queries agree. *)
LEMMA CountedIsListed ==
  ASSUME NEW v \in ViewType, NEW s \in Seq(RowType)
  PROVE  Count(s, v) = Cardinality(Folder(s, v))
  <1>1. ASSUME NEW r \in RowType PROVE Counted(v, r) <=> Listed(v, r)
    <2>1. /\ v.folder \in {"inbox", "sent", "drafts", "favorites"} /\ r.kind \in Kinds
      BY DEF ViewType, RowType
    <2> USE DEF Kinds
    <2>2. CASE v.folder = "inbox"
      BY <2>2 DEF Counted, Listed, InboxCounts, InboxLists
    <2>3. CASE v.folder \in {"sent", "drafts"}
      BY <2>3 DEF Counted, Listed, SentCounts, SentLists
    <2>4. CASE v.folder = "favorites"
      BY <2>1, <2>4 DEF Counted, Listed, FavoritesCount, FavoritesList
    <2>5. QED
      BY <2>1, <2>2, <2>3, <2>4
  <1>2. {i \in DOMAIN s : Counted(v, s[i])} = Folder(s, v)
    BY <1>1 DEF Folder
  <1>3. QED
    BY <1>2 DEF Count

(* The rows up to the end of a page are those before it and one page more. *)
LEMMA PagesBySize ==
  ASSUME NEW p \in Nat \ {0}
  PROVE  /\ (p - 1) * PageSize \in Nat /\ p * PageSize \in Nat
         /\ p * PageSize = (p - 1) * PageSize + PageSize
  BY ListingAssumption

(* Division with remainder. *)
LEMMA Division ==
  ASSUME NEW a \in Nat, NEW b \in Nat \ {0}
  PROVE  a \div b \in Nat /\ a % b \in 0..(b - 1) /\ a = b * (a \div b) + (a % b)
  OBVIOUS

(* The last page is the one with the last row. *)
LEMMA TotalPages ==
  ASSUME NEW count \in Nat, NEW p \in Nat \ {0}
  PROVE  /\ calculate_total_pages(count) \in Nat
         /\ p >= calculate_total_pages(count) => count <= p * PageSize
         /\ p < calculate_total_pages(count) => count > p * PageSize
  <1> DEFINE total == calculate_total_pages(count)
  <1>1. CASE count = 0
    BY <1>1, ListingAssumption DEF calculate_total_pages
  <1>2. CASE count # 0
    <2> DEFINE a == count + PageSize - 1
    <2>1. a \in Nat /\ PageSize \in Nat \ {0}
      BY ListingAssumption
    <2>2. total = a \div PageSize
      BY <1>2 DEF calculate_total_pages
    <2>3. total \in Nat /\ a % PageSize \in 0..(PageSize - 1)
          /\ a = PageSize * total + (a % PageSize)
      BY <2>1, <2>2, Division
    <2> HIDE DEF total
    <2>4. count <= PageSize * total /\ count > PageSize * total - PageSize
      BY <2>3, <2>1
    <2>5. p >= total => p * PageSize >= PageSize * total
      BY <2>3, <2>1
    <2>6. p < total => p * PageSize <= PageSize * total - PageSize
      <3> SUFFICES ASSUME p < total PROVE p * PageSize <= PageSize * total - PageSize
        OBVIOUS
      <3>1. total - p >= 1 /\ (total - p) * PageSize >= PageSize
        BY <2>3, <2>1
      <3>2. QED
        BY <3>1, <2>1, <2>3
    <2>7. p * PageSize \in Nat /\ PageSize * total \in Nat
      BY <2>1, <2>3
    <2>8. QED
      BY <2>3, <2>4, <2>5, <2>6, <2>7, <2>1 DEF total
  <1>3. QED
    BY <1>1, <1>2

(* What a change of the mailbox has to do for the reader: the ids stay unique and below
   the next one, and a row that has not moved keeps everything before it that it had. *)
KeepsOrder(s, moved) ==
  \A i, j \in DOMAIN rows : i < j /\ rows[j].id \notin moved =>
    \A m, n \in DOMAIN s : s[m].id = rows[i].id /\ s[n].id = rows[j].id => m < n

(* A change that does so keeps the invariant of the reader. *)
LEMMA BecomesStep ==
  ASSUME ListingInv, NEW s \in Seq(RowType), NEW moved, Becomes(s, moved), Unique(s),
         \A i \in DOMAIN s : s[i].id <= Len(s) + changes + 1,
         KeepsOrder(s, moved)
  PROVE  ListingInv'
  <1> DEFINE v == reader.view
  <1>1. /\ rows \in Seq(RowType) /\ changes \in Nat /\ Unique(rows)
        /\ reader.phase # "idle" /\ rows' = s /\ changes' = changes + 1
        /\ wanted' = wanted \ moved
        /\ UNCHANGED <<reader, shown, blank, faults>>
        /\ excused' = (excused \/ ~(FolderIds(rows) \subseteq FolderIds(s)))
    BY DEF ListingInv, RowsInv, Becomes
  <1>2. ReaderInv'
    BY <1>1 DEF ListingInv, ReaderInv
  <1>3. RowsInv'
    BY <1>1 DEF RowsInv, Unique
  <1>4. ASSUME ~excused' PROVE ~excused /\ FolderIds(rows) \subseteq FolderIds(s)
    BY <1>1, <1>4
  <1>5. PagingMissesNothing'
    BY <1>1, <1>4 DEF ListingInv, PagingMissesNothing
  <1>6. PageInv'
    <2> SUFFICES ASSUME ~excused'
                 PROVE  /\ wanted' \subseteq FolderIds(s)
                        /\ \A i \in Folder(s, v) : s[i].id \in wanted' \ shown
                                                     => Rank(s, v, i) > Passed
                        /\ \/ reader.phase = "list" /\ reader.page > 1
                           \/ reader.phase = "shown" /\ reader.page < reader.total
                           => Cardinality(Folder(s, v)) > Passed
      BY <1>1 DEF PageInv, Behind, Passed, FolderIds
    <2>1. /\ wanted \subseteq FolderIds(rows) /\ FolderIds(rows) \subseteq FolderIds(s)
          /\ \A i \in Folder(rows, v) : rows[i].id \in wanted \ shown
                                          => Rank(rows, v, i) > Passed
          /\ \/ reader.phase = "list" /\ reader.page > 1
             \/ reader.phase = "shown" /\ reader.page < reader.total
             => Cardinality(Folder(rows, v)) > Passed
      BY <1>1, <1>4 DEF ListingInv, PageInv, Behind
    <2>2. Passed \in Int
      <3>1. reader.page \in Nat \ {0} /\ reader.page * PageSize \in Nat
            /\ (reader.page - 1) * PageSize \in Nat
        BY <1>1, PagesBySize DEF ListingInv, ReaderInv
      <3>2. QED
        BY <3>1 DEF Passed
    <2>3. /\ IsFiniteSet(Folder(s, v)) /\ Folder(s, v) \subseteq DOMAIN s
          /\ IsFiniteSet(Folder(rows, v)) /\ Folder(rows, v) \subseteq DOMAIN rows
      BY <1>1, FolderIsFinite
    <2>4. \A k \in Folder(rows, v) : \E m \in Folder(s, v) : s[m].id = rows[k].id
      BY <2>1 DEF FolderIds, Ids
    <2>5. Cardinality(Folder(rows, v)) <= Cardinality(Folder(s, v))
      <3> DEFINE P == Folder(rows, v)
                 Q == Folder(s, v)
      <3>1. P \subseteq DOMAIN rows /\ IsFiniteSet(Q)
            /\ \A k \in P : \E m \in Q : s[m].id = rows[k].id
        BY <2>3, <2>4
      <3>2. P \subseteq DOMAIN rows
        BY <3>1
      <3>3. IsFiniteSet(Q)
        BY <3>1
      <3>4. \A k \in P : \E m \in Q : s[m].id = rows[k].id
        BY <3>1
      <3>5. Unique(rows)
        BY <1>1
      <3> HIDE DEF P, Q
      <3>6. Cardinality(P) <= Cardinality(Q)
        BY <3>2, <3>3, <3>4, <3>5, FewerPlaces
      <3>7. QED
        BY <3>6 DEF P, Q
    <2>6. Cardinality(Folder(rows, v)) \in Nat /\ Cardinality(Folder(s, v)) \in Nat
      BY <2>3, FS_CardinalityType
    <2>7. ASSUME NEW n \in Folder(s, v), s[n].id \in wanted' \ shown
          PROVE  Rank(s, v, n) > Passed
      <3>1. PICK j \in Folder(rows, v) : rows[j].id = s[n].id
        BY <1>1, <2>1, <2>7 DEF FolderIds, Ids
      <3>2. rows[j].id \in wanted \ shown /\ rows[j].id \notin moved
        BY <1>1, <2>7, <3>1
      <3>3. Rank(rows, v, j) > Passed
        BY <2>1, <3>2
      <3>4. n \in Nat /\ j \in Nat
        BY <1>1, <2>3
      <3> DEFINE P == {k \in Folder(rows, v) : k <= j}
                 Q == {k \in Folder(s, v) : k <= n}
      <3>5. \A k \in P : \E m \in Q : s[m].id = rows[k].id
        <4> SUFFICES ASSUME NEW k \in Folder(rows, v), k <= j
                     PROVE  \E m \in Folder(s, v) : m <= n /\ s[m].id = rows[k].id
          OBVIOUS
        <4>1. PICK m \in Folder(s, v) : s[m].id = rows[k].id
          BY <2>4
        <4>2. m \in DOMAIN s /\ n \in DOMAIN s /\ k \in DOMAIN rows /\ j \in DOMAIN rows
              /\ m \in Nat /\ k \in Nat
          BY <1>1, <2>3
        <4>3. CASE k = j
          <5>1. m = n
            BY <3>1, <4>1, <4>2, <4>3 DEF Unique
          <5>2. QED
            BY <3>4, <4>1, <5>1
        <4>4. CASE k # j
          <5>1. k < j
            BY <3>4, <4>2, <4>4
          <5>2. m < n
            BY <3>1, <3>2, <4>1, <4>2, <5>1 DEF KeepsOrder
          <5>3. QED
            BY <3>4, <4>1, <4>2, <5>2
        <4>5. QED
          BY <4>3, <4>4
      <3>6. IsFiniteSet(P) /\ IsFiniteSet(Q) /\ P \subseteq DOMAIN rows
        BY <1>1, <2>3, <3>4, FolderIsFinite
      <3>7. Cardinality(P) <= Cardinality(Q)
        <4> HIDE DEF P, Q
        <4>1. Unique(rows)
          BY <1>1
        <4>2. QED
          BY <3>5, <3>6, <4>1, FewerPlaces
      <3>8. Cardinality(P) \in Nat /\ Cardinality(Q) \in Nat
        BY <3>6, FS_CardinalityType
      <3>9. Rank(rows, v, j) = Cardinality(P) /\ Rank(s, v, n) = Cardinality(Q)
        BY DEF Rank
      <3>10. QED
        <4> HIDE DEF P, Q
        <4>1. QED
          BY <2>2, <3>3, <3>7, <3>8, <3>9
    <2>8. wanted' \subseteq FolderIds(s)
      BY <1>1, <2>1
    <2>9. QED
      BY <2>1, <2>2, <2>5, <2>6, <2>7, <2>8
  <1>7. QED
    BY <1>2, <1>3, <1>5, <1>6 DEF ListingInv

(* The changes, by what they do to the sequence of rows. *)

(* A row put on top moves each of the others down by one place. *)
LEMMA PutOnTop ==
  ASSUME NEW n \in RowType, NEW s \in Seq(RowType)
  PROVE  /\ <<n>> \o s \in Seq(RowType) /\ Len(<<n>> \o s) = Len(s) + 1
         /\ (<<n>> \o s)[1] = n
         /\ \A k \in 1..Len(s) : (<<n>> \o s)[k + 1] = s[k]
         /\ \A k \in 2..(Len(s) + 1) : (<<n>> \o s)[k] = s[k - 1]
  OBVIOUS

(* A row taken out moves those below it up by one place. *)
LEMMA Dropped ==
  ASSUME rows \in Seq(RowType), NEW i \in DOMAIN rows
  PROVE  /\ Drop(i) \in Seq(RowType) /\ Len(Drop(i)) = Len(rows) - 1
         /\ \A k \in 1..(i - 1) : Drop(i)[k] = rows[k]
         /\ \A k \in i..(Len(rows) - 1) : Drop(i)[k] = rows[k + 1]
  <1> DEFINE a == SubSeq(rows, 1, i - 1)
             b == SubSeq(rows, i + 1, Len(rows))
  <1>1. Len(rows) \in Nat /\ i \in 1..Len(rows) /\ \A k \in 1..Len(rows) : rows[k] \in RowType
    OBVIOUS
  <1>2. a \in Seq(RowType) /\ Len(a) = i - 1 /\ \A k \in 1..(i - 1) : a[k] = rows[k]
    <2>1. \A k \in 1..(i - 1) : rows[k] \in RowType
      BY <1>1
    <2>2. QED
      BY <1>1, <2>1, SubSeqProperties
  <1>3. b \in Seq(RowType) /\ Len(b) = Len(rows) - i
        /\ \A k \in 1..(Len(rows) - i) : b[k] = rows[i + k]
    <2>1. \A k \in (i + 1)..Len(rows) : rows[k] \in RowType
      BY <1>1
    <2>2. /\ b \in Seq(RowType)
          /\ Len(b) = IF i + 1 <= Len(rows) THEN Len(rows) - (i + 1) + 1 ELSE 0
          /\ \A k \in 1..(Len(rows) - (i + 1) + 1) : b[k] = rows[(i + 1) + k - 1]
      BY <1>1, <2>1, SubSeqProperties
    <2>3. QED
      BY <1>1, <2>2
  <1> HIDE DEF a, b
  <1>4. /\ a \o b \in Seq(RowType) /\ Len(a \o b) = Len(rows) - 1
        /\ \A k \in 1..(i - 1) : (a \o b)[k] = a[k]
        /\ \A k \in i..(Len(rows) - 1) : (a \o b)[k] = b[k - (i - 1)]
    BY <1>1, <1>2, <1>3
  <1>5. \A k \in i..(Len(rows) - 1) : b[k - (i - 1)] = rows[k + 1]
    <2> SUFFICES ASSUME NEW k \in i..(Len(rows) - 1) PROVE b[k - (i - 1)] = rows[k + 1]
      OBVIOUS
    <2>1. k - (i - 1) \in 1..(Len(rows) - i) /\ i + (k - (i - 1)) = k + 1
      BY <1>1
    <2>2. QED
      BY <1>3, <2>1
  <1>6. Drop(i) = a \o b
    BY DEF Drop, a, b
  <1>7. QED
    BY <1>2, <1>4, <1>5, <1>6

(* A change of the mailbox is described by the place that each row had, 0 for a row that is
   new.  It keeps ListingInv when the rows that have not moved keep their order. *)
LEMMA ShapedStep ==
  ASSUME ListingInv, NEW s \in Seq(RowType), NEW moved, Becomes(s, moved),
         NEW old \in [1..Len(s) -> 0..Len(rows)],
         \A a, b \in 1..Len(s) : old[a] = old[b] => a = b,
         \A a \in 1..Len(s) : s[a].id = IF old[a] = 0 THEN Fresh ELSE rows[old[a]].id,
         Len(rows) <= Len(s) + 1,
         \A a \in 1..Len(s) : old[a] = 0 => Len(rows) <= Len(s),
         \A a, b \in 1..Len(s) : 0 < old[a] /\ old[a] < old[b] /\ rows[old[b]].id \notin moved
                                   => a < b
  PROVE  ListingInv'
  <1>1. rows \in Seq(RowType) /\ changes \in Nat /\ Unique(rows)
        /\ \A i \in DOMAIN rows : rows[i].id <= Len(rows) + changes
    BY DEF ListingInv, RowsInv
  <1>2. Len(rows) \in Nat /\ Len(s) \in Nat /\ DOMAIN rows = 1..Len(rows)
        /\ DOMAIN s = 1..Len(s)
    BY <1>1
  <1>3. ASSUME NEW i \in 1..Len(rows)
        PROVE  rows[i].id \in Nat /\ rows[i].id <= Len(rows) + changes
    <2>1. rows[i] \in RowType
      BY <1>1, <1>2
    <2>2. QED
      BY <1>1, <1>2, <2>1 DEF RowType
  <1>4. Fresh = Len(rows) + changes + 1 /\ Fresh \in Nat
    BY <1>1, <1>2 DEF Fresh
  <1>5. \A i \in 1..Len(rows) : rows[i].id # Fresh
    BY <1>1, <1>2, <1>3, <1>4
  <1>6. ASSUME NEW i \in 1..Len(rows), NEW a \in 1..Len(s), s[a].id = rows[i].id
        PROVE  old[a] = i
    <2>1. old[a] # 0
      BY <1>5, <1>6
    <2>2. old[a] \in 1..Len(rows)
      BY <1>2, <2>1
    <2>3. rows[old[a]].id = rows[i].id
      BY <1>6, <2>1
    <2>4. QED
      BY <1>1, <1>2, <2>2, <2>3 DEF Unique
  <1>7. Unique(s)
    <2> SUFFICES ASSUME NEW a \in 1..Len(s), NEW b \in 1..Len(s), s[a].id = s[b].id
                 PROVE  a = b
      BY <1>2 DEF Unique
    <2>1. CASE old[a] = 0
      <3>1. s[b].id = Fresh
        BY <2>1
      <3>2. old[b] = 0
        <4> SUFFICES ASSUME old[b] # 0 PROVE FALSE
          OBVIOUS
        <4>1. old[b] \in 1..Len(rows) /\ s[b].id = rows[old[b]].id
          BY <1>2
        <4>2. QED
          BY <1>5, <3>1, <4>1
      <3>3. QED
        BY <2>1, <3>2
    <2>2. CASE old[a] # 0
      <3>1. old[a] \in 1..Len(rows) /\ s[a].id = rows[old[a]].id
        <4>1. old[a] \in 0..Len(rows)
          OBVIOUS
        <4>2. QED
          BY <1>2, <2>2, <4>1
      <3>2. old[b] = old[a]
        BY <1>6, <3>1
      <3>3. QED
        BY <3>2
    <2>3. QED
      BY <2>1, <2>2
  <1>8. \A a \in DOMAIN s : s[a].id <= Len(s) + changes + 1
    <2> SUFFICES ASSUME NEW a \in 1..Len(s) PROVE s[a].id <= Len(s) + changes + 1
      BY <1>2
    <2>1. CASE old[a] = 0
      <3>1. s[a].id = Fresh /\ Len(rows) <= Len(s)
        BY <2>1
      <3>2. QED
        BY <3>1, <1>1, <1>2, <1>4
    <2>2. CASE old[a] # 0
      <3>1. old[a] \in 1..Len(rows) /\ s[a].id = rows[old[a]].id
        <4>1. old[a] \in 0..Len(rows)
          OBVIOUS
        <4>2. QED
          BY <1>2, <2>2, <4>1
      <3>2. QED
        BY <1>1, <1>2, <1>3, <3>1
    <2>3. QED
      BY <2>1, <2>2
  <1>9. KeepsOrder(s, moved)
    <2> SUFFICES ASSUME NEW i \in 1..Len(rows), NEW j \in 1..Len(rows), i < j,
                        rows[j].id \notin moved,
                        NEW a \in 1..Len(s), NEW b \in 1..Len(s),
                        s[a].id = rows[i].id, s[b].id = rows[j].id
                 PROVE  a < b
      BY <1>2 DEF KeepsOrder
    <2>1. old[a] = i /\ old[b] = j
      BY <1>6
    <2>2. QED
      BY <2>1
  <1>10. QED
    BY <1>7, <1>8, <1>9, BecomesStep

(* What the invariant says of the rows. *)
LEMMA RowsOf ==
  ASSUME ListingInv
  PROVE  /\ rows \in Seq(RowType) /\ Len(rows) \in Nat /\ DOMAIN rows = 1..Len(rows)
         /\ changes \in Nat /\ Fresh \in Nat
         /\ \A i \in 1..Len(rows) : rows[i] \in RowType
  <1>1. rows \in Seq(RowType) /\ changes \in Nat
    BY DEF ListingInv, RowsInv
  <1>2. Len(rows) \in Nat /\ DOMAIN rows = 1..Len(rows)
        /\ \A i \in 1..Len(rows) : rows[i] \in RowType
    BY <1>1
  <1>3. QED
    BY <1>1, <1>2 DEF Fresh

(* New mail is put on top. *)
LEMMA ArriveStep ==
  ASSUME ListingInv, Arrive
  PROVE  ListingInv'
  <1>1. PICK m \in Mail : Becomes(<<[id |-> Fresh, kind |-> m.kind, starred |-> m.starred,
                                     hits |-> m.hits]>> \o rows, {})
    BY DEF Arrive
  <1> DEFINE n == [id |-> Fresh, kind |-> m.kind, starred |-> m.starred, hits |-> m.hits]
             s == <<n>> \o rows
  <1>2. n \in RowType /\ n.id = Fresh
    BY RowsOf, ListingAssumption DEF RowType
  <1>3. s \in Seq(RowType) /\ Len(s) = Len(rows) + 1 /\ s[1] = n
        /\ \A k \in 2..(Len(rows) + 1) : s[k] = rows[k - 1]
    BY RowsOf, <1>2, PutOnTop
  <1>4. Becomes(s, {})
    BY <1>1
  <1> HIDE DEF n, s
  <1> DEFINE old == [k \in 1..Len(s) |-> k - 1]
  <1>5. old \in [1..Len(s) -> 0..Len(rows)]
    BY RowsOf, <1>3
  <1>6. \A a, b \in 1..Len(s) : old[a] = old[b] => a = b
    BY RowsOf, <1>3
  <1>7. ASSUME NEW a \in 1..Len(s)
        PROVE  s[a].id = IF old[a] = 0 THEN Fresh ELSE rows[old[a]].id
    <2>1. CASE a = 1
      BY <1>2, <1>3, <2>1
    <2>2. CASE a # 1
      <3>1. a \in 2..(Len(rows) + 1)
        BY RowsOf, <1>3, <2>2
      <3>2. s[a] = rows[a - 1] /\ old[a] = a - 1 /\ a - 1 # 0
        BY <1>3, <3>1
      <3>3. QED
        BY <3>2
    <2>3. QED
      BY <2>1, <2>2
  <1>8. /\ Len(rows) <= Len(s) + 1
        /\ \A a \in 1..Len(s) : old[a] = 0 => Len(rows) <= Len(s)
        /\ \A a, b \in 1..Len(s) : 0 < old[a] /\ old[a] < old[b] /\ rows[old[b]].id \notin {}
                                     => a < b
    BY RowsOf, <1>3
  <1> HIDE DEF old
  <1>9. QED
    BY <1>3, <1>4, <1>5, <1>6, <1>7, <1>8, ShapedStep

(* A row is changed where it is. *)
LEMMA InPlaceStep ==
  ASSUME ListingInv, NEW i \in DOMAIN rows, NEW r \in RowType, r.id = rows[i].id,
         Becomes([rows EXCEPT ![i] = r], {})
  PROVE  ListingInv'
  <1> DEFINE s == [rows EXCEPT ![i] = r]
             old == [k \in 1..Len(rows) |-> k]
  <1>1. s \in Seq(RowType) /\ Len(s) = Len(rows)
        /\ \A a \in 1..Len(rows) : s[a] = IF a = i THEN r ELSE rows[a]
    BY RowsOf
  <1>2. Becomes(s, {})
    OBVIOUS
  <1> HIDE DEF s
  <1>3. old \in [1..Len(s) -> 0..Len(rows)] /\ \A a, b \in 1..Len(s) : old[a] = old[b] => a = b
    BY RowsOf, <1>1
  <1>4. \A a \in 1..Len(s) : s[a].id = IF old[a] = 0 THEN Fresh ELSE rows[old[a]].id
    <2> SUFFICES ASSUME NEW a \in 1..Len(rows) PROVE s[a].id = rows[a].id /\ a # 0
      BY <1>1
    <2>1. QED
      BY RowsOf, <1>1
  <1>5. /\ Len(rows) <= Len(s) + 1
        /\ \A a \in 1..Len(s) : old[a] = 0 => Len(rows) <= Len(s)
        /\ \A a, b \in 1..Len(s) : 0 < old[a] /\ old[a] < old[b] /\ rows[old[b]].id \notin {}
                                     => a < b
    BY RowsOf, <1>1
  <1> HIDE DEF old
  <1>6. QED
    BY <1>1, <1>2, <1>3, <1>4, <1>5, ShapedStep

(* A row is taken out. *)
LEMMA DeleteStep ==
  ASSUME ListingInv, Delete
  PROVE  ListingInv'
  <1>1. PICK i \in DOMAIN rows : Becomes(Drop(i), {})
    BY DEF Delete
  <1> DEFINE s == Drop(i)
             old == [k \in 1..Len(s) |-> IF k < i THEN k ELSE k + 1]
  <1>2. Len(rows) \in Nat /\ i \in 1..Len(rows) /\ rows \in Seq(RowType)
    BY RowsOf
  <1>3. s \in Seq(RowType) /\ Len(s) = Len(rows) - 1
    BY <1>2, Dropped
  <1>4. /\ \A k \in 1..(i - 1) : s[k] = rows[k]
        /\ \A k \in i..(Len(rows) - 1) : s[k] = rows[k + 1]
    BY <1>2, Dropped
  <1> HIDE DEF s
  <1>5. old \in [1..Len(s) -> 0..Len(rows)] /\ \A a, b \in 1..Len(s) : old[a] = old[b] => a = b
    BY <1>2, <1>3
  <1>6. \A a \in 1..Len(s) : s[a].id = IF old[a] = 0 THEN Fresh ELSE rows[old[a]].id
    <2> SUFFICES ASSUME NEW a \in 1..Len(s) PROVE s[a] = rows[old[a]] /\ old[a] # 0
      OBVIOUS
    <2>1. CASE a < i
      <3>1. a \in 1..(i - 1) /\ old[a] = a /\ a # 0
        BY <1>2, <1>3, <2>1
      <3>2. QED
        BY <1>4, <3>1
    <2>2. CASE ~(a < i)
      <3>1. a \in i..(Len(rows) - 1) /\ old[a] = a + 1 /\ a + 1 # 0
        BY <1>2, <1>3, <2>2
      <3>2. QED
        BY <1>4, <3>1
    <2>3. QED
      BY <2>1, <2>2
  <1>7. /\ Len(rows) <= Len(s) + 1
        /\ \A a \in 1..Len(s) : old[a] = 0 => Len(rows) <= Len(s)
        /\ \A a, b \in 1..Len(s) : 0 < old[a] /\ old[a] < old[b] /\ rows[old[b]].id \notin {}
                                     => a < b
    BY <1>2, <1>3
  <1>8. Becomes(s, {})
    BY <1>1 DEF s
  <1> HIDE DEF old
  <1>9. QED
    BY <1>3, <1>5, <1>6, <1>7, <1>8, ShapedStep

(* A row moves to the top. *)
LEMMA ToTopStep ==
  ASSUME ListingInv, NEW i \in DOMAIN rows, NEW r \in RowType, r.id = rows[i].id,
         Becomes(ToTop(i, r), {r.id})
  PROVE  ListingInv'
  <1> DEFINE d == Drop(i)
             s == ToTop(i, r)
             old == [k \in 1..Len(s) |-> IF k = 1 THEN i ELSE IF k - 1 < i THEN k - 1 ELSE k]
  <1>2. Len(rows) \in Nat /\ i \in 1..Len(rows) /\ rows \in Seq(RowType)
    BY RowsOf
  <1>3. d \in Seq(RowType) /\ Len(d) = Len(rows) - 1
    BY <1>2, Dropped
  <1>4. /\ \A k \in 1..(i - 1) : d[k] = rows[k]
        /\ \A k \in i..(Len(rows) - 1) : d[k] = rows[k + 1]
    BY <1>2, Dropped
  <1> HIDE DEF d
  <1>5. s = <<r>> \o d
    BY DEF ToTop, d
  <1> HIDE DEF s
  <1>6. s \in Seq(RowType) /\ Len(s) = Len(rows) /\ s[1] = r
    BY <1>2, <1>3, <1>5, PutOnTop
  <1>7. \A k \in 2..Len(rows) : s[k] = d[k - 1]
    BY <1>2, <1>3, <1>5, PutOnTop
  <1>8. old \in [1..Len(s) -> 0..Len(rows)] /\ \A a, b \in 1..Len(s) : old[a] = old[b] => a = b
    BY <1>2, <1>6
  <1>9. \A a \in 1..Len(s) : s[a].id = IF old[a] = 0 THEN Fresh ELSE rows[old[a]].id
    <2> SUFFICES ASSUME NEW a \in 1..Len(s) PROVE s[a].id = rows[old[a]].id /\ old[a] # 0
      OBVIOUS
    <2>0. CASE a = 1
      BY <1>2, <1>6, <2>0
    <2>1. CASE a # 1 /\ a - 1 < i
      <3>1. a - 1 \in 1..(i - 1) /\ old[a] = a - 1 /\ a - 1 # 0 /\ a \in 2..Len(rows)
        BY <1>2, <1>6, <2>1
      <3>2. QED
        BY <1>4, <1>7, <3>1
    <2>2. CASE a # 1 /\ ~(a - 1 < i)
      <3>1. a - 1 \in i..(Len(rows) - 1) /\ old[a] = a /\ a # 0 /\ a \in 2..Len(rows)
            /\ (a - 1) + 1 = a
        BY <1>2, <1>6, <2>2
      <3>2. d[a - 1] = rows[a]
        BY <1>4, <3>1
      <3>3. QED
        BY <1>7, <3>1, <3>2
    <2>3. QED
      BY <2>0, <2>1, <2>2
  <1>10. /\ Len(rows) <= Len(s) + 1
         /\ \A a \in 1..Len(s) : old[a] = 0 => Len(rows) <= Len(s)
    BY <1>2, <1>6
  <1>11. \A a, b \in 1..Len(s) :
           0 < old[a] /\ old[a] < old[b] /\ rows[old[b]].id \notin {r.id} => a < b
    <2> SUFFICES ASSUME NEW a \in 1..Len(s), NEW b \in 1..Len(s), old[a] < old[b], old[b] # i
                 PROVE  a < b
      OBVIOUS
    <2>1. QED
      BY <1>2, <1>6
  <1>12. Becomes(s, {r.id})
    BY DEF s
  <1> HIDE DEF old
  <1>13. QED
    BY <1>6, <1>8, <1>9, <1>10, <1>11, <1>12, ShapedStep

(* A reply is put on top, and its conversation under it. *)
LEMMA ReplyArrivesStep ==
  ASSUME ListingInv, ReplyArrives
  PROVE  ListingInv'
  <1>1. PICK i \in DOMAIN rows :
          Becomes(<<[rows[i] EXCEPT !.id = Fresh, !.kind = "child", !.starred = FALSE]>>
                    \o ToTop(i, rows[i]), {rows[i].id})
    BY DEF ReplyArrives
  <1> DEFINE c == [rows[i] EXCEPT !.id = Fresh, !.kind = "child", !.starred = FALSE]
             d == Drop(i)
             t == ToTop(i, rows[i])
             s == <<c>> \o t
             old == [k \in 1..Len(s) |->
                       IF k = 1 THEN 0 ELSE IF k = 2 THEN i
                       ELSE IF k - 2 < i THEN k - 2 ELSE k - 1]
  <1>2. Len(rows) \in Nat /\ i \in 1..Len(rows) /\ rows \in Seq(RowType) /\ rows[i] \in RowType
    BY RowsOf
  <1>3. d \in Seq(RowType) /\ Len(d) = Len(rows) - 1
    BY <1>2, Dropped
  <1>4. /\ \A k \in 1..(i - 1) : d[k] = rows[k]
        /\ \A k \in i..(Len(rows) - 1) : d[k] = rows[k + 1]
    BY <1>2, Dropped
  <1>a. c \in RowType /\ c.id = Fresh
    BY <1>2, RowsOf DEF RowType, Kinds
  <1>b. Becomes(s, {rows[i].id})
    BY <1>1
  <1> HIDE DEF d, c
  <1>5. t = <<rows[i]>> \o d
    BY DEF ToTop, d
  <1> HIDE DEF t
  <1>6. t \in Seq(RowType) /\ Len(t) = Len(rows) /\ t[1] = rows[i]
    BY <1>2, <1>3, <1>5, PutOnTop
  <1>7. \A k \in 2..Len(rows) : t[k] = d[k - 1]
    BY <1>2, <1>3, <1>5, PutOnTop
  <1>c. s \in Seq(RowType) /\ Len(s) = Len(rows) + 1 /\ s[1] = c
        /\ \A k \in 2..(Len(rows) + 1) : s[k] = t[k - 1]
    BY <1>a, <1>6, PutOnTop
  <1> HIDE DEF s
  <1>8. old \in [1..Len(s) -> 0..Len(rows)] /\ \A a, b \in 1..Len(s) : old[a] = old[b] => a = b
    BY <1>2, <1>c
  <1>9. \A a \in 1..Len(s) : s[a].id = IF old[a] = 0 THEN Fresh ELSE rows[old[a]].id
    <2> SUFFICES ASSUME NEW a \in 1..Len(s), a # 1
                 PROVE  s[a].id = rows[old[a]].id /\ old[a] # 0
      BY <1>a, <1>c
    <2>0. CASE a = 2
      BY <1>2, <1>6, <1>c, <2>0
    <2>1. CASE a # 2 /\ a - 2 < i
      <3>1. a - 2 \in 1..(i - 1) /\ old[a] = a - 2 /\ a - 2 # 0 /\ a \in 2..(Len(rows) + 1)
            /\ a - 1 \in 2..Len(rows) /\ (a - 1) - 1 = a - 2
        BY <1>2, <1>c, <2>1
      <3>2. s[a] = t[a - 1] /\ t[a - 1] = d[a - 2] /\ d[a - 2] = rows[a - 2]
        BY <1>4, <1>7, <1>c, <3>1
      <3>3. QED
        BY <3>1, <3>2
    <2>2. CASE a # 2 /\ ~(a - 2 < i)
      <3>1. a - 2 \in i..(Len(rows) - 1) /\ old[a] = a - 1 /\ a - 1 # 0
            /\ a \in 2..(Len(rows) + 1) /\ a - 1 \in 2..Len(rows) /\ (a - 1) - 1 = a - 2
            /\ (a - 2) + 1 = a - 1
        BY <1>2, <1>c, <2>2
      <3>2. s[a] = t[a - 1] /\ t[a - 1] = d[a - 2] /\ d[a - 2] = rows[a - 1]
        BY <1>4, <1>7, <1>c, <3>1
      <3>3. QED
        BY <3>1, <3>2
    <2>3. QED
      BY <2>0, <2>1, <2>2
  <1>10. /\ Len(rows) <= Len(s) + 1
         /\ \A a \in 1..Len(s) : old[a] = 0 => Len(rows) <= Len(s)
    BY <1>2, <1>c
  <1>11. \A a, b \in 1..Len(s) :
           0 < old[a] /\ old[a] < old[b] /\ rows[old[b]].id \notin {rows[i].id} => a < b
    <2> SUFFICES ASSUME NEW a \in 1..Len(s), NEW b \in 1..Len(s), 0 < old[a],
                        old[a] < old[b], old[b] # i
                 PROVE  a < b
      OBVIOUS
    <2>1. QED
      BY <1>2, <1>c
  <1> HIDE DEF old
  <1>12. QED
    BY <1>b, <1>c, <1>8, <1>9, <1>10, <1>11, ShapedStep

(* A draft that is sent stays where it is, but among the favourites. *)
LEMMA AdvanceStep ==
  ASSUME ListingInv, Advance
  PROVE  ListingInv'
  <1>1. PICK i \in DOMAIN rows, k \in Kinds :
          IF reader.view.folder = "favorites" /\ k = "sent"
          THEN Becomes(ToTop(i, [rows[i] EXCEPT !.kind = k]),
                       {[rows[i] EXCEPT !.kind = k].id})
          ELSE Becomes([rows EXCEPT ![i] = [rows[i] EXCEPT !.kind = k]], {})
    BY DEF Advance
  <1> DEFINE r == [rows[i] EXCEPT !.kind = k]
  <1>2. r \in RowType /\ r.id = rows[i].id
    <2>1. rows[i] \in RowType
      BY RowsOf
    <2>2. QED
      BY <2>1 DEF RowType
  <1>3. \/ Becomes(ToTop(i, r), {r.id})
        \/ Becomes([rows EXCEPT ![i] = r], {})
    BY <1>1, Zenon
  <1> HIDE DEF r
  <1>4. QED
    BY <1>2, <1>3, ToTopStep, InPlaceStep

(* A label or a star changes a row where it is. *)
LEMMA MarkStep ==
  ASSUME ListingInv, Mark
  PROVE  ListingInv'
  <1>1. PICK i \in DOMAIN rows :
          \/ Becomes([rows EXCEPT ![i].hits = @ \cup {"label"}], {})
          \/ Becomes([rows EXCEPT ![i].starred = ~@], {})
    BY DEF Mark
  <1> DEFINE p == [rows[i] EXCEPT !.hits = rows[i].hits \cup {"label"}]
             q == [rows[i] EXCEPT !.starred = ~rows[i].starred]
  <1>2. rows[i] \in RowType
    BY RowsOf
  <1>3. p \in RowType /\ p.id = rows[i].id
    BY <1>2 DEF RowType, Filters
  <1>4. q \in RowType /\ q.id = rows[i].id
    BY <1>2 DEF RowType
  <1>5. /\ [rows EXCEPT ![i].hits = @ \cup {"label"}] = [rows EXCEPT ![i] = p]
        /\ [rows EXCEPT ![i].starred = ~@] = [rows EXCEPT ![i] = q]
    OBVIOUS
  <1> HIDE DEF p, q
  <1>6. \/ Becomes([rows EXCEPT ![i] = p], {})
        \/ Becomes([rows EXCEPT ![i] = q], {})
    BY <1>1, <1>5
  <1>7. QED
    BY <1>3, <1>4, <1>6, InPlaceStep

(* A folder is opened at its first page. *)
LEMMA OpenStep ==
  ASSUME ListingInv, Open
  PROVE  ListingInv'
  <1>0. PICK n \in 0..MaxRows : \E s \in [1..n -> Mail] : \E v \in Views :
          /\ rows' = [i \in 1..n |-> [id |-> i, kind |-> s[i].kind, starred |-> s[i].starred,
                                      hits |-> s[i].hits]]
          /\ reader' = [view |-> v, phase |-> "list", page |-> 1, total |-> 1]
    BY DEF Open
  <1>1. PICK s \in [1..n -> Mail], v \in Views :
          /\ rows' = [i \in 1..n |-> [id |-> i, kind |-> s[i].kind, starred |-> s[i].starred,
                                      hits |-> s[i].hits]]
          /\ reader' = [view |-> v, phase |-> "list", page |-> 1, total |-> 1]
    BY <1>0
  <1>2. reader.phase = "idle" /\ UNCHANGED <<shown, wanted, blank, excused, changes, faults>>
        /\ wanted = {} /\ changes \in Nat
    BY DEF Open, ListingInv, ReaderInv, RowsInv
  <1>3. ReaderInv'
    BY <1>1, <1>2, ListingAssumption DEF ReaderInv, ViewType
  <1>4. RowsInv'
    <2>1. n \in Nat /\ \A i \in 1..n : s[i] \in Mail /\ rows'[i].id = i
      BY <1>1, ListingAssumption
    <2>2. \A i \in 1..n : [id |-> i, kind |-> s[i].kind, starred |-> s[i].starred,
                           hits |-> s[i].hits] \in RowType
      BY <2>1, ListingAssumption DEF RowType
    <2>3. rows' \in Seq(RowType) /\ Len(rows') = n /\ DOMAIN rows' = 1..n
      BY <1>1, <2>1, <2>2
    <2>4. QED
      BY <1>2, <2>1, <2>3 DEF RowsInv, Unique
  <1>5. PageInv'
    BY <1>1, <1>2 DEF PageInv
  <1>6. PagingMissesNothing'
    BY <1>1 DEF PagingMissesNothing
  <1>7. QED
    BY <1>3, <1>4, <1>5, <1>6 DEF ListingInv

(* What the invariant says of a reader who has opened a folder. *)
LEMMA ReaderOf ==
  ASSUME ListingInv, reader.phase # "idle"
  PROVE  /\ reader = [view |-> reader.view, phase |-> reader.phase, page |-> reader.page,
                      total |-> reader.total]
         /\ reader.view \in ViewType /\ reader.page \in Nat \ {0} /\ reader.total \in Nat
         /\ (reader.page - 1) * PageSize \in Nat /\ reader.page * PageSize \in Nat
         /\ reader.page * PageSize = (reader.page - 1) * PageSize + PageSize
  <1>1. /\ reader.view \in ViewType /\ reader.page \in Nat \ {0} /\ reader.total \in Nat
        /\ reader = [view |-> reader.view, phase |-> reader.phase, page |-> reader.page,
                     total |-> reader.total]
    BY DEF ListingInv, ReaderInv
  <1>2. QED
    BY <1>1, PagesBySize

(* The rank of a row of the folder is one of 1, 2, ..., the number of its rows. *)
LEMMA RankOf ==
  ASSUME NEW T, NEW s \in Seq(T), NEW v, NEW i \in Folder(s, v)
  PROVE  /\ Rank(s, v, i) \in Nat /\ 1 <= Rank(s, v, i)
         /\ Cardinality(Folder(s, v)) \in Nat /\ Rank(s, v, i) <= Cardinality(Folder(s, v))
  <1> DEFINE F == Folder(s, v)
             P == {j \in F : j <= i}
  <1>1. i \in Nat /\ IsFiniteSet(F)
    <2>1. F \subseteq DOMAIN s /\ IsFiniteSet(F)
      BY FolderIsFinite
    <2>2. DOMAIN s = 1..Len(s) /\ Len(s) \in Nat
      OBVIOUS
    <2>3. QED
      BY <2>1, <2>2
  <1>2. i \in P /\ P \subseteq F
    BY <1>1
  <1>3. Rank(s, v, i) = Cardinality(P)
    BY DEF Rank
  <1> HIDE DEF F, P
  <1>4. Cardinality(P) \in Nat /\ Cardinality(F) \in Nat /\ Cardinality(P) <= Cardinality(F)
        /\ IsFiniteSet(P)
    BY <1>1, <1>2, FS_Subset, FS_CardinalityType
  <1>5. Cardinality(P) # 0
    BY <1>2, <1>4, FS_EmptySet
  <1>6. QED
    BY <1>3, <1>4, <1>5 DEF F

(* The rows of a page are read: what was wanted and is on the page has been shown. *)
LEMMA ListRowsStep ==
  ASSUME ListingInv, ListRows
  PROVE  ListingInv'
  <1> DEFINE v == reader.view
             p == reader.page
             page == Page(rows, v, p)
  <1>1. /\ reader.phase = "list" /\ reader' = [reader EXCEPT !.phase = "count"]
        /\ shown' = shown \cup Ids(rows, page)
        /\ wanted' = (IF p = 1 THEN FolderIds(rows) ELSE wanted)
        /\ blank' = (page = {})
        /\ UNCHANGED <<rows, excused, changes, faults>>
    BY DEF ListRows
  <1>2. /\ v \in ViewType /\ p \in Nat \ {0} /\ reader.total \in Nat
        /\ (p - 1) * PageSize \in Nat /\ p * PageSize \in Nat
        /\ p * PageSize = (p - 1) * PageSize + PageSize
        /\ rows \in Seq(RowType) /\ PageSize \in Nat \ {0}
    BY <1>1, ReaderOf, RowsOf, ListingAssumption
  <1>3. reader' = [view |-> v, phase |-> "count", page |-> p, total |-> reader.total]
    BY <1>1, ReaderOf
  <1>4. ReaderInv'
    BY <1>2, <1>3 DEF ReaderInv
  <1>5. RowsInv'
    BY <1>1 DEF ListingInv, RowsInv, Unique
  <1>6. ASSUME ~excused
        PROVE  /\ wanted \subseteq FolderIds(rows)
               /\ \A i \in Folder(rows, v) : rows[i].id \in wanted \ shown
                                               => Rank(rows, v, i) > (p - 1) * PageSize
               /\ p > 1 => Cardinality(Folder(rows, v)) > (p - 1) * PageSize
    BY <1>1, <1>2, <1>6 DEF ListingInv, PageInv, Behind, Passed
  <1>7. ASSUME ~excused, NEW i \in Folder(rows, v), rows[i].id \in wanted' \ shown'
        PROVE  Rank(rows, v, i) > p * PageSize
    <2>1. i \notin page
      BY <1>1, <1>7 DEF Ids
    <2>2. Rank(rows, v, i) \in Nat /\ Rank(rows, v, i) >= 1
      BY <1>2, RankOf
    <2>3. ~(Rank(rows, v, i) \in ((p - 1) * PageSize + 1)..(p * PageSize))
      BY <2>1 DEF Page
    <2>4. Rank(rows, v, i) > (p - 1) * PageSize
      <3>1. CASE p = 1
        <4>1. (p - 1) * PageSize = 0
          BY <1>2, <3>1
        <4>2. QED
          BY <2>2, <4>1
      <3>2. CASE p # 1
        <4>1. rows[i].id \in wanted \ shown
          BY <1>1, <1>7, <3>2
        <4>2. QED
          BY <1>6, <1>7, <4>1
      <3>3. QED
        BY <3>1, <3>2
    <2>5. QED
      BY <1>2, <2>2, <2>3, <2>4
  <1>8. PageInv'
    <2> SUFFICES ASSUME ~excused
                 PROVE  /\ wanted' \subseteq FolderIds(rows)
                        /\ \A i \in Folder(rows, v) : rows[i].id \in wanted' \ shown'
                                                     => Rank(rows, v, i) > p * PageSize
      BY <1>1, <1>3 DEF PageInv, Behind, Passed, FolderIds
    <2>1. QED
      BY <1>1, <1>6, <1>7
  <1>9. PagingMissesNothing'
    <2> SUFFICES ASSUME ~excused, p > 1 PROVE page # {}
      BY <1>1, <1>3 DEF PagingMissesNothing
    <2>1. PICK i \in Folder(rows, v) : Rank(rows, v, i) = (p - 1) * PageSize + 1
      BY <1>2, <1>6, RankTaken
    <2>2. (p - 1) * PageSize + 1 \in ((p - 1) * PageSize + 1)..(p * PageSize)
      BY <1>2
    <2>3. i \in page
      BY <2>1, <2>2 DEF Page
    <2>4. QED
      BY <2>3
  <1>10. QED
    BY <1>4, <1>5, <1>8, <1>9 DEF ListingInv

(* The rows of a page cannot be read. *)
LEMMA ListFailsStep ==
  ASSUME ListingInv, ListFails
  PROVE  ListingInv'
  <1>1. reader.phase = "list" /\ UNCHANGED <<rows, shown, wanted, changes>>
    BY DEF ListFails
  <1>2. CASE UNCHANGED <<reader, blank, excused>>
    <2>1. UNCHANGED <<rows, reader, shown, wanted, blank, excused, changes>>
      BY <1>1, <1>2
    <2>2. ReaderInv' /\ RowsInv' /\ PagingMissesNothing'
      BY <2>1 DEF ListingInv, ReaderInv, RowsInv, Unique, PagingMissesNothing
    <2>3. PageInv'
      BY <2>1 DEF ListingInv, PageInv, Behind, Passed, FolderIds
    <2>4. QED
      BY <2>2, <2>3 DEF ListingInv
  <1>3. CASE reader' = [reader EXCEPT !.phase = "count"] /\ excused' = TRUE
    <2>1. ReaderInv'
      BY <1>1, <1>3, ReaderOf DEF ReaderInv
    <2>2. RowsInv' /\ PagingMissesNothing' /\ PageInv'
      BY <1>1, <1>3 DEF ListingInv, RowsInv, Unique, PagingMissesNothing, PageInv
    <2>3. QED
      BY <2>1, <2>2 DEF ListingInv
  <1>4. QED
    BY <1>2, <1>3 DEF ListFails

(* The rows are counted: the number of pages is that of the folder as it is now. *)
LEMMA CountRowsStep ==
  ASSUME ListingInv, CountRows
  PROVE  ListingInv'
  <1> DEFINE v == reader.view
             p == reader.page
             total == calculate_total_pages(Count(rows, v))
  <1>1. /\ reader.phase = "count"
        /\ reader' = [reader EXCEPT !.phase = "shown", !.total = total]
        /\ UNCHANGED <<rows, shown, wanted, blank, excused, changes, faults>>
    BY DEF CountRows
  <1>2. /\ v \in ViewType /\ p \in Nat \ {0} /\ p * PageSize \in Nat
        /\ rows \in Seq(RowType)
    BY <1>1, ReaderOf, RowsOf
  <1>3. reader' = [view |-> v, phase |-> "shown", page |-> p, total |-> total]
    BY <1>1, ReaderOf
  <1>4. Count(rows, v) = Cardinality(Folder(rows, v)) /\ Cardinality(Folder(rows, v)) \in Nat
    BY <1>2, CountedIsListed, FolderIsFinite, FS_CardinalityType
  <1>5. /\ total \in Nat
        /\ p >= total => Cardinality(Folder(rows, v)) <= p * PageSize
        /\ p < total => Cardinality(Folder(rows, v)) > p * PageSize
    BY <1>2, <1>4, TotalPages
  <1> HIDE DEF total
  <1>6. ReaderInv' /\ RowsInv'
    BY <1>1, <1>2, <1>3, <1>5 DEF ListingInv, ReaderInv, RowsInv, Unique
  <1>7. ASSUME ~excused
        PROVE  /\ wanted \subseteq FolderIds(rows)
               /\ \A i \in Folder(rows, v) : rows[i].id \in wanted \ shown
                                               => Rank(rows, v, i) > p * PageSize
    BY <1>1, <1>7 DEF ListingInv, PageInv, Behind, Passed
  <1>8. PageInv'
    <2> SUFFICES ASSUME ~excused
                 PROVE  /\ wanted \subseteq FolderIds(rows)
                        /\ \A i \in Folder(rows, v) : rows[i].id \in wanted \ shown
                                                        => Rank(rows, v, i) > p * PageSize
                        /\ p < total => Cardinality(Folder(rows, v)) > p * PageSize
      BY <1>1, <1>3 DEF PageInv, Behind, Passed, FolderIds
    <2>1. QED
      BY <1>5, <1>7
  <1>9. PagingMissesNothing'
    <2> SUFFICES ASSUME ~excused, p >= total, NEW id \in wanted PROVE id \in shown
      BY <1>1, <1>3 DEF PagingMissesNothing
    <2>1. PICK i \in Folder(rows, v) : rows[i].id = id
      BY <1>7 DEF FolderIds, Ids
    <2>2. Rank(rows, v, i) \in Nat /\ Rank(rows, v, i) <= Cardinality(Folder(rows, v))
      BY <1>2, RankOf
    <2>3. ~(Rank(rows, v, i) > p * PageSize)
      BY <1>2, <1>4, <1>5, <2>2
    <2>4. QED
      BY <1>7, <2>1, <2>3
  <1>10. QED
    BY <1>6, <1>8, <1>9 DEF ListingInv

(* The rows cannot be counted. *)
LEMMA CountFailsStep ==
  ASSUME ListingInv, CountFails
  PROVE  ListingInv'
  <1>1. /\ reader.phase = "count" /\ excused' = TRUE
        /\ reader' = [reader EXCEPT !.phase = "shown", !.total = calculate_total_pages(0)]
        /\ UNCHANGED <<rows, shown, wanted, blank, changes>>
    BY DEF CountFails
  <1>2. calculate_total_pages(0) \in Nat
    BY DEF calculate_total_pages
  <1>3. ReaderInv'
    <2>1. reader' = [view |-> reader.view, phase |-> "shown", page |-> reader.page,
                     total |-> calculate_total_pages(0)]
      BY <1>1, ReaderOf
    <2>2. reader.view \in ViewType /\ reader.page \in Nat \ {0}
      BY <1>1, ReaderOf
    <2>3. /\ reader'.view = reader.view /\ reader'.phase = "shown"
          /\ reader'.page = reader.page /\ reader'.total = calculate_total_pages(0)
      BY <2>1
    <2>4. QED
      BY <1>2, <2>1, <2>2, <2>3 DEF ReaderInv
  <1>4. RowsInv' /\ PagingMissesNothing' /\ PageInv'
    BY <1>1 DEF ListingInv, RowsInv, Unique, PagingMissesNothing, PageInv
  <1>5. QED
    BY <1>3, <1>4 DEF ListingInv

(* The reader follows the link to the next page. *)
LEMMA NextPageStep ==
  ASSUME ListingInv, NextPage
  PROVE  ListingInv'
  <1> DEFINE v == reader.view
             p == reader.page
  <1>1. /\ reader.phase = "shown" /\ p < reader.total
        /\ reader' = [reader EXCEPT !.phase = "list", !.page = p + 1]
        /\ UNCHANGED <<rows, shown, wanted, blank, excused, changes, faults>>
    BY DEF NextPage
  <1>2. v \in ViewType /\ p \in Nat \ {0} /\ p * PageSize \in Nat /\ reader.total \in Nat
    BY <1>1, ReaderOf
  <1>3. reader' = [view |-> v, phase |-> "list", page |-> p + 1, total |-> reader.total]
    BY <1>1, ReaderOf
  <1>4. ReaderInv' /\ RowsInv'
    <2>1. ReaderInv'
      <3>1. /\ reader'.view = v /\ reader'.phase = "list" /\ reader'.page = p + 1
            /\ reader'.total = reader.total
        BY <1>3
      <3>2. QED
        BY <1>2, <1>3, <3>1 DEF ReaderInv
    <2>2. RowsInv'
      BY <1>1 DEF ListingInv, RowsInv, Unique
    <2>3. QED
      BY <2>1, <2>2
  <1>5. Passed = p * PageSize /\ Passed' = p * PageSize
    <2>1. (p + 1) - 1 = p
      BY <1>2
    <2>2. QED
      BY <1>1, <1>3, <2>1 DEF Passed
  <1>6. PageInv'
    <2> SUFFICES ASSUME ~excused
                 PROVE  /\ wanted \subseteq FolderIds(rows)
                        /\ \A i \in Folder(rows, v) : rows[i].id \in wanted \ shown
                                                        => Rank(rows, v, i) > p * PageSize
                        /\ Cardinality(Folder(rows, v)) > p * PageSize
      BY <1>1, <1>3, <1>5 DEF PageInv, Behind, FolderIds
    <2>1. QED
      BY <1>1, <1>5 DEF ListingInv, PageInv, Behind
  <1>7. PagingMissesNothing'
    BY <1>3 DEF PagingMissesNothing
  <1>8. QED
    BY <1>4, <1>6, <1>7 DEF ListingInv

(* The invariant holds before a folder is opened. *)
LEMMA ListingStarts ==
  ASSUME ListingInit
  PROVE  ListingInv
  <1>1. rows \in Seq(RowType) /\ DOMAIN rows = {}
    BY DEF ListingInit
  <1>2. ReaderInv
    BY DEF ListingInit, Idle, ReaderInv
  <1>3. RowsInv
    BY <1>1 DEF ListingInit, RowsInv, Unique
  <1>4. PageInv /\ PagingMissesNothing
    BY DEF ListingInit, Idle, PageInv, PagingMissesNothing
  <1>5. QED
    BY <1>2, <1>3, <1>4 DEF ListingInv

(* The invariant is about the reader and the mailbox only. *)
LEMMA ListingUnchanged ==
  ASSUME ListingInv, UNCHANGED listingVars
  PROVE  ListingInv'
  <1>1. UNCHANGED <<rows, reader, shown, wanted, blank, excused, changes>>
    BY DEF listingVars
  <1>2. ReaderInv' /\ RowsInv' /\ PagingMissesNothing'
    BY <1>1 DEF ListingInv, ReaderInv, RowsInv, Unique, PagingMissesNothing
  <1>3. PageInv'
    BY <1>1 DEF ListingInv, PageInv, Behind, Passed, FolderIds
  <1>4. QED
    BY <1>2, <1>3 DEF ListingInv

-----------------------------------------------------------------------------
(* The sender policy (Spf) *)

(* A check that has begun. *)
CheckType ==
  /\ check = [zone |-> check.zone, domain |-> check.domain, ip |-> check.ip,
              stack |-> check.stack, checked |-> check.checked, depth |-> check.depth,
              answer |-> check.answer]
  /\ check.zone \in Zones /\ check.domain \in DOMAIN check.zone /\ check.ip \in Clients
  /\ check.stack \in Seq(DOMAIN check.zone) /\ check.checked \subseteq DOMAIN check.zone
  /\ check.depth \in Nat /\ check.answer \in {"pending", "pass", "fail"}

(* Between two lookups: what is to be checked and what has been can be reached, what has
   been does not list the client, and what it names is not forgotten. *)
LookupsInv ==
  LET reached == Reachable(check.zone, check.domain)
      seen == check.checked \cup ToSet(check.stack)
  IN  /\ seen \subseteq reached /\ check.domain \in seen
      /\ IsFiniteSet(check.checked) /\ Cardinality(check.checked) = check.depth
      /\ \A d \in check.checked :
           ~Lists(check.zone, d, check.ip) /\ Names(check.zone, d) \subseteq seen

(* What the answer is, whatever the qualifiers say: the code does not look at them. *)
ListedPasses ==
  check.answer \in {"pass", "fail"} =>
    LET reached == Reachable(check.zone, check.domain)
        listed == \E d \in reached : Lists(check.zone, d, check.ip)
    IN  /\ check.answer = "pass" => listed
        /\ listed /\ IsFiniteSet(reached) /\ Cardinality(reached) <= SpfMaxLookups
             => check.answer = "pass"

(* The inductive invariant of a check. *)
SpfInv ==
  /\ check = NoCheck \/ CheckType
  /\ check.answer = "pending" => LookupsInv
  /\ ListedPasses

(* The test of the masked bits is the test of the bits before the end of the prefix. *)
LEMMA MatchIsInBlock ==
  ASSUME NEW ip \in [family : Families, addr : Address], NEW block \in Blocks
  PROVE  match_ip_cidr(ip, block) <=> InBlock(ip, block)
  <1> DEFINE prefix == IF block.prefix < Width THEN block.prefix ELSE Width
             Masked(addr) == [i \in 1..Width |-> IF i <= prefix THEN addr[i] ELSE 0]
  <1>1. /\ Width \in Nat \ {0} /\ block.prefix \in Nat
        /\ ip.addr \in [1..Width -> 0..1] /\ block.addr \in [1..Width -> 0..1]
    BY SpfAssumption DEF Blocks, Address
  <1>2. prefix \in 0..Width /\ \A i \in 1..Width : i <= block.prefix <=> i <= prefix
    BY <1>1
  <1>3. match_ip_cidr(ip, block) <=>
          /\ ip.family = block.family
          /\ \/ prefix = 0
             \/ prefix = Width /\ ip.addr = block.addr
             \/ prefix \in 1..(Width - 1) /\ Masked(ip.addr) = Masked(block.addr)
    BY Zenon DEF match_ip_cidr
  <1> HIDE DEF prefix
  <1>4. InBlock(ip, block) <=>
          /\ ip.family = block.family
          /\ \A i \in 1..Width : i <= prefix => ip.addr[i] = block.addr[i]
    BY <1>2 DEF InBlock
  <1>5. CASE prefix = 0
    BY <1>1, <1>3, <1>4, <1>5
  <1>6. CASE prefix = Width
    <2>1. ip.addr = block.addr <=> \A i \in 1..Width : ip.addr[i] = block.addr[i]
      BY <1>1
    <2>2. QED
      BY <1>1, <1>3, <1>4, <1>6, <2>1
  <1>7. CASE prefix \in 1..(Width - 1)
    <2>1. Masked(ip.addr) = Masked(block.addr) <=>
            \A i \in 1..Width : Masked(ip.addr)[i] = Masked(block.addr)[i]
      OBVIOUS
    <2>2. ASSUME NEW i \in 1..Width
          PROVE  Masked(ip.addr)[i] = Masked(block.addr)[i] <=>
                   (i <= prefix => ip.addr[i] = block.addr[i])
      OBVIOUS
    <2>3. Masked(ip.addr) = Masked(block.addr) <=>
            \A i \in 1..Width : i <= prefix => ip.addr[i] = block.addr[i]
      BY <2>1, <2>2
    <2> HIDE DEF Masked
    <2>4. prefix # 0 /\ prefix # Width
      BY <1>1, <1>7
    <2>5. QED
      BY <1>3, <1>4, <1>7, <2>3, <2>4
  <1>8. QED
    BY <1>1, <1>2, <1>5, <1>6, <1>7

(* The directives of a record are its terms of the four kinds that are followed. *)
LEMMA DirectivesOf ==
  ASSUME NEW zone \in Zones, NEW d \in DOMAIN zone
  PROVE  LET directives == parse_spf_record(zone[d].terms)
         IN  /\ directives \in Seq(ToSet(zone[d].terms))
             /\ ToSet(directives) = {t \in ToSet(zone[d].terms) :
                                       t.kind \in {"ip4", "ip6", "include", "redirect"}}
  <1>1. zone[d].terms \in Seq(ToSet(zone[d].terms))
    BY SpfAssumption
  <1> DEFINE terms == zone[d].terms
             S == {t \in ToSet(terms) : t.kind \in {"ip4", "ip6", "include", "redirect"}}
  <1>2. parse_spf_record(terms) = Keep(terms, S)
    BY DEF parse_spf_record, Followed
  <1>3. S \subseteq ToSet(terms)
    OBVIOUS
  <1> HIDE DEF terms, S
  <1>4. Keep(terms, S) \in Seq(ToSet(terms)) /\ ToSet(Keep(terms, S)) = ToSet(terms) \cap S
    BY <1>1, KeepRange DEF terms
  <1>5. ToSet(Keep(terms, S)) = S
    BY <1>3, <1>4
  <1>6. QED
    BY <1>2, <1>4, <1>5 DEF terms, S

(* A directive matches the client exactly when the record lists it. *)
LEMMA HitIsLists ==
  ASSUME NEW zone \in Zones, NEW d \in DOMAIN zone, NEW ip \in Clients, zone[d].found
  PROVE  Hit(parse_spf_record(zone[d].terms), ip) <=> Lists(zone, d, ip)
  <1> DEFINE directives == parse_spf_record(zone[d].terms)
  <1>1. ToSet(directives) = {t \in ToSet(zone[d].terms) :
                               t.kind \in {"ip4", "ip6", "include", "redirect"}}
    BY DirectivesOf
  <1>2. ip \in [family : Families, addr : Address] /\ ip.family \in {"ip4", "ip6"}
    BY SpfAssumption DEF Families
  <1> HIDE DEF directives
  <1>3. Hit(directives, ip) <=>
          \E t \in ToSet(directives) : t.kind = ip.family /\ match_ip_cidr(ip, t.block)
    BY DEF Hit, ToSet
  <1>4. ASSUME NEW t \in ToSet(zone[d].terms), t.kind = ip.family
        PROVE  match_ip_cidr(ip, t.block) <=> InBlock(ip, t.block)
    <2>1. t.block \in Blocks
      BY <1>2, <1>4, SpfAssumption DEF IsTerm
    <2>2. QED
      BY <1>2, <2>1, MatchIsInBlock
  <1>5. Hit(directives, ip) <=>
          \E t \in ToSet(zone[d].terms) : t.kind = ip.family /\ match_ip_cidr(ip, t.block)
    BY <1>1, <1>2, <1>3
  <1>6. QED
    BY <1>4, <1>5 DEF Lists, directives

(* The domains that are put on the stack are those the record names. *)
LEMMA PushedIsNames ==
  ASSUME NEW zone \in Zones, NEW d \in DOMAIN zone, zone[d].found
  PROVE  LET pushed == Pushed(parse_spf_record(zone[d].terms))
         IN  pushed \in Seq(DOMAIN zone) /\ ToSet(pushed) = Names(zone, d)
  <1> DEFINE directives == parse_spf_record(zone[d].terms)
             S == {t \in ToSet(directives) : t.kind \in {"include", "redirect"}}
             kept == Keep(directives, S)
             pushed == [i \in DOMAIN kept |-> kept[i].domain]
  <1>1. directives \in Seq(ToSet(zone[d].terms))
        /\ ToSet(directives) = {t \in ToSet(zone[d].terms) :
                                  t.kind \in {"ip4", "ip6", "include", "redirect"}}
    BY DirectivesOf
  <1>2. S \subseteq ToSet(directives)
        /\ S = {t \in ToSet(zone[d].terms) : t.kind \in {"include", "redirect"}}
    BY <1>1
  <1>3. Pushed(directives) = pushed
    BY DEF Pushed
  <1> HIDE DEF directives, S
  <1>4. kept \in Seq(ToSet(zone[d].terms)) /\ ToSet(kept) = ToSet(directives) \cap S
    BY <1>1, KeepRange
  <1>5. ToSet(kept) = S
    BY <1>2, <1>4
  <1> HIDE DEF kept
  <1>6. Len(kept) \in Nat /\ DOMAIN kept = 1..Len(kept) /\ DOMAIN pushed = DOMAIN kept
    BY <1>4
  <1>7. \A t \in S : t.domain \in DOMAIN zone
    BY <1>2, SpfAssumption DEF IsTerm
  <1>8. \A i \in DOMAIN kept : pushed[i] = kept[i].domain /\ kept[i] \in S
    BY <1>5 DEF ToSet
  <1>9. pushed \in Seq(DOMAIN zone)
    BY <1>6, <1>7, <1>8
  <1>10. ToSet(pushed) = {t.domain : t \in S}
    <2>1. ToSet(pushed) = {kept[i].domain : i \in DOMAIN kept}
      BY <1>6, <1>8 DEF ToSet
    <2>2. S = {kept[i] : i \in DOMAIN kept}
      BY <1>5 DEF ToSet
    <2>3. QED
      BY <2>1, <2>2
  <1>11. Names(zone, d) = {t.domain : t \in S}
    <2>1. {u \in ToSet(zone[d].terms) : zone[d].found /\ u.kind \in {"include", "redirect"}} = S
      BY <1>2
    <2>2. QED
      BY <2>1 DEF Names
  <1>12. QED
    BY <1>3, <1>9, <1>10, <1>11 DEF directives

(* The domains that can be reached are the least set with the domain and all it names. *)
LEMMA ReachableFacts ==
  ASSUME NEW zone \in Zones, NEW domain \in DOMAIN zone
  PROVE  /\ domain \in Reachable(zone, domain)
         /\ \A d \in Reachable(zone, domain) : Names(zone, d) \subseteq Reachable(zone, domain)
         /\ \A D \in SUBSET DOMAIN zone : domain \in D /\ Closed(zone, D)
                                            => Reachable(zone, domain) \subseteq D
  <1>1. ASSUME NEW d \in DOMAIN zone PROVE Names(zone, d) \subseteq DOMAIN zone
    BY SpfAssumption DEF Names, IsTerm
  <1>2. ASSUME NEW d \in Reachable(zone, domain), NEW n \in Names(zone, d)
        PROVE  n \in Reachable(zone, domain)
    <2>1. d \in DOMAIN zone
      BY DEF Reachable
    <2>2. n \in DOMAIN zone
      BY <1>1, <2>1
    <2>3. ASSUME NEW D \in SUBSET DOMAIN zone, domain \in D, Closed(zone, D) PROVE n \in D
      <3>1. d \in D
        BY <2>3 DEF Reachable
      <3>2. QED
        BY <2>3, <3>1 DEF Closed
    <2>4. QED
      BY <2>2, <2>3 DEF Reachable
  <1>3. domain \in Reachable(zone, domain)
    BY DEF Reachable
  <1>4. \A D \in SUBSET DOMAIN zone : domain \in D /\ Closed(zone, D)
                                            => Reachable(zone, domain) \subseteq D
    BY DEF Reachable
  <1>5. QED
    BY <1>2, <1>3, <1>4

(* A stack is its top and what is below it. *)
LEMMA Popped ==
  ASSUME NEW T, NEW s \in Seq(T), s # <<>>
  PROVE  /\ Front(s) \in Seq(T) /\ Last(s) \in T
         /\ ToSet(s) = ToSet(Front(s)) \cup {Last(s)}
  <1>1. PICK t \in Seq(T), x \in T : s = Append(t, x)
    BY SequenceEmptyOrAppend
  <1>2. Len(s) = Len(t) + 1 /\ s[Len(t) + 1] = x /\ \A i \in 1..Len(t) : s[i] = t[i]
    BY <1>1
  <1>3. Last(s) = x
    BY <1>2 DEF Last
  <1>4. Front(s) = t
    <2>1. Front(s) = [i \in 1..(Len(s) - 1) |-> s[i]]
      BY DEF Front
    <2>2. Len(s) - 1 = Len(t)
      BY <1>2
    <2>3. t = [i \in 1..Len(t) |-> t[i]]
      OBVIOUS
    <2>4. QED
      BY <1>2, <2>1, <2>2, <2>3
  <1>5. ToSet(s) = ToSet(t) \cup {x}
    <2>1. DOMAIN s = 1..(Len(t) + 1) /\ DOMAIN t = 1..Len(t) /\ Len(t) \in Nat
      BY <1>1
    <2>2. QED
      BY <1>2, <2>1 DEF ToSet
  <1>6. QED
    BY <1>3, <1>4, <1>5

(* The invariant holds before a check begins. *)
LEMMA SpfStarts ==
  ASSUME SpfInit
  PROVE  SpfInv
  BY DEF SpfInit, NoCheck, SpfInv, ListedPasses

(* The invariant is about the check only. *)
LEMMA SpfUnchanged ==
  ASSUME SpfInv, UNCHANGED check
  PROVE  SpfInv'
  BY DEF SpfInv, CheckType, LookupsInv, ListedPasses

(* A check begins with the domain of the sender. *)
LEMMA BeginStep ==
  ASSUME NEW zone \in Zones, NEW domain \in DOMAIN zone, NEW ip \in Clients,
         Begin(zone, domain, ip)
  PROVE  SpfInv'
  <1>1. check' = [zone |-> zone, domain |-> domain, ip |-> ip, stack |-> <<domain>>,
                  checked |-> {}, depth |-> 0, answer |-> "pending"]
    BY DEF Begin
  <1>2. /\ check'.zone = zone /\ check'.domain = domain /\ check'.ip = ip
        /\ check'.stack = <<domain>> /\ check'.checked = {} /\ check'.depth = 0
        /\ check'.answer = "pending"
    BY <1>1
  <1>3. CheckType'
    BY <1>1, <1>2 DEF CheckType
  <1>4. ToSet(<<domain>>) = {domain}
    BY DEF ToSet
  <1>5. domain \in Reachable(zone, domain)
    BY ReachableFacts
  <1>6. LookupsInv'
    BY <1>2, <1>4, <1>5, FS_EmptySet DEF LookupsInv
  <1>7. QED
    BY <1>2, <1>3, <1>6 DEF SpfInv, ListedPasses

(* What a pending check knows, and what popping the stack does. *)
LEMMA PendingFacts ==
  ASSUME SpfInv, check.answer = "pending"
  PROVE  /\ CheckType /\ LookupsInv
         /\ check.stack # <<>> =>
              /\ Front(check.stack) \in Seq(DOMAIN check.zone)
              /\ Current \in DOMAIN check.zone
              /\ ToSet(check.stack) = ToSet(Front(check.stack)) \cup {Current}
              /\ Current \in Reachable(check.zone, check.domain)
              /\ Names(check.zone, Current) \subseteq Reachable(check.zone, check.domain)
  <1>1. CheckType /\ LookupsInv
    BY DEF SpfInv, NoCheck
  <1>2. check.stack \in Seq(DOMAIN check.zone)
    BY <1>1 DEF CheckType
  <1>3. ASSUME check.stack # <<>>
        PROVE  /\ Front(check.stack) \in Seq(DOMAIN check.zone)
               /\ Current \in DOMAIN check.zone
               /\ ToSet(check.stack) = ToSet(Front(check.stack)) \cup {Current}
    BY <1>2, <1>3, Popped DEF Current
  <1>4. check.zone \in Zones /\ check.domain \in DOMAIN check.zone
    BY <1>1 DEF CheckType
  <1>5. ASSUME check.stack # <<>>
        PROVE  Current \in Reachable(check.zone, check.domain)
    BY <1>1, <1>3, <1>5 DEF LookupsInv
  <1>6. QED
    BY <1>1, <1>3, <1>4, <1>5, ReachableFacts

(* A domain that was checked before is popped, and nothing is lost with it. *)
LEMMA SkipVisitedStep ==
  ASSUME SpfInv, SkipVisited
  PROVE  SpfInv'
  <1>1. /\ check.answer = "pending" /\ check.stack # <<>> /\ Current \in check.checked
        /\ check' = [check EXCEPT !.stack = Front(check.stack)]
    BY DEF SkipVisited, Pending
  <1>2. /\ CheckType /\ LookupsInv
        /\ Front(check.stack) \in Seq(DOMAIN check.zone)
        /\ ToSet(check.stack) = ToSet(Front(check.stack)) \cup {Current}
    BY <1>1, PendingFacts
  <1>3. check' = [zone |-> check.zone, domain |-> check.domain, ip |-> check.ip,
                  stack |-> Front(check.stack), checked |-> check.checked,
                  depth |-> check.depth, answer |-> "pending"]
    BY <1>1, <1>2 DEF CheckType
  <1>4. /\ check'.zone = check.zone /\ check'.domain = check.domain /\ check'.ip = check.ip
        /\ check'.stack = Front(check.stack) /\ check'.checked = check.checked
        /\ check'.depth = check.depth /\ check'.answer = "pending"
    BY <1>3
  <1>5. CheckType'
    BY <1>2, <1>3, <1>4 DEF CheckType
  <1>6. check.checked \cup ToSet(check.stack) = check'.checked \cup ToSet(check'.stack)
    BY <1>1, <1>2, <1>4
  <1>7. LookupsInv'
    BY <1>2, <1>4, <1>6 DEF LookupsInv
  <1>8. QED
    BY <1>4, <1>5, <1>7 DEF SpfInv, ListedPasses

(* The check with three of its fields changed. *)
LEMMA CheckUpdate ==
  ASSUME CheckType, NEW stack, NEW checked, NEW depth
  PROVE  [check EXCEPT !.stack = stack, !.checked = checked, !.depth = depth]
           = [zone |-> check.zone, domain |-> check.domain, ip |-> check.ip,
              stack |-> stack, checked |-> checked, depth |-> depth,
              answer |-> check.answer]
  <1>1. PICK z, d, i, s, k, n, a :
          check = [zone |-> z, domain |-> d, ip |-> i, stack |-> s, checked |-> k,
                   depth |-> n, answer |-> a]
    BY DEF CheckType
  <1>2. check.zone = z /\ check.domain = d /\ check.ip = i /\ check.answer = a
    BY <1>1
  <1> DEFINE one == [check EXCEPT !.stack = stack]
             two == [one EXCEPT !.checked = checked]
             three == [two EXCEPT !.depth = depth]
  <1>3. [check EXCEPT !.stack = stack, !.checked = checked, !.depth = depth] = three
    BY <1>1
  <1>4. one = [zone |-> z, domain |-> d, ip |-> i, stack |-> stack, checked |-> k,
               depth |-> n, answer |-> a]
    BY <1>1
  <1> HIDE DEF one
  <1>5. two = [zone |-> z, domain |-> d, ip |-> i, stack |-> stack, checked |-> checked,
               depth |-> n, answer |-> a]
    BY <1>4
  <1> HIDE DEF two
  <1>6. three = [zone |-> z, domain |-> d, ip |-> i, stack |-> stack, checked |-> checked,
                 depth |-> depth, answer |-> a]
    BY <1>5
  <1> HIDE DEF three
  <1>7. QED
    BY <1>2, <1>3, <1>6

(* The domain that is looked up is one more. *)
LEMMA OneMore ==
  ASSUME SpfInv, Unvisited
  PROVE  /\ IsFiniteSet(check.checked \cup {Current})
         /\ Cardinality(check.checked \cup {Current}) = check.depth + 1
         /\ check.checked \cup {Current} \subseteq Reachable(check.zone, check.domain)
         /\ check.checked \cup {Current} \subseteq DOMAIN check.zone
         /\ Visited = [zone |-> check.zone, domain |-> check.domain, ip |-> check.ip,
                       stack |-> Front(check.stack),
                       checked |-> check.checked \cup {Current},
                       depth |-> check.depth + 1, answer |-> "pending"]
  <1>1. check.answer = "pending" /\ check.stack # <<>> /\ Current \notin check.checked
    BY DEF Unvisited, Pending
  <1>2. /\ CheckType /\ LookupsInv /\ Current \in DOMAIN check.zone
        /\ Current \in Reachable(check.zone, check.domain)
    BY <1>1, PendingFacts
  <1>3. IsFiniteSet(check.checked) /\ Cardinality(check.checked) = check.depth
        /\ check.checked \subseteq Reachable(check.zone, check.domain)
    BY <1>2 DEF LookupsInv
  <1>4. IsFiniteSet(check.checked \cup {Current})
        /\ Cardinality(check.checked \cup {Current}) = check.depth + 1
    BY <1>1, <1>3, FS_AddElement
  <1>5. Visited = [zone |-> check.zone, domain |-> check.domain, ip |-> check.ip,
                   stack |-> Front(check.stack),
                   checked |-> check.checked \cup {Current},
                   depth |-> check.depth + 1, answer |-> "pending"]
    <2>1. Visited = [check EXCEPT !.stack = Front(check.stack),
                                  !.checked = check.checked \cup {Current},
                                  !.depth = check.depth + 1]
      BY DEF Visited
    <2>2. QED
      BY <1>1, <1>2, <2>1, CheckUpdate
  <1>6. check.checked \subseteq DOMAIN check.zone
    BY <1>2 DEF CheckType
  <1>7. QED
    BY <1>2, <1>3, <1>4, <1>5, <1>6

(* The limit of lookups is reached: more domains can be reached than may be fetched. *)
LEMMA GiveUpStep ==
  ASSUME SpfInv, GiveUp
  PROVE  SpfInv'
  <1> DEFINE more == check.checked \cup {Current}
             R == Reachable(check.zone, check.domain)
  <1>1. Unvisited /\ check.depth + 1 > SpfMaxLookups /\ check' = [Visited EXCEPT !.answer = "fail"]
    BY DEF GiveUp
  <1>2. CheckType /\ Front(check.stack) \in Seq(DOMAIN check.zone)
    BY <1>1, PendingFacts DEF Unvisited, Pending
  <1>3. /\ IsFiniteSet(more) /\ Cardinality(more) = check.depth + 1 /\ more \subseteq R
        /\ more \subseteq DOMAIN check.zone
    BY <1>1, OneMore
  <1>4. check' = [zone |-> check.zone, domain |-> check.domain, ip |-> check.ip,
                  stack |-> Front(check.stack), checked |-> more,
                  depth |-> check.depth + 1, answer |-> "fail"]
    BY <1>1, OneMore
  <1> HIDE DEF more, R
  <1>5. /\ check'.zone = check.zone /\ check'.domain = check.domain /\ check'.ip = check.ip
        /\ check'.stack = Front(check.stack) /\ check'.checked = more
        /\ check'.depth = check.depth + 1 /\ check'.answer = "fail"
    BY <1>4
  <1>6. CheckType'
    BY <1>2, <1>3, <1>4, <1>5 DEF CheckType
  <1>7. ASSUME IsFiniteSet(R), Cardinality(R) <= SpfMaxLookups PROVE FALSE
    <2>1. Cardinality(more) <= Cardinality(R) /\ Cardinality(R) \in Nat
      BY <1>3, <1>7, FS_Subset, FS_CardinalityType
    <2>2. check.depth \in Nat /\ SpfMaxLookups \in Nat
      BY <1>2, SpfAssumption DEF CheckType
    <2>3. QED
      BY <1>1, <1>3, <1>7, <2>1, <2>2
  <1>8. ListedPasses'
    <2>1. Reachable(check'.zone, check'.domain) = R
      BY <1>5 DEF R
    <2>2. QED
      BY <1>5, <1>7, <2>1 DEF ListedPasses
  <1>9. QED
    BY <1>5, <1>6, <1>8 DEF SpfInv

(* After a lookup that does not settle the check. *)
LEMMA GoesOn ==
  ASSUME SpfInv, Unvisited, ~Lists(check.zone, Current, check.ip),
         NEW pushed \in Seq(DOMAIN check.zone),
         Names(check.zone, Current) = ToSet(pushed),
         check' = [Visited EXCEPT !.stack = Front(check.stack) \o pushed]
  PROVE  SpfInv'
  <1> DEFINE more == check.checked \cup {Current}
             R == Reachable(check.zone, check.domain)
             s == Front(check.stack) \o pushed
  <1>1. /\ CheckType /\ LookupsInv /\ Front(check.stack) \in Seq(DOMAIN check.zone)
        /\ ToSet(check.stack) = ToSet(Front(check.stack)) \cup {Current}
        /\ Names(check.zone, Current) \subseteq R
    BY PendingFacts DEF Unvisited, Pending
  <1>2. /\ IsFiniteSet(more) /\ Cardinality(more) = check.depth + 1 /\ more \subseteq R
        /\ more \subseteq DOMAIN check.zone
    BY OneMore
  <1>3. check' = [zone |-> check.zone, domain |-> check.domain, ip |-> check.ip,
                  stack |-> s, checked |-> more,
                  depth |-> check.depth + 1, answer |-> "pending"]
    <2>1. Visited = [zone |-> check.zone, domain |-> check.domain, ip |-> check.ip,
                     stack |-> Front(check.stack), checked |-> more,
                     depth |-> check.depth + 1, answer |-> "pending"]
      BY OneMore
    <2> HIDE DEF s, more
    <2>2. QED
      BY <2>1 DEF s
  <1>4. s \in Seq(DOMAIN check.zone) /\ ToSet(s) = ToSet(Front(check.stack)) \cup ToSet(pushed)
    <2>1. Front(check.stack) \in Seq(DOMAIN check.zone)
      BY <1>1
    <2> DEFINE f == Front(check.stack)
               T == DOMAIN check.zone
    <2>2. f \in Seq(T) /\ pushed \in Seq(T)
      BY <2>1
    <2> HIDE DEF f, T
    <2>3. f \o pushed \in Seq(T) /\ ToSet(f \o pushed) = ToSet(f) \cup ToSet(pushed)
      BY <2>2, Joined
    <2>4. QED
      BY <2>3 DEF f, T
  <1>a. \A d \in more : d \in check.checked \/ d = Current
    OBVIOUS
  <1>b. check.checked \cup ToSet(check.stack) \subseteq more \cup ToSet(s)
        /\ ToSet(pushed) \subseteq ToSet(s)
    BY <1>1, <1>4
  <1>c. more \cup ToSet(s) \subseteq R
    <2>1. check.checked \cup ToSet(check.stack) \subseteq R
      BY <1>1 DEF LookupsInv
    <2>2. QED
      BY <1>1, <1>2, <1>4, <2>1
  <1> HIDE DEF more, R, s
  <1>5. /\ check'.zone = check.zone /\ check'.domain = check.domain /\ check'.ip = check.ip
        /\ check'.stack = s /\ check'.checked = more
        /\ check'.depth = check.depth + 1 /\ check'.answer = "pending"
    BY <1>3
  <1>6. CheckType'
    <2>1. /\ check.zone \in Zones /\ check.domain \in DOMAIN check.zone /\ check.ip \in Clients
          /\ check.depth + 1 \in Nat
      BY <1>1 DEF CheckType
    <2>2. QED
      BY <1>2, <1>3, <1>4, <1>5, <2>1 DEF CheckType
  <1>7. /\ check.domain \in more \cup ToSet(s)
        /\ \A d \in more : ~Lists(check.zone, d, check.ip)
                             /\ Names(check.zone, d) \subseteq more \cup ToSet(s)
    BY <1>1, <1>a, <1>b DEF LookupsInv
  <1>8. LookupsInv'
    BY <1>2, <1>5, <1>7, <1>c DEF LookupsInv, R
  <1>9. QED
    BY <1>5, <1>6, <1>8 DEF SpfInv, ListedPasses

(* A record that is not found names nothing and lists nobody. *)
LEMMA LookupFailsStep ==
  ASSUME SpfInv, LookupFails
  PROVE  SpfInv'
  <1>1. Unvisited /\ ~check.zone[Current].found /\ check' = Visited
    BY DEF LookupFails
  <1>2. CheckType /\ Front(check.stack) \in Seq(DOMAIN check.zone)
    BY <1>1, PendingFacts DEF Unvisited, Pending
  <1>3. /\ ~Lists(check.zone, Current, check.ip) /\ Names(check.zone, Current) = {}
    BY <1>1 DEF Lists, Names
  <1>4. <<>> \in Seq(DOMAIN check.zone) /\ ToSet(<<>>) = {}
        /\ Front(check.stack) \o <<>> = Front(check.stack)
    BY <1>2 DEF ToSet
  <1>5. Visited = [Visited EXCEPT !.stack = Front(check.stack) \o <<>>]
    BY <1>1, <1>4, OneMore
  <1>6. QED
    BY <1>1, <1>3, <1>4, <1>5, GoesOn

(* A record is found: it lists the client, or what it names is to be checked. *)
LEMMA LookupAnswersStep ==
  ASSUME SpfInv, LookupAnswers
  PROVE  SpfInv'
  <1> DEFINE directives == parse_spf_record(check.zone[Current].terms)
             R == Reachable(check.zone, check.domain)
  <1>1. /\ Unvisited /\ check.zone[Current].found
        /\ check' = IF Hit(directives, check.ip)
                    THEN [Visited EXCEPT !.answer = "pass"]
                    ELSE [Visited EXCEPT !.stack = @ \o Pushed(directives)]
    BY DEF LookupAnswers
  <1>2. /\ CheckType /\ Front(check.stack) \in Seq(DOMAIN check.zone)
        /\ Current \in DOMAIN check.zone /\ Current \in R
    BY <1>1, PendingFacts DEF Unvisited, Pending
  <1>3. check.zone \in Zones /\ check.ip \in Clients
    BY <1>2 DEF CheckType
  <1>4. /\ Hit(directives, check.ip) <=> Lists(check.zone, Current, check.ip)
        /\ Pushed(directives) \in Seq(DOMAIN check.zone)
        /\ Names(check.zone, Current) = ToSet(Pushed(directives))
    BY <1>1, <1>2, <1>3, HitIsLists, PushedIsNames
  <1> HIDE DEF directives
  <1>5. Visited = [zone |-> check.zone, domain |-> check.domain, ip |-> check.ip,
                   stack |-> Front(check.stack),
                   checked |-> check.checked \cup {Current},
                   depth |-> check.depth + 1, answer |-> "pending"]
        /\ check.checked \cup {Current} \subseteq DOMAIN check.zone
    BY <1>1, OneMore
  <1>6. CASE Hit(directives, check.ip)
    <2>1. check' = [zone |-> check.zone, domain |-> check.domain, ip |-> check.ip,
                    stack |-> Front(check.stack),
                    checked |-> check.checked \cup {Current},
                    depth |-> check.depth + 1, answer |-> "pass"]
      BY <1>1, <1>5, <1>6
    <2>2. /\ check'.zone = check.zone /\ check'.domain = check.domain /\ check'.ip = check.ip
          /\ check'.stack = Front(check.stack)
          /\ check'.checked = check.checked \cup {Current}
          /\ check'.depth = check.depth + 1 /\ check'.answer = "pass"
      BY <2>1
    <2>3. CheckType'
      BY <1>2, <1>5, <2>1, <2>2 DEF CheckType
    <2>4. ListedPasses'
      BY <1>2, <1>4, <1>6, <2>2 DEF ListedPasses
    <2>5. QED
      BY <2>2, <2>3, <2>4 DEF SpfInv
  <1>7. CASE ~Hit(directives, check.ip)
    <2>1. check' = [Visited EXCEPT !.stack = Front(check.stack) \o Pushed(directives)]
      BY <1>1, <1>5, <1>7
    <2>2. QED
      BY <1>1, <1>4, <1>7, <2>1, GoesOn
  <1>8. QED
    BY <1>6, <1>7

(* The stack is empty: all that can be reached has been checked. *)
LEMMA RunsOutStep ==
  ASSUME SpfInv, RunsOut
  PROVE  SpfInv'
  <1>1. /\ check.answer = "pending" /\ check.stack = <<>>
        /\ check' = [check EXCEPT !.answer = "fail"]
    BY DEF RunsOut
  <1>2. CheckType /\ LookupsInv
    BY <1>1, PendingFacts
  <1>3. check' = [zone |-> check.zone, domain |-> check.domain, ip |-> check.ip,
                  stack |-> check.stack, checked |-> check.checked,
                  depth |-> check.depth, answer |-> "fail"]
    BY <1>1, <1>2 DEF CheckType
  <1>4. /\ check'.zone = check.zone /\ check'.domain = check.domain /\ check'.ip = check.ip
        /\ check'.stack = check.stack /\ check'.checked = check.checked
        /\ check'.depth = check.depth /\ check'.answer = "fail"
    BY <1>3
  <1>5. CheckType'
    BY <1>2, <1>3, <1>4 DEF CheckType
  <1>6. ToSet(check.stack) = {}
    BY <1>1 DEF ToSet
  <1>7. check.domain \in check.checked /\ Closed(check.zone, check.checked)
    BY <1>2, <1>6 DEF LookupsInv, Closed
  <1>8. Reachable(check.zone, check.domain) \subseteq check.checked
    BY <1>2, <1>7, ReachableFacts DEF CheckType
  <1>9. \A d \in Reachable(check.zone, check.domain) : ~Lists(check.zone, d, check.ip)
    BY <1>2, <1>8 DEF LookupsInv
  <1>10. ListedPasses'
    BY <1>4, <1>9 DEF ListedPasses
  <1>11. QED
    BY <1>4, <1>5, <1>10 DEF SpfInv

-----------------------------------------------------------------------------
(* The body on its way (Wire) *)

(* The bytes end with CR and LF. *)
BytesEnd(s) == Len(s) >= 2 /\ s[Len(s) - 1] = "CR" /\ s[Len(s)] = "LF"

(* The test that the client makes. *)
LEMMA SuffixIsEnd ==
  ASSUME NEW s \in Seq(Byte)
  PROVE  IsSuffix(CRLF, s) <=> BytesEnd(s)
  <1> DEFINE a == Reverse(CRLF)
             b == Reverse(s)
  <1>1. a \in Seq(Byte) /\ Len(a) = 2 /\ a[1] = "LF" /\ a[2] = "CR"
    <2>1. Len(CRLF) = 2 /\ CRLF[1] = "CR" /\ CRLF[2] = "LF"
      BY DEF CRLF
    <2>2. a = [i \in 1..2 |-> CRLF[(2 - i) + 1]]
      BY <2>1 DEF Reverse
    <2>3. QED
      BY <2>1, <2>2 DEF Byte
  <1>2. b \in Seq(Byte) /\ Len(b) = Len(s) /\ \A i \in 1..Len(s) : b[i] = s[(Len(s) - i) + 1]
    <2>1. Len(s) \in Nat /\ \A i \in 1..Len(s) : s[(Len(s) - i) + 1] \in Byte
      <3>1. Len(s) \in Nat /\ \A j \in 1..Len(s) : s[j] \in Byte
        OBVIOUS
      <3>2. \A i \in 1..Len(s) : (Len(s) - i) + 1 \in 1..Len(s)
        BY <3>1
      <3>3. QED
        BY <3>1, <3>2
    <2>2. b = [i \in 1..Len(s) |-> s[(Len(s) - i) + 1]]
      BY DEF Reverse
    <2>3. QED
      BY <2>1, <2>2
  <1> HIDE DEF a, b
  <1>3. Len(s) \in Nat
    OBVIOUS
  <1>4. CASE Len(s) < 2
    <2>1. ~(Len(a) <= Len(b))
      BY <1>1, <1>2, <1>3, <1>4
    <2>2. QED
      BY <1>3, <1>4, <2>1 DEF IsSuffix, IsPrefix, BytesEnd, a, b
  <1>5. CASE Len(s) >= 2
    <2>1. /\ SubSeq(a, 1, 2) \in Seq(Byte) /\ Len(SubSeq(a, 1, 2)) = 2
          /\ SubSeq(a, 1, 2)[1] = "LF" /\ SubSeq(a, 1, 2)[2] = "CR"
      <3>1. \A i \in 1..2 : a[i] \in Byte
        BY <1>1 DEF Byte
      <3>2. /\ SubSeq(a, 1, 2) \in Seq(Byte)
            /\ Len(SubSeq(a, 1, 2)) = IF 1 <= 2 THEN 2 - 1 + 1 ELSE 0
            /\ \A i \in 1..(2 - 1 + 1) : SubSeq(a, 1, 2)[i] = a[1 + i - 1]
        BY <3>1, SubSeqProperties
      <3>3. QED
        BY <1>1, <3>2
    <2>2. b[1] = s[Len(s)] /\ b[2] = s[Len(s) - 1]
      <3>1. 1 \in 1..Len(s) /\ 2 \in 1..Len(s) /\ (Len(s) - 1) + 1 = Len(s)
            /\ (Len(s) - 2) + 1 = Len(s) - 1
        BY <1>3, <1>5
      <3>2. b[1] = s[(Len(s) - 1) + 1] /\ b[2] = s[(Len(s) - 2) + 1]
        BY <1>2, <3>1
      <3>3. QED
        BY <3>1, <3>2
    <2>3. /\ SubSeq(b, 1, 2) \in Seq(Byte) /\ Len(SubSeq(b, 1, 2)) = 2
          /\ SubSeq(b, 1, 2)[1] = b[1] /\ SubSeq(b, 1, 2)[2] = b[2]
      <3>1. \A i \in 1..2 : b[i] \in Byte
        BY <1>2, <1>3, <1>5
      <3>2. /\ SubSeq(b, 1, 2) \in Seq(Byte)
            /\ Len(SubSeq(b, 1, 2)) = IF 1 <= 2 THEN 2 - 1 + 1 ELSE 0
            /\ \A i \in 1..(2 - 1 + 1) : SubSeq(b, 1, 2)[i] = b[1 + i - 1]
        BY <3>1, SubSeqProperties
      <3>3. QED
        BY <3>2
    <2>4. SubSeq(a, 1, 2) = SubSeq(b, 1, 2) <=> b[1] = "LF" /\ b[2] = "CR"
      <3> DEFINE c == SubSeq(a, 1, 2)
                 d == SubSeq(b, 1, 2)
      <3>1. /\ c \in Seq(Byte) /\ Len(c) = 2 /\ c[1] = "LF" /\ c[2] = "CR"
            /\ d \in Seq(Byte) /\ Len(d) = 2 /\ d[1] = b[1] /\ d[2] = b[2]
        BY <2>1, <2>3
      <3> HIDE DEF c, d
      <3>2. ASSUME b[1] = "LF" /\ b[2] = "CR" PROVE c = d
        <4>1. \A i \in 1..Len(c) : c[i] = d[i]
          BY <3>1, <3>2
        <4>2. QED
          BY <3>1, <4>1, SeqEqual
      <3>3. QED
        BY <3>1, <3>2 DEF c, d
    <2>5. IsPrefix(a, b) <=> b[1] = "LF" /\ b[2] = "CR"
      BY <1>1, <1>2, <1>3, <1>5, <2>4 DEF IsPrefix
    <2>6. QED
      BY <1>5, <2>2, <2>5 DEF IsSuffix, BytesEnd, a, b
  <1>6. QED
    BY <1>3, <1>4, <1>5

(* The state of the client after a payload, and of the server after some bytes. *)
Stuffed(payload) == Fold(StuffStep, [out |-> <<>>, start |-> TRUE], payload)

(* The client before the first byte. *)
LEMMA StuffedEmpty ==
  Stuffed(<<>>) = [out |-> <<>>, start |-> TRUE]
  BY FoldEmpty DEF Stuffed

(* The client after one byte more. *)
LEMMA StuffedAppend ==
  ASSUME NEW s \in Seq(Byte), NEW x \in Byte, Stuffed(s) \in Stuffing
  PROVE  Stuffed(Append(s, x)) = StuffByte(Stuffed(s), x)
  <1> DEFINE r == Stuffed(s)
  <1>1. Stuffed(Append(s, x)) = StuffStep[<<r, x>>]
    BY FoldAppend DEF Stuffed
  <1>2. <<r, x>> \in Stuffing \X Byte
    OBVIOUS
  <1> HIDE DEF r
  <1>3. StuffStep[<<r, x>>] = StuffByte(r, x)
    BY <1>2 DEF StuffStep
  <1>4. QED
    BY <1>1, <1>3 DEF r

(* The server before the first byte. *)
LEMMA ReceivedEmpty ==
  ReceiveBody(<<>>) = [line |-> <<>>, body |-> <<>>, done |-> FALSE, rest |-> <<>>]
  BY FoldEmpty DEF ReceiveBody

(* The server after one byte more. *)
LEMMA ReceivedAppend ==
  ASSUME NEW s \in Seq(Byte), NEW x \in Byte, ReceiveBody(s) \in Receiving
  PROVE  ReceiveBody(Append(s, x)) = ReceiveByte(ReceiveBody(s), x)
  <1> DEFINE r == ReceiveBody(s)
  <1>1. ReceiveBody(Append(s, x)) = ReceiveStep[<<r, x>>]
    BY FoldAppend DEF ReceiveBody
  <1>2. <<r, x>> \in Receiving \X Byte
    OBVIOUS
  <1> HIDE DEF r
  <1>3. ReceiveStep[<<r, x>>] = ReceiveByte(r, x)
    BY <1>2 DEF ReceiveStep
  <1>4. QED
    BY <1>1, <1>3 DEF r

(* A sequence of two. *)
LEMMA Two == ASSUME NEW T, NEW a \in T, NEW b \in T
  PROVE  Append(<<a>>, b) = <<a, b>>
  <1> DEFINE s == Append(<<a>>, b)
             t == <<a, b>>
  <1>1. s \in Seq(T) /\ Len(s) = 2 /\ s[1] = a /\ s[2] = b
    OBVIOUS
  <1>2. t \in Seq(T) /\ Len(t) = 2 /\ t[1] = a /\ t[2] = b
    OBVIOUS
  <1> HIDE DEF s, t
  <1>3. \A i \in 1..Len(s) : s[i] = t[i]
    BY <1>1, <1>2
  <1>4. s = t
    BY <1>1, <1>2, <1>3, SeqEqual
  <1>5. QED BY <1>4 DEF s, t

(* A sequence of three. *)
LEMMA Three == ASSUME NEW T, NEW a \in T, NEW b \in T, NEW c \in T
  PROVE  Append(<<a, b>>, c) = <<a, b, c>>
  <1> DEFINE s == Append(<<a, b>>, c)
             t == <<a, b, c>>
  <1>1. s \in Seq(T) /\ Len(s) = 3 /\ s[1] = a /\ s[2] = b /\ s[3] = c
    OBVIOUS
  <1>2. t \in Seq(T) /\ Len(t) = 3 /\ t[1] = a /\ t[2] = b /\ t[3] = c
    OBVIOUS
  <1> HIDE DEF s, t
  <1>3. \A i \in 1..Len(s) : s[i] = t[i]
    BY <1>1, <1>2
  <1>4. s = t
    BY <1>1, <1>2, <1>3, SeqEqual
  <1>5. QED BY <1>4 DEF s, t

(* An element put behind the second of two sequences. *)
LEMMA ConcatAppend ==
  ASSUME NEW T, NEW s \in Seq(T), NEW t \in Seq(T), NEW x \in T
  PROVE  s \o Append(t, x) = Append(s \o t, x)
  OBVIOUS

(* Two elements put behind a sequence. *)
LEMMA ConcatTwo ==
  ASSUME NEW T, NEW s \in Seq(T), NEW x \in T, NEW y \in T
  PROVE  s \o <<x, y>> = Append(Append(s, x), y)
  OBVIOUS

(* A state of the server from its fields. *)
LEMMA IsReceiving ==
  ASSUME NEW l \in Seq(Byte), NEW b \in Seq(Byte), NEW f \in BOOLEAN, NEW e \in Seq(Byte)
  PROVE  [line |-> l, body |-> b, done |-> f, rest |-> e] \in Receiving
  BY DEF Receiving

(* One byte at the server, by its cases, on the fields of the state. *)
LEMMA MoreOfLine ==
  ASSUME NEW r \in Receiving, ~r.done, NEW x \in Byte, x # "LF"
  PROVE  ReceiveByte(r, x) = [line |-> Append(r.line, x), body |-> r.body, done |-> FALSE,
                              rest |-> r.rest]
  <1>1. ReceiveByte(r, x) = [r EXCEPT !.line = Append(r.line, x)]
    BY DEF ReceiveByte
  <1>2. PICK l, b, e : r = [line |-> l, body |-> b, done |-> FALSE, rest |-> e]
    BY DEF Receiving
  <1>3. r.line = l /\ r.body = b /\ r.rest = e
    BY <1>2
  <1>4. QED
    BY <1>1, <1>2, <1>3

(* A line ends and is not the end of the body: it is unstuffed and kept. *)
LEMMA EndOfLine ==
  ASSUME NEW r \in Receiving, ~r.done, ~IsEnd(Append(r.line, "LF"))
  PROVE  ReceiveByte(r, "LF") =
           [line |-> <<>>, body |-> r.body \o Unstuffed(Append(r.line, "LF")), done |-> FALSE,
            rest |-> r.rest]
  <1> DEFINE more == r.body \o Unstuffed(Append(r.line, "LF"))
             one == [r EXCEPT !.line = <<>>]
             two == [one EXCEPT !.body = more]
  <1>1. ReceiveByte(r, "LF") = two
    BY DEF ReceiveByte, Receiving
  <1>2. PICK l, b, f, e : r = [line |-> l, body |-> b, done |-> f, rest |-> e]
    BY DEF Receiving
  <1>3. r.line = l /\ r.body = b /\ r.done = f /\ r.rest = e
    BY <1>2
  <1>4. one = [line |-> <<>>, body |-> b, done |-> f, rest |-> e]
    BY <1>2
  <1> HIDE DEF one, more
  <1>5. two = [line |-> <<>>, body |-> more, done |-> f, rest |-> e]
    BY <1>4
  <1> HIDE DEF two
  <1>6. f = FALSE
    BY <1>3 DEF Receiving
  <1>7. QED
    BY <1>1, <1>3, <1>5, <1>6 DEF more

(* A line with nothing but the dot ends the body. *)
LEMMA EndOfBody ==
  ASSUME NEW r \in Receiving, ~r.done, IsEnd(Append(r.line, "LF"))
  PROVE  ReceiveByte(r, "LF") =
           [line |-> <<>>, body |-> r.body, done |-> TRUE, rest |-> r.rest]
  <1> DEFINE t == TRUE
             one == [r EXCEPT !.line = <<>>]
             two == [one EXCEPT !.done = t]
  <1>1. ReceiveByte(r, "LF") = two
    BY DEF ReceiveByte, Receiving
  <1>2. PICK l, b, f, e : r = [line |-> l, body |-> b, done |-> f, rest |-> e]
    BY DEF Receiving
  <1>3. r.line = l /\ r.body = b /\ r.rest = e
    BY <1>2
  <1>4. one = [line |-> <<>>, body |-> b, done |-> f, rest |-> e]
    BY <1>2
  <1> HIDE DEF one, t
  <1>5. two = [line |-> <<>>, body |-> b, done |-> t, rest |-> e]
    BY <1>4
  <1> HIDE DEF two
  <1>6. QED
    BY <1>1, <1>3, <1>5 DEF t

(* A byte more of a line is a byte more of what is unstuffed, unless it is a first dot. *)
LEMMA UnstuffedAppend ==
  ASSUME NEW line \in Seq(Byte), NEW x \in Byte, line = <<>> => x # "."
  PROVE  Unstuffed(line) \in Seq(Byte) /\ Unstuffed(Append(line, x)) = Append(Unstuffed(line), x)
  <1>1. CASE line = <<>>
    <2>1. Append(line, x) = <<x>> /\ <<x>>[1] = x /\ Unstuffed(line) = <<>>
      BY <1>1 DEF Unstuffed
    <2>2. Unstuffed(<<x>>) = <<x>>
      BY <1>1 DEF Unstuffed
    <2>3. QED
      BY <2>1, <2>2
  <1>2. CASE line # <<>>
    <2> DEFINE more == Append(line, x)
    <2>1. more # <<>> /\ more[1] = line[1]
      BY <1>2
    <2>2. Tail(line) \in Seq(Byte) /\ Tail(more) = Append(Tail(line), x)
      BY <1>2
    <2> HIDE DEF more
    <2>3. Unstuffed(more) = (IF line[1] = "." THEN Tail(more) ELSE more)
          /\ Unstuffed(line) = (IF line[1] = "." THEN Tail(line) ELSE line)
      BY <1>2, <2>1 DEF Unstuffed
    <2>4. QED
      BY <2>2, <2>3 DEF more
  <1>3. QED
    BY <1>1, <1>2

(* While the body is on its way: the server has what the client was given, but for the line
   it is in the middle of, and a line that begins with a dot begins with two. *)
InStep(p) ==
  LET r == Stuffed(p)
      q == ReceiveBody(r.out)
  IN  /\ r \in Stuffing /\ q \in Receiving /\ ~q.done /\ q.rest = <<>>
      /\ q.body \o Unstuffed(q.line) = p
      /\ r.start <=> q.line = <<>>
      /\ r.start <=> p = <<>> \/ p[Len(p)] = "LF"
      /\ q.line # <<>> /\ q.line[1] = "." => Len(q.line) >= 2 /\ q.line[2] = "."
      /\ r.out = <<>> <=> p = <<>>
      /\ p # <<>> => r.out[Len(r.out)] = p[Len(p)]
      /\ BytesEnd(r.out) <=> BytesEnd(p)

(* Client and server begin in step. *)
LEMMA InStepStarts ==
  InStep(<<>>)
  <1>1. [out |-> <<>>, start |-> TRUE] \in Stuffing
    BY DEF Stuffing
  <1>2. [line |-> <<>>, body |-> <<>>, done |-> FALSE, rest |-> <<>>] \in Receiving
    BY DEF Receiving
  <1>3. Unstuffed(<<>>) = <<>> /\ <<>> \o <<>> = <<>> /\ ~BytesEnd(<<>>)
    BY DEF Unstuffed, BytesEnd
  <1> DEFINE r == Stuffed(<<>>)
             q == ReceiveBody(r.out)
  <1>a. r = [out |-> <<>>, start |-> TRUE]
    BY StuffedEmpty
  <1> HIDE DEF r
  <1>4. r \in Stuffing /\ r.out = <<>> /\ r.start = TRUE
    BY <1>1, <1>a
  <1>b. q = [line |-> <<>>, body |-> <<>>, done |-> FALSE, rest |-> <<>>]
    BY <1>4, ReceivedEmpty
  <1> HIDE DEF q
  <1>5. q \in Receiving /\ q.done = FALSE /\ q.rest = <<>> /\ q.line = <<>> /\ q.body = <<>>
    BY <1>2, <1>b
  <1>6. q.body \o Unstuffed(q.line) = <<>>
    BY <1>3, <1>5
  <1>7. QED
    BY <1>3, <1>4, <1>5, <1>6 DEF InStep, r, q

(* The end of a sequence with one byte more. *)
LEMMA LastOfAppend ==
  ASSUME NEW s \in Seq(Byte), NEW x \in Byte
  PROVE  LET t == Append(s, x)
         IN  /\ t \in Seq(Byte) /\ t # <<>> /\ t[Len(t)] = x /\ Len(t) = Len(s) + 1
             /\ BytesEnd(t) <=> x = "LF" /\ s # <<>> /\ s[Len(s)] = "CR"
             /\ s # <<>> => t[1] = s[1]
             /\ s = <<>> => t = <<x>> /\ t[1] = x
             /\ \A i \in 1..Len(s) : t[i] = s[i]
  <1> DEFINE t == Append(s, x)
  <1>1. /\ t \in Seq(Byte) /\ t # <<>> /\ Len(t) = Len(s) + 1 /\ t[Len(s) + 1] = x
        /\ Len(s) \in Nat /\ \A i \in 1..Len(s) : t[i] = s[i]
    OBVIOUS
  <1>2. s # <<>> => Len(s) >= 1 /\ t[Len(s)] = s[Len(s)] /\ t[1] = s[1]
    BY <1>1
  <1>3. s = <<>> => Len(s) = 0 /\ t = <<x>> /\ t[1] = x
    OBVIOUS
  <1> HIDE DEF t
  <1>4. BytesEnd(t) <=> Len(s) + 1 >= 2 /\ t[(Len(s) + 1) - 1] = "CR" /\ t[Len(s) + 1] = "LF"
    BY <1>1 DEF BytesEnd
  <1>5. (Len(s) + 1) - 1 = Len(s)
    BY <1>1
  <1>6. BytesEnd(t) <=> x = "LF" /\ s # <<>> /\ s[Len(s)] = "CR"
    BY <1>1, <1>2, <1>3, <1>4, <1>5
  <1>7. QED
    BY <1>1, <1>2, <1>3, <1>6 DEF t

(* They stay in step with every byte: a dot at the start of a line is doubled on one
   side and taken off on the other. *)
LEMMA InStepGoesOn ==
  ASSUME NEW p \in Seq(Byte), InStep(p), NEW x \in Byte
  PROVE  InStep(Append(p, x))
  <1> DEFINE r == Stuffed(p)
             q == ReceiveBody(r.out)
             p1 == Append(p, x)
             r1 == Stuffed(p1)
             q1 == ReceiveBody(r1.out)
  <1>1. /\ r \in Stuffing /\ q \in Receiving /\ ~q.done /\ q.rest = <<>>
        /\ q.body \o Unstuffed(q.line) = p
        /\ r.start <=> q.line = <<>>
        /\ q.line # <<>> /\ q.line[1] = "." => Len(q.line) >= 2 /\ q.line[2] = "."
        /\ r.out = <<>> <=> p = <<>>
        /\ p # <<>> => r.out[Len(r.out)] = p[Len(p)]
    BY DEF InStep
  <1>2. r.out \in Seq(Byte) /\ q.line \in Seq(Byte) /\ q.body \in Seq(Byte)
    BY <1>1 DEF Stuffing, Receiving
  <1>3. r1 = StuffByte(r, x)
    BY <1>1, StuffedAppend
  <1>4. /\ p1 \in Seq(Byte) /\ p1 # <<>> /\ p1[Len(p1)] = x
        /\ BytesEnd(p1) <=> x = "LF" /\ p # <<>> /\ p[Len(p)] = "CR"
    BY LastOfAppend
  <1> HIDE DEF p1
  <1>5. CASE r.start /\ x = "."
    <2> DEFINE o1 == Append(r.out, ".")
               o2 == Append(o1, ".")
               m == ReceiveBody(o1)
    <2>1. o1 \in Seq(Byte) /\ o2 \in Seq(Byte) /\ r.out \o <<".", ".">> = o2
      BY <1>2 DEF Byte
    <2>2. r1 = [out |-> o2, start |-> FALSE]
      BY <1>3, <1>5, <2>1 DEF StuffByte
    <2>3. q.line = <<>> /\ q.body = p
      <3>1. q.line = <<>> /\ Unstuffed(<<>>) = <<>>
        BY <1>1, <1>5 DEF Unstuffed
      <3>2. q.body \o <<>> = q.body
        BY <1>2, ConcatEmptySeq
      <3>3. QED
        BY <1>1, <3>1, <3>2
    <2>4. m = [line |-> <<".">>, body |-> p, done |-> FALSE, rest |-> <<>>]
      <3>1. m = ReceiveByte(q, ".")
        BY <1>1, <1>2, ReceivedAppend DEF Byte
      <3>2. ReceiveByte(q, ".") = [line |-> Append(q.line, "."), body |-> q.body,
                                   done |-> FALSE, rest |-> q.rest]
        BY <1>1, MoreOfLine DEF Byte
      <3>3. Append(q.line, ".") = <<".">>
        BY <2>3
      <3>4. QED
        BY <1>1, <2>3, <3>1, <3>2, <3>3
    <2>5. m \in Receiving
      <3>1. <<".">> \in Seq(Byte) /\ <<>> \in Seq(Byte)
        BY DEF Byte
      <3>2. QED
        BY <2>4, <3>1, IsReceiving
    <2> HIDE DEF m, o1
    <2>6. q1 = [line |-> <<".", ".">>, body |-> p, done |-> FALSE, rest |-> <<>>]
      <3>1. ReceiveBody(o2) = ReceiveByte(m, ".")
        BY <2>1, <2>5, ReceivedAppend DEF Byte, m
      <3>2. m.line = <<".">> /\ m.body = p /\ ~m.done /\ m.rest = <<>>
        BY <2>4
      <3>3. ReceiveByte(m, ".") = [line |-> Append(m.line, "."), body |-> m.body,
                                   done |-> FALSE, rest |-> m.rest]
        BY <2>5, <3>2, MoreOfLine DEF Byte
      <3>4. Append(m.line, ".") = <<".", ".">>
        BY <3>2, Two
      <3>5. r1.out = o2
        BY <2>2
      <3>6. QED
        BY <3>1, <3>2, <3>3, <3>4, <3>5
    <2>7. q1 \in Receiving /\ r1 \in Stuffing
      <3>1. <<".", ".">> \in Seq(Byte) /\ <<>> \in Seq(Byte)
        BY DEF Byte
      <3>2. q1 \in Receiving
        BY <2>6, <3>1, IsReceiving
      <3> HIDE DEF o2, r1
      <3>3. r1 \in Stuffing
        BY <2>1, <2>2 DEF Stuffing
      <3>4. QED
        BY <3>2, <3>3
    <2>8. Unstuffed(<<".", ".">>) = <<".">>
      BY DEF Unstuffed
    <2>9. p \o <<".">> = p1
      BY <1>5 DEF p1
    <2>10. /\ o2 # <<>> /\ o2[Len(o2)] = "." /\ ~BytesEnd(o2)
      BY <2>1, LastOfAppend DEF Byte
    <2>11. ~BytesEnd(p1)
      BY <1>4, <1>5
    <2>12. /\ q1.line = <<".", ".">> /\ q1.body = p /\ ~q1.done /\ q1.rest = <<>>
           /\ r1.out = o2 /\ r1.start = FALSE
      BY <2>2, <2>6
    <2> HIDE DEF q1, r1, o2
    <2>13. q1.body \o Unstuffed(q1.line) = p1
      BY <2>8, <2>9, <2>12
    <2>14. /\ r1.start <=> q1.line = <<>>
           /\ r1.start <=> p1 = <<>> \/ p1[Len(p1)] = "LF"
           /\ q1.line # <<>> /\ q1.line[1] = "." => Len(q1.line) >= 2 /\ q1.line[2] = "."
           /\ r1.out = <<>> <=> p1 = <<>>
           /\ p1 # <<>> => r1.out[Len(r1.out)] = p1[Len(p1)]
           /\ BytesEnd(r1.out) <=> BytesEnd(p1)
      BY <1>4, <1>5, <2>10, <2>11, <2>12
    <2>15. QED
      BY <2>7, <2>12, <2>13, <2>14 DEF InStep, q1, r1, p1
  <1>6. CASE ~(r.start /\ x = ".")
    <2> DEFINE o1 == Append(r.out, x)
    <2>1. r1 = [out |-> o1, start |-> x = "LF"]
      BY <1>3, <1>6 DEF StuffByte
    <2>2. /\ o1 \in Seq(Byte) /\ o1 # <<>> /\ o1[Len(o1)] = x
          /\ BytesEnd(o1) <=> x = "LF" /\ r.out # <<>> /\ r.out[Len(r.out)] = "CR"
      BY <1>2, LastOfAppend
    <2>3. BytesEnd(o1) <=> BytesEnd(p1)
      BY <1>1, <1>4, <2>2
    <2>4. q1 = ReceiveByte(q, x)
      <3>1. r1.out = o1
        BY <2>1
      <3>2. QED
        BY <1>1, <1>2, <3>1, ReceivedAppend
    <2>5. Unstuffed(Append(q.line, x)) = Append(Unstuffed(q.line), x)
          /\ Unstuffed(q.line) \in Seq(Byte)
      <3>1. q.line = <<>> => x # "."
        BY <1>1, <1>6
      <3>2. QED
        BY <1>2, <3>1, UnstuffedAppend
    <2>6. q.body \o Unstuffed(Append(q.line, x)) = p1
      <3>1. q.body \o Append(Unstuffed(q.line), x) = Append(q.body \o Unstuffed(q.line), x)
        <4> DEFINE s == q.body
                   u == Unstuffed(q.line)
        <4>1. s \in Seq(Byte) /\ u \in Seq(Byte)
          BY <1>2, <2>5
        <4> HIDE DEF s, u
        <4>2. s \o Append(u, x) = Append(s \o u, x)
          BY <4>1, ConcatAppend
        <4>3. QED
          BY <4>2 DEF s, u
      <3>2. QED
        BY <1>1, <2>5, <3>1 DEF p1
    <2>a. r1.out = o1 /\ r1.start = (x = "LF") /\ r1 \in Stuffing
      BY <2>1, <2>2 DEF Stuffing
    <2>b. /\ Append(q.line, x) \in Seq(Byte) /\ Append(q.line, x) # <<>>
          /\ Len(Append(q.line, x)) = Len(q.line) + 1
          /\ q.line # <<>> => Append(q.line, x)[1] = q.line[1]
          /\ q.line = <<>> => Append(q.line, x)[1] = x
          /\ \A i \in 1..Len(q.line) : Append(q.line, x)[i] = q.line[i]
      BY <1>2, LastOfAppend
    <2>7. CASE x # "LF"
      <3>1. q1 = [line |-> Append(q.line, x), body |-> q.body, done |-> FALSE, rest |-> <<>>]
        BY <1>1, <2>4, <2>7, MoreOfLine
      <3>2. /\ q1.line = Append(q.line, x) /\ q1.body = q.body /\ ~q1.done /\ q1.rest = <<>>
            /\ q1 \in Receiving
        BY <1>2, <2>b, <3>1 DEF Receiving
      <3> HIDE DEF q1, r1, o1
      <3>3. ASSUME q1.line[1] = "." PROVE Len(q1.line) >= 2 /\ q1.line[2] = "."
        <4>1. q.line # <<>> /\ q.line[1] = "."
          BY <1>1, <1>6, <2>b, <3>2, <3>3
        <4>2. Len(q.line) >= 2 /\ q.line[2] = "." /\ Len(q.line) \in Nat
          BY <1>1, <1>2, <4>1
        <4>3. QED
          BY <2>b, <3>2, <4>2
      <3>4. /\ r1.start <=> q1.line = <<>>
            /\ r1.start <=> p1 = <<>> \/ p1[Len(p1)] = "LF"
            /\ r1.out = <<>> <=> p1 = <<>>
            /\ p1 # <<>> => r1.out[Len(r1.out)] = p1[Len(p1)]
            /\ BytesEnd(r1.out) <=> BytesEnd(p1)
        BY <1>4, <2>2, <2>3, <2>7, <2>a, <2>b, <3>2
      <3>5. q1.body \o Unstuffed(q1.line) = p1
        BY <2>6, <3>2
      <3>6. QED
        BY <2>a, <3>2, <3>3, <3>4, <3>5 DEF InStep, q1, r1, p1
    <2>8. CASE x = "LF"
      <3>1. ~IsEnd(Append(q.line, "LF"))
        <4> SUFFICES ASSUME IsEnd(Append(q.line, x)) PROVE FALSE
          BY <2>8
        <4>1. Append(q.line, x)[1] = "."
              /\ \A i \in 2..Len(Append(q.line, x)) : Append(q.line, x)[i] \in {"CR", "LF"}
          BY DEF IsEnd
        <4>2. q.line # <<>> /\ q.line[1] = "."
          BY <2>8, <2>b, <4>1
        <4>3. Len(q.line) >= 2 /\ q.line[2] = "." /\ Len(q.line) \in Nat
          BY <1>1, <1>2, <4>2
        <4>4. 2 \in 2..Len(Append(q.line, x)) /\ Append(q.line, x)[2] = "."
          BY <2>b, <4>3
        <4>5. QED
          BY <4>1, <4>4
      <3>2. q1 = [line |-> <<>>, body |-> p1, done |-> FALSE, rest |-> <<>>]
        BY <1>1, <2>4, <2>6, <2>8, <3>1, EndOfLine
      <3>3. /\ q1.line = <<>> /\ q1.body = p1 /\ ~q1.done /\ q1.rest = <<>>
            /\ q1 \in Receiving
        BY <1>4, <3>2 DEF Receiving
      <3> HIDE DEF q1, r1, o1
      <3>4. /\ r1.start <=> q1.line = <<>>
            /\ r1.start <=> p1 = <<>> \/ p1[Len(p1)] = "LF"
            /\ r1.out = <<>> <=> p1 = <<>>
            /\ p1 # <<>> => r1.out[Len(r1.out)] = p1[Len(p1)]
            /\ BytesEnd(r1.out) <=> BytesEnd(p1)
        BY <1>4, <2>2, <2>3, <2>8, <2>a, <3>3
      <3>5. q1.body \o Unstuffed(q1.line) = p1
        <4>1. Unstuffed(<<>>) = <<>>
          BY DEF Unstuffed
        <4>2. QED
          BY <1>4, <3>3, <4>1
      <3>6. QED
        BY <2>a, <3>3, <3>4, <3>5 DEF InStep, q1, r1, p1
    <2>9. QED
      BY <2>7, <2>8
  <1>7. QED
    BY <1>5, <1>6

(* They are in step after every payload. *)
LEMMA AlwaysInStep ==
  ASSUME NEW p \in Seq(Byte)
  PROVE  InStep(p)
  <1> DEFINE S == {s \in Seq(Byte) : InStep(s)}
  <1>1. S \in SUBSET Seq(Byte) /\ <<>> \in S
    BY InStepStarts
  <1>2. \A s \in S : \A x \in Byte : Append(s, x) \in S
    BY InStepGoesOn
  <1> HIDE DEF S
  <1>3. S = Seq(Byte)
    BY <1>1, <1>2, SeqInduction
  <1>4. QED
    BY <1>3 DEF S

(* The body arrives: the server has it when the dot comes, and reads no further. *)
LEMMA BodyArrives ==
  ASSUME NEW p \in Seq(Byte)
  PROVE  ReceiveBody(SendBody(p)) =
           [line |-> <<>>, done |-> TRUE, rest |-> <<>>,
            body |-> IF IsSuffix(CRLF, p) THEN p ELSE p \o CRLF]
  <1> DEFINE e == IF BytesEnd(p) THEN p ELSE p \o CRLF
             out == Stuffed(p).out
             ended == Stuffed(e).out
  <1>1. apply_dot_stuffing(p) = out
    BY DEF apply_dot_stuffing, Stuffed
  <1>2. InStep(p) /\ out \in Seq(Byte) /\ Stuffed(p) \in Stuffing
    BY AlwaysInStep DEF InStep, Stuffing
  <1>3. IsSuffix(CRLF, out) <=> BytesEnd(p)
    BY <1>2, SuffixIsEnd DEF InStep
  <1>4. /\ e \in Seq(Byte) /\ BytesEnd(e)
        /\ ended = IF BytesEnd(p) THEN out ELSE out \o CRLF
    <2>1. CASE BytesEnd(p)
      BY <2>1
    <2>2. CASE ~BytesEnd(p)
      <3> DEFINE p1 == Append(p, "CR")
                 r1 == Stuffed(p1)
      <3>1. p1 \in Seq(Byte) /\ p \o CRLF = Append(p1, "LF") /\ p1 # <<>>
            /\ p1[Len(p1)] = "CR"
        BY DEF Byte, CRLF
      <3>2. r1 = StuffByte(Stuffed(p), "CR")
        BY <1>2, StuffedAppend DEF Byte
      <3>3. r1 = [out |-> Append(out, "CR"), start |-> FALSE]
        BY <3>2 DEF StuffByte
      <3>4. r1 \in Stuffing
        <4>1. Append(out, "CR") \in Seq(Byte)
          BY <1>2 DEF Byte
        <4> HIDE DEF r1, out
        <4>2. QED
          BY <3>3, <4>1 DEF Stuffing
      <3> HIDE DEF p1
      <3>5. Stuffed(Append(p1, "LF")) = StuffByte(r1, "LF")
        BY <3>1, <3>4, StuffedAppend DEF Byte
      <3>6. StuffByte(r1, "LF") = [out |-> Append(r1.out, "LF"), start |-> TRUE]
        BY DEF StuffByte
      <3>7. r1.out = Append(out, "CR")
        BY <3>3
      <3>8. Append(Append(out, "CR"), "LF") = out \o CRLF
        BY <1>2, ConcatTwo DEF CRLF, Byte
      <3>9. e = Append(p1, "LF")
        BY <2>2, <3>1
      <3>10. ended = out \o CRLF
        <4>1. ended = [out |-> Append(r1.out, "LF"), start |-> TRUE].out
          BY <3>5, <3>6, <3>9
        <4>2. ended = Append(r1.out, "LF")
          BY <4>1
        <4>3. QED
          BY <3>7, <3>8, <4>2
      <3>11. e \in Seq(Byte) /\ BytesEnd(e)
        BY <3>1, <3>9, LastOfAppend DEF Byte
      <3>12. QED
        BY <2>2, <3>10, <3>11
    <2>3. QED
      BY <2>1, <2>2
  <1> DEFINE q == ReceiveBody(ended)
  <1> HIDE DEF e, out
  <1>5. InStep(e) /\ ended \in Seq(Byte)
    BY <1>4, AlwaysInStep DEF InStep, Stuffing
  <1>6. q \in Receiving /\ ~q.done /\ q.rest = <<>> /\ q.line = <<>> /\ q.body = e
    <2>1. e # <<>> /\ e[Len(e)] = "LF"
      BY <1>4 DEF BytesEnd
    <2>2. q \in Receiving /\ ~q.done /\ q.rest = <<>> /\ q.line = <<>>
          /\ q.body \o Unstuffed(q.line) = e
      BY <1>5, <2>1 DEF InStep
    <2>3. q.body \in Seq(Byte)
      BY <2>2 DEF Receiving
    <2>4. Unstuffed(<<>>) = <<>>
      BY DEF Unstuffed
    <2> HIDE DEF q
    <2>5. QED
      BY <2>2, <2>3, <2>4
  <1>7. SendBody(p) = Append(Append(Append(ended, "."), "CR"), "LF")
    <2>1. SendBody(p) = ended \o <<".">> \o CRLF
      BY <1>1, <1>3, <1>4 DEF SendBody
    <2> HIDE DEF ended
    <2>2. ended \o <<".">> \o CRLF = Append(Append(Append(ended, "."), "CR"), "LF")
      BY <1>5 DEF CRLF, Byte
    <2>3. QED
      BY <2>1, <2>2
  <1> HIDE DEF ended
  <1> DEFINE o1 == Append(ended, ".")
             o2 == Append(o1, "CR")
             q1 == ReceiveBody(o1)
             q2 == ReceiveBody(o2)
  <1>8. o1 \in Seq(Byte) /\ o2 \in Seq(Byte)
    BY <1>5 DEF Byte
  <1>9. q1 = [line |-> <<".">>, body |-> e, done |-> FALSE, rest |-> <<>>]
    <2>1. q1 = ReceiveByte(q, ".")
      BY <1>5, <1>6, ReceivedAppend DEF Byte
    <2> HIDE DEF q
    <2>2. ReceiveByte(q, ".") = [line |-> Append(q.line, "."), body |-> q.body, done |-> FALSE,
                                 rest |-> q.rest]
      BY <1>6, MoreOfLine DEF Byte
    <2>3. Append(q.line, ".") = <<".">>
      BY <1>6
    <2>4. QED
      BY <1>6, <2>1, <2>2, <2>3
  <1>10. q1 \in Receiving
    <2>1. <<".">> \in Seq(Byte) /\ <<>> \in Seq(Byte)
      BY DEF Byte
    <2>2. QED
      BY <1>4, <1>9, <2>1, IsReceiving
  <1>11. q2 = [line |-> <<".", "CR">>, body |-> e, done |-> FALSE, rest |-> <<>>]
    <2>1. q2 = ReceiveByte(q1, "CR")
      BY <1>8, <1>10, ReceivedAppend DEF Byte
    <2>a. q1.line = <<".">> /\ q1.body = e /\ ~q1.done /\ q1.rest = <<>>
      BY <1>9
    <2> HIDE DEF q1
    <2>2. ReceiveByte(q1, "CR") = [line |-> Append(q1.line, "CR"), body |-> q1.body,
                                   done |-> FALSE, rest |-> q1.rest]
      BY <1>10, <2>a, MoreOfLine DEF Byte
    <2>3. Append(q1.line, "CR") = <<".", "CR">>
      BY <2>a, Two, "." \in Byte, "CR" \in Byte DEF Byte
    <2>4. QED
      BY <2>1, <2>2, <2>3, <2>a
  <1>12. q2 \in Receiving
    <2>1. <<".", "CR">> \in Seq(Byte) /\ <<>> \in Seq(Byte)
      BY DEF Byte
    <2>2. QED
      BY <1>4, <1>11, <2>1, IsReceiving
  <1>13. ReceiveBody(Append(o2, "LF")) = [line |-> <<>>, body |-> e, done |-> TRUE, rest |-> <<>>]
    <2>1. ReceiveBody(Append(o2, "LF")) = ReceiveByte(q2, "LF")
      BY <1>8, <1>12, ReceivedAppend DEF Byte
    <2>a. q2.line = <<".", "CR">> /\ q2.body = e /\ ~q2.done /\ q2.rest = <<>>
      BY <1>11
    <2> HIDE DEF q2
    <2>2. Append(q2.line, "LF") = <<".", "CR", "LF">>
      BY <2>a, Three, "." \in Byte, "CR" \in Byte, "LF" \in Byte DEF Byte
    <2>3. IsEnd(Append(q2.line, "LF"))
      <3> DEFINE l == <<".", "CR", "LF">>
      <3>1. l # <<>> /\ Len(l) = 3 /\ l[1] = "." /\ l[2] = "CR" /\ l[3] = "LF"
        OBVIOUS
      <3> HIDE DEF l
      <3>2. \A i \in 2..Len(l) : l[i] \in {"CR", "LF"}
        BY <3>1
      <3>3. IsEnd(l)
        BY <3>1, <3>2 DEF IsEnd
      <3>4. QED
        BY <2>2, <3>3 DEF l
    <2>4. QED
      BY <1>12, <2>1, <2>3, <2>a, EndOfBody
  <1>14. e = IF IsSuffix(CRLF, p) THEN p ELSE p \o CRLF
    BY SuffixIsEnd DEF e
  <1>15. QED
    BY <1>7, <1>13, <1>14 DEF o1, o2

-----------------------------------------------------------------------------
(* The keywords of the filters (Keywords) *)

(* A bounded set of numbers has a greatest one. *)
LEMMA GreatestOf ==
  ASSUME NEW k \in Nat, NEW S \in SUBSET (0..k), S # {}
  PROVE  \E n \in S : \A m \in S : n >= m
  <1> DEFINE D == {k - n : n \in S}
  <1>1. D \in SUBSET Nat /\ D # {}
    <2>1. \A n \in S : k - n \in Nat
      OBVIOUS
    <2>2. D # {}
      OBVIOUS
    <2>3. QED
      BY <2>1, <2>2
  <1>2. \A n \in S : n \in Int /\ k - n \in D
    OBVIOUS
  <1>3. \A d \in D : \E n \in S : d = k - n
    OBVIOUS
  <1> HIDE DEF D
  <1>4. PICK d \in D : \A e \in D : d <= e
    BY <1>1, LeastOf
  <1>5. PICK n \in S : d = k - n
    BY <1>3
  <1>6. \A m \in S : k - n <= k - m
    BY <1>2, <1>4, <1>5
  <1>7. QED
    BY <1>2, <1>6

(* A keyword without its blanks is a sequence of letters. *)
LEMMA TrimType ==
  ASSUME NEW T, NEW s \in Seq(T)
  PROVE  Trim(s) \in Seq(T)
  <1> DEFINE ink == {i \in DOMAIN s : s[i] # " "}
  <1>1. Len(s) \in Nat /\ DOMAIN s = 1..Len(s) /\ \A i \in 1..Len(s) : s[i] \in T
    OBVIOUS
  <1>2. CASE ink = {}
    <2>1. Trim(s) = <<>>
      BY <1>2, Zenon DEF Trim
    <2>2. QED
      BY <2>1
  <1>3. CASE ink # {}
    <2>1. ink \in SUBSET Nat /\ ink \in SUBSET (0..Len(s)) /\ ink \subseteq 1..Len(s)
      <3>1. ink \subseteq 1..Len(s)
        BY <1>1
      <3> HIDE DEF ink
      <3>2. QED
        BY <1>1, <3>1
    <2>2. Trim(s) = SubSeq(s, Min(ink), Max(ink))
      BY <1>3, Zenon DEF Trim
    <2> HIDE DEF ink
    <2>3. Min(ink) \in ink
      <3>1. \E n \in ink : \A m \in ink : n <= m
        BY <1>3, <2>1, LeastOf
      <3>2. QED
        BY <3>1 DEF Min
    <2>4. Max(ink) \in ink
      <3>1. \E n \in ink : \A m \in ink : n >= m
        BY <1>1, <1>3, <2>1, GreatestOf
      <3>2. QED
        BY <3>1 DEF Max
    <2>5. Min(ink) \in 1..Len(s) /\ Max(ink) \in 1..Len(s)
      BY <2>1, <2>3, <2>4
    <2>6. \A i \in Min(ink)..Max(ink) : s[i] \in T
      BY <1>1, <2>5
    <2>7. SubSeq(s, Min(ink), Max(ink)) \in Seq(T)
      BY <1>1, <2>5, <2>6, SubSeqProperties
    <2>8. QED
      BY <2>2, <2>7
  <1>4. QED
    BY <1>2, <1>3

(* Pattern i ends at place e of the text. *)
EndsAt(patterns, text, i, e) ==
  Len(patterns[i]) <= e /\ SubSeq(text, (e + 1) - Len(patterns[i]), e) = patterns[i]

(* No two patterns share a letter. *)
PatternsApart(patterns, text) ==
  \A i, j \in DOMAIN patterns : \A e, f \in 1..Len(text) :
    EndsAt(patterns, text, i, e) /\ EndsAt(patterns, text, j, f)
      => i = j \/ e < (f + 1) - Len(patterns[j]) \/ f < (e + 1) - Len(patterns[i])

(* What the search knows after k letters. *)
SearchInv(patterns, text, r, k) ==
  /\ r \in Search /\ r.from \in 1..(k + 1)
  /\ \A i \in r.found : i \in DOMAIN patterns /\ \E e \in 1..k : EndsAt(patterns, text, i, e)
  /\ r.from > 1 => \E i \in r.found : EndsAt(patterns, text, i, r.from - 1)
  /\ PatternsApart(patterns, text) =>
       \A i \in DOMAIN patterns : \A e \in 1..k : EndsAt(patterns, text, i, e) => i \in r.found

(* One letter more: of the patterns that end there one is reported, and where no two
   share a letter it is the only one. *)
LEMMA FindAtStep ==
  ASSUME NEW T, NEW text \in Seq(T), NEW patterns \in Seq(Seq(T)),
         \A i \in DOMAIN patterns : patterns[i] # <<>>,
         NEW k \in Nat, k + 1 <= Len(text), NEW r, SearchInv(patterns, text, r, k)
  PROVE  SearchInv(patterns, text, FindAt(patterns, text, r, k + 1), k + 1)
  <1> DEFINE e == k + 1
             ending == Ending(patterns, text, r.from, e)
             Best(i) == \A j \in ending :
                          \/ Len(patterns[i]) > Len(patterns[j])
                          \/ Len(patterns[i]) = Len(patterns[j]) /\ i <= j
             first == CHOOSE i \in ending : Best(i)
             q == FindAt(patterns, text, r, e)
  <1>1. /\ r \in Search /\ r.from \in 1..e
        /\ \A i \in r.found : i \in DOMAIN patterns /\ \E f \in 1..k : EndsAt(patterns, text, i, f)
        /\ r.from > 1 => \E i \in r.found : EndsAt(patterns, text, i, r.from - 1)
        /\ PatternsApart(patterns, text) =>
             \A i \in DOMAIN patterns : \A f \in 1..k :
               EndsAt(patterns, text, i, f) => i \in r.found
    BY DEF SearchInv
  <1>2. Len(patterns) \in Nat /\ DOMAIN patterns = 1..Len(patterns)
    OBVIOUS
  <1>3. ASSUME NEW i \in DOMAIN patterns
        PROVE  Len(patterns[i]) \in Nat /\ Len(patterns[i]) >= 1
    <2>1. patterns[i] \in Seq(T) /\ patterns[i] # <<>>
      BY <1>2
    <2>2. QED
      BY <2>1
  <1>4. \A i \in ending : i \in DOMAIN patterns /\ EndsAt(patterns, text, i, e)
    <2> SUFFICES ASSUME NEW i \in ending
                 PROVE  i \in DOMAIN patterns /\ EndsAt(patterns, text, i, e)
      OBVIOUS
    <2>1. i \in DOMAIN patterns /\ e + 1 >= r.from + Len(patterns[i])
          /\ SubSeq(text, (e + 1) - Len(patterns[i]), e) = patterns[i]
      BY DEF Ending
    <2>2. Len(patterns[i]) <= e
      BY <1>1, <1>3, <2>1
    <2>3. QED
      BY <2>1, <2>2 DEF EndsAt
  <1>5. \A i \in DOMAIN patterns : EndsAt(patterns, text, i, e) /\ i \notin ending
                                     => e + 1 < r.from + Len(patterns[i])
    <2> SUFFICES ASSUME NEW i \in DOMAIN patterns, EndsAt(patterns, text, i, e), i \notin ending
                 PROVE  e + 1 < r.from + Len(patterns[i])
      OBVIOUS
    <2>1. SubSeq(text, (e + 1) - Len(patterns[i]), e) = patterns[i]
      BY DEF EndsAt
    <2>2. ~(e + 1 >= r.from + Len(patterns[i]))
      BY <2>1 DEF Ending
    <2>3. r.from \in Nat /\ Len(patterns[i]) \in Nat
      BY <1>1, <1>3
    <2>4. QED
      BY <2>2, <2>3
  <1>6. q = IF ending = {} THEN r ELSE [from |-> e + 1, found |-> r.found \cup {first}]
    BY Zenon DEF FindAt
  <1> HIDE DEF ending, q
  <1>7. CASE ending = {}
    <2>1. q = r
      BY <1>6, <1>7
    <2>2. r.from \in 1..(e + 1)
      BY <1>1
    <2>3. \A i \in r.found : i \in DOMAIN patterns /\ \E f \in 1..e : EndsAt(patterns, text, i, f)
      BY <1>1
    <2>4. ASSUME PatternsApart(patterns, text), NEW i \in DOMAIN patterns, NEW f \in 1..e,
                 EndsAt(patterns, text, i, f)
          PROVE  i \in r.found
      <3>1. CASE f # e
        <4>1. f \in 1..k
          BY <3>1
        <4>2. QED
          BY <1>1, <2>4, <4>1
      <3>2. CASE f = e
        <4> SUFFICES ASSUME i \notin r.found PROVE FALSE
          OBVIOUS
        <4>1. e + 1 < r.from + Len(patterns[i]) /\ Len(patterns[i]) <= e
          BY <1>5, <1>7, <2>4, <3>2 DEF EndsAt
        <4>2. r.from > 1
          BY <1>1, <1>3, <4>1
        <4>3. PICK j \in r.found : EndsAt(patterns, text, j, r.from - 1)
          BY <1>1, <4>2
        <4>4. j \in DOMAIN patterns /\ j # i /\ r.from - 1 \in 1..Len(text) /\ e \in 1..Len(text)
          <5>1. j \in DOMAIN patterns /\ j # i
            BY <1>1, <4>3
          <5>2. r.from \in 1..(k + 1) /\ Len(text) \in Nat
            BY <1>1
          <5>3. QED
            BY <4>2, <5>1, <5>2
        <4>5. \/ e < ((r.from - 1) + 1) - Len(patterns[j])
              \/ r.from - 1 < (e + 1) - Len(patterns[i])
          BY <2>4, <3>2, <4>3, <4>4 DEF PatternsApart
        <4>6. /\ r.from \in 1..(k + 1) /\ Len(patterns[i]) \in Nat
              /\ Len(patterns[j]) \in Nat /\ Len(patterns[j]) >= 1
          BY <1>1, <1>3, <4>4
        <4> DEFINE a == Len(patterns[i])
                   d == Len(patterns[j])
                   n == r.from
        <4>7. /\ n \in 1..(k + 1) /\ a \in Nat /\ d \in Nat /\ d >= 1 /\ (k + 1) + 1 < n + a
              /\ (k + 1 < ((n - 1) + 1) - d \/ n - 1 < ((k + 1) + 1) - a)
          BY <4>1, <4>5, <4>6
        <4> HIDE DEF a, d, n
        <4>8. QED
          BY <4>7
      <3>3. QED
        BY <3>1, <3>2
    <2>5. r \in Search /\ (r.from > 1 => \E i \in r.found : EndsAt(patterns, text, i, r.from - 1))
      BY <1>1
    <2>6. SearchInv(patterns, text, r, e)
      <3> HIDE DEF e
      <3>1. QED
        BY <2>2, <2>3, <2>4, <2>5 DEF SearchInv
    <2>7. QED
      BY <2>1, <2>6 DEF q
  <1>8. CASE ending # {}
    <2>1. first \in ending
      <3> DEFINE S == {Len(patterns[i]) : i \in ending}
      <3>1. S \in SUBSET (0..e) /\ S # {}
        <4>1. \A i \in ending : Len(patterns[i]) \in 0..e
          BY <1>3, <1>4 DEF EndsAt
        <4>2. QED
          BY <1>8, <4>1
      <3>2. \A i \in ending : Len(patterns[i]) \in S
        OBVIOUS
      <3>3. \A l \in S : \E i \in ending : l = Len(patterns[i])
        OBVIOUS
      <3> HIDE DEF S
      <3>4. PICK l \in S : \A m \in S : l >= m
        <4>1. e \in Nat
          OBVIOUS
        <4> HIDE DEF e
        <4>2. QED
          BY <3>1, <4>1, GreatestOf
      <3> DEFINE L == {i \in ending : Len(patterns[i]) = l}
      <3>5. L # {} /\ L \in SUBSET Nat
        BY <1>2, <1>4, <3>3, <3>4
      <3>6. \A i \in L : i \in ending /\ Len(patterns[i]) = l
        OBVIOUS
      <3>7. \A i \in ending : Len(patterns[i]) = l => i \in L
        OBVIOUS
      <3> HIDE DEF L
      <3>8. PICK i \in L : \A j \in L : i <= j
        BY <3>5, LeastOf
      <3>9. Best(i)
        <4> SUFFICES ASSUME NEW j \in ending
                     PROVE  \/ Len(patterns[i]) > Len(patterns[j])
                            \/ Len(patterns[i]) = Len(patterns[j]) /\ i <= j
          OBVIOUS
        <4>1. Len(patterns[j]) \in Nat /\ Len(patterns[i]) = l /\ l >= Len(patterns[j])
              /\ l \in Nat
          BY <1>3, <1>4, <3>1, <3>2, <3>4, <3>6
        <4>2. Len(patterns[j]) = l => i <= j
          BY <3>7, <3>8
        <4>3. QED
          BY <4>1, <4>2
      <3>10. \E n \in ending : Best(n)
        BY <3>6, <3>9
      <3> HIDE DEF Best
      <3>11. QED
        BY <3>10, Zenon
    <2> HIDE DEF first
    <2>2. first \in DOMAIN patterns /\ EndsAt(patterns, text, first, e)
      BY <1>4, <2>1
    <2>3. q = [from |-> e + 1, found |-> r.found \cup {first}]
      BY <1>6, <1>8
    <2>4. q.from = e + 1 /\ q.found = r.found \cup {first}
      BY <2>3
    <2>5. q \in Search
      <3>1. r.found \in SUBSET Nat /\ first \in Nat /\ e + 1 \in Nat
        BY <1>1, <1>2, <2>2 DEF Search
      <3>2. QED
        BY <2>3, <3>1 DEF Search
    <2>6. ASSUME NEW i \in q.found
          PROVE  i \in DOMAIN patterns /\ \E f \in 1..e : EndsAt(patterns, text, i, f)
      <3>1. CASE i = first
        <4>1. e \in 1..e
          OBVIOUS
        <4>2. QED
          BY <2>2, <3>1, <4>1
      <3>2. CASE i \in r.found
        BY <1>1, <3>2
      <3>3. QED
        BY <2>4, <3>1, <3>2
    <2>7. \E i \in q.found : EndsAt(patterns, text, i, q.from - 1)
      <3>1. q.from - 1 = e /\ first \in q.found
        BY <2>4
      <3>2. QED
        BY <2>2, <3>1
    <2>8. ASSUME PatternsApart(patterns, text), NEW i \in DOMAIN patterns, NEW f \in 1..e,
                 EndsAt(patterns, text, i, f)
          PROVE  i \in q.found
      <3>1. CASE f # e
        <4>1. f \in 1..k
          BY <3>1
        <4>2. QED
          BY <1>1, <2>4, <2>8, <4>1
      <3>2. CASE f = e
        <4>1. e \in 1..Len(text)
          OBVIOUS
        <4>2. i = first \/ e < (e + 1) - Len(patterns[first]) \/ e < (e + 1) - Len(patterns[i])
          BY <2>2, <2>8, <3>2, <4>1 DEF PatternsApart
        <4>3. i = first
          BY <1>3, <2>2, <4>2
        <4>4. QED
          BY <2>4, <4>3
      <3>3. QED
        BY <3>1, <3>2
    <2>9. q.from \in 1..(e + 1)
      BY <2>4
    <2>10. QED
      <3> HIDE DEF e
      <3>1. SearchInv(patterns, text, q, e)
        BY <2>5, <2>6, <2>7, <2>8, <2>9 DEF SearchInv
      <3>2. QED
        BY <3>1 DEF q, e
  <1>9. QED
    BY <1>7, <1>8 DEF q

(* The search reports only patterns that occur, and all of them where none overlap. *)
LEMMA SearchEnds ==
  ASSUME NEW T, NEW text \in Seq(T), NEW patterns \in Seq(Seq(T)),
         \A i \in DOMAIN patterns : patterns[i] # <<>>
  PROVE  LET found == FindIter(patterns, text)
         IN  /\ \A i \in found : i \in DOMAIN patterns
                                   /\ \E e \in 1..Len(text) : EndsAt(patterns, text, i, e)
             /\ PatternsApart(patterns, text) =>
                  \A i \in DOMAIN patterns : \A e \in 1..Len(text) :
                    EndsAt(patterns, text, i, e) => i \in found
  <1> DEFINE step == [q \in Search \X Nat |-> FindAt(patterns, text, q[1], q[2])]
             init == [from |-> 1, found |-> {}]
             Upto(k) == [i \in 1..k |-> i]
             R(k) == Fold(step, init, Upto(k))
             S == {k \in Nat : k <= Len(text) => SearchInv(patterns, text, R(k), k)}
  <1>1. Len(text) \in Nat
    OBVIOUS
  <1>2. 0 \in S
    <2>1. Upto(0) = <<>>
      OBVIOUS
    <2>2. R(0) = init
      BY <2>1, FoldEmpty
    <2>3. init \in Search /\ init.from = 1 /\ init.found = {}
      BY DEF Search
    <2> HIDE DEF R, init
    <2>4. SearchInv(patterns, text, R(0), 0)
      BY <2>2, <2>3 DEF SearchInv
    <2>5. QED
      BY <2>4
  <1>3. ASSUME NEW k \in S PROVE k + 1 \in S
    <2> SUFFICES ASSUME k + 1 <= Len(text) PROVE SearchInv(patterns, text, R(k + 1), k + 1)
      OBVIOUS
    <2>1. k \in Nat /\ SearchInv(patterns, text, R(k), k)
      BY <1>1
    <2>2. Upto(k) \in Seq(Nat) /\ Upto(k + 1) = Append(Upto(k), k + 1)
      BY <2>1
    <2> HIDE DEF Upto, step, init
    <2>3. R(k + 1) = step[<<R(k), k + 1>>]
      <3>1. k + 1 \in Nat
        BY <2>1
      <3>2. Fold(step, init, Append(Upto(k), k + 1)) = step[<<Fold(step, init, Upto(k)), k + 1>>]
        BY <2>2, <3>1, FoldAppend
      <3>3. QED
        BY <2>2, <3>2
    <2>4. R(k) \in Search
      BY <2>1 DEF SearchInv
    <2> HIDE DEF R
    <2>5. step[<<R(k), k + 1>>] = FindAt(patterns, text, R(k), k + 1)
      <3>1. <<R(k), k + 1>> \in Search \X Nat
        BY <2>1, <2>4
      <3>2. QED
        BY <3>1 DEF step
    <2>6. QED
      BY <2>1, <2>3, <2>5, FindAtStep
  <1>4. S = Nat
    <2>1. S \in SUBSET Nat
      OBVIOUS
    <2> HIDE DEF S
    <2>2. QED
      BY <1>2, <1>3, <2>1, Induction
  <1>5. SearchInv(patterns, text, R(Len(text)), Len(text))
    <2> HIDE DEF S
    <2>1. Len(text) \in S /\ Len(text) <= Len(text)
      BY <1>1, <1>4
    <2> HIDE DEF R
    <2>2. QED
      BY <2>1 DEF S
  <1>6. FindIter(patterns, text) = R(Len(text)).found
    BY DEF FindIter
  <1> HIDE DEF R
  <1>7. QED
    BY <1>5, <1>6 DEF SearchInv

(* h leads from a pattern to its rule. *)
IsRuleIndex(h, rules, patterns, labels) ==
  /\ h \in [DOMAIN patterns -> DOMAIN rules]
  /\ \A i \in DOMAIN patterns :
       patterns[i] = Trim(rules[h[i]].keyword) /\ labels[i] = rules[h[i]].label
  /\ \A i, j \in DOMAIN patterns : h[i] = h[j] => i = j
  /\ \A n \in DOMAIN rules : Trim(rules[n].keyword) # <<>> =>
       \E i \in DOMAIN patterns : h[i] = n

(* Pattern and label of the same number come from the same rule, also behind blank keywords. *)
LEMMA Compiled ==
  ASSUME NEW T, NEW rules \in Seq([keyword : Seq(T), label : Nat])
  PROVE  LET set == Compile(rules)
         IN  /\ set.patterns \in Seq(Seq(T))
             /\ \A i \in DOMAIN set.patterns : set.patterns[i] # <<>>
             /\ DOMAIN set.labels = DOMAIN set.patterns
             /\ \E h : IsRuleIndex(h, rules, set.patterns, set.labels)
  <1> DEFINE Rule == [keyword : Seq(T), label : Nat]
             S == {r \in ToSet(rules) : Trim(r.keyword) # <<>>}
             used == Used(rules)
             patterns == [i \in DOMAIN used |-> Trim(used[i].keyword)]
             labels == [i \in DOMAIN used |-> used[i].label]
  <1>1. Compile(rules).patterns = patterns /\ Compile(rules).labels = labels
    BY DEF Compile
  <1>2. used = Keep(rules, S)
    BY DEF Used
  <1>3. \A n \in 1..Len(rules) : rules[n] \in S <=> Trim(rules[n].keyword) # <<>>
    BY DEF ToSet
  <1> HIDE DEF S, used, Rule
  <1>a. rules \in Seq(Rule)
    BY DEF Rule
  <1>4. used \in Seq(Rule)
    BY <1>2, <1>a, KeepRange
  <1>5. PICK h : IsKeepIndex(h, rules, S)
    BY <1>a, KeepIndexed
  <1>6. /\ h \in [1..Len(used) -> 1..Len(rules)]
        /\ \A k \in 1..Len(used) : used[k] = rules[h[k]] /\ rules[h[k]] \in S
        /\ \A k, m \in 1..Len(used) : k < m => h[k] < h[m]
        /\ \A n \in 1..Len(rules) : rules[n] \in S => \E k \in 1..Len(used) : h[k] = n
    BY <1>2, <1>5 DEF IsKeepIndex
  <1>7. /\ Len(used) \in Nat /\ DOMAIN used = 1..Len(used)
        /\ Len(rules) \in Nat /\ DOMAIN rules = 1..Len(rules)
    BY <1>4, <1>a
  <1>8. \A i \in 1..Len(used) : Trim(used[i].keyword) \in Seq(T)
    <2> SUFFICES ASSUME NEW i \in 1..Len(used) PROVE Trim(used[i].keyword) \in Seq(T)
      OBVIOUS
    <2>1. used[i] \in Rule
      BY <1>4, <1>7
    <2>2. used[i].keyword \in Seq(T)
      BY <2>1 DEF Rule
    <2>3. QED
      BY <2>2, TrimType
  <1>9. patterns \in Seq(Seq(T)) /\ DOMAIN patterns = 1..Len(used)
        /\ DOMAIN labels = 1..Len(used)
    BY <1>7, <1>8
  <1>10. \A i \in 1..Len(used) : /\ patterns[i] = Trim(rules[h[i]].keyword)
                                 /\ labels[i] = rules[h[i]].label
                                 /\ patterns[i] # <<>>
    <2> SUFFICES ASSUME NEW i \in 1..Len(used)
                 PROVE  /\ patterns[i] = Trim(rules[h[i]].keyword)
                        /\ labels[i] = rules[h[i]].label
                        /\ patterns[i] # <<>>
      OBVIOUS
    <2>1. used[i] = rules[h[i]] /\ rules[h[i]] \in S /\ h[i] \in 1..Len(rules)
      BY <1>6
    <2>2. QED
      BY <1>3, <1>7, <2>1
  <1>11. \A i, j \in 1..Len(used) : h[i] = h[j] => i = j
    <2> SUFFICES ASSUME NEW i \in 1..Len(used), NEW j \in 1..Len(used), h[i] = h[j], i # j
                 PROVE  FALSE
      OBVIOUS
    <2>1. h[i] \in Int /\ (i < j \/ j < i)
      <3>1. h[i] \in 1..Len(rules)
        BY <1>6
      <3>2. i < j \/ j < i
        BY <1>7
      <3>3. QED
        BY <1>7, <3>1, <3>2
    <2>2. h[i] < h[j] \/ h[j] < h[i]
      BY <1>6, <2>1
    <2>3. QED
      BY <2>1, <2>2
  <1>12. \A n \in 1..Len(rules) : Trim(rules[n].keyword) # <<>> =>
           \E i \in 1..Len(used) : h[i] = n
    BY <1>3, <1>6
  <1> HIDE DEF patterns, labels
  <1>13. IsRuleIndex(h, rules, patterns, labels)
    BY <1>6, <1>7, <1>9, <1>10, <1>11, <1>12 DEF IsRuleIndex
  <1>14. \A i \in DOMAIN patterns : patterns[i] # <<>>
    BY <1>9, <1>10
  <1>15. QED
    BY <1>1, <1>9, <1>13, <1>14

(* A filter labels only mail in which its keyword occurs, and all of it where no two
   keywords overlap. *)
LEMMA LabelsGiven ==
  ASSUME NEW T, NEW rules \in Seq([keyword : Seq(T), label : Nat]), NEW text \in Seq(T)
  PROVE  LET given == FilterMatches(rules, text)
         IN  /\ given \subseteq Deserved(rules, text)
             /\ Apart(rules, text) => given = Deserved(rules, text)
  <1> DEFINE set == Compile(rules)
             patterns == set.patterns
             labels == set.labels
             found == FindIter(patterns, text)
             given == FilterMatches(rules, text)
  <1>1. /\ patterns \in Seq(Seq(T)) /\ DOMAIN labels = DOMAIN patterns
        /\ \A i \in DOMAIN patterns : patterns[i] # <<>>
    BY Compiled
  <1>a. PICK h : IsRuleIndex(h, rules, patterns, labels)
    BY Compiled
  <1>3. given = {labels[i] : i \in found \cap DOMAIN labels}
    BY DEF FilterMatches
  <1>4. /\ \A i \in found : i \in DOMAIN patterns
                              /\ \E e \in 1..Len(text) : EndsAt(patterns, text, i, e)
        /\ PatternsApart(patterns, text) =>
             \A i \in DOMAIN patterns : \A e \in 1..Len(text) :
               EndsAt(patterns, text, i, e) => i \in found
    <2> HIDE DEF patterns
    <2>1. QED
      BY <1>1, SearchEnds
  <1> HIDE DEF patterns, labels, set, found, given
  <1>2. /\ h \in [DOMAIN patterns -> DOMAIN rules]
        /\ \A i \in DOMAIN patterns :
             patterns[i] = Trim(rules[h[i]].keyword) /\ labels[i] = rules[h[i]].label
        /\ \A i, j \in DOMAIN patterns : h[i] = h[j] => i = j
        /\ \A n \in DOMAIN rules : Trim(rules[n].keyword) # <<>> =>
             \E i \in DOMAIN patterns : h[i] = n
    BY <1>a DEF IsRuleIndex
  <1>5. Len(text) \in Nat /\ DOMAIN text = 1..Len(text)
    OBVIOUS
  <1>6. ASSUME NEW i \in DOMAIN patterns
        PROVE  Len(patterns[i]) \in Nat /\ Len(patterns[i]) >= 1
    <2>1. patterns[i] \in Seq(T) /\ patterns[i] # <<>>
      BY <1>1
    <2>2. QED
      BY <2>1
  <1>7. ASSUME NEW i \in DOMAIN patterns, NEW e \in 1..Len(text), EndsAt(patterns, text, i, e)
        PROVE  <<h[i], (e + 1) - Len(patterns[i])>> \in Occurrences(rules, text)
    <2> DEFINE first == (e + 1) - Len(patterns[i])
    <2>1. Len(patterns[i]) <= e /\ SubSeq(text, first, e) = patterns[i]
      BY <1>7 DEF EndsAt
    <2>2. first \in 1..Len(text) /\ first + Len(patterns[i]) - 1 = e
      BY <1>5, <1>6, <2>1
    <2> HIDE DEF first
    <2>3. patterns[i] = Trim(rules[h[i]].keyword) /\ patterns[i] # <<>> /\ h[i] \in DOMAIN rules
      BY <1>1, <1>2
    <2>4. OccursAt(patterns[i], text, first)
      BY <1>5, <2>1, <2>2 DEF OccursAt
    <2>5. QED
      BY <1>5, <2>2, <2>3, <2>4 DEF Occurrences, first
  <1>8. given \subseteq Deserved(rules, text)
    <2> SUFFICES ASSUME NEW i \in found, i \in DOMAIN labels
                 PROVE  labels[i] \in Deserved(rules, text)
      BY <1>3
    <2>1. PICK e \in 1..Len(text) : EndsAt(patterns, text, i, e)
      BY <1>4
    <2>2. i \in DOMAIN patterns
      BY <1>4
    <2> DEFINE m == <<h[i], (e + 1) - Len(patterns[i])>>
    <2>3. m \in Occurrences(rules, text) /\ m[1] = h[i]
      BY <1>7, <2>1, <2>2
    <2> HIDE DEF m
    <2>4. labels[i] = rules[m[1]].label
      BY <1>2, <2>2, <2>3
    <2>5. QED
      BY <2>3, <2>4 DEF Deserved
  <1>9. ASSUME Apart(rules, text) PROVE PatternsApart(patterns, text)
    <2> SUFFICES ASSUME NEW i \in DOMAIN patterns, NEW j \in DOMAIN patterns,
                        NEW e \in 1..Len(text), NEW f \in 1..Len(text),
                        EndsAt(patterns, text, i, e), EndsAt(patterns, text, j, f), i # j
                 PROVE  e < (f + 1) - Len(patterns[j]) \/ f < (e + 1) - Len(patterns[i])
      BY DEF PatternsApart
    <2> DEFINE s == (e + 1) - Len(patterns[i])
               t == (f + 1) - Len(patterns[j])
               m == <<h[i], s>>
               n == <<h[j], t>>
    <2>1. m \in Occurrences(rules, text) /\ n \in Occurrences(rules, text)
      BY <1>7
    <2>2. m[1] = h[i] /\ m[2] = s /\ n[1] = h[j] /\ n[2] = t
      OBVIOUS
    <2>3. h[i] # h[j] /\ patterns[i] = Trim(rules[h[i]].keyword)
          /\ patterns[j] = Trim(rules[h[j]].keyword)
      BY <1>2
    <2> HIDE DEF m, n, s, t
    <2>4. \/ m[2] + Len(Trim(rules[m[1]].keyword)) - 1 < n[2]
          \/ n[2] + Len(Trim(rules[n[1]].keyword)) - 1 < m[2]
      BY <1>9, <2>1, <2>2, <2>3 DEF Apart
    <2>5. s + Len(patterns[i]) - 1 < t \/ t + Len(patterns[j]) - 1 < s
      BY <2>2, <2>3, <2>4
    <2>6. s + Len(patterns[i]) - 1 = e /\ t + Len(patterns[j]) - 1 = f
      BY <1>5, <1>6 DEF s, t
    <2>7. QED
      BY <2>5, <2>6 DEF s, t
  <1>10. ASSUME Apart(rules, text) PROVE Deserved(rules, text) \subseteq given
    <2> SUFFICES ASSUME NEW m \in Occurrences(rules, text) PROVE rules[m[1]].label \in given
      BY DEF Deserved
    <2>1. /\ m[1] \in DOMAIN rules /\ m[2] \in 1..Len(text)
          /\ Trim(rules[m[1]].keyword) # <<>>
          /\ OccursAt(Trim(rules[m[1]].keyword), text, m[2])
      BY <1>5 DEF Occurrences
    <2>2. PICK i \in DOMAIN patterns : h[i] = m[1]
      BY <1>2, <2>1
    <2>3. patterns[i] = Trim(rules[m[1]].keyword) /\ labels[i] = rules[m[1]].label
      BY <1>2, <2>2
    <2> DEFINE e == m[2] + Len(patterns[i]) - 1
    <2>4. e <= Len(text) /\ SubSeq(text, m[2], e) = patterns[i]
      BY <2>1, <2>3 DEF OccursAt
    <2>5. e \in 1..Len(text) /\ (e + 1) - Len(patterns[i]) = m[2] /\ Len(patterns[i]) <= e
      <3> DEFINE a == Len(patterns[i])
                 n == m[2]
      <3>1. a \in Nat /\ a >= 1 /\ n \in 1..Len(text) /\ n + a - 1 <= Len(text)
        BY <1>6, <2>1, <2>4
      <3> HIDE DEF a, n
      <3>2. n + a - 1 \in 1..Len(text) /\ ((n + a - 1) + 1) - a = n /\ a <= n + a - 1
        BY <1>5, <3>1
      <3>3. QED
        BY <3>2 DEF a, n
    <2> HIDE DEF e
    <2>6. EndsAt(patterns, text, i, e)
      BY <2>4, <2>5 DEF EndsAt
    <2>7. i \in found
      BY <1>4, <1>9, <1>10, <2>5, <2>6
    <2>8. QED
      BY <1>1, <1>3, <2>3, <2>7
  <1>11. QED
    BY <1>8, <1>10 DEF given

-----------------------------------------------------------------------------
(* The parser, line by line (Mime) *)

(* A loop over two sequences is one loop after the other. *)
LEMMA FoldConcat ==
  ASSUME NEW step, NEW init, NEW T, NEW s \in Seq(T)
  PROVE  \A t \in Seq(T) : Fold(step, init, s \o t) = Fold(step, Fold(step, init, s), t)
  <1> DEFINE S == {t \in Seq(T) : Fold(step, init, s \o t) = Fold(step, Fold(step, init, s), t)}
  <1>1. <<>> \in S
    <2>1. s \o <<>> = s
      BY ConcatEmptySeq
    <2>2. QED
      BY <2>1, FoldEmpty
  <1>2. ASSUME NEW t \in S, NEW x \in T PROVE Append(t, x) \in S
    <2>1. t \in Seq(T) /\ Append(t, x) \in Seq(T) /\ s \o t \in Seq(T)
      OBVIOUS
    <2>2. s \o Append(t, x) = Append(s \o t, x)
      BY <2>1
    <2>3. Fold(step, init, Append(s \o t, x)) = step[<<Fold(step, init, s \o t), x>>]
      <3> DEFINE u == s \o t
      <3>1. u \in Seq(T)
        BY <2>1
      <3> HIDE DEF u
      <3>2. Fold(step, init, Append(u, x)) = step[<<Fold(step, init, u), x>>]
        BY <3>1, FoldAppend
      <3>3. QED
        BY <3>2 DEF u
    <2>4. Fold(step, Fold(step, init, s), Append(t, x))
            = step[<<Fold(step, Fold(step, init, s), t), x>>]
      BY <2>1, FoldAppend
    <2>5. QED
      BY <2>1, <2>2, <2>3, <2>4
  <1>3. S \in SUBSET Seq(T)
    OBVIOUS
  <1> HIDE DEF S
  <1>4. S = Seq(T)
    BY <1>1, <1>2, <1>3, SeqInduction
  <1>5. QED
    BY <1>4 DEF S

(* A loop over one element is one step. *)
LEMMA FoldOne ==
  ASSUME NEW step, NEW init, NEW x
  PROVE  Fold(step, init, <<x>>) = step[<<init, x>>]
  <1> DEFINE u == <<>>
             T == {x}
  <1>0. Append(u, x) = <<x>>
    OBVIOUS
  <1>1. u \in Seq(T) /\ x \in T
    OBVIOUS
  <1>2. Fold(step, init, u) = init
    BY FoldEmpty
  <1> HIDE DEF u, T
  <1>3. Fold(step, init, Append(u, x)) = step[<<Fold(step, init, u), x>>]
    BY <1>1, FoldAppend
  <1>4. QED
    BY <1>0, <1>2, <1>3

(* The parser in a state, and what it is after some lines. *)
At(stack, expects, leaves) == [stack |-> stack, expects |-> expects, leaves |-> leaves]

(* The parser after some lines. *)
Run(p, lines) == Fold(ParseStep, p, lines)

(* The states of the parser. *)
LEMMA AtType ==
  ASSUME NEW s \in Seq(Containers), NEW e \in BOOLEAN, NEW L \in Seq(Found)
  PROVE  At(s, e, L) \in Parser
  BY DEF At, Parser

(* The fields of a state. *)
LEMMA AtFields ==
  ASSUME NEW s, NEW e, NEW L
  PROVE  At(s, e, L).stack = s /\ At(s, e, L).expects = e /\ At(s, e, L).leaves = L
  BY DEF At

(* The parser with another stack. *)
WithStack(p, t, f) == [p EXCEPT !.stack = t, !.expects = f]

(* The parser with other leaves. *)
WithLeaves(p, M, f) == [p EXCEPT !.leaves = M, !.expects = f]

(* The state with another stack. *)
LEMMA AtStack ==
  ASSUME NEW s, NEW e, NEW L, NEW t, NEW f, NEW p, p = At(s, e, L)
  PROVE  WithStack(p, t, f) = At(t, f, L)
  <1> DEFINE one == [p EXCEPT !.stack = t]
  <1>1. one = At(t, e, L)
    BY DEF At
  <1>2. [one EXCEPT !.expects = f] = At(t, f, L)
    <2> HIDE DEF one
    <2>1. QED
      BY <1>1 DEF At
  <1>3. QED
    BY <1>2 DEF WithStack

(* The state with other leaves. *)
LEMMA AtLeaves ==
  ASSUME NEW s, NEW e, NEW L, NEW M, NEW f, NEW p, p = At(s, e, L)
  PROVE  WithLeaves(p, M, f) = At(s, f, M)
  <1> DEFINE one == [p EXCEPT !.leaves = M]
  <1>1. one = At(s, e, M)
    BY DEF At
  <1>2. [one EXCEPT !.expects = f] = At(s, f, M)
    <2> HIDE DEF one
    <2>1. QED
      BY <1>1 DEF At
  <1>3. QED
    BY <1>2 DEF WithLeaves

(* What build_mime writes are lines. *)
LEMMA LineTypes ==
  /\ \A b \in Containers : Multi(b) \in Line /\ OpenPart(b) \in Line /\ ClosePart(b) \in Line
  /\ \A c \in Contents : Leaf(c) \in Line
  <1>1. ASSUME NEW b \in Containers
        PROVE  Multi(b) \in Line /\ OpenPart(b) \in Line /\ ClosePart(b) \in Line
    BY DEF Multi, OpenPart, ClosePart, Line
  <1>2. ASSUME NEW c \in Contents PROVE Leaf(c) \in Line
    BY DEF Leaf, Line
  <1>3. QED
    BY <1>1, <1>2

(* The innermost container is the one that is named. *)
LEMMA PopTop ==
  ASSUME NEW s \in Seq(Containers), NEW b \in Containers, b \notin ToSet(s)
  PROVE  LET t == Append(s, b)
         IN  t \in Seq(Containers) /\ b \in ToSet(t) /\ Pop(t, b) = t /\ Front(t) = s
  <1> DEFINE t == Append(s, b)
  <1>1. /\ t \in Seq(Containers) /\ Len(t) = Len(s) + 1 /\ t[Len(s) + 1] = b
        /\ \A i \in 1..Len(s) : t[i] = s[i]
        /\ Len(s) \in Nat /\ DOMAIN t = 1..(Len(s) + 1) /\ DOMAIN s = 1..Len(s)
    OBVIOUS
  <1> HIDE DEF t
  <1>2. Len(s) + 1 \in DOMAIN t
    BY <1>1
  <1>3. \A i \in DOMAIN t : t[i] = b => i = Len(s) + 1
    <2>1. \A i \in 1..Len(s) : s[i] # b
      BY <1>1 DEF ToSet
    <2>2. QED
      BY <1>1, <2>1
  <1>4. (CHOOSE i \in DOMAIN t : t[i] = b) = Len(s) + 1
    BY <1>1, <1>2, <1>3
  <1>5. Pop(t, b) = SubSeq(t, 1, Len(s) + 1)
    BY <1>1, <1>2, <1>4 DEF Pop
  <1>6. SubSeq(t, 1, Len(t)) = t
    BY <1>1, SubSeqFull
  <1>7. Front(t) = s
    <2> DEFINE u == SubSeq(t, 1, Len(s))
    <2>1. \A i \in 1..Len(s) : t[i] \in Containers
      BY <1>1
    <2>2. /\ u \in Seq(Containers)
          /\ Len(u) = IF 1 <= Len(s) THEN Len(s) - 1 + 1 ELSE 0
          /\ \A i \in 1..(Len(s) - 1 + 1) : u[i] = t[1 + i - 1]
      BY <1>1, <2>1, SubSeqProperties
    <2> HIDE DEF u
    <2>3. Len(u) = Len(s) /\ \A i \in 1..Len(u) : u[i] = s[i]
      BY <1>1, <2>2
    <2>4. u = s
      BY <2>2, <2>3, SeqEqual
    <2>5. Len(t) - 1 = Len(s)
      BY <1>1
    <2>6. QED
      BY <2>4, <2>5 DEF Front, u
  <1>8. b \in ToSet(t)
    BY <1>1, <1>2 DEF ToSet
  <1>9. QED
    BY <1>1, <1>5, <1>6, <1>7, <1>8 DEF t

(* One line is one step of the parser. *)
LEMMA RunLine ==
  ASSUME NEW p \in Parser, NEW l \in Line
  PROVE  Run(p, <<l>>) = ParseLine(p, l)
  <1>1. Run(p, <<l>>) = ParseStep[<<p, l>>]
    BY FoldOne DEF Run
  <1>2. QED
    BY <1>1 DEF ParseStep

(* A multipart header enters a container. *)
LEMMA ParseMulti ==
  ASSUME NEW s \in Seq(Containers), NEW L \in Seq(Found), NEW b \in Containers
  PROVE  Run(At(s, TRUE, L), <<Multi(b)>>) = At(Append(s, b), FALSE, L)
  <1> DEFINE yes == TRUE
             no == FALSE
             t == Append(s, b)
             p == At(s, yes, L)
             l == Multi(b)
  <1>1. yes = TRUE /\ no = FALSE /\ yes \in BOOLEAN /\ no \in BOOLEAN
    OBVIOUS
  <1> HIDE DEF yes, no
  <1>2. p \in Parser /\ l \in Line
    BY <1>1, AtType, LineTypes
  <1>3. p.stack = s /\ p.expects = yes
    BY AtFields
  <1>4. l.t = "multi" /\ l.b = b
    BY DEF Multi
  <1>0. p = At(s, yes, L)
    OBVIOUS
  <1> HIDE DEF p, l
  <1>5. WithStack(p, t, no) = At(t, no, L)
    <2> HIDE DEF t
    <2>1. QED
      BY <1>0, AtStack
  <1>6. ParseLine(p, l) = WithStack(p, t, no)
    BY <1>1, <1>3, <1>4 DEF ParseLine, WithStack, no
  <1>7. Run(p, <<l>>) = At(t, no, L)
    BY <1>2, <1>5, <1>6, RunLine
  <1>8. QED
    BY <1>7 DEF p, l, yes, no

(* A delimiter of the innermost container opens a part. *)
LEMMA ParseOpen ==
  ASSUME NEW s \in Seq(Containers), NEW L \in Seq(Found), NEW b \in Containers,
         b \notin ToSet(s), NEW e \in BOOLEAN
  PROVE  Run(At(Append(s, b), e, L), <<OpenPart(b)>>) = At(Append(s, b), TRUE, L)
  <1> DEFINE yes == TRUE
             t == Append(s, b)
             p == At(t, e, L)
             l == OpenPart(b)
  <1>1. t \in Seq(Containers) /\ b \in ToSet(t) /\ Pop(t, b) = t
    BY PopTop
  <1> HIDE DEF t, yes
  <1>2. p \in Parser /\ l \in Line
    BY <1>1, AtType, LineTypes
  <1>3. p.stack = t
    BY AtFields
  <1>4. l.t = "open" /\ l.b = b
    BY DEF OpenPart
  <1>0. p = At(t, e, L)
    OBVIOUS
  <1> HIDE DEF p, l
  <1>5. WithStack(p, t, yes) = At(t, yes, L)
    BY <1>0, AtStack
  <1>6. ParseLine(p, l) = WithStack(p, t, yes)
    BY <1>1, <1>3, <1>4 DEF ParseLine, WithStack, yes
  <1>7. Run(p, <<l>>) = At(t, yes, L)
    BY <1>2, <1>5, <1>6, RunLine
  <1>8. QED
    BY <1>7 DEF p, l, t, yes

(* The last delimiter leaves the innermost container. *)
LEMMA ParseClose ==
  ASSUME NEW s \in Seq(Containers), NEW L \in Seq(Found), NEW b \in Containers,
         b \notin ToSet(s), NEW e \in BOOLEAN
  PROVE  Run(At(Append(s, b), e, L), <<ClosePart(b)>>) = At(s, FALSE, L)
  <1> DEFINE no == FALSE
             t == Append(s, b)
             p == At(t, e, L)
             l == ClosePart(b)
  <1>1. t \in Seq(Containers) /\ b \in ToSet(t) /\ Pop(t, b) = t /\ Front(t) = s
    BY PopTop
  <1> HIDE DEF t, no
  <1>2. p \in Parser /\ l \in Line
    BY <1>1, AtType, LineTypes
  <1>3. p.stack = t
    BY AtFields
  <1>4. l.t = "close" /\ l.b = b
    BY DEF ClosePart
  <1>0. p = At(t, e, L)
    OBVIOUS
  <1> HIDE DEF p, l
  <1>5. WithStack(p, s, no) = At(s, no, L)
    BY <1>0, AtStack
  <1>6. ParseLine(p, l) = WithStack(p, s, no)
    BY <1>1, <1>3, <1>4 DEF ParseLine, WithStack, no
  <1>7. Run(p, <<l>>) = At(s, no, L)
    BY <1>2, <1>5, <1>6, RunLine
  <1>8. QED
    BY <1>7 DEF p, l, t, no

(* A leaf in a part that has been opened is found, within the containers around it. *)
LEMMA ParseLeaf ==
  ASSUME NEW s \in Seq(Containers), NEW L \in Seq(Found), NEW c \in Contents
  PROVE  Run(At(s, TRUE, L), <<Leaf(c)>>)
           = At(s, FALSE, Append(L, [part |-> c, within |-> s]))
  <1> DEFINE yes == TRUE
             no == FALSE
             p == At(s, yes, L)
             l == Leaf(c)
             M == Append(L, [part |-> c, within |-> s])
  <1>1. yes = TRUE /\ no = FALSE /\ yes \in BOOLEAN /\ no \in BOOLEAN
    OBVIOUS
  <1> HIDE DEF yes, no
  <1>2. p \in Parser /\ l \in Line
    BY <1>1, AtType, LineTypes
  <1>3. p.stack = s /\ p.expects = yes /\ p.leaves = L
    BY AtFields
  <1>4. l.t = "leaf" /\ l.c = c
    BY DEF Leaf
  <1>0. p = At(s, yes, L)
    OBVIOUS
  <1> HIDE DEF p, l
  <1>5. WithLeaves(p, M, no) = At(s, no, M)
    <2> HIDE DEF M
    <2>1. QED
      BY <1>0, AtLeaves
  <1>6. ParseLine(p, l) = WithLeaves(p, M, no)
    BY <1>1, <1>3, <1>4 DEF ParseLine, WithLeaves, no
  <1>7. Run(p, <<l>>) = At(s, no, M)
    BY <1>2, <1>5, <1>6, RunLine
  <1>8. QED
    BY <1>7 DEF p, l, yes, no

(* One run after the other. *)
LEMMA RunThen ==
  ASSUME NEW p, NEW s \in Seq(Line), NEW t \in Seq(Line)
  PROVE  Run(p, s \o t) = Run(Run(p, s), t)
  BY FoldConcat DEF Run

(* The lines take the parser from one state to the other. *)
Reaches(p, lines, q) == lines \in Seq(Line) /\ Run(p, lines) = q

(* From one state to the next, and on from there. *)
LEMMA Then ==
  ASSUME NEW p, NEW q, NEW r, NEW s, NEW t, Reaches(p, s, q), Reaches(q, t, r)
  PROVE  Reaches(p, s \o t, r)
  <1>1. s \in Seq(Line) /\ t \in Seq(Line) /\ Run(p, s) = q /\ Run(q, t) = r
    BY DEF Reaches
  <1>2. Run(p, s \o t) = Run(Run(p, s), t)
    BY <1>1, RunThen
  <1>3. s \o t \in Seq(Line)
    BY <1>1
  <1>4. QED
    BY <1>1, <1>2, <1>3 DEF Reaches

(* A line alone. *)
LEMMA OneLine ==
  ASSUME NEW l \in Line
  PROVE  <<l>> \in Seq(Line)
  OBVIOUS

(* ParseMulti, as a way from one state to another. *)
LEMMA ReachMulti ==
  ASSUME NEW s \in Seq(Containers), NEW L \in Seq(Found), NEW b \in Containers
  PROVE  Reaches(At(s, TRUE, L), <<Multi(b)>>, At(Append(s, b), FALSE, L))
  BY ParseMulti, LineTypes, OneLine DEF Reaches

(* ParseOpen, as a way from one state to another. *)
LEMMA ReachOpen ==
  ASSUME NEW s \in Seq(Containers), NEW L \in Seq(Found), NEW b \in Containers,
         b \notin ToSet(s), NEW e \in BOOLEAN
  PROVE  Reaches(At(Append(s, b), e, L), <<OpenPart(b)>>, At(Append(s, b), TRUE, L))
  BY ParseOpen, LineTypes, OneLine DEF Reaches

(* ParseClose, as a way from one state to another. *)
LEMMA ReachClose ==
  ASSUME NEW s \in Seq(Containers), NEW L \in Seq(Found), NEW b \in Containers,
         b \notin ToSet(s), NEW e \in BOOLEAN
  PROVE  Reaches(At(Append(s, b), e, L), <<ClosePart(b)>>, At(s, FALSE, L))
  BY ParseClose, LineTypes, OneLine DEF Reaches

(* A content and the containers it is found in. *)
Place(c, w) == [part |-> c, within |-> w]

(* ParseLeaf, as a way from one state to another. *)
LEMMA ReachLeaf ==
  ASSUME NEW s \in Seq(Containers), NEW L \in Seq(Found), NEW c \in Contents
  PROVE  /\ Reaches(At(s, TRUE, L), <<Leaf(c)>>, At(s, FALSE, Append(L, Place(c, s))))
         /\ Place(c, s) \in Found /\ Append(L, Place(c, s)) \in Seq(Found)
  <1>1. Place(c, s) \in Found
    BY DEF Place, Found
  <1>2. Append(L, Place(c, s)) \in Seq(Found)
    BY <1>1
  <1>3. Run(At(s, TRUE, L), <<Leaf(c)>>) = At(s, FALSE, Append(L, Place(c, s)))
    BY ParseLeaf DEF Place
  <1>4. QED
    BY <1>1, <1>2, <1>3, LineTypes, OneLine DEF Reaches

(* Appending is concatenation with one element. *)
LEMMA AppendedOne ==
  ASSUME NEW T, NEW s \in Seq(T), NEW x \in T
  PROVE  s \o <<x>> = Append(s, x)
  OBVIOUS

(* Six lines put together one by one. *)
Chained(a, b, c, d, e, f) == ((((<<a>> \o <<b>>) \o <<c>>) \o <<d>>) \o <<e>>) \o <<f>>

(* Six lines at once. *)
SixLined(a, b, c, d, e, f) == <<a, b, c, d, e, f>>

(* Both are the same. *)
LEMMA SixLines ==
  ASSUME NEW T, NEW a \in T, NEW b \in T, NEW c \in T, NEW d \in T, NEW e \in T, NEW f \in T
  PROVE  Chained(a, b, c, d, e, f) = SixLined(a, b, c, d, e, f)
  <1> DEFINE two == <<a>> \o <<b>>
             three == two \o <<c>>
             four == three \o <<d>>
             five == four \o <<e>>
             six == five \o <<f>>
             all == <<a, b, c, d, e, f>>
  <1>1. two \in Seq(T) /\ Len(two) = 2 /\ two[1] = a /\ two[2] = b
    OBVIOUS
  <1> HIDE DEF two
  <1>2. /\ three \in Seq(T) /\ Len(three) = 3 /\ three[3] = c
        /\ \A i \in 1..2 : three[i] = two[i]
    <2>1. two \in Seq(T)
      BY <1>1
    <2>2. three = Append(two, c)
      BY <2>1
    <2> HIDE DEF three
    <2>3. /\ three \in Seq(T) /\ Len(three) = Len(two) + 1 /\ three[Len(two) + 1] = c
          /\ \A i \in 1..Len(two) : three[i] = two[i]
      BY <2>1, <2>2
    <2>4. QED
      BY <1>1, <2>3
  <1> HIDE DEF three
  <1>3. /\ four \in Seq(T) /\ Len(four) = 4 /\ four[4] = d
        /\ \A i \in 1..3 : four[i] = three[i]
    <2>1. three \in Seq(T)
      BY <1>2
    <2>2. four = Append(three, d)
      BY <2>1
    <2> HIDE DEF four
    <2>3. /\ four \in Seq(T) /\ Len(four) = Len(three) + 1 /\ four[Len(three) + 1] = d
          /\ \A i \in 1..Len(three) : four[i] = three[i]
      BY <2>1, <2>2
    <2>4. QED
      BY <1>2, <2>3
  <1> HIDE DEF four
  <1>4. /\ five \in Seq(T) /\ Len(five) = 5 /\ five[5] = e
        /\ \A i \in 1..4 : five[i] = four[i]
    <2>1. four \in Seq(T)
      BY <1>3
    <2>2. five = Append(four, e)
      BY <2>1
    <2> HIDE DEF five
    <2>3. /\ five \in Seq(T) /\ Len(five) = Len(four) + 1 /\ five[Len(four) + 1] = e
          /\ \A i \in 1..Len(four) : five[i] = four[i]
      BY <2>1, <2>2
    <2>4. QED
      BY <1>3, <2>3
  <1> HIDE DEF five
  <1>5. /\ six \in Seq(T) /\ Len(six) = 6 /\ six[6] = f
        /\ \A i \in 1..5 : six[i] = five[i]
    <2>1. five \in Seq(T)
      BY <1>4
    <2>2. six = Append(five, f)
      BY <2>1
    <2> HIDE DEF six
    <2>3. /\ six \in Seq(T) /\ Len(six) = Len(five) + 1 /\ six[Len(five) + 1] = f
          /\ \A i \in 1..Len(five) : six[i] = five[i]
      BY <2>1, <2>2
    <2>4. QED
      BY <1>4, <2>3
  <1> HIDE DEF six
  <1>6. /\ all \in Seq(T) /\ Len(all) = 6 /\ all[1] = a /\ all[2] = b /\ all[3] = c
        /\ all[4] = d /\ all[5] = e /\ all[6] = f
    OBVIOUS
  <1> HIDE DEF all
  <1>7. six[1] = a /\ six[2] = b /\ six[3] = c /\ six[4] = d /\ six[5] = e
    BY <1>1, <1>2, <1>3, <1>4, <1>5
  <1>8. \A i \in 1..Len(six) : six[i] = all[i]
    BY <1>5, <1>6, <1>7
  <1>9. six = all
    BY <1>5, <1>6, <1>8, SeqEqual
  <1>10. QED
    BY <1>9 DEF six, five, four, three, two, all, Chained, SixLined

(* Two lines put together. *)
LEMMA TwoLines ==
  ASSUME NEW T, NEW a \in T, NEW b \in T
  PROVE  <<a>> \o <<b>> = <<a, b>>
  <1> DEFINE s == <<a>> \o <<b>>
             t == <<a, b>>
  <1>1. s \in Seq(T) /\ Len(s) = 2 /\ s[1] = a /\ s[2] = b
    OBVIOUS
  <1>2. t \in Seq(T) /\ Len(t) = 2 /\ t[1] = a /\ t[2] = b
    OBVIOUS
  <1> HIDE DEF s, t
  <1>3. \A i \in 1..Len(s) : s[i] = t[i]
    BY <1>1, <1>2
  <1>4. s = t
    BY <1>1, <1>2, <1>3, SeqEqual
  <1>5. QED
    BY <1>4 DEF s, t

(* The bodies, as the parser finds them. *)
AltLeaves(html, s) ==
  IF html
  THEN << Place(TextBody, Append(s, "alternative")), Place(HtmlBody, Append(s, "alternative")) >>
  ELSE << Place(TextBody, s) >>

(* The bodies and the containers of build_mime are some that the parser knows. *)
LEMMA Bodies ==
  /\ TextBody \in Contents /\ HtmlBody \in Contents
  /\ "alternative" \in Containers /\ "related" \in Containers /\ "mixed" \in Containers
  BY DEF Contents, Containers

(* What write_alt_part writes is read as the bodies. *)
LEMMA AltRun ==
  ASSUME NEW s \in Seq(Containers), "alternative" \notin ToSet(s), NEW html \in BOOLEAN,
         NEW L \in Seq(Found)
  PROVE  /\ Reaches(At(s, TRUE, L), write_alt_part(html), At(s, FALSE, L \o AltLeaves(html, s)))
         /\ AltLeaves(html, s) \in Seq(Found)
  <1> DEFINE b == "alternative"
             w == Append(s, b)
  <1>1. TextBody \in Contents /\ HtmlBody \in Contents /\ b \in Containers
    BY Bodies
  <1>2. w \in Seq(Containers) /\ b \notin ToSet(s)
    BY <1>1
  <1> HIDE DEF b
  <1>3. CASE html
    <2> DEFINE one == Append(L, Place(TextBody, w))
               two == Append(one, Place(HtmlBody, w))
    <2>1. Reaches(At(s, TRUE, L), <<Multi(b)>>, At(w, FALSE, L))
      BY <1>1, <1>2, ReachMulti
    <2>2. Reaches(At(w, FALSE, L), <<OpenPart(b)>>, At(w, TRUE, L))
      BY <1>1, <1>2, ReachOpen
    <2>3. /\ Reaches(At(w, TRUE, L), <<Leaf(TextBody)>>, At(w, FALSE, one))
          /\ one \in Seq(Found) /\ Place(TextBody, w) \in Found
      BY <1>1, <1>2, ReachLeaf
    <2> HIDE DEF one
    <2>4. Reaches(At(w, FALSE, one), <<OpenPart(b)>>, At(w, TRUE, one))
      BY <1>1, <1>2, <2>3, ReachOpen
    <2>5. /\ Reaches(At(w, TRUE, one), <<Leaf(HtmlBody)>>, At(w, FALSE, two))
          /\ two \in Seq(Found) /\ Place(HtmlBody, w) \in Found
      BY <1>1, <1>2, <2>3, ReachLeaf
    <2> HIDE DEF two
    <2>6. Reaches(At(w, FALSE, two), <<ClosePart(b)>>, At(s, FALSE, two))
      BY <1>1, <1>2, <2>5, ReachClose
    <2> HIDE DEF w
    <2>7. Reaches(At(s, TRUE, L), <<Multi(b)>> \o <<OpenPart(b)>>, At(w, TRUE, L))
      BY <2>1, <2>2, Then
    <2>8. Reaches(At(s, TRUE, L), (<<Multi(b)>> \o <<OpenPart(b)>>) \o <<Leaf(TextBody)>>,
                  At(w, FALSE, one))
      BY <2>7, <2>3, Then
    <2>9. Reaches(At(s, TRUE, L),
                  ((<<Multi(b)>> \o <<OpenPart(b)>>) \o <<Leaf(TextBody)>>) \o <<OpenPart(b)>>,
                  At(w, TRUE, one))
      BY <2>8, <2>4, Then
    <2>10. Reaches(At(s, TRUE, L),
                   (((<<Multi(b)>> \o <<OpenPart(b)>>) \o <<Leaf(TextBody)>>) \o <<OpenPart(b)>>)
                     \o <<Leaf(HtmlBody)>>,
                   At(w, FALSE, two))
      BY <2>9, <2>5, Then
    <2>11. Reaches(At(s, TRUE, L),
                   ((((<<Multi(b)>> \o <<OpenPart(b)>>) \o <<Leaf(TextBody)>>)
                     \o <<OpenPart(b)>>) \o <<Leaf(HtmlBody)>>) \o <<ClosePart(b)>>,
                   At(s, FALSE, two))
      BY <2>10, <2>6, Then
    <2>12. /\ Multi(b) \in Line /\ OpenPart(b) \in Line /\ ClosePart(b) \in Line
           /\ Leaf(TextBody) \in Line /\ Leaf(HtmlBody) \in Line
      BY <1>1, LineTypes
    <2>13. Reaches(At(s, TRUE, L), <<Multi(b), OpenPart(b), Leaf(TextBody), OpenPart(b),
                                     Leaf(HtmlBody), ClosePart(b)>>, At(s, FALSE, two))
      <3> DEFINE c1 == Multi(b)
                 c2 == OpenPart(b)
                 c3 == Leaf(TextBody)
                 c5 == Leaf(HtmlBody)
                 c6 == ClosePart(b)
      <3>1. c1 \in Line /\ c2 \in Line /\ c3 \in Line /\ c5 \in Line /\ c6 \in Line
        BY <2>12
      <3> HIDE DEF c1, c2, c3, c5, c6
      <3>2. Chained(c1, c2, c3, c2, c5, c6) = SixLined(c1, c2, c3, c2, c5, c6)
        BY <3>1, SixLines
      <3>3. QED
        BY <2>11, <3>2, Zenon DEF c1, c2, c3, c5, c6, Chained, SixLined
    <2>14. write_alt_part(html) = <<Multi(b), OpenPart(b), Leaf(TextBody), OpenPart(b),
                                    Leaf(HtmlBody), ClosePart(b)>>
      BY <1>3 DEF write_alt_part, b
    <2>15. two = L \o <<Place(TextBody, w), Place(HtmlBody, w)>>
      <3> DEFINE x == Place(TextBody, w)
                 y == Place(HtmlBody, w)
      <3>1. x \in Found /\ y \in Found /\ two = Append(Append(L, x), y)
        BY <2>3, <2>5 DEF one, two
      <3> HIDE DEF x, y
      <3>2. L \o (<<x>> \o <<y>>) = Append(Append(L, x), y)
        BY <3>1
      <3>3. <<x>> \o <<y>> = <<x, y>>
        BY <3>1, TwoLines, Zenon
      <3>4. QED
        BY <3>1, <3>2, <3>3, Zenon DEF x, y
    <2>16. AltLeaves(html, s) = <<Place(TextBody, w), Place(HtmlBody, w)>>
      BY <1>3 DEF AltLeaves, w, b
    <2>17. <<Place(TextBody, w), Place(HtmlBody, w)>> \in Seq(Found)
      BY <2>3, <2>5
    <2>18. QED
      BY <2>13, <2>14, <2>15, <2>16, <2>17
  <1>4. CASE ~html
    <2>1. /\ Reaches(At(s, TRUE, L), <<Leaf(TextBody)>>,
                     At(s, FALSE, Append(L, Place(TextBody, s))))
          /\ Place(TextBody, s) \in Found
      BY <1>1, ReachLeaf
    <2>2. AltLeaves(html, s) = <<Place(TextBody, s)>> /\ write_alt_part(html) = <<Leaf(TextBody)>>
      BY <1>4 DEF AltLeaves, write_alt_part
    <2>3. L \o <<Place(TextBody, s)>> = Append(L, Place(TextBody, s))
      BY <2>1
    <2>4. <<Place(TextBody, s)>> \in Seq(Found)
      BY <2>1
    <2>5. QED
      BY <2>1, <2>2, <2>3, <2>4
  <1>5. QED
    BY <1>3, <1>4

(* Attachments, all found in the same containers. *)
Placed(a, w) == [i \in DOMAIN a |-> Place(a[i], w)]

(* One attachment more. *)
LEMMA PlacedAppend ==
  ASSUME NEW a \in Seq(Attachment), NEW x \in Attachment, NEW w \in Seq(Containers)
  PROVE  /\ Placed(a, w) \in Seq(Found) /\ Len(Placed(a, w)) = Len(a)
         /\ Placed(Append(a, x), w) = Append(Placed(a, w), Place(x, w))
         /\ Place(x, w) \in Found
  <1> DEFINE n == Len(a)
             more == Append(a, x)
             old == Placed(a, w)
             new == Placed(more, w)
             added == Append(old, Place(x, w))
  <1>1. n \in Nat /\ DOMAIN a = 1..n /\ more \in Seq(Attachment) /\ Len(more) = n + 1
        /\ more[n + 1] = x /\ DOMAIN more = 1..(n + 1) /\ \A i \in 1..n : more[i] = a[i]
    OBVIOUS
  <1>2. \A c \in Attachment : Place(c, w) \in Found
    BY DEF Place, Found, Contents
  <1>3. old \in Seq(Found) /\ Len(old) = n /\ \A i \in 1..n : old[i] = Place(a[i], w)
    <2>1. old = [i \in 1..n |-> Place(a[i], w)]
      BY <1>1 DEF Placed
    <2>2. \A i \in 1..n : a[i] \in Attachment
      BY <1>1
    <2>3. old \in [1..n -> Found]
      BY <1>2, <2>1, <2>2
    <2> HIDE DEF old
    <2>4. QED
      BY <1>1, <2>1, <2>3
  <1>4. new \in Seq(Found) /\ Len(new) = n + 1 /\ \A i \in 1..(n + 1) : new[i] = Place(more[i], w)
    <2> HIDE DEF n, more
    <2>1. new = [i \in 1..(n + 1) |-> Place(more[i], w)]
      BY <1>1 DEF Placed
    <2>2. \A i \in 1..(n + 1) : more[i] \in Attachment
      BY <1>1
    <2>3. new \in [1..(n + 1) -> Found]
      BY <1>2, <2>1, <2>2
    <2> HIDE DEF new
    <2>4. QED
      BY <1>1, <2>1, <2>3
  <1> HIDE DEF old, new, n, more
  <1>5. /\ added \in Seq(Found) /\ Len(added) = n + 1 /\ added[n + 1] = Place(x, w)
        /\ \A i \in 1..n : added[i] = old[i]
    BY <1>2, <1>3
  <1> HIDE DEF added
  <1>6. \A i \in 1..(n + 1) : new[i] = added[i]
    BY <1>1, <1>3, <1>4, <1>5
  <1>7. new = added
    BY <1>4, <1>5, <1>6, SeqEqual
  <1>8. QED
    BY <1>2, <1>3, <1>7 DEF new, added, old, n, more

(* One attachment more is one delimiter and one leaf more. *)
LEMMA WriteMore ==
  ASSUME NEW a \in Seq(Attachment), NEW x \in Attachment, NEW b \in Containers
  PROVE  /\ WriteAttachments(b, a) \in Seq(Line)
         /\ WriteAttachments(b, Append(a, x))
              = (WriteAttachments(b, a) \o <<OpenPart(b)>>) \o <<Leaf(x)>>
  <1> DEFINE n == Len(a)
             more == Append(a, x)
             old == WriteAttachments(b, a)
             new == WriteAttachments(b, more)
             o == OpenPart(b)
             l == Leaf(x)
             one == old \o <<o>>
             two == one \o <<l>>
  <1>1. n \in Nat /\ DOMAIN a = 1..n /\ more \in Seq(Attachment) /\ Len(more) = n + 1
        /\ more[n + 1] = x /\ DOMAIN more = 1..(n + 1) /\ \A i \in 1..n : more[i] = a[i]
    OBVIOUS
  <1>2. o \in Line /\ \A c \in Attachment : Leaf(c) \in Line
    BY LineTypes DEF Contents
  <1> HIDE DEF o
  <1>3. \A m \in Nat : \A k \in 1..(2 * m) : k % 2 # 1 => k \div 2 \in 1..m
    OBVIOUS
  <1>4. /\ old \in Seq(Line) /\ Len(old) = 2 * n
        /\ \A k \in 1..(2 * n) : old[k] = IF k % 2 = 1 THEN o ELSE Leaf(a[k \div 2])
    <2> DEFINE m == 2 * n
    <2>1. old = [k \in 1..m |-> IF k % 2 = 1 THEN o ELSE Leaf(a[k \div 2])]
      BY DEF WriteAttachments, o
    <2>2. \A k \in 1..m : (IF k % 2 = 1 THEN o ELSE Leaf(a[k \div 2])) \in Line
      <3>1. SUFFICES ASSUME NEW k \in 1..m, k % 2 # 1 PROVE Leaf(a[k \div 2]) \in Line
        BY <1>2
      <3>2. k \div 2 \in 1..n
        BY <1>1, <1>3, <3>1
      <3>3. a[k \div 2] \in Attachment
        BY <1>1, <3>2
      <3>4. QED
        BY <1>2, <3>3
    <2>3. m \in Nat
      BY <1>1
    <2> HIDE DEF m, old
    <2>4. old \in [1..m -> Line]
      BY <2>1, <2>2
    <2>5. old \in Seq(Line) /\ Len(old) = m
      BY <2>3, <2>4
    <2>6. \A k \in 1..m : old[k] = IF k % 2 = 1 THEN o ELSE Leaf(a[k \div 2])
      BY <2>1
    <2>7. QED
      BY <2>5, <2>6 DEF m
  <1>5. /\ new \in Seq(Line) /\ Len(new) = 2 * (n + 1)
        /\ \A k \in 1..(2 * (n + 1)) : new[k] = IF k % 2 = 1 THEN o ELSE Leaf(more[k \div 2])
    <2> DEFINE m == 2 * (n + 1)
    <2> HIDE DEF n, more
    <2>1. new = [k \in 1..m |-> IF k % 2 = 1 THEN o ELSE Leaf(more[k \div 2])]
      BY <1>1 DEF WriteAttachments, o
    <2>2. \A k \in 1..m : (IF k % 2 = 1 THEN o ELSE Leaf(more[k \div 2])) \in Line
      <3>1. SUFFICES ASSUME NEW k \in 1..m, k % 2 # 1 PROVE Leaf(more[k \div 2]) \in Line
        BY <1>2
      <3>2. k \div 2 \in 1..(n + 1)
        BY <1>1, <1>3, <3>1
      <3>3. more[k \div 2] \in Attachment
        BY <1>1, <3>2
      <3>4. QED
        BY <1>2, <3>3
    <2>3. m \in Nat
      BY <1>1
    <2> HIDE DEF m, new
    <2>4. new \in [1..m -> Line]
      BY <2>1, <2>2
    <2>5. new \in Seq(Line) /\ Len(new) = m
      BY <2>3, <2>4
    <2>6. \A k \in 1..m : new[k] = IF k % 2 = 1 THEN o ELSE Leaf(more[k \div 2])
      BY <2>1
    <2>7. QED
      BY <2>5, <2>6 DEF m
  <1>6. l \in Line
    BY <1>2
  <1> HIDE DEF old, new, l, n, more
  <1>7. one = Append(old, o)
    BY <1>2, <1>4
  <1> HIDE DEF one
  <1>8. /\ one \in Seq(Line) /\ Len(one) = 2 * n + 1 /\ one[2 * n + 1] = o
        /\ \A k \in 1..(2 * n) : one[k] = old[k]
    <2>1. /\ one \in Seq(Line) /\ Len(one) = Len(old) + 1 /\ one[Len(old) + 1] = o
          /\ \A k \in 1..Len(old) : one[k] = old[k]
      BY <1>2, <1>4, <1>7
    <2>2. QED
      BY <1>4, <2>1
  <1>9. two = Append(one, l)
    BY <1>6, <1>8
  <1> HIDE DEF two
  <1>10. /\ two \in Seq(Line) /\ Len(two) = 2 * n + 2 /\ two[2 * n + 2] = l
         /\ \A k \in 1..(2 * n + 1) : two[k] = one[k]
    <2>1. /\ two \in Seq(Line) /\ Len(two) = Len(one) + 1 /\ two[Len(one) + 1] = l
          /\ \A k \in 1..Len(one) : two[k] = one[k]
      BY <1>6, <1>8, <1>9
    <2>2. Len(one) + 1 = 2 * n + 2
      BY <1>1, <1>8
    <2>3. QED
      BY <1>8, <2>1, <2>2
  <1>11. ASSUME NEW k \in 1..(2 * n + 2) PROVE new[k] = two[k]
    <2>1. CASE k \in 1..(2 * n)
      <3>1. new[k] = IF k % 2 = 1 THEN o ELSE Leaf(more[k \div 2])
        BY <1>1, <1>5, <2>1
      <3>2. two[k] = IF k % 2 = 1 THEN o ELSE Leaf(a[k \div 2])
        <4>1. k \in 1..(2 * n + 1)
          BY <1>1, <2>1
        <4>2. two[k] = one[k]
          BY <1>10, <4>1
        <4>3. one[k] = old[k]
          BY <1>8, <2>1
        <4>4. old[k] = IF k % 2 = 1 THEN o ELSE Leaf(a[k \div 2])
          BY <1>4, <2>1
        <4>5. QED
          BY <4>2, <4>3, <4>4
      <3>3. k % 2 # 1 => more[k \div 2] = a[k \div 2]
        BY <1>1, <1>3, <2>1
      <3>4. QED
        BY <3>1, <3>2, <3>3
    <2>2. CASE k = 2 * n + 1
      <3>1. k % 2 = 1
        BY <1>1, <2>2
      <3>2. QED
        <4>1. k \in 1..(2 * n + 1) /\ k \in 1..(2 * (n + 1))
          BY <1>1, <2>2
        <4>2. two[k] = one[k]
          BY <1>10, <4>1
        <4>3. one[k] = o
          BY <1>8, <2>2
        <4>4. new[k] = o
          BY <1>5, <4>1, <3>1
        <4>5. QED
          BY <4>2, <4>3, <4>4
    <2>3. CASE k = 2 * n + 2
      <3>1. k % 2 = 0 /\ k \div 2 = n + 1
        BY <1>1, <2>3
      <3>2. new[k] = Leaf(more[k \div 2])
        BY <1>1, <1>5, <2>3, <3>1
      <3>3. QED
        BY <1>1, <1>10, <2>3, <3>1, <3>2 DEF l
    <2>4. QED
      BY <1>1, <2>1, <2>2, <2>3
  <1>12. new = two
    <2>1. Len(new) = 2 * n + 2
      BY <1>1, <1>5
    <2>2. QED
      BY <1>5, <1>10, <1>11, <2>1, SeqEqual
  <1>13. QED
    BY <1>4, <1>12 DEF old, new, two, one, o, l, more

(* The attachments written into a container are all found in it, in their order. *)
LEMMA AttachmentsRun ==
  ASSUME NEW s \in Seq(Containers), NEW b \in Containers, b \notin ToSet(s),
         NEW L \in Seq(Found)
  PROVE  \A a \in Seq(Attachment) :
           /\ Reaches(At(Append(s, b), FALSE, L), WriteAttachments(b, a),
                      At(Append(s, b), FALSE, L \o Placed(a, Append(s, b))))
           /\ Placed(a, Append(s, b)) \in Seq(Found)
  <1> DEFINE w == Append(s, b)
             p == At(w, FALSE, L)
             Good(a) == /\ Reaches(p, WriteAttachments(b, a), At(w, FALSE, L \o Placed(a, w)))
                        /\ Placed(a, w) \in Seq(Found)
             G == {a \in Seq(Attachment) : Good(a)}
  <1>0. w \in Seq(Containers)
    OBVIOUS
  <1>1. Good(<<>>)
    <2>1. WriteAttachments(b, <<>>) = <<>>
      BY DEF WriteAttachments
    <2>2. Placed(<<>>, w) = <<>>
      BY DEF Placed
    <2>3. L \o <<>> = L
      BY ConcatEmptySeq
    <2>4. Run(p, <<>>) = p
      BY FoldEmpty DEF Run
    <2>5. <<>> \in Seq(Line) /\ <<>> \in Seq(Found)
      OBVIOUS
    <2> HIDE DEF w
    <2>6. QED
      BY <2>1, <2>2, <2>3, <2>4, <2>5 DEF Reaches
  <1>2. ASSUME NEW a \in Seq(Attachment), Good(a), NEW x \in Attachment PROVE Good(Append(a, x))
    <2> DEFINE M == L \o Placed(a, w)
               N == Append(M, Place(x, w))
    <2>1. /\ Reaches(p, WriteAttachments(b, a), At(w, FALSE, M)) /\ Placed(a, w) \in Seq(Found)
      BY <1>2
    <2>2. M \in Seq(Found)
      BY <2>1
    <2> HIDE DEF M
    <2>3. Reaches(At(w, FALSE, M), <<OpenPart(b)>>, At(w, TRUE, M))
      BY <2>2, ReachOpen
    <2>4. x \in Contents
      BY DEF Contents
    <2>5. Reaches(At(w, TRUE, M), <<Leaf(x)>>, At(w, FALSE, N)) /\ Place(x, w) \in Found
      BY <1>0, <2>2, <2>4, ReachLeaf
    <2>6. Reaches(p, WriteAttachments(b, a) \o <<OpenPart(b)>>, At(w, TRUE, M))
      BY <2>1, <2>3, Then
    <2>7. Reaches(p, (WriteAttachments(b, a) \o <<OpenPart(b)>>) \o <<Leaf(x)>>, At(w, FALSE, N))
      <3> HIDE DEF N, p
      <3>1. Reaches(At(w, TRUE, M), <<Leaf(x)>>, At(w, FALSE, N))
        BY <2>5
      <3>2. QED
        BY <2>6, <3>1, Then
    <2>8. Placed(Append(a, x), w) = Append(Placed(a, w), Place(x, w))
      BY <1>0, PlacedAppend
    <2>9. N = L \o Placed(Append(a, x), w) /\ Placed(Append(a, x), w) \in Seq(Found)
      <3> DEFINE old == Placed(a, w)
                 y == Place(x, w)
      <3>1. old \in Seq(Found) /\ y \in Found
        BY <2>1, <2>5
      <3> HIDE DEF old, y
      <3>2. L \o Append(old, y) = Append(L \o old, y)
        BY <3>1
      <3>3. Append(old, y) \in Seq(Found)
        BY <3>1
      <3>4. QED
        BY <2>8, <3>2, <3>3 DEF old, y, M
    <2>10. WriteAttachments(b, Append(a, x))
             = (WriteAttachments(b, a) \o <<OpenPart(b)>>) \o <<Leaf(x)>>
      BY WriteMore
    <2>11. QED
      BY <2>7, <2>9, <2>10
  <1>3. <<>> \in G /\ G \in SUBSET Seq(Attachment)
    <2> HIDE DEF Good
    <2>1. <<>> \in Seq(Attachment)
      OBVIOUS
    <2>2. QED
      BY <1>1, <2>1
  <1>4. \A a \in G : \A x \in Attachment : Append(a, x) \in G
    <2> HIDE DEF Good
    <2>1. QED
      BY <1>2
  <1> HIDE DEF G
  <1>5. G = Seq(Attachment)
    BY <1>3, <1>4, SeqInduction
  <1>6. QED
    BY <1>5 DEF G

(* The body and the inline attachments, as the parser finds them. *)
RelatedLeaves(mail, s) ==
  IF InlineOnes(mail.attachments) # <<>>
  THEN AltLeaves(mail.html, Append(s, "related"))
         \o Placed(InlineOnes(mail.attachments), Append(s, "related"))
  ELSE AltLeaves(mail.html, s)

(* All of a mail, as the parser finds it. *)
MailLeaves(mail) ==
  IF RealOnes(mail.attachments) # <<>>
  THEN RelatedLeaves(mail, <<"mixed">>) \o Placed(RealOnes(mail.attachments), <<"mixed">>)
  ELSE RelatedLeaves(mail, <<>>)

(* The mails that build_mime is given. *)
Mails == [html : BOOLEAN, attachments : Seq(Attachment)]

(* A container with parts: opened, its first part, the attachments, closed. *)
LEMMA ContainerRun ==
  ASSUME NEW s \in Seq(Containers), NEW b \in Containers, b \notin ToSet(s),
         NEW L \in Seq(Found), NEW first, NEW M \in Seq(Found), NEW a \in Seq(Attachment),
         Reaches(At(Append(s, b), TRUE, L), first, At(Append(s, b), FALSE, L \o M))
  PROVE  /\ Reaches(At(s, TRUE, L),
                    ((<<Multi(b), OpenPart(b)>> \o first) \o WriteAttachments(b, a))
                      \o <<ClosePart(b)>>,
                    At(s, FALSE, L \o (M \o Placed(a, Append(s, b)))))
         /\ M \o Placed(a, Append(s, b)) \in Seq(Found)
  <1> DEFINE w == Append(s, b)
             N == L \o M
             K == N \o Placed(a, w)
             start == At(s, TRUE, L)
  <1>1. w \in Seq(Containers) /\ N \in Seq(Found)
    OBVIOUS
  <1>2. Reaches(start, <<Multi(b)>>, At(w, FALSE, L))
    BY ReachMulti
  <1>3. Reaches(At(w, FALSE, L), <<OpenPart(b)>>, At(w, TRUE, L))
    BY ReachOpen
  <1>4. Reaches(At(w, TRUE, L), first, At(w, FALSE, N))
    OBVIOUS
  <1> HIDE DEF N
  <1>5. /\ Reaches(At(w, FALSE, N), WriteAttachments(b, a), At(w, FALSE, K))
        /\ Placed(a, w) \in Seq(Found)
    BY <1>1, AttachmentsRun
  <1>6. K \in Seq(Found)
    BY <1>1, <1>5
  <1> HIDE DEF K
  <1>7. Reaches(At(w, FALSE, K), <<ClosePart(b)>>, At(s, FALSE, K))
    BY <1>6, ReachClose
  <1>8. Reaches(start, <<Multi(b)>> \o <<OpenPart(b)>>, At(w, TRUE, L))
    BY <1>2, <1>3, Then
  <1>9. <<Multi(b)>> \o <<OpenPart(b)>> = <<Multi(b), OpenPart(b)>>
    BY LineTypes, TwoLines, Zenon
  <1>10. Reaches(start, <<Multi(b), OpenPart(b)>>, At(w, TRUE, L))
    BY <1>8, <1>9
  <1> HIDE DEF w, start
  <1>11. Reaches(start, <<Multi(b), OpenPart(b)>> \o first, At(w, FALSE, N))
    BY <1>10, <1>4, Then
  <1>12. Reaches(start, (<<Multi(b), OpenPart(b)>> \o first) \o WriteAttachments(b, a),
                 At(w, FALSE, K))
    BY <1>11, <1>5, Then
  <1>13. Reaches(start, ((<<Multi(b), OpenPart(b)>> \o first) \o WriteAttachments(b, a))
                          \o <<ClosePart(b)>>, At(s, FALSE, K))
    BY <1>12, <1>7, Then
  <1>14. K = L \o (M \o Placed(a, w)) /\ M \o Placed(a, w) \in Seq(Found)
    <2> DEFINE P == Placed(a, w)
    <2>1. P \in Seq(Found)
      BY <1>5
    <2> HIDE DEF P
    <2>2. (L \o M) \o P = L \o (M \o P) /\ M \o P \in Seq(Found)
      BY <2>1
    <2>3. QED
      BY <2>2 DEF P, K, N
  <1>15. QED
    BY <1>13, <1>14 DEF w, start

(* The inline attachments and the others. *)
LEMMA OnesTyped ==
  ASSUME NEW a \in Seq(Attachment)
  PROVE  /\ InlineOnes(a) \in Seq(Attachment) /\ RealOnes(a) \in Seq(Attachment)
         /\ ToSet(InlineOnes(a)) = {x \in ToSet(a) : x.inline}
         /\ ToSet(RealOnes(a)) = {x \in ToSet(a) : ~x.inline}
  <1> DEFINE I == {x \in ToSet(a) : x.inline}
             R == {x \in ToSet(a) : ~x.inline}
  <1>1. I \subseteq ToSet(a) /\ R \subseteq ToSet(a)
    OBVIOUS
  <1> HIDE DEF I, R
  <1>2. /\ Keep(a, I) \in Seq(Attachment) /\ ToSet(Keep(a, I)) = ToSet(a) \cap I
        /\ Keep(a, R) \in Seq(Attachment) /\ ToSet(Keep(a, R)) = ToSet(a) \cap R
    BY KeepRange
  <1>3. QED
    BY <1>1, <1>2 DEF I, R, InlineOnes, RealOnes

(* What is written for the body and the inline attachments is read as them. *)
LEMMA RelatedRun ==
  ASSUME NEW mail \in Mails, NEW s \in Seq(Containers),
         "alternative" \notin ToSet(s), "related" \notin ToSet(s), NEW L \in Seq(Found)
  PROVE  /\ Reaches(At(s, TRUE, L), Related(mail), At(s, FALSE, L \o RelatedLeaves(mail, s)))
         /\ RelatedLeaves(mail, s) \in Seq(Found)
  <1> DEFINE b == "related"
             w == Append(s, b)
             inl == InlineOnes(mail.attachments)
             alt == write_alt_part(mail.html)
  <1>1. mail.html \in BOOLEAN /\ mail.attachments \in Seq(Attachment)
    BY DEF Mails
  <1>2. inl \in Seq(Attachment)
    BY <1>1, OnesTyped
  <1>3. CASE inl = <<>>
    BY <1>1, <1>3, AltRun DEF Related, RelatedLeaves
  <1>4. CASE inl # <<>>
    <2>1. b \in Containers
      BY Bodies
    <2>2. w \in Seq(Containers) /\ "alternative" \notin ToSet(w)
      <3>1. w \in Seq(Containers) /\ Len(w) = Len(s) + 1 /\ w[Len(s) + 1] = b
            /\ \A i \in 1..Len(s) : w[i] = s[i]
        BY <2>1
      <3>2. \A i \in 1..Len(s) : s[i] # "alternative"
        BY DEF ToSet
      <3> HIDE DEF w
      <3>3. \A i \in 1..Len(w) : w[i] # "alternative"
        BY <3>1, <3>2
      <3>4. QED
        BY <3>1, <3>3 DEF ToSet
    <2> DEFINE M == AltLeaves(mail.html, w)
    <2>3. Reaches(At(w, TRUE, L), alt, At(w, FALSE, L \o M)) /\ M \in Seq(Found)
      BY <1>1, <2>2, AltRun
    <2> HIDE DEF M, alt, inl
    <2>4. /\ Reaches(At(s, TRUE, L),
                     ((<<Multi(b), OpenPart(b)>> \o alt) \o WriteAttachments(b, inl))
                       \o <<ClosePart(b)>>,
                     At(s, FALSE, L \o (M \o Placed(inl, w))))
          /\ M \o Placed(inl, w) \in Seq(Found)
      BY <1>2, <2>1, <2>3, ContainerRun
    <2>5. Related(mail) = ((<<Multi(b), OpenPart(b)>> \o alt) \o WriteAttachments(b, inl))
                            \o <<ClosePart(b)>>
      BY <1>4 DEF Related, inl, alt
    <2>6. RelatedLeaves(mail, s) = M \o Placed(inl, w)
      BY <1>4 DEF RelatedLeaves, inl, M
    <2>7. QED
      BY <2>4, <2>5, <2>6
  <1>5. QED
    BY <1>3, <1>4

(* What build_mime writes is read as the whole mail. *)
LEMMA MailParsed ==
  ASSUME NEW mail \in Mails
  PROVE  Parse(build_mime(mail)) = MailLeaves(mail) /\ MailLeaves(mail) \in Seq(Found)
  <1> DEFINE e == <<>>
             b == "mixed"
             w == <<"mixed">>
             real == RealOnes(mail.attachments)
             start == At(e, TRUE, e)
  <1>1. mail.attachments \in Seq(Attachment)
    BY DEF Mails
  <1>2. real \in Seq(Attachment)
    BY <1>1, OnesTyped
  <1>3. e \in Seq(Containers) /\ e \in Seq(Found) /\ ToSet(e) = {} /\ b \in Containers
    BY Bodies DEF ToSet
  <1>4. w = Append(e, b) /\ w \in Seq(Containers) /\ ToSet(w) = {"mixed"}
    BY <1>3 DEF ToSet
  <1>5. Reaches(start, build_mime(mail), At(e, FALSE, e \o MailLeaves(mail)))
        /\ MailLeaves(mail) \in Seq(Found)
    <2>1. CASE real = <<>>
      <3> HIDE DEF e
      <3>1. Reaches(start, Related(mail), At(e, FALSE, e \o RelatedLeaves(mail, e)))
            /\ RelatedLeaves(mail, e) \in Seq(Found)
        BY <1>3, RelatedRun
      <3>2. QED
        BY <2>1, <3>1 DEF build_mime, MailLeaves, e
    <2>2. CASE real # <<>>
      <3> DEFINE M == RelatedLeaves(mail, w)
      <3> HIDE DEF e, w
      <3>1. /\ Reaches(At(w, TRUE, e), Related(mail), At(w, FALSE, e \o M))
            /\ M \in Seq(Found)
        BY <1>3, <1>4, RelatedRun
      <3> HIDE DEF M, real, b
      <3>2. /\ Reaches(At(e, TRUE, e),
                       ((<<Multi(b), OpenPart(b)>> \o Related(mail)) \o WriteAttachments(b, real))
                         \o <<ClosePart(b)>>,
                       At(e, FALSE, e \o (M \o Placed(real, w))))
            /\ M \o Placed(real, w) \in Seq(Found)
        BY <1>2, <1>3, <1>4, <3>1, ContainerRun
      <3>3. build_mime(mail)
              = ((<<Multi(b), OpenPart(b)>> \o Related(mail)) \o WriteAttachments(b, real))
                  \o <<ClosePart(b)>>
        BY <2>2 DEF build_mime, real, b
      <3>4. MailLeaves(mail) = M \o Placed(real, w)
        BY <2>2 DEF MailLeaves, real, M, w
      <3>5. QED
        BY <3>2, <3>3, <3>4
    <2>3. QED
      BY <2>1, <2>2
  <1>6. Parse(build_mime(mail)) = Run(start, build_mime(mail)).leaves
    BY DEF Parse, Run, At
  <1>7. e \o MailLeaves(mail) = MailLeaves(mail)
    BY <1>5, ConcatEmptySeq
  <1>8. Run(start, build_mime(mail)) = At(e, FALSE, MailLeaves(mail))
    BY <1>5, <1>7 DEF Reaches
  <1> HIDE DEF e, start
  <1>9. QED
    BY <1>5, <1>6, <1>8 DEF At

-----------------------------------------------------------------------------
(* What the parser finds (Mime) *)

(* What is kept and what is left out are as many as there were. *)
LEMMA KeepSplit ==
  ASSUME NEW T, NEW I, NEW R, \A x \in T : x \in I <=> x \notin R
  PROVE  \A s \in Seq(T) : Len(Keep(s, I)) + Len(Keep(s, R)) = Len(s)
  <1> DEFINE G == {s \in Seq(T) : Len(Keep(s, I)) + Len(Keep(s, R)) = Len(s)}
  <1>1. <<>> \in G
    <2>1. Keep(<<>>, I) = <<>> /\ Keep(<<>>, R) = <<>>
      BY KeepEmpty
    <2>2. QED
      BY <2>1
  <1>2. ASSUME NEW s \in G, NEW x \in T PROVE Append(s, x) \in G
    <2> DEFINE i == Keep(s, I)
               r == Keep(s, R)
    <2>1. s \in Seq(T) /\ Append(s, x) \in Seq(T) /\ Len(Append(s, x)) = Len(s) + 1
      OBVIOUS
    <2>2. i \in Seq(T) /\ r \in Seq(T)
      BY <2>1, KeepRange
    <2>3. /\ Keep(Append(s, x), I) = IF x \in I THEN Append(i, x) ELSE i
          /\ Keep(Append(s, x), R) = IF x \in R THEN Append(r, x) ELSE r
      BY <2>1, KeepAppend
    <2>4. Len(i) + Len(r) = Len(s)
      OBVIOUS
    <2> HIDE DEF i, r
    <2>5. /\ Len(Append(i, x)) = Len(i) + 1 /\ Len(Append(r, x)) = Len(r) + 1
          /\ Len(i) \in Nat /\ Len(r) \in Nat /\ Len(s) \in Nat
      BY <2>1, <2>2
    <2>6. CASE x \in I
      <3>1. Keep(Append(s, x), I) = Append(i, x) /\ Keep(Append(s, x), R) = r
        BY <2>3, <2>6
      <3>2. QED
        BY <2>1, <2>4, <2>5, <3>1
    <2>7. CASE x \notin I
      <3>1. Keep(Append(s, x), I) = i /\ Keep(Append(s, x), R) = Append(r, x)
        BY <2>3, <2>7
      <3>2. QED
        BY <2>1, <2>4, <2>5, <3>1
    <2>8. QED
      BY <2>6, <2>7
  <1>3. G \in SUBSET Seq(T)
    OBVIOUS
  <1> HIDE DEF G
  <1>4. G = Seq(T)
    BY <1>1, <1>2, <1>3, SeqInduction
  <1>5. QED
    BY <1>4 DEF G

(* A sequence is one of its own elements. *)
LEMMA OwnElements ==
  ASSUME NEW T, NEW s \in Seq(T)
  PROVE  s \in Seq(ToSet(s)) /\ ToSet(s) \subseteq T
  BY DEF ToSet

(* Every attachment is inline or is not. *)
LEMMA OnesSplit ==
  ASSUME NEW a \in Seq(Attachment)
  PROVE  Len(InlineOnes(a)) + Len(RealOnes(a)) = Len(a)
  <1> DEFINE T == ToSet(a)
             I == {x \in T : x.inline}
             R == {x \in T : ~x.inline}
  <1>1. \A x \in T : x \in I <=> x \notin R
    OBVIOUS
  <1>2. a \in Seq(T)
    BY OwnElements
  <1> HIDE DEF I, R
  <1>3. Len(Keep(a, I)) + Len(Keep(a, R)) = Len(a)
    BY <1>1, <1>2, KeepSplit
  <1>4. QED
    BY <1>3 DEF I, R, InlineOnes, RealOnes

(* The places of attachments, as a set. *)
LEMMA PlacedSet ==
  ASSUME NEW a \in Seq(Attachment), NEW w
  PROVE  ToSet(Placed(a, w)) = {Place(x, w) : x \in ToSet(a)} /\ Len(Placed(a, w)) = Len(a)
  <1>1. Len(a) \in Nat /\ DOMAIN a = 1..Len(a)
    OBVIOUS
  <1>2. DOMAIN Placed(a, w) = 1..Len(a) /\ \A i \in 1..Len(a) : Placed(a, w)[i] = Place(a[i], w)
    BY <1>1 DEF Placed
  <1>3. QED
    BY <1>1, <1>2 DEF ToSet

(* A container inside others: the last of them, and they come before it. *)
LEMMA AppendEnds ==
  ASSUME NEW s \in Seq(Containers), NEW b \in Containers
  PROVE  /\ Append(s, b) \in Seq(Containers) /\ Last(Append(s, b)) = b
         /\ IsPrefix(s, Append(s, b)) /\ IsPrefix(s, s)
  <1> DEFINE t == Append(s, b)
             n == Len(s)
             u == SubSeq(t, 1, n)
             v == SubSeq(s, 1, n)
  <1>1. /\ n \in Nat /\ t \in Seq(Containers) /\ Len(t) = n + 1 /\ t[n + 1] = b
        /\ \A i \in 1..n : t[i] = s[i]
    OBVIOUS
  <1>2. \A i \in 1..n : t[i] \in Containers /\ s[i] \in Containers
    BY <1>1
  <1> HIDE DEF t
  <1>3. /\ u \in Seq(Containers) /\ Len(u) = IF 1 <= n THEN n - 1 + 1 ELSE 0
        /\ \A i \in 1..(n - 1 + 1) : u[i] = t[1 + i - 1]
    BY <1>1, <1>2, SubSeqProperties
  <1>4. v = s
    BY SubSeqFull
  <1> HIDE DEF u
  <1>5. Len(u) = n /\ \A i \in 1..Len(u) : u[i] = s[i]
    BY <1>1, <1>3
  <1>6. u = s
    BY <1>3, <1>5, SeqEqual
  <1>7. IsPrefix(s, t) /\ IsPrefix(s, s)
    BY <1>1, <1>4, <1>6 DEF IsPrefix, u
  <1>8. Last(t) = b
    BY <1>1 DEF Last
  <1>9. QED
    BY <1>1, <1>7, <1>8 DEF t

(* The bodies are two, and are not attachments. *)
LEMMA BodiesDiffer ==
  /\ TextBody # HtmlBody /\ TextBody \notin Attachment /\ HtmlBody \notin Attachment
  /\ \A c, w : Place(c, w).part = c /\ Place(c, w).within = w
  <1>1. TextBody.id # HtmlBody.id
    BY DEF TextBody, HtmlBody
  <1>2. DOMAIN TextBody = {"id"} /\ DOMAIN HtmlBody = {"id"}
    BY DEF TextBody, HtmlBody
  <1>3. \A x \in Attachment : "inline" \in DOMAIN x
    BY DEF Attachment
  <1>4. "inline" \notin {"id"}
    OBVIOUS
  <1>5. QED
    BY <1>1, <1>2, <1>3, <1>4 DEF Place

(* The number of bodies. *)
LEMMA BodyCount ==
  Cardinality({TextBody}) = 1 /\ Cardinality({TextBody, HtmlBody}) = 2
  <1>1. Cardinality({TextBody}) = 1 /\ IsFiniteSet({TextBody})
    BY FS_Singleton
  <1>2. {TextBody, HtmlBody} = {TextBody} \cup {HtmlBody} /\ HtmlBody \notin {TextBody}
    BY BodiesDiffer
  <1>3. QED
    BY <1>1, <1>2, FS_AddElement

(* The bodies of a mail. *)
BodiesOf(html) == IF html THEN {TextBody, HtmlBody} ELSE {TextBody}

(* The containers around the bodies. *)
TextIn(html, s) == IF html THEN Append(s, "alternative") ELSE s

(* The containers around the inline attachments. *)
InRelated(mail, s) == IF InlineOnes(mail.attachments) # <<>> THEN Append(s, "related") ELSE s

(* The containers around the rest of the mail. *)
InMixed(mail) == IF RealOnes(mail.attachments) # <<>> THEN <<"mixed">> ELSE <<>>

(* The elements of short sequences. *)
LEMMA TwoSet ==
  ASSUME NEW x, NEW y
  PROVE  /\ ToSet(<<x, y>>) = {x, y} /\ Len(<<x, y>>) = 2
         /\ ToSet(<<x>>) = {x} /\ Len(<<x>>) = 1
  <1>1. Len(<<x, y>>) = 2 /\ DOMAIN <<x, y>> = 1..2 /\ <<x, y>>[1] = x /\ <<x, y>>[2] = y
    OBVIOUS
  <1>2. Len(<<x>>) = 1 /\ DOMAIN <<x>> = 1..1 /\ <<x>>[1] = x
    OBVIOUS
  <1>3. 1..2 = {1, 2} /\ 1..1 = {1}
    OBVIOUS
  <1>4. ToSet(<<x, y>>) = {<<x, y>>[i] : i \in {1, 2}}
    BY <1>1, <1>3, Zenon DEF ToSet
  <1>5. ToSet(<<x>>) = {<<x>>[i] : i \in {1}}
    BY <1>2, <1>3, Zenon DEF ToSet
  <1>6. QED
    BY <1>1, <1>2, <1>4, <1>5

(* The bodies that are found, as a set. *)
LEMMA AltSet ==
  ASSUME NEW html \in BOOLEAN, NEW s \in Seq(Containers)
  PROVE  /\ ToSet(AltLeaves(html, s)) = {Place(c, TextIn(html, s)) : c \in BodiesOf(html)}
         /\ Len(AltLeaves(html, s)) = Cardinality(BodiesOf(html))
         /\ Len(AltLeaves(html, s)) \in Nat
         /\ AltLeaves(html, s) \in Seq(Found)
  <1>0. TextBody \in Contents /\ HtmlBody \in Contents /\ "alternative" \in Containers
    BY Bodies
  <1>1. CASE html
    <2> DEFINE w == Append(s, "alternative")
               x == Place(TextBody, w)
               y == Place(HtmlBody, w)
    <2>1. w \in Seq(Containers)
      BY <1>0
    <2>2. x \in Found /\ y \in Found
      BY <1>0, <2>1 DEF Place, Found
    <2>3. /\ AltLeaves(html, s) = <<x, y>> /\ TextIn(html, s) = w
          /\ BodiesOf(html) = {TextBody, HtmlBody}
      BY <1>1 DEF AltLeaves, TextIn, BodiesOf
    <2>4. {Place(c, w) : c \in {TextBody, HtmlBody}} = {x, y}
      OBVIOUS
    <2> HIDE DEF x, y, w
    <2>5. ToSet(<<x, y>>) = {x, y} /\ Len(<<x, y>>) = 2
      BY TwoSet
    <2>6. <<x, y>> \in Seq(Found)
      BY <2>2
    <2>7. QED
      BY <2>3, <2>4, <2>5, <2>6, BodyCount
  <1>2. CASE ~html
    <2> DEFINE x == Place(TextBody, s)
    <2>2. x \in Found
      BY <1>0 DEF Place, Found
    <2>3. AltLeaves(html, s) = <<x>> /\ TextIn(html, s) = s /\ BodiesOf(html) = {TextBody}
      BY <1>2 DEF AltLeaves, TextIn, BodiesOf
    <2>4. {Place(c, s) : c \in {TextBody}} = {x}
      OBVIOUS
    <2> HIDE DEF x
    <2>5. ToSet(<<x>>) = {x} /\ Len(<<x>>) = 1
      BY TwoSet
    <2>6. <<x>> \in Seq(Found)
      BY <2>2
    <2>7. QED
      BY <2>3, <2>4, <2>5, <2>6, BodyCount
  <1>3. QED
    BY <1>1, <1>2

(* The body and the inline attachments that are found, as a set. *)
LEMMA RelatedSet ==
  ASSUME NEW mail \in Mails, NEW s \in Seq(Containers)
  PROVE  LET w == InRelated(mail, s)
         IN  /\ w \in Seq(Containers)
             /\ RelatedLeaves(mail, s) \in Seq(Found)
             /\ ToSet(RelatedLeaves(mail, s))
                  = {Place(c, TextIn(mail.html, w)) : c \in BodiesOf(mail.html)}
                      \cup {Place(a, w) : a \in ToSet(InlineOnes(mail.attachments))}
             /\ Len(RelatedLeaves(mail, s))
                  = Cardinality(BodiesOf(mail.html)) + Len(InlineOnes(mail.attachments))
  <1> DEFINE inl == InlineOnes(mail.attachments)
             w == InRelated(mail, s)
             alt == AltLeaves(mail.html, w)
             P == Placed(inl, w)
  <1>1. mail.html \in BOOLEAN /\ inl \in Seq(Attachment)
    BY OnesTyped DEF Mails
  <1>2. w \in Seq(Containers)
    <2>1. "related" \in Containers
      BY Bodies
    <2>2. QED
      BY <2>1 DEF InRelated
  <1> HIDE DEF inl
  <1>3. /\ ToSet(alt) = {Place(c, TextIn(mail.html, w)) : c \in BodiesOf(mail.html)}
        /\ Len(alt) = Cardinality(BodiesOf(mail.html)) /\ Len(alt) \in Nat
        /\ alt \in Seq(Found)
    <2> HIDE DEF w
    <2>1. QED
      BY <1>1, <1>2, AltSet
  <1>4. CASE inl = <<>>
    <2>1. RelatedLeaves(mail, s) = alt
      BY <1>4 DEF RelatedLeaves, inl, InRelated
    <2>2. Len(inl) = 0 /\ ToSet(inl) = {}
      BY <1>4 DEF ToSet
    <2> HIDE DEF alt, w
    <2>3. Len(RelatedLeaves(mail, s)) = Cardinality(BodiesOf(mail.html)) + Len(inl)
      BY <1>3, <2>1, <2>2
    <2>4. QED
      BY <1>2, <1>3, <2>1, <2>2, <2>3 DEF inl, w
  <1>5. CASE inl # <<>>
    <2>1. RelatedLeaves(mail, s) = alt \o P
      BY <1>5 DEF RelatedLeaves, inl, InRelated
    <2> HIDE DEF w
    <2>2. /\ ToSet(P) = {Place(x, w) : x \in ToSet(inl)} /\ Len(P) = Len(inl)
          /\ P \in Seq(Found)
      <3>1. \A c \in Attachment : Place(c, w) \in Found
        BY <1>2 DEF Place, Found, Contents
      <3>2. P \in Seq(Found)
        <4>1. \A i \in 1..Len(inl) : inl[i] \in Attachment
          BY <1>1
        <4>2. P = [i \in 1..Len(inl) |-> Place(inl[i], w)] /\ Len(inl) \in Nat
          BY <1>1 DEF Placed
        <4> HIDE DEF P
        <4>3. P \in [1..Len(inl) -> Found]
          BY <3>1, <4>1, <4>2
        <4>4. QED
          BY <4>2, <4>3
      <3>3. QED
        BY <1>1, <3>2, PlacedSet
    <2> HIDE DEF alt, P
    <2>3. alt \o P \in Seq(Found) /\ ToSet(alt \o P) = ToSet(alt) \cup ToSet(P)
      BY <1>3, <2>2, Joined
    <2>4. Len(alt \o P) = Len(alt) + Len(P)
      BY <1>3, <2>2
    <2>5. QED
      BY <1>2, <1>3, <2>1, <2>2, <2>3, <2>4 DEF inl, w
  <1>6. QED
    BY <1>4, <1>5

(* All that is found, as a set: each content in its containers, and as many as there are. *)
LEMMA MailSet ==
  ASSUME NEW mail \in Mails
  PROVE  LET w == InRelated(mail, InMixed(mail))
             leaves == Parse(build_mime(mail))
         IN  /\ InMixed(mail) \in Seq(Containers) /\ w \in Seq(Containers)
             /\ leaves \in Seq(Found)
             /\ ToSet(leaves)
                  = ({Place(c, TextIn(mail.html, w)) : c \in BodiesOf(mail.html)}
                      \cup {Place(a, w) : a \in ToSet(InlineOnes(mail.attachments))})
                      \cup {Place(a, <<"mixed">>) : a \in ToSet(RealOnes(mail.attachments))}
             /\ Len(leaves) = Cardinality(BodiesOf(mail.html)) + Len(mail.attachments)
  <1> DEFINE real == RealOnes(mail.attachments)
             inl == InlineOnes(mail.attachments)
             m == <<"mixed">>
             o == InMixed(mail)
             w == InRelated(mail, o)
             rel == RelatedLeaves(mail, o)
             P == Placed(real, m)
             leaves == Parse(build_mime(mail))
  <1>1. real \in Seq(Attachment) /\ inl \in Seq(Attachment) /\ mail.html \in BOOLEAN
        /\ Len(inl) + Len(real) = Len(mail.attachments)
    BY OnesTyped, OnesSplit DEF Mails
  <1>2. m \in Seq(Containers) /\ o \in Seq(Containers)
    BY Bodies DEF InMixed
  <1>3. leaves = MailLeaves(mail) /\ leaves \in Seq(Found)
    BY MailParsed
  <1>4. /\ w \in Seq(Containers) /\ rel \in Seq(Found)
        /\ ToSet(rel) = {Place(c, TextIn(mail.html, w)) : c \in BodiesOf(mail.html)}
                          \cup {Place(a, w) : a \in ToSet(inl)}
        /\ Len(rel) = Cardinality(BodiesOf(mail.html)) + Len(inl)
    <2> HIDE DEF o
    <2>1. QED
      BY <1>2, RelatedSet
  <1>5. Cardinality(BodiesOf(mail.html)) \in Nat
    BY <1>1, AltSet, <1>2
  <1> HIDE DEF leaves, inl
  <1>6. CASE real = <<>>
    <2>1. leaves = rel
      BY <1>3, <1>6 DEF MailLeaves, InMixed
    <2>2. Len(real) = 0 /\ ToSet(real) = {}
      BY <1>6 DEF ToSet
    <2> HIDE DEF real, rel, w, o, m
    <2>3. Len(leaves) = Cardinality(BodiesOf(mail.html)) + Len(mail.attachments)
      BY <1>1, <1>4, <1>5, <2>1, <2>2
    <2>4. ToSet(leaves) = ({Place(c, TextIn(mail.html, w)) : c \in BodiesOf(mail.html)}
                             \cup {Place(a, w) : a \in ToSet(inl)})
                             \cup {Place(a, m) : a \in ToSet(real)}
      BY <1>4, <2>1, <2>2
    <2>5. QED
      BY <1>2, <1>3, <1>4, <2>3, <2>4 DEF leaves, w, o, m, real, inl
  <1>7. CASE real # <<>>
    <2>1. leaves = rel \o P
      BY <1>3, <1>7 DEF MailLeaves, InMixed
    <2> HIDE DEF m, real
    <2>2. ToSet(P) = {Place(x, m) : x \in ToSet(real)} /\ Len(P) = Len(real)
      BY <1>1, PlacedSet
    <2>3. P \in Seq(Found)
      <3>1. \A c \in Attachment : Place(c, m) \in Found
        BY <1>2 DEF Place, Found, Contents
      <3>2. \A i \in 1..Len(real) : real[i] \in Attachment
        BY <1>1
      <3>3. P = [i \in 1..Len(real) |-> Place(real[i], m)] /\ Len(real) \in Nat
        BY <1>1 DEF Placed
      <3> HIDE DEF P
      <3>4. P \in [1..Len(real) -> Found]
        BY <3>1, <3>2, <3>3
      <3>5. QED
        BY <3>3, <3>4
    <2> HIDE DEF P, rel, w, o
    <2>4. ToSet(rel \o P) = ToSet(rel) \cup ToSet(P)
      BY <1>4, <2>3, Joined
    <2>5. Len(rel \o P) = Len(rel) + Len(P)
      <3>1. rel \in Seq(Found)
        BY <1>4
      <3>2. QED
        BY <2>3, <3>1
    <2>6. Len(leaves) = Cardinality(BodiesOf(mail.html)) + Len(mail.attachments)
      <3>1. Len(inl) \in Nat /\ Len(real) \in Nat
        BY <1>1
      <3> DEFINE k == Cardinality(BodiesOf(mail.html))
                 i == Len(inl)
                 r == Len(real)
                 a == Len(mail.attachments)
      <3>2. k \in Nat /\ i + r = a
        BY <1>1, <1>5
      <3>3. Len(rel) = k + i /\ Len(P) = r
        BY <1>4, <2>2
      <3>4. Len(leaves) = (k + i) + r
        BY <2>1, <2>5, <3>3
      <3> HIDE DEF k, i, r, a
      <3>5. (k + i) + r = k + a
        BY <3>1, <3>2 DEF i, r
      <3>6. QED
        BY <3>4, <3>5 DEF k, a
    <2>7. ToSet(leaves) = ({Place(c, TextIn(mail.html, w)) : c \in BodiesOf(mail.html)}
                             \cup {Place(a, w) : a \in ToSet(inl)})
                             \cup {Place(a, m) : a \in ToSet(real)}
      BY <1>4, <2>1, <2>2, <2>4
    <2>8. QED
      BY <1>2, <1>3, <1>4, <2>6, <2>7 DEF leaves, w, o, m, real, inl
  <1>8. QED
    BY <1>6, <1>7

(* The containers in which a content is found. *)
WithinOf(leaves, c) == (CHOOSE l \in ToSet(leaves) : l.part = c).within

(* They are known when every leaf with the content has the same ones. *)
LEMMA WithinIs ==
  ASSUME NEW leaves, NEW c, NEW w, Place(c, w) \in ToSet(leaves),
         \A l \in ToSet(leaves) : l.part = c => l.within = w
  PROVE  WithinOf(leaves, c) = w
  <1>1. Place(c, w).part = c
    BY BodiesDiffer
  <1>2. \E l \in ToSet(leaves) : l.part = c
    BY <1>1
  <1> DEFINE x == CHOOSE l \in ToSet(leaves) : l.part = c
  <1>3. x \in ToSet(leaves) /\ x.part = c
    BY <1>2
  <1> HIDE DEF x
  <1>4. x.within = w
    BY <1>3
  <1>5. QED
    BY <1>4 DEF x, WithinOf

(* What build_mime writes is read back, every part once and in the container it belongs to. *)
LEMMA RoundTrip ==
  ASSUME NEW mail \in Mails
  PROVE  LET leaves == Parse(build_mime(mail))
         IN  /\ {l.part : l \in ToSet(leaves)} = BodiesOf(mail.html) \cup ToSet(mail.attachments)
             /\ Len(leaves) = Cardinality(BodiesOf(mail.html)) + Len(mail.attachments)
             /\ mail.html => /\ WithinOf(leaves, TextBody) = WithinOf(leaves, HtmlBody)
                             /\ Last(WithinOf(leaves, TextBody)) = "alternative"
             /\ \A a \in ToSet(mail.attachments) :
                  IF a.inline
                  THEN /\ Last(WithinOf(leaves, a)) = "related"
                       /\ IsPrefix(WithinOf(leaves, a), WithinOf(leaves, TextBody))
                  ELSE WithinOf(leaves, a) = <<"mixed">>
  <1> DEFINE A == mail.attachments
             leaves == Parse(build_mime(mail))
             o == InMixed(mail)
             w == InRelated(mail, o)
             t == TextIn(mail.html, w)
             m == <<"mixed">>
             B == BodiesOf(mail.html)
             I == {x \in ToSet(A) : x.inline}
             R == {x \in ToSet(A) : ~x.inline}
             F == ToSet(leaves)
  <1>1. mail.html \in BOOLEAN /\ A \in Seq(Attachment)
    BY DEF Mails
  <1>2. ToSet(InlineOnes(A)) = I /\ ToSet(RealOnes(A)) = R
    BY <1>1, OnesTyped
  <1>3. /\ o \in Seq(Containers) /\ w \in Seq(Containers)
        /\ F = ({Place(c, t) : c \in B} \cup {Place(a, w) : a \in ToSet(InlineOnes(A))})
                 \cup {Place(a, m) : a \in ToSet(RealOnes(A))}
        /\ Len(leaves) = Cardinality(B) + Len(A)
    BY MailSet
  <1>4. I \cup R = ToSet(A) /\ I \cap R = {} /\ ToSet(A) \subseteq Attachment
    BY <1>1, OwnElements
  <1>5. TextBody \in B /\ (mail.html => HtmlBody \in B) /\ B \cap Attachment = {}
    BY BodiesDiffer DEF BodiesOf
  <1>6. I # {} => w = Append(o, "related")
    <2>1. SUFFICES ASSUME InlineOnes(A) = <<>> PROVE I = {}
      BY DEF InRelated
    <2>2. ToSet(<<>>) = {}
      BY DEF ToSet
    <2>3. QED
      BY <1>2, <2>1, <2>2
  <1>7. "related" \in Containers /\ "alternative" \in Containers
    BY Bodies
  <1>8. mail.html => t = Append(w, "alternative")
    BY DEF TextIn
  <1>9. ~mail.html => t = w
    BY DEF TextIn
  <1> HIDE DEF leaves, o, w, t, m, B, I, R, A
  <1>10. F = ({Place(c, t) : c \in B} \cup {Place(a, w) : a \in I}) \cup {Place(a, m) : a \in R}
    BY <1>2, <1>3
  <1>11. \A c, v : Place(c, v).part = c /\ Place(c, v).within = v
    BY BodiesDiffer
  <1> HIDE DEF F
  <1>12. /\ \A l \in F : l.part \in B \cup ToSet(A)
         /\ \A c \in B : Place(c, t) \in F /\ \A l \in F : l.part = c => l.within = t
         /\ \A a \in I : Place(a, w) \in F /\ \A l \in F : l.part = a => l.within = w
         /\ \A a \in R : Place(a, m) \in F /\ \A l \in F : l.part = a => l.within = m
    <2>1. ASSUME NEW l \in F
          PROVE  \/ l.part \in B /\ l.within = t
                 \/ l.part \in I /\ l.within = w
                 \/ l.part \in R /\ l.within = m
      <3>1. CASE \E c \in B : l = Place(c, t)
        BY <1>11, <3>1
      <3>2. CASE \E a \in I : l = Place(a, w)
        BY <1>11, <3>2
      <3>3. CASE \E a \in R : l = Place(a, m)
        BY <1>11, <3>3
      <3>4. QED
        BY <1>10, <3>1, <3>2, <3>3
    <2>2. \A c \in B : c \notin I /\ c \notin R
      BY <1>4, <1>5
    <2>3. /\ \A c \in B : Place(c, t) \in F
          /\ \A a \in I : Place(a, w) \in F
          /\ \A a \in R : Place(a, m) \in F
      BY <1>10
    <2>4. \A a \in I : a \notin B /\ a \notin R
      BY <1>4, <1>5
    <2>5. \A a \in R : a \notin B /\ a \notin I
      BY <1>4, <1>5
    <2>6. QED
      BY <1>4, <2>1, <2>2, <2>3, <2>4, <2>5
  <1>13. {l.part : l \in F} = B \cup ToSet(A)
    <2>1. \A c \in B \cup ToSet(A) : \E l \in F : l.part = c
      BY <1>4, <1>11, <1>12
    <2>2. QED
      BY <1>12, <2>1
  <1>14. /\ \A c \in B : WithinOf(leaves, c) = t
         /\ \A a \in I : WithinOf(leaves, a) = w
         /\ \A a \in R : WithinOf(leaves, a) = m
    BY <1>12, WithinIs DEF F
  <1>15. mail.html => /\ WithinOf(leaves, TextBody) = WithinOf(leaves, HtmlBody)
                      /\ Last(WithinOf(leaves, TextBody)) = "alternative"
    <2>1. SUFFICES ASSUME mail.html
                   PROVE  /\ WithinOf(leaves, TextBody) = t /\ WithinOf(leaves, HtmlBody) = t
                          /\ Last(t) = "alternative"
      OBVIOUS
    <2>2. Last(Append(w, "alternative")) = "alternative"
      BY <1>3, <1>7, AppendEnds
    <2>3. QED
      BY <1>5, <1>8, <1>14, <2>1, <2>2
  <1>16. ASSUME NEW a \in ToSet(A)
         PROVE  IF a.inline
                THEN /\ Last(WithinOf(leaves, a)) = "related"
                     /\ IsPrefix(WithinOf(leaves, a), WithinOf(leaves, TextBody))
                ELSE WithinOf(leaves, a) = m
    <2>1. CASE a.inline
      <3>1. a \in I
        BY <2>1 DEF I
      <3>2. w = Append(o, "related")
        BY <1>6, <3>1
      <3>3. Last(w) = "related"
        BY <1>3, <1>7, <3>2, AppendEnds
      <3>4. IsPrefix(w, t)
        <4>1. IsPrefix(w, w) /\ IsPrefix(w, Append(w, "alternative"))
          BY <1>3, <1>7, AppendEnds
        <4>2. QED
          BY <1>1, <1>8, <1>9, <4>1
      <3>5. WithinOf(leaves, a) = w /\ WithinOf(leaves, TextBody) = t
        BY <1>5, <1>14, <3>1
      <3>6. QED
        BY <2>1, <3>3, <3>4, <3>5
    <2>2. CASE ~a.inline
      BY <1>14, <2>2 DEF R
    <2>3. QED
      BY <2>1, <2>2
  <1>17. QED
    BY <1>3, <1>13, <1>15, <1>16 DEF leaves, F, m, B, A

-----------------------------------------------------------------------------
(* Received mail (Mime) *)

(* A received part as it is written into the forwarded mail. *)
RebuiltOne(part) ==
  [id |-> part.id, inline |-> IsInline(part), cid |-> part.cid,
   type |-> [main |-> part.type.main, sub |-> "none"], size |-> part.size]

(* It keeps its id and Content-ID, and is inline when the part was. *)
LEMMA RebuiltOneIs ==
  ASSUME NEW part \in Part
  PROVE  /\ RebuiltOne(part) \in Attachment
         /\ RebuiltOne(part).id = part.id /\ RebuiltOne(part).cid = part.cid
         /\ RebuiltOne(part).inline = IsInline(part)
  <1>1. IsInline(part) \in BOOLEAN
    BY DEF IsInline, Part
  <1>2. part.id \in Nat /\ part.cid \in ContentIds /\ part.size \in Nat /\ part.type \in Types
    BY DEF Part
  <1>3. [main |-> part.type.main, sub |-> "none"] \in Types
    <2> DEFINE m == part.type.main
               n == "none"
    <2>1. m \in TypeNames
      BY <1>2 DEF Types
    <2>2. n \in TypeNames
      BY MimeAssumption
    <2> HIDE DEF m, n
    <2>3. [main |-> m, sub |-> n] \in Types
      BY <2>1, <2>2 DEF Types
    <2>4. QED
      BY <2>3 DEF m, n
  <1> DEFINE v == IsInline(part)
             y == [main |-> part.type.main, sub |-> "none"]
  <1> HIDE DEF v, y
  <1>4. [id |-> part.id, inline |-> v, cid |-> part.cid, type |-> y, size |-> part.size]
          \in Attachment
    BY <1>1, <1>2, <1>3 DEF Attachment, v, y
  <1>5. QED
    BY <1>4 DEF RebuiltOne, v, y

(* The forwarded mail is one that build_mime can be given. *)
LEMMA RebuiltIs ==
  ASSUME NEW parts \in Seq(Part)
  PROVE  /\ Rebuilt(parts) \in Mails
         /\ Rebuilt(parts).html
         /\ Rebuilt(parts).attachments = [i \in 1..Len(parts) |-> RebuiltOne(parts[i])]
         /\ Rebuilt(parts).attachments \in Seq(Attachment)
  <1> DEFINE A == [i \in 1..Len(parts) |-> RebuiltOne(parts[i])]
  <1>1. DOMAIN parts = 1..Len(parts) /\ Len(parts) \in Nat
    OBVIOUS
  <1>2. Rebuilt(parts) = [html |-> TRUE, attachments |-> A]
    BY <1>1 DEF Rebuilt, RebuiltOne
  <1>3. \A i \in 1..Len(parts) : RebuiltOne(parts[i]) \in Attachment
    BY <1>1, RebuiltOneIs
  <1>4. A \in Seq(Attachment)
    BY <1>1, <1>3
  <1> HIDE DEF A
  <1>5. Rebuilt(parts) \in Mails
    BY <1>2, <1>4 DEF Mails
  <1>6. Rebuilt(parts).html /\ Rebuilt(parts).attachments = A
    BY <1>2
  <1>7. QED
    BY <1>4, <1>5, <1>6 DEF A

(* What the reader of mail finds besides the bodies. *)
LEMMA AttachmentsFound ==
  ASSUME NEW leaves \in Seq(Found)
  PROVE  ToSet(Attachments(leaves))
           = {l \in ToSet(leaves) : l.part \notin {TextBody, HtmlBody}}
  <1> DEFINE S == {l \in ToSet(leaves) : l.part \notin {TextBody, HtmlBody}}
  <1>1. S \subseteq ToSet(leaves)
    OBVIOUS
  <1> HIDE DEF S
  <1>2. ToSet(Keep(leaves, S)) = ToSet(leaves) \cap S
    BY KeepRange
  <1>3. QED
    BY <1>1, <1>2 DEF S, Attachments

(* A part with a Content-ID is found beside the body of the forwarded mail. *)
LEMMA EmbeddedForwarded ==
  ASSUME NEW parts \in Seq(Part), NEW i \in DOMAIN parts, parts[i].cid # "none"
  PROVE  \E l \in ToSet(Attachments(Parse(rewrite_body_for_forward(parts)))) :
           /\ l.part.id = parts[i].id /\ l.part.cid = parts[i].cid
           /\ Last(l.within) = "related"
  <1> DEFINE mail == Rebuilt(parts)
             A == mail.attachments
             leaves == Parse(build_mime(mail))
             o == InMixed(mail)
             w == InRelated(mail, o)
             a == A[i]
             l == Place(a, w)
  <1>1. /\ mail \in Mails /\ A \in Seq(Attachment)
        /\ A = [k \in 1..Len(parts) |-> RebuiltOne(parts[k])]
    BY RebuiltIs
  <1>2. i \in 1..Len(parts) /\ parts[i] \in Part
    OBVIOUS
  <1> HIDE DEF mail
  <1>3. a = RebuiltOne(parts[i]) /\ i \in DOMAIN A
    BY <1>1, <1>2
  <1>4. IsInline(parts[i])
    BY DEF IsInline
  <1>5. a \in Attachment /\ a.id = parts[i].id /\ a.cid = parts[i].cid /\ a.inline
    BY <1>2, <1>3, <1>4, RebuiltOneIs
  <1>6. a \in ToSet(InlineOnes(A))
    <2>1. a \in ToSet(A)
      BY <1>3 DEF ToSet
    <2>2. ToSet(InlineOnes(A)) = {x \in ToSet(A) : x.inline}
      BY <1>1, OnesTyped
    <2>3. QED
      BY <1>5, <2>1, <2>2
  <1>7. /\ o \in Seq(Containers) /\ leaves \in Seq(Found)
        /\ Place(a, w) \in ToSet(leaves)
    <2> HIDE DEF a
    <2>1. QED
      BY <1>1, <1>6, MailSet
  <1>8. w = Append(o, "related")
    <2>1. InlineOnes(A) # <<>>
      <3>1. ToSet(<<>>) = {}
        BY DEF ToSet
      <3>2. QED
        BY <1>6, <3>1
    <2>2. QED
      BY <2>1 DEF InRelated
  <1>9. Last(w) = "related"
    BY <1>7, <1>8, Bodies, AppendEnds
  <1> HIDE DEF a, w, leaves
  <1>10. l.part = a /\ l.within = w
    BY BodiesDiffer
  <1>11. l.part \notin {TextBody, HtmlBody}
    BY <1>5, <1>10, BodiesDiffer
  <1>12. l \in ToSet(Attachments(leaves))
    <2> HIDE DEF l
    <2>1. QED
      BY <1>7, <1>11, AttachmentsFound DEF l
  <1>13. leaves = Parse(rewrite_body_for_forward(parts))
    BY DEF leaves, mail, rewrite_body_for_forward
  <1>14. l.part.id = parts[i].id /\ l.part.cid = parts[i].cid /\ Last(l.within) = "related"
    BY <1>5, <1>9, <1>10
  <1> HIDE DEF l
  <1>15. QED
    BY <1>12, <1>13, <1>14

(* The row that extract_full_metadata makes of a part. *)
RowOf(part, i) ==
  [id |-> part.id, part_index |-> i - 1, cid |-> part.cid, is_inline |-> IsInline(part),
   type |-> part.type]

(* The first part with a Content-ID is served under it when it is an image. *)
LEMMA EmbeddedServed ==
  ASSUME NEW parts \in Seq(Part), NEW i \in DOMAIN parts, parts[i].cid # "none",
         IsImage(parts[i].type), \A j \in 1..(i - 1) : parts[j].cid # parts[i].cid
  PROVE  inline_image_handler(parts, parts[i].cid) = parts[i].id
  <1> DEFINE recorded == extract_full_metadata(parts)
             c == parts[i].cid
             S == {r \in ToSet(recorded) : r.cid = c /\ r.is_inline}
             found == Keep(recorded, S)
             T == ToSet(recorded)
  <1>1. DOMAIN parts = 1..Len(parts) /\ Len(parts) \in Nat /\ i \in 1..Len(parts) /\ i \in Nat
    OBVIOUS
  <1>2. recorded = [k \in 1..Len(parts) |-> RowOf(parts[k], k)]
    BY <1>1 DEF extract_full_metadata, RowOf
  <1> HIDE DEF recorded
  <1>3. DOMAIN recorded = 1..Len(parts) /\ \A k \in 1..Len(parts) : recorded[k] = RowOf(parts[k], k)
    BY <1>2
  <1>4. recorded \in Seq(T) /\ Len(recorded) = Len(parts)
    <2>1. \A k \in 1..Len(parts) : recorded[k] \in T
      BY <1>3 DEF ToSet
    <2> HIDE DEF T
    <2>2. recorded \in [1..Len(parts) -> T]
      BY <1>2, <2>1
    <2>3. QED
      BY <1>1, <2>2
  <1>5. \A k \in 1..Len(parts) :
          recorded[k].cid = parts[k].cid /\ recorded[k].is_inline = IsInline(parts[k])
          /\ recorded[k].type = parts[k].type /\ recorded[k].part_index = k - 1
    BY <1>3 DEF RowOf
  <1>6. recorded[i] \in S
    <2>1. IsInline(parts[i])
      BY DEF IsInline
    <2>2. recorded[i] \in T
      BY <1>1, <1>3 DEF ToSet
    <2>3. QED
      BY <1>1, <1>5, <2>1, <2>2
  <1>7. \A r \in S : r.cid = c
    OBVIOUS
  <1> HIDE DEF S, T
  <1>8. found \in Seq(T \cap S)
    BY <1>4, KeepIndexed
  <1>9. PICK h : IsKeepIndex(h, recorded, S)
    BY <1>4, KeepIndexed
  <1>10. /\ h \in [1..Len(found) -> 1..Len(recorded)]
         /\ \A k \in 1..Len(found) : found[k] = recorded[h[k]] /\ recorded[h[k]] \in S
         /\ \A k, m \in 1..Len(found) : k < m => h[k] < h[m]
         /\ \A j \in 1..Len(recorded) : recorded[j] \in S => \E k \in 1..Len(found) : h[k] = j
    BY <1>9 DEF IsKeepIndex
  <1>11. Len(found) \in Nat
    BY <1>8
  <1> HIDE DEF found
  <1>12. PICK k \in 1..Len(found) : h[k] = i
    BY <1>1, <1>4, <1>6, <1>10
  <1>13. 1 \in 1..Len(found)
    BY <1>11, <1>12
  <1>14. h[1] = i
    <2>1. h[1] \in 1..Len(parts) /\ h[1] <= i
      <3>1. h[1] \in 1..Len(recorded)
        BY <1>10, <1>13
      <3>2. 1 < k => h[1] < h[k]
        BY <1>10, <1>12, <1>13
      <3>3. k = 1 \/ 1 < k
        BY <1>11, <1>12
      <3>4. QED
        BY <1>1, <1>4, <1>12, <3>1, <3>2, <3>3
    <2>2. parts[h[1]].cid = c
      BY <1>4, <1>5, <1>7, <1>10, <1>13, <2>1
    <2>3. QED
      BY <1>1, <2>1, <2>2
  <1>15. found[1] = recorded[i]
    BY <1>10, <1>13, <1>14
  <1>16. IsImage(found[1].type) /\ found[1].part_index + 1 = i
    BY <1>1, <1>5, <1>15
  <1>17. found # <<>>
    <2>1. Len(found) # 0
      BY <1>11, <1>13
    <2>2. QED
      BY <2>1
  <1>18. inline_image_handler(parts, c) = parts[found[1].part_index + 1].id
    BY <1>16, <1>17 DEF inline_image_handler, found, S, recorded
  <1>19. QED
    BY <1>16, <1>18

-----------------------------------------------------------------------------
(* Uploads (Mime) *)

(* No chunks have no size. *)
LEMMA TotalEmpty == Total(<<>>) = 0
  BY FoldEmpty DEF Total

(* A chunk more adds its size. *)
LEMMA TotalAppend ==
  /\ \A s \in Seq(Nat) : Total(s) \in Nat
  /\ \A s \in Seq(Nat), n \in Nat : Total(Append(s, n)) = Total(s) + n
  <1> DEFINE add == [q \in Nat \X Nat |-> q[1] + q[2]]
             G == {s \in Seq(Nat) : Total(s) \in Nat}
  <1>1. \A a, b \in Nat : add[<<a, b>>] = a + b
    OBVIOUS
  <1>2. \A s : Total(s) = Fold(add, 0, s)
    BY DEF Total
  <1> HIDE DEF add
  <1>3. ASSUME NEW s \in Seq(Nat), NEW n \in Nat, Total(s) \in Nat
        PROVE  Total(Append(s, n)) = Total(s) + n
    <2>1. Fold(add, 0, Append(s, n)) = add[<<Fold(add, 0, s), n>>]
      BY FoldAppend
    <2>2. Total(Append(s, n)) = add[<<Total(s), n>>]
      BY <1>2, <2>1
    <2>3. QED
      BY <1>1, <1>3, <2>2
  <1>4. <<>> \in G
    <2>1. <<>> \in Seq(Nat) /\ 0 \in Nat
      OBVIOUS
    <2>2. QED
      BY <2>1, TotalEmpty
  <1>5. ASSUME NEW s \in G, NEW n \in Nat PROVE Append(s, n) \in G
    <2>1. s \in Seq(Nat) /\ Total(s) \in Nat
      OBVIOUS
    <2>2. Total(Append(s, n)) = Total(s) + n
      BY <1>3, <2>1
    <2>3. Append(s, n) \in Seq(Nat)
      BY <2>1
    <2>4. QED
      BY <2>1, <2>2, <2>3
  <1>6. G \in SUBSET Seq(Nat)
    OBVIOUS
  <1> HIDE DEF G
  <1>7. G = Seq(Nat)
    BY <1>4, <1>5, <1>6, SeqInduction
  <1>8. \A s \in Seq(Nat) : Total(s) \in Nat
    BY <1>7 DEF G
  <1>9. QED
    BY <1>3, <1>8

(* A field that is over the limit when a part of it has been read is over it at the end. *)
LEMMA TotalPrefix ==
  \A c \in Seq(Nat) : \A k \in 1..Len(c) : Total(SubSeq(c, 1, k)) <= Total(c)
  <1> DEFINE G == {c \in Seq(Nat) : \A k \in 1..Len(c) : Total(SubSeq(c, 1, k)) <= Total(c)}
  <1>1. <<>> \in G
    OBVIOUS
  <1>2. ASSUME NEW c \in G, NEW n \in Nat PROVE Append(c, n) \in G
    <2> DEFINE d == Append(c, n)
               l == Len(c)
    <2>1. /\ c \in Seq(Nat) /\ d \in Seq(Nat) /\ Len(d) = l + 1 /\ l \in Nat
          /\ \A i \in 1..l : d[i] = c[i]
      OBVIOUS
    <2>2. Total(d) = Total(c) + n /\ Total(c) \in Nat
      BY <2>1, TotalAppend
    <2> HIDE DEF d
    <2>3. ASSUME NEW k \in 1..(l + 1) PROVE Total(SubSeq(d, 1, k)) <= Total(d)
      <3>1. CASE k = l + 1
        <4>1. SubSeq(d, 1, Len(d)) = d
          BY <2>1, SubSeqFull
        <4>2. SubSeq(d, 1, k) = d
          BY <2>1, <3>1, <4>1
        <4>3. Total(d) <= Total(d)
          BY <2>2
        <4>4. QED
          BY <4>2, <4>3
      <3>2. CASE k \in 1..l
        <4> DEFINE u == SubSeq(d, 1, k)
                   v == SubSeq(c, 1, k)
        <4>1. \A i \in 1..k : d[i] \in Nat /\ c[i] \in Nat /\ d[i] = c[i]
          <5>1. \A i \in 1..k : i \in 1..l
            BY <2>1, <3>2
          <5>2. \A i \in 1..l : c[i] \in Nat /\ d[i] = c[i]
            BY <2>1
          <5>3. QED
            BY <5>1, <5>2
        <4>2. /\ u \in Seq(Nat) /\ Len(u) = (IF 1 <= k THEN k - 1 + 1 ELSE 0)
              /\ \A i \in 1..(k - 1 + 1) : u[i] = d[1 + i - 1]
          BY <3>2, <4>1, SubSeqProperties
        <4>3. /\ v \in Seq(Nat) /\ Len(v) = (IF 1 <= k THEN k - 1 + 1 ELSE 0)
              /\ \A i \in 1..(k - 1 + 1) : v[i] = c[1 + i - 1]
          BY <3>2, <4>1, SubSeqProperties
        <4> HIDE DEF u, v
        <4>4. Len(u) = k /\ Len(v) = k
          BY <3>2, <4>2, <4>3
        <4>5. \A i \in 1..k : u[i] = v[i]
          <5>1. k - 1 + 1 = k /\ \A i \in 1..k : 1 + i - 1 = i
            BY <3>2
          <5>2. \A i \in 1..k : u[i] = d[i] /\ v[i] = c[i]
            BY <4>2, <4>3, <5>1
          <5>3. QED
            BY <4>1, <5>2
        <4>6. u = v
          BY <4>2, <4>3, <4>4, <4>5, SeqEqual
        <4>7. Total(v) <= Total(c)
          BY <3>2 DEF v
        <4>8. Total(v) \in Nat
          BY <4>3, TotalAppend
        <4>9. Total(u) <= Total(d)
          BY <2>2, <4>6, <4>7, <4>8
        <4>10. QED
          BY <4>9 DEF u
      <3>3. QED
        BY <2>1, <3>1, <3>2
    <2>4. QED
      BY <2>1, <2>3 DEF d
  <1>3. G \in SUBSET Seq(Nat)
    OBVIOUS
  <1> HIDE DEF G
  <1>4. G = Seq(Nat)
    BY <1>1, <1>2, <1>3, SeqInduction
  <1>5. QED
    BY <1>4 DEF G

(* What is kept depends only on which of the elements are wanted. *)
LEMMA KeepSame ==
  ASSUME NEW T, NEW S, NEW R, \A x \in T : x \in S <=> x \in R
  PROVE  \A s \in Seq(T) : Keep(s, S) = Keep(s, R)
  <1> DEFINE G == {s \in Seq(T) : Keep(s, S) = Keep(s, R)}
  <1>1. <<>> \in G
    <2>1. <<>> \in Seq(T)
      OBVIOUS
    <2>2. QED
      BY <2>1, KeepEmpty
  <1>2. ASSUME NEW s \in G, NEW x \in T PROVE Append(s, x) \in G
    <2>1. s \in Seq(T) /\ Keep(s, S) = Keep(s, R) /\ Append(s, x) \in Seq(T)
      OBVIOUS
    <2>2. /\ Keep(Append(s, x), S) = (IF x \in S THEN Append(Keep(s, S), x) ELSE Keep(s, S))
          /\ Keep(Append(s, x), R) = (IF x \in R THEN Append(Keep(s, R), x) ELSE Keep(s, R))
      BY <2>1, KeepAppend
    <2>3. QED
      BY <2>1, <2>2
  <1>3. G \in SUBSET Seq(T)
    OBVIOUS
  <1> HIDE DEF G
  <1>4. G = Seq(T)
    BY <1>1, <1>2, <1>3, SeqInduction
  <1>5. QED
    BY <1>4 DEF G

(* When none of the first and all of the others are wanted, the others are kept. *)
LEMMA KeepTail ==
  ASSUME NEW T, NEW S, NEW s \in Seq(T), ToSet(s) \cap S = {}
  PROVE  \A t \in Seq(T \cap S) : Keep(s \o t, S) = t
  <1> DEFINE U == T \cap S
             G == {t \in Seq(U) : Keep(s \o t, S) = t}
  <1>1. Keep(s, S) = <<>>
    <2> DEFINE q == Keep(s, S)
    <2>1. q \in Seq(T) /\ ToSet(q) = {}
      BY KeepRange
    <2> HIDE DEF q
    <2>2. Len(q) \in Nat /\ DOMAIN q = 1..Len(q)
      BY <2>1
    <2>3. Len(q) = 0
      <3>1. SUFFICES ASSUME Len(q) # 0 PROVE FALSE
        OBVIOUS
      <3>2. 1 \in DOMAIN q
        BY <2>2, <3>1
      <3>3. q[1] \in ToSet(q)
        BY <3>2 DEF ToSet
      <3>4. QED
        BY <2>1, <3>3
    <2>4. q = <<>>
      BY <2>1, <2>3
    <2>5. QED
      BY <2>4 DEF q
  <1>2. <<>> \in G
    <2>1. s \o <<>> = s
      BY ConcatEmptySeq
    <2>2. <<>> \in Seq(U)
      OBVIOUS
    <2>3. QED
      BY <1>1, <2>1, <2>2
  <1>3. ASSUME NEW t \in G, NEW x \in U PROVE Append(t, x) \in G
    <2>1. t \in Seq(U) /\ Keep(s \o t, S) = t /\ x \in T /\ x \in S /\ U \subseteq T
      OBVIOUS
    <2> HIDE DEF U
    <2>2. t \in Seq(T)
      BY <2>1
    <2> DEFINE st == s \o t
    <2>3. st \in Seq(T) /\ s \o Append(t, x) = Append(st, x)
      BY <2>1, <2>2
    <2>4. Append(t, x) \in Seq(U)
      BY <2>1
    <2> HIDE DEF st
    <2>5. Keep(Append(st, x), S) = (IF x \in S THEN Append(Keep(st, S), x) ELSE Keep(st, S))
      BY <2>1, <2>3, KeepAppend
    <2>6. Keep(s \o Append(t, x), S) = Append(t, x)
      BY <2>1, <2>3, <2>5 DEF st
    <2>7. QED
      BY <2>4, <2>6
  <1>4. G \in SUBSET Seq(U)
    OBVIOUS
  <1> HIDE DEF G
  <1>5. G = Seq(U)
    BY <1>2, <1>3, <1>4, SeqInduction
  <1>6. QED
    BY <1>5 DEF G

(* A function done to every element. *)
Each(g, s) == [i \in DOMAIN s |-> g[s[i]]]

(* It is a sequence of the same length, and one element more at the end of one is one
   more at the end of the other. *)
LEMMA EachIs ==
  ASSUME NEW T, NEW g
  PROVE  /\ \A s \in Seq(T) : /\ Each(g, s) \in Seq({g[x] : x \in T})
                               /\ Len(Each(g, s)) = Len(s)
                               /\ \A i \in 1..Len(s) : Each(g, s)[i] = g[s[i]]
         /\ \A s \in Seq(T) : \A x \in T : Each(g, Append(s, x)) = Append(Each(g, s), g[x])
  <1> DEFINE U == {g[x] : x \in T}
  <1>0. \A x \in T : g[x] \in U
    OBVIOUS
  <1> HIDE DEF U
  <1>1. \A s \in Seq(T) : /\ Each(g, s) \in Seq(U) /\ Len(Each(g, s)) = Len(s)
                           /\ \A i \in 1..Len(s) : Each(g, s)[i] = g[s[i]]
    <2>1. SUFFICES ASSUME NEW s \in Seq(T)
                   PROVE  /\ Each(g, s) \in Seq(U) /\ Len(Each(g, s)) = Len(s)
                          /\ \A i \in 1..Len(s) : Each(g, s)[i] = g[s[i]]
      OBVIOUS
    <2> DEFINE n == Len(s)
               e == Each(g, s)
    <2>2. n \in Nat /\ DOMAIN s = 1..n /\ \A i \in 1..n : s[i] \in T
      OBVIOUS
    <2>3. e = [i \in 1..n |-> g[s[i]]]
      BY <2>2 DEF Each
    <2>4. e \in [1..n -> U]
      BY <1>0, <2>2, <2>3
    <2> HIDE DEF e
    <2>5. e \in Seq(U) /\ Len(e) = n
      BY <2>2, <2>4
    <2>6. \A i \in 1..n : e[i] = g[s[i]]
      BY <2>3
    <2>7. QED
      BY <2>5, <2>6 DEF e
  <1>2. \A s \in Seq(T) : \A x \in T : Each(g, Append(s, x)) = Append(Each(g, s), g[x])
    <2>0. SUFFICES ASSUME NEW s \in Seq(T), NEW x \in T
                   PROVE  Each(g, Append(s, x)) = Append(Each(g, s), g[x])
      OBVIOUS
    <2> DEFINE n == Len(s)
               more == Append(s, x)
               old == Each(g, s)
               new == Each(g, more)
               y == g[x]
               added == Append(old, y)
    <2>1. /\ n \in Nat /\ more \in Seq(T) /\ Len(more) = n + 1 /\ more[n + 1] = x
          /\ \A i \in 1..n : more[i] = s[i]
      OBVIOUS
    <2>2. y \in U
      BY <1>0
    <2>3. old \in Seq(U) /\ Len(old) = n /\ \A i \in 1..n : old[i] = g[s[i]]
      BY <1>1
    <2> HIDE DEF more
    <2>4. new \in Seq(U) /\ Len(new) = Len(more) /\ \A i \in 1..Len(more) : new[i] = g[more[i]]
      BY <2>1, <1>1
    <2> HIDE DEF old, new, n, y
    <2>5. /\ added \in Seq(U) /\ Len(added) = n + 1 /\ added[n + 1] = y
          /\ \A i \in 1..n : added[i] = old[i]
      BY <2>2, <2>3
    <2> HIDE DEF added
    <2>6. \A i \in 1..(n + 1) : new[i] = added[i]
      <3>1. new[n + 1] = y
        BY <2>1, <2>4 DEF y
      <3>2. \A i \in 1..n : new[i] = added[i]
        <4>1. \A i \in 1..n : i \in 1..Len(more)
          BY <2>1
        <4>2. QED
          BY <2>1, <2>3, <2>4, <2>5, <4>1
      <3>3. \A i \in 1..(n + 1) : i \in 1..n \/ i = n + 1
        BY <2>1
      <3>4. QED
        BY <2>5, <3>1, <3>2, <3>3
    <2>7. new = added
      BY <2>1, <2>4, <2>5, <2>6, SeqEqual
    <2>8. QED
      BY <2>7 DEF new, added, old, more, y
  <1>3. QED
    BY <1>1, <1>2 DEF U

(* Nothing is done to nothing. *)
LEMMA EachEmpty ==
  ASSUME NEW g
  PROVE  Each(g, <<>>) = <<>>
  BY DEF Each

(* The attachments beside the body. *)
Plain == {a \in Attachment : ~a.inline}

(* The size of a field. *)
SizeOf == [f \in Field |-> Total(f.chunks)]

(* The attachment made of a field. *)
MadeOf == [f \in Field |-> NewAttachment(f, Total(f.chunks))]

(* The fields that are not empty. *)
FilesOf(fields) == Keep(fields, {f \in Field : Total(f.chunks) > 0})

(* The files are within the limits of the form. *)
IsWithin(files) ==
  /\ Len(files) <= MAX_ATTACHMENTS
  /\ \A i \in DOMAIN files : Total(files[i].chunks) <= MAX_ATTACHMENT_BYTES
  /\ Total(Each(SizeOf, files)) <= MAX_TOTAL_ATTACHMENT_BYTES

(* The size of a field is the sum of its chunks. *)
LEMMA FieldSizes ==
  ASSUME NEW f \in Field
  PROVE  /\ f.chunks \in Seq(Nat) /\ f.id \in Nat /\ Total(f.chunks) \in Nat
         /\ SizeOf[f] = Total(f.chunks)
  <1>1. f.chunks \in Seq(Nat) /\ f.id \in Nat
    BY DEF Field
  <1>2. Total(f.chunks) \in Nat
    BY <1>1, TotalAppend
  <1>3. QED
    BY <1>1, <1>2 DEF SizeOf

(* The attachment made of a field has its id and size and is not inline. *)
LEMMA FieldMade ==
  ASSUME NEW f \in Field
  PROVE  LET a == MadeOf[f]
         IN  /\ a = NewAttachment(f, Total(f.chunks)) /\ a \in Plain /\ a \in Attachment
             /\ a.id = f.id /\ a.size = Total(f.chunks)
  <1> DEFINE n == Total(f.chunks)
             no == FALSE
             c == "none"
             t == AnyType
             a == [id |-> f.id, inline |-> no, cid |-> c, type |-> t, size |-> n]
  <1>1. f.id \in Nat /\ n \in Nat
    BY FieldSizes
  <1>2. c \in ContentIds
    BY MimeAssumption
  <1>3. t \in Types
    BY MimeAssumption DEF AnyType, Types
  <1>4. no \in BOOLEAN /\ no = FALSE
    OBVIOUS
  <1> HIDE DEF no, c, t, n
  <1>5. a \in Attachment /\ a.inline = no /\ a.id = f.id /\ a.size = n
    BY <1>1, <1>2, <1>3, <1>4 DEF Attachment
  <1>6. MadeOf[f] = a
    BY DEF MadeOf, NewAttachment, no, c, t, n
  <1>7. MadeOf[f] = NewAttachment(f, n)
    BY DEF MadeOf, n
  <1> HIDE DEF a
  <1>8. QED
    BY <1>4, <1>5, <1>6, <1>7 DEF Plain, n

(* Read to the end or not: a field is refused exactly when all of it is too large. *)
LEMMA ChunksFit ==
  ASSUME NEW c \in Seq(Nat)
  PROVE  (\A k \in DOMAIN c : Total(SubSeq(c, 1, k)) <= MAX_ATTACHMENT_BYTES)
           <=> Total(c) <= MAX_ATTACHMENT_BYTES
  <1>1. Len(c) \in Nat /\ DOMAIN c = 1..Len(c) /\ Total(c) \in Nat
    BY TotalAppend
  <1>2. ASSUME Total(c) <= MAX_ATTACHMENT_BYTES, NEW k \in 1..Len(c)
        PROVE  Total(SubSeq(c, 1, k)) <= MAX_ATTACHMENT_BYTES
    <2> DEFINE v == SubSeq(c, 1, k)
    <2>1. Total(v) <= Total(c)
      BY TotalPrefix
    <2>2. v \in Seq(Nat)
      <3>1. \A i \in 1..k : c[i] \in Nat
        BY <1>1
      <3>2. QED
        BY <3>1, SubSeqProperties
    <2> HIDE DEF v
    <2>3. Total(v) \in Nat
      BY <2>2, TotalAppend
    <2>4. Total(v) <= MAX_ATTACHMENT_BYTES
      BY <1>1, <1>2, <2>1, <2>3, MimeAssumption
    <2>5. QED
      BY <2>4 DEF v
  <1>3. ASSUME \A k \in DOMAIN c : Total(SubSeq(c, 1, k)) <= MAX_ATTACHMENT_BYTES
        PROVE  Total(c) <= MAX_ATTACHMENT_BYTES
    <2>1. CASE Len(c) = 0
      <3>1. c = <<>>
        BY <2>1
      <3>2. QED
        BY <3>1, TotalEmpty, MimeAssumption
    <2>2. CASE Len(c) # 0
      <3>1. Len(c) \in DOMAIN c
        BY <1>1, <2>2
      <3>2. SubSeq(c, 1, Len(c)) = c
        BY SubSeqFull
      <3>3. Total(SubSeq(c, 1, Len(c))) <= MAX_ATTACHMENT_BYTES
        BY <1>3, <3>1
      <3>4. QED
        BY <3>2, <3>3
    <2>3. QED
      BY <2>1, <2>2
  <1>4. QED
    BY <1>1, <1>2, <1>3

(* The attachments made of files have their ids, and all of their bytes. *)
LEMMA MadeBytes ==
  ASSUME NEW files \in Seq(Field)
  PROVE  LET made == Each(MadeOf, files)
             sizes == Each(SizeOf, files)
         IN  /\ made \in Seq(Attachment) /\ made \in Seq(Plain) /\ Len(made) = Len(files)
             /\ sizes \in Seq(Nat) /\ Len(sizes) = Len(files) /\ Total(sizes) \in Nat
             /\ Bytes(made) = Total(sizes)
             /\ \A i \in 1..Len(files) : made[i].id = files[i].id
  <1> DEFINE made == Each(MadeOf, files)
             sizes == Each(SizeOf, files)
  <1>1. MadeOf \in [Field -> Attachment] /\ MadeOf \in [Field -> Plain]
    <2>1. MadeOf = [f \in Field |-> MadeOf[f]]
      BY DEF MadeOf
    <2>2. \A f \in Field : MadeOf[f] \in Attachment /\ MadeOf[f] \in Plain
      BY FieldMade
    <2>3. QED
      BY <2>1, <2>2
  <1>2. SizeOf \in [Field -> Nat]
    BY FieldSizes DEF SizeOf
  <1>3. /\ DOMAIN files = 1..Len(files) /\ Len(files) \in Nat
        /\ \A i \in 1..Len(files) : files[i] \in Field
    OBVIOUS
  <1>4. DOMAIN made = 1..Len(files) /\ \A i \in 1..Len(files) : made[i] = MadeOf[files[i]]
    BY <1>3 DEF Each
  <1>5. DOMAIN sizes = 1..Len(files) /\ \A i \in 1..Len(files) : sizes[i] = SizeOf[files[i]]
    BY <1>3 DEF Each
  <1>6. made \in [1..Len(files) -> Attachment] /\ made \in [1..Len(files) -> Plain]
    <2>1. made = [i \in 1..Len(files) |-> MadeOf[files[i]]]
      BY <1>3 DEF Each
    <2>2. QED
      BY <1>1, <1>3, <2>1
  <1>7. sizes \in [1..Len(files) -> Nat]
    <2>1. sizes = [i \in 1..Len(files) |-> SizeOf[files[i]]]
      BY <1>3 DEF Each
    <2>2. QED
      BY <1>2, <1>3, <2>1
  <1> HIDE DEF made, sizes
  <1>8. made \in Seq(Attachment) /\ made \in Seq(Plain) /\ Len(made) = Len(files)
    BY <1>3, <1>6
  <1>9. sizes \in Seq(Nat) /\ Len(sizes) = Len(files)
    BY <1>3, <1>7
  <1>10. \A i \in 1..Len(files) : made[i].id = files[i].id /\ made[i].size = SizeOf[files[i]]
    BY <1>3, <1>4, FieldMade, FieldSizes
  <1>11. [i \in DOMAIN made |-> made[i].size] = sizes
    <2>1. sizes = [i \in 1..Len(files) |-> sizes[i]]
      BY <1>7
    <2>2. QED
      BY <1>4, <1>5, <1>10, <2>1
  <1>12. Bytes(made) = Total(sizes)
    BY <1>11 DEF Bytes
  <1>13. Total(sizes) \in Nat
    BY <1>9, TotalAppend
  <1>14. QED
    BY <1>8, <1>9, <1>10, <1>12, <1>13 DEF made, sizes

(* No files are within the limits. *)
LEMMA NoneWithin == IsWithin(<<>>)
  <1>1. Each(SizeOf, <<>>) = <<>> /\ Total(<<>>) = 0
    BY EachEmpty, TotalEmpty
  <1>2. Len(<<>>) = 0 /\ DOMAIN <<>> = {}
    OBVIOUS
  <1>3. QED
    BY <1>1, <1>2, MimeAssumption DEF IsWithin

(* A file more is within the limits when the rest was and check_attachment_limits says so. *)
LEMMA WithinMore ==
  ASSUME NEW files \in Seq(Field), NEW f \in Field
  PROVE  IsWithin(Append(files, f))
           <=> /\ IsWithin(files)
               /\ check_attachment_limits(Len(files), Total(Each(SizeOf, files)), Total(f.chunks))
  <1> DEFINE more == Append(files, f)
             n == Len(files)
             old == Total(Each(SizeOf, files))
             new == Total(Each(SizeOf, more))
             size == Total(f.chunks)
  <1>1. /\ n \in Nat /\ DOMAIN files = 1..n /\ more \in Seq(Field) /\ Len(more) = n + 1
        /\ more[n + 1] = f /\ DOMAIN more = 1..(n + 1) /\ \A i \in 1..n : more[i] = files[i]
    OBVIOUS
  <1>2. SizeOf \in [Field -> Nat] /\ SizeOf[f] = size /\ size \in Nat
    BY FieldSizes DEF SizeOf
  <1>3. Each(SizeOf, more) = Append(Each(SizeOf, files), size) /\ Each(SizeOf, files) \in Seq(Nat)
    <2>1. \A g \in Field : SizeOf[g] \in Nat
      BY FieldSizes
    <2>2. Each(SizeOf, Append(files, f)) = Append(Each(SizeOf, files), SizeOf[f])
      BY EachIs
    <2>3. Each(SizeOf, files) \in Seq(Nat)
      BY MadeBytes
    <2>4. QED
      BY <1>2, <2>2, <2>3
  <1>4. new = old + size /\ old \in Nat
    <2> DEFINE e == Each(SizeOf, files)
    <2> HIDE DEF e
    <2>1. Total(Append(e, size)) = Total(e) + size /\ Total(e) \in Nat
      BY <1>2, <1>3, TotalAppend DEF e
    <2>2. QED
      BY <1>3, <2>1 DEF e
  <1> HIDE DEF more, n, old, new, size
  <1>5. (\A i \in DOMAIN more : Total(more[i].chunks) <= MAX_ATTACHMENT_BYTES)
          <=> /\ \A i \in DOMAIN files : Total(files[i].chunks) <= MAX_ATTACHMENT_BYTES
              /\ size <= MAX_ATTACHMENT_BYTES
    <2>1. ASSUME \A i \in DOMAIN more : Total(more[i].chunks) <= MAX_ATTACHMENT_BYTES
          PROVE  /\ \A i \in DOMAIN files : Total(files[i].chunks) <= MAX_ATTACHMENT_BYTES
                 /\ size <= MAX_ATTACHMENT_BYTES
      <3>1. n + 1 \in DOMAIN more /\ \A i \in DOMAIN files : i \in DOMAIN more
        BY <1>1
      <3>2. Total(more[n + 1].chunks) = size
        BY <1>1 DEF size
      <3>3. QED
        BY <1>1, <2>1, <3>1, <3>2
    <2>2. ASSUME \A i \in DOMAIN files : Total(files[i].chunks) <= MAX_ATTACHMENT_BYTES,
                 size <= MAX_ATTACHMENT_BYTES, NEW i \in DOMAIN more
          PROVE  Total(more[i].chunks) <= MAX_ATTACHMENT_BYTES
      <3>1. CASE i = n + 1
        BY <1>1, <2>2, <3>1 DEF size
      <3>2. CASE i \in DOMAIN files
        BY <1>1, <2>2, <3>2
      <3>3. QED
        BY <1>1, <3>1, <3>2
    <2>3. QED
      BY <2>1, <2>2
  <1>6. IsWithin(more) <=> /\ n + 1 <= MAX_ATTACHMENTS
                           /\ \A i \in DOMAIN more : Total(more[i].chunks) <= MAX_ATTACHMENT_BYTES
                           /\ new <= MAX_TOTAL_ATTACHMENT_BYTES
    BY <1>1 DEF IsWithin, new
  <1>7. IsWithin(files)
          <=> /\ n <= MAX_ATTACHMENTS
              /\ \A i \in DOMAIN files : Total(files[i].chunks) <= MAX_ATTACHMENT_BYTES
              /\ old <= MAX_TOTAL_ATTACHMENT_BYTES
    BY DEF IsWithin, old, n
  <1>8. check_attachment_limits(n, old, size)
          <=> /\ size <= MAX_ATTACHMENT_BYTES /\ n + 1 <= MAX_ATTACHMENTS
              /\ old + size <= MAX_TOTAL_ATTACHMENT_BYTES
    BY DEF check_attachment_limits
  <1>9. /\ n + 1 <= MAX_ATTACHMENTS => n <= MAX_ATTACHMENTS
        /\ old + size <= MAX_TOTAL_ATTACHMENT_BYTES => old <= MAX_TOTAL_ATTACHMENT_BYTES
    BY <1>1, <1>2, <1>4, MimeAssumption
  <1>10. IsWithin(more) <=> IsWithin(files) /\ check_attachment_limits(n, old, size)
    BY <1>4, <1>5, <1>6, <1>7, <1>8, <1>9
  <1>11. QED
    BY <1>10 DEF more, n, old, size

(* What has been read of a form: the files that were not empty, unless it was refused. *)
FormIs(r, files) ==
  /\ r \in Form
  /\ r.error <=> ~IsWithin(files)
  /\ IsWithin(files) => r.attachments = Each(MadeOf, files)

(* The form with a field of it changed. *)
LEMMA FormUpdates ==
  ASSUME NEW r \in Form, NEW A \in Seq(Attachment), NEW e \in BOOLEAN
  PROVE  /\ r.error \in BOOLEAN /\ r.attachments \in Seq(Attachment)
         /\ [r EXCEPT !.error = e] \in Form /\ [r EXCEPT !.error = e].error = e
         /\ [r EXCEPT !.error = e].attachments = r.attachments
         /\ [r EXCEPT !.attachments = A] \in Form
         /\ [r EXCEPT !.attachments = A].attachments = A
         /\ [r EXCEPT !.attachments = A].error = r.error
  BY DEF Form

(* One field more is read. *)
LEMMA ReadOne ==
  ASSUME NEW r, NEW files \in Seq(Field), FormIs(r, files), NEW f \in Field
  PROVE  FormIs(ReadField(r, f), IF Total(f.chunks) > 0 THEN Append(files, f) ELSE files)
  <1> DEFINE size == Total(f.chunks)
             c == f.chunks
             small == \A k \in DOMAIN c : Total(SubSeq(c, 1, k)) <= MAX_ATTACHMENT_BYTES
             lim == check_attachment_limits(Len(r.attachments), Bytes(r.attachments), size)
             x == NewAttachment(f, size)
             s == ReadField(r, f)
             old == IsWithin(files)
  <1>1. /\ r \in Form /\ (r.error <=> ~old) /\ r.error \in BOOLEAN
        /\ r.attachments \in Seq(Attachment)
        /\ old => r.attachments = Each(MadeOf, files)
    BY DEF FormIs, Form
  <1>2. c \in Seq(Nat) /\ size \in Nat
    BY FieldSizes
  <1>3. small <=> size <= MAX_ATTACHMENT_BYTES
    BY <1>2, ChunksFit
  <1>4. x \in Attachment /\ x = MadeOf[f]
    BY FieldMade
  <1>5. s = CASE r.error -> r
              [] ~r.error /\ ~(small /\ (size = 0 \/ lim)) -> [r EXCEPT !.error = TRUE]
              [] ~r.error /\ (small /\ (size = 0 \/ lim)) /\ size = 0 -> r
              [] ~r.error /\ (small /\ (size = 0 \/ lim)) /\ size > 0 ->
                   [r EXCEPT !.attachments = Append(r.attachments, x)]
    BY DEF ReadField
  <1> HIDE DEF small, lim, x, s, c
  <1>6. CASE size = 0
    <2>1. small
      BY <1>3, <1>6, MimeAssumption
    <2>2. s = r
      BY <1>1, <1>5, <1>6, <2>1
    <2>3. ~(size > 0)
      BY <1>6
    <2> HIDE DEF size
    <2>4. QED
      BY <2>2, <2>3 DEF s, size
  <1>7. CASE size # 0
    <2> DEFINE more == Append(files, f)
               new == IsWithin(more)
               limits == check_attachment_limits(Len(files), Total(Each(SizeOf, files)), size)
    <2>1. size > 0
      BY <1>2, <1>7
    <2>2. new <=> old /\ limits
      BY WithinMore
    <2>3. old => (lim <=> limits)
      <3>1. ASSUME old PROVE lim <=> limits
        <4>1. r.attachments = Each(MadeOf, files)
          BY <1>1, <3>1
        <4>2. /\ Len(Each(MadeOf, files)) = Len(files)
              /\ Bytes(Each(MadeOf, files)) = Total(Each(SizeOf, files))
          BY MadeBytes
        <4>3. QED
          BY <4>1, <4>2 DEF lim
      <3>2. QED
        BY <3>1
    <2>4. limits => size <= MAX_ATTACHMENT_BYTES
      BY DEF check_attachment_limits
    <2> HIDE DEF limits, new, old
    <2>5. CASE r.error
      <3>1. s = r
        BY <1>1, <1>5, <2>5
      <3>2. ~new
        BY <1>1, <2>2, <2>5
      <3>3. FormIs(r, more)
        BY <1>1, <2>5, <3>2 DEF FormIs, new
      <3>4. QED
        BY <2>1, <3>1, <3>3 DEF s
    <2>6. CASE ~r.error /\ ~(small /\ lim)
      <3> DEFINE yes == TRUE
      <3>1. s = [r EXCEPT !.error = TRUE]
        BY <1>1, <1>5, <1>7, <2>6
      <3>2. ~new
        BY <1>1, <1>3, <2>2, <2>3, <2>4, <2>6
      <3>3. s = [r EXCEPT !.error = yes] /\ yes \in BOOLEAN
        BY <3>1
      <3>4. yes
        OBVIOUS
      <3> HIDE DEF yes
      <3>5. s \in Form /\ s.error = yes
        BY <1>1, <3>3, FormUpdates
      <3>6. FormIs(s, more)
        BY <3>2, <3>4, <3>5 DEF FormIs, new
      <3>7. QED
        BY <2>1, <3>6 DEF s
    <2>7. CASE ~r.error /\ small /\ lim
      <3> DEFINE A == Append(r.attachments, x)
      <3>1. s = [r EXCEPT !.attachments = A]
        BY <1>1, <1>5, <1>7, <2>1, <2>7
      <3>2. old /\ new
        BY <1>1, <2>2, <2>3, <2>7
      <3>3. A \in Seq(Attachment)
        BY <1>1, <1>4
      <3>4. Each(MadeOf, more) = Append(Each(MadeOf, files), x)
        <4>1. \A g \in Field : MadeOf[g] \in Attachment
          BY FieldMade
        <4>2. Each(MadeOf, Append(files, f)) = Append(Each(MadeOf, files), MadeOf[f])
          BY EachIs
        <4>3. QED
          BY <1>4, <4>2
      <3>5. A = Each(MadeOf, more)
        BY <1>1, <3>2, <3>4
      <3> HIDE DEF A
      <3>6. s \in Form /\ s.attachments = A /\ s.error = r.error
        BY <1>1, <3>1, <3>3, FormUpdates
      <3>7. FormIs(s, more)
        BY <2>7, <3>2, <3>5, <3>6 DEF FormIs, new
      <3>8. QED
        BY <2>1, <3>7 DEF s
    <2>8. QED
      BY <1>1, <2>5, <2>6, <2>7
  <1>8. QED
    BY <1>6, <1>7

(* The form as it is read: refused exactly when the files are not within the limits. *)
LEMMA FormRead ==
  \A fields \in Seq(Field) : FormIs(read_multipart_fields(fields), FilesOf(fields))
  <1> DEFINE step == [q \in Form \X Field |-> ReadField(q[1], q[2])]
             start == [attachments |-> <<>>, error |-> FALSE]
             S == {f \in Field : Total(f.chunks) > 0}
             Good(fields) == FormIs(Fold(step, start, fields), Keep(fields, S))
             G == {fields \in Seq(Field) : Good(fields)}
  <1>1. Good(<<>>)
    <2>1. Fold(step, start, <<>>) = start /\ Keep(<<>>, S) = <<>>
      BY FoldEmpty, KeepEmpty
    <2>2. start \in Form /\ start.error = FALSE /\ start.attachments = <<>>
      <3>1. <<>> \in Seq(Attachment)
        OBVIOUS
      <3>2. QED
        BY <3>1 DEF Form
    <2>3. Each(MadeOf, <<>>) = <<>>
      BY EachEmpty
    <2> HIDE DEF start
    <2>4. FormIs(start, <<>>)
      BY <2>2, <2>3, NoneWithin DEF FormIs
    <2>5. QED
      BY <2>1, <2>4
  <1>2. ASSUME NEW fields \in Seq(Field), Good(fields), NEW f \in Field
        PROVE  Good(Append(fields, f))
    <2> DEFINE r == Fold(step, start, fields)
               files == Keep(fields, S)
    <2>1. FormIs(r, files)
      BY <1>2
    <2>2. files \in Seq(Field)
      BY KeepRange
    <2>3. Fold(step, start, Append(fields, f)) = step[<<r, f>>]
      <3> HIDE DEF step, start
      <3>1. QED
        BY FoldAppend
    <2>4. Keep(Append(fields, f), S) = (IF f \in S THEN Append(files, f) ELSE files)
      <3> HIDE DEF S
      <3>1. QED
        BY KeepAppend
    <2>5. f \in S <=> Total(f.chunks) > 0
      OBVIOUS
    <2> HIDE DEF r, files, S
    <2>6. r \in Form
      BY <2>1 DEF FormIs
    <2>7. step[<<r, f>>] = ReadField(r, f)
      BY <2>6
    <2> HIDE DEF step, start
    <2>8. FormIs(ReadField(r, f), IF Total(f.chunks) > 0 THEN Append(files, f) ELSE files)
      BY <2>1, <2>2, ReadOne
    <2>9. QED
      BY <2>3, <2>4, <2>5, <2>7, <2>8
  <1>3. <<>> \in G /\ G \in SUBSET Seq(Field)
    <2> HIDE DEF Good
    <2>1. <<>> \in Seq(Field)
      OBVIOUS
    <2>2. QED
      BY <1>1, <2>1
  <1>4. \A s \in G : \A x \in Field : Append(s, x) \in G
    <2> HIDE DEF Good
    <2>1. QED
      BY <1>2
  <1> HIDE DEF G
  <1>5. G = Seq(Field)
    BY <1>3, <1>4, SeqInduction
  <1>6. QED
    BY <1>5 DEF G, read_multipart_fields, FilesOf

(* Every attachment that the API decodes is beside the body. *)
LEMMA ApiDecoded ==
  \A fields \in Seq(Field) : decode_api_attachments(fields).attachments \in Seq(Plain)
  <1> DEFINE step == [q \in Form \X Field |-> DecodeOne(q[1], q[2])]
             start == [attachments |-> <<>>, error |-> FALSE]
             Good(fields) == LET r == Fold(step, start, fields)
                             IN  r \in Form /\ r.attachments \in Seq(Plain)
             G == {fields \in Seq(Field) : Good(fields)}
  <1>0. start \in Form /\ start.attachments = <<>> /\ <<>> \in Seq(Plain)
    <2>1. <<>> \in Seq(Attachment) /\ <<>> \in Seq(Plain)
      OBVIOUS
    <2>2. QED
      BY <2>1 DEF Form
  <1>1. Good(<<>>)
    <2> HIDE DEF start
    <2>1. Fold(step, start, <<>>) = start
      BY FoldEmpty
    <2>2. QED
      BY <1>0, <2>1
  <1>2. ASSUME NEW fields \in Seq(Field), Good(fields), NEW f \in Field
        PROVE  Good(Append(fields, f))
    <2> DEFINE r == Fold(step, start, fields)
               x == NewAttachment(f, Total(f.chunks))
               A == Append(r.attachments, x)
    <2>1. r \in Form /\ r.attachments \in Seq(Plain)
      BY <1>2
    <2>2. Fold(step, start, Append(fields, f)) = step[<<r, f>>]
      <3> HIDE DEF step, start
      <3>1. QED
        BY FoldAppend
    <2> HIDE DEF r
    <2>3. step[<<r, f>>] = DecodeOne(r, f)
      BY <2>1
    <2> HIDE DEF step, start
    <2>4. x \in Plain /\ x \in Attachment
      BY FieldMade
    <2>5. r.attachments \in Seq(Attachment)
      BY <2>1 DEF Form
    <2> HIDE DEF x
    <2>6. A \in Seq(Plain) /\ A \in Seq(Attachment)
      BY <2>1, <2>4, <2>5
    <2>7. \/ DecodeOne(r, f) = [r EXCEPT !.error = TRUE]
          \/ DecodeOne(r, f) = [r EXCEPT !.attachments = A]
      BY DEF DecodeOne, x
    <2> HIDE DEF A
    <2>8. /\ [r EXCEPT !.attachments = A] \in Form
          /\ [r EXCEPT !.attachments = A].attachments = A
      BY <2>1, <2>6 DEF Form
    <2>9. /\ [r EXCEPT !.error = TRUE] \in Form
          /\ [r EXCEPT !.error = TRUE].attachments = r.attachments
      <3> DEFINE yes == TRUE
      <3>1. yes \in BOOLEAN
        OBVIOUS
      <3> HIDE DEF yes
      <3>2. /\ [r EXCEPT !.error = yes] \in Form
            /\ [r EXCEPT !.error = yes].attachments = r.attachments
        BY <2>1, <2>6, <3>1, FormUpdates
      <3>3. QED
        BY <3>2 DEF yes
    <2>10. DecodeOne(r, f) \in Form /\ DecodeOne(r, f).attachments \in Seq(Plain)
      BY <2>1, <2>6, <2>7, <2>8, <2>9
    <2>11. QED
      BY <2>2, <2>3, <2>10
  <1>3. <<>> \in G /\ G \in SUBSET Seq(Field)
    <2> HIDE DEF Good
    <2>1. <<>> \in Seq(Field)
      OBVIOUS
    <2>2. QED
      BY <1>1, <2>1
  <1>4. \A s \in G : \A x \in Field : Append(s, x) \in G
    <2> HIDE DEF Good
    <2>1. QED
      BY <1>2
  <1> HIDE DEF G
  <1>5. G = Seq(Field)
    BY <1>3, <1>4, SeqInduction
  <1>6. ASSUME NEW fields \in Seq(Field)
        PROVE  decode_api_attachments(fields).attachments \in Seq(Plain)
    <2>1. Good(fields)
      BY <1>5 DEF G
    <2>2. CASE Len(fields) > MAX_ATTACHMENTS
      <3>1. decode_api_attachments(fields).attachments = <<>>
        BY <2>2 DEF decode_api_attachments
      <3>2. QED
        BY <1>0, <3>1
    <2>3. CASE ~(Len(fields) > MAX_ATTACHMENTS)
      <3>1. decode_api_attachments(fields) = Fold(step, start, fields)
        BY <2>3 DEF decode_api_attachments
      <3>2. QED
        BY <2>1, <3>1
    <2>4. QED
      BY <2>2, <2>3
  <1>7. QED
    BY <1>6

(* Mail without inline attachments: the attachments are found in their order. *)
LEMMA PlainFound ==
  ASSUME NEW att \in Seq(Plain), NEW html \in BOOLEAN
  PROVE  LET mail == [html |-> html, attachments |-> att]
         IN  att # <<>> => Attachments(Parse(build_mime(mail))) = Placed(att, <<"mixed">>)
  <1> DEFINE mail == [html |-> html, attachments |-> att]
             leaves == Parse(build_mime(mail))
             m == <<"mixed">>
             alt == AltLeaves(html, m)
             P == Placed(att, m)
             S == {l \in ToSet(leaves) : l.part \notin {TextBody, HtmlBody}}
             T == ToSet(leaves)
  <1>0. SUFFICES ASSUME att # <<>> PROVE Attachments(leaves) = P
    OBVIOUS
  <1>1. att \in Seq(Attachment) /\ \A i \in 1..Len(att) : ~att[i].inline
    BY DEF Plain
  <1>2. mail \in Mails /\ mail.html = html /\ mail.attachments = att
    BY <1>1 DEF Mails
  <1>3. InlineOnes(att) = <<>> /\ RealOnes(att) = att
    <2> DEFINE A == ToSet(att)
               I == {x \in A : x.inline}
               R == {x \in A : ~x.inline}
               e == <<>>
    <2>1. I = {} /\ R = A /\ A \cap R = R
      <3>1. \A x \in A : ~x.inline
        BY <1>1 DEF ToSet
      <3>2. QED
        BY <3>1
    <2>2. att \in Seq(A)
      BY <1>1, OwnElements
    <2>3. e \in Seq(A) /\ ToSet(e) \cap R = {} /\ e \o att = att
      <3>1. e \o att = att
        BY <1>1, ConcatEmptySeq
      <3>2. ToSet(e) = {}
        BY DEF ToSet
      <3>3. e \in Seq(A)
        OBVIOUS
      <3>4. QED
        BY <3>1, <3>2, <3>3
    <2> HIDE DEF A, R, e, I
    <2>4. att \in Seq(A \cap R)
      BY <2>1, <2>2
    <2>5. Keep(e \o att, R) = att
      BY <2>3, <2>4, KeepTail
    <2>6. RealOnes(att) = att
      BY <2>3, <2>5 DEF RealOnes, R, A
    <2>7. att \in Seq(A \cap A)
      BY <2>2
    <2>8. Keep(att, I) = <<>>
      <3> DEFINE q == Keep(att, I)
      <3>1. q \in Seq(A) /\ ToSet(q) = A \cap I
        BY <2>2, KeepRange DEF A
      <3>2. ToSet(q) = {}
        BY <2>1, <3>1
      <3> HIDE DEF q
      <3>3. Len(q) = 0
        <4>1. SUFFICES ASSUME Len(q) # 0 PROVE FALSE
          OBVIOUS
        <4>2. 1 \in DOMAIN q
          BY <3>1, <4>1
        <4>3. QED
          BY <3>2, <4>2 DEF ToSet
      <3>4. q = <<>>
        BY <3>1, <3>3
      <3>5. QED
        BY <3>4 DEF q
    <2>9. QED
      BY <2>6, <2>8 DEF InlineOnes, I, A
  <1> HIDE DEF mail
  <1>4. leaves = alt \o P
    <2>1. leaves = MailLeaves(mail)
      BY <1>2, MailParsed
    <2>2. RelatedLeaves(mail, m) = alt
      BY <1>2, <1>3 DEF RelatedLeaves
    <2>3. QED
      BY <1>0, <1>2, <1>3, <2>1, <2>2 DEF MailLeaves
  <1>5. m \in Seq(Containers)
    BY Bodies
  <1>6. leaves \in Seq(Found)
    BY <1>2, MailParsed
  <1> HIDE DEF leaves
  <1>7. alt \in Seq(Found) /\ ToSet(alt) = {Place(c, TextIn(html, m)) : c \in BodiesOf(html)}
    <2> HIDE DEF m
    <2>1. QED
      BY <1>5, AltSet
  <1>8. /\ ToSet(P) = {Place(x, m) : x \in ToSet(att)} /\ P \in Seq(Found)
    <2> HIDE DEF m
    <2>1. ToSet(P) = {Place(x, m) : x \in ToSet(att)}
      BY <1>1, PlacedSet
    <2>2. PICK x \in Attachment : TRUE
      <3>1. Len(att) # 0
        BY <1>0, <1>1
      <3>2. 1 \in 1..Len(att)
        BY <1>1, <3>1
      <3>3. QED
        BY <1>1, <3>2
    <2>3. P \in Seq(Found)
      BY <1>1, <1>5, <2>2, PlacedAppend
    <2>4. QED
      BY <2>1, <2>3
  <1> HIDE DEF alt, P, m
  <1>9. T = ToSet(alt) \cup ToSet(P)
    BY <1>4, <1>7, <1>8, Joined
  <1>10. ToSet(alt) \cap S = {}
    <2>1. \A c \in BodiesOf(html) : c \in {TextBody, HtmlBody}
      BY DEF BodiesOf
    <2>2. \A l \in ToSet(alt) : l.part \in {TextBody, HtmlBody}
      BY <1>7, <2>1, BodiesDiffer
    <2>3. QED
      BY <2>2
  <1>11. ToSet(P) \subseteq S
    <2>1. ToSet(att) \subseteq Attachment
      BY <1>1, OwnElements
    <2>2. \A l \in ToSet(P) : l.part \notin {TextBody, HtmlBody}
      <3>1. \A x \in ToSet(att) : Place(x, m).part \notin {TextBody, HtmlBody}
        BY <2>1, BodiesDiffer
      <3>2. QED
        BY <1>8, <3>1
    <2>3. QED
      BY <1>9, <2>2
  <1>12. Attachments(leaves) = Keep(leaves, S)
    BY DEF Attachments
  <1>13. alt \in Seq(T) /\ P \in Seq(T \cap S)
    <2>1. alt \in Seq(ToSet(alt)) /\ P \in Seq(ToSet(P))
      BY <1>7, <1>8, OwnElements
    <2>2. ToSet(alt) \subseteq T /\ ToSet(P) \subseteq T \cap S
      BY <1>9, <1>11
    <2> HIDE DEF T, S
    <2>3. QED
      BY <2>1, <2>2
  <1> HIDE DEF T, S
  <1>14. Keep(alt \o P, S) = P
    BY <1>10, <1>13, KeepTail
  <1>15. QED
    BY <1>4, <1>12, <1>14

(* The row recorded for an attachment leads to it in the stored mail, when none is inline. *)
LEMMA PlainDownloads ==
  ASSUME NEW att \in Seq(Plain), NEW html \in BOOLEAN
  PROVE  LET recorded == RecordedRows(att)
             stored == build_mime([html |-> html, attachments |-> att])
         IN  [i \in DOMAIN recorded |-> Download(stored, recorded[i])]
               = [i \in DOMAIN att |-> att[i].id]
  <1> DEFINE recorded == RecordedRows(att)
             stored == build_mime([html |-> html, attachments |-> att])
             found == Attachments(Parse(stored))
             m == <<"mixed">>
  <1>1. DOMAIN att = 1..Len(att) /\ Len(att) \in Nat /\ att \in Seq(Attachment)
    BY DEF Plain
  <1>2. DOMAIN recorded = DOMAIN att /\ \A i \in DOMAIN att : recorded[i].part_index = i - 1
    BY DEF RecordedRows
  <1>3. att # <<>> => found = Placed(att, m)
    BY PlainFound
  <1> HIDE DEF recorded, stored
  <1>4. ASSUME NEW i \in DOMAIN att PROVE Download(stored, recorded[i]) = att[i].id
    <2>1. att # <<>>
      BY <1>1, <1>4
    <2>2. found = Placed(att, m)
      BY <1>3, <2>1
    <2>3. Len(Placed(att, m)) = Len(att)
      BY <1>1, PlacedSet
    <2>4. Placed(att, m)[i] = Place(att[i], m)
      BY <1>1 DEF Placed
    <2>5. Place(att[i], m).part = att[i]
      BY BodiesDiffer
    <2> HIDE DEF m, found
    <2>6. recorded[i].part_index < Len(found) /\ recorded[i].part_index + 1 = i
      BY <1>1, <1>2, <2>2, <2>3
    <2>7. Download(stored, recorded[i]) = found[recorded[i].part_index + 1].part.id
      BY <2>6 DEF Download, found
    <2>8. found[i].part = att[i]
      BY <2>2, <2>4, <2>5
    <2>9. QED
      BY <2>6, <2>7, <2>8
  <1>5. [i \in DOMAIN recorded |-> Download(stored, recorded[i])] = [i \in DOMAIN att |-> att[i].id]
    BY <1>2, <1>4
  <1>6. QED
    BY <1>5 DEF recorded, stored
(* What the form and the API make of the fields of an upload. *)
UploadRead(fields, html) ==
  LET form == read_multipart_fields(fields)
      api == decode_api_attachments(fields)
      files == Keep(fields, {f \in ToSet(fields) : Total(f.chunks) > 0})
      sizes == [i \in DOMAIN files |-> Total(files[i].chunks)]
      within == /\ Len(files) <= MAX_ATTACHMENTS
                /\ \A i \in DOMAIN sizes : sizes[i] <= MAX_ATTACHMENT_BYTES
                /\ Total(sizes) <= MAX_TOTAL_ATTACHMENT_BYTES
      Downloads(r) ==
        LET recorded == RecordedRows(r.attachments)
            stored == build_mime([html |-> html, attachments |-> r.attachments])
        IN  [i \in DOMAIN recorded |-> Download(stored, recorded[i])]
      IdsOf(s) == [i \in DOMAIN s |-> s[i].id]
  IN  /\ form.error = ~within
      /\ within => Downloads(form) = IdsOf(files)
      /\ ~api.error => Downloads(api) = IdsOf(api.attachments)

(* The files of a form, by the limits, by their sizes, and by their ids. *)
LEMMA FilesRead ==
  ASSUME NEW fields \in Seq(Field)
  PROVE  LET files == Keep(fields, {f \in ToSet(fields) : Total(f.chunks) > 0})
         IN  /\ files = FilesOf(fields) /\ files \in Seq(Field)
             /\ [i \in DOMAIN files |-> Total(files[i].chunks)] = Each(SizeOf, files)
  <1> DEFINE S == {f \in ToSet(fields) : Total(f.chunks) > 0}
             R == {f \in Field : Total(f.chunks) > 0}
             T == ToSet(fields)
             files == Keep(fields, S)
  <1>1. fields \in Seq(T)
    BY OwnElements
  <1>2. T \subseteq Field
    BY DEF ToSet
  <1>3. \A x \in T : x \in S <=> x \in R
    BY <1>2
  <1>4. files = Keep(fields, R)
    <2> HIDE DEF S, R, T
    <2>1. QED
      BY <1>1, <1>3, KeepSame
  <1>5. files \in Seq(Field)
    <2> HIDE DEF S
    <2>1. QED
      BY KeepRange
  <1>6. files = FilesOf(fields)
    BY <1>4 DEF FilesOf
  <1> HIDE DEF files
  <1>7. \A i \in DOMAIN files : files[i] \in Field
    BY <1>5
  <1>8. \A i \in DOMAIN files : SizeOf[files[i]] = Total(files[i].chunks)
    BY <1>7, FieldSizes
  <1>9. [i \in DOMAIN files |-> Total(files[i].chunks)] = Each(SizeOf, files)
    BY <1>8 DEF Each
  <1>10. QED
    BY <1>5, <1>6, <1>9 DEF files

(* The form refuses what is over a limit and only that, and every attachment that the form
   or the API lets through is found by the row that was recorded for it. *)
LEMMA UploadsRead ==
  ASSUME NEW fields \in Seq(Field), NEW html \in BOOLEAN
  PROVE  UploadRead(fields, html)
  <1> DEFINE form == read_multipart_fields(fields)
             api == decode_api_attachments(fields)
             files == Keep(fields, {f \in ToSet(fields) : Total(f.chunks) > 0})
             sizes == [i \in DOMAIN files |-> Total(files[i].chunks)]
             within == /\ Len(files) <= MAX_ATTACHMENTS
                       /\ \A i \in DOMAIN sizes : sizes[i] <= MAX_ATTACHMENT_BYTES
                       /\ Total(sizes) <= MAX_TOTAL_ATTACHMENT_BYTES
             Downloads(r) ==
               LET recorded == RecordedRows(r.attachments)
                   stored == build_mime([html |-> html, attachments |-> r.attachments])
               IN  [i \in DOMAIN recorded |-> Download(stored, recorded[i])]
             IdsOf(s) == [i \in DOMAIN s |-> s[i].id]
  <1>1. files = FilesOf(fields) /\ files \in Seq(Field) /\ sizes = Each(SizeOf, files)
    BY FilesRead
  <1>2. within <=> IsWithin(files)
    <2>1. DOMAIN sizes = DOMAIN files /\ \A i \in DOMAIN files : sizes[i] = Total(files[i].chunks)
      OBVIOUS
    <2> HIDE DEF files, sizes
    <2>2. QED
      BY <1>1, <2>1 DEF IsWithin
  <1>3. FormIs(form, files)
    BY <1>1, FormRead
  <1> HIDE DEF form, files
  <1>4. /\ form.error \in BOOLEAN /\ (form.error <=> ~IsWithin(files))
        /\ IsWithin(files) => form.attachments = Each(MadeOf, files)
    BY <1>3 DEF FormIs, Form
  <1>5. form.error = ~within
    <2> HIDE DEF within
    <2>1. QED
      BY <1>2, <1>4
  <1>6. ASSUME NEW r, r.attachments \in Seq(Plain) PROVE Downloads(r) = IdsOf(r.attachments)
    BY <1>6, PlainDownloads
  <1>7. ASSUME within PROVE Downloads(form) = IdsOf(files)
    <2> DEFINE made == Each(MadeOf, files)
    <2>1. form.attachments = made
      BY <1>2, <1>4, <1>7
    <2>2. made \in Seq(Plain) /\ Len(made) = Len(files)
          /\ \A i \in 1..Len(files) : made[i].id = files[i].id
      BY <1>1, MadeBytes
    <2> HIDE DEF made
    <2>3. DOMAIN made = 1..Len(files) /\ DOMAIN files = 1..Len(files)
      BY <1>1, <2>2
    <2>4. IdsOf(made) = IdsOf(files)
      BY <2>2, <2>3
    <2>5. Downloads(form) = IdsOf(form.attachments)
      <3>1. form.attachments \in Seq(Plain)
        BY <2>1, <2>2
      <3> HIDE DEF Downloads, IdsOf
      <3>2. QED
        BY <1>6, <3>1
    <2>6. IdsOf(form.attachments) = IdsOf(made)
      BY <2>1
    <2> HIDE DEF Downloads, IdsOf
    <2>7. QED
      BY <2>4, <2>5, <2>6
  <1>8. Downloads(api) = IdsOf(api.attachments)
    <2>1. api.attachments \in Seq(Plain)
      BY ApiDecoded
    <2> HIDE DEF Downloads, IdsOf, api
    <2>2. QED
      BY <1>6, <2>1
  <1>9. /\ form.error = ~within
        /\ within => Downloads(form) = IdsOf(files)
        /\ ~api.error => Downloads(api) = IdsOf(api.attachments)
    <2> HIDE DEF Downloads, IdsOf, api, within
    <2>1. QED
      BY <1>5, <1>7, <1>8
  <1>10. QED
    BY <1>9, Zenon DEF UploadRead, form, files
-----------------------------------------------------------------------------
(* Sender rewriting *)

(* The counter of days starts again at most once within a period. *)
LEMMA DaysLater ==
  ASSUME NEW day \in Nat, NEW age \in 0..(Period - 1)
  PROVE  /\ day % Period \in 0..(Period - 1)
         /\ \/ (day + age) % Period = (day % Period) + age
            \/ /\ (day + age) % Period = (day % Period) + age - Period
               /\ (day % Period) + age >= Period
  BY DEF Period

(* The age decode_srs computes is the number of days that have passed, on either side of
   the day the counter starts again. *)
LEMMA AgeIsTheDaysPassed ==
  ASSUME NEW day \in Nat, NEW age \in 0..(Period - 1)
  PROVE  Age((day + age) % Period, day % Period) = age
  <1> DEFINE made    == day % Period
             current == (day + age) % Period
  <1>1. made \in 0..(Period - 1)
    BY DaysLater
  <1>2. \/ current = made + age
        \/ current = made + age - Period /\ made + age >= Period
    BY DaysLater
  <1> HIDE DEF made, current
  <1>3. CASE current = made + age
    <2>1. current >= made /\ current - made = age
      BY <1>1, <1>3 DEF Period
    <2>2. made \notin (current + 1)..(current + Period) /\ ~(made > current + Period)
      BY <1>1, <1>3 DEF Period
    <2>3. QED
      BY <2>1, <2>2 DEF Age, current, made
  <1>4. CASE current = made + age - Period /\ made + age >= Period
    <2>1. ~(current >= made) /\ (current + Period) - made = age
      BY <1>1, <1>4 DEF Period
    <2>2. made \in (current + 1)..(current + Period) /\ ~(made > current + Period)
      BY <1>1, <1>4 DEF Period
    <2>3. QED
      BY <2>1, <2>2 DEF Age, current, made
  <1>5. QED
    BY <1>2, <1>3, <1>4

(* An SRS address made on any day gives its sender back for exactly 21 days, across the
   wrap of the day counter, and with any other timestamp put into it gives nothing. *)
THEOREM SrsIsGoodForItsTime ==
  ASSUME NEW sender, NEW day \in Nat, NEW timestamps \in SUBSET Nat
  PROVE  GoodForMaxAge(sender, day, timestamps)
  <1> DEFINE made    == day % Period
             address == encode_srs(sender, day)
             With(t) == [address EXCEPT !.timestamp = t]
  <1>1. address = [hash |-> <<made, sender>>, timestamp |-> made, sender |-> sender]
    BY DEF encode_srs, get_current_srs_timestamp, Mac
  <1>2. /\ address.hash = <<made, sender>>
        /\ address.timestamp = made
        /\ address.sender = sender
    BY <1>1
  <1> HIDE DEF address
  <1>3. ASSUME NEW age \in 0..(Period - 1)
        PROVE  decode_srs(address, day + age) = (IF age <= MaxAge THEN sender ELSE "none")
    BY <1>2, <1>3, AgeIsTheDaysPassed DEF decode_srs, get_current_srs_timestamp, Mac
  <1>4. ASSUME NEW t \in timestamps \ {address.timestamp}
        PROVE  decode_srs(With(t), day) = "none"
    <2>1. Mac(t, sender) # address.hash
      BY <1>2, <1>4 DEF Mac
    <2>2. With(t).hash = address.hash /\ With(t).timestamp = t /\ With(t).sender = sender
      BY <1>1
    <2>3. QED
      BY <2>1, <2>2 DEF decode_srs
  <1>5. QED
    BY <1>3, <1>4 DEF GoodForMaxAge, address
-----------------------------------------------------------------------------
(* The properties *)

(* What has been drawn is an input that the program can be given. *)
InputInv ==
  /\ input.of = "upload" => input.fields \in Seq(Field) /\ input.html \in BOOLEAN
  /\ input.of = "mail" => input.mail \in Mails
  /\ input.of = "received" => input.parts \in Seq(Part)
  /\ input.of = "srs" => input.day \in Nat
  /\ input.of = "body" => input.body \in Seq(Byte)
  /\ input.of = "text" => /\ input.rules \in Seq([keyword : Seq(Letters), label : Nat])
                          /\ input.text \in Seq(Letters)

(* The inductive invariant of the three parts. *)
AlgorithmsInv == ListingInv /\ SpfInv /\ InputInv

(* Bounded sequences are sequences. *)
LEMMA BoundedIsSeq ==
  ASSUME NEW S, NEW n \in Nat, NEW s \in SeqsUpTo(S, n)
  PROVE  s \in Seq(S) /\ DOMAIN s = 1..Len(s) /\ Len(s) \in Nat
  <1>1. PICK k \in 0..n : s \in [1..k -> S]
    BY DEF SeqsUpTo
  <1>2. QED
    BY <1>1

(* An upload is drawn: any fields in any chunks. *)
LEMMA DrawUploadStep ==
  ASSUME DrawUpload
  PROVE  InputInv' /\ UNCHANGED <<listingVars, check>>
  <1>1. PICK s \in SeqsUpTo([valid : BOOLEAN, chunks : Chunks], MaxParts) :
          \E html \in BOOLEAN :
            Draw([of |-> "upload", html |-> html,
                  fields |-> [i \in DOMAIN s |-> [id |-> i, valid |-> s[i].valid,
                                                  chunks |-> s[i].chunks]]])
    BY DEF DrawUpload
  <1> DEFINE fields == [i \in DOMAIN s |-> [id |-> i, valid |-> s[i].valid,
                                            chunks |-> s[i].chunks]]
  <1>2. PICK html \in BOOLEAN : Draw([of |-> "upload", html |-> html, fields |-> fields])
    BY <1>1
  <1>3. s \in Seq([valid : BOOLEAN, chunks : Chunks]) /\ DOMAIN s = 1..Len(s) /\ Len(s) \in Nat
    BY BoundedIsSeq, AlgorithmsAssumption
  <1>4. \A i \in 1..Len(s) : s[i].valid \in BOOLEAN /\ s[i].chunks \in Seq(Nat)
    <2> DEFINE Drawn == [valid : BOOLEAN, chunks : Chunks]
    <2>1. \A i \in 1..Len(s) : s[i] \in Drawn
      <3> HIDE DEF Drawn
      <3>1. s \in Seq(Drawn)
        BY <1>3 DEF Drawn
      <3>2. QED
        BY <3>1
    <2>2. QED
      BY <2>1, AlgorithmsAssumption
  <1>5. fields \in Seq(Field)
    <2>1. \A i \in 1..Len(s) : [id |-> i, valid |-> s[i].valid, chunks |-> s[i].chunks] \in Field
      BY <1>4 DEF Field
    <2>2. fields \in [1..Len(s) -> Field]
      BY <1>3, <2>1
    <2>3. QED
      BY <1>3, <2>2
  <1> HIDE DEF fields
  <1>6. input' = [of |-> "upload", html |-> html, fields |-> fields]
    BY <1>2 DEF Draw
  <1>7. input'.of = "upload" /\ input'.html = html /\ input'.fields = fields
    BY <1>6
  <1>8. QED
    BY <1>2, <1>5, <1>7 DEF InputInv, Draw

(* A mail to be built is drawn: any mixture of inline and other attachments. *)
LEMMA DrawMailStep ==
  ASSUME DrawMail
  PROVE  InputInv' /\ UNCHANGED <<listingVars, check>>
  <1>1. PICK s \in SeqsUpTo(BOOLEAN, MaxParts) : \E html \in BOOLEAN :
          Draw([of |-> "mail", mail |->
                 [html |-> html,
                  attachments |->
                    [i \in DOMAIN s |-> [id |-> i, inline |-> s[i], cid |-> "none",
                                         type |-> AnyType, size |-> 1]]]])
    BY DEF DrawMail
  <1> DEFINE att == [i \in DOMAIN s |-> [id |-> i, inline |-> s[i], cid |-> "none",
                                         type |-> AnyType, size |-> 1]]
  <1>2. PICK html \in BOOLEAN :
          Draw([of |-> "mail", mail |-> [html |-> html, attachments |-> att]])
    BY <1>1
  <1>3. s \in Seq(BOOLEAN) /\ DOMAIN s = 1..Len(s) /\ Len(s) \in Nat
    BY BoundedIsSeq, AlgorithmsAssumption
  <1>4. att \in Seq(Attachment)
    <2> DEFINE c == "none"
               t == AnyType
    <2>1. c \in ContentIds /\ t \in Types
      BY MimeAssumption DEF AnyType, Types
    <2>2. ASSUME NEW i \in 1..Len(s)
          PROVE  [id |-> i, inline |-> s[i], cid |-> c, type |-> t, size |-> 1] \in Attachment
      <3>1. i \in Nat /\ s[i] \in BOOLEAN
        BY <1>3
      <3> HIDE DEF c, t
      <3>2. QED
        BY <2>1, <3>1 DEF Attachment
    <2>3. att \in [1..Len(s) -> Attachment]
      BY <1>3, <2>2
    <2>4. QED
      BY <1>3, <2>3
  <1> HIDE DEF att
  <1> DEFINE mail == [html |-> html, attachments |-> att]
  <1>5. mail \in Mails
    BY <1>4 DEF Mails
  <1> HIDE DEF mail
  <1>6. input' = [of |-> "mail", mail |-> mail]
    BY <1>2 DEF Draw, mail
  <1>7. input'.of = "mail" /\ input'.mail = mail
    BY <1>6
  <1>8. QED
    BY <1>2, <1>5, <1>7 DEF InputInv, Draw

(* A received mail is drawn: parts of any disposition, Content-ID and type. *)
LEMMA DrawReceivedStep ==
  ASSUME DrawReceived
  PROVE  InputInv' /\ UNCHANGED <<listingVars, check>>
  <1> DEFINE Drawn == [binary : BOOLEAN, disposition : Dispositions, cid : ContentIds,
                       type : PartTypes]
  <1>1. PICK s \in SeqsUpTo(Drawn, MaxReceived) :
          Draw([of |-> "received", parts |->
                 [i \in DOMAIN s |-> [id |-> i, binary |-> s[i].binary, cid |-> s[i].cid,
                                      disposition |-> s[i].disposition,
                                      type |-> s[i].type, size |-> 1]]])
    BY DEF DrawReceived
  <1> DEFINE parts == [i \in DOMAIN s |-> [id |-> i, binary |-> s[i].binary, cid |-> s[i].cid,
                                           disposition |-> s[i].disposition,
                                           type |-> s[i].type, size |-> 1]]
  <1>2. Draw([of |-> "received", parts |-> parts])
    BY <1>1
  <1>3. s \in Seq(Drawn) /\ DOMAIN s = 1..Len(s) /\ Len(s) \in Nat
    BY BoundedIsSeq, AlgorithmsAssumption
  <1>4. ASSUME NEW i \in 1..Len(s)
        PROVE  /\ s[i].binary \in BOOLEAN /\ s[i].cid \in ContentIds
               /\ s[i].disposition \in Dispositions /\ s[i].type \in Types
    <2>1. s[i] \in Drawn
      <3> HIDE DEF Drawn
      <3>1. QED
        BY <1>3
    <2>2. QED
      BY <2>1, AlgorithmsAssumption
  <1>5. parts \in Seq(Part)
    <2>1. \A i \in 1..Len(s) :
            [id |-> i, binary |-> s[i].binary, cid |-> s[i].cid,
             disposition |-> s[i].disposition, type |-> s[i].type, size |-> 1] \in Part
      BY <1>4 DEF Part
    <2>2. parts \in [1..Len(s) -> Part]
      BY <1>3, <2>1
    <2>3. QED
      BY <1>3, <2>2
  <1> HIDE DEF parts
  <1>6. input' = [of |-> "received", parts |-> parts]
    BY <1>2 DEF Draw
  <1>7. input'.of = "received" /\ input'.parts = parts
    BY <1>6
  <1>8. QED
    BY <1>2, <1>5, <1>7 DEF InputInv, Draw

(* A day, a body, or a text with filters is drawn. *)
LEMMA DrawOtherStep ==
  ASSUME DrawSrs \/ DrawBody \/ DrawText
  PROVE  InputInv' /\ UNCHANGED <<listingVars, check>>
  <1>1. CASE DrawSrs
    <2>1. PICK day \in SrsDays : Draw([of |-> "srs", day |-> day])
      BY <1>1 DEF DrawSrs
    <2>2. input'.of = "srs" /\ input'.day = day
      BY <2>1 DEF Draw
    <2>3. QED
      BY <2>1, <2>2, AlgorithmsAssumption DEF InputInv, Draw
  <1>2. CASE DrawBody
    <2>1. PICK body \in SeqsUpTo(Byte, MaxBody) : Draw([of |-> "body", body |-> body])
      BY <1>2 DEF DrawBody
    <2>2. input'.of = "body" /\ input'.body = body
      BY <2>1 DEF Draw
    <2>3. body \in Seq(Byte)
      BY BoundedIsSeq, AlgorithmsAssumption
    <2>4. QED
      BY <2>1, <2>2, <2>3 DEF InputInv, Draw
  <1>3. CASE DrawText
    <2>1. PICK rules \in RuleSets : \E text \in SeqsUpTo(Letters, MaxText) :
            Draw([of |-> "text", rules |-> rules, text |-> text])
      BY <1>3 DEF DrawText
    <2>2. PICK text \in SeqsUpTo(Letters, MaxText) :
            Draw([of |-> "text", rules |-> rules, text |-> text])
      BY <2>1
    <2>3. input'.of = "text" /\ input'.rules = rules /\ input'.text = text
      BY <2>2 DEF Draw
    <2>4. text \in Seq(Letters)
      BY BoundedIsSeq, AlgorithmsAssumption
    <2>5. rules \in Seq([keyword : Seq(Letters), label : Nat])
      BY AlgorithmsAssumption
    <2>6. QED
      BY <2>2, <2>3, <2>4, <2>5 DEF InputInv, Draw
  <1>4. QED
    BY <1>1, <1>2, <1>3

(* The invariant holds before anything is drawn or opened. *)
LEMMA AlgorithmsStart == Init => AlgorithmsInv
  <1> SUFFICES ASSUME Init PROVE AlgorithmsInv
    OBVIOUS
  <1>1. ListingInv /\ SpfInv
    BY ListingStarts, SpfStarts DEF Init
  <1>2. input.of = "nothing"
    BY DEF Init, Nothing
  <1>3. QED
    BY <1>1, <1>2 DEF AlgorithmsInv, InputInv

(* Every step keeps the invariant. *)
LEMMA AlgorithmsStep == AlgorithmsInv /\ [Next]_vars => AlgorithmsInv'
  <1> SUFFICES ASSUME AlgorithmsInv, [Next]_vars PROVE AlgorithmsInv'
    OBVIOUS
  <1>1. ListingInv /\ SpfInv /\ InputInv
    BY DEF AlgorithmsInv
  <1>2. ASSUME UNCHANGED listingVars PROVE ListingInv'
    BY <1>1, <1>2, ListingUnchanged
  <1>3. ASSUME UNCHANGED check PROVE SpfInv'
    BY <1>1, <1>3, SpfUnchanged
  <1>4. ASSUME UNCHANGED input PROVE InputInv'
    BY <1>1, <1>4 DEF InputInv
  <1>5. ASSUME InputInv', UNCHANGED <<listingVars, check>> PROVE AlgorithmsInv'
    BY <1>2, <1>3, <1>5 DEF AlgorithmsInv
  <1>6. ASSUME Checking, SpfInv' PROVE AlgorithmsInv'
    <2>1. UNCHANGED listingVars /\ UNCHANGED input
      BY <1>6 DEF Checking
    <2>2. QED
      BY <1>2, <1>4, <1>6, <2>1 DEF AlgorithmsInv
  <1>7. ASSUME Reading, ListingInv' PROVE AlgorithmsInv'
    <2>1. UNCHANGED check /\ UNCHANGED input
      BY <1>7 DEF Reading
    <2>2. QED
      BY <1>3, <1>4, <1>7, <2>1 DEF AlgorithmsInv
  <1>8. CASE DrawUpload
    BY <1>5, <1>8, DrawUploadStep
  <1>9. CASE DrawMail
    BY <1>5, <1>9, DrawMailStep
  <1>10. CASE DrawReceived
    BY <1>5, <1>10, DrawReceivedStep
  <1>11. CASE DrawSrs \/ DrawBody \/ DrawText
    BY <1>5, <1>11, DrawOtherStep
  <1>12. CASE DrawSpf
    <2>1. PICK zone \in Zones : \E domain \in DOMAIN zone : \E ip \in Clients :
            Begin(zone, domain, ip)
      BY <1>12 DEF DrawSpf
    <2>2. PICK domain \in DOMAIN zone : \E ip \in Clients : Begin(zone, domain, ip)
      BY <2>1
    <2>3. PICK ip \in Clients : Begin(zone, domain, ip)
      BY <2>2
    <2>4. SpfInv'
      BY <2>3, BeginStep
    <2>5. Checking
      BY <1>12 DEF DrawSpf, Checking
    <2>6. QED
      BY <1>6, <2>4, <2>5
  <1>13. CASE Checking /\ SkipVisited
    BY <1>1, <1>6, <1>13, SkipVisitedStep
  <1>14. CASE Checking /\ GiveUp
    BY <1>1, <1>6, <1>14, GiveUpStep
  <1>15. CASE Checking /\ LookupFails
    BY <1>1, <1>6, <1>15, LookupFailsStep
  <1>16. CASE Checking /\ LookupAnswers
    BY <1>1, <1>6, <1>16, LookupAnswersStep
  <1>17. CASE Checking /\ RunsOut
    BY <1>1, <1>6, <1>17, RunsOutStep
  <1>18. CASE Reading /\ Open
    BY <1>1, <1>7, <1>18, OpenStep
  <1>19. CASE Reading /\ ListRows
    BY <1>1, <1>7, <1>19, ListRowsStep
  <1>20. CASE Reading /\ ListFails
    BY <1>1, <1>7, <1>20, ListFailsStep
  <1>21. CASE Reading /\ CountRows
    BY <1>1, <1>7, <1>21, CountRowsStep
  <1>22. CASE Reading /\ CountFails
    BY <1>1, <1>7, <1>22, CountFailsStep
  <1>23. CASE Reading /\ NextPage
    BY <1>1, <1>7, <1>23, NextPageStep
  <1>24. CASE Reading /\ Arrive
    BY <1>1, <1>7, <1>24, ArriveStep
  <1>25. CASE Reading /\ ReplyArrives
    BY <1>1, <1>7, <1>25, ReplyArrivesStep
  <1>26. CASE Reading /\ Advance
    BY <1>1, <1>7, <1>26, AdvanceStep
  <1>27. CASE Reading /\ Mark
    BY <1>1, <1>7, <1>27, MarkStep
  <1>28. CASE Reading /\ Delete
    BY <1>1, <1>7, <1>28, DeleteStep
  <1>29. CASE UNCHANGED vars
    <2>1. UNCHANGED listingVars /\ UNCHANGED check /\ UNCHANGED input
      BY <1>29 DEF vars
    <2>2. QED
      BY <1>2, <1>3, <1>4, <2>1 DEF AlgorithmsInv
  <1>30. QED
    BY <1>8, <1>9, <1>10, <1>11, <1>12, <1>13, <1>14, <1>15, <1>16, <1>17, <1>18, <1>19,
       <1>20, <1>21, <1>22, <1>23, <1>24, <1>25, <1>26, <1>27, <1>28, <1>29 DEF Next

(* The inductive invariant of the algorithms: what the reader of a folder has still to be
   shown is behind the page, what an SPF check has seen can be reached and does not list
   the client, and every input is one that the code can be given. *)
THEOREM AlgorithmsInvariance == Spec => []AlgorithmsInv
  BY AlgorithmsStart, AlgorithmsStep, PTL DEF Spec

(* dashboard_handler, which reads each page by OFFSET and counts in a second query without
   a snapshot, shows a reader who follows the links every mail that stayed in the folder
   and did not move to the top, and never an empty page behind a link: for every mailbox,
   page size and number of changes between the queries. *)
THEOREM PagingIsComplete == Spec => []PagingMissesNothing
  <1>1. AlgorithmsInv => PagingMissesNothing
    BY DEF AlgorithmsInv, ListingInv
  <1>2. QED
    BY <1>1, AlgorithmsInvariance, PTL

(* check_spf_for_domain passes a client only if a record that can be reached lists it, and
   whenever one does, none denies and the records are within the limit of lookups: for
   every zone, cycles of includes among them, and every client. *)
THEOREM SpfFollowsTheRecords == Spec => []SpfAnswers
  <1>1. AlgorithmsInv => SpfAnswers
    BY DEF AlgorithmsInv, SpfInv, ListedPasses, SpfAnswers
  <1>2. QED
    BY <1>1, AlgorithmsInvariance, PTL

(* build_mime writes every body and every attachment once and where it belongs: for every
   mixture of any number of attachments. *)
THEOREM MailIsReadBack == Spec => []MimeRoundTrip
  <1>1. AlgorithmsInv => MimeRoundTrip
    <2> SUFFICES ASSUME AlgorithmsInv, input.of = "mail" PROVE MimeRoundTrip
      BY DEF MimeRoundTrip
    <2>1. input.mail \in Mails
      BY DEF AlgorithmsInv, InputInv
    <2>2. QED
      BY <2>1, RoundTrip DEF MimeRoundTrip, BodiesOf, WithinOf
  <1>2. QED
    BY <1>1, AlgorithmsInvariance, PTL

(* read_multipart_fields accepts exactly what is within the limits, in whatever chunks it
   comes, and the row that record_sent_attachments makes of a file leads the download back
   to that file, as do the rows of an API request: for every upload and every limit. *)
THEOREM UploadsComeBack == Spec => []UploadsAreDownloaded
  <1>1. AlgorithmsInv => UploadsAreDownloaded
    <2> SUFFICES ASSUME AlgorithmsInv, input.of = "upload" PROVE UploadsAreDownloaded
      BY DEF UploadsAreDownloaded
    <2>1. UploadRead(input.fields, input.html)
      BY UploadsRead DEF AlgorithmsInv, InputInv
    <2>2. QED
      BY <2>1, Zenon DEF UploadsAreDownloaded, UploadRead
  <1>2. QED
    BY <1>1, AlgorithmsInvariance, PTL

(* A part with a Content-ID stays beside the body in what rewrite_body_for_forward builds,
   and inline_image_handler serves the image that the HTML means: for every received mail. *)
THEOREM EmbeddedPartsServed == Spec => []EmbeddedPartsAreFound
  <1>1. AlgorithmsInv => EmbeddedPartsAreFound
    <2> SUFFICES ASSUME AlgorithmsInv, input.of = "received" PROVE EmbeddedPartsAreFound
      BY DEF EmbeddedPartsAreFound
    <2>1. input.parts \in Seq(Part)
      BY DEF AlgorithmsInv, InputInv
    <2> DEFINE parts == input.parts
               found == Attachments(Parse(rewrite_body_for_forward(parts)))
    <2>2. ASSUME NEW i \in DOMAIN parts, parts[i].cid # "none"
          PROVE  \E l \in ToSet(found) :
                   /\ l.part.id = parts[i].id /\ l.part.cid = parts[i].cid
                   /\ Last(l.within) = "related"
      BY <2>1, <2>2, EmbeddedForwarded
    <2>3. ASSUME NEW i \in DOMAIN parts, parts[i].cid # "none", IsImage(parts[i].type),
                 \A j \in 1..(i - 1) : parts[j].cid # parts[i].cid
          PROVE  inline_image_handler(parts, parts[i].cid) = parts[i].id
      BY <2>1, <2>3, EmbeddedServed
    <2>4. QED
      BY <2>2, <2>3, Zenon DEF EmbeddedPartsAreFound
  <1>2. QED
    BY <1>1, AlgorithmsInvariance, PTL

(* decode_srs gives the sender of an address back for exactly the 21 days it is good for:
   for every day it may have been made on. *)
THEOREM SrsAddressesExpire == Spec => []SrsExpires
  <1>1. AlgorithmsInv => SrsExpires
    <2> SUFFICES ASSUME AlgorithmsInv, input.of = "srs" PROVE SrsExpires
      BY DEF SrsExpires
    <2>1. input.day \in Nat
      BY DEF AlgorithmsInv, InputInv
    <2> DEFINE T == {0, (input.day + 1) % Period, Period + 1, 4 * Period}
    <2>2. T \in SUBSET Nat
      BY <2>1 DEF Period
    <2> HIDE DEF T
    <2>3. GoodForMaxAge("sender", input.day, T)
      BY <2>1, <2>2, SrsIsGoodForItsTime
    <2>4. QED
      BY <2>3 DEF SrsExpires, T
  <1>2. QED
    BY <1>1, AlgorithmsInvariance, PTL

(* apply_dot_stuffing on one side and handle_body_line on the other give the server the
   body that the client was given, up to the line end the client adds, and leave nothing
   to be read as a command: for every body. *)
THEOREM BodiesSurvive == Spec => []BodySurvivesTransport
  <1>1. AlgorithmsInv => BodySurvivesTransport
    <2> SUFFICES ASSUME AlgorithmsInv, input.of = "body" PROVE BodySurvivesTransport
      BY DEF BodySurvivesTransport
    <2>1. input.body \in Seq(Byte)
      BY DEF AlgorithmsInv, InputInv
    <2> DEFINE received == ReceiveBody(SendBody(input.body))
               ended == IF IsSuffix(CRLF, input.body) THEN input.body ELSE input.body \o CRLF
    <2>2. received = [line |-> <<>>, done |-> TRUE, rest |-> <<>>, body |-> ended]
      BY <2>1, BodyArrives
    <2>3. received.done /\ received.rest = <<>> /\ received.body = ended
      <3> HIDE DEF received, ended
      <3>1. QED
        BY <2>2
    <2>4. QED
      BY <2>3, Zenon DEF BodySurvivesTransport
  <1>2. QED
    BY <1>1, AlgorithmsInvariance, PTL

(* CompiledFilterSet labels only mail in which a keyword of the label occurs, and all of it
   where no two keywords overlap: for every set of rules and every text. *)
THEOREM FiltersLabelRightly == Spec => []LabelsMatchKeywords
  <1>1. AlgorithmsInv => LabelsMatchKeywords
    <2> SUFFICES ASSUME AlgorithmsInv, input.of = "text" PROVE LabelsMatchKeywords
      BY DEF LabelsMatchKeywords
    <2>1. /\ input.rules \in Seq([keyword : Seq(Letters), label : Nat])
          /\ input.text \in Seq(Letters)
      BY DEF AlgorithmsInv, InputInv
    <2> DEFINE rules == input.rules
               text == input.text
               given == FilterMatches(rules, text)
    <2>2. /\ given \subseteq Deserved(rules, text)
          /\ Apart(rules, text) => given = Deserved(rules, text)
      <3> HIDE DEF rules, text
      <3>1. rules \in Seq([keyword : Seq(Letters), label : Nat]) /\ text \in Seq(Letters)
        BY <2>1 DEF rules, text
      <3>2. QED
        BY <3>1, LabelsGiven, Zenon
    <2>3. QED
      BY <2>2, Zenon DEF LabelsMatchKeywords
  <1>2. QED
    BY <1>1, AlgorithmsInvariance, PTL
=============================================================================
