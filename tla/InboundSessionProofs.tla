----------------------- MODULE InboundSessionProofs -----------------------
(***************************************************************************)
(* Proofs about InboundSession, for every set of senders, aliases and      *)
(* reply mappings, any sequence of commands and any number of mails; and   *)
(* about what the server keeps of its clients (InboundGuard), for any      *)
(* number of addresses, sessions and restarts.                             *)
(***************************************************************************)
EXTENDS InboundSession, InboundGuard, FiniteSetTheorems, WellFoundedInduction, TLAPS

(* A body is announced or read only after a recipient was accepted.  Then, if no
   reply mapping is held, the alias and its forwarding settings are those of that
   recipient; and if the recipient is a reply token, the mapping held is that one
   and the sender is its owner. *)
EnvelopeInv ==
  /\ sender \in Senders \cup {None}
  /\ state \in {"Data", "ReadingBody"} =>
       /\ reply_mapping = None => /\ rcpt \in Aliases
                                 /\ alias_id = rcpt
                                 /\ destination = rcpt
       /\ rcpt \in Mappings => reply_mapping = rcpt /\ sender = Authorized[rcpt]

SessionInv ==
  /\ EnvelopeInv
  /\ NeverPanics
  /\ FiledUnderRecipient
  /\ RelayIsAuthorized

USE DEF envelope, outcome

LEMMA SessionInit == Init => SessionInv
  BY DEF Init, SessionInv, EnvelopeInv, NeverPanics, FiledUnderRecipient, RelayIsAuthorized

(* Commands that store and relay nothing. *)
LEMMA QuietStep ==
  ASSUME SessionInv, EnvelopeInv', UNCHANGED <<emails, relays>>, conn' # "panicked"
  PROVE  SessionInv'
  BY DEF SessionInv, NeverPanics, FiledUnderRecipient, RelayIsAuthorized

LEMMA SessionStep == SessionInv /\ [Next]_vars => SessionInv'
  <1> SUFFICES ASSUME SessionInv, [Next]_vars PROVE SessionInv'
    OBVIOUS
  <1> USE DEF Command, Open, OutsideBody
  <1>0. EnvelopeInv /\ conn # "panicked"
    BY DEF SessionInv, NeverPanics
  <1>1. CASE Greet
    BY <1>0, <1>1, QuietStep DEF Greet, EnvelopeInv
  <1>2. ASSUME NEW s \in Senders, MailFrom(s) PROVE SessionInv'
    BY <1>0, <1>2, QuietStep DEF MailFrom, EnvelopeInv
  <1>3. ASSUME NEW mp \in Mappings, RcptReply(mp) PROVE SessionInv'
    <2>1. EnvelopeInv'
      BY <1>0, <1>3, SessionAssumption DEF RcptReply, EnvelopeInv, None
    <2>2. QED
      BY <1>0, <1>3, <2>1, QuietStep DEF RcptReply
  <1>4. ASSUME NEW a \in Aliases, RcptAlias(a) PROVE SessionInv'
    <2>1. EnvelopeInv'
      BY <1>0, <1>4, SessionAssumption DEF RcptAlias, EnvelopeInv
    <2>2. QED
      BY <1>0, <1>4, <2>1, QuietStep DEF RcptAlias
  <1>5. CASE RcptBlocked
    BY <1>0, <1>5, QuietStep DEF RcptBlocked, EnvelopeInv
  <1>6. CASE Data
    BY <1>0, <1>6, QuietStep DEF Data, EnvelopeInv
  <1>7. ASSUME NEW line \in Lines, BodyLine(line) PROVE SessionInv'
    BY <1>0, <1>7, QuietStep DEF BodyLine, EnvelopeInv
  <1>8. CASE EndRelay
    <2>1. EnvelopeInv' /\ conn' # "panicked" /\ UNCHANGED emails
      BY <1>0, <1>8 DEF EndRelay, ResetForNext, EnvelopeInv
    <2>2. RelayIsAuthorized'
      BY <1>0, <1>8 DEF EndRelay, SessionInv, RelayIsAuthorized, EnvelopeInv
    <2>3. QED
      BY <2>1, <2>2 DEF SessionInv, NeverPanics, FiledUnderRecipient
  <1>9. CASE EndStore
    <2>1. alias_id # None /\ rcpt = alias_id /\ destination = alias_id
      BY <1>0, <1>9, SessionAssumption DEF EndStore, EnvelopeInv, None
    <2>2. StoreMail
      BY <1>9, <2>1 DEF EndStore
    <2>3. EnvelopeInv' /\ conn' # "panicked" /\ UNCHANGED relays
      BY <1>0, <2>2 DEF StoreMail, ResetForNext, EnvelopeInv
    <2>4. FiledUnderRecipient'
      BY <2>1, <2>2 DEF StoreMail, SessionInv, FiledUnderRecipient
    <2>5. QED
      BY <2>3, <2>4 DEF SessionInv, NeverPanics, RelayIsAuthorized
  <1>10. CASE EndInsertFails
    BY <1>0, <1>10, QuietStep DEF EndInsertFails, ResetForNext, EnvelopeInv
  <1>11. CASE EndIoError
    BY <1>0, <1>11, QuietStep DEF EndIoError, EnvelopeInv
  <1>12. CASE Rset
    BY <1>0, <1>12, QuietStep DEF Rset, EnvelopeInv
  <1>13. CASE StartTls
    BY <1>0, <1>13, QuietStep DEF StartTls, EnvelopeInv
  <1>14. CASE Leave
    BY <1>0, <1>14, QuietStep DEF Leave, EnvelopeInv
  <1>15. CASE UNCHANGED vars
    BY <1>0, <1>15, QuietStep DEF vars, EnvelopeInv
  <1>16. QED
    BY <1>1, <1>2, <1>3, <1>4, <1>5, <1>6, <1>7, <1>8, <1>9, <1>10, <1>11, <1>12, <1>13, <1>14,
       <1>15 DEF Next

(* SessionInv holds in every state of every session. *)
THEOREM SessionInvariance == Spec => []SessionInv
  BY SessionInit, SessionStep, PTL DEF Spec

(* handle_body_line's expect on alias_id never fires. *)
THEOREM SessionNeverPanics == Spec => []NeverPanics
  BY SessionInvariance, PTL DEF SessionInv

(* A mail is filed under, and forwarded by, the alias accepted for it. *)
THEOREM MailFiledUnderRecipient == Spec => []FiledUnderRecipient
  BY SessionInvariance, PTL DEF SessionInv

(* A reply addressed to a token goes out under that token, for its owner only. *)
THEOREM RepliesAreAuthorized == Spec => []RelayIsAuthorized
  BY SessionInvariance, PTL DEF SessionInv
-----------------------------------------------------------------------------
(* The body.  The size limit is a statement about a recursive sum, proved by
   induction over the lines. *)

(* Induction, from the theorem that every set of numbers has a least element: a set
   with 0 and with every successor is the set of all numbers. *)
LEMMA Induction ==
  ASSUME NEW S \in SUBSET Nat, 0 \in S, \A n \in S : n + 1 \in S
  PROVE  S = Nat
<1>. SUFFICES ASSUME Nat \ S # {} PROVE FALSE
  OBVIOUS
<1>1. PICK n \in Nat \ S : \A m \in Nat \ S : ~(<<m, n>> \in OpToRel(<, Nat))
  BY NatLessThanWellFounded, WFMin, Nat \ S \subseteq Nat
<1>2. \A m \in Nat \ S : ~(m < n)
  BY <1>1 DEF OpToRel
<1>. QED BY <1>2

(* f is the function TailBytes defines by recursion. *)
IsSum(f, text, k) ==
  f = [i \in 0..k |-> IF i = 0 THEN 0 ELSE f[i - 1] + Bytes[text[Len(text) - i + 1]]]

(* There is such a function for every length. *)
LEMMA SumExists ==
  ASSUME NEW text, NEW k \in Nat
  PROVE  \E f : IsSum(f, text, k)
<1>. DEFINE S == {n \in Nat : \E f : IsSum(f, text, n)}
<1>1. 0 \in S
  <2>1. IsSum([i \in 0..0 |-> 0], text, 0)
    BY DEF IsSum
  <2>. QED BY <2>1
<1>2. ASSUME NEW n \in S PROVE n + 1 \in S
  <2>1. PICK f : IsSum(f, text, n)
    BY <1>2
  <2>. DEFINE g == [i \in 0..(n + 1) |->
                     IF i = n + 1 THEN f[n] + Bytes[text[Len(text) - n]] ELSE f[i]]
  <2>2. ASSUME NEW i \in 0..(n + 1)
        PROVE  g[i] = IF i = 0 THEN 0 ELSE g[i - 1] + Bytes[text[Len(text) - i + 1]]
    <3>1. CASE i = n + 1
      <4>1. Len(text) - i + 1 = Len(text) - n
        BY <3>1
      <4>. QED BY <3>1, <4>1
    <3>2. CASE i # n + 1
      BY <3>2, <2>1 DEF IsSum
    <3>. QED BY <3>1, <3>2
  <2>3. IsSum(g, text, n + 1)
    BY <2>2 DEF IsSum
  <2>. QED BY <2>3
<1>3. S = Nat
  <2>. HIDE DEF S
  <2>1. S \in SUBSET Nat
    BY DEF S
  <2>. QED BY <1>1, <1>2, <2>1, Induction
<1>. QED BY <1>3

LEMMA TailBytesIsSum ==
  ASSUME NEW text, NEW k \in Nat
  PROVE  \E f : IsSum(f, text, k) /\ TailBytes(text, k) = f[k]
<1>. DEFINE f == CHOOSE f : IsSum(f, text, k)
<1>1. IsSum(f, text, k)
  BY SumExists, Zenon
<1>2. TailBytes(text, k) = f[k]
  BY DEF TailBytes, IsSum
<1>. QED BY <1>1, <1>2

(* An empty body has no bytes, and a line adds its own. *)
LEMMA EmptyBytes == TailBytes(<<>>, Len(<<>>)) = 0
<1>1. PICK f : IsSum(f, <<>>, 0) /\ TailBytes(<<>>, 0) = f[0]
  BY TailBytesIsSum
<1>. QED BY <1>1 DEF IsSum

LEMMA AppendedBytes ==
  ASSUME NEW text \in Seq(Lines), NEW line \in Lines
  PROVE  TailBytes(Append(text, line), Len(text) + 1) = TailBytes(text, Len(text)) + Bytes[line]
<1>. DEFINE n == Len(text)
            more == Append(text, line)
<1>1. n \in Nat /\ Len(more) = n + 1
  OBVIOUS
<1>2. PICK f : IsSum(f, text, n) /\ TailBytes(text, n) = f[n]
  BY TailBytesIsSum
<1>3. PICK g : IsSum(g, more, n + 1) /\ TailBytes(more, n + 1) = g[n + 1]
  BY TailBytesIsSum
<1>4. /\ f[0] = 0 /\ g[0] = 0
      /\ \A i \in 1..n : f[i] = f[i - 1] + Bytes[text[n - i + 1]]
      /\ \A i \in 1..(n + 1) : g[i] = g[i - 1] + Bytes[more[n + 1 - i + 1]]
  <2>. HIDE DEF n, more
  <2>1. f[0] = 0 /\ \A i \in 1..n : f[i] = f[i - 1] + Bytes[text[n - i + 1]]
    <3>1. \A i \in 0..n :
            f[i] = IF i = 0 THEN 0 ELSE f[i - 1] + Bytes[text[Len(text) - i + 1]]
      BY <1>2 DEF IsSum
    <3>2. Len(text) = n
      BY DEF n
    <3>. QED BY <1>1, <3>1, <3>2
  <2>2. g[0] = 0 /\ \A i \in 1..(n + 1) : g[i] = g[i - 1] + Bytes[more[n + 1 - i + 1]]
    <3>1. \A i \in 0..(n + 1) :
            g[i] = IF i = 0 THEN 0 ELSE g[i - 1] + Bytes[more[Len(more) - i + 1]]
      BY <1>1, <1>3 DEF IsSum
    <3>2. Len(more) = n + 1
      BY <1>1
    <3>. QED BY <1>1, <3>1, <3>2
  <2>. QED BY <2>1, <2>2
<1>. DEFINE S == {i \in Nat : i <= n => f[i] \in Nat /\ g[i + 1] = f[i] + Bytes[line]}
<1>5. 0 \in S
  <2>1. more[n + 1 - 1 + 1] = line /\ g[1] = g[0] + Bytes[more[n + 1 - 1 + 1]]
    BY <1>1, <1>4
  <2>2. Bytes[line] \in Nat
    BY SessionAssumption
  <2>. QED BY <2>1, <2>2, <1>4
<1>6. ASSUME NEW i \in S PROVE i + 1 \in S
  <2>. SUFFICES ASSUME i + 1 <= n
                PROVE  f[i + 1] \in Nat /\ g[i + 2] = f[i + 1] + Bytes[line]
    OBVIOUS
  <2>1. n - i \in 1..n /\ more[n - i] = text[n - i] /\ text[n - i] \in Lines
    BY <1>1
  <2>2. f[i + 1] = f[i] + Bytes[text[n - i]]
    BY <1>1, <1>4, n - (i + 1) + 1 = n - i, i + 1 \in 1..n
  <2>3. g[i + 2] = g[i + 1] + Bytes[text[n - i]]
    BY <1>1, <1>4, <2>1, n + 1 - (i + 2) + 1 = n - i, i + 2 \in 1..(n + 1)
  <2>4. Bytes[text[n - i]] \in Nat /\ Bytes[line] \in Nat
    BY <2>1, SessionAssumption
  <2>5. f[i] \in Nat /\ g[i + 1] = f[i] + Bytes[line]
    BY <1>1
  <2>. QED BY <2>2, <2>3, <2>4, <2>5
<1>7. S = Nat
  <2>. HIDE DEF S
  <2>1. S \in SUBSET Nat
    BY DEF S
  <2>. QED BY <1>5, <1>6, <2>1, Induction
<1>. QED BY <1>1, <1>2, <1>3, <1>7

(* Between mails the buffer is empty; while a body is read it holds the lines of this
   mail, and its size is the sum of their lengths. *)
BodyInv ==
  /\ typed \in Seq(Lines)
  /\ buffer.text \in Seq(Lines)
  /\ buffer.size \in Nat /\ buffer.size <= MaxTotal
  /\ buffer.size = TailBytes(buffer.text, Len(buffer.text))
  /\ state # "ReadingBody" => buffer = EmptyBuffer
  /\ state = "ReadingBody" /\ Open => buffer.text = typed
  /\ WholeBodyKept

LEMMA EmptyBody ==
  ASSUME buffer = EmptyBuffer
  PROVE  /\ buffer.text = <<>> /\ buffer.text \in Seq(Lines)
         /\ buffer.size \in Nat /\ buffer.size <= MaxTotal
         /\ buffer.size = TailBytes(buffer.text, Len(buffer.text))
  BY EmptyBytes, SessionAssumption DEF EmptyBuffer

LEMMA BodyInit == Init => BodyInv
  BY EmptyBody DEF Init, BodyInv, WholeBodyKept

(* A mail is finished, or given up: what was kept is kept, and the buffer is empty. *)
LEMMA ResetStep ==
  ASSUME BodyInv, ResetForNext, WholeBodyKept'
  PROVE  BodyInv'
<1>1. (buffer = EmptyBuffer)'
  BY DEF ResetForNext
<1>2. /\ buffer'.text \in Seq(Lines)
      /\ buffer'.size \in Nat /\ buffer'.size <= MaxTotal
      /\ buffer'.size = TailBytes(buffer'.text, Len(buffer'.text))
  BY <1>1, EmptyBytes, SessionAssumption DEF EmptyBuffer
<1>. QED BY <1>1, <1>2 DEF ResetForNext, BodyInv, Open

LEMMA BodyStep == BodyInv /\ [Next]_vars => BodyInv'
<1>. SUFFICES ASSUME BodyInv, [Next]_vars PROVE BodyInv'
  OBVIOUS
<1>. USE DEF Command, Open, OutsideBody
(* a command that leaves the body alone *)
<1>0. ASSUME UNCHANGED <<buffer, typed, emails, relays>>,
             state' = "ReadingBody" => state = "ReadingBody" /\ (Open' => Open),
             state = "ReadingBody" => state' = "ReadingBody"
      PROVE  BodyInv'
  BY <1>0 DEF BodyInv, WholeBodyKept
<1>1. CASE Greet \/ (\E s \in Senders : MailFrom(s)) \/ (\E mp \in Mappings : RcptReply(mp))
           \/ (\E a \in Aliases : RcptAlias(a)) \/ RcptBlocked
  BY <1>0, <1>1 DEF Greet, MailFrom, RcptReply, RcptAlias, RcptBlocked
<1>2. CASE EndIoError \/ StartTls \/ Leave \/ UNCHANGED vars
  BY <1>0, <1>2 DEF EndIoError, StartTls, Leave, vars
<1>3. CASE Data
  BY <1>3 DEF Data, BodyInv, WholeBodyKept, EmptyBuffer
<1>4. ASSUME NEW line \in Lines, BodyLine(line) PROVE BodyInv'
  <2>1. typed' \in Seq(Lines) /\ UNCHANGED <<state, emails, relays>>
    BY <1>4 DEF BodyLine, BodyInv
  <2>2. CASE Fits(line)
    <3>1. /\ buffer'.text = Append(buffer.text, line)
          /\ buffer'.size = buffer.size + Bytes[line]
          /\ typed' = Append(typed, line) /\ conn' = conn
      BY <1>4, <2>2 DEF BodyLine, Appended
    <3>2. buffer'.size = TailBytes(buffer'.text, Len(buffer'.text))
      BY <3>1, AppendedBytes DEF BodyInv
    <3>3. Bytes[line] \in Nat
      BY SessionAssumption
    <3>. QED BY <1>4, <2>1, <2>2, <3>1, <3>2, <3>3 DEF BodyLine, Fits, BodyInv, WholeBodyKept
  <2>3. CASE ~Fits(line)
    BY <1>4, <2>1, <2>3 DEF BodyLine, BodyInv, WholeBodyKept
  <2>. QED BY <2>2, <2>3
<1>5. CASE EndRelay
  BY <1>5, ResetStep DEF EndRelay, BodyInv, WholeBodyKept
<1>6. CASE EndStore
  <2>1. CASE Panic
    BY <1>0, <2>1 DEF Panic
  <2>2. CASE StoreMail
    BY <1>6, <2>2, ResetStep DEF EndStore, StoreMail, BodyInv, WholeBodyKept
  <2>. QED BY <1>6, <2>1, <2>2 DEF EndStore
<1>7. CASE EndInsertFails
  BY <1>7, ResetStep DEF EndInsertFails, BodyInv, WholeBodyKept
<1>8. CASE Rset
  <2>1. buffer' = EmptyBuffer /\ state' = "MailFrom" /\ UNCHANGED <<typed, emails, relays>>
    BY <1>8 DEF Rset
  <2>2. /\ buffer'.text \in Seq(Lines)
        /\ buffer'.size \in Nat /\ buffer'.size <= MaxTotal
        /\ buffer'.size = TailBytes(buffer'.text, Len(buffer'.text))
    BY <2>1, EmptyBytes, SessionAssumption DEF EmptyBuffer
  <2>. QED BY <2>1, <2>2 DEF BodyInv, WholeBodyKept
<1>. QED BY <1>1, <1>2, <1>3, <1>4, <1>5, <1>6, <1>7, <1>8 DEF Next

(* Every stored mail and every relayed reply consists of exactly the lines its client
   sent, and no stored mail is larger than max_total_size: whatever came before in the
   session, handle_body_line starts from an empty SmartBodyBuffer and loses nothing
   when it moves to disk. *)
THEOREM BodiesAreWhole == Spec => []WholeBodyKept
<1>1. BodyInv => WholeBodyKept
  BY DEF BodyInv
<1>. QED BY <1>1, BodyInit, BodyStep, PTL DEF Spec
-----------------------------------------------------------------------------
(* The rate limiter and the blocklist (InboundGuard) *)

(* f is the function SumUpTo defines by recursion. *)
IsTotal(f, counts, n) ==
  f = [i \in 0..n |-> IF i = 0 THEN counts[0] ELSE f[i - 1] + counts[i]]

(* There is such a function for every number of counts. *)
LEMMA TotalExists ==
  ASSUME NEW counts, NEW k \in Nat
  PROVE  \E f : IsTotal(f, counts, k)
<1>. DEFINE S == {n \in Nat : \E f : IsTotal(f, counts, n)}
<1>1. 0 \in S
  <2>1. IsTotal([i \in 0..0 |-> counts[0]], counts, 0)
    BY DEF IsTotal
  <2>. QED BY <2>1
<1>2. ASSUME NEW n \in S PROVE n + 1 \in S
  <2>1. PICK f : IsTotal(f, counts, n)
    BY <1>2
  <2>. DEFINE g == [i \in 0..(n + 1) |-> IF i = n + 1 THEN f[n] + counts[n + 1] ELSE f[i]]
  <2>2. ASSUME NEW i \in 0..(n + 1)
        PROVE  g[i] = IF i = 0 THEN counts[0] ELSE g[i - 1] + counts[i]
    <3>1. CASE i = n + 1
      BY <3>1
    <3>2. CASE i # n + 1
      BY <3>2, <2>1 DEF IsTotal
    <3>. QED BY <3>1, <3>2
  <2>3. IsTotal(g, counts, n + 1)
    BY <2>2 DEF IsTotal
  <2>. QED BY <2>3
<1>3. S = Nat
  <2>. HIDE DEF S
  <2>1. S \in SUBSET Nat
    BY DEF S
  <2>. QED BY <1>1, <1>2, <2>1, Induction
<1>. QED BY <1>3

LEMMA SumIsTotal ==
  ASSUME NEW counts, NEW n \in Nat
  PROVE  \E f : IsTotal(f, counts, n) /\ SumUpTo(counts, n) = f[n]
<1>. DEFINE f == CHOOSE f : IsTotal(f, counts, n)
<1>1. IsTotal(f, counts, n)
  BY TotalExists, Zenon
<1>2. SumUpTo(counts, n) = f[n]
  BY DEF SumUpTo, IsTotal
<1>. QED BY <1>1, <1>2

(* The sum of the first counts, one count at a time. *)
LEMMA SumUpToZero ==
  ASSUME NEW counts
  PROVE  SumUpTo(counts, 0) = counts[0]
<1>1. PICK f : IsTotal(f, counts, 0) /\ SumUpTo(counts, 0) = f[0]
  BY SumIsTotal
<1>. QED BY <1>1 DEF IsTotal

LEMMA SumUpToNext ==
  ASSUME NEW counts, NEW n \in Nat
  PROVE  SumUpTo(counts, n + 1) = SumUpTo(counts, n) + counts[n + 1]
<1>1. PICK f : IsTotal(f, counts, n) /\ SumUpTo(counts, n) = f[n]
  BY SumIsTotal
<1>2. PICK g : IsTotal(g, counts, n + 1) /\ SumUpTo(counts, n + 1) = g[n + 1]
  BY SumIsTotal
<1>. DEFINE S == {i \in Nat : i <= n => g[i] = f[i]}
<1>3. 0 \in S
  BY <1>1, <1>2 DEF IsTotal
<1>4. ASSUME NEW i \in S PROVE i + 1 \in S
  <2>. SUFFICES ASSUME i + 1 <= n PROVE g[i + 1] = f[i + 1]
    OBVIOUS
  <2>1. g[i + 1] = g[i] + counts[i + 1] /\ f[i + 1] = f[i] + counts[i + 1]
    BY <1>1, <1>2 DEF IsTotal
  <2>. QED BY <2>1
<1>5. S = Nat
  <2>. HIDE DEF S
  <2>1. S \in SUBSET Nat
    BY DEF S
  <2>. QED BY <1>3, <1>4, <2>1, Induction
<1>6. g[n + 1] = g[n] + counts[n + 1]
  BY <1>2 DEF IsTotal
<1>. QED BY <1>1, <1>2, <1>5, <1>6

Counts == [0..MaxAge -> Nat]

LEMMA SumUpToType ==
  ASSUME MaxAge \in Nat, NEW counts \in Counts, NEW k \in 0..MaxAge
  PROVE  SumUpTo(counts, k) \in Nat
<1>. DEFINE S == {n \in Nat : n <= MaxAge => SumUpTo(counts, n) \in Nat}
<1>1. 0 \in S
  BY SumUpToZero DEF Counts
<1>2. ASSUME NEW n \in S PROVE n + 1 \in S
  <2>1. n + 1 <= MaxAge => counts[n + 1] \in Nat
    BY DEF Counts
  <2>. QED BY <2>1, SumUpToNext
<1>3. S = Nat
  <2>. HIDE DEF S
  <2>1. S \in SUBSET Nat
    BY DEF S
  <2>. QED BY <1>1, <1>2, <2>1, Induction
<1>. QED BY <1>3

(* Without failures the sum is 0. *)
LEMMA SumOfNone ==
  ASSUME NEW counts, NEW k \in Nat, \A a \in 0..k : counts[a] = 0
  PROVE  SumUpTo(counts, k) = 0
<1>. DEFINE S == {n \in Nat : n <= k => SumUpTo(counts, n) = 0}
<1>1. 0 \in S
  BY SumUpToZero
<1>2. ASSUME NEW n \in S PROVE n + 1 \in S
  BY SumUpToNext
<1>3. S = Nat
  <2>. HIDE DEF S
  <2>1. S \in SUBSET Nat
    BY DEF S
  <2>. QED BY <1>1, <1>2, <2>1, Induction
<1>. QED BY <1>3

(* One more failure of age 0 adds one. *)
LEMMA SumAfterFailure ==
  ASSUME MaxAge \in Nat, NEW counts \in Counts, NEW more \in Counts, more[0] = counts[0] + 1,
         \A a \in 1..MaxAge : more[a] = counts[a], NEW k \in 0..MaxAge
  PROVE  SumUpTo(more, k) = SumUpTo(counts, k) + 1
<1>. DEFINE S == {n \in Nat : n <= MaxAge => SumUpTo(more, n) = SumUpTo(counts, n) + 1}
<1>1. 0 \in S
  BY SumUpToZero
<1>2. ASSUME NEW n \in S PROVE n + 1 \in S
  <2>. SUFFICES ASSUME n + 1 <= MaxAge
                PROVE  SumUpTo(more, n + 1) = SumUpTo(counts, n + 1) + 1
    OBVIOUS
  <2>1. more[n + 1] = counts[n + 1] /\ counts[n + 1] \in Nat
    BY DEF Counts
  <2>2. SumUpTo(counts, n) \in Nat /\ SumUpTo(more, n) = SumUpTo(counts, n) + 1
    BY SumUpToType, n \in 0..MaxAge
  <2>3. /\ SumUpTo(more, n + 1) = SumUpTo(more, n) + more[n + 1]
        /\ SumUpTo(counts, n + 1) = SumUpTo(counts, n) + counts[n + 1]
    BY SumUpToNext
  <2>. QED BY <2>1, <2>2, <2>3
<1>3. S = Nat
  <2>. HIDE DEF S
  <2>1. S \in SUBSET Nat
    BY DEF S
  <2>. QED BY <1>1, <1>2, <2>1, Induction
<1>. QED BY <1>3

(* When everything is one period older, no sum has grown. *)
LEMMA SumAfterTick ==
  ASSUME MaxAge \in Nat, NEW counts \in Counts, NEW older \in Counts, older[0] = 0,
         \A a \in 1..MaxAge : older[a] = counts[a - 1], NEW k \in 0..MaxAge
  PROVE  SumUpTo(older, k) <= SumUpTo(counts, k)
<1>. DEFINE S == {n \in Nat : n + 1 <= MaxAge => SumUpTo(older, n + 1) = SumUpTo(counts, n)}
<1>1. 0 \in S
  <2>. SUFFICES ASSUME 1 <= MaxAge PROVE SumUpTo(older, 0 + 1) = SumUpTo(counts, 0)
    OBVIOUS
  <2>1. SumUpTo(older, 0 + 1) = older[0] + older[0 + 1] /\ SumUpTo(counts, 0) = counts[0]
    BY SumUpToZero, SumUpToNext
  <2>2. older[0 + 1] = counts[0] /\ counts[0] \in Nat
    BY DEF Counts
  <2>. QED BY <2>1, <2>2
<1>2. ASSUME NEW n \in S PROVE n + 1 \in S
  <2>. SUFFICES ASSUME n + 1 + 1 <= MaxAge
                PROVE  SumUpTo(older, n + 1 + 1) = SumUpTo(counts, n + 1)
    OBVIOUS
  <2>1. /\ SumUpTo(older, n + 1 + 1) = SumUpTo(older, n + 1) + older[n + 1 + 1]
        /\ SumUpTo(counts, n + 1) = SumUpTo(counts, n) + counts[n + 1]
    BY SumUpToNext
  <2>2. older[n + 1 + 1] = counts[n + 1]
    BY n + 1 + 1 \in 1..MaxAge, n + 1 + 1 - 1 = n + 1
  <2>. QED BY <2>1, <2>2
<1>3. S = Nat
  <2>. HIDE DEF S
  <2>1. S \in SUBSET Nat
    BY DEF S
  <2>. QED BY <1>1, <1>2, <2>1, Induction
<1>4. CASE k = 0
  BY <1>4, SumUpToZero DEF Counts
<1>5. CASE k # 0
  <2>1. PICK n \in Nat : k = n + 1
    BY <1>5, k - 1 \in Nat, k = (k - 1) + 1
  <2>2. SumUpTo(older, k) = SumUpTo(counts, n)
    BY <1>3, <2>1
  <2>3. SumUpTo(counts, k) = SumUpTo(counts, n) + counts[k]
    BY <2>1, SumUpToNext
  <2>4. counts[k] \in Nat /\ SumUpTo(counts, n) \in Nat
    BY <2>1, n \in 0..MaxAge, SumUpToType DEF Counts
  <2>. QED BY <2>2, <2>3, <2>4
<1>. QED BY <1>4, <1>5

(* The counters: an address that has no failures counted, or was last seen some periods
   ago, has made none since. *)
QuietSinceSeen ==
  \A ip \in IPs, a \in 0..(MaxAge - 1) :
    a < entries[ip].age \/ entries[ip].failures = 0 => recent[ip][a] = 0

CountsInv ==
  /\ entries \in [IPs -> [failures : Nat, age : Nat]]
  /\ recent \in [IPs -> Counts]
  /\ QuietSinceSeen
  /\ NeverUndercounts

(* The blocks in memory that are neither on file nor about to be. *)
Pending == {session[s].ip : s \in {x \in Sessions : session[x].pc = "append"}}
Lost == ips \ (file \cup Pending)

BlocksInv ==
  /\ session \in [Sessions -> [pc : {"closed", "open", "tarpit", "block", "append"},
                               ip : IPs \cup {"none"}]]
  /\ \A s \in Sessions : session[s].pc # "closed" => session[s].ip \in IPs
  /\ IsFiniteSet(ips) /\ IsFiniteSet(file)
  /\ writeErrors \in Nat
  /\ BlocksAreOnFile

GuardInv == CountsInv /\ BlocksInv

LEMMA LostCount == BlocksAreOnFile <=> Cardinality(Lost) <= writeErrors
  BY DEF BlocksAreOnFile, Lost, Pending

LEMMA GuardStarts == GuardInit => GuardInv
<1>. SUFFICES ASSUME GuardInit PROVE GuardInv
  OBVIOUS
<1>. USE GuardAssumption
<1>1. entries \in [IPs -> [failures : Nat, age : Nat]] /\ recent \in [IPs -> Counts] /\ QuietSinceSeen
  BY DEF GuardInit, NoEntry, NoFailures, Ages, Counts, QuietSinceSeen
<1>2. NeverUndercounts
  <2>. SUFFICES ASSUME NEW ip \in IPs
                PROVE  SumUpTo(recent[ip], MaxAge - 1) <= entries[ip].failures
    BY DEF NeverUndercounts, RecentFailures
  <2>1. \A a \in 0..(MaxAge - 1) : recent[ip][a] = 0
    BY DEF GuardInit, NoFailures, Ages
  <2>2. SumUpTo(recent[ip], MaxAge - 1) = 0
    BY <2>1, SumOfNone, MaxAge - 1 \in Nat
  <2>. QED BY <2>2 DEF GuardInit, NoEntry
<1>3. BlocksInv
  <2>1. ips = {} /\ file = {} /\ writeErrors = 0 /\ session = [s \in Sessions |-> Closed]
    BY DEF GuardInit
  <2>2. BlocksAreOnFile
    BY <2>1, LostCount, FS_EmptySet, {} \ (file \cup Pending) = {} DEF Lost
  <2>. QED BY <2>1, <2>2, FS_EmptySet DEF BlocksInv, Closed
<1>. QED BY <1>1, <1>2, <1>3 DEF GuardInv, CountsInv

(* Cleanup forgets only what is older than MaxAge, and time only makes failures older. *)
LEMMA CountsStep ==
  ASSUME CountsInv,
         \A s \in Sessions : session[s].pc # "closed" => session[s].ip \in IPs, GuardNext
  PROVE  CountsInv'
<1>. USE GuardAssumption
<1>0. MaxAge - 1 \in 0..MaxAge /\ MaxAge \in Nat
  OBVIOUS
<1>t. /\ \A ip \in IPs : entries[ip].failures \in Nat /\ entries[ip].age \in Nat /\ recent[ip] \in Counts
      /\ \A ip \in IPs : SumUpTo(recent[ip], MaxAge - 1) <= entries[ip].failures
      /\ \A ip \in IPs : SumUpTo(recent[ip], MaxAge - 1) \in Nat
  <2>1. \A ip \in IPs : entries[ip].failures \in Nat /\ entries[ip].age \in Nat /\ recent[ip] \in Counts
    BY DEF CountsInv
  <2>. QED BY <1>0, <2>1, SumUpToType DEF CountsInv, NeverUndercounts, RecentFailures
<1>1. CASE UNCHANGED <<entries, recent>>
  BY <1>1 DEF CountsInv, QuietSinceSeen, NeverUndercounts, RecentFailures
<1>2. ASSUME NEW s \in Sessions, UnknownRecipient(s) PROVE CountsInv'
  <2>1. PICK i \in IPs : i = session[s].ip
    BY <1>2 DEF UnknownRecipient
  <2>2. /\ entries' = [entries EXCEPT ![i] = [failures |-> entries[i].failures + 1, age |-> 0]]
        /\ recent' = [recent EXCEPT ![i][0] = @ + 1]
    BY <1>2, <2>1 DEF UnknownRecipient, Recorded
  <2>3. entries' \in [IPs -> [failures : Nat, age : Nat]] /\ recent' \in [IPs -> Counts]
    BY <2>2 DEF CountsInv, Counts
  <2>4. QuietSinceSeen'
    BY <2>2, <1>t DEF CountsInv, QuietSinceSeen
  <2>5. SumUpTo(recent'[i], MaxAge - 1) = SumUpTo(recent[i], MaxAge - 1) + 1
    <3>1. recent'[i][0] = recent[i][0] + 1 /\ \A a \in 1..MaxAge : recent'[i][a] = recent[i][a]
      BY <2>2, <1>t DEF CountsInv, Counts
    <3>2. recent[i] \in Counts /\ recent'[i] \in Counts
      BY <2>3, <1>t
    <3>. QED BY <1>0, <3>1, <3>2, SumAfterFailure
  <2>6. NeverUndercounts'
    <3>1. ASSUME NEW ip \in IPs
          PROVE  SumUpTo(recent'[ip], MaxAge - 1) <= entries'[ip].failures
      <4>1. CASE ip = i
        BY <2>2, <2>5, <1>t, <4>1 DEF CountsInv
      <4>2. CASE ip # i
        BY <2>2, <1>t, <4>2 DEF CountsInv
      <4>. QED BY <4>1, <4>2
    <3>. QED BY <3>1 DEF NeverUndercounts, RecentFailures
  <2>. QED BY <2>3, <2>4, <2>6 DEF CountsInv
<1>3. CASE Cleanup
  <2>1. /\ recent' = recent
        /\ \A ip \in IPs : entries'[ip] = IF entries[ip].age < MaxAge THEN entries[ip] ELSE NoEntry
        /\ entries' \in [IPs -> [failures : Nat, age : Nat]]
    BY <1>3 DEF Cleanup, NoEntry, CountsInv
  <2>2. QuietSinceSeen'
    BY <2>1, <1>t DEF CountsInv, QuietSinceSeen, NoEntry
  <2>3. ASSUME NEW ip \in IPs
        PROVE  SumUpTo(recent[ip], MaxAge - 1) <= entries'[ip].failures
    <3>1. CASE entries[ip].age < MaxAge
      BY <2>1, <1>t, <3>1
    <3>2. CASE ~(entries[ip].age < MaxAge)
      <4>1. \A a \in 0..(MaxAge - 1) : recent[ip][a] = 0
        BY <1>t, <3>2 DEF CountsInv, QuietSinceSeen
      <4>2. SumUpTo(recent[ip], MaxAge - 1) = 0
        BY <4>1, SumOfNone, MaxAge - 1 \in Nat
      <4>. QED BY <2>1, <3>2, <4>2 DEF NoEntry
    <3>. QED BY <3>1, <3>2
  <2>4. NeverUndercounts'
    BY <2>1, <2>3 DEF NeverUndercounts, RecentFailures
  <2>. QED BY <2>1, <2>2, <2>4 DEF CountsInv
<1>4. CASE Tick
  <2>1. /\ \A ip \in IPs : entries'[ip].failures = entries[ip].failures
        /\ \A ip \in IPs : entries'[ip].age = entries[ip].age + 1 \/ entries[ip].failures = 0
        /\ entries' \in [IPs -> [failures : Nat, age : Nat]]
    <3>1. ASSUME NEW ip \in IPs
          PROVE  /\ entries'[ip] \in [failures : Nat, age : Nat]
                 /\ entries'[ip].failures = entries[ip].failures
                 /\ entries'[ip].age = entries[ip].age + 1 \/ entries[ip].failures = 0
      <4>1. entries[ip] \in [failures : Nat, age : Nat]
        BY DEF CountsInv
      <4>2. CASE entries[ip] = NoEntry
        BY <1>4, <4>1, <4>2 DEF Tick, NoEntry
      <4>3. CASE entries[ip] # NoEntry
        <5>1. entries'[ip] = [entries[ip] EXCEPT !.age = @ + 1]
          BY <1>4, <4>3 DEF Tick
        <5>. QED BY <4>1, <5>1
      <4>. QED BY <4>2, <4>3
    <3>2. entries' = [ip \in IPs |-> entries'[ip]]
      BY <1>4 DEF Tick
    <3>. QED BY <3>1, <3>2
  <2>2. \A ip \in IPs : /\ recent'[ip] \in Counts /\ recent'[ip][0] = 0
                        /\ \A a \in 1..MaxAge : recent'[ip][a] = recent[ip][a - 1]
    <3>. SUFFICES ASSUME NEW ip \in IPs
                  PROVE  /\ recent'[ip] \in Counts /\ recent'[ip][0] = 0
                         /\ \A a \in 1..MaxAge : recent'[ip][a] = recent[ip][a - 1]
      OBVIOUS
    <3>1. recent'[ip] = [a \in 0..MaxAge |-> IF a = 0 THEN 0 ELSE recent[ip][a - 1]]
      BY <1>4 DEF Tick, Ages
    <3>2. \A a \in 1..MaxAge : recent[ip][a - 1] \in Nat
      BY <1>t DEF Counts
    <3>. QED BY <3>1, <3>2 DEF Counts
  <2>3. recent' \in [IPs -> Counts]
    BY <1>4, <2>2 DEF Tick
  <2>4. QuietSinceSeen'
    BY <2>1, <2>2, <1>t DEF CountsInv, QuietSinceSeen
  <2>5. ASSUME NEW ip \in IPs
        PROVE  SumUpTo(recent'[ip], MaxAge - 1) <= entries'[ip].failures
    <3>1. SumUpTo(recent'[ip], MaxAge - 1) <= SumUpTo(recent[ip], MaxAge - 1)
      BY <1>0, <1>t, <2>2, SumAfterTick
    <3>2. SumUpTo(recent'[ip], MaxAge - 1) \in Nat
      BY <1>0, <2>2, SumUpToType
    <3>. QED BY <3>1, <3>2, <1>t, <2>1
  <2>6. NeverUndercounts'
    BY <2>5 DEF NeverUndercounts, RecentFailures
  <2>. QED BY <2>1, <2>3, <2>4, <2>6 DEF CountsInv
<1>5. CASE Restart
  <2>1. /\ entries' \in [IPs -> [failures : Nat, age : Nat]] /\ recent' \in [IPs -> Counts]
        /\ \A ip \in IPs : entries'[ip].failures = 0 /\ \A a \in 0..MaxAge : recent'[ip][a] = 0
    BY <1>5 DEF Restart, NoEntry, NoFailures, Ages, Counts
  <2>2. QuietSinceSeen'
    BY <2>1 DEF QuietSinceSeen
  <2>3. \A ip \in IPs : SumUpTo(recent'[ip], MaxAge - 1) = 0
    BY <2>1, SumOfNone, MaxAge - 1 \in Nat
  <2>4. NeverUndercounts'
    BY <2>1, <2>3 DEF NeverUndercounts, RecentFailures
  <2>. QED BY <2>1, <2>2, <2>4 DEF CountsInv
<1>. QED BY <1>1, <1>2, <1>3, <1>4, <1>5 DEF GuardNext, Accept, Hangup, TarpitEnds,
         BlockInMemory, AppendToFile

(* A block can only get lost with a write error. *)
LEMMA LostBlocks ==
  ASSUME BlocksInv, NEW S, Lost' \subseteq Lost \cup S,
         \/ S = {} /\ writeErrors' = writeErrors
         \/ (\E ip : S = {ip}) /\ writeErrors' = writeErrors + 1
  PROVE  BlocksAreOnFile' /\ writeErrors' \in Nat
<1>1. IsFiniteSet(Lost) /\ Cardinality(Lost) \in Nat /\ Cardinality(Lost) <= writeErrors
  <2>1. IsFiniteSet(ips) /\ Lost \in SUBSET ips
    BY DEF BlocksInv, Lost
  <2>2. IsFiniteSet(Lost)
    BY <2>1, FS_Subset
  <2>. QED BY <2>2, LostCount, FS_CardinalityType DEF BlocksInv
<1>2. Cardinality(Lost') <= writeErrors'
  <2>1. CASE S = {} /\ writeErrors' = writeErrors
    <3>1. Lost' \subseteq Lost
      BY <2>1
    <3>2. Cardinality(Lost') <= Cardinality(Lost) /\ IsFiniteSet(Lost')
      BY <1>1, <3>1, FS_Subset
    <3>. QED BY <1>1, <2>1, <3>2, FS_CardinalityType DEF BlocksInv
  <2>2. CASE (\E ip : S = {ip}) /\ writeErrors' = writeErrors + 1
    <3>1. PICK ip : S = {ip}
      BY <2>2
    <3>2. IsFiniteSet(Lost \cup {ip}) /\ Cardinality(Lost \cup {ip}) <= Cardinality(Lost) + 1
      BY <1>1, FS_AddElement
    <3>3. IsFiniteSet(Lost') /\ Cardinality(Lost') <= Cardinality(Lost \cup {ip})
      BY <3>1, <3>2, FS_Subset
    <3>. QED BY <1>1, <2>2, <3>2, <3>3, FS_CardinalityType DEF BlocksInv
  <2>. QED BY <2>1, <2>2
<1>3. (BlocksAreOnFile <=> Cardinality(Lost) <= writeErrors)'
  BY LostCount, PTL
<1>. QED BY <1>2, <1>3 DEF BlocksInv

LEMMA BlocksStep ==
  ASSUME BlocksInv, GuardNext
  PROVE  BlocksInv'
<1>. DEFINE Fine == /\ session' \in [Sessions -> [pc : {"closed", "open", "tarpit", "block", "append"},
                                                 ip : IPs \cup {"none"}]]
                    /\ \A s \in Sessions : session'[s].pc # "closed" => session'[s].ip \in IPs
(* a step of a session that neither starts nor ends an append *)
<1>1. ASSUME NEW s \in Sessions, session[s].pc # "append",
             NEW q \in [pc : {"closed", "open", "tarpit", "block"}, ip : IPs \cup {"none"}],
             q.pc # "closed" => q.ip \in IPs, session' = [session EXCEPT ![s] = q],
             ips' = ips \/ (ips' = ips \cup {session[s].ip} /\ session[s].ip \in ips),
             UNCHANGED <<file, writeErrors>>
      PROVE  BlocksInv'
  <2>1. Pending' = Pending
    BY <1>1 DEF Pending, BlocksInv
  <2>2. ips' = ips
    BY <1>1
  <2>3. BlocksAreOnFile' /\ writeErrors' \in Nat
    BY <1>1, <2>1, <2>2, LostBlocks DEF Lost
  <2>4. Fine
    BY <1>1 DEF BlocksInv
  <2>. QED BY <1>1, <2>2, <2>3, <2>4 DEF BlocksInv
<1>2. ASSUME NEW s \in Sessions, NEW ip \in IPs, Accept(s, ip) PROVE BlocksInv'
  <2>1. [pc |-> "open", ip |-> ip] \in [pc : {"closed", "open", "tarpit", "block"}, ip : IPs \cup {"none"}]
    OBVIOUS
  <2>2. session[s].pc = "closed" /\ session' = [session EXCEPT ![s] = [pc |-> "open", ip |-> ip]]
    BY <1>2 DEF Accept, Closed
  <2>3. UNCHANGED <<ips, file, writeErrors>>
    BY <1>2 DEF Accept, faults
  <2>4. PICK q \in [pc : {"closed", "open", "tarpit", "block"}, ip : IPs \cup {"none"}] :
          q = [pc |-> "open", ip |-> ip]
    BY <2>1
  <2>. QED BY <1>1, <2>2, <2>3, <2>4
<1>3. ASSUME NEW s \in Sessions, Hangup(s) PROVE BlocksInv'
  BY <1>1, <1>3 DEF Hangup, Closed, faults
<1>4. ASSUME NEW s \in Sessions, UnknownRecipient(s) PROVE BlocksInv'
  <2>1. PICK v \in {"block", "tarpit", "open"} : session' = [session EXCEPT ![s].pc = v]
    BY <1>4, Zenon DEF UnknownRecipient, Verdict
  <2>. DEFINE q == [session[s] EXCEPT !.pc = v]
  <2>2. /\ q \in [pc : {"closed", "open", "tarpit", "block"}, ip : IPs \cup {"none"}]
        /\ q.ip \in IPs /\ session' = [session EXCEPT ![s] = q]
    <3>1. /\ session[s] \in [pc : {"closed", "open", "tarpit", "block", "append"}, ip : IPs \cup {"none"}]
          /\ session[s].ip \in IPs
      BY <1>4 DEF UnknownRecipient, BlocksInv
    <3>2. session' = [session EXCEPT ![s] = q]
      BY <2>1
    <3>. QED BY <3>1, <3>2
  <2>. HIDE DEF q
  <2>. QED BY <1>1, <1>4, <2>2 DEF UnknownRecipient, faults
<1>5. ASSUME NEW s \in Sessions, TarpitEnds(s) PROVE BlocksInv'
  <2>. DEFINE q == [session[s] EXCEPT !.pc = "open"]
  <2>1. /\ q \in [pc : {"closed", "open", "tarpit", "block"}, ip : IPs \cup {"none"}]
        /\ q.ip \in IPs /\ session' = [session EXCEPT ![s] = q]
    BY <1>5 DEF TarpitEnds, BlocksInv
  <2>. HIDE DEF q
  <2>. QED BY <1>1, <1>5, <2>1 DEF TarpitEnds, faults
<1>6. ASSUME NEW s \in Sessions, BlockInMemory(s) PROVE BlocksInv'
  <2>1. CASE session[s].ip \in ips
    BY <1>1, <1>6, <2>1 DEF BlockInMemory, Closed, faults
  <2>2. CASE session[s].ip \notin ips
    <3>1. PICK ip \in IPs : ip = session[s].ip
      BY <1>6 DEF BlockInMemory, BlocksInv
    <3>2. /\ ips' = ips \cup {ip} /\ UNCHANGED <<file, writeErrors>>
          /\ session' = [session EXCEPT ![s] = [session[s] EXCEPT !.pc = "append"]]
      BY <1>6, <2>2, <3>1 DEF BlockInMemory, faults
    <3>3. Fine /\ session'[s].pc = "append" /\ session'[s].ip = ip
          /\ \A x \in Sessions : x # s => session'[x] = session[x]
      BY <1>6, <3>1, <3>2 DEF BlockInMemory, BlocksInv
    <3>4. Pending \cup {ip} \subseteq Pending'
      BY <1>6, <3>3 DEF Pending, BlockInMemory
    <3>5. BlocksAreOnFile' /\ writeErrors' \in Nat
      BY <3>2, <3>4, LostBlocks DEF Lost
    <3>6. IsFiniteSet(ips')
      BY <3>2, FS_AddElement DEF BlocksInv
    <3>. QED BY <3>2, <3>3, <3>5, <3>6 DEF BlocksInv
  <2>. QED BY <2>1, <2>2
<1>7. ASSUME NEW s \in Sessions, AppendToFile(s) PROVE BlocksInv'
  <2>1. PICK ip \in IPs : ip = session[s].ip
    BY <1>7 DEF AppendToFile, BlocksInv
  <2>2. session' = [session EXCEPT ![s] = Closed] /\ ips' = ips
    BY <1>7 DEF AppendToFile
  <2>3. Fine
    BY <2>2 DEF Closed, BlocksInv
  <2>4. Pending \subseteq Pending' \cup {ip}
    BY <2>1, <2>2 DEF Pending, BlocksInv
  <2>5. CASE file' = file \cup {ip} /\ writeErrors' = writeErrors
    <3>1. BlocksAreOnFile' /\ writeErrors' \in Nat
      BY <2>2, <2>4, <2>5, LostBlocks DEF Lost
    <3>2. IsFiniteSet(file')
      BY <2>5, FS_AddElement DEF BlocksInv
    <3>. QED BY <2>2, <2>3, <3>1, <3>2 DEF BlocksInv
  <2>6. CASE file' = file /\ writeErrors' = writeErrors + 1
    <3>1. Lost' \subseteq Lost \cup {ip}
      BY <2>2, <2>4, <2>6 DEF Lost
    <3>2. BlocksAreOnFile' /\ writeErrors' \in Nat
      BY <2>6, <3>1, LostBlocks
    <3>. QED BY <2>2, <2>3, <2>6, <3>2 DEF BlocksInv
  <2>. QED BY <1>7, <2>1, <2>5, <2>6 DEF AppendToFile
<1>8. CASE Cleanup \/ Tick
  <2>1. UNCHANGED <<ips, file, session, writeErrors>>
    BY <1>8 DEF Cleanup, Tick, faults
  <2>2. BlocksAreOnFile' /\ writeErrors' \in Nat
    BY <2>1, LostBlocks DEF Lost, Pending
  <2>. QED BY <2>1, <2>2 DEF BlocksInv
<1>9. CASE Restart
  <2>1. /\ ips' = file /\ file' = file /\ writeErrors' = writeErrors
        /\ session' = [s \in Sessions |-> Closed]
    BY <1>9 DEF Restart
  <2>2. BlocksAreOnFile' /\ writeErrors' \in Nat
    BY <2>1, LostBlocks DEF Lost
  <2>3. Fine
    BY <2>1 DEF Closed
  <2>. QED BY <2>1, <2>2, <2>3 DEF BlocksInv
<1>. QED BY <1>2, <1>3, <1>4, <1>5, <1>6, <1>7, <1>8, <1>9 DEF GuardNext

(* GuardInv holds in every state, with any number of addresses, sessions and restarts. *)
THEOREM GuardInvariance == GuardSpec => []GuardInv
<1>1. GuardInv /\ [GuardNext]_guardVars => GuardInv'
  <2>1. GuardInv /\ UNCHANGED guardVars => GuardInv'
    BY DEF guardVars, faults, GuardInv, CountsInv, BlocksInv, QuietSinceSeen, NeverUndercounts,
           RecentFailures, BlocksAreOnFile
  <2>2. GuardInv /\ GuardNext => GuardInv'
    BY CountsStep, BlocksStep DEF GuardInv, BlocksInv
  <2>. QED BY <2>1, <2>2
<1>. QED BY <1>1, GuardStarts, PTL DEF GuardSpec

(* record_failure and cleanup never make the server forget a failure of the last MaxAge
   periods, whatever sessions the address has open. *)
THEOREM RecentFailuresCount == GuardSpec => []NeverUndercounts
  BY GuardInvariance, PTL DEF GuardInv, CountsInv

(* add_ip: although one session writes for all, and whenever the process is restarted,
   at most one blocked address per failed write is missing from the file. *)
THEOREM BlocksSurviveRestarts == GuardSpec => []BlocksAreOnFile
  BY GuardInvariance, PTL DEF GuardInv, BlocksInv

=============================================================================
