--------------------------- MODULE SequenceFacts ---------------------------
(***************************************************************************)
(* Facts about sequences and numbers that the proofs about the queues and   *)
(* the buffers need and the library does not state.                        *)
(***************************************************************************)
EXTENDS Integers, Sequences, SequenceTheorems, TLAPS

(* Appending to the second of two sequences appends to the whole.           *)
LEMMA AppendToConcat ==
  ASSUME NEW S, NEW s \in Seq(S), NEW r \in Seq(S), NEW e \in S
  PROVE  s \o Append(r, e) = Append(s \o r, e)
<1>1. s \o Append(r, e) = s \o (r \o <<e>>)
  BY AppendIsConcat
<1>2. s \o (r \o <<e>>) = (s \o r) \o <<e>>
  BY ConcatAssociative
<1>3. s \o r \in Seq(S)
  BY ConcatProperties
<1>4. (s \o r) \o <<e>> = Append(s \o r, e)
  BY <1>3, AppendIsConcat
<1> QED
  BY <1>1, <1>2, <1>4

(* The head of two sequences is that of the first, if there is one.         *)
LEMMA HeadTailConcat ==
  ASSUME NEW S, NEW s \in Seq(S), NEW r \in Seq(S), s # <<>>
  PROVE  /\ s \o r # <<>>
         /\ Head(s \o r) = Head(s)
         /\ Tail(s \o r) = Tail(s) \o r
<1>1. /\ s \o r \in Seq(S) /\ Len(s \o r) = Len(s) + Len(r) /\ Len(s) \in Nat \ {0}
      /\ Len(r) \in Nat
      /\ \A i \in 1..Len(s) + Len(r) :
           (s \o r)[i] = IF i <= Len(s) THEN s[i] ELSE r[i - Len(s)]
  BY ConcatProperties
<1>2. s \o r # <<>> /\ Head(s \o r) = Head(s)
  BY <1>1
<1>3. /\ Tail(s) \in Seq(S) /\ Len(Tail(s)) = Len(s) - 1
      /\ \A i \in 1..Len(s) - 1 : Tail(s)[i] = s[i + 1]
  BY HeadTailProperties
<1>4. /\ Tail(s) \o r \in Seq(S) /\ Len(Tail(s) \o r) = Len(s) - 1 + Len(r)
      /\ \A i \in 1..Len(s) - 1 + Len(r) :
           (Tail(s) \o r)[i] = IF i <= Len(s) - 1 THEN Tail(s)[i] ELSE r[i - (Len(s) - 1)]
  BY <1>3, ConcatProperties
<1>5. /\ Tail(s \o r) \in Seq(S) /\ Len(Tail(s \o r)) = Len(s) + Len(r) - 1
      /\ \A i \in 1..Len(s) + Len(r) - 1 : Tail(s \o r)[i] = (s \o r)[i + 1]
  BY <1>1, <1>2, HeadTailProperties
<1>6. \A i \in 1..Len(s) + Len(r) - 1 : Tail(s \o r)[i] = (Tail(s) \o r)[i]
  BY <1>1, <1>3, <1>4, <1>5
<1>7. Tail(s \o r) = Tail(s) \o r
  BY <1>1, <1>4, <1>5, <1>6, SeqEqual
<1> QED
  BY <1>2, <1>7

(* Moving the head of the second sequence to the end of the first leaves    *)
(* what they are together.                                                  *)
LEMMA MoveHead ==
  ASSUME NEW S, NEW s \in Seq(S), NEW r \in Seq(S), r # <<>>
  PROVE  Append(s, Head(r)) \o Tail(r) = s \o r
<1>1. Head(r) \in S /\ Tail(r) \in Seq(S)
  BY HeadTailProperties
<1>2. r = <<Head(r)>> \o Tail(r)
  OBVIOUS
<1>3. Append(s, Head(r)) = s \o <<Head(r)>>
  BY <1>1, AppendIsConcat
<1>4. (s \o <<Head(r)>>) \o Tail(r) = s \o (<<Head(r)>> \o Tail(r))
  BY <1>1, ConcatAssociative
<1> QED
  BY <1>2, <1>3, <1>4

(* What follows the first m elements is the next n - m and then the rest.   *)
LEMMA SplitSuffix ==
  ASSUME NEW S, NEW s \in Seq(S), NEW m \in 0..Len(s), NEW n \in m..Len(s)
  PROVE  /\ SubSeq(s, m + 1, n) \o SubSeq(s, n + 1, Len(s)) = SubSeq(s, m + 1, Len(s))
         /\ SubSeq(s, m + 1, n) \in Seq(S)
         /\ SubSeq(s, n + 1, Len(s)) \in Seq(S)
<1>1. m + 1 \in 1..Len(s) + 1 /\ n \in (m + 1) - 1..Len(s) /\ Len(s) \in n..Len(s)
      /\ Len(s) \in Nat
  OBVIOUS
<1>2. SubSeq(s, m + 1, n) \o SubSeq(s, n + 1, Len(s)) = SubSeq(s, m + 1, Len(s))
  BY <1>1, ConcatAdjacentSubSeq
<1>3. (\A i \in m + 1..n : s[i] \in S) /\ (\A i \in n + 1..Len(s) : s[i] \in S)
  BY <1>1, ElementOfSeq
<1>4. m + 1 \in Int /\ n \in Int /\ n + 1 \in Int /\ Len(s) \in Int
  BY <1>1
<1>5. SubSeq(s, m + 1, n) \in Seq(S)
  BY <1>3, <1>4, SubSeqProperties
<1>6. SubSeq(s, n + 1, Len(s)) \in Seq(S)
  BY <1>3, <1>4, SubSeqProperties
<1> QED
  BY <1>2, <1>5, <1>6

(* Moving a prefix of the second sequence to the end of the first leaves     *)
(* what they are together.                                                  *)
LEMMA MovePrefix ==
  ASSUME NEW S, NEW s \in Seq(S), NEW r \in Seq(S), NEW n \in 0..Len(r)
  PROVE  (s \o SubSeq(r, 1, n)) \o SubSeq(r, n + 1, Len(r)) = s \o r
<1> DEFINE a == SubSeq(r, 1, n)
           b == SubSeq(r, n + 1, Len(r))
<1>0. \A t, u, v \in Seq(S) : (t \o u) \o v = t \o (u \o v)
  BY SMTT(20), ConcatAssociative
<1>1. Len(r) \in Nat /\ 0 \in 0..Len(r) /\ 0 + 1 = 1
  OBVIOUS
<1>2. SubSeq(r, 0 + 1, n) \o b = SubSeq(r, 0 + 1, Len(r))
      /\ SubSeq(r, 0 + 1, n) \in Seq(S) /\ b \in Seq(S)
  BY <1>1, SplitSuffix
<1>3. a \o b = SubSeq(r, 1, Len(r)) /\ a \in Seq(S) /\ b \in Seq(S)
  BY <1>1, <1>2
<1>4. a \o b = r
  BY <1>3, SubSeqFull
<1> HIDE DEF a, b
<1>5. (s \o a) \o b = s \o (a \o b)
  BY <1>0, <1>3
<1>6. (s \o a) \o b = s \o r
  BY <1>4, <1>5
<1> QED
  BY <1>6 DEF a, b

-----------------------------------------------------------------------------
(* Rounding down to a block loses less than a block.                        *)
LEMMA BlocksBelow ==
  ASSUME NEW n \in Nat, NEW d \in Nat \ {0}
  PROVE  /\ n \div d \in Nat
         /\ (n \div d) * d <= n
         /\ n < (n \div d) * d + d
  BY SMT

(* The remainder is a number, and what is below the modulus is not changed.  *)
LEMMA RemainderFacts ==
  ASSUME NEW n \in Nat, NEW d \in Nat \ {0}
  PROVE  /\ n % d \in Nat
         /\ n % d <= n
         /\ n < d => n % d = n
  BY SMT

(* Two blocks more than what top bytes fill twice, as far as a size can say.  *)
LEMMA BlocksForTwice ==
  ASSUME NEW top \in Nat, NEW block \in Nat \ {0}, NEW sizeT \in Nat \ {0}
  PROVE  LET mem == (((top + top) \div block + 2) * block) % sizeT
         IN /\ mem \in Nat
            /\ mem <= top + top + 2 * block
            /\ top + top + 2 * block < sizeT => mem > top + top + block
<1> DEFINE q == (top + top) \div block
           p == q * block
<1>1. q \in Nat /\ p <= top + top /\ top + top < p + block
  BY BlocksBelow
<1>2. p \in Nat
  BY <1>1
<1>3. (q + 2) * block = p + 2 * block
  BY <1>1
<1> HIDE DEF p
<1>4. p + 2 * block \in Nat
  BY <1>2
<1>5. /\ (p + 2 * block) % sizeT \in Nat
      /\ (p + 2 * block) % sizeT <= p + 2 * block
      /\ p + 2 * block < sizeT => (p + 2 * block) % sizeT = p + 2 * block
  BY <1>4, RemainderFacts
<1> HIDE DEF q
<1>6. LET mem == ((q + 2) * block) % sizeT
      IN /\ mem \in Nat
         /\ mem <= top + top + 2 * block
         /\ top + top + 2 * block < sizeT => mem > top + top + block
  BY <1>1, <1>2, <1>3, <1>5
<1> QED
  BY <1>6 DEF q

(* Parts of two sequences: of the first, of the second, and across.          *)
LEMMA SubSeqOfFirst ==
  ASSUME NEW S, NEW s \in Seq(S), NEW t \in Seq(S), NEW a \in 1..(Len(s) + 1), NEW b \in (a - 1)..Len(s)
  PROVE  /\ SubSeq(s \o t, a, b) = SubSeq(s, a, b)
         /\ SubSeq(s, a, b) \in Seq(S) /\ Len(SubSeq(s, a, b)) = b - a + 1
<1>1. /\ Len(s) \in Nat /\ Len(t) \in Nat
      /\ \A i \in 1..(Len(s) + Len(t)) : (s \o t)[i] = IF i <= Len(s) THEN s[i] ELSE t[i - Len(s)]
  BY ConcatProperties, LenProperties
<1>2. a \in Int /\ b \in Int /\ a <= b + 1
  BY <1>1
<1>3. \A i \in a..b : s[i] \in S /\ (s \o t)[i] = s[i]
  <2> TAKE i \in a..b
  <2>1. i \in 1..Len(s) /\ i \in 1..(Len(s) + Len(t))
    BY <1>1
  <2> QED
    BY <1>1, <2>1, ElementOfSeq
<1> DEFINE u == s \o t
<1>4. /\ SubSeq(s, a, b) \in Seq(S)
      /\ Len(SubSeq(s, a, b)) = IF a <= b THEN b - a + 1 ELSE 0
      /\ \A i \in 1..(b - a + 1) : SubSeq(s, a, b)[i] = s[a + i - 1]
  BY <1>2, <1>3, SubSeqProperties
<1>5. \A i \in a..b : u[i] \in S /\ u[i] = s[i]
  BY <1>3
<1> HIDE DEF u
<1>6. /\ SubSeq(u, a, b) \in Seq(S)
      /\ Len(SubSeq(u, a, b)) = IF a <= b THEN b - a + 1 ELSE 0
      /\ \A i \in 1..(b - a + 1) : SubSeq(u, a, b)[i] = u[a + i - 1]
  BY <1>2, <1>5, SubSeqProperties
<1>7. Len(SubSeq(s, a, b)) = b - a + 1 /\ Len(SubSeq(u, a, b)) = b - a + 1
  BY <1>2, <1>4, <1>6
<1>8. \A i \in 1..Len(SubSeq(u, a, b)) : SubSeq(u, a, b)[i] = SubSeq(s, a, b)[i]
  <2> TAKE i \in 1..Len(SubSeq(u, a, b))
  <2>1. i \in 1..(b - a + 1) /\ a + i - 1 \in a..b
    BY <1>2, <1>7
  <2> QED
    BY <1>4, <1>5, <1>6, <2>1
<1>9. SubSeq(u, a, b) = SubSeq(s, a, b)
  BY <1>4, <1>6, <1>7, <1>8, SeqEqual
<1> QED
  BY <1>4, <1>7, <1>9 DEF u

LEMMA SubSeqOfSecond ==
  ASSUME NEW S, NEW s \in Seq(S), NEW t \in Seq(S), NEW a \in 1..(Len(t) + 1), NEW b \in (a - 1)..Len(t)
  PROVE  SubSeq(s \o t, Len(s) + a, Len(s) + b) = SubSeq(t, a, b)
<1> DEFINE u == s \o t
           c == Len(s) + a
           d == Len(s) + b
<1>1. /\ Len(s) \in Nat /\ Len(t) \in Nat
      /\ \A i \in 1..(Len(s) + Len(t)) : u[i] = IF i <= Len(s) THEN s[i] ELSE t[i - Len(s)]
  BY ConcatProperties, LenProperties
<1> HIDE DEF u
<1>2. a \in Int /\ b \in Int /\ a <= b + 1 /\ c \in Int /\ d \in Int
  BY <1>1
<1>3. \A i \in a..b : t[i] \in S /\ u[Len(s) + i] = t[i]
  <2> TAKE i \in a..b
  <2>1. i \in 1..Len(t) /\ Len(s) + i \in 1..(Len(s) + Len(t)) /\ ~(Len(s) + i <= Len(s)) /\ (Len(s) + i) - Len(s) = i
    BY <1>1
  <2> QED
    BY <1>1, <2>1, ElementOfSeq
<1>4. /\ SubSeq(t, a, b) \in Seq(S)
      /\ Len(SubSeq(t, a, b)) = IF a <= b THEN b - a + 1 ELSE 0
      /\ \A i \in 1..(b - a + 1) : SubSeq(t, a, b)[i] = t[a + i - 1]
  BY <1>2, <1>3, SubSeqProperties
<1>5. \A i \in c..d : u[i] \in S
  <2> TAKE i \in c..d
  <2>1. i - Len(s) \in a..b /\ Len(s) + (i - Len(s)) = i
    BY <1>1, <1>2
  <2>2. u[Len(s) + (i - Len(s))] \in S
    BY <1>3, <2>1
  <2> QED
    BY <2>1, <2>2
<1>6. /\ SubSeq(u, c, d) \in Seq(S)
      /\ Len(SubSeq(u, c, d)) = IF c <= d THEN d - c + 1 ELSE 0
      /\ \A i \in 1..(d - c + 1) : SubSeq(u, c, d)[i] = u[c + i - 1]
  <2> HIDE DEF c, d
  <2> QED
    BY <1>2, <1>5, SubSeqProperties
<1>7. Len(SubSeq(t, a, b)) = b - a + 1 /\ Len(SubSeq(u, c, d)) = b - a + 1 /\ d - c + 1 = b - a + 1
  BY <1>1, <1>2, <1>4, <1>6
<1>8. \A i \in 1..Len(SubSeq(u, c, d)) : SubSeq(u, c, d)[i] = SubSeq(t, a, b)[i]
  <2> TAKE i \in 1..Len(SubSeq(u, c, d))
  <2>1. i \in 1..(b - a + 1) /\ i \in 1..(d - c + 1) /\ a + i - 1 \in a..b /\ c + i - 1 = Len(s) + (a + i - 1)
    BY <1>1, <1>2, <1>7
  <2>2. SubSeq(u, c, d)[i] = u[Len(s) + (a + i - 1)]
    BY <1>6, <2>1
  <2>3. u[Len(s) + (a + i - 1)] = t[a + i - 1]
    BY <1>3, <2>1
  <2> QED
    BY <1>4, <2>1, <2>2, <2>3
<1> HIDE DEF c, d
<1>9. SubSeq(u, c, d) = SubSeq(t, a, b)
  BY <1>4, <1>6, <1>7, <1>8, SeqEqual
<1> QED
  BY <1>9 DEF u, c, d

LEMMA SubSeqOfBoth ==
  ASSUME NEW S, NEW s \in Seq(S), NEW t \in Seq(S), NEW a \in 1..(Len(s) + 1), NEW b \in 0..Len(t)
  PROVE  SubSeq(s \o t, a, Len(s) + b) = SubSeq(s, a, Len(s)) \o SubSeq(t, 1, b)
<1> DEFINE u == s \o t
<1>1. u \in Seq(S) /\ Len(u) = Len(s) + Len(t) /\ Len(s) \in Nat /\ Len(t) \in Nat
  BY ConcatProperties, LenProperties
<1>2. SubSeq(u, a, Len(s)) = SubSeq(s, a, Len(s))
  <2>1. Len(s) \in (a - 1)..Len(s)
    BY <1>1
  <2> QED
    BY <2>1, SubSeqOfFirst
<1>3. SubSeq(u, Len(s) + 1, Len(s) + b) = SubSeq(t, 1, b)
  <2>1. 1 \in 1..(Len(t) + 1) /\ b \in (1 - 1)..Len(t)
    BY <1>1
  <2> QED
    BY <2>1, SubSeqOfSecond
<1> HIDE DEF u
<1>4. SubSeq(u, a, Len(s)) \o SubSeq(u, Len(s) + 1, Len(s) + b) = SubSeq(u, a, Len(s) + b)
  <2>1. a \in 1..(Len(u) + 1) /\ Len(s) \in (a - 1)..Len(u) /\ Len(s) + b \in Len(s)..Len(u)
    BY <1>1
  <2> QED
    BY <1>1, <2>1, ConcatAdjacentSubSeq
<1> QED
  BY <1>2, <1>3, <1>4 DEF u

(* One element more of the second sequence. *)
LEMMA NextOfSeq ==
  ASSUME NEW S, NEW s \in Seq(S), NEW t \in Seq(S), NEW i \in 1..Len(t)
  PROVE  s \o SubSeq(t, 1, i) = Append(s \o SubSeq(t, 1, i - 1), t[i])
<1> DEFINE a == SubSeq(t, 1, i - 1)
           e == t[i]
<1>1. 1 \in 1..Len(t) /\ i \in 1..Len(t) /\ e \in S
  <2>1. e \in S
    BY ElementOfSeq
  <2> QED
    BY <2>1
<1>2. SubSeq(t, 1, i) = a \o <<e>>
  BY <1>1, SubSeqRecursiveSecond
<1>3. a \in Seq(S)
  <2>1. \A k \in 1..(i - 1) : t[k] \in S
    BY ElementOfSeq
  <2>2. 1 \in Int /\ i - 1 \in Int
    OBVIOUS
  <2> QED
    BY <2>1, <2>2, SubSeqProperties
<1> HIDE DEF a, e
<1>4. a \o <<e>> = Append(a, e)
  BY <1>1, <1>3, AppendIsConcat
<1>5. s \o Append(a, e) = Append(s \o a, e)
  BY <1>1, <1>3, AppendToConcat
<1> QED
  BY <1>2, <1>4, <1>5 DEF a, e

(* A sequence of one element at most. *)
LEMMA OneAtMost ==
  ASSUME NEW S, NEW s \in Seq(S), Len(s) <= 1
  PROVE  /\ s = <<>> \/ Len(s) = 1
         /\ Len(s) = 1 => s[1] \in S /\ s # <<>>
<1>1. Len(s) \in Nat /\ Len(s) <= 1
  BY LenProperties
<1>2. Len(s) = 0 \/ Len(s) = 1
  <2> DEFINE n == Len(s)
  <2>1. n \in Nat /\ n <= 1
    BY <1>1
  <2> HIDE DEF n
  <2>2. n = 0 \/ n = 1
    BY <2>1
  <2> QED
    BY <2>2 DEF n
<1>3. CASE Len(s) = 0
  BY <1>3, EmptySeq
<1>4. CASE Len(s) = 1
  <2>1. 1 \in 1..Len(s)
    BY <1>4
  <2>2. s[1] \in S
    BY <2>1, ElementOfSeq
  <2>3. s # <<>>
    BY <1>4, EmptySeq
  <2> QED
    BY <1>4, <2>2, <2>3
<1> QED
  BY <1>2, <1>3, <1>4
=============================================================================
