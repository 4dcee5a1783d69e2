----------------------------- MODULE RespProofs -----------------------------
(***************************************************************************)
(* Proofs about RespProto: however a well-formed stream is cut into reads,  *)
(* and whatever the memory above the bytes received holds, the parser finds *)
(* the server's replies, in every buffer.  And about QueryBuilder: the      *)
(* bytes of every query are such a stream, of one array of its texts.       *)
(***************************************************************************)
EXTENDS RespInvariant, QueryBuilder, SequenceFacts, WellFoundedInduction, FiniteSetTheorems

-----------------------------------------------------------------------------
(* Least elements.                                                          *)

LEMMA LeastElement ==
  ASSUME NEW S, S \subseteq Nat, S # {}
  PROVE  \E x \in S : \A y \in S : x <= y
<1>1. OpToRel(<, Nat) = {ss \in Nat \X Nat : ss[1] < ss[2]}
  BY Zenon DEF OpToRel
<1>2. \A x, y \in Nat : y < x => <<y, x>> \in OpToRel(<, Nat)
  BY <1>1
<1>3. PICK x \in S : \A y \in S : <<y, x>> \notin OpToRel(<, Nat)
  BY NatLessThanWellFounded, WFMin
<1>4. ASSUME NEW y \in S
      PROVE  x <= y
  <2>1. x \in Nat /\ y \in Nat
    BY <1>3
  <2>2. ~(y < x)
    BY <1>2, <1>3, <2>1
  <2> QED
    BY <2>1, <2>2
<1> QED
  BY <1>3, <1>4

LEMMA MinIs ==
  ASSUME NEW S, S \subseteq Nat, NEW x \in S, \A y \in S : x <= y
  PROVE  Min(S) = x
<1>1. \E y \in S : \A z \in S : y <= z
  OBVIOUS
<1>2. Min(S) \in S /\ \A z \in S : Min(S) <= z
  BY <1>1 DEF Min
<1>3. x \in Nat /\ Min(S) \in Nat /\ x <= Min(S) /\ Min(S) <= x
  BY <1>2
<1> QED
  BY <1>3

-----------------------------------------------------------------------------
(* Numbers.                                                                 *)

(* What Value computes on the way. *)
Values(text) ==
  CHOOSE v : v = [i \in 0..Len(text) |-> IF i = 0 THEN 0 ELSE 10 * v[i - 1] + (text[i] - Zero)]

LEMMA ValuesExist ==
  ASSUME NEW text, Len(text) \in Nat
  PROVE  Values(text) = [i \in 0..Len(text) |->
                           IF i = 0 THEN 0 ELSE 10 * Values(text)[i - 1] + (text[i] - Zero)]
<1> DEFINE Is(v, n) == v = [i \in 0..n |-> IF i = 0 THEN 0 ELSE 10 * v[i - 1] + (text[i] - Zero)]
           T == {n \in Nat : ~ \E v : Is(v, n)}
<1>1. SUFFICES T = {}
  <2>1. PICK v : Is(v, Len(text))
    BY <1>1
  <2> QED
    BY <2>1 DEF Values
<1>2. SUFFICES ASSUME T # {}
               PROVE  FALSE
  OBVIOUS
<1>3. PICK n \in T : \A k \in T : n <= k
  <2>1. T \subseteq Nat
    OBVIOUS
  <2> HIDE DEF T
  <2> QED
    BY <1>2, <2>1, LeastElement
<1>4. n # 0
  <2>1. Is([i \in 0..0 |-> 0], 0)
    OBVIOUS
  <2> QED
    BY <2>1, <1>3
<1>5. PICK v : Is(v, n - 1)
  <2>1. n - 1 \in Nat /\ ~(n <= n - 1)
    BY <1>3, <1>4
  <2> QED
    BY <1>3, <2>1
<1> DEFINE w == [i \in 0..n |-> IF i = n THEN 10 * v[n - 1] + (text[n] - Zero) ELSE v[i]]
<1>6. Is(w, n)
  <2>1. n \in Nat
    BY <1>3
  <2>2. ASSUME NEW i \in 0..n
        PROVE  w[i] = IF i = 0 THEN 0 ELSE 10 * w[i - 1] + (text[i] - Zero)
    <3>1. CASE i = n
      <4>1. w[n - 1] = v[n - 1] /\ n - 1 \in 0..n
        BY <1>4, <2>1
      <4> QED
        BY <1>4, <3>1, <4>1
    <3>2. CASE i # n
      <4>1. w[i] = v[i] /\ i \in 0..(n - 1)
        BY <2>1, <3>2
      <4>2. v[i] = IF i = 0 THEN 0 ELSE 10 * v[i - 1] + (text[i] - Zero)
        BY <1>5, <4>1
      <4>3. i # 0 => w[i - 1] = v[i - 1]
        BY <2>1, <4>1
      <4> QED
        BY <4>1, <4>2, <4>3
    <3> QED
      BY <3>1, <3>2
  <2>3. w = [i \in 0..n |-> w[i]]
    OBVIOUS
  <2> HIDE DEF w
  <2> QED
    BY <2>2, <2>3
<1> QED
  BY <1>3, <1>6

(* Digits make a number that is not negative.                               *)
LEMMA ValueIsNat ==
  ASSUME NEW text, Len(text) \in Nat, \A k \in 1..Len(text) : text[k] \in Zero..(Zero + 9)
  PROVE  Value(text) \in Nat
<1> DEFINE v == Values(text)
           T == {i \in 0..Len(text) : v[i] \notin Nat}
<1>1. Value(text) = v[Len(text)]
  BY DEF Value, Values
<1>2. \A i \in 0..Len(text) : v[i] = IF i = 0 THEN 0 ELSE 10 * v[i - 1] + (text[i] - Zero)
  BY ValuesExist
<1> HIDE DEF v
<1>3. ASSUME T # {}
      PROVE  FALSE
  <2>1. T \subseteq Nat
    OBVIOUS
  <2>2. PICK i \in T : \A k \in T : i <= k
    <3> HIDE DEF T
    <3> QED
      BY <1>3, <2>1, LeastElement
  <2>3. i # 0 /\ i \in 1..Len(text)
    BY <1>2, <2>2
  <2>4. i - 1 \in 0..Len(text) /\ ~(i <= i - 1)
    BY <2>3
  <2>5. v[i - 1] \in Nat
    BY <2>2, <2>4
  <2>6. text[i] - Zero \in Nat
    BY <2>3 DEF Zero
  <2>7. v[i] = 10 * v[i - 1] + (text[i] - Zero)
    BY <1>2, <2>3
  <2>8. v[i] \in Nat
    BY <2>5, <2>6, <2>7
  <2> QED
    BY <2>2, <2>8
<1> QED
  BY <1>1, <1>3

-----------------------------------------------------------------------------
(* Memory m holds, at its first top bytes, those of the stream after b.      *)

Received(m, top, bytes, b) ==
  /\ top \in Nat /\ b \in Nat /\ Len(bytes) \in Nat
  /\ \A k \in 0..(top - 1) : m[k] = bytes[b + k + 1]

LEMMA ByteAt ==
  ASSUME NEW m, NEW top, NEW bytes, NEW b, Received(m, top, bytes, b),
         NEW k \in Nat, k < top
  PROVE  m[k] = bytes[b + k + 1]
BY DEF Received

(* A line of which the \r has been received is found, with its text.         *)
LEMMA LineFound ==
  ASSUME NEW m, NEW top, NEW bytes, NEW b, Received(m, top, bytes, b),
         NEW from \in Nat, NEW to \in Nat, NEW mark, IsLine(bytes, from, to, mark),
         b <= from, to - 1 <= b + top, NEW n \in Nat, to - from - 3 <= n
  PROVE  LET cursor == from - b + 1
             i == to - from - 3
         IN /\ i \in Nat \ {0}
            /\ LineEnds(m, cursor, n) # {} /\ Min(LineEnds(m, cursor, n)) = i
            /\ Bytes(m, cursor, i) = LineText(bytes, from, to)
<1> DEFINE cursor == from - b + 1
           i == to - from - 3
           ends == LineEnds(m, cursor, n)
<1>1. /\ top \in Nat /\ b \in Nat /\ from + 4 <= to /\ bytes[to - 1] = CR
      /\ \A k \in (from + 2)..(to - 2) : bytes[k] # CR
  BY DEF Received, IsLine
<1>2. i \in Nat \ {0} /\ cursor \in Nat
  BY <1>1
<1>3. ASSUME NEW j \in 0..i
      PROVE  m[cursor + j] = bytes[from + 2 + j]
  <2>1. cursor + j \in Nat /\ cursor + j < top /\ b + (cursor + j) + 1 = from + 2 + j
    BY <1>1, <1>2
  <2>2. m[cursor + j] = bytes[b + (cursor + j) + 1]
    BY <2>1, ByteAt
  <2> QED
    BY <2>1, <2>2
<1>4. i \in ends
  <2>1. m[cursor + i] = bytes[from + 2 + i]
    <3>1. i \in 0..i
      BY <1>2
    <3> HIDE DEF i, cursor
    <3> QED
      BY <1>3, <3>1
  <2>2. i \in 0..n
    BY <1>2
  <2>3. from + 2 + i = to - 1
    BY <1>1
  <2> QED
    BY <1>1, <2>1, <2>2, <2>3 DEF LineEnds
<1>5. ASSUME NEW j \in ends
      PROVE  i <= j
  <2>1. j \in 0..n /\ m[cursor + j] = CR
    BY DEF LineEnds
  <2>2. ASSUME j < i
        PROVE  FALSE
    <3>1. j \in 0..i /\ from + 2 + j \in (from + 2)..(to - 2)
      BY <1>1, <1>2, <2>1, <2>2
    <3>2. m[cursor + j] = bytes[from + 2 + j]
      BY <1>3, <3>1
    <3> QED
      BY <1>1, <2>1, <3>1, <3>2
  <2> QED
    BY <1>2, <2>1, <2>2
<1>6. ends \subseteq Nat
  BY DEF LineEnds
<1>7. Min(ends) = i
  <2> HIDE DEF ends, i
  <2> QED
    BY <1>4, <1>5, <1>6, MinIs
<1>8. Bytes(m, cursor, i) = LineText(bytes, from, to)
  <2>1. LineText(bytes, from, to) = [k \in 1..i |-> bytes[from + 1 + k]]
    <3>1. LineText(bytes, from, to) = [k \in 1..((to - 2) - (from + 2) + 1) |-> bytes[(from + 2) + k - 1]]
      BY DEF LineText
    <3>2. (to - 2) - (from + 2) + 1 = i /\ \A k \in 1..i : (from + 2) + k - 1 = from + 1 + k
      BY <1>2
    <3> QED
      BY <3>1, <3>2
  <2>2. ASSUME NEW k \in 1..i
        PROVE  m[cursor + k - 1] = bytes[from + 1 + k]
    <3>1. k - 1 \in 0..i /\ cursor + (k - 1) = cursor + k - 1 /\ from + 2 + (k - 1) = from + 1 + k
      BY <1>2
    <3> QED
      BY <1>3, <3>1
  <2> QED
    BY <2>1, <2>2 DEF Bytes
<1> QED
  BY <1>2, <1>4, <1>7, <1>8

(* One of which it has not is not found among the bytes received.            *)
LEMMA LineNotFound ==
  ASSUME NEW m, NEW top, NEW bytes, NEW b, Received(m, top, bytes, b),
         NEW from \in Nat, NEW to \in Nat, NEW mark, IsLine(bytes, from, to, mark),
         b <= from, NEW n \in Int, from + 2 + n <= b + top, from + 2 + n < to - 1
  PROVE  LineEnds(m, from - b + 1, n) = {}
<1> DEFINE cursor == from - b + 1
<1>1. /\ top \in Nat /\ b \in Nat
      /\ \A k \in (from + 2)..(to - 2) : bytes[k] # CR
  BY DEF Received, IsLine
<1>2. ASSUME NEW j \in 0..n
      PROVE  m[cursor + j] # CR
  <2>1. cursor + j \in Nat /\ cursor + j < top /\ b + (cursor + j) + 1 = from + 2 + j
    BY <1>1
  <2>2. m[cursor + j] = bytes[b + (cursor + j) + 1]
    BY <2>1, ByteAt
  <2>3. from + 2 + j \in (from + 2)..(to - 2)
    BY <1>1
  <2> QED
    BY <1>1, <2>1, <2>2, <2>3
<1> QED
  BY <1>2 DEF LineEnds

-----------------------------------------------------------------------------
(* Flat replies: one that has been received whole is found, and nothing of   *)
(* one that has not, whatever is in the memory above.                        *)

(* What stands at [from, to] of the stream, seen from the buffer.            *)
InView(m, top, bytes, b, from, to) ==
  /\ Received(m, top, bytes, b)
  /\ from \in Nat /\ to \in Nat /\ b <= from /\ from < b + top

(* What _read_data calls for each first byte, once there is enough to read.   *)
LEMMA ReadFlatCalls ==
  ASSUME NEW m, NEW top, NEW target, NEW off,
         m[off] \in {Plus, Minus, Colon, Dollar, Star},
         ~(unparsed_size(top, off) < ShortestReply(m[off]))
  PROVE  LET sz == unparsed_size(top, off) - 1
             read == ReadFlat(m, top, target, off)
         IN /\ m[off] = Plus => read = ReadSimpleString(m, target, "simple_str", off + 1, sz)
            /\ m[off] = Minus => read = ReadSimpleString(m, target, "error_str", off + 1, sz)
            /\ m[off] = Colon => read = ReadInteger(m, target, off + 1, sz)
            /\ m[off] = Dollar => read = ReadBulkString(m, target, off + 1, sz)
<1> USE DEF Plus, Minus, Colon, Dollar, Star
<1>1. CASE m[off] = Plus
  BY <1>1 DEF ReadFlat
<1>2. CASE m[off] = Minus
  BY <1>2 DEF ReadFlat
<1>3. CASE m[off] = Colon
  BY <1>3 DEF ReadFlat
<1>4. CASE m[off] = Dollar
  BY <1>4 DEF ReadFlat
<1> QED
  BY <1>1, <1>2, <1>3, <1>4

(* The first byte of a reply in view has been received.                      *)
LEMMA FirstByte ==
  ASSUME NEW m, NEW top, NEW bytes, NEW b, NEW from, NEW to, InView(m, top, bytes, b, from, to)
  PROVE  /\ top \in Nat /\ b \in Nat /\ from \in Nat /\ to \in Nat /\ b <= from
         /\ Received(m, top, bytes, b)
         /\ from - b \in Nat /\ from - b < top
         /\ m[from - b] = bytes[from + 1]
         /\ unparsed_size(top, from - b) = top - (from - b)
<1>1. /\ top \in Nat /\ b \in Nat /\ from \in Nat /\ to \in Nat /\ b <= from /\ from < b + top
      /\ Received(m, top, bytes, b)
  BY DEF InView, Received
<1>2. from - b \in Nat /\ from - b < top /\ b + (from - b) + 1 = from + 1
  BY <1>1
<1>3. m[from - b] = bytes[b + (from - b) + 1]
  BY <1>1, <1>2, ByteAt
<1> QED
  BY <1>1, <1>2, <1>3 DEF unparsed_size

(* The line of a simple string, an error or an integer.                      *)
LEMMA LineInView ==
  ASSUME NEW m, NEW top, NEW bytes, NEW b, NEW from, NEW to, InView(m, top, bytes, b, from, to),
         NEW mark, IsLine(bytes, from, to, mark), ~(top - (from - b) < 4)
  PROVE  LET off == from - b
             sz == unparsed_size(top, off) - 1
             i == to - from - 3
             ends == LineEnds(m, off + 1, LastLineEnd(sz))
         IN /\ to <= b + top =>
                 /\ ends # {} /\ Min(ends) = i
                 /\ Bytes(m, off + 1, i) = LineText(bytes, from, to)
                 /\ off + 1 + i + 2 = to - b
            /\ b + top < to => ends = {}
<1> DEFINE off == from - b
           sz == unparsed_size(top, off) - 1
           i == to - from - 3
           n == top - off - 3
<1>1. /\ top \in Nat /\ b \in Nat /\ from \in Nat /\ to \in Nat /\ b <= from
      /\ Received(m, top, bytes, b)
      /\ LastLineEnd(sz) = n
  BY FirstByte DEF LastLineEnd
<1>2. n \in Nat /\ from - b + 1 = off + 1
  BY <1>1
<1>3. ASSUME to <= b + top
      PROVE  /\ LineEnds(m, off + 1, n) # {} /\ Min(LineEnds(m, off + 1, n)) = i
             /\ Bytes(m, off + 1, i) = LineText(bytes, from, to)
             /\ off + 1 + i + 2 = to - b
  <2>1. to - 1 <= b + top /\ i <= n /\ off + 1 + i + 2 = to - b
    BY <1>1, <1>3
  <2> QED
    BY <1>1, <1>2, <2>1, LineFound
<1>4. ASSUME b + top < to
      PROVE  LineEnds(m, off + 1, n) = {}
  <2>1. n \in Int /\ from + 2 + n <= b + top /\ from + 2 + n < to - 1
    BY <1>1, <1>4
  <2> QED
    BY <1>1, <1>2, <2>1, LineNotFound
<1> HIDE DEF n, sz
<1> QED
  BY <1>1, <1>3, <1>4 DEF sz

LEMMA SimpleRead ==
  ASSUME NEW m, NEW top, NEW bytes, NEW b, NEW from, NEW to, InView(m, top, bytes, b, from, to),
         NEW v, IsSimple(bytes, from, to, v)
  PROVE  ReadFlat(m, top, Empty, from - b) =
           IF to <= b + top THEN Got(v, to - b) ELSE NotYet(Empty, from - b)
<1> DEFINE off == from - b
           sz == unparsed_size(top, off) - 1
           i == to - from - 3
           ends == LineEnds(m, off + 1, LastLineEnd(sz))
           type(mark) == IF mark = Plus THEN "simple_str" ELSE "error_str"
           result == IF to <= b + top THEN Got(v, to - b) ELSE NotYet(Empty, off)
<1>1. PICK mark \in {Plus, Minus} :
        /\ IsLine(bytes, from, to, mark)
        /\ v = [Empty EXCEPT !.sres = LineText(bytes, from, to), !.type = type(mark)]
  BY DEF IsSimple, Plus, Minus
<1>2. /\ top \in Nat /\ b \in Nat /\ from \in Nat /\ to \in Nat /\ off \in Nat
      /\ m[off] = mark /\ unparsed_size(top, off) = top - off
      /\ from + 4 <= to /\ ShortestReply(mark) = 4
  BY <1>1, FirstByte DEF IsLine, ShortestReply, Plus, Minus, Dollar
<1>3. CASE top - off < 4
  <2>1. ReadFlat(m, top, Empty, off) = NotYet(Empty, off)
    BY <1>1, <1>2, <1>3 DEF ReadFlat
  <2>2. ~(to <= b + top)
    BY <1>2, <1>3
  <2> QED
    BY <2>1, <2>2
<1>4. CASE ~(top - off < 4)
  <2>1. ReadFlat(m, top, Empty, off) = ReadSimpleString(m, Empty, type(mark), off + 1, sz)
    <3>1. m[off] \in {Plus, Minus, Colon, Dollar, Star} /\ ~(unparsed_size(top, off) < ShortestReply(m[off]))
      BY <1>1, <1>2, <1>4
    <3> HIDE DEF off
    <3> QED
      BY <1>1, <1>2, <3>1, ReadFlatCalls DEF Plus, Minus
  <2>2. /\ to <= b + top =>
             /\ ends # {} /\ Min(ends) = i
             /\ Bytes(m, off + 1, i) = LineText(bytes, from, to)
             /\ off + 1 + i + 2 = to - b
        /\ b + top < to => ends = {}
    BY <1>1, <1>4, LineInView
  <2>3. (off + 1) - 1 = off
    BY <1>2
  <2> HIDE DEF sz, i, off, type
  <2>4. ReadSimpleString(m, Empty, type(mark), off + 1, sz) = result
    <3>1. CASE to <= b + top
      BY <1>1, <2>2, <3>1 DEF ReadSimpleString
    <3>2. CASE b + top < to
      <4>1. ~(to <= b + top)
        BY <1>2, <3>2
      <4>2. ReadSimpleString(m, Empty, type(mark), off + 1, sz) = NotYet(Empty, (off + 1) - 1)
        BY <2>2, <3>2 DEF ReadSimpleString
      <4> QED
        BY <2>3, <4>1, <4>2
    <3> QED
      BY <1>2, <3>1, <3>2
  <2> QED
    BY <2>1, <2>4 DEF off
<1> QED
  BY <1>3, <1>4

LEMMA IntegerRead ==
  ASSUME NEW m, NEW top, NEW bytes, NEW b, NEW from, NEW to, InView(m, top, bytes, b, from, to),
         NEW v, IsInteger(bytes, from, to, v)
  PROVE  ReadFlat(m, top, Empty, from - b) =
           IF to <= b + top THEN Got(v, to - b) ELSE NotYet(Empty, from - b)
<1> DEFINE off == from - b
           sz == unparsed_size(top, off) - 1
           i == to - from - 3
           ends == LineEnds(m, off + 1, LastLineEnd(sz))
           result == IF to <= b + top THEN Got(v, to - b) ELSE NotYet(Empty, off)
<1>1. /\ IsLine(bytes, from, to, Colon)
      /\ v = [Empty EXCEPT !.ires = Value(LineText(bytes, from, to)), !.type = "integer"]
  BY DEF IsInteger, IsNumberLine
<1>2. /\ top \in Nat /\ b \in Nat /\ from \in Nat /\ to \in Nat /\ off \in Nat
      /\ m[off] = Colon /\ unparsed_size(top, off) = top - off
      /\ from + 4 <= to /\ ShortestReply(Colon) = 4
  BY <1>1, FirstByte DEF IsLine, ShortestReply, Colon, Dollar
<1>3. CASE top - off < 4
  <2>1. ReadFlat(m, top, Empty, off) = NotYet(Empty, off)
    BY <1>2, <1>3 DEF ReadFlat
  <2>2. ~(to <= b + top)
    BY <1>2, <1>3
  <2> QED
    BY <2>1, <2>2
<1>4. CASE ~(top - off < 4)
  <2>1. ReadFlat(m, top, Empty, off) = ReadInteger(m, Empty, off + 1, sz)
    <3>1. m[off] \in {Plus, Minus, Colon, Dollar, Star} /\ ~(unparsed_size(top, off) < ShortestReply(m[off]))
      BY <1>2, <1>4
    <3> HIDE DEF off
    <3> QED
      BY <1>2, <3>1, ReadFlatCalls
  <2>2. /\ to <= b + top =>
             /\ ends # {} /\ Min(ends) = i
             /\ Bytes(m, off + 1, i) = LineText(bytes, from, to)
             /\ off + 1 + i + 2 = to - b
        /\ b + top < to => ends = {}
    BY <1>1, <1>4, LineInView
  <2>3. (off + 1) - 1 = off
    BY <1>2
  <2> HIDE DEF sz, i, off
  <2>4. ReadInteger(m, Empty, off + 1, sz) = result
    <3>1. CASE to <= b + top
      BY <1>1, <2>2, <3>1 DEF ReadInteger, Number
    <3>2. CASE b + top < to
      <4>1. ~(to <= b + top)
        BY <1>2, <3>2
      <4>2. ReadInteger(m, Empty, off + 1, sz) = NotYet(Empty, (off + 1) - 1)
        BY <2>2, <3>2 DEF ReadInteger
      <4> QED
        BY <2>3, <4>1, <4>2
    <3> QED
      BY <1>2, <3>1, <3>2
  <2> QED
    BY <2>1, <2>4 DEF off
<1> QED
  BY <1>3, <1>4

(* The \r of the length may be taken from the byte above those received: then *)
(* the string is too long for what is left, which is nothing.                *)
LEMMA BulkRead ==
  ASSUME NEW m, NEW top, NEW bytes, NEW b, NEW from, NEW to, InView(m, top, bytes, b, from, to),
         NEW v, IsBulk(bytes, from, to, v)
  PROVE  ReadFlat(m, top, Empty, from - b) =
           IF to <= b + top THEN Got(v, to - b) ELSE NotYet(Empty, from - b)
<1> DEFINE off == from - b
           cursor == off + 1
           sz == unparsed_size(top, off) - 1
           ends == LineEnds(m, cursor, sz)
           result == IF to <= b + top THEN Got(v, to - b) ELSE NotYet(Empty, off)
<1>1. PICK mid \in from..(to - 2) :
        /\ IsNumberLine(bytes, from, mid, Dollar)
        /\ to - 2 - mid = Value(LineText(bytes, from, mid))
        /\ v = [Empty EXCEPT !.sres = SubSeq(bytes, mid + 1, mid + (to - 2 - mid)),
                             !.type = "bulk_str"]
  BY DEF IsBulk
<1> DEFINE n == to - 2 - mid
           i == mid - from - 3
<1>2. /\ IsLine(bytes, from, mid, Dollar)
      /\ \A k \in (from + 2)..(mid - 2) : bytes[k] \in Zero..(Zero + 9)
      /\ from + 4 <= mid
  BY <1>1 DEF IsNumberLine, IsLine
<1>3. /\ top \in Nat /\ b \in Nat /\ from \in Nat /\ to \in Nat /\ off \in Nat /\ b <= from
      /\ m[off] = Dollar /\ unparsed_size(top, off) = top - off /\ off < top
      /\ ShortestReply(Dollar) = 5 /\ mid \in Nat /\ n \in Nat /\ i \in Nat
      /\ Received(m, top, bytes, b)
  <2>1. /\ top \in Nat /\ b \in Nat /\ from \in Nat /\ to \in Nat /\ off \in Nat /\ b <= from
        /\ m[off] = bytes[from + 1] /\ unparsed_size(top, off) = top - off /\ off < top
        /\ Received(m, top, bytes, b)
    BY FirstByte
  <2>2. bytes[from + 1] = Dollar /\ ShortestReply(Dollar) = 5
    BY <1>2 DEF IsLine, ShortestReply
  <2>3. mid \in Nat /\ n \in Nat /\ i \in Nat
    BY <1>1, <1>2, <2>1
  <2> QED
    BY <2>1, <2>2, <2>3
<1>4. sz = (top - off) - 1 /\ cursor = from - b + 1 /\ cursor = off + 1
  BY <1>3
<1>5. CASE top - off < 5
  <2>1. ReadFlat(m, top, Empty, off) = NotYet(Empty, off)
    BY <1>3, <1>5 DEF ReadFlat
  <2>2. ~(to <= b + top)
    BY <1>1, <1>2, <1>3, <1>5
  <2> QED
    BY <2>1, <2>2
<1>6. CASE ~(top - off < 5)
  <2>1. ReadFlat(m, top, Empty, off) = ReadBulkString(m, Empty, cursor, sz)
    <3>1. m[off] \in {Plus, Minus, Colon, Dollar, Star} /\ ~(unparsed_size(top, off) < ShortestReply(m[off]))
      BY <1>3, <1>6
    <3> HIDE DEF off
    <3> QED
      BY <1>3, <3>1, ReadFlatCalls
  <2>2. ASSUME NEW k \in Nat, cursor + k < top, from + 2 + k <= mid - 2
        PROVE  m[cursor + k] \in Zero..(Zero + 9)
    <3>1. cursor + k \in Nat /\ b + (cursor + k) + 1 = from + 2 + k
          /\ from + 2 + k \in (from + 2)..(mid - 2)
      BY <1>3, <2>2
    <3>2. m[cursor + k] = bytes[b + (cursor + k) + 1]
      BY <1>3, <2>2, <3>1, ByteAt
    <3> QED
      BY <1>2, <3>1, <3>2
  <2>3. m[cursor] # Minus
    <3>1. 0 \in Nat /\ cursor + 0 < top /\ from + 2 + 0 <= mid - 2 /\ cursor + 0 = cursor
      BY <1>2, <1>3, <1>6
    <3>2. m[cursor] \in Zero..(Zero + 9)
      <4> HIDE DEF cursor
      <4> QED
        BY <2>2, <3>1
    <3> QED
      BY <3>2 DEF Zero, Minus
  <2>4. (cursor - 1) = off
    BY <1>3
  <2>5. CASE mid - 1 <= b + top
    <3>1. sz \in Nat /\ i <= sz
      BY <1>3, <1>4, <1>6, <2>5
    <3>2. ends # {} /\ Min(ends) = i /\ Bytes(m, cursor, i) = LineText(bytes, from, mid)
      <4> HIDE DEF sz
      <4> QED
        BY <1>2, <1>3, <1>4, <2>5, <3>1, LineFound
    <3>3. Number(m, cursor, i) = n
      BY <1>1, <3>2 DEF Number
    <3>4. CASE to <= b + top
      <4>1. ~(sz - i < BulkTail(n)) /\ BulkEnd(cursor, i, n) = to - b
        BY <1>1, <1>3, <1>4, <3>4 DEF BulkTail, BulkEnd
      <4>2. Bytes(m, cursor + i + 2, n) = SubSeq(bytes, mid + 1, mid + n)
        <5>1. SubSeq(bytes, mid + 1, mid + n) = [k \in 1..n |-> bytes[mid + k]]
          <6>1. SubSeq(bytes, mid + 1, mid + n) =
                  [k \in 1..((mid + n) - (mid + 1) + 1) |-> bytes[(mid + 1) + k - 1]]
            <7> HIDE DEF n
            <7> QED
              BY <1>3
          <6>2. (mid + n) - (mid + 1) + 1 = n /\ \A k \in 1..n : (mid + 1) + k - 1 = mid + k
            BY <1>3
          <6> QED
            BY <6>1, <6>2
        <5>2. ASSUME NEW k \in 1..n
              PROVE  m[(cursor + i + 2) + k - 1] = bytes[mid + k]
          <6> DEFINE x == (cursor + i + 2) + k - 1
          <6>1. x \in Nat /\ x < top /\ b + x + 1 = mid + k
            BY <1>3, <3>4
          <6> HIDE DEF x
          <6>2. m[x] = bytes[b + x + 1]
            BY <1>3, <6>1, ByteAt
          <6> QED
            BY <6>1, <6>2 DEF x
        <5> QED
          BY <5>1, <5>2 DEF Bytes
      <4> HIDE DEF sz, cursor, i, n, off
      <4>3. ReadBulkString(m, Empty, cursor, sz) =
              Got([Empty EXCEPT !.sres = Bytes(m, cursor + i + 2, n), !.type = "bulk_str"],
                  BulkEnd(cursor, i, n))
        BY <2>3, <3>2, <3>3, <4>1 DEF ReadBulkString
      <4>4. v = [Empty EXCEPT !.sres = SubSeq(bytes, mid + 1, mid + n), !.type = "bulk_str"]
        BY <1>1 DEF n
      <4> QED
        BY <2>1, <3>4, <4>1, <4>2, <4>3, <4>4 DEF off
    <3>5. CASE b + top < to
      <4>1. sz - i < BulkTail(n) /\ ~(to <= b + top)
        BY <1>1, <1>3, <1>4, <3>5 DEF BulkTail
      <4> HIDE DEF sz, cursor, i, n, off
      <4>2. ReadBulkString(m, Empty, cursor, sz) = NotYet(Empty, cursor - 1)
        BY <2>3, <3>2, <3>3, <4>1 DEF ReadBulkString
      <4> QED
        BY <2>1, <2>4, <4>1, <4>2 DEF off
    <3> QED
      BY <1>3, <3>4, <3>5
  <2>6. CASE b + top < mid - 1
    <3>1. ~(to <= b + top) /\ sz \in Nat
      BY <1>1, <1>3, <1>4, <1>6, <2>6
    <3>2. ASSUME ends # {}
          PROVE  sz - Min(ends) < BulkTail(Number(m, cursor, Min(ends)))
      <4>1. ASSUME NEW k \in ends
            PROVE  k = sz
        <5>1. k \in 0..sz /\ m[cursor + k] = CR
          BY DEF LineEnds
        <5>2. ASSUME k < sz
              PROVE  FALSE
          <6>1. k \in Nat /\ cursor + k < top /\ from + 2 + k <= mid - 2
            BY <1>3, <1>4, <2>6, <5>1, <5>2
          <6>2. m[cursor + k] \in Zero..(Zero + 9)
            BY <2>2, <6>1
          <6> QED
            BY <5>1, <6>2 DEF Zero, CR
        <5> QED
          BY <3>1, <5>1, <5>2
      <4>2. Min(ends) = sz
        <5>1. ends \subseteq Nat
          BY DEF LineEnds
        <5> HIDE DEF ends, sz
        <5>2. sz \in ends /\ \A k \in ends : sz <= k
          BY <3>1, <3>2, <4>1
        <5> QED
          BY <5>1, <5>2, MinIs
      <4>3. Number(m, cursor, sz) \in Nat
        <5>1. Len(Bytes(m, cursor, sz)) = sz
          BY <3>1 DEF Bytes
        <5>2. ASSUME NEW k \in 1..sz
              PROVE  Bytes(m, cursor, sz)[k] \in Zero..(Zero + 9)
          <6>1. k - 1 \in Nat /\ cursor + (k - 1) < top /\ from + 2 + (k - 1) <= mid - 2
                /\ cursor + (k - 1) = cursor + k - 1
            BY <1>3, <1>4, <2>6, <3>1
          <6>2. m[cursor + (k - 1)] \in Zero..(Zero + 9)
            <7> HIDE DEF cursor, sz
            <7> QED
              BY <2>2, <6>1
          <6>3. Bytes(m, cursor, sz)[k] = m[cursor + k - 1]
            <7> HIDE DEF cursor, sz
            <7> QED
              BY DEF Bytes
          <6> QED
            BY <6>1, <6>2, <6>3
        <5> HIDE DEF cursor, sz
        <5> QED
          BY <3>1, <5>1, <5>2, ValueIsNat DEF Number
      <4> HIDE DEF sz
      <4> QED
        BY <3>1, <4>2, <4>3 DEF BulkTail
    <3> HIDE DEF sz, cursor, off
    <3>3. ReadBulkString(m, Empty, cursor, sz) = NotYet(Empty, cursor - 1)
      BY <2>3, <3>2 DEF ReadBulkString
    <3> QED
      BY <2>1, <2>4, <3>1, <3>3 DEF off
  <2> QED
    BY <1>3, <2>5, <2>6
<1> QED
  BY <1>5, <1>6

LEMMA NullBulkRead ==
  ASSUME NEW m, NEW top, NEW bytes, NEW b, NEW from, NEW to, InView(m, top, bytes, b, from, to),
         NEW v, IsNullBulk(bytes, from, to, v)
  PROVE  ReadFlat(m, top, Empty, from - b) =
           IF to <= b + top THEN Got(v, to - b) ELSE NotYet(Empty, from - b)
<1> DEFINE off == from - b
           sz == unparsed_size(top, off) - 1
<1>1. /\ v = [Empty EXCEPT !.isnull = TRUE, !.type = "bulk_str"]
      /\ from + 5 = to /\ bytes[from + 1] = Dollar /\ bytes[from + 2] = Minus
  BY DEF IsNullBulk, Stands
<1>2. /\ top \in Nat /\ b \in Nat /\ from \in Nat /\ to \in Nat /\ off \in Nat /\ b <= from
      /\ m[off] = Dollar /\ unparsed_size(top, off) = top - off /\ off < top
      /\ ShortestReply(Dollar) = 5 /\ Received(m, top, bytes, b)
  BY <1>1, FirstByte DEF ShortestReply
<1>3. CASE top - off < 5
  <2>1. ReadFlat(m, top, Empty, off) = NotYet(Empty, off)
    BY <1>2, <1>3 DEF ReadFlat
  <2>2. ~(to <= b + top)
    BY <1>1, <1>2, <1>3
  <2> QED
    BY <2>1, <2>2
<1>4. CASE ~(top - off < 5)
  <2>1. ReadFlat(m, top, Empty, off) = ReadBulkString(m, Empty, off + 1, sz)
    <3>1. m[off] \in {Plus, Minus, Colon, Dollar, Star} /\ ~(unparsed_size(top, off) < ShortestReply(m[off]))
      BY <1>2, <1>4
    <3> HIDE DEF off
    <3> QED
      BY <1>2, <3>1, ReadFlatCalls
  <2>2. m[off + 1] = Minus
    <3>1. off + 1 \in Nat /\ off + 1 < top /\ b + (off + 1) + 1 = from + 2
      BY <1>2, <1>4
    <3> HIDE DEF off
    <3> QED
      BY <1>1, <1>2, <3>1, ByteAt
  <2>3. off + 1 + 4 = to - b /\ to <= b + top
    BY <1>1, <1>2, <1>4
  <2> HIDE DEF off, sz
  <2>4. ReadBulkString(m, Empty, off + 1, sz) = Got(v, off + 1 + 4)
    BY <1>1, <2>2 DEF ReadBulkString
  <2> QED
    BY <2>1, <2>3, <2>4 DEF off
<1> QED
  BY <1>3, <1>4

(* Any of them.                                                             *)
LEMMA FlatRead ==
  ASSUME NEW m, NEW top, NEW bytes, NEW b, NEW from, NEW to, InView(m, top, bytes, b, from, to),
         NEW v, IsFlat(bytes, from, to, v)
  PROVE  ReadFlat(m, top, Empty, from - b) =
           IF to <= b + top THEN Got(v, to - b) ELSE NotYet(Empty, from - b)
BY SimpleRead, IntegerRead, BulkRead, NullBulkRead DEF IsFlat

(* What begins with a flat reply does not begin with an array.               *)
LEMMA FlatBegins ==
  ASSUME NEW bytes, NEW from \in Nat, NEW to \in Nat, NEW v, IsFlat(bytes, from, to, v)
  PROVE  /\ from + 4 <= to /\ bytes[from + 1] \in {Plus, Minus, Colon, Dollar}
         /\ to <= Len(bytes) /\ v.type # "empty" /\ v.ares = <<>>
<1>1. CASE IsSimple(bytes, from, to, v)
  BY <1>1 DEF IsSimple, IsLine, Empty
<1>2. CASE IsInteger(bytes, from, to, v)
  BY <1>2 DEF IsInteger, IsNumberLine, IsLine, Empty
<1>3. CASE IsBulk(bytes, from, to, v)
  <2>1. PICK mid \in from..(to - 2) :
          /\ IsLine(bytes, from, mid, Dollar) /\ to <= Len(bytes)
          /\ v = [Empty EXCEPT !.sres = SubSeq(bytes, mid + 1, mid + (to - 2 - mid)),
                               !.type = "bulk_str"]
    BY <1>3 DEF IsBulk, IsNumberLine
  <2>2. v.type = "bulk_str" /\ v.ares = <<>>
    BY <2>1 DEF Empty
  <2> QED
    BY <2>1, <2>2 DEF IsLine
<1>4. CASE IsNullBulk(bytes, from, to, v)
  BY <1>4 DEF IsNullBulk, Stands, Empty
<1> QED
  BY <1>1, <1>2, <1>3, <1>4 DEF IsFlat

LEMMA RecordRead ==
  ASSUME NEW m, NEW top, NEW bytes, NEW b, NEW from, NEW to, InView(m, top, bytes, b, from, to),
         NEW v, IsFlat(bytes, from, to, v)
  PROVE  LET read == IF to <= b + top THEN Got(v, to - b) ELSE NotYet(Empty, from - b)
         IN /\ ReadRecord(m, top, Empty, from - b) = read
            /\ ReadData(m, top, Empty, from - b) = read
<1>1. from \in Nat /\ to \in Nat /\ m[from - b] = bytes[from + 1]
  BY FirstByte
<1>2. m[from - b] # Star
  BY <1>1, FlatBegins DEF Plus, Minus, Colon, Dollar, Star
<1>3. ~BeginsArray(m, top, from - b)
  BY <1>2 DEF BeginsArray
<1> QED
  BY <1>3, FlatRead DEF ReadRecord, ReadData

(* When nothing has been received, a byte is looked at all the same, and may  *)
(* be refused.                                                              *)
LEMMA NothingToRead ==
  ASSUME NEW m, NEW top \in Nat, NEW target
  PROVE  ReadRecord(m, top, target, top) \in {Threw(target, top), NotYet(target, top)}
<1>1. unparsed_size(top, top) = 0
  BY DEF unparsed_size
<1>2. \A mark : 0 < ShortestReply(mark)
  BY DEF ShortestReply
<1>3. ~BeginsArray(m, top, top)
  <2>1. ShortestReply(Star) = 4
    BY DEF ShortestReply, Star, Dollar
  <2> QED
    BY <1>1, <2>1 DEF BeginsArray
<1>4. ReadFlat(m, top, target, top) \in {Threw(target, top), NotYet(target, top)}
  BY <1>1, <1>2 DEF ReadFlat
<1> QED
  BY <1>3, <1>4 DEF ReadRecord

-----------------------------------------------------------------------------
(* Arrays.                                                                  *)

(* What FillAll computes on the way. *)
Fills(m, top, target, off) ==
  CHOOSE fill : fill = [i \in 0..Len(target.ares) |->
        IF i = 0 THEN Got(target, off)
        ELSE LET r == fill[i - 1]
             IN IF r.ok THEN FillRecord(m, top, r, i) ELSE r]

LEMMA FillsExist ==
  ASSUME NEW m, NEW top, NEW target, NEW off, Len(target.ares) \in Nat
  PROVE  Fills(m, top, target, off) =
           [i \in 0..Len(target.ares) |->
              IF i = 0 THEN Got(target, off)
              ELSE LET r == Fills(m, top, target, off)[i - 1]
                   IN IF r.ok THEN FillRecord(m, top, r, i) ELSE r]
<1> DEFINE Step(r, i) == IF r.ok THEN FillRecord(m, top, r, i) ELSE r
           Is(f, n) == f = [i \in 0..n |-> IF i = 0 THEN Got(target, off) ELSE Step(f[i - 1], i)]
           T == {n \in Nat : ~ \E f : Is(f, n)}
<1>1. SUFFICES T = {}
  <2>1. PICK f : Is(f, Len(target.ares))
    BY <1>1
  <2> QED
    BY <2>1 DEF Fills
<1>2. SUFFICES ASSUME T # {}
               PROVE  FALSE
  OBVIOUS
<1>3. PICK n \in T : \A k \in T : n <= k
  <2>1. T \subseteq Nat
    OBVIOUS
  <2> HIDE DEF T
  <2> QED
    BY <1>2, <2>1, LeastElement
<1> HIDE DEF Step
<1>4. n # 0
  <2>1. Is([i \in 0..0 |-> Got(target, off)], 0)
    OBVIOUS
  <2> QED
    BY <2>1, <1>3
<1>5. PICK f : Is(f, n - 1)
  <2>1. n - 1 \in Nat /\ ~(n <= n - 1)
    BY <1>3, <1>4
  <2> QED
    BY <1>3, <2>1
<1> DEFINE g == [i \in 0..n |-> IF i = n THEN Step(f[n - 1], n) ELSE f[i]]
<1>6. Is(g, n)
  <2>1. n \in Nat
    BY <1>3
  <2>2. ASSUME NEW i \in 0..n
        PROVE  g[i] = IF i = 0 THEN Got(target, off) ELSE Step(g[i - 1], i)
    <3>1. CASE i = n
      <4>1. g[n - 1] = f[n - 1] /\ n - 1 \in 0..n
        BY <1>4, <2>1
      <4> QED
        BY <1>4, <3>1, <4>1
    <3>2. CASE i # n
      <4>1. g[i] = f[i] /\ i \in 0..(n - 1)
        BY <2>1, <3>2
      <4>2. f[i] = IF i = 0 THEN Got(target, off) ELSE Step(f[i - 1], i)
        BY <1>5, <4>1
      <4>3. i # 0 => g[i - 1] = f[i - 1]
        BY <2>1, <4>1
      <4> QED
        BY <4>1, <4>2, <4>3
    <3> QED
      BY <3>1, <3>2
  <2>3. g = [i \in 0..n |-> g[i]]
    OBVIOUS
  <2> HIDE DEF g
  <2> QED
    BY <2>2, <2>3
<1> QED
  BY <1>3, <1>6

(* An array v, at places of the stream.                                      *)
ArrayAt(bytes, places, v) ==
  /\ IsArray(bytes, places, v)
  /\ places \in Seq(Nat)
  /\ \A i, j \in DOMAIN places : i < j => places[i] < places[j]

LEMMA NonEmptySeq ==
  ASSUME NEW S, NEW s \in Seq(S), s # <<>>
  PROVE  Len(s) \in Nat \ {0} /\ DOMAIN s = 1..Len(s) /\ s = [i \in 1..Len(s) |-> s[i]]
OBVIOUS

LEMMA ArrayFacts ==
  ASSUME NEW bytes, NEW places, NEW v, ArrayAt(bytes, places, v)
  PROVE  LET n == Len(v.ares)
         IN /\ n \in Nat \ {0} /\ DOMAIN v.ares = 1..n /\ v.ares # <<>>
            /\ v = [Empty EXCEPT !.ares = v.ares] /\ v.ares = [i \in 1..n |-> v.ares[i]]
            /\ \A i \in 1..(n + 2) : places[i] \in Nat
            /\ \A i \in 1..(n + 1) : places[i] < places[i + 1]
            /\ IsHeader(bytes, places[1], places[2], n)
            /\ \A i \in 1..n : IsFlat(bytes, places[i + 1], places[i + 2], v.ares[i])
<1> DEFINE n == Len(v.ares)
<1>1. PICK S : v.ares \in Seq(S)
  BY DEF ArrayAt, IsArray
<1>2. n \in Nat \ {0} /\ DOMAIN v.ares = 1..n /\ v.ares # <<>> /\ v.ares = [i \in 1..n |-> v.ares[i]]
  <2>1. v.ares # <<>>
    BY DEF ArrayAt, IsArray
  <2> QED
    BY <1>1, <2>1, NonEmptySeq
<1>3. Len(places) = n + 2 /\ places \in Seq(Nat)
  BY DEF ArrayAt, IsArray
<1>4. DOMAIN places = 1..(n + 2) /\ \A i \in 1..(n + 2) : places[i] \in Nat
  BY <1>2, <1>3
<1>5. ASSUME NEW i \in 1..(n + 1)
      PROVE  places[i] < places[i + 1]
  <2>1. i \in DOMAIN places /\ i + 1 \in DOMAIN places /\ i < i + 1
    BY <1>2, <1>4
  <2> QED
    BY <2>1 DEF ArrayAt
<1>6. /\ v = [Empty EXCEPT !.ares = v.ares]
      /\ IsHeader(bytes, places[1], places[2], n)
      /\ \A i \in DOMAIN v.ares : IsFlat(bytes, places[i + 1], places[i + 2], v.ares[i])
  BY DEF ArrayAt, IsArray
<1> HIDE DEF n
<1> QED
  BY <1>2, <1>4, <1>5, <1>6 DEF n

(* One more record found, or none.                                           *)
PutRecord(target, i, record) == [target EXCEPT !.ares[i] = record]

LEMMA FoundNext ==
  ASSUME NEW bytes, NEW places, NEW v, ArrayAt(bytes, places, v), NEW i \in 1..Len(v.ares)
  PROVE  /\ Found(v, i - 1).ares[i] = Empty
         /\ PutRecord(Found(v, i - 1), i, v.ares[i]) = Found(v, i)
         /\ PutRecord(Found(v, i - 1), i, Empty) = Found(v, i - 1)
<1> DEFINE n == Len(v.ares)
           ares(k) == [j \in 1..n |-> IF j <= k THEN v.ares[j] ELSE Empty]
<1>1. n \in Nat /\ DOMAIN v.ares = 1..n /\ i \in 1..n
  BY ArrayFacts
<1>2. ASSUME NEW k
      PROVE  /\ Found(v, k) = [Empty EXCEPT !.ares = ares(k)]
             /\ Found(v, k).ares = ares(k)
             /\ \A x : [Found(v, k) EXCEPT !.ares[i] = x] = [Empty EXCEPT !.ares = [ares(k) EXCEPT ![i] = x]]
  BY <1>1 DEF Found, Empty
<1>3. [ares(i - 1) EXCEPT ![i] = v.ares[i]] = ares(i)
  <2>1. [ares(i - 1) EXCEPT ![i] = v.ares[i]] =
          [j \in 1..n |-> IF j = i THEN v.ares[i] ELSE IF j <= i - 1 THEN v.ares[j] ELSE Empty]
    BY <1>1
  <2>2. ASSUME NEW j \in 1..n
        PROVE  (IF j = i THEN v.ares[i] ELSE IF j <= i - 1 THEN v.ares[j] ELSE Empty) =
                 IF j <= i THEN v.ares[j] ELSE Empty
    BY <1>1
  <2> QED
    BY <2>1, <2>2
<1>4. [ares(i - 1) EXCEPT ![i] = Empty] = ares(i - 1)
  BY <1>1
<1>5. ares(i - 1)[i] = Empty
  BY <1>1
<1> HIDE DEF ares
<1> QED
  BY <1>2, <1>3, <1>4, <1>5 DEF PutRecord

LEMMA FoundEnds ==
  ASSUME NEW bytes, NEW places, NEW v, ArrayAt(bytes, places, v)
  PROVE  /\ Found(v, Len(v.ares)) = v
         /\ \A k \in Nat : Len(Found(v, k).ares) = Len(v.ares) /\ Found(v, k).ares # <<>>
         /\ \A k \in Nat : \A i \in 1..Len(v.ares) : i <= k => Found(v, k).ares[i] = v.ares[i]
         /\ Found(v, 0) = [Empty EXCEPT !.ares = Resize(<<>>, Len(v.ares))]
<1> DEFINE n == Len(v.ares)
           ares(k) == [j \in 1..n |-> IF j <= k THEN v.ares[j] ELSE Empty]
<1>1. /\ n \in Nat \ {0} /\ DOMAIN v.ares = 1..n
      /\ v = [Empty EXCEPT !.ares = v.ares] /\ v.ares = [i \in 1..n |-> v.ares[i]]
  BY ArrayFacts
<1>2. \A k : Found(v, k) = [Empty EXCEPT !.ares = ares(k)] /\ Found(v, k).ares = ares(k)
  BY <1>1 DEF Found, Empty
<1>3. ares(n) = v.ares
  BY <1>1
<1>4. \A k \in Nat : Len(ares(k)) = n /\ ares(k) # <<>>
  BY <1>1
<1>5. \A k \in Nat : \A i \in 1..n : i <= k => ares(k)[i] = v.ares[i]
  BY <1>1
<1>6. ares(0) = Resize(<<>>, n)
  BY <1>1 DEF Resize
<1> HIDE DEF ares
<1> QED
  BY <1>1, <1>2, <1>3, <1>4, <1>5, <1>6

(* The loop stops at a record that has not been received whole; it throws   *)
(* only where nothing of it has been.                                       *)
Stopped(r, top, b, places, v) ==
  \E k \in 0..(Len(v.ares) - 1), cut \in BOOLEAN, threw \in BOOLEAN :
    /\ r = [ok |-> FALSE, cut |-> cut, threw |-> threw,
            target |-> Found(v, k), off |-> places[k + 2] - b]
    /\ places[k + 2] <= b + top + 2 /\ b + top < places[k + 3]
    /\ threw => places[k + 2] - b = top

Filled(r, top, b, places, v) ==
  \/ r = Got(v, Last(places) - b) /\ Last(places) <= b + top
  \/ Stopped(r, top, b, places, v)

LEMMA FillStep ==
  ASSUME NEW m, NEW top, NEW bytes, NEW b, Received(m, top, bytes, b),
         NEW places, NEW v, ArrayAt(bytes, places, v), NEW i \in 1..Len(v.ares),
         b <= places[i + 1], places[i + 1] <= b + top
  PROVE  LET r == FillRecord(m, top, Got(Found(v, i - 1), places[i + 1] - b), i)
         IN \/ r = Got(Found(v, i), places[i + 2] - b) /\ places[i + 2] <= b + top
            \/ Stopped(r, top, b, places, v)
<1> DEFINE off == places[i + 1] - b
           r == Got(Found(v, i - 1), off)
           read == ReadRecord(m, top, Empty, off)
           next == FillRecord(m, top, r, i)
<1>1. /\ top \in Nat /\ b \in Nat /\ Len(v.ares) \in Nat
      /\ places[i + 1] \in Nat /\ places[i + 2] \in Nat /\ places[i + 1] < places[i + 2]
      /\ IsFlat(bytes, places[i + 1], places[i + 2], v.ares[i])
  <2>1. i + 1 \in 1..(Len(v.ares) + 1) /\ i + 1 \in 1..(Len(v.ares) + 2)
        /\ i + 2 \in 1..(Len(v.ares) + 2) /\ (i + 1) + 1 = i + 2 /\ Len(v.ares) \in Nat
    BY ArrayFacts
  <2>2. /\ places[i + 1] \in Nat /\ places[i + 2] \in Nat
        /\ IsFlat(bytes, places[i + 1], places[i + 2], v.ares[i])
    BY <2>1, ArrayFacts
  <2>3. places[i + 1] < places[(i + 1) + 1]
    BY <2>1, ArrayFacts
  <2> QED
    BY <2>1, <2>2, <2>3 DEF Received
<1>2. /\ Found(v, i - 1).ares[i] = Empty
      /\ PutRecord(Found(v, i - 1), i, v.ares[i]) = Found(v, i)
      /\ PutRecord(Found(v, i - 1), i, Empty) = Found(v, i - 1)
  BY FoundNext
<1>3. next = [read EXCEPT !.target = PutRecord(Found(v, i - 1), i, read.target)]
  <2>1. r.target.ares[i] = Empty /\ r.target = Found(v, i - 1) /\ r.off = off
    <3>1. r.target = Found(v, i - 1) /\ r.off = off
      BY DEF Got
    <3> HIDE DEF r
    <3> QED
      BY <1>2, <3>1
  <2>2. Empty.type = "empty"
    BY DEF Empty
  <2> HIDE DEF r, off
  <2> QED
    BY <2>1, <2>2 DEF FillRecord, PutRecord
<1>4. i - 1 \in 0..(Len(v.ares) - 1) /\ (i - 1) + 2 = i + 1 /\ (i - 1) + 3 = i + 2
  BY <1>1
<1>5. ASSUME b + top < places[i + 2], read \in {Threw(Empty, off), NotYet(Empty, off)},
             read = Threw(Empty, off) => off = top
      PROVE  Stopped(next, top, b, places, v)
  <2>1. \E threw \in BOOLEAN :
          /\ next = [ok |-> FALSE, cut |-> FALSE, threw |-> threw,
                     target |-> Found(v, i - 1), off |-> off]
          /\ threw => off = top
    <3> HIDE DEF next, off, read
    <3>1. PICK threw \in BOOLEAN :
            /\ read = [ok |-> FALSE, cut |-> FALSE, threw |-> threw, target |-> Empty, off |-> off]
            /\ threw => off = top
      BY <1>5 DEF Threw, NotYet
    <3>2. next = [read EXCEPT !.target = Found(v, i - 1)]
      <4>1. PutRecord(Found(v, i - 1), i, read.target) = Found(v, i - 1)
        BY <1>2, <3>1
      <4> QED
        BY <1>3, <4>1, Zenon
    <3> QED
      BY <3>1, <3>2
  <2>2. places[i + 1] <= b + top + 2
    BY <1>1
  <2> HIDE DEF next
  <2> QED
    BY <1>4, <1>5, <2>1, <2>2 DEF Stopped
<1>6. CASE places[i + 1] = b + top
  <2>1. off = top
    BY <1>1, <1>6
  <2>2. read \in {Threw(Empty, off), NotYet(Empty, off)}
    BY <1>1, <2>1, NothingToRead
  <2> QED
    BY <1>1, <1>5, <1>6, <2>1, <2>2
<1>7. CASE places[i + 1] < b + top
  <2>1. InView(m, top, bytes, b, places[i + 1], places[i + 2])
    BY <1>1, <1>7 DEF InView
  <2>2. read = IF places[i + 2] <= b + top THEN Got(v.ares[i], places[i + 2] - b) ELSE NotYet(Empty, off)
    BY <1>1, <2>1, RecordRead
  <2>3. CASE places[i + 2] <= b + top
    <3>1. read = Got(v.ares[i], places[i + 2] - b)
      BY <2>2, <2>3
    <3> HIDE DEF next, read
    <3>2. next = [read EXCEPT !.target = Found(v, i)]
      <4>1. read.target = v.ares[i]
        BY <3>1 DEF Got
      <4>2. PutRecord(Found(v, i - 1), i, read.target) = Found(v, i)
        BY <1>2, <4>1, Zenon
      <4> QED
        BY <1>3, <4>2
    <3>3. next = Got(Found(v, i), places[i + 2] - b)
      BY <3>1, <3>2 DEF Got
    <3> QED
      BY <2>3, <3>3 DEF next
  <2>4. CASE b + top < places[i + 2]
    <3>1. read = NotYet(Empty, off)
      BY <1>1, <2>2, <2>4
    <3>2. NotYet(Empty, off) # Threw(Empty, off)
      BY DEF NotYet, Threw
    <3> QED
      BY <1>5, <2>4, <3>1, <3>2
  <2> QED
    BY <1>1, <2>3, <2>4
<1> QED
  BY <1>1, <1>6, <1>7

LEMMA FillAllArray ==
  ASSUME NEW m, NEW top, NEW bytes, NEW b, Received(m, top, bytes, b),
         NEW places, NEW v, ArrayAt(bytes, places, v), NEW k \in 0..(Len(v.ares) - 1),
         b <= places[k + 2], places[k + 2] <= b + top
  PROVE  Filled(FillAll(m, top, Found(v, k), places[k + 2] - b), top, b, places, v)
<1> DEFINE n == Len(v.ares)
           target == Found(v, k)
           off == places[k + 2] - b
           fill == Fills(m, top, target, off)
           At(h) == fill[h] = Got(Found(v, h), places[h + 2] - b) /\ places[h + 2] <= b + top
           P(i) == \/ i <= k /\ fill[i] = Got(target, off)
                   \/ k <= i /\ At(i)
                   \/ Stopped(fill[i], top, b, places, v)
           T == {i \in 0..n : ~P(i)}
<1>1. n \in Nat \ {0} /\ top \in Nat /\ b \in Nat /\ Len(target.ares) = n
  BY ArrayFacts, FoundEnds DEF Received
<1>2. /\ FillAll(m, top, target, off) = fill[n]
      /\ \A i \in 0..n : fill[i] = IF i = 0 THEN Got(target, off)
                                 ELSE IF fill[i - 1].ok THEN FillRecord(m, top, fill[i - 1], i)
                                 ELSE fill[i - 1]
  <2>1. FillAll(m, top, target, off) = fill[Len(target.ares)]
    BY DEF FillAll, Fills
  <2> HIDE DEF fill, target, off, n
  <2>2. Fills(m, top, target, off) =
           [i \in 0..Len(target.ares) |->
              IF i = 0 THEN Got(target, off)
              ELSE LET r == Fills(m, top, target, off)[i - 1]
                   IN IF r.ok THEN FillRecord(m, top, r, i) ELSE r]
    BY <1>1, FillsExist
  <2> QED
    BY <1>1, <2>1, <2>2 DEF fill
<1> HIDE DEF fill
<1>3. ASSUME NEW i \in 1..n, P(i - 1)
      PROVE  P(i)
  <2>1. /\ i \in 0..n /\ i # 0 /\ i \in 1..Len(v.ares) /\ k \in Nat /\ i - 1 \in Nat
        /\ (i - 1) + 2 = i + 1
    BY <1>1
  <2>2. fill[i] = IF fill[i - 1].ok THEN FillRecord(m, top, fill[i - 1], i) ELSE fill[i - 1]
    BY <1>2, <2>1
  <2>3. CASE Stopped(fill[i - 1], top, b, places, v)
    <3>1. ~fill[i - 1].ok
      BY <2>3 DEF Stopped
    <3>2. fill[i] = fill[i - 1]
      BY <2>2, <3>1
    <3> QED
      BY <2>3, <3>2
  <2>4. CASE i <= k /\ fill[i - 1] = Got(target, off)
    <3>1. fill[i - 1].ok /\ fill[i - 1].target = target
      BY <2>4 DEF Got
    <3>2. IsFlat(bytes, places[i + 1], places[i + 2], v.ares[i])
          /\ places[i + 1] \in Nat /\ places[i + 2] \in Nat
      <4>1. i + 1 \in 1..(n + 2) /\ i + 2 \in 1..(n + 2)
        BY <2>1
      <4> QED
        BY <2>1, <4>1, ArrayFacts
    <3>3. target.ares[i] = v.ares[i]
      BY <2>1, <2>4, FoundEnds
    <3>4. target.ares[i].type # "empty"
      BY <3>2, <3>3, FlatBegins
    <3>5. FillRecord(m, top, fill[i - 1], i) = fill[i - 1]
      <4> HIDE DEF target
      <4> QED
        BY <3>1, <3>4 DEF FillRecord
    <3> QED
      BY <2>2, <2>4, <3>1, <3>5
  <2>5. CASE k <= i - 1 /\ At(i - 1)
    <3>1. /\ fill[i - 1] = Got(Found(v, i - 1), places[i + 1] - b) /\ places[i + 1] <= b + top
          /\ fill[i - 1].ok
      BY <2>1, <2>5 DEF Got
    <3>2. b <= places[i + 1]
      <4>1. \A x, y \in DOMAIN places : x < y => places[x] < places[y]
        BY DEF ArrayAt
      <4>2. DOMAIN places = 1..(n + 2)
        <5>1. Len(places) = n + 2 /\ places \in Seq(Nat)
          BY DEF ArrayAt, IsArray
        <5> HIDE DEF n
        <5> QED
          BY <1>1, <5>1
      <4>3. /\ i + 1 \in 1..(n + 2) /\ k + 2 \in 1..(n + 2)
            /\ places[i + 1] \in Nat /\ places[k + 2] \in Nat
        <5>1. i + 1 \in 1..(n + 2) /\ k + 2 \in 1..(n + 2)
          BY <1>1, <2>1
        <5> QED
          BY <5>1, ArrayFacts
      <4>4. k + 2 = i + 1 \/ k + 2 < i + 1
        BY <2>1, <2>5
      <4>5. places[k + 2] = places[i + 1] \/ places[k + 2] < places[i + 1]
        <5> HIDE DEF n
        <5> QED
          BY <4>1, <4>2, <4>3, <4>4
      <4>6. b \in Nat /\ b <= places[k + 2]
        BY <1>1
      <4> HIDE DEF n
      <4> QED
        BY ONLY <4>3, <4>5, <4>6
    <3>3. fill[i] = FillRecord(m, top, Got(Found(v, i - 1), places[i + 1] - b), i)
      BY <2>2, <3>1
    <3>4. \/ fill[i] = Got(Found(v, i), places[i + 2] - b) /\ places[i + 2] <= b + top
          \/ Stopped(fill[i], top, b, places, v)
      BY <2>1, <3>1, <3>2, <3>3, FillStep
    <3>5. k <= i
      BY <2>1, <2>5
    <3> QED
      BY <3>4, <3>5
  <2>6. CASE i - 1 = k /\ fill[i - 1] = Got(target, off)
    BY <2>1, <2>5, <2>6
  <2> QED
    <3>1. (i - 1 <= k) => (i <= k \/ i - 1 = k)
      BY <2>1
    <3> HIDE DEF At, target, off
    <3> QED
      BY <1>3, <2>3, <2>4, <2>5, <2>6, <3>1
<1>4. P(0)
  BY <1>1, <1>2
<1>5. T = {}
  <2>1. SUFFICES ASSUME T # {}
                 PROVE  FALSE
    OBVIOUS
  <2>2. T \subseteq Nat
    BY <1>1
  <2>3. PICK i \in T : \A j \in T : i <= j
    <3> HIDE DEF T
    <3> QED
      BY <2>1, <2>2, LeastElement
  <2> HIDE DEF P
  <2>4. i \in 1..n /\ i - 1 \in 0..n /\ ~(i <= i - 1)
    BY <1>1, <1>4, <2>3
  <2>5. P(i - 1)
    BY <2>3, <2>4
  <2> QED
    BY <1>3, <2>3, <2>4, <2>5
<1>6. P(n) /\ ~(n <= k)
  <2> HIDE DEF P
  <2> QED
    BY <1>1, <1>5
<1>7. Last(places) = places[n + 2]
  BY DEF ArrayAt, IsArray, Last
<1>8. Found(v, n) = v
  BY FoundEnds
<1>9. At(n) \/ Stopped(fill[n], top, b, places, v)
  BY <1>6
<1>10. Filled(fill[n], top, b, places, v)
  <2> HIDE DEF n
  <2> QED
    BY <1>7, <1>8, <1>9 DEF Filled
<1> QED
  BY <1>2, <1>10

LEMMA FillArrayFills ==
  ASSUME NEW m, NEW top, NEW bytes, NEW b, Received(m, top, bytes, b),
         NEW places, NEW v, ArrayAt(bytes, places, v), NEW k \in 0..(Len(v.ares) - 1),
         b <= places[k + 2], places[k + 2] <= b + top + 2
  PROVE  Filled(FillArray(m, top, Found(v, k), places[k + 2] - b), top, b, places, v)
<1> DEFINE off == places[k + 2] - b
<1>1. /\ top \in Nat /\ b \in Nat /\ k \in Nat /\ Found(v, k).ares # <<>>
      /\ places[k + 2] \in Nat /\ places[k + 3] \in Nat /\ places[k + 2] < places[k + 3]
  <2>1. /\ k + 2 \in 1..(Len(v.ares) + 1) /\ k + 2 \in 1..(Len(v.ares) + 2)
        /\ k + 3 \in 1..(Len(v.ares) + 2) /\ (k + 2) + 1 = k + 3 /\ k \in Nat
    BY ArrayFacts
  <2>2. places[k + 2] \in Nat /\ places[k + 3] \in Nat
    BY <2>1, ArrayFacts
  <2>3. places[k + 2] < places[(k + 2) + 1]
    BY <2>1, ArrayFacts
  <2>4. Found(v, k).ares # <<>>
    BY <2>1, FoundEnds
  <2> QED
    BY <2>1, <2>2, <2>3, <2>4 DEF Received
<1>2. CASE unparsed_size(top, off) = 0
  <2>1. FillArray(m, top, Found(v, k), off) = NotYet(Found(v, k), off)
    BY <1>1, <1>2 DEF FillArray
  <2>2. b + top < places[k + 3]
    BY <1>1, <1>2 DEF unparsed_size
  <2>3. Stopped(NotYet(Found(v, k), off), top, b, places, v)
    BY <2>2 DEF Stopped, NotYet
  <2> QED
    BY <2>1, <2>3 DEF Filled
<1>3. CASE unparsed_size(top, off) # 0
  <2>1. places[k + 2] <= b + top
    BY <1>1, <1>3 DEF unparsed_size
  <2>2. FillArray(m, top, Found(v, k), off) = FillAll(m, top, Found(v, k), off)
    BY <1>1, <1>3 DEF FillArray
  <2> QED
    BY <2>1, <2>2, FillAllArray
<1> QED
  BY <1>2, <1>3

(* What _init_array makes of what _fill_array returned. *)
MarkedCut(f) == [f EXCEPT !.cut = ~f.ok /\ ~f.threw]

(* The size of an array: the \r above the bytes received, if it is taken for  *)
(* its end, is where the end will be.                                       *)
LEMMA HeaderRead ==
  ASSUME NEW m, NEW top, NEW bytes, NEW b, NEW from, NEW to, InView(m, top, bytes, b, from, to),
         NEW n \in Nat, IsHeader(bytes, from, to, n), BeginsArray(m, top, from - b)
  PROVE  LET off == from - b
             filled == FillArray(m, top, [Empty EXCEPT !.ares = Resize(<<>>, n)], to - b)
             r == InitArray(m, top, Empty, off)
         IN \/ r = NotYet(Empty, off) /\ b + top < to
            \/ r = MarkedCut(filled) /\ to <= b + top + 2
<1> DEFINE off == from - b
           cursor == off + 1
           sz == unparsed_size(top, off) - 1
           ends == LineEnds(m, cursor, sz)
           i == to - from - 3
           filled == FillArray(m, top, [Empty EXCEPT !.ares = Resize(<<>>, n)], to - b)
           r == InitArray(m, top, Empty, off)
<1>2. /\ IsLine(bytes, from, to, Star)
      /\ \A k \in (from + 2)..(to - 2) : bytes[k] \in Zero..(Zero + 9)
      /\ from + 4 <= to /\ to <= from + 6 /\ bytes[from + 2] # Zero
      /\ Value(LineText(bytes, from, to)) = n
  BY DEF IsHeader, IsNumberLine, IsLine
<1>3. /\ top \in Nat /\ b \in Nat /\ from \in Nat /\ to \in Nat /\ off \in Nat /\ b <= from
      /\ unparsed_size(top, off) = top - off /\ Received(m, top, bytes, b)
      /\ ~(top - off < 4)
  <2>1. ShortestReply(Star) = 4
    BY DEF ShortestReply, Star, Dollar
  <2>2. unparsed_size(top, off) >= 4
    BY <2>1 DEF BeginsArray
  <2>3. /\ top \in Nat /\ b \in Nat /\ from \in Nat /\ to \in Nat /\ off \in Nat /\ b <= from
        /\ unparsed_size(top, off) = top - off /\ Received(m, top, bytes, b)
    BY FirstByte
  <2> QED
    BY <2>2, <2>3
<1>4. sz = (top - off) - 1 /\ sz \in Nat /\ cursor = from - b + 1 /\ i \in Nat
  BY <1>2, <1>3
<1>5. ASSUME NEW k \in Nat, cursor + k < top, from + 2 + k <= to - 2
      PROVE  m[cursor + k] = bytes[from + 2 + k] /\ m[cursor + k] \in Zero..(Zero + 9)
  <2>1. cursor + k \in Nat /\ b + (cursor + k) + 1 = from + 2 + k
        /\ from + 2 + k \in (from + 2)..(to - 2)
    BY <1>3, <1>5
  <2>2. m[cursor + k] = bytes[b + (cursor + k) + 1]
    BY <1>3, <1>5, <2>1, ByteAt
  <2> QED
    BY <1>2, <2>1, <2>2
<1>6. m[cursor] # Zero
  <2>1. 0 \in Nat /\ cursor + 0 < top /\ from + 2 + 0 <= to - 2
        /\ cursor + 0 = cursor /\ from + 2 + 0 = from + 2
    BY <1>2, <1>3
  <2> HIDE DEF cursor
  <2>2. m[cursor] = bytes[from + 2]
    BY <1>5, <2>1
  <2> QED
    BY <1>2, <2>2
<1>7. ASSUME ends # {}, Min(ends) = i, Bytes(m, cursor, i) = LineText(bytes, from, to)
      PROVE  r = MarkedCut(filled)
  <2>1. Number(m, cursor, i) = n
    BY <1>2, <1>7 DEF Number
  <2>2. cursor + i + 2 = to - b
    BY <1>3
  <2>3. [Empty EXCEPT !.ares = Resize(@, n)] = [Empty EXCEPT !.ares = Resize(<<>>, n)]
    BY DEF Empty
  <2>4. ~(n < 0)
    OBVIOUS
  <2> HIDE DEF cursor, off, i, sz
  <2> QED
    BY <1>6, <1>7, <2>1, <2>2, <2>3, <2>4 DEF InitArray, MarkedCut, cursor, sz
<1>8. CASE to - 1 <= b + top
  <2>1. i <= sz
    BY <1>3, <1>4, <1>8
  <2>2. ends # {} /\ Min(ends) = i /\ Bytes(m, cursor, i) = LineText(bytes, from, to)
    <3> HIDE DEF sz
    <3> QED
      BY <1>2, <1>3, <1>4, <1>8, <2>1, LineFound
  <2>3. to <= b + top + 2
    BY <1>3, <1>8
  <2> QED
    BY <1>7, <2>2, <2>3
<1>9. CASE b + top < to - 1
  <2>1. to = from + 6 /\ i = 3 /\ sz = 3 /\ cursor + 3 = top
    BY <1>2, <1>3, <1>4, <1>9
  <2>2. ASSUME ends = {}
        PROVE  r = NotYet(Empty, off) /\ b + top < to
    <3>1. b + top < to
      BY <1>3, <1>9
    <3> HIDE DEF cursor, off, sz
    <3> QED
      BY <1>6, <2>2, <3>1 DEF InitArray, cursor, sz
  <2>3. ASSUME ends # {}
        PROVE  r = MarkedCut(filled) /\ to <= b + top + 2
    <3>1. ASSUME NEW k \in ends
          PROVE  k = 3
      <4>1. k \in 0..3 /\ m[cursor + k] = CR
        BY <2>1 DEF LineEnds
      <4>2. ASSUME k < 3
            PROVE  FALSE
        <5>1. k \in Nat /\ cursor + k < top /\ from + 2 + k <= to - 2
          BY <1>3, <2>1, <4>1, <4>2
        <5>2. m[cursor + k] \in Zero..(Zero + 9)
          BY <1>5, <5>1
        <5> QED
          BY <4>1, <5>2 DEF Zero, CR
      <4> QED
        BY <4>1, <4>2
    <3>2. Min(ends) = 3
      <4>1. ends \subseteq Nat
        BY DEF LineEnds
      <4> HIDE DEF ends
      <4>2. 3 \in ends /\ \A k \in ends : 3 <= k
        BY <2>3, <3>1
      <4> QED
        BY <4>1, <4>2, MinIs
    <3>3. Bytes(m, cursor, 3) = LineText(bytes, from, to)
      <4>1. LineText(bytes, from, to) = [k \in 1..3 |-> bytes[from + 2 + (k - 1)]]
        <5>1. LineText(bytes, from, to) =
                [k \in 1..((to - 2) - (from + 2) + 1) |-> bytes[(from + 2) + k - 1]]
          BY <1>3 DEF LineText
        <5>2. (to - 2) - (from + 2) + 1 = 3 /\ \A k \in 1..3 : (from + 2) + k - 1 = from + 2 + (k - 1)
          BY <1>3, <2>1
        <5> QED
          BY <5>1, <5>2
      <4>2. ASSUME NEW k \in 1..3
            PROVE  m[cursor + k - 1] = bytes[from + 2 + (k - 1)]
        <5>1. k - 1 \in Nat /\ cursor + (k - 1) < top /\ from + 2 + (k - 1) <= to - 2
              /\ cursor + k - 1 = cursor + (k - 1)
          BY <1>3, <2>1
        <5> QED
          BY <1>5, <5>1
      <4> QED
        BY <4>1, <4>2 DEF Bytes
    <3>4. Min(ends) = i /\ Bytes(m, cursor, i) = LineText(bytes, from, to)
      BY <2>1, <3>2, <3>3
    <3>5. to <= b + top + 2
      BY <1>3, <2>1
    <3> QED
      BY <1>7, <2>3, <3>4, <3>5
  <2> QED
    BY <2>2, <2>3
<1> QED
  BY <1>3, <1>8, <1>9

(* What parse_one finds where an array begins.                               *)
LEMMA ArrayRead ==
  ASSUME NEW m, NEW top, NEW bytes, NEW b, NEW places, NEW v, ArrayAt(bytes, places, v),
         InView(m, top, bytes, b, places[1], places[2])
  PROVE  LET off == places[1] - b
             r == ReadData(m, top, Empty, off)
         IN \/ r = NotYet(Empty, off) /\ b + top < places[2]
            \/ Filled(r, top, b, places, v) /\ r.cut = (~r.ok /\ ~r.threw)
<1> DEFINE off == places[1] - b
           r == ReadData(m, top, Empty, off)
           filled == FillArray(m, top, Found(v, 0), places[2] - b)
<1>1. /\ top \in Nat /\ b \in Nat /\ places[1] \in Nat /\ places[2] \in Nat
      /\ places[1] + 4 <= places[2] /\ b <= places[2]
      /\ unparsed_size(top, off) = top - off /\ off \in Nat
      /\ m[off] = Star /\ Received(m, top, bytes, b) /\ Len(v.ares) \in Nat \ {0}
      /\ IsHeader(bytes, places[1], places[2], Len(v.ares))
  <2>0. IsHeader(bytes, places[1], places[2], Len(v.ares))
    BY ArrayFacts
  <2>1. places[1] + 4 <= places[2] /\ bytes[places[1] + 1] = Star /\ Len(v.ares) \in Nat \ {0}
    BY ArrayFacts DEF IsHeader, IsNumberLine, IsLine
  <2>2. /\ top \in Nat /\ b \in Nat /\ places[1] \in Nat /\ places[2] \in Nat /\ b <= places[1]
        /\ unparsed_size(top, off) = top - off /\ off \in Nat
        /\ m[off] = bytes[places[1] + 1] /\ Received(m, top, bytes, b)
    BY FirstByte
  <2>3. b <= places[2]
    BY <2>1, <2>2
  <2> QED
    BY <2>0, <2>1, <2>2, <2>3
<1>2. ShortestReply(Star) = 4
  BY DEF ShortestReply, Star, Dollar
<1>3. CASE top - off < 4
  <2>1. ~BeginsArray(m, top, off)
    BY <1>1, <1>2, <1>3 DEF BeginsArray
  <2>2. ReadFlat(m, top, Empty, off) = NotYet(Empty, off)
    BY <1>1, <1>2, <1>3 DEF ReadFlat
  <2>3. b + top < places[2]
    BY <1>1, <1>3
  <2> QED
    BY <2>1, <2>2, <2>3 DEF ReadData
<1>4. CASE ~(top - off < 4)
  <2>1. BeginsArray(m, top, off)
    BY <1>1, <1>2, <1>4 DEF BeginsArray
  <2>2. r = InitArray(m, top, Empty, off)
    BY <2>1 DEF ReadData
  <2>3. ASSUME places[2] <= b + top + 2
        PROVE  Filled(filled, top, b, places, v)
    <3>1. 0 \in 0..(Len(v.ares) - 1) /\ 0 + 2 = 2
      BY <1>1
    <3> QED
      BY <1>1, <2>3, <3>1, FillArrayFills
  <2>4. CASE r = NotYet(Empty, off) /\ b + top < places[2]
    BY <2>4
  <2>5. CASE r = MarkedCut(filled) /\ places[2] <= b + top + 2
    <3> HIDE DEF r, filled
    <3>1. CASE filled = Got(v, Last(places) - b) /\ Last(places) <= b + top
      <4>1. r = Got(v, Last(places) - b) /\ r.cut = (~r.ok /\ ~r.threw)
        BY <2>5, <3>1 DEF Got, MarkedCut
      <4> QED
        BY <3>1, <4>1 DEF Filled, r
    <3>2. CASE Stopped(filled, top, b, places, v)
      <4>1. PICK k \in 0..(Len(v.ares) - 1), cut \in BOOLEAN, threw \in BOOLEAN :
              /\ filled = [ok |-> FALSE, cut |-> cut, threw |-> threw,
                           target |-> Found(v, k), off |-> places[k + 2] - b]
              /\ places[k + 2] <= b + top + 2 /\ b + top < places[k + 3]
              /\ threw => places[k + 2] - b = top
        BY <3>2 DEF Stopped
      <4>2. /\ r = [ok |-> FALSE, cut |-> ~threw, threw |-> threw,
                    target |-> Found(v, k), off |-> places[k + 2] - b]
            /\ r.cut = (~r.ok /\ ~r.threw)
        BY <2>5, <4>1 DEF MarkedCut
      <4>3. Stopped(r, top, b, places, v)
        BY <4>1, <4>2 DEF Stopped
      <4> QED
        BY <4>2, <4>3 DEF Filled, r
    <3> QED
      BY <2>3, <2>5, <3>1, <3>2 DEF Filled
  <2>6. \/ r = NotYet(Empty, off) /\ b + top < places[2]
        \/ r = MarkedCut(filled) /\ places[2] <= b + top + 2
    <3>1. Found(v, 0) = [Empty EXCEPT !.ares = Resize(<<>>, Len(v.ares))]
      BY FoundEnds
    <3> DEFINE n == Len(v.ares)
               target == [Empty EXCEPT !.ares = Resize(<<>>, n)]
               f == FillArray(m, top, target, places[2] - b)
    <3>2. n \in Nat /\ IsHeader(bytes, places[1], places[2], n)
      BY <1>1
    <3>3. f = filled
      BY <3>1
    <3> HIDE DEF n
    <3>4. \/ InitArray(m, top, Empty, places[1] - b) = NotYet(Empty, places[1] - b) /\ b + top < places[2]
          \/ InitArray(m, top, Empty, places[1] - b) = MarkedCut(f) /\ places[2] <= b + top + 2
      BY <2>1, <3>2, HeaderRead
    <3> HIDE DEF f, filled, r
    <3> QED
      BY <2>2, <3>3, <3>4
  <2> QED
    BY <2>4, <2>5, <2>6
<1> QED
  BY <1>3, <1>4

LEMMA EmptyArrayRead ==
  ASSUME NEW m, NEW top, NEW bytes, NEW b, NEW from, NEW to, InView(m, top, bytes, b, from, to),
         NEW v, IsEmptyArray(bytes, from, to, v)
  PROVE  ReadData(m, top, Empty, from - b) =
           IF to <= b + top THEN Got(v, to - b) ELSE NotYet(Empty, from - b)
<1> DEFINE off == from - b
<1>1. /\ v = [Empty EXCEPT !.isnull = TRUE]
      /\ from + 4 = to /\ bytes[from + 1] = Star /\ bytes[from + 2] = Zero
  BY DEF IsEmptyArray, Stands
<1>2. /\ top \in Nat /\ b \in Nat /\ from \in Nat /\ to \in Nat /\ off \in Nat /\ b <= from
      /\ m[off] = Star /\ unparsed_size(top, off) = top - off /\ off < top
      /\ ShortestReply(Star) = 4 /\ Received(m, top, bytes, b)
  BY <1>1, FirstByte DEF ShortestReply, Star, Dollar
<1>3. CASE top - off < 4
  <2>1. ReadData(m, top, Empty, off) = NotYet(Empty, off)
    BY <1>2, <1>3 DEF ReadData, BeginsArray, ReadFlat
  <2>2. ~(to <= b + top)
    BY <1>1, <1>2, <1>3
  <2> QED
    BY <2>1, <2>2
<1>4. CASE ~(top - off < 4)
  <2>1. ReadData(m, top, Empty, off) = InitArray(m, top, Empty, off)
    BY <1>2, <1>4 DEF ReadData, BeginsArray
  <2>2. m[off + 1] = Zero
    <3>1. off + 1 \in Nat /\ off + 1 < top /\ b + (off + 1) + 1 = from + 2
      BY <1>2, <1>4
    <3> HIDE DEF off
    <3> QED
      BY <1>1, <1>2, <3>1, ByteAt
  <2>3. off + 1 + 3 = to - b /\ to <= b + top
    BY <1>1, <1>2, <1>4
  <2> HIDE DEF off
  <2>4. InitArray(m, top, Empty, off) = Got(v, off + 1 + 3)
    BY <1>1, <2>2 DEF InitArray
  <2> QED
    BY <2>1, <2>3, <2>4 DEF off
<1> QED
  BY <1>3, <1>4

-----------------------------------------------------------------------------
(* Well-formed streams.                                                     *)

LEMMA StreamFacts ==
  ASSUME NEW s, WellFormed(s)
  PROVE  /\ Len(s.bytes) \in Nat /\ Len(s.replies) \in Nat
         /\ DOMAIN s.at = 1..Len(s.replies) /\ DOMAIN s.replies = 1..Len(s.replies)
         /\ BeginOf(s, 1) = 0
         /\ \A r \in DOMAIN s.at : BeginOf(s, r) = s.at[r][1]
         /\ \A r : r \notin DOMAIN s.at => BeginOf(s, r) = Len(s.bytes)
         /\ \A r \in DOMAIN s.at : BeginOf(s, r + 1) = Last(s.at[r])
<1>1. s.bytes \in Seq(0..255)
  BY DEF WellFormed
<1>2. \E S : s.replies \in Seq(S)
  BY DEF WellFormed
<1>3. Len(s.bytes) \in Nat /\ Len(s.replies) \in Nat /\ DOMAIN s.replies = 1..Len(s.replies)
  BY <1>1, <1>2
<1>4. DOMAIN s.at = DOMAIN s.replies /\ BeginOf(s, 1) = 0
      /\ \A r \in DOMAIN s.at : EndOf(s, r) = BeginOf(s, r + 1)
  BY DEF WellFormed
<1> QED
  BY <1>3, <1>4 DEF BeginOf, EndOf

(* A reply is flat or an empty array at two places, or an array.             *)
LEMMA ReplyFacts ==
  ASSUME NEW s, WellFormed(s), NEW r \in DOMAIN s.at
  PROVE  LET places == s.at[r]
             v == s.replies[r]
         IN /\ Len(places) \in Nat /\ Len(places) >= 2
            /\ \A i \in 1..Len(places) : places[i] \in Nat
            /\ \A i, j \in 1..Len(places) : i < j => places[i] < places[j]
            /\ \A i \in 2..Len(places) : places[i] <= Len(s.bytes)
            /\ \/ /\ Len(places) = 2 /\ v.ares = <<>>
                  /\ \/ IsFlat(s.bytes, places[1], places[2], v)
                     \/ IsEmptyArray(s.bytes, places[1], places[2], v)
               \/ ArrayAt(s.bytes, places, v) /\ Len(places) = Len(v.ares) + 2
<1> DEFINE places == s.at[r]
           v == s.replies[r]
<1>1. IsReply(s.bytes, places, v)
  BY DEF WellFormed
<1> HIDE DEF places, v
<1>2. places \in Seq(Nat) /\ \A i, j \in DOMAIN places : i < j => places[i] < places[j]
  BY <1>1 DEF IsReply
<1>3. DOMAIN places = 1..Len(places) /\ Len(places) \in Nat
      /\ \A i \in 1..Len(places) : places[i] \in Nat
  BY <1>2
<1>4. CASE /\ Len(places) = 2
           /\ IsFlat(s.bytes, places[1], places[2], v) \/ IsEmptyArray(s.bytes, places[1], places[2], v)
  <2>1. places[1] \in Nat /\ places[2] \in Nat
    BY <1>3, <1>4
  <2>2. v.ares = <<>> /\ places[2] <= Len(s.bytes)
    <3>1. CASE IsFlat(s.bytes, places[1], places[2], v)
      BY <2>1, <3>1, FlatBegins
    <3>2. CASE IsEmptyArray(s.bytes, places[1], places[2], v)
      BY <3>2 DEF IsEmptyArray, Stands, Empty
    <3> QED
      BY <1>4, <3>1, <3>2
  <2>3. \A i \in 2..Len(places) : places[i] <= Len(s.bytes)
    BY <1>4, <2>2
  <2> QED
    BY <1>2, <1>3, <1>4, <2>2, <2>3 DEF places, v
<1>5. CASE IsArray(s.bytes, places, v)
  <2>1. ArrayAt(s.bytes, places, v)
    BY <1>2, <1>5 DEF ArrayAt
  <2>2. Len(places) = Len(v.ares) + 2
    BY <1>5 DEF IsArray
  <2>3. ASSUME NEW i \in 2..Len(places)
        PROVE  places[i] <= Len(s.bytes)
    <3>1. Len(v.ares) \in Nat
      BY <2>1, ArrayFacts
    <3>2. CASE i = 2
      <4>1. IsHeader(s.bytes, places[1], places[2], Len(v.ares))
        BY <2>1, ArrayFacts
      <4> QED
        BY <3>2, <4>1 DEF IsHeader, IsNumberLine, IsLine
    <3>3. CASE i # 2
      <4> DEFINE j == i - 2
      <4>1. j \in 1..Len(v.ares) /\ j + 2 = i /\ j + 1 \in 1..Len(places) /\ i \in 1..Len(places)
        BY <1>3, <2>2, <3>1, <3>3
      <4> HIDE DEF j
      <4>2. IsFlat(s.bytes, places[j + 1], places[j + 2], v.ares[j])
        BY <2>1, <4>1, ArrayFacts
      <4> QED
        BY <1>3, <4>1, <4>2, FlatBegins
    <3> QED
      BY <3>2, <3>3
  <2>4. Len(places) >= 2
    BY <2>1, <2>2, ArrayFacts
  <2> QED
    BY <1>2, <1>3, <2>1, <2>2, <2>3, <2>4 DEF places, v
<1> QED
  BY <1>1, <1>4, <1>5 DEF IsReply

-----------------------------------------------------------------------------
(* The buffer.                                                              *)

LEMMA NewBuffer == new_buff \in Buffer /\ new_buff.top = 0 /\ new_buff.size = 0 /\ new_buff.reserved <= MaxBuff
<1>1. calculate_mem(0, BasicBlock) \in Nat /\ calculate_mem(0, BasicBlock) <= 0 + 0 + 2 * BasicBlock
  BY LimitAssumption, BlocksForTwice DEF calculate_mem
<1> QED
  BY <1>1, LimitAssumption, BlockAssumption DEF new_buff, Buffer

(* Room for a read is within the memory that the record says is reserved.    *)
LEMMA ReleaseFacts ==
  ASSUME NEW b \in Buffer, b.top <= b.size, b.size <= b.reserved, b.reserved <= MaxBuff,
         ~ReleaseThrows(b, ReadSize)
  PROVE  LET released == release(b, ReadSize)
         IN /\ released \in Buffer /\ released.top = b.top
            /\ released.top <= released.size /\ released.size <= released.reserved
            /\ released.reserved <= MaxBuff
<1> DEFINE released == release(b, ReadSize)
           size == IF ReadSize < size_avail(b) THEN b.size ELSE b.top + ReadSize
           reserved == IF Reallocates(b, ReadSize) THEN AtMostMax(calculate_mem(b.top, ReadSize))
                       ELSE b.reserved
<1>1. /\ b.top \in Nat /\ b.size \in Nat /\ b.reserved \in Nat /\ ReadSize \in Nat \ {0} /\ MaxBuff \in Nat
      /\ b = [top |-> b.top, size |-> b.size, reserved |-> b.reserved]
  BY ReadAssumption, LimitAssumption DEF Buffer
<1>2. released = [top |-> b.top, size |-> size, reserved |-> reserved]
  <2>1. released = [b EXCEPT !.size = size, !.reserved = reserved]
    BY Zenon DEF release
  <2> HIDE DEF released, size, reserved
  <2> QED
    BY <1>1, <2>1
<1>3. size \in Nat /\ b.top <= size /\ size <= reserved /\ reserved \in Nat /\ reserved <= MaxBuff
  <2>1. CASE Reallocates(b, ReadSize)
    <3>1. size = b.top + ReadSize /\ b.top + ReadSize <= MaxBuff
      BY <1>1, <2>1 DEF Reallocates, size_avail, ReleaseThrows
    <3>2. b.top + b.top + 2 * ReadSize < SizeT
      BY <1>1, <3>1, LimitAssumption, BlockAssumption
    <3>3. calculate_mem(b.top, ReadSize) \in Nat /\ calculate_mem(b.top, ReadSize) > b.top + ReadSize
      <4>1. calculate_mem(b.top, ReadSize) \in Nat
            /\ calculate_mem(b.top, ReadSize) > b.top + b.top + ReadSize
        BY <1>1, <3>2, LimitAssumption, BlocksForTwice DEF calculate_mem
      <4> QED
        BY <1>1, <4>1
    <3>4. reserved = AtMostMax(calculate_mem(b.top, ReadSize))
      BY <2>1
    <3> HIDE DEF size, reserved
    <3> QED
      BY <1>1, <3>1, <3>3, <3>4 DEF AtMostMax
  <2>2. CASE ~Reallocates(b, ReadSize)
    BY <1>1, <2>2 DEF Reallocates, size_avail
  <2> QED
    BY <2>1, <2>2
<1> HIDE DEF size, reserved
<1> QED
  BY <1>1, <1>2, <1>3 DEF Buffer

-----------------------------------------------------------------------------
(* The inductive invariant.                                                 *)

LEMMA Basics ==
  ASSUME TypeOK, BytesKept, DeliveredOK, WellFormed(stream)
  PROVE  /\ buff.top \in Nat /\ buff.size \in Nat /\ buff.reserved \in Nat
         /\ unparsed \in Nat /\ Len(wire) \in Nat /\ Len(stream.bytes) \in Nat
         /\ base \in Nat /\ base + buff.top + Len(wire) = Len(stream.bytes)
         /\ Len(delivered) \in Nat /\ current = Len(delivered) + 1 /\ current \in Nat
         /\ Received(mem, buff.top, stream.bytes, base)
         /\ MaxBuff \in Nat /\ ReadSize \in 1..MaxBuff /\ MemSize \in Nat /\ MaxBuff < MemSize
<1>1. /\ buff.top \in Nat /\ buff.size \in Nat /\ buff.reserved \in Nat
      /\ unparsed \in Nat /\ wire \in Seq(0..255)
  BY DEF TypeOK, Buffer
<1>2. Len(wire) \in Nat /\ Len(stream.bytes) \in Nat
  BY <1>1, StreamFacts
<1>3. base \in Nat /\ base + buff.top + Len(wire) = Len(stream.bytes)
  BY <1>1, <1>2 DEF BytesKept, base
<1>4. Len(delivered) \in Nat
  BY DEF DeliveredOK
<1>5. Received(mem, buff.top, stream.bytes, base)
  BY <1>1, <1>2, <1>3 DEF Received, BytesKept
<1> QED
  BY <1>1, <1>2, <1>3, <1>4, <1>5, LimitAssumption, ReadAssumption DEF current

(* What is left of a sequence. *)
LEMMA RestOf ==
  ASSUME NEW S, NEW s \in Seq(S), NEW n \in 0..Len(s)
  PROVE  LET rest == SubSeq(s, n + 1, Len(s))
         IN /\ rest \in Seq(S) /\ Len(rest) = Len(s) - n
            /\ \A k \in 1..(Len(s) - n) : rest[k] = s[n + k]
<1>1. /\ Len(s) \in Nat /\ n + 1 \in Int /\ Len(s) \in Int
      /\ \A i \in (n + 1)..Len(s) : s[i] \in S
  OBVIOUS
<1> DEFINE rest == SubSeq(s, n + 1, Len(s))
<1>2. rest \in Seq(S)
  BY <1>1, SubSeqProperties
<1>3. Len(rest) = Len(s) - n
  BY <1>1
<1>4. ASSUME NEW k \in 1..(Len(s) - n)
      PROVE  rest[k] = s[n + k]
  BY <1>1
<1> QED
  BY <1>2, <1>3, <1>4

LEMMA InitInv ==
  ASSUME Init, WellFormed(stream)
  PROVE  ParserInv
<1>1. /\ wire = stream.bytes /\ unparsed = 0 /\ delivered = <<>> /\ incompl_arr = FALSE
      /\ status = "reading" /\ buff = new_buff
      /\ buff \in Buffer /\ buff.top = 0 /\ buff.size = 0 /\ buff.reserved <= MaxBuff
      /\ MaxBuff \in Nat
  BY NewBuffer, LimitAssumption DEF Init
<1>2. /\ Len(stream.bytes) \in Nat /\ base = 0 /\ current = 1 /\ BeginOf(stream, current) = 0
  <2>1. Len(stream.bytes) \in Nat /\ BeginOf(stream, 1) = 0
    BY StreamFacts
  <2>2. Len(delivered) = 0
    BY <1>1
  <2>3. base = 0
    BY <1>1, <2>1 DEF base
  <2> QED
    BY <2>1, <2>2, <2>3 DEF current
<1>3. TypeOK
  <2>1. wire \in Seq(0..255) /\ stream \in Streams
    BY <1>1 DEF Init, WellFormed
  <2>2. mem \in [0..(MemSize - 1) -> 0..255]
    BY ReadAssumption DEF Init
  <2>3. /\ unparsed \in 0..(buff.top + 2) /\ buff.top <= buff.size /\ buff.size <= buff.reserved
        /\ buff.reserved <= MaxBuff
    <3>1. buff.reserved \in Nat
      BY <1>1 DEF Buffer
    <3> QED
      BY <1>1, <3>1
  <2> QED
    BY <1>1, <2>1, <2>2, <2>3 DEF TypeOK
<1>4. BytesKept
  BY <1>1, <1>2 DEF BytesKept
<1>5. DeliveredOK
  BY <1>1, StreamFacts DEF DeliveredOK, replies
<1>6. PlaceOK
  <2>1. ASSUME current \in DOMAIN stream.at
        PROVE  0 < stream.at[current][2]
    <3>1. stream.at[current][1] = 0
      BY <1>2, <2>1, StreamFacts
    <3>2. stream.at[current][1] < stream.at[current][2]
      BY <2>1, ReplyFacts
    <3> QED
      BY <3>1, <3>2
  <2> QED
    BY <1>1, <1>2, <2>1 DEF PlaceOK, AtReply
<1>7. RoomOK
  BY <1>1, <1>2 DEF RoomOK
<1>8. EndOK
  <2>1. ASSUME current \notin DOMAIN stream.at
        PROVE  wire = <<>>
    <3>1. Len(stream.bytes) = 0
      BY <1>2, <2>1, StreamFacts
    <3>2. stream.bytes \in Seq(0..255)
      BY DEF WellFormed
    <3> QED
      BY <1>1, <3>1, <3>2
  <2> QED
    BY <1>1, <2>1 DEF EndOK
<1> QED
  BY <1>1, <1>3, <1>4, <1>5, <1>6, <1>7, <1>8 DEF ParserInv, RefusedBetweenRecords, OverflowNeedsLongReply

(* A read adds what comes next to what is in the buffer.                     *)
LEMMA ReadStep ==
  ASSUME ParserInv, WellFormed(stream), NEW n \in 1..Len(wire), Read(n)
  PROVE  ParserInv'
<1> DEFINE b == release(buff, ReadSize)
<1>1. /\ buff.top \in Nat /\ buff.size \in Nat /\ buff.reserved \in Nat
      /\ unparsed \in Nat /\ Len(wire) \in Nat /\ Len(stream.bytes) \in Nat
      /\ base \in Nat /\ base + buff.top + Len(wire) = Len(stream.bytes)
      /\ MaxBuff \in Nat /\ MemSize \in Nat /\ MaxBuff < MemSize
  BY Basics DEF ParserInv
<1>2. /\ status = "reading" /\ status' = "parsing" /\ stream' = stream /\ unparsed' = unparsed
      /\ incompl_arr' = incompl_arr /\ respond' = respond /\ delivered' = delivered
      /\ n <= size_avail(b) /\ buff' = accept(b, n)
      /\ wire' = SubSeq(wire, n + 1, Len(wire))
      /\ mem' = [k \in DOMAIN mem |->
                   IF k \in b.top..(b.top + n - 1) THEN wire[1 + k - b.top] ELSE mem[k]]
  BY DEF Read
<1>3. /\ b \in Buffer /\ b.top = buff.top /\ b.size \in Nat /\ b.reserved \in Nat
      /\ b.size <= b.reserved /\ b.reserved <= MaxBuff
  <2>1. /\ buff \in Buffer /\ buff.top <= buff.size /\ buff.size <= buff.reserved
        /\ buff.reserved <= MaxBuff /\ ~ReleaseThrows(buff, ReadSize)
    BY DEF ParserInv, TypeOK, Read
  <2>2. b \in Buffer /\ b.top = buff.top /\ b.size <= b.reserved /\ b.reserved <= MaxBuff
    BY <2>1, ReleaseFacts
  <2> HIDE DEF b
  <2> QED
    BY <2>2 DEF Buffer
<1> HIDE DEF b
<1>4. /\ buff' = [top |-> buff.top + n, size |-> b.size, reserved |-> b.reserved]
      /\ buff.top + n <= b.size /\ n \in Nat
  <2>1. b = [top |-> b.top, size |-> b.size, reserved |-> b.reserved]
    BY <1>3 DEF Buffer
  <2>2. buff' = [b EXCEPT !.top = b.top + n]
    BY <1>2 DEF accept
  <2>3. buff.top + n <= b.size /\ n \in Nat
    BY <1>1, <1>2, <1>3 DEF size_avail
  <2> QED
    BY <1>3, <2>1, <2>2, <2>3
<1>5. /\ wire \in Seq(0..255) /\ wire' \in Seq(0..255) /\ Len(wire') = Len(wire) - n
      /\ \A k \in 1..(Len(wire) - n) : wire'[k] = wire[n + k]
  <2>1. wire \in Seq(0..255) /\ n \in 0..Len(wire)
    BY <1>1 DEF ParserInv, TypeOK
  <2> QED
    BY <1>2, <2>1, RestOf
<1>6. base' = base /\ current' = current /\ replies' = replies
  <2>1. Len(stream.bytes) - (Len(wire) - n) - (buff.top + n) = Len(stream.bytes) - Len(wire) - buff.top
    BY <1>1
  <2> QED
    BY <1>2, <1>4, <1>5, <2>1 DEF base, current, replies
<1>7. TypeOK'
  <2>1. mem' \in [0..(MemSize - 1) -> 0..255]
    <3>1. mem \in [0..(MemSize - 1) -> 0..255]
      BY DEF ParserInv, TypeOK
    <3>2. ASSUME NEW k \in buff.top..(buff.top + n - 1)
          PROVE  wire[1 + k - buff.top] \in 0..255
      <4> DEFINE j == 1 + k - buff.top
      <4>1. j \in 1..Len(wire)
        <5>1. buff.top \in Nat /\ Len(wire) \in Nat /\ n \in 1..Len(wire)
          BY <1>1
        <5> QED
          BY <5>1
      <4> HIDE DEF j
      <4>2. wire[j] \in 0..255
        BY <1>5, <4>1, ElementOfSeq
      <4> QED
        BY <4>2 DEF j
    <3> QED
      BY <1>2, <1>3, <3>1, <3>2
  <2>2. unparsed' \in 0..(buff'.top + 2)
    <3>1. unparsed \in 0..(buff.top + 2)
      BY DEF ParserInv, TypeOK
    <3> QED
      BY <1>1, <1>2, <1>4, <3>1
  <2>3. buff' \in Buffer /\ buff'.top <= buff'.size /\ buff'.size <= buff'.reserved /\ buff'.reserved <= MaxBuff
    BY <1>1, <1>3, <1>4 DEF Buffer
  <2> QED
    BY <1>2, <1>5, <2>1, <2>2, <2>3 DEF ParserInv, TypeOK
<1>8. BytesKept'
  <2>1. /\ base >= 0
        /\ \A k \in 0..(buff.top - 1) : mem[k] = stream.bytes[base + k + 1]
        /\ \A k \in 1..Len(wire) : wire[k] = stream.bytes[base + buff.top + k]
    BY DEF ParserInv, BytesKept
  <2>2. ASSUME NEW k \in 0..(buff.top + n - 1)
        PROVE  mem'[k] = stream.bytes[base + k + 1]
    <3>1. k \in DOMAIN mem
      <4>1. DOMAIN mem = 0..(MemSize - 1)
        BY DEF ParserInv, TypeOK
      <4> QED
        BY <1>1, <1>3, <1>4, <4>1
    <3>2. CASE k < buff.top
      <4>1. mem'[k] = mem[k]
        BY <1>1, <1>2, <1>3, <3>1, <3>2
      <4> QED
        BY <1>1, <2>1, <3>2, <4>1
    <3>3. CASE ~(k < buff.top)
      <4>1. mem'[k] = wire[1 + k - buff.top]
        <5>1. k \in buff.top..(buff.top + n - 1)
          BY <1>1, <3>3
        <5> QED
          BY <1>2, <1>3, <3>1, <5>1
      <4>2. 1 + k - buff.top \in 1..Len(wire) /\ base + buff.top + (1 + k - buff.top) = base + k + 1
        <5>1. /\ buff.top \in Nat /\ base \in Nat /\ Len(wire) \in Nat /\ n \in 1..Len(wire)
              /\ k \in 0..(buff.top + n - 1) /\ ~(k < buff.top)
          BY <1>1, <3>3
        <5> HIDE DEF base
        <5> QED
          BY <5>1
      <4> QED
        BY <2>1, <4>1, <4>2
    <3> QED
      BY <3>2, <3>3
  <2>3. ASSUME NEW k \in 1..(Len(wire) - n)
        PROVE  wire'[k] = stream.bytes[base + (buff.top + n) + k]
    <3>1. n + k \in 1..Len(wire) /\ base + buff.top + (n + k) = base + (buff.top + n) + k
      BY <1>1
    <3> QED
      BY <1>5, <2>1, <3>1
  <2>4. buff'.top = buff.top + n
    BY <1>4
  <2>5. base' >= 0
    BY <1>6, <2>1
  <2>6. \A k \in 0..(buff'.top - 1) : mem'[k] = stream'.bytes[base' + k + 1]
    <3>1. buff'.top - 1 = buff.top + n - 1
      BY <1>1, <1>4, <2>4
    <3> QED
      BY <1>2, <1>6, <2>2, <3>1
  <2>7. \A k \in 1..Len(wire') : wire'[k] = stream'.bytes[base' + buff'.top + k]
    BY <1>2, <1>5, <1>6, <2>3, <2>4
  <2> HIDE DEF base
  <2> QED
    BY <2>5, <2>6, <2>7 DEF BytesKept
<1>9. DeliveredOK'
  BY <1>2, <1>6 DEF ParserInv, DeliveredOK
<1>10. PlaceOK'
  <2>1. PlaceOK
    BY DEF ParserInv
  <2>2. CASE incompl_arr
    <3>1. PICK k \in 0..(Len(replies[current].ares) - 1) : AtRecord(k)
      BY <1>2, <2>1, <2>2 DEF PlaceOK
    <3>2. AtRecord(k)'
      BY <1>2, <1>6, <3>1 DEF AtRecord
    <3> QED
      BY <1>2, <1>6, <2>1, <2>2, <3>2 DEF PlaceOK
  <2>3. CASE ~incompl_arr
    BY <1>2, <1>6, <2>1, <2>3 DEF PlaceOK, AtReply
  <2> QED
    BY <2>2, <2>3
<1>11. RoomOK'
  <2> DEFINE begun == BeginOf(stream, current) - base
  <2>1. begun >= 0 /\ (2 * begun <= buff.top \/ 2 * begun < MaxBuff)
    BY DEF ParserInv, RoomOK
  <2>2. BeginOf(stream, current) \in Nat
    <3>1. CASE current \in DOMAIN stream.at
      <4>1. Len(stream.at[current]) \in Nat /\ Len(stream.at[current]) >= 2
            /\ \A i \in 1..Len(stream.at[current]) : stream.at[current][i] \in Nat
        BY <3>1, ReplyFacts
      <4> QED
        BY <3>1, <4>1, StreamFacts
    <3>2. CASE current \notin DOMAIN stream.at
      BY <3>2, StreamFacts
    <3> QED
      BY <3>1, <3>2
  <2>3. begun \in Int
    BY <1>1, <2>2
  <2>4. BeginOf(stream, current)' = BeginOf(stream, current)
    BY <1>2, <1>6
  <2>5. buff'.top = buff.top + n
    BY <1>4
  <2> HIDE DEF begun
  <2>6. 2 * begun <= buff.top + n \/ 2 * begun < MaxBuff
    BY <1>1, <1>4, <2>1, <2>3
  <2> QED
    BY <1>6, <2>1, <2>4, <2>5, <2>6 DEF RoomOK, begun
<1>12. EndOK'
  <2>1. current \in DOMAIN stream.at
    <3>1. wire # <<>>
      BY <1>1
    <3> QED
      BY <3>1 DEF ParserInv, EndOK
  <2> QED
    BY <1>2, <1>6, <2>1 DEF EndOK
<1> QED
  BY <1>2, <1>7, <1>8, <1>9, <1>10, <1>11, <1>12 DEF ParserInv, RefusedBetweenRecords, OverflowNeedsLongReply

(* A step that neither moves bytes nor delivers a reply.                     *)
LEMMA NothingMoves ==
  ASSUME ParserInv, UNCHANGED <<stream, wire, mem, buff, delivered>>
  PROVE  /\ base' = base /\ current' = current /\ replies' = replies
         /\ BytesKept' /\ DeliveredOK' /\ RoomOK' /\ EndOK'
<1>1. base' = base /\ current' = current /\ replies' = replies
  BY DEF base, current, replies
<1>2. BytesKept' /\ DeliveredOK'
  BY <1>1 DEF ParserInv, BytesKept, DeliveredOK
<1>3. RoomOK' /\ EndOK'
  BY <1>1 DEF ParserInv, RoomOK, EndOK
<1> QED
  BY <1>1, <1>2, <1>3

(* Where the reply that is read begins, and that it ends beyond the bytes    *)
(* received when the parser waits for them.                                 *)
LEMMA ReadingReply ==
  ASSUME ParserInv, WellFormed(stream), status = "reading", current \in DOMAIN stream.at
  PROVE  /\ stream.at[current][1] \in Nat /\ Last(stream.at[current]) \in Nat
         /\ BeginOf(stream, current) = stream.at[current][1]
         /\ base + buff.top < Last(stream.at[current])
         /\ Last(stream.at[current]) <= Len(stream.bytes)
<1> DEFINE places == stream.at[current]
           v == replies[current]
<1>1. /\ Len(places) \in Nat /\ Len(places) >= 2
      /\ \A i \in 1..Len(places) : places[i] \in Nat
      /\ \A i, j \in 1..Len(places) : i < j => places[i] < places[j]
      /\ \A i \in 2..Len(places) : places[i] <= Len(stream.bytes)
      /\ v.ares = <<>> \/ (Len(v.ares) \in Nat /\ Len(places) = Len(v.ares) + 2)
  BY ReplyFacts, ArrayFacts DEF replies
<1>2. BeginOf(stream, current) = places[1]
  BY StreamFacts
<1>3. base \in Nat /\ buff.top \in Nat
  BY Basics DEF ParserInv
<1>4. PICK i \in 1..Len(places) : base + buff.top < places[i]
  <2>1. CASE incompl_arr
    <3>1. PICK k \in 0..(Len(v.ares) - 1) : AtRecord(k)
      BY <2>1 DEF ParserInv, PlaceOK
    <3>2. v.ares # <<>>
      BY <3>1
    <3>3. k + 3 \in 1..Len(places) /\ base + buff.top < places[k + 3]
      <4>1. base + buff.top < places[k + 3]
        BY <3>1 DEF AtRecord
      <4>2. k + 3 \in 1..Len(places)
        <5> HIDE DEF places, v
        <5> QED
          BY <1>1, <3>1, <3>2
      <4> QED
        BY <4>1, <4>2
    <3> QED
      BY <3>3
  <2>2. CASE ~incompl_arr
    <3>1. base + buff.top < places[2]
      BY <2>2 DEF ParserInv, PlaceOK, AtReply
    <3>2. 2 \in 1..Len(places)
      BY <1>1
    <3> QED
      BY <3>1, <3>2
  <2> QED
    BY <2>1, <2>2
<1> HIDE DEF places
<1>5. /\ Len(places) \in 1..Len(places) /\ Len(places) \in 2..Len(places) /\ 1 \in 1..Len(places)
      /\ i = Len(places) \/ i < Len(places)
  BY <1>1
<1>6. places[Len(places)] \in Nat /\ places[i] \in Nat /\ places[1] \in Nat
      /\ places[Len(places)] <= Len(stream.bytes) /\ places[i] <= places[Len(places)]
  BY <1>1, <1>5
<1>7. base + buff.top < places[Len(places)]
  BY <1>3, <1>4, <1>6
<1> QED
  BY <1>2, <1>6, <1>7 DEF Last, places

(* Then more than half of the buffer, or of the bytes in it, is of one reply. *)
LEMMA ReadThrowsStep ==
  ASSUME ParserInv, WellFormed(stream), ReadThrows
  PROVE  ParserInv'
<1>1. /\ UNCHANGED <<stream, wire, mem, buff, unparsed, incompl_arr, respond, delivered>>
      /\ status = "reading" /\ status' = "overflow" /\ ReleaseThrows(buff, ReadSize)
  BY DEF ReadThrows, bufferVars
<1>2. /\ base' = base /\ current' = current /\ replies' = replies
      /\ BytesKept' /\ DeliveredOK' /\ RoomOK' /\ EndOK'
  BY <1>1, NothingMoves
<1>3. TypeOK'
  BY <1>1 DEF ParserInv, TypeOK
<1>4. /\ buff.top \in Nat /\ base \in Nat /\ MaxBuff \in Nat /\ ReadSize \in 1..MaxBuff
      /\ Len(stream.bytes) \in Nat
  BY Basics DEF ParserInv
<1>5. buff.top + ReadSize > MaxBuff
  BY <1>1 DEF ReleaseThrows
<1>6. current \in DOMAIN stream.at
  BY <1>4, <1>5 DEF ParserInv, EndOK
<1>7. ReplySize(current) > MaxBuff \div 2 - ReadSize
  <2> DEFINE first == stream.at[current][1]
             last == Last(stream.at[current])
             begun == first - base
             half == MaxBuff \div 2
  <2>1. /\ first \in Nat /\ last \in Nat /\ BeginOf(stream, current) = first
        /\ base + buff.top < last
    BY <1>1, <1>6, ReadingReply
  <2>2. begun >= 0 /\ (2 * begun <= buff.top \/ 2 * begun < MaxBuff)
    BY <2>1 DEF ParserInv, RoomOK
  <2>3. half \in Nat /\ 2 * half <= MaxBuff
    BY <1>4
  <2>4. begun \in Int /\ last - first > buff.top - begun
    BY <1>4, <2>1
  <2>5. last - first > half - ReadSize
    <3> DEFINE long == last - first
    <3>1. /\ long \in Int /\ long > buff.top - begun /\ begun \in Int
          /\ buff.top + ReadSize > MaxBuff
          /\ buff.top \in Nat /\ MaxBuff \in Nat /\ ReadSize \in Nat /\ half \in Nat
      BY <1>4, <1>5, <2>1, <2>3, <2>4
    <3> HIDE DEF begun, half, long
    <3>2. long > half - ReadSize
      <4>1. CASE 2 * begun <= buff.top
        BY ONLY <2>3, <3>1, <4>1
      <4>2. CASE 2 * begun < MaxBuff
        BY ONLY <2>3, <3>1, <4>2
      <4> QED
        BY <2>2, <4>1, <4>2
    <3> QED
      BY <3>2 DEF long
  <2>6. ReplySize(current) = last - first
    BY DEF ReplySize
  <2> QED
    BY <2>5, <2>6
<1>8. OverflowNeedsLongReply'
  <2>1. current \in DOMAIN replies /\ stream' = stream
    BY <1>1, <1>6, StreamFacts DEF replies
  <2>2. ReplySize(current)' = ReplySize(current)
    BY <1>2, <2>1 DEF ReplySize
  <2> QED
    BY <1>2, <1>7, <2>1, <2>2 DEF OverflowNeedsLongReply, ReplySize
<1>9. PlaceOK'
  <2>1. PlaceOK
    BY DEF ParserInv
  <2>2. CASE incompl_arr
    <3>1. PICK k \in 0..(Len(replies[current].ares) - 1) : AtRecord(k)
      BY <1>1, <2>1, <2>2 DEF PlaceOK
    <3>2. AtRecord(k)'
      BY <1>1, <1>2, <3>1 DEF AtRecord
    <3> QED
      BY <1>1, <1>2, <2>1, <2>2, <3>2 DEF PlaceOK
  <2>3. CASE ~incompl_arr
    BY <1>1, <1>2, <2>1, <2>3 DEF PlaceOK, AtReply
  <2> QED
    BY <2>2, <2>3
<1> QED
  BY <1>1, <1>2, <1>3, <1>8, <1>9 DEF ParserInv, RefusedBetweenRecords

(* Nothing is left to parse: what is expected next has not been received.    *)
LEMMA NothingUnparsedStep ==
  ASSUME ParserInv, WellFormed(stream), NothingUnparsed
  PROVE  ParserInv'
<1>1. /\ UNCHANGED <<stream, wire, mem, buff, unparsed, incompl_arr, respond, delivered>>
      /\ status = "parsing" /\ status' = "reading" /\ buff.top <= unparsed
  BY DEF NothingUnparsed, bufferVars
<1>2. /\ base' = base /\ current' = current /\ replies' = replies
      /\ BytesKept' /\ DeliveredOK' /\ RoomOK' /\ EndOK'
  BY <1>1, NothingMoves
<1>3. TypeOK'
  BY <1>1 DEF ParserInv, TypeOK
<1>4. /\ buff.top \in Nat /\ base \in Nat /\ unparsed \in Nat
  BY Basics DEF ParserInv
<1>5. PlaceOK'
  <2>1. PlaceOK
    BY DEF ParserInv
  <2>2. CASE incompl_arr
    <3>1. PICK k \in 0..(Len(replies[current].ares) - 1) : AtRecord(k)
      BY <1>1, <2>1, <2>2 DEF PlaceOK
    <3>2. current \in DOMAIN replies
      BY <1>1, <2>1, <2>2 DEF PlaceOK
    <3> DEFINE places == stream.at[current]
    <3>3. base + buff.top < places[k + 3]
      <4>1. current \in DOMAIN stream.at
        BY <3>2, StreamFacts DEF replies
      <4>2. /\ Len(places) \in Nat
            /\ \A i \in 1..Len(places) : places[i] \in Nat
            /\ \A i, j \in 1..Len(places) : i < j => places[i] < places[j]
            /\ replies[current].ares = <<>>
               \/ (Len(replies[current].ares) \in Nat /\ Len(places) = Len(replies[current].ares) + 2)
        BY <4>1, ReplyFacts, ArrayFacts DEF replies
      <4>3. base + unparsed = places[k + 2]
        BY <3>1 DEF AtRecord
      <4> HIDE DEF places
      <4>4. k + 2 \in 1..Len(places) /\ k + 3 \in 1..Len(places) /\ k + 2 < k + 3
        BY <3>1, <4>2
      <4>5. places[k + 2] < places[k + 3] /\ places[k + 2] \in Nat /\ places[k + 3] \in Nat
        BY <4>2, <4>4
      <4> QED
        BY <1>1, <1>4, <4>3, <4>5
    <3>4. AtRecord(k)'
      BY <1>1, <1>2, <3>1, <3>3 DEF AtRecord
    <3> QED
      BY <1>1, <1>2, <2>1, <2>2, <3>4 DEF PlaceOK
  <2>3. CASE ~incompl_arr
    <3>1. base + unparsed = BeginOf(stream, current)
      BY <1>1, <2>1, <2>3 DEF PlaceOK, AtReply
    <3>2. ASSUME current \in DOMAIN stream.at
          PROVE  base + buff.top < stream.at[current][2]
      <4> DEFINE places == stream.at[current]
      <4>1. /\ Len(places) \in Nat /\ Len(places) >= 2
            /\ \A i \in 1..Len(places) : places[i] \in Nat
            /\ \A i, j \in 1..Len(places) : i < j => places[i] < places[j]
        BY <3>2, ReplyFacts
      <4>2. base + unparsed = places[1]
        BY <3>1, <3>2, StreamFacts
      <4> HIDE DEF places
      <4>3. places[1] \in Nat /\ places[2] \in Nat /\ places[1] < places[2]
        BY <4>1
      <4>4. base + buff.top < places[2]
        BY <1>1, <1>4, <4>2, <4>3
      <4> QED
        BY <4>4 DEF places
    <3> QED
      BY <1>1, <1>2, <2>3, <3>1, <3>2 DEF PlaceOK, AtReply
  <2> QED
    BY <2>2, <2>3
<1> QED
  BY <1>1, <1>2, <1>3, <1>5 DEF ParserInv, RefusedBetweenRecords, OverflowNeedsLongReply

(* Where the reply that is read begins and ends.                             *)
LEMMA CurrentReply ==
  ASSUME ParserInv, WellFormed(stream), current \in DOMAIN stream.at
  PROVE  LET places == stream.at[current]
         IN /\ places[1] \in Nat /\ places[2] \in Nat /\ Last(places) \in Nat
            /\ BeginOf(stream, current) = places[1] /\ BeginOf(stream, current + 1) = Last(places)
            /\ base <= places[1] /\ places[1] < Last(places) /\ places[1] < places[2]
<1> DEFINE places == stream.at[current]
<1>1. /\ Len(places) \in Nat /\ Len(places) >= 2
      /\ \A i \in 1..Len(places) : places[i] \in Nat
      /\ \A i, j \in 1..Len(places) : i < j => places[i] < places[j]
  BY ReplyFacts
<1>2. BeginOf(stream, current) = places[1] /\ BeginOf(stream, current + 1) = Last(places)
  BY StreamFacts
<1>3. BeginOf(stream, current) - base >= 0 /\ base \in Nat
  BY Basics DEF ParserInv, RoomOK
<1> HIDE DEF places
<1>4. /\ 1 \in 1..Len(places) /\ 2 \in 1..Len(places) /\ Len(places) \in 1..Len(places)
      /\ 1 < Len(places)
  BY <1>1
<1>5. /\ places[1] \in Nat /\ places[2] \in Nat /\ places[Len(places)] \in Nat
      /\ places[1] < places[Len(places)] /\ places[1] < places[2]
  BY <1>1, <1>4
<1>6. base <= places[1]
  BY <1>2, <1>3, <1>5
<1> QED
  BY <1>2, <1>5, <1>6 DEF Last, places

(* A reply found is delivered, and its bytes are given up: what is left       *)
(* stays, moves to the front, or is nothing.                                *)
LEMMA DeliverStep ==
  ASSUME ParserInv, WellFormed(stream), current \in DOMAIN stream.at,
         Last(stream.at[current]) <= base + buff.top,
         UNCHANGED <<stream, wire, status>>, status = "parsing",
         delivered' = Append(delivered, replies[current]), incompl_arr' = FALSE,
         ManageMem(Last(stream.at[current]) - base)
  PROVE  ParserInv'
<1> DEFINE end == Last(stream.at[current])
           off == end - base
<1>1. /\ buff.top \in Nat /\ buff.size \in Nat /\ buff.reserved \in Nat
      /\ unparsed \in Nat /\ Len(wire) \in Nat /\ Len(stream.bytes) \in Nat
      /\ base \in Nat /\ base + buff.top + Len(wire) = Len(stream.bytes)
      /\ MaxBuff \in Nat /\ MemSize \in Nat /\ MaxBuff < MemSize
      /\ Len(delivered) \in Nat /\ current = Len(delivered) + 1
  BY Basics DEF ParserInv
<1>2. /\ buff \in Buffer /\ buff.top <= buff.size /\ buff.size <= buff.reserved
      /\ buff.reserved <= MaxBuff
      /\ mem \in [0..(MemSize - 1) -> 0..255] /\ stream \in Streams /\ wire \in Seq(0..255)
  BY DEF ParserInv, TypeOK
<1>3. end \in Nat /\ BeginOf(stream, current + 1) = end /\ base <= end /\ end <= base + buff.top
  BY <1>1, CurrentReply
<1>4. off \in Nat /\ off <= buff.top /\ base + off = end
  BY <1>1, <1>3
<1>5. buff.top < MemSize /\ DOMAIN mem = 0..(MemSize - 1)
  BY <1>1, <1>2
<1>6. DeliveredOK' /\ current' = current + 1
  <2>1. /\ Len(replies) \in Nat /\ DOMAIN replies = 1..Len(replies) /\ DOMAIN stream.at = DOMAIN replies
        /\ replies' = replies
    BY StreamFacts DEF replies
  <2> DEFINE S == {replies[r] : r \in DOMAIN replies}
  <2>2. /\ delivered \in Seq(S) /\ \A r \in 1..Len(delivered) : delivered[r] = replies[r]
        /\ replies[current] \in S /\ current <= Len(replies)
    BY <2>1 DEF ParserInv, DeliveredOK
  <2> HIDE DEF S
  <2>3. /\ delivered' \in Seq(S) /\ Len(delivered') = Len(delivered) + 1
        /\ \A r \in 1..Len(delivered) : delivered'[r] = delivered[r]
        /\ delivered'[Len(delivered) + 1] = replies[current]
    BY <2>2
  <2>4. current' = current + 1
    BY <1>1, <2>3 DEF current
  <2>5. ASSUME NEW r \in 1..(Len(delivered) + 1)
        PROVE  delivered'[r] = replies[r]
    <3>1. r \in 1..Len(delivered) \/ r = current
      BY <1>1
    <3> QED
      BY <1>1, <2>2, <2>3, <3>1
  <2>6. S' = S
    BY <2>1 DEF S
  <2>7. Len(delivered') <= Len(replies')
    BY <1>1, <2>1, <2>2, <2>3
  <2> QED
    BY <2>1, <2>3, <2>4, <2>5, <2>6, <2>7 DEF DeliveredOK, S
(* What ManageMem has to leave.                                             *)
<1>7. ASSUME TypeOK', BytesKept', base' + unparsed' = end,
             2 * unparsed' <= buff'.top \/ 2 * unparsed' < MaxBuff,
             end = Len(stream.bytes) => buff'.top = 0
      PROVE  ParserInv'
  <2>1. BeginOf(stream, current)' = end
    BY <1>3, <1>6
  <2>2. AtReply'
    BY <1>7, <2>1 DEF AtReply
  <2>3. PlaceOK'
    BY <2>2 DEF PlaceOK
  <2>4. RoomOK'
    <3>1. base' \in Int /\ unparsed' \in Nat
      <4>1. buff'.top \in Nat
        BY <1>7 DEF TypeOK, Buffer
      <4>2. unparsed' \in Nat
        BY <1>7, <4>1 DEF TypeOK
      <4> QED
        BY <1>1, <4>1, <4>2 DEF base
    <3>2. end - base' = unparsed'
      BY <1>3, <1>7, <3>1
    <3> QED
      BY <1>7, <2>1, <3>1, <3>2 DEF RoomOK
  <2>5. EndOK'
    <3>1. SUFFICES ASSUME current' \notin DOMAIN stream.at
                   PROVE  buff'.top = 0 /\ wire = <<>>
      BY DEF EndOK
    <3>2. end = Len(stream.bytes)
      BY <1>3, <1>6, <3>1, StreamFacts
    <3>3. Len(wire) = 0
      BY <1>1, <1>3, <3>2
    <3>4. wire = <<>>
      BY <1>2, <3>3
    <3> QED
      BY <1>7, <3>2, <3>4
  <2> QED
    BY <1>6, <1>7, <2>3, <2>4, <2>5 DEF ParserInv, RefusedBetweenRecords, OverflowNeedsLongReply
<1> HIDE DEF off, end
<1>8. CASE off = buff.top
  <2>1. /\ buff' = [buff EXCEPT !.top = 0, !.size = 0] /\ unparsed' = 0 /\ mem' = mem
    BY <1>8 DEF ManageMem, soft_reset, off, end
  <2>2. /\ buff' \in Buffer /\ buff'.top = 0 /\ buff'.size = 0 /\ buff'.reserved = buff.reserved
    BY <1>2, <2>1 DEF Buffer
  <2>3. base' = base + buff.top
    BY <1>1, <2>2 DEF base
  <2>4. TypeOK'
    <3>1. /\ unparsed' \in 0..(buff'.top + 2) /\ buff'.top <= buff'.size /\ buff'.size <= buff'.reserved
          /\ buff'.reserved <= MaxBuff
      BY <1>1, <1>2, <2>1, <2>2
    <3> QED
      BY <1>2, <2>1, <2>2, <3>1 DEF TypeOK
  <2>5. BytesKept'
    <3>1. \A k \in 1..Len(wire) : wire[k] = stream.bytes[base + buff.top + k]
      BY DEF ParserInv, BytesKept
    <3>2. base' >= 0 /\ 0..(buff'.top - 1) = {}
      BY <1>1, <2>2, <2>3
    <3>3. \A k \in 1..Len(wire) : base' + buff'.top + k = base + buff.top + k
      BY <1>1, <2>2, <2>3
    <3> HIDE DEF base
    <3> QED
      BY <3>1, <3>2, <3>3 DEF BytesKept
  <2>6. /\ base' + unparsed' = end /\ 2 * unparsed' <= buff'.top
    BY <1>1, <1>4, <1>8, <2>1, <2>2, <2>3
  <2> QED
    BY <1>7, <2>2, <2>4, <2>5, <2>6
<1>9. CASE off # buff.top /\ CanMove(off)
  <2>0. /\ off \in Nat /\ off <= buff.top /\ buff.top \in Nat /\ buff.top < MemSize /\ MemSize \in Nat
        /\ buff.top # off
    BY <1>1, <1>4, <1>5, <1>9
  <2>1. /\ buff' = [buff EXCEPT !.top = buff.top - off] /\ unparsed' = 0
        /\ mem' = [k \in DOMAIN mem |-> IF k < buff.top - off THEN mem[off + k] ELSE mem[k]]
    BY <1>9 DEF ManageMem, off, end
  <2>2. /\ buff' \in Buffer /\ buff'.top = buff.top - off /\ buff'.size = buff.size
        /\ buff'.reserved = buff.reserved
    <3>1. buff = [top |-> buff.top, size |-> buff.size, reserved |-> buff.reserved]
      BY <1>2 DEF Buffer
    <3>2. buff' = [top |-> buff.top - off, size |-> buff.size, reserved |-> buff.reserved]
      BY <2>1, <3>1
    <3>3. buff.top - off \in Nat
      BY <2>0
    <3>4. buff.size \in Nat /\ buff.reserved \in Nat
      BY <1>2 DEF Buffer
    <3> DEFINE top == buff.top - off
    <3> HIDE DEF top
    <3>5. buff' = [top |-> top, size |-> buff.size, reserved |-> buff.reserved] /\ top \in Nat
      BY <3>2, <3>3 DEF top
    <3>6. /\ buff' \in Buffer /\ buff'.top = top /\ buff'.size = buff.size
          /\ buff'.reserved = buff.reserved
      BY ONLY <3>4, <3>5 DEF Buffer
    <3> QED
      BY <3>6 DEF top
  <2>3. base' = base + off
    <3>1. base' = Len(stream.bytes) - Len(wire) - (buff.top - off)
      BY <1>1, <2>2 DEF base
    <3>2. base = Len(stream.bytes) - Len(wire) - buff.top
      BY DEF base
    <3>3. Len(stream.bytes) \in Nat /\ Len(wire) \in Nat
      BY <1>1, <1>4
    <3> QED
      BY <2>0, <3>1, <3>2, <3>3
  <2>4. TypeOK'
    <3>1. mem' \in [0..(MemSize - 1) -> 0..255]
      <4>1. ASSUME NEW k \in 0..(MemSize - 1), k < buff.top - off
            PROVE  mem[off + k] \in 0..255
        <5>1. off + k \in 0..(MemSize - 1)
          BY <2>0, <4>1
        <5> QED
          BY <1>2, <5>1
      <4> QED
        BY <1>2, <2>1, <4>1
    <3>2. buff.top - off \in Nat /\ buff.top - off <= buff.top
      BY <2>0
    <3>3. unparsed' \in 0..(buff'.top + 2)
      BY <2>1, <2>2, <3>2
    <3>4. buff'.top <= buff'.size
      BY <1>1, <1>2, <2>2, <3>2
    <3> QED
      BY <1>2, <2>2, <3>1, <3>3, <3>4 DEF ParserInv, TypeOK
  <2>5. BytesKept'
    <3>1. /\ \A k \in 0..(buff.top - 1) : mem[k] = stream.bytes[base + k + 1]
          /\ \A k \in 1..Len(wire) : wire[k] = stream.bytes[base + buff.top + k]
      BY DEF ParserInv, BytesKept
    <3>2. base' >= 0
      BY <1>1, <1>4, <2>3
    <3>3. ASSUME NEW k \in 0..(buff'.top - 1)
          PROVE  mem'[k] = stream.bytes[base' + k + 1]
      <4>1. k \in DOMAIN mem /\ k < buff.top - off /\ off + k \in 0..(buff.top - 1)
            /\ base + (off + k) + 1 = base' + k + 1
        <5>1. k \in 0..(buff.top - off - 1)
          BY <2>2
        <5>2. k < buff.top - off /\ off + k \in 0..(buff.top - 1) /\ k \in 0..(MemSize - 1)
          BY <2>0, <5>1
        <5> HIDE DEF base
        <5>3. base + (off + k) + 1 = base' + k + 1
          BY <1>1, <1>4, <2>3, <5>1
        <5> QED
          BY <1>5, <5>2, <5>3
      <4>2. mem'[k] = mem[off + k]
        BY <2>1, <4>1
      <4> HIDE DEF base
      <4> QED
        BY <3>1, <4>1, <4>2
    <3>4. \A k \in 1..Len(wire) : base' + buff'.top + k = base + buff.top + k
      BY <1>1, <1>4, <2>2, <2>3
    <3> HIDE DEF base
    <3> QED
      BY <3>1, <3>2, <3>3, <3>4 DEF BytesKept
  <2>6. /\ base' + unparsed' = end /\ 2 * unparsed' <= buff'.top
        /\ end # Len(stream.bytes)
    <3>1. unparsed' = 0 /\ base' = base + off /\ buff'.top = buff.top - off
      BY <2>1, <2>2, <2>3
    <3>2. /\ base \in Nat /\ Len(wire) \in Nat /\ base + off = end
          /\ base + buff.top + Len(wire) = Len(stream.bytes)
      BY <1>1, <1>4
    <3> HIDE DEF base
    <3>3. base' + unparsed' = end /\ 2 * unparsed' <= buff'.top
      BY <2>0, <3>1, <3>2
    <3>4. end # Len(stream.bytes)
      BY <2>0, <3>2
    <3> QED
      BY <3>3, <3>4
  <2> QED
    BY <1>7, <2>4, <2>5, <2>6
<1>10. CASE off # buff.top /\ ~CanMove(off)
  <2>1. /\ buff' = buff /\ unparsed' = off /\ mem' = mem
    BY <1>10 DEF ManageMem, off, end
  <2>2. base' = base
    BY <2>1 DEF base
  <2>3. TypeOK'
    <3>1. off \in Nat /\ off <= buff.top /\ buff.top \in Nat
      BY <1>1, <1>4
    <3>2. unparsed' \in 0..(buff'.top + 2)
      BY ONLY <2>1, <3>1
    <3> QED
      BY <1>2, <2>1, <3>2 DEF TypeOK
  <2>4. BytesKept'
    BY <2>1, <2>2 DEF ParserInv, BytesKept
  <2>5. 2 * off <= buff.top \/ 2 * off < MaxBuff
    <3>1. buff.reserved > 2 * buff.top \/ buff.top - off > off
      <4>1. off \in Nat /\ buff.top \in Nat /\ buff.reserved \in Nat
        BY <1>1, <1>2, <1>4 DEF Buffer
      <4>2. ~(buff.reserved <= 2 * buff.top /\ buff.top - off <= off)
        BY <1>10 DEF CanMove
      <4> QED
        BY ONLY <4>1, <4>2
    <3>2. /\ off \in Nat /\ off <= buff.top /\ buff.top \in Nat
          /\ buff.reserved \in Nat /\ buff.reserved <= MaxBuff /\ MaxBuff \in Nat
      BY <1>1, <1>2, <1>4 DEF Buffer
    <3>3. CASE buff.reserved > 2 * buff.top
      BY ONLY <3>2, <3>3
    <3>4. CASE buff.top - off > off
      BY ONLY <3>2, <3>4
    <3> QED
      BY <3>1, <3>3, <3>4
  <2>6. base' + unparsed' = end /\ end # Len(stream.bytes)
    BY <1>1, <1>3, <1>4, <1>10, <2>1, <2>2
  <2> QED
    BY <1>7, <2>1, <2>3, <2>4, <2>5, <2>6
<1> QED
  BY <1>8, <1>9, <1>10

(* Where the parser has stopped in an array, unless it threw.                *)
LEMMA StopStep ==
  ASSUME ParserInv, WellFormed(stream), current \in DOMAIN stream.at, status = "parsing",
         ArrayAt(stream.bytes, stream.at[current], replies[current]),
         UNCHANGED <<stream, wire, mem, buff, delivered>>,
         NEW k \in 0..(Len(replies[current].ares) - 1), NEW threw \in BOOLEAN,
         respond' = Found(replies[current], k), unparsed' = stream.at[current][k + 2] - base,
         status' = IF threw THEN "error" ELSE "reading", ~threw => incompl_arr' = TRUE,
         incompl_arr' \in BOOLEAN,
         base <= stream.at[current][k + 2], stream.at[current][k + 2] <= base + buff.top + 2,
         base + buff.top < stream.at[current][k + 3],
         threw => stream.at[current][k + 2] - base = buff.top
  PROVE  ParserInv'
<1> DEFINE places == stream.at[current]
<1>1. /\ base' = base /\ current' = current /\ replies' = replies
      /\ BytesKept' /\ DeliveredOK' /\ RoomOK' /\ EndOK'
  BY NothingMoves
<1>2. base \in Nat /\ buff.top \in Nat /\ places[k + 2] \in Nat
  <2>1. k + 2 \in 1..(Len(replies[current].ares) + 2)
    BY ArrayFacts
  <2> QED
    BY <2>1, Basics, ArrayFacts DEF ParserInv
<1>3. TypeOK'
  <2>1. unparsed' \in 0..(buff'.top + 2)
    <3>1. /\ unparsed' = places[k + 2] - base /\ base <= places[k + 2]
          /\ places[k + 2] <= base + buff.top + 2 /\ buff' = buff
      OBVIOUS
    <3> DEFINE at == places[k + 2]
    <3>2. /\ at \in Nat /\ base \in Nat /\ buff.top \in Nat
          /\ base <= at /\ at <= base + buff.top + 2
      BY <1>2, <3>1
    <3> HIDE DEF base, at
    <3>3. at - base \in 0..(buff.top + 2)
      BY ONLY <3>2
    <3> QED
      BY <3>1, <3>3 DEF at
  <2> QED
    BY <2>1 DEF ParserInv, TypeOK
<1>4. PlaceOK'
  <2>1. SUFFICES ASSUME ~threw
                 PROVE  PlaceOK'
    BY DEF PlaceOK
  <2>2. current \in DOMAIN replies
    BY StreamFacts DEF replies
  <2>3. base + unparsed' = places[k + 2]
    <3> HIDE DEF base
    <3> QED
      BY <1>2
  <2>4. AtRecord(k)'
    BY <1>1, <2>3 DEF AtRecord
  <2> QED
    BY <1>1, <2>1, <2>2, <2>4 DEF PlaceOK
<1>5. RefusedBetweenRecords'
  BY DEF RefusedBetweenRecords
<1> QED
  BY <1>1, <1>3, <1>4, <1>5 DEF ParserInv, OverflowNeedsLongReply

(* What parse_one finds of the reply that is read: the whole of it, or that   *)
(* its first part has not been received whole, or a record of an array.      *)
Parses(r) ==
  LET places == stream.at[current]
      v == replies[current]
  IN \/ r = Got(v, Last(places) - base) /\ Last(places) <= base + buff.top
     \/ ~incompl_arr /\ r = NotYet(Empty, unparsed) /\ base + buff.top < places[2]
     \/ /\ ArrayAt(stream.bytes, places, v)
        /\ Stopped(r, buff.top, base, places, v)
        /\ incompl_arr \/ r.cut = (~r.ok /\ ~r.threw)

LEMMA ParsesReply ==
  ASSUME ParserInv, WellFormed(stream), status = "parsing", buff.top > unparsed
  PROVE  current \in DOMAIN stream.at /\ Parses(Parsed)
<1> DEFINE places == stream.at[current]
           v == replies[current]
<1>1. /\ buff.top \in Nat /\ base \in Nat /\ unparsed \in Nat
      /\ Received(mem, buff.top, stream.bytes, base)
  BY Basics DEF ParserInv
<1>2. current \in DOMAIN stream.at
  BY <1>1 DEF ParserInv, EndOK
<1>3. /\ places[1] \in Nat /\ places[2] \in Nat /\ BeginOf(stream, current) = places[1]
      /\ base <= places[1]
  BY <1>2, CurrentReply
<1>4. \/ /\ Len(places) = 2 /\ v.ares = <<>>
         /\ \/ IsFlat(stream.bytes, places[1], places[2], v)
            \/ IsEmptyArray(stream.bytes, places[1], places[2], v)
      \/ ArrayAt(stream.bytes, places, v)
  BY <1>2, ReplyFacts DEF replies
<1>5. CASE incompl_arr
  <2>1. PICK k \in 0..(Len(v.ares) - 1) : AtRecord(k)
    BY <1>5 DEF ParserInv, PlaceOK
  <2>2. ArrayAt(stream.bytes, places, v)
    <3>1. v.ares # <<>>
      BY <2>1
    <3> QED
      BY <1>4, <3>1
  <2>3. respond = Found(v, k) /\ base + unparsed = places[k + 2]
    BY <2>1 DEF AtRecord
  <2>4. places[k + 2] \in Nat
    <3>1. k + 2 \in 1..(Len(v.ares) + 2)
      BY <2>2, ArrayFacts
    <3> QED
      BY <2>2, <3>1, ArrayFacts
  <2> HIDE DEF base, places, v
  <2>5. unparsed = places[k + 2] - base /\ base <= places[k + 2] /\ places[k + 2] <= base + buff.top + 2
    BY <1>1, <2>3, <2>4
  <2>6. Filled(FillArray(mem, buff.top, Found(v, k), places[k + 2] - base), buff.top, base, places, v)
    BY <1>1, <2>2, <2>5, FillArrayFills
  <2>7. Parsed = FillArray(mem, buff.top, Found(v, k), places[k + 2] - base)
    BY <1>5, <2>3, <2>5 DEF Parsed
  <2> QED
    BY <1>2, <1>5, <2>2, <2>6, <2>7 DEF Filled, Parses, places, v
<1>6. CASE ~incompl_arr
  <2>1. base + unparsed = places[1]
    BY <1>3, <1>6 DEF ParserInv, PlaceOK, AtReply
  <2> HIDE DEF base
  <2>2. unparsed = places[1] - base /\ places[1] < base + buff.top
    BY <1>1, <1>3, <2>1
  <2>3. InView(mem, buff.top, stream.bytes, base, places[1], places[2])
    BY <1>1, <1>3, <2>2 DEF InView
  <2>4. Parsed = ReadData(mem, buff.top, Empty, places[1] - base)
    BY <1>6, <2>2 DEF Parsed
  <2>5. CASE ArrayAt(stream.bytes, places, v)
    <3> DEFINE r == ReadData(mem, buff.top, Empty, places[1] - base)
    <3> HIDE DEF places, v
    <3>1. \/ r = NotYet(Empty, places[1] - base) /\ base + buff.top < places[2]
          \/ Filled(r, buff.top, base, places, v) /\ r.cut = (~r.ok /\ ~r.threw)
      BY <2>3, <2>5, ArrayRead
    <3> HIDE DEF r
    <3>2. Parsed = r
      BY <2>4 DEF r
    <3> QED
      BY <1>2, <1>6, <2>2, <2>5, <3>1, <3>2 DEF Filled, Parses, places, v
  <2>6. CASE Len(places) = 2 /\ (\/ IsFlat(stream.bytes, places[1], places[2], v)
                               \/ IsEmptyArray(stream.bytes, places[1], places[2], v))
    <3> HIDE DEF v, places
    <3>1. ReadData(mem, buff.top, Empty, places[1] - base) =
            IF places[2] <= base + buff.top THEN Got(v, places[2] - base)
            ELSE NotYet(Empty, places[1] - base)
      BY <2>3, <2>6, RecordRead, EmptyArrayRead
    <3>2. Last(places) = places[2]
      BY <2>6 DEF Last
    <3>3. ~(places[2] <= base + buff.top) => base + buff.top < places[2]
      BY <1>1, <1>3
    <3> QED
      BY <1>2, <1>6, <2>2, <2>4, <3>1, <3>2, <3>3 DEF Parses, places, v
  <2> QED
    BY <1>4, <2>5, <2>6
<1> QED
  BY <1>5, <1>6

LEMMA ParseOneStep ==
  ASSUME ParserInv, WellFormed(stream), ParseOne
  PROVE  ParserInv'
<1> DEFINE places == stream.at[current]
           v == replies[current]
<1>1. /\ status = "parsing" /\ buff.top > unparsed /\ respond' = Parsed.target
      /\ UNCHANGED <<stream, wire>>
      /\ \/ /\ Parsed.ok /\ delivered' = Append(delivered, Parsed.target) /\ incompl_arr' = FALSE
            /\ ManageMem(Parsed.off) /\ status' = status
         \/ /\ ~Parsed.ok /\ unparsed' = Parsed.off /\ incompl_arr' = (incompl_arr \/ Parsed.cut)
            /\ status' = (IF Parsed.threw THEN "error" ELSE "reading")
            /\ UNCHANGED <<delivered, mem, buff>>
  BY DEF ParseOne
<1>2. current \in DOMAIN stream.at /\ Parses(Parsed)
  BY <1>1, ParsesReply
<1>3. /\ buff.top \in Nat /\ base \in Nat /\ unparsed \in Nat
  BY Basics DEF ParserInv
<1>4. incompl_arr \in BOOLEAN /\ (~incompl_arr => base + unparsed = BeginOf(stream, current))
  BY <1>1 DEF ParserInv, TypeOK, PlaceOK, AtReply
<1>5. CASE Parsed = Got(v, Last(places) - base) /\ Last(places) <= base + buff.top
  <2>1. /\ Parsed.ok /\ Parsed.target = v /\ Parsed.off = Last(places) - base
    BY <1>5 DEF Got
  <2>2. /\ delivered' = Append(delivered, v) /\ incompl_arr' = FALSE /\ status' = status
        /\ ManageMem(Last(places) - base)
    BY <1>1, <2>1
  <2> QED
    BY <1>1, <1>2, <1>5, <2>2, DeliverStep
<1>6. CASE ~incompl_arr /\ Parsed = NotYet(Empty, unparsed) /\ base + buff.top < places[2]
  <2>1. ~Parsed.ok /\ ~Parsed.cut /\ ~Parsed.threw /\ Parsed.off = unparsed
    BY <1>6 DEF NotYet
  <2>2. /\ UNCHANGED <<stream, wire, mem, buff, delivered, unparsed>>
        /\ incompl_arr' = FALSE /\ status' = "reading"
    BY <1>1, <1>6, <2>1
  <2>3. /\ base' = base /\ current' = current
        /\ BytesKept' /\ DeliveredOK' /\ RoomOK' /\ EndOK'
    BY <2>2, NothingMoves
  <2>4. TypeOK'
    BY <2>2 DEF ParserInv, TypeOK
  <2>5. PlaceOK'
    BY <1>4, <1>6, <2>2, <2>3 DEF PlaceOK, AtReply
  <2> QED
    BY <2>2, <2>3, <2>4, <2>5 DEF ParserInv, RefusedBetweenRecords, OverflowNeedsLongReply
<1>7. CASE /\ ArrayAt(stream.bytes, places, v)
           /\ Stopped(Parsed, buff.top, base, places, v)
           /\ incompl_arr \/ Parsed.cut = (~Parsed.ok /\ ~Parsed.threw)
  <2>1. PICK k \in 0..(Len(v.ares) - 1), cut \in BOOLEAN, threw \in BOOLEAN :
          /\ Parsed = [ok |-> FALSE, cut |-> cut, threw |-> threw,
                       target |-> Found(v, k), off |-> places[k + 2] - base]
          /\ places[k + 2] <= base + buff.top + 2 /\ base + buff.top < places[k + 3]
          /\ threw => places[k + 2] - base = buff.top
    BY <1>7 DEF Stopped
  <2>2. /\ ~Parsed.ok /\ Parsed.cut = cut /\ Parsed.threw = threw /\ Parsed.target = Found(v, k)
        /\ Parsed.off = places[k + 2] - base
    BY <2>1
  <2>3. /\ respond' = Found(v, k) /\ unparsed' = places[k + 2] - base
        /\ incompl_arr' = (incompl_arr \/ cut) /\ status' = (IF threw THEN "error" ELSE "reading")
        /\ UNCHANGED <<stream, wire, delivered, mem, buff>>
    BY <1>1, <2>2
  <2>4. incompl_arr' \in BOOLEAN /\ (~threw => incompl_arr' = TRUE)
    <3>1. incompl_arr \/ cut = ~threw
      BY <1>7, <2>2
    <3> QED
      BY <1>4, <2>3, <3>1
  <2>5. base <= places[k + 2]
    <3>1. /\ places[1] \in Nat /\ base <= places[1]
      BY <1>2, CurrentReply
    <3>2. places[1] < places[k + 2] /\ places[k + 2] \in Nat
      <4>1. /\ 1 \in DOMAIN places /\ k + 2 \in DOMAIN places /\ 1 < k + 2 /\ places \in Seq(Nat)
            /\ \A i, j \in DOMAIN places : i < j => places[i] < places[j]
        <5>1. Len(v.ares) \in Nat /\ Len(places) = Len(v.ares) + 2
          BY <1>7, ArrayFacts DEF ArrayAt, IsArray
        <5>2. /\ places \in Seq(Nat) /\ DOMAIN places = 1..Len(places)
              /\ \A i, j \in DOMAIN places : i < j => places[i] < places[j]
          BY <1>7 DEF ArrayAt
        <5> HIDE DEF places, v
        <5>3. 1 \in 1..Len(places) /\ k + 2 \in 1..Len(places) /\ 1 < k + 2
          BY <2>1, <5>1
        <5> QED
          BY <5>2, <5>3
      <4> HIDE DEF places
      <4> QED
        BY <4>1
    <3> HIDE DEF base, places
    <3> QED
      BY <1>3, <3>1, <3>2
  <2> QED
    BY <1>1, <1>2, <1>7, <2>1, <2>3, <2>4, <2>5, StopStep
<1> QED
  BY <1>2, <1>5, <1>6, <1>7 DEF Parses

-----------------------------------------------------------------------------
(* Every execution on well-formed streams.                                  *)

(* The inductive invariant of the parser, in every execution on well-formed  *)
(* streams: no byte of the stream is lost when the buffer is emptied, moved  *)
(* to its front or enlarged, and the parser stands where a reply begins, or  *)
(* a record of the array it has found the first records of.                 *)
THEOREM Invariance ==
  ASSUME \A s \in Streams : WellFormed(s)
  PROVE  Spec => []ParserInv
<1>1. Init => ParserInv
  BY InitInv DEF Init
<1>2. ParserInv /\ [Next]_vars => ParserInv'
  <2> SUFFICES ASSUME ParserInv, [Next]_vars
               PROVE  ParserInv'
    OBVIOUS
  <2>1. WellFormed(stream)
    BY DEF ParserInv, TypeOK
  <2>2. ASSUME NEW n \in 1..Len(wire), Read(n)
        PROVE  ParserInv'
    BY <2>1, <2>2, ReadStep
  <2>3. CASE ReadThrows
    BY <2>1, <2>3, ReadThrowsStep
  <2>4. CASE NothingUnparsed
    BY <2>1, <2>4, NothingUnparsedStep
  <2>5. CASE ParseOne
    BY <2>1, <2>5, ParseOneStep
  <2>6. CASE UNCHANGED vars
    BY <2>6 DEF vars, bufferVars, ParserInv, TypeOK, BytesKept, DeliveredOK, PlaceOK, AtReply, AtRecord,
                RoomOK, EndOK, RefusedBetweenRecords, OverflowNeedsLongReply, ReplySize, base, current,
                replies
  <2> QED
    BY <2>2, <2>3, <2>4, <2>5, <2>6 DEF Next
<1> QED
  BY <1>1, <1>2, PTL DEF Spec

(* What has been received lies in the memory that release allocated, and the *)
(* parser's place at most two bytes past it.                                *)
THEOREM TypeCorrect ==
  ASSUME \A s \in Streams : WellFormed(s)
  PROVE  Spec => []TypeOK
<1>1. ParserInv => TypeOK
  BY DEF ParserInv
<1> QED
  BY <1>1, Invariance, PTL

(* However the network cuts a stream of flat replies and of arrays of them,  *)
(* of any number and any length, and whatever fresh memory holds, parse_one  *)
(* returns the server's replies, in their order and complete.               *)
THEOREM InOrder ==
  ASSUME \A s \in Streams : WellFormed(s)
  PROVE  Spec => []RepliesInOrder
<1>1. ParserInv => RepliesInOrder
  <2> SUFFICES ASSUME ParserInv
               PROVE  IsPrefix(delivered, replies)
    BY DEF RepliesInOrder
  <2>1. /\ delivered \in Seq({replies[r] : r \in DOMAIN replies})
        /\ replies \in Seq({replies[r] : r \in DOMAIN replies})
        /\ Len(delivered) <= Len(replies)
        /\ \A r \in 1..Len(delivered) : delivered[r] = replies[r]
    BY DEF ParserInv, DeliveredOK, TypeOK, WellFormed, replies
  <2> DEFINE S == {replies[r] : r \in DOMAIN replies}
             first == SubSeq(replies, 1, Len(delivered))
  <2>2. delivered \in Seq(S) /\ replies \in Seq(S)
    BY <2>1
  <2> HIDE DEF S
  <2>3. /\ Len(first) = Len(delivered) /\ first \in Seq(S)
        /\ \A r \in 1..Len(delivered) : first[r] = replies[r]
    <3>1. Len(delivered) \in Nat /\ Len(replies) \in Nat
      BY <2>2
    <3>2. \A r \in 1..Len(delivered) : replies[r] \in S
      BY <2>1, <2>2, <3>1
    <3> QED
      BY <2>1, <2>2, <3>1, <3>2, SubSeqProperties
  <2>4. delivered = first
    <3> HIDE DEF first
    <3> QED
      BY <2>1, <2>2, <2>3, SeqEqual
  <2> QED
    BY <2>1, <2>4 DEF IsPrefix
<1> QED
  BY <1>1, Invariance, PTL

(* When the whole stream has been read and the parser waits, every reply has *)
(* been returned: none waits in the buffer for bytes that never come.        *)
THEOREM NoneHeldBack ==
  ASSUME \A s \in Streams : WellFormed(s)
  PROVE  Spec => []NothingHeldBack
<1>1. ParserInv => NothingHeldBack
  <2> SUFFICES ASSUME ParserInv, status = "reading", wire = <<>>
               PROVE  delivered = replies
    BY DEF NothingHeldBack
  <2>1. WellFormed(stream)
    BY DEF ParserInv, TypeOK
  <2>2. /\ buff.top \in Nat /\ base \in Nat /\ base + buff.top + Len(wire) = Len(stream.bytes)
        /\ Len(delivered) \in Nat /\ current = Len(delivered) + 1
    BY <2>1, Basics DEF ParserInv
  <2>3. current \notin DOMAIN stream.at
    <3> SUFFICES ASSUME current \in DOMAIN stream.at
                 PROVE  FALSE
      OBVIOUS
    <3>1. /\ Last(stream.at[current]) \in Nat /\ base + buff.top < Last(stream.at[current])
          /\ Last(stream.at[current]) <= Len(stream.bytes)
      BY <2>1, ReadingReply
    <3> HIDE DEF base
    <3>2. base + buff.top = Len(stream.bytes)
      BY <2>2
    <3> QED
      BY <2>2, <3>1, <3>2
  <2>4. /\ DOMAIN stream.at = 1..Len(replies) /\ Len(replies) \in Nat
        /\ DOMAIN replies = 1..Len(replies)
        /\ Len(delivered) <= Len(replies) /\ \A r \in 1..Len(delivered) : delivered[r] = replies[r]
    BY <2>1, StreamFacts DEF ParserInv, DeliveredOK, replies
  <2>5. Len(delivered) = Len(replies)
    BY <2>2, <2>3, <2>4
  <2>6. \E S : delivered \in Seq(S) /\ replies \in Seq(S)
    BY <2>1 DEF ParserInv, DeliveredOK, WellFormed, replies
  <2> QED
    BY <2>4, <2>5, <2>6, SeqEqual
<1> QED
  BY <1>1, Invariance, PTL

(* The parser refuses a well-formed stream only in an array, when the bytes  *)
(* received end between two of its records.                                 *)
THEOREM RefusedOnlyBetweenRecords ==
  ASSUME \A s \in Streams : WellFormed(s)
  PROVE  Spec => []RefusedBetweenRecords
<1>1. ParserInv => RefusedBetweenRecords
  BY DEF ParserInv
<1> QED
  BY <1>1, Invariance, PTL

(* The buffer overflows only when some reply is longer than half of its limit *)
(* less one read, however many replies arrive together: manage_mem moves what *)
(* is left to the front in time.                                            *)
THEOREM OverflowOnlyForLongReply ==
  ASSUME \A s \in Streams : WellFormed(s)
  PROVE  Spec => []OverflowNeedsLongReply
<1>1. ParserInv => OverflowNeedsLongReply
  BY DEF ParserInv
<1> QED
  BY <1>1, Invariance, PTL

(* Without arrays no well-formed stream is refused: the reading of a byte    *)
(* that has not been received, for which parser_cut_array shows an exception *)
(* in the loop, is confined to the records of arrays.                       *)
THEOREM FlatNeverRefused ==
  ASSUME \A s \in Streams : WellFormed(s) /\ \A r \in DOMAIN s.replies : s.replies[r].ares = <<>>
  PROVE  Spec => []NeverRefused
<1>1. Init => NeverRefused
  BY DEF Init, NeverRefused
<1>2. ParserInv /\ NeverRefused /\ [Next]_vars => NeverRefused'
  <2> SUFFICES ASSUME ParserInv, NeverRefused, [Next]_vars
               PROVE  NeverRefused'
    OBVIOUS
  <2>1. WellFormed(stream) /\ \A r \in DOMAIN replies : replies[r].ares = <<>>
    BY DEF ParserInv, TypeOK, replies
  <2>2. CASE ParseOne
    <3>1. current \in DOMAIN stream.at /\ Parses(Parsed)
      BY <2>1, <2>2, ParsesReply DEF ParseOne
    <3>2. replies[current].ares = <<>>
      BY <2>1, <3>1, StreamFacts DEF replies
    <3>3. ~Parsed.threw
      <4>1. ~ArrayAt(stream.bytes, stream.at[current], replies[current])
        BY <3>2, ArrayFacts
      <4> QED
        BY <3>1, <4>1 DEF Parses, Got, NotYet
    <3> QED
      BY <2>2, <3>3 DEF ParseOne, NeverRefused
  <2>3. CASE (\E n \in 1..Len(wire) : Read(n)) \/ ReadThrows \/ NothingUnparsed
    BY <2>3 DEF Read, ReadThrows, NothingUnparsed, NeverRefused
  <2>4. CASE UNCHANGED vars
    BY <2>4 DEF vars, NeverRefused
  <2> QED
    BY <2>2, <2>3, <2>4 DEF Next, NeverRefused
<1>3. Spec => []ParserInv
  BY Invariance
<1> QED
  BY <1>1, <1>2, <1>3, PTL DEF Spec
-----------------------------------------------------------------------------
(* Queries.  The texts of a query are followed from the arguments, through   *)
(* the text with its places of direct data, to the bytes that are sent.      *)

(* What holds at 0, and of the next number when it holds of a number, holds  *)
(* up to n.                                                                *)
LEMMA Induct ==
  ASSUME NEW n \in Nat, NEW T, 0 \in T, \A i \in 1..n : i - 1 \in T => i \in T
  PROVE  \A i \in 0..n : i \in T
<1> DEFINE U == {i \in 0..n : i \notin T}
<1>1. SUFFICES ASSUME U # {}
               PROVE  FALSE
  OBVIOUS
<1>2. PICK x \in U : \A y \in U : x <= y
  <2>1. U \subseteq Nat
    OBVIOUS
  <2> HIDE DEF U
  <2> QED
    BY <1>1, <2>1, LeastElement
<1>3. x \in 1..n
  BY <1>2
<1>4. x - 1 \in 0..n /\ ~(x <= x - 1)
  BY <1>3
<1>5. x - 1 \in T
  BY <1>2, <1>4
<1> QED
  BY <1>2, <1>3, <1>5

(* A function defined by recursion on 0..n exists.                          *)
Keeps(step, n, S) == \A s \in S : \A i \in 1..n : step[<<s, i>>] \in S
Recurs(f, n, S, first, step) ==
  f \in [0..n -> S] /\ f[0] = first /\ \A i \in 1..n : f[i] = step[<<f[i - 1], i>>]

(* A step that keeps to a set can be repeated from an element of it. *)
LEMMA Recursion ==
  ASSUME NEW n \in Nat, NEW S, NEW first \in S, NEW step, Keeps(step, n, S)
  PROVE  \E f : Recurs(f, n, S, first, step)
<1> DEFINE Is(f, k) == f \in [0..k -> S] /\ f[0] = first /\ \A i \in 1..k : f[i] = step[<<f[i - 1], i>>]
           T == {k \in 0..n : \E f : Is(f, k)}
<1>1. 0 \in T
  <2>1. Is([i \in 0..0 |-> first], 0)
    OBVIOUS
  <2>2. 0 \in 0..n
    OBVIOUS
  <2> HIDE DEF Is
  <2> QED
    BY <2>1, <2>2
<1>2. ASSUME NEW k \in 1..n, k - 1 \in T
      PROVE  k \in T
  <2>1. PICK f : Is(f, k - 1)
    BY <1>2
  <2> DEFINE g == [i \in 0..k |-> IF i = k THEN step[<<f[k - 1], k>>] ELSE f[i]]
  <2>2. k - 1 \in 0..(k - 1) /\ f[k - 1] \in S
    BY <2>1
  <2>3. step[<<f[k - 1], k>>] \in S
    BY <2>2 DEF Keeps
  <2>4. \A i \in 0..(k - 1) : g[i] = f[i] /\ f[i] \in S
    BY <2>1
  <2>5. g \in [0..k -> S] /\ g[0] = first
    <3>1. \A i \in 0..k : i = k \/ i \in 0..(k - 1)
      OBVIOUS
    <3>2. \A i \in 0..k : g[i] \in S
      BY <2>3, <2>4, <3>1
    <3>3. g = [i \in 0..k |-> g[i]]
      OBVIOUS
    <3>4. g[0] = first
      <4>1. 0 \in 0..(k - 1) /\ f[0] = first
        BY <2>1
      <4> QED
        BY <2>4, <4>1
    <3> HIDE DEF g
    <3> QED
      BY <3>2, <3>3, <3>4
  <2>6. ASSUME NEW i \in 1..k
        PROVE  g[i] = step[<<g[i - 1], i>>]
    <3>1. i - 1 \in 0..(k - 1)
      OBVIOUS
    <3>2. CASE i = k
      <4>1. g[i] = step[<<f[i - 1], i>>]
        BY <3>2
      <4>2. g[i - 1] = f[i - 1]
        BY <2>4, <3>1
      <4> QED
        BY <4>1, <4>2
    <3>3. CASE i # k
      <4>1. i \in 1..(k - 1) /\ i \in 0..(k - 1)
        BY <3>3
      <4> QED
        BY <2>1, <2>4, <3>1, <4>1
    <3> QED
      BY <3>2, <3>3
  <2>7. Is(g, k)
    <3> HIDE DEF g
    <3> QED
      BY <2>5, <2>6
  <2> HIDE DEF Is, g
  <2> QED
    BY <2>7
<1>3. n \in T
  <2>1. n \in 0..n
    OBVIOUS
  <2> HIDE DEF T
  <2> QED
    BY <1>1, <1>2, <2>1, Induct
<1> QED
  BY <1>3 DEF Recurs

(* A digit more multiplies by ten.                                          *)
LEMMA ValueAppend ==
  ASSUME NEW s \in Seq(Int), NEW c \in Int
  PROVE  Value(s \o <<c>>) = 10 * Value(s) + (c - Zero)
<1> DEFINE t == s \o <<c>>
           v == Values(s)
           w == Values(t)
           n == Len(s)
           T == {i \in 0..n : w[i] = v[i]}
<1>1. <<c>> \in Seq(Int) /\ Len(<<c>>) = 1 /\ <<c>>[1] = c
  OBVIOUS
<1>2. /\ t \in Seq(Int) /\ Len(t) = n + 1 /\ n \in Nat
      /\ \A i \in 1..n : t[i] = s[i]
      /\ t[n + 1] = c
  <2>1. t \in Seq(Int) /\ Len(t) = n + 1 /\ n \in Nat
        /\ \A i \in 1..(n + 1) : t[i] = IF i <= n THEN s[i] ELSE <<c>>[i - n]
    BY <1>1, ConcatProperties
  <2> HIDE DEF t
  <2> QED
    BY <1>1, <2>1
<1>3. Value(s) = v[n] /\ Value(t) = w[Len(t)]
  BY DEF Value, Values
<1>4. \A i \in 0..n : v[i] = IF i = 0 THEN 0 ELSE 10 * v[i - 1] + (s[i] - Zero)
  BY <1>2, ValuesExist
<1>5. \A i \in 0..(n + 1) : w[i] = IF i = 0 THEN 0 ELSE 10 * w[i - 1] + (t[i] - Zero)
  <2> HIDE DEF t, n
  <2>1. Len(t) \in Nat
    BY <1>2
  <2>2. w = [i \in 0..Len(t) |-> IF i = 0 THEN 0 ELSE 10 * w[i - 1] + (t[i] - Zero)]
    BY <2>1, ValuesExist
  <2> HIDE DEF w
  <2> QED
    BY <1>2, <2>2
<1> HIDE DEF t, v, w, n
<1>6. 0 \in T
  BY <1>2, <1>4, <1>5
<1>7. \A i \in 1..n : i - 1 \in T => i \in T
  <2> TAKE i \in 1..n
  <2> HAVE i - 1 \in T
  <2>1. i \in 0..n /\ i \in 0..(n + 1) /\ i # 0
    BY <1>2
  <2>2. v[i] = 10 * v[i - 1] + (s[i] - Zero) /\ w[i] = 10 * w[i - 1] + (t[i] - Zero)
    BY <1>4, <1>5, <2>1
  <2>3. t[i] = s[i] /\ w[i - 1] = v[i - 1]
    BY <1>2
  <2> QED
    BY <2>1, <2>2, <2>3
<1>8. n \in T
  <2>1. n \in 0..n
    BY <1>2
  <2> HIDE DEF T
  <2> QED
    BY <1>2, <1>6, <1>7, <2>1, Induct
<1>9. w[n + 1] = 10 * w[n] + (c - Zero)
  <2>1. n + 1 \in 0..(n + 1) /\ n + 1 # 0 /\ (n + 1) - 1 = n
    BY <1>2
  <2> QED
    BY <1>2, <1>5, <2>1
<1> QED
  BY <1>2, <1>3, <1>8, <1>9 DEF t

Digits == Zero..(Zero + 9)

(* What Decimal computes on the way. *)
Decimals(n) ==
  CHOOSE d : d = [k \in 0..n |-> IF k < 10 THEN <<Zero + k>> ELSE d[k \div 10] \o <<Zero + (k % 10)>>]

(* A number without its last digit. *)
LEMMA TenthIsLess ==
  ASSUME NEW k \in Nat, k >= 10
  PROVE  /\ k \div 10 \in 1..(k - 1) /\ k % 10 \in 0..9
         /\ 10 * (k \div 10) + (k % 10) = k
BY SMT

(* The recursion of Decimal has a solution. *)
LEMMA DecimalsExist ==
  ASSUME NEW n \in Nat
  PROVE  \A k \in 0..n : Decimals(n)[k] = IF k < 10 THEN <<Zero + k>>
                                          ELSE Decimals(n)[k \div 10] \o <<Zero + (k % 10)>>
<1> DEFINE Text(d, k) == IF k < 10 THEN <<Zero + k>> ELSE d[k \div 10] \o <<Zero + (k % 10)>>
           Is(d, i) == d = [k \in 0..i |-> Text(d, k)]
           T == {i \in 0..n : \E d : Is(d, i)}
<1>1. 0 \in T
  <2>1. Is([k \in 0..0 |-> <<Zero + k>>], 0)
    OBVIOUS
  <2>2. 0 \in 0..n
    OBVIOUS
  <2> HIDE DEF Is
  <2> QED
    BY <2>1, <2>2
<1>2. ASSUME NEW i \in 1..n, i - 1 \in T
      PROVE  i \in T
  <2>1. PICK d : Is(d, i - 1)
    BY <1>2
  <2> DEFINE e == [k \in 0..i |-> IF k = i THEN Text(d, i) ELSE d[k]]
  <2>2. \A k \in 0..(i - 1) : e[k] = d[k]
    OBVIOUS
  <2>3. ASSUME NEW k \in 0..i
        PROVE  e[k] = Text(e, k)
    <3>1. k >= 10 => k \div 10 \in 0..(i - 1)
      <4>1. k >= 10 => k \div 10 \in 1..(k - 1)
        BY TenthIsLess
      <4> QED
        BY <4>1
    <3>2. Text(e, k) = Text(d, k)
      BY <2>2, <3>1
    <3>3. e[k] = Text(d, k)
      <4>1. CASE k = i
        BY <4>1
      <4>2. CASE k # i
        <5>1. k \in 0..(i - 1)
          BY <4>2
        <5> HIDE DEF Text
        <5> QED
          BY <2>1, <2>2, <5>1
      <4> QED
        BY <4>1, <4>2
    <3> QED
      BY <3>2, <3>3
  <2>4. e = [k \in 0..i |-> e[k]]
    OBVIOUS
  <2>5. Is(e, i)
    <3> HIDE DEF e, Text
    <3> QED
      BY <2>3, <2>4
  <2> HIDE DEF Is, e
  <2> QED
    BY <2>5
<1>3. n \in T
  <2>1. n \in 0..n
    OBVIOUS
  <2> HIDE DEF T
  <2> QED
    BY <1>1, <1>2, <2>1, Induct
<1>4. PICK d : Is(d, n)
  BY <1>3
<1>5. Is(Decimals(n), n)
  BY <1>4 DEF Decimals
<1> HIDE DEF Text
<1>6. \A k \in 0..n : Decimals(n)[k] = Text(Decimals(n), k)
  BY <1>5
<1> QED
  BY <1>6 DEF Text

(* The text of a number: its digits.  A header has three of them at most.   *)
IsDecimal(text, n) ==
  /\ text \in Seq(Digits) /\ text # <<>>
  /\ Value(text) = n
  /\ n > 0 => text[1] # Zero
  /\ n < 1000 => Len(text) = IF n < 10 THEN 1 ELSE IF n < 100 THEN 2 ELSE 3

(* The numbers of one digit. *)
LEMMA OneDigit ==
  ASSUME NEW k \in 0..9
  PROVE  IsDecimal(<<Zero + k>>, k)
<1>1. Value(<<Zero + k>>) = k
  <2>1. Values(<<Zero + k>>) = [i \in 0..1 |-> IF i = 0 THEN 0
          ELSE 10 * Values(<<Zero + k>>)[i - 1] + (<<Zero + k>>[i] - Zero)]
    <3>1. Len(<<Zero + k>>) = 1
      OBVIOUS
    <3> QED
      BY <3>1, ValuesExist
  <2>2. Value(<<Zero + k>>) = Values(<<Zero + k>>)[1]
    BY DEF Value, Values
  <2> QED
    BY <2>1, <2>2 DEF Zero
<1>2. <<Zero + k>> \in Seq(Digits) /\ <<Zero + k>> # <<>> /\ Len(<<Zero + k>>) = 1 /\ <<Zero + k>>[1] = Zero + k
  BY DEF Digits, Zero
<1> QED
  BY <1>1, <1>2 DEF IsDecimal, Zero

(* A digit more at the end of a number's text. *)
LEMMA NextDigit ==
  ASSUME NEW k \in Nat, k >= 10, NEW text, IsDecimal(text, k \div 10)
  PROVE  IsDecimal(text \o <<Zero + (k % 10)>>, k)
<1> DEFINE c == Zero + (k % 10)
           t == text \o <<c>>
<1>1. /\ k \div 10 \in 1..(k - 1) /\ k % 10 \in 0..9
      /\ 10 * (k \div 10) + (k % 10) = k
  BY TenthIsLess
<1>2. c \in Digits /\ c \in Int /\ c - Zero = k % 10
  BY <1>1 DEF Digits, Zero
<1> HIDE DEF c
<1>3. text \in Seq(Digits) /\ text # <<>> /\ Len(text) \in Nat \ {0}
  BY EmptySeq DEF IsDecimal
<1>4. /\ t \in Seq(Digits) /\ Len(t) = Len(text) + 1
      /\ t[1] = text[1]
  <2>1. <<c>> \in Seq(Digits) /\ Len(<<c>>) = 1
    BY <1>2
  <2>2. t \in Seq(Digits) /\ Len(t) = Len(text) + 1
        /\ \A i \in 1..(Len(text) + 1) : t[i] = IF i <= Len(text) THEN text[i] ELSE <<c>>[i - Len(text)]
    BY <1>3, <2>1, ConcatProperties
  <2> HIDE DEF t
  <2> QED
    BY <1>3, <2>2
<1>5. Value(t) = k
  <2>1. text \in Seq(Int)
    <3>1. Digits \subseteq Int
      BY DEF Digits, Zero
    <3> QED
      BY <1>3, <3>1, SeqMonotonic
  <2>2. Value(t) = 10 * Value(text) + (c - Zero)
    BY <1>2, <2>1, ValueAppend
  <2> QED
    BY <1>1, <1>2, <2>2 DEF IsDecimal
<1> HIDE DEF t
<1>6. t[1] # Zero
  BY <1>1, <1>4 DEF IsDecimal
<1>7. k < 1000 => Len(t) = IF k < 10 THEN 1 ELSE IF k < 100 THEN 2 ELSE 3
  <2> DEFINE q == k \div 10
  <2>1. q < 1000 => Len(text) = IF q < 10 THEN 1 ELSE IF q < 100 THEN 2 ELSE 3
    BY DEF IsDecimal
  <2>2. q \in Nat /\ (k < 100 <=> q < 10) /\ (k < 1000 <=> q < 100)
    BY <1>1
  <2> HIDE DEF t, q
  <2>3. CASE k < 100
    <3>1. Len(text) = 1
      BY <2>1, <2>2, <2>3
    <3> QED
      BY <1>4, <2>3, <3>1
  <2>4. CASE k >= 100
    <3>1. k < 1000 => Len(text) = 2
      BY <2>1, <2>2, <2>4
    <3>2. k < 1000 => Len(t) = 3
      <4>1. Len(t) = Len(text) + 1
        BY <1>4
      <4>2. k < 1000 => Len(t) = 2 + 1
        BY <3>1, <4>1
      <4> QED
        BY <4>2
    <3> QED
      BY <2>4, <3>2
  <2> QED
    BY <2>3, <2>4
<1>8. t # <<>>
  BY <1>3, <1>4
<1>9. IsDecimal(t, k)
  BY <1>4, <1>5, <1>6, <1>7, <1>8 DEF IsDecimal
<1> QED
  BY <1>9 DEF t, c

(* Decimal writes a number's text. *)
LEMMA DecimalFacts ==
  ASSUME NEW n \in Nat
  PROVE  IsDecimal(Decimal(n), n)
<1> DEFINE d == Decimals(n)
           U == {k \in 0..n : ~IsDecimal(d[k], k)}
<1>1. Decimal(n) = d[n]
  BY DEF Decimal, Decimals
<1>2. \A k \in 0..n : d[k] = IF k < 10 THEN <<Zero + k>> ELSE d[k \div 10] \o <<Zero + (k % 10)>>
  BY DecimalsExist
<1> HIDE DEF d
<1>3. ASSUME U # {}
      PROVE  FALSE
  <2>1. PICK k \in U : \A j \in U : k <= j
    <3>1. U \subseteq Nat
      OBVIOUS
    <3> HIDE DEF U
    <3> QED
      BY <1>3, <3>1, LeastElement
  <2>2. CASE k < 10
    <3>1. k \in 0..9 /\ d[k] = <<Zero + k>>
      <4>1. k \in 0..n /\ k \in 0..9
        BY <2>1, <2>2
      <4> HIDE DEF U
      <4> QED
        BY <1>2, <2>2, <4>1
    <3>2. IsDecimal(d[k], k)
      BY <3>1, OneDigit
    <3> QED
      BY <2>1, <3>2
  <2>3. CASE k >= 10
    <3>1. k \in Nat /\ k \in 0..n
      BY <2>1
    <3>2. k \div 10 \in 1..(k - 1)
      BY <2>3, <3>1, TenthIsLess
    <3>3. k \div 10 \in 0..n /\ ~(k <= k \div 10)
      BY <3>1, <3>2
    <3>4. IsDecimal(d[k \div 10], k \div 10)
      BY <2>1, <3>3
    <3>5. d[k] = d[k \div 10] \o <<Zero + (k % 10)>>
      <4>1. ~(k < 10)
        BY <2>3, <3>1
      <4> QED
        BY <1>2, <3>1, <4>1
    <3>6. IsDecimal(d[k], k)
      BY <2>3, <3>1, <3>4, <3>5, NextDigit
    <3> QED
      BY <2>1, <3>6
  <2> QED
    BY <2>1, <2>2, <2>3
<1>4. n \in 0..n
  OBVIOUS
<1> QED
  BY <1>1, <1>3, <1>4

-----------------------------------------------------------------------------
(* What is handed to the socket.                                            *)

ExtBuff == [pos : Nat, data : Seq(Byte)]

(* Direct data goes in order, between the bytes of the text.                *)
Fits(ext, text) ==
  /\ text \in Seq(Byte) /\ ext \in Seq(ExtBuff)
  /\ \A i \in 1..Len(ext) : prev_pos(ext, i - 1) <= ext[i].pos /\ ext[i].pos <= Len(text)

(* What build_multibuffer computes on the way, and in the end. *)
Pieces(text, ext) ==
  CHOOSE p : p = [i \in 0..Len(ext) |->
    IF i = 0 THEN <<>>
    ELSE p[i - 1] \o SubSeq(text, prev_pos(ext, i - 1) + 1, ext[i].pos) \o ext[i].data]

Sent(text, ext) ==
  Pieces(text, ext)[Len(ext)] \o SubSeq(text, prev_pos(ext, Len(ext)) + 1, Len(text))

(* The places are within the text. *)
LEMMA FitsFacts ==
  ASSUME NEW text, NEW ext, Fits(ext, text)
  PROVE  /\ Len(ext) \in Nat /\ Len(text) \in Nat
         /\ \A i \in 0..Len(ext) : prev_pos(ext, i) \in 0..Len(text)
         /\ \A i \in 1..Len(ext) : /\ prev_pos(ext, i - 1) \in 0..ext[i].pos
                                   /\ ext[i].pos \in 0..Len(text) /\ prev_pos(ext, i) = ext[i].pos
                                   /\ ext[i].data \in Seq(Byte)
<1>1. Len(ext) \in Nat /\ Len(text) \in Nat
  BY LenProperties DEF Fits
<1>2. ASSUME NEW i \in 1..Len(ext)
      PROVE  /\ ext[i].pos \in 0..Len(text) /\ prev_pos(ext, i) = ext[i].pos
             /\ ext[i].data \in Seq(Byte)
  <2>1. ext[i] \in ExtBuff
    BY ElementOfSeq DEF Fits
  <2>2. ext[i].pos \in Nat /\ ext[i].data \in Seq(Byte)
    BY <2>1 DEF ExtBuff
  <2>3. ext[i].pos <= Len(text)
    BY DEF Fits
  <2> QED
    BY <1>1, <2>2, <2>3 DEF prev_pos
<1>3. \A i \in 0..Len(ext) : prev_pos(ext, i) \in 0..Len(text)
  <2> TAKE i \in 0..Len(ext)
  <2>1. CASE i = 0
    BY <1>1, <2>1 DEF prev_pos
  <2>2. CASE i # 0
    <3>1. i \in 1..Len(ext)
      BY <2>2
    <3> QED
      BY <1>2, <3>1
  <2> QED
    BY <2>1, <2>2
<1>4. \A i \in 1..Len(ext) : prev_pos(ext, i - 1) \in 0..ext[i].pos
  <2> TAKE i \in 1..Len(ext)
  <2>1. i - 1 \in 0..Len(ext)
    BY <1>1
  <2>2. prev_pos(ext, i - 1) \in 0..Len(text) /\ ext[i].pos \in 0..Len(text)
    BY <1>2, <1>3, <2>1
  <2>3. prev_pos(ext, i - 1) <= ext[i].pos
    BY DEF Fits
  <2> QED
    BY <2>2, <2>3
<1> QED
  BY <1>1, <1>2, <1>3, <1>4

(* A part of a text is a text.                                              *)
LEMMA PartOfText ==
  ASSUME NEW S, NEW text \in Seq(S), NEW a \in 0..Len(text), NEW b \in a..Len(text)
  PROVE  SubSeq(text, a + 1, b) \in Seq(S) /\ Len(SubSeq(text, a + 1, b)) = b - a
<1>1. Len(text) \in Nat /\ a + 1 \in 1..(Len(text) + 1) /\ b \in ((a + 1) - 1)..Len(text) /\ <<>> \in Seq(S)
  OBVIOUS
<1>2. SubSeq(text, a + 1, b) \in Seq(S) /\ Len(SubSeq(text, a + 1, b)) = b - (a + 1) + 1
  BY <1>1, SubSeqOfFirst
<1> QED
  BY <1>1, <1>2

(* The recursion of build_multibuffer has a solution, which is of bytes. *)
LEMMA PiecesFacts ==
  ASSUME NEW text, NEW ext, Fits(ext, text)
  PROVE  LET p == Pieces(text, ext)
         IN /\ \A i \in 0..Len(ext) : p[i] \in Seq(Byte)
            /\ p[0] = <<>>
            /\ \A i \in 1..Len(ext) :
                 p[i] = p[i - 1] \o SubSeq(text, prev_pos(ext, i - 1) + 1, ext[i].pos) \o ext[i].data
<1> DEFINE n == Len(ext)
           S == Seq(Byte)
           Piece(i) == SubSeq(text, prev_pos(ext, i - 1) + 1, ext[i].pos)
           step == [x \in S \X (1..n) |-> x[1] \o Piece(x[2]) \o ext[x[2]].data]
           Is(p) == p = [i \in 0..n |-> IF i = 0 THEN <<>> ELSE p[i - 1] \o Piece(i) \o ext[i].data]
<1>1. n \in Nat
  BY FitsFacts
<1>2. \A i \in 1..n : Piece(i) \in S /\ ext[i].data \in S
  <2> TAKE i \in 1..n
  <2>1. /\ Len(text) \in Nat /\ ext[i].pos \in 0..Len(text) /\ ext[i].data \in S
        /\ prev_pos(ext, i - 1) \in 0..ext[i].pos
    BY FitsFacts
  <2>2. prev_pos(ext, i - 1) \in 0..Len(text) /\ ext[i].pos \in prev_pos(ext, i - 1)..Len(text)
    BY <2>1
  <2>3. Piece(i) \in S
    BY <2>2, PartOfText DEF Fits
  <2> QED
    BY <2>1, <2>3
<1> HIDE DEF Piece
<1>3. \A s \in S : \A i \in 1..n : s \o Piece(i) \o ext[i].data \in S
  BY <1>2, ConcatProperties
<1>4. <<>> \in S
  OBVIOUS
<1> HIDE DEF S
<1>5. \A s \in S : \A i \in 1..n : step[<<s, i>>] = s \o Piece(i) \o ext[i].data
  OBVIOUS
<1>6. \A s \in S : \A i \in 1..n : step[<<s, i>>] \in S
  BY <1>3, <1>5
<1> HIDE DEF step
<1>7. PICK f : Recurs(f, n, S, <<>>, step)
  <2> HIDE DEF n
  <2>1. Keeps(step, n, S)
    BY <1>6 DEF Keeps
  <2> QED
    BY <1>1, <1>4, <2>1, Recursion
<1>8. \A i \in 1..n : f[i] = f[i - 1] \o Piece(i) \o ext[i].data
  <2> TAKE i \in 1..n
  <2>1. f[i - 1] \in S
    BY <1>1, <1>7 DEF Recurs
  <2> QED
    BY <1>5, <1>7, <2>1 DEF Recurs
<1>9. Is(f)
  <2>1. \A i \in 0..n : f[i] = IF i = 0 THEN <<>> ELSE f[i - 1] \o Piece(i) \o ext[i].data
    <3> TAKE i \in 0..n
    <3>1. i # 0 => i \in 1..n
      BY <1>1
    <3> HIDE DEF n
    <3> QED
      BY <1>7, <1>8, <3>1 DEF Recurs
  <2>2. f = [i \in 0..n |-> f[i]]
    BY <1>7 DEF Recurs
  <2> QED
    BY <2>1, <2>2
<1>10. Is(Pieces(text, ext))
  BY <1>9 DEF Pieces, Piece
<1> DEFINE p == Pieces(text, ext)
<1> HIDE DEF p
<1>11. \A i \in 0..n : p[i] = IF i = 0 THEN <<>> ELSE p[i - 1] \o Piece(i) \o ext[i].data
  BY <1>10 DEF p
<1>12. \A i \in 0..n : p[i] \in S
  <2> DEFINE T == {i \in 0..n : p[i] \in S}
  <2>1. 0 \in T
    BY <1>1, <1>4, <1>11
  <2>2. \A i \in 1..n : i - 1 \in T => i \in T
    BY <1>1, <1>3, <1>11
  <2>3. \A i \in 0..n : i \in T
    <3> HIDE DEF T, n
    <3> QED
      BY <1>1, <2>1, <2>2, Induct
  <2> QED
    BY <2>3
<1>13. /\ p[0] = <<>>
       /\ \A i \in 1..n : p[i] = p[i - 1] \o Piece(i) \o ext[i].data
  <2>1. 0 \in 0..n /\ \A i \in 1..n : i \in 0..n /\ i # 0
    BY <1>1
  <2> HIDE DEF n
  <2> QED
    BY <1>11, <2>1
<1> QED
  BY <1>12, <1>13 DEF p, S, Piece

(* What is sent is bytes. *)
LEMMA SentFacts ==
  ASSUME NEW text, NEW ext, Fits(ext, text)
  PROVE  Sent(text, ext) \in Seq(Byte)
<1>1. Len(ext) \in 0..Len(ext) /\ Len(text) \in Nat /\ prev_pos(ext, Len(ext)) \in 0..Len(text)
  BY FitsFacts
<1>2. Len(text) \in prev_pos(ext, Len(ext))..Len(text)
  BY <1>1
<1>3. Pieces(text, ext)[Len(ext)] \in Seq(Byte)
  BY <1>1, PiecesFacts
<1>4. SubSeq(text, prev_pos(ext, Len(ext)) + 1, Len(text)) \in Seq(Byte)
  BY <1>1, <1>2, PartOfText DEF Fits
<1> QED
  BY <1>3, <1>4, ConcatProperties DEF Sent

(* build_multibuffer hands out what is sent. *)
LEMMA SentIsBuilt == \A q : build_multibuffer(q) = Sent(q.text, q.ext)
BY DEF build_multibuffer, Sent, Pieces

(* Bytes after the text leave the places of direct data where they are.      *)
LEMMA FitsMore ==
  ASSUME NEW text, NEW ext, Fits(ext, text), NEW t \in Seq(Byte)
  PROVE  Fits(ext, text \o t)
<1>1. text \o t \in Seq(Byte) /\ Len(text \o t) = Len(text) + Len(t) /\ Len(t) \in Nat
  BY ConcatProperties, LenProperties DEF Fits
<1>2. Len(text) \in Nat /\ \A i \in 1..Len(ext) : ext[i].pos \in 0..Len(text)
  BY FitsFacts
<1>3. \A i \in 1..Len(ext) : ext[i].pos <= Len(text \o t)
  BY <1>1, <1>2
<1> QED
  BY <1>1, <1>3 DEF Fits

(* What is sent of the first direct buffers does not depend on what follows. *)
LEMMA SamePieces ==
  ASSUME NEW text, NEW ext, Fits(ext, text), NEW t \in Seq(Byte), NEW ext2, Fits(ext2, text \o t),
         Len(ext) <= Len(ext2), \A i \in 1..Len(ext) : ext2[i] = ext[i]
  PROVE  /\ Pieces(text \o t, ext2)[Len(ext)] = Pieces(text, ext)[Len(ext)]
         /\ prev_pos(ext2, Len(ext)) = prev_pos(ext, Len(ext))
<1> DEFINE n == Len(ext)
           u == text \o t
           p == Pieces(text, ext)
           p2 == Pieces(u, ext2)
           T == {i \in 0..n : p2[i] = p[i]}
<1>1. n \in Nat /\ Len(ext2) \in Nat /\ n <= Len(ext2)
  BY FitsFacts
<1>2. \A i \in 0..n : prev_pos(ext2, i) = prev_pos(ext, i)
  BY <1>1 DEF prev_pos
<1>3. 0 \in T
  <2>1. p2[0] = <<>> /\ p[0] = <<>>
    BY PiecesFacts
  <2> QED
    BY <1>1, <2>1
<1>4. ASSUME NEW i \in 1..n, i - 1 \in T
      PROVE  i \in T
  <2>1. i \in 0..n /\ i - 1 \in 0..n /\ i \in 1..Len(ext2)
    BY <1>1
  <2>2. p[i] = p[i - 1] \o SubSeq(text, prev_pos(ext, i - 1) + 1, ext[i].pos) \o ext[i].data
    BY PiecesFacts
  <2>3. p2[i] = p2[i - 1] \o SubSeq(u, prev_pos(ext2, i - 1) + 1, ext2[i].pos) \o ext2[i].data
    BY <2>1, PiecesFacts
  <2>4. p2[i - 1] = p[i - 1]
    BY <1>4
  <2>5. SubSeq(u, prev_pos(ext, i - 1) + 1, ext[i].pos) = SubSeq(text, prev_pos(ext, i - 1) + 1, ext[i].pos)
    <3>1. Len(text) \in Nat /\ prev_pos(ext, i - 1) \in 0..ext[i].pos /\ ext[i].pos \in 0..Len(text)
      BY FitsFacts
    <3> DEFINE a == prev_pos(ext, i - 1) + 1
               b == ext[i].pos
    <3>2. a \in 1..(Len(text) + 1) /\ b \in (a - 1)..Len(text)
      BY <3>1
    <3> HIDE DEF a, b
    <3>3. SubSeq(text \o t, a, b) = SubSeq(text, a, b)
      BY <3>2, SubSeqOfFirst DEF Fits
    <3> QED
      BY <3>3 DEF a, b
  <2>6. prev_pos(ext2, i - 1) = prev_pos(ext, i - 1) /\ ext2[i] = ext[i]
    BY <1>2, <2>1
  <2>7. p2[i] = p[i]
    <3> HIDE DEF p, p2, u, n
    <3> QED
      BY <2>2, <2>3, <2>4, <2>5, <2>6
  <2> QED
    BY <2>1, <2>7
<1>5. n \in T
  <2>1. n \in 0..n
    BY <1>1
  <2> HIDE DEF T, n
  <2> QED
    BY <1>1, <1>3, <1>4, <2>1, Induct
<1>6. p2[n] = p[n] /\ prev_pos(ext2, n) = prev_pos(ext, n)
  BY <1>1, <1>2, <1>5
<1> QED
  BY <1>6

(* Bytes after the text are sent after it. *)
LEMMA SentMore ==
  ASSUME NEW text, NEW ext, Fits(ext, text), NEW t \in Seq(Byte)
  PROVE  Sent(text \o t, ext) = Sent(text, ext) \o t
<1> DEFINE n == Len(ext)
           a == prev_pos(ext, n) + 1
           p == Pieces(text, ext)[n]
           e == SubSeq(text, a, Len(text))
<1>1. Fits(ext, text \o t) /\ n \in Nat /\ n \in 0..n /\ n <= n
  BY FitsMore, FitsFacts
<1>2. Pieces(text \o t, ext)[n] = p
  BY <1>1, SamePieces
<1>3. Len(text) \in Nat /\ prev_pos(ext, n) \in 0..Len(text) /\ Len(t) \in 0..Len(t) /\ text \in Seq(Byte)
  <2>1. Len(t) \in Nat
    OBVIOUS
  <2> QED
    BY <1>1, <2>1, FitsFacts DEF Fits
<1>4. a \in 1..(Len(text) + 1)
  BY <1>3
<1>5. e \in Seq(Byte) /\ p \in Seq(Byte)
  <2>1. Len(text) \in (a - 1)..Len(text)
    BY <1>3
  <2> HIDE DEF a
  <2>2. e \in Seq(Byte)
    BY <1>3, <1>4, <2>1, SubSeqOfFirst
  <2> QED
    BY <1>1, <2>2, PiecesFacts
<1>6. SubSeq(text \o t, a, Len(text \o t)) = e \o t
  <2>1. Len(text \o t) = Len(text) + Len(t) /\ SubSeq(t, 1, Len(t)) = t
    BY <1>3, ConcatProperties, SubSeqFull
  <2> HIDE DEF a
  <2>2. SubSeq(text \o t, a, Len(text) + Len(t)) = SubSeq(text, a, Len(text)) \o SubSeq(t, 1, Len(t))
    BY <1>3, <1>4, SubSeqOfBoth
  <2> QED
    BY <2>1, <2>2
<1>7. Sent(text \o t, ext) = p \o (e \o t) /\ Sent(text, ext) = p \o e
  BY <1>2, <1>6 DEF Sent
<1> HIDE DEF p, e
<1> QED
  BY <1>5, <1>7, ConcatAssociative

(* Direct data at the end of the text is sent after it, and before what the  *)
(* text is given then.                                                     *)
SentBehind(text, ext, data, t) ==
  LET ext2 == Append(ext, [pos |-> Len(text), data |-> data])
  IN Fits(ext2, text \o t) /\ Sent(text \o t, ext2) = (Sent(text, ext) \o data) \o t

LEMMA SentDirect ==
  ASSUME NEW text, NEW ext, Fits(ext, text), NEW data \in Seq(Byte), NEW t \in Seq(Byte)
  PROVE  SentBehind(text, ext, data, t)
<1> DEFINE n == Len(ext)
           new == [pos |-> Len(text), data |-> data]
           ext2 == Append(ext, new)
           u == text \o t
<1>1. /\ n \in Nat /\ Len(text) \in Nat /\ Len(t) \in Nat /\ text \in Seq(Byte) /\ ext \in Seq(ExtBuff)
      /\ n \in 0..n
  <2>1. n \in Nat /\ Len(text) \in Nat
    BY FitsFacts
  <2> QED
    BY <2>1, LenProperties DEF Fits
<1>2. u \in Seq(Byte) /\ Len(u) = Len(text) + Len(t)
  BY <1>1, ConcatProperties
<1>3. new \in ExtBuff
  BY <1>1 DEF ExtBuff
<1>4. /\ ext2 \in Seq(ExtBuff) /\ Len(ext2) = n + 1 /\ ext2[n + 1] = new
      /\ \A i \in 1..n : ext2[i] = ext[i]
  <2> HIDE DEF new
  <2> QED
    BY <1>1, <1>3, AppendProperties
<1>5. \A i \in 0..n : prev_pos(ext2, i) = prev_pos(ext, i) /\ prev_pos(ext, i) \in 0..Len(text)
  <2> HIDE DEF ext2
  <2>1. \A i \in 0..n : prev_pos(ext2, i) = prev_pos(ext, i)
    BY <1>1, <1>4 DEF prev_pos
  <2> QED
    BY <2>1, FitsFacts
<1> HIDE DEF ext2
<1>6. Fits(ext2, u)
  <2>1. ASSUME NEW i \in 1..Len(ext2)
        PROVE  prev_pos(ext2, i - 1) <= ext2[i].pos /\ ext2[i].pos <= Len(u)
    <3>1. i - 1 \in 0..n /\ (i \in 1..n \/ i = n + 1)
      BY <1>1, <1>4
    <3>2. CASE i \in 1..n
      <4>1. /\ prev_pos(ext, i - 1) \in 0..ext[i].pos /\ ext[i].pos \in 0..Len(text)
        BY <3>2, FitsFacts
      <4>2. ext2[i] = ext[i] /\ prev_pos(ext2, i - 1) = prev_pos(ext, i - 1)
        BY <1>4, <1>5, <3>1, <3>2
      <4> QED
        BY <1>1, <1>2, <4>1, <4>2
    <3>3. CASE i = n + 1
      <4>1. ext2[i].pos = Len(text)
        BY <1>4, <3>3
      <4>2. prev_pos(ext2, i - 1) \in 0..Len(text)
        BY <1>5, <3>1
      <4> QED
        BY <1>1, <1>2, <4>1, <4>2
    <3> QED
      BY <3>1, <3>2, <3>3
  <2> QED
    BY <1>2, <1>4, <2>1 DEF Fits
<1> DEFINE p == Pieces(text, ext)[n]
           e == SubSeq(text, prev_pos(ext, n) + 1, Len(text))
<1>7. p \in Seq(Byte) /\ e \in Seq(Byte)
  <2>1. p \in Seq(Byte)
    BY <1>1, PiecesFacts
  <2>2. prev_pos(ext, n) \in 0..Len(text) /\ Len(text) \in prev_pos(ext, n)..Len(text)
    BY <1>1, <1>5
  <2> QED
    BY <1>1, <2>1, <2>2, PartOfText
<1>8. Pieces(u, ext2)[n] = p
  <2>1. n <= Len(ext2)
    BY <1>1, <1>4
  <2> QED
    BY <1>4, <1>6, <2>1, SamePieces
<1>9. Pieces(u, ext2)[n + 1] = p \o e \o data
  <2>1. n + 1 \in 1..Len(ext2) /\ (n + 1) - 1 = n
    BY <1>1, <1>4
  <2>2. Pieces(u, ext2)[n + 1] = Pieces(u, ext2)[(n + 1) - 1]
          \o SubSeq(u, prev_pos(ext2, (n + 1) - 1) + 1, ext2[n + 1].pos) \o ext2[n + 1].data
    BY <1>6, <2>1, PiecesFacts
  <2>3. ext2[n + 1].pos = Len(text) /\ ext2[n + 1].data = data /\ prev_pos(ext2, n) = prev_pos(ext, n)
    BY <1>1, <1>4, <1>5
  <2>4. SubSeq(u, prev_pos(ext, n) + 1, Len(text)) = e
    <3> DEFINE a == prev_pos(ext, n) + 1
    <3>1. prev_pos(ext, n) \in 0..Len(text)
      BY <1>1, <1>5
    <3>2. a \in 1..(Len(text) + 1) /\ Len(text) \in (a - 1)..Len(text)
      BY <1>1, <3>1
    <3> HIDE DEF a
    <3>3. SubSeq(text \o t, a, Len(text)) = SubSeq(text, a, Len(text))
      BY <1>1, <3>2, SubSeqOfFirst
    <3> QED
      BY <3>3 DEF a
  <2> HIDE DEF p, e, n, u
  <2> QED
    BY <1>8, <2>1, <2>2, <2>3, <2>4
<1>10. SubSeq(u, prev_pos(ext2, n + 1) + 1, Len(u)) = t
  <2>1. prev_pos(ext2, n + 1) = Len(text)
    <3>1. n + 1 # 0
      BY <1>1
    <3> QED
      BY <1>4, <3>1 DEF prev_pos
  <2>2. SubSeq(text \o t, Len(text) + 1, Len(text) + Len(t)) = SubSeq(t, 1, Len(t))
    <3>1. 1 \in 1..(Len(t) + 1) /\ Len(t) \in (1 - 1)..Len(t)
      BY <1>1
    <3> QED
      BY <1>1, <3>1, SubSeqOfSecond
  <2>3. SubSeq(t, 1, Len(t)) = t
    BY SubSeqFull
  <2> QED
    BY <1>2, <2>1, <2>2, <2>3
<1>11. Sent(u, ext2) = (p \o e \o data) \o t /\ Sent(text, ext) = p \o e
  <2> HIDE DEF u
  <2> QED
    BY <1>4, <1>9, <1>10 DEF Sent
<1>12. Sent(u, ext2) = (Sent(text, ext) \o data) \o t
  BY <1>11
<1> QED
  BY <1>6, <1>12 DEF SentBehind, ext2, new, u

(* The places of direct data behind d bytes more. *)
Moved(ext, d) == [i \in DOMAIN ext |-> [ext[i] EXCEPT !.pos = @ + d]]

(* The places still fit when the text moves. *)
LEMMA FitsMoved ==
  ASSUME NEW text, NEW ext, Fits(ext, text), NEW z \in Seq(Byte)
  PROVE  /\ Fits(Moved(ext, Len(z)), z \o text)
         /\ Len(Moved(ext, Len(z))) = Len(ext)
         /\ \A i \in 1..Len(ext) : /\ Moved(ext, Len(z))[i].pos = ext[i].pos + Len(z)
                                   /\ Moved(ext, Len(z))[i].data = ext[i].data
         /\ \A i \in 0..Len(ext) : prev_pos(Moved(ext, Len(z)), i)
                                     = IF i = 0 THEN 0 ELSE prev_pos(ext, i) + Len(z)
<1> DEFINE n == Len(ext)
           d == Len(z)
           ext2 == Moved(ext, d)
<1>1. /\ n \in Nat /\ d \in Nat /\ Len(text) \in Nat /\ text \in Seq(Byte) /\ ext \in Seq(ExtBuff)
      /\ DOMAIN ext = 1..n
  <2>1. n \in Nat /\ Len(text) \in Nat
    BY FitsFacts
  <2> QED
    BY <2>1, LenProperties DEF Fits
<1>2. z \o text \in Seq(Byte) /\ Len(z \o text) = d + Len(text)
  BY <1>1, ConcatProperties
<1>3. ASSUME NEW i \in 1..n
      PROVE  ext2[i].pos = ext[i].pos + d /\ ext2[i].data = ext[i].data /\ ext2[i] \in ExtBuff
  <2>1. ext[i] \in ExtBuff
    BY <1>1, ElementOfSeq
  <2>2. ext2[i] = [ext[i] EXCEPT !.pos = @ + d]
    BY <1>1 DEF Moved
  <2> DEFINE b == ext[i]
  <2> HIDE DEF ext2, d, b
  <2>3. b \in ExtBuff /\ d \in Nat /\ ext2[i] = [b EXCEPT !.pos = @ + d]
    BY <1>1, <2>1, <2>2 DEF b
  <2>4. ext2[i].pos = b.pos + d /\ ext2[i].data = b.data /\ ext2[i] \in ExtBuff
    BY <2>3 DEF ExtBuff
  <2> QED
    BY <2>4 DEF b
<1>4. ext2 = [i \in 1..n |-> ext2[i]]
  BY <1>1 DEF Moved
<1> HIDE DEF ext2
<1>5. ext2 \in Seq(ExtBuff) /\ Len(ext2) = n
  BY <1>1, <1>3, <1>4
<1>6. \A i \in 0..n : prev_pos(ext2, i) = IF i = 0 THEN 0 ELSE prev_pos(ext, i) + d
  <2> TAKE i \in 0..n
  <2>1. i # 0 => i \in 1..n
    BY <1>1
  <2> HIDE DEF d, n
  <2> QED
    BY <1>3, <2>1 DEF prev_pos
<1>7. \A i \in 1..Len(ext2) : prev_pos(ext2, i - 1) <= ext2[i].pos /\ ext2[i].pos <= Len(z \o text)
  <2> TAKE i \in 1..Len(ext2)
  <2>1. i \in 1..n /\ i - 1 \in 0..n
    BY <1>1, <1>5
  <2>2. ext[i].pos \in 0..Len(text) /\ prev_pos(ext, i - 1) \in 0..ext[i].pos
    BY <2>1, FitsFacts
  <2>3. ext2[i].pos = ext[i].pos + d /\ prev_pos(ext2, i - 1) = IF i - 1 = 0 THEN 0 ELSE prev_pos(ext, i - 1) + d
    BY <1>3, <1>6, <2>1
  <2> HIDE DEF d
  <2> QED
    BY <1>1, <1>2, <2>2, <2>3
<1>8. Fits(ext2, z \o text)
  BY <1>2, <1>5, <1>7 DEF Fits
<1> QED
  BY <1>3, <1>5, <1>6, <1>8 DEF ext2

(* Three texts, one after the other. *)
LEMMA TextsInTurn == \A a, b, c \in Seq(Byte) : (a \o b) \o c = a \o (b \o c)
BY ConcatAssociative

(* What is in front of the text is sent in front of it.                     *)
LEMMA SentMoved ==
  ASSUME NEW text, NEW ext, Fits(ext, text), NEW z \in Seq(Byte)
  PROVE  Sent(z \o text, Moved(ext, Len(z))) = z \o Sent(text, ext)
<1> DEFINE n == Len(ext)
           d == Len(z)
           ext2 == Moved(ext, d)
           u == z \o text
           p == Pieces(text, ext)
           q == Pieces(u, ext2)
           Part(i, m) == SubSeq(text, prev_pos(ext, i) + 1, m)
           Part2(i, m) == SubSeq(u, prev_pos(ext2, i) + 1, d + m)
           Same(i) == \A m \in prev_pos(ext, i)..Len(text) : q[i] \o Part2(i, m) = z \o (p[i] \o Part(i, m))
           T == {i \in 0..n : Same(i)}
<1>1. n \in Nat /\ d \in Nat /\ Len(text) \in Nat /\ text \in Seq(Byte)
  BY FitsFacts, LenProperties DEF Fits
<1>2. Fits(ext2, u) /\ Len(ext2) = n /\ Len(u) = d + Len(text)
  BY <1>1, FitsMoved, ConcatProperties
<1>3. \A i \in 1..n : ext2[i].pos = d + ext[i].pos /\ ext2[i].data = ext[i].data
  <2> TAKE i \in 1..n
  <2>1. ext2[i].pos = ext[i].pos + d /\ ext2[i].data = ext[i].data
    BY FitsMoved
  <2>2. ext[i].pos \in 0..Len(text)
    BY FitsFacts
  <2> HIDE DEF d, ext2
  <2> QED
    BY <1>1, <2>1, <2>2
<1>4. \A i \in 0..n : prev_pos(ext2, i) = IF i = 0 THEN 0 ELSE prev_pos(ext, i) + d
  BY FitsMoved
<1>5. /\ p[0] = <<>> /\ q[0] = <<>>
      /\ \A i \in 0..n : p[i] \in Seq(Byte) /\ q[i] \in Seq(Byte) /\ prev_pos(ext, i) \in 0..Len(text)
      /\ \A i \in 1..n : ext[i].data \in Seq(Byte)
  <2> HIDE DEF ext2, u
  <2>1. p[0] = <<>> /\ \A i \in 0..n : p[i] \in Seq(Byte)
    BY PiecesFacts
  <2>2. q[0] = <<>> /\ \A i \in 0..n : q[i] \in Seq(Byte)
    BY <1>2, PiecesFacts
  <2>3. /\ \A i \in 0..n : prev_pos(ext, i) \in 0..Len(text)
        /\ \A i \in 1..n : ext[i].data \in Seq(Byte)
    BY FitsFacts
  <2> QED
    BY <2>1, <2>2, <2>3
<1>6. \A i \in 1..n : p[i] = p[i - 1] \o Part(i - 1, ext[i].pos) \o ext[i].data
  BY PiecesFacts
<1>7. \A i \in 1..n : q[i] = q[i - 1] \o Part2(i - 1, ext[i].pos) \o ext[i].data
  <2> TAKE i \in 1..n
  <2> HIDE DEF ext2, u
  <2>0. i \in 1..Len(ext2)
    BY <1>2
  <2>1. q[i] = q[i - 1] \o SubSeq(u, prev_pos(ext2, i - 1) + 1, ext2[i].pos) \o ext2[i].data
    BY <1>2, <2>0, PiecesFacts
  <2> HIDE DEF q, d
  <2> QED
    BY <1>3, <2>1
<1>8. \A i \in 0..n : \A m \in prev_pos(ext, i)..Len(text) : Part(i, m) \in Seq(Byte)
  <2> TAKE i \in 0..n
  <2> TAKE m \in prev_pos(ext, i)..Len(text)
  <2> QED
    BY <1>1, <1>5, PartOfText
<1> HIDE DEF ext2, p, q
<1>9. 0 \in T
  <2>1. ASSUME NEW m \in prev_pos(ext, 0)..Len(text)
        PROVE  q[0] \o Part2(0, m) = z \o (p[0] \o Part(0, m))
    <3>1. prev_pos(ext, 0) = 0 /\ prev_pos(ext2, 0) = 0 /\ 0 + 1 = 1
      BY DEF prev_pos
    <3>2. SubSeq(u, 1, d + m) = SubSeq(z, 1, d) \o SubSeq(text, 1, m)
      <4>1. 1 \in 1..(Len(z) + 1) /\ m \in 0..Len(text)
        BY <1>1, <3>1
      <4> QED
        BY <1>1, <4>1, SubSeqOfBoth
    <3>3. SubSeq(z, 1, d) = z
      BY SubSeqFull
    <3>4. Part(0, m) = SubSeq(text, 1, m) /\ Part2(0, m) = SubSeq(u, 1, d + m)
      BY <3>1
    <3>5. Part(0, m) \in Seq(Byte)
      <4>1. 0 \in 0..n
        BY <1>1
      <4> HIDE DEF Part, n
      <4> QED
        BY <1>8, <4>1
    <3>6. Part2(0, m) = z \o Part(0, m) /\ z \o Part(0, m) \in Seq(Byte)
      <4>1. Part2(0, m) = z \o Part(0, m)
        BY <3>2, <3>3, <3>4
      <4> HIDE DEF Part, Part2
      <4> QED
        BY <3>5, <4>1, ConcatProperties
    <3> HIDE DEF Part, Part2
    <3>7. <<>> \o Part2(0, m) = Part2(0, m) /\ <<>> \o Part(0, m) = Part(0, m)
      BY <3>5, <3>6, ConcatEmptySeq
    <3> QED
      BY <1>5, <3>6, <3>7
  <2>2. 0 \in 0..n
    BY <1>1
  <2> HIDE DEF Part, Part2, n
  <2> QED
    BY <2>1, <2>2
<1>10. ASSUME NEW i \in 1..n, i - 1 \in T
       PROVE  i \in T
  <2> DEFINE pos == ext[i].pos
             data == ext[i].data
  <2>1. /\ i \in 0..n /\ i - 1 \in 0..n /\ prev_pos(ext, i) = pos /\ pos \in 0..Len(text)
        /\ pos \in prev_pos(ext, i - 1)..Len(text) /\ prev_pos(ext2, i) = d + pos
    <3>1. i \in 0..n /\ i - 1 \in 0..n /\ i # 0
      BY <1>1
    <3>2. prev_pos(ext, i) = pos /\ pos \in 0..Len(text) /\ prev_pos(ext, i - 1) \in 0..pos
      BY FitsFacts
    <3>3. prev_pos(ext2, i) = pos + d
      BY <1>4, <3>1, <3>2
    <3> HIDE DEF pos, d
    <3> QED
      BY <1>1, <3>1, <3>2, <3>3
  <2> HIDE DEF Part, Part2, u
  <2>2. q[i - 1] \o Part2(i - 1, pos) = z \o (p[i - 1] \o Part(i - 1, pos))
    BY <1>10, <2>1
  <2>3. p[i] = (p[i - 1] \o Part(i - 1, pos)) \o data /\ q[i] = (q[i - 1] \o Part2(i - 1, pos)) \o data
    BY <1>6, <1>7
  <2>4. p[i - 1] \o Part(i - 1, pos) \in Seq(Byte) /\ data \in Seq(Byte)
    BY <1>5, <1>8, <2>1, ConcatProperties
  <2>5. q[i] = z \o p[i]
    <3> DEFINE s == p[i - 1] \o Part(i - 1, pos)
    <3>1. s \in Seq(Byte) /\ data \in Seq(Byte)
      BY <2>4
    <3>2. q[i] = (z \o s) \o data /\ p[i] = s \o data
      BY <2>2, <2>3
    <3> HIDE DEF s, data
    <3> QED
      BY <3>1, <3>2, ConcatAssociative
  <2>6. ASSUME NEW m \in prev_pos(ext, i)..Len(text)
        PROVE  q[i] \o Part2(i, m) = z \o (p[i] \o Part(i, m))
    <3>1. Part2(i, m) = Part(i, m)
      <4>1. pos + 1 \in 1..(Len(text) + 1) /\ m \in ((pos + 1) - 1)..Len(text)
        BY <1>1, <2>1
      <4>2. SubSeq(z \o text, d + (pos + 1), d + m) = SubSeq(text, pos + 1, m)
        BY <1>1, <4>1, SubSeqOfSecond
      <4>3. prev_pos(ext2, i) + 1 = d + (pos + 1)
        BY <1>1, <2>1
      <4> QED
        BY <2>1, <4>2, <4>3 DEF Part, Part2, u
    <3>2. Part(i, m) \in Seq(Byte) /\ p[i] \in Seq(Byte)
      BY <1>5, <1>8, <2>1
    <3>3. (z \o p[i]) \o Part(i, m) = z \o (p[i] \o Part(i, m))
      <4> DEFINE s == p[i]
                 v == Part(i, m)
      <4>1. z \in Seq(Byte) /\ s \in Seq(Byte) /\ v \in Seq(Byte)
        BY <3>2
      <4> HIDE DEF s, v
      <4>2. (z \o s) \o v = z \o (s \o v)
        BY ONLY <4>1, TextsInTurn
      <4> QED
        BY <4>2 DEF s, v
    <3> QED
      BY <2>5, <3>1, <3>3
  <2>7. i \in 0..n
    BY <2>1
  <2> HIDE DEF n
  <2> QED
    BY <2>6, <2>7
<1>11. n \in T
  <2>1. n \in 0..n
    BY <1>1
  <2> HIDE DEF T, n
  <2> QED
    BY <1>1, <1>9, <1>10, <2>1, Induct
<1>12. q[n] \o Part2(n, Len(text)) = z \o (p[n] \o Part(n, Len(text)))
  <2>1. Len(text) \in prev_pos(ext, n)..Len(text)
    <3>1. n \in 0..n
      BY <1>1
    <3>2. prev_pos(ext, n) \in 0..Len(text)
      BY <1>5, <3>1
    <3> QED
      BY <1>1, <3>2
  <2> HIDE DEF n, Part, Part2
  <2> QED
    BY <1>11, <2>1
<1> QED
  BY <1>2, <1>12 DEF Sent, p, q, ext2

-----------------------------------------------------------------------------
(* What stands where in a text.                                             *)

(* A text stands in itself, from its beginning to its end. *)
LEMMA StandsWhole ==
  ASSUME NEW s \in Seq(Byte)
  PROVE  Stands(s, 0, Len(s), s)
<1>1. Len(s) \in Nat
  OBVIOUS
<1> QED
  BY <1>1 DEF Stands

(* It still stands there when bytes follow. *)
LEMMA StandsMore ==
  ASSUME NEW s \in Seq(Byte), NEW t \in Seq(Byte), NEW from \in Nat, NEW to \in Nat,
         NEW text \in Seq(Byte), Stands(s, from, to, text)
  PROVE  Stands(s \o t, from, to, text)
<1>1. /\ Len(s) \in Nat /\ Len(t) \in Nat /\ Len(text) \in Nat /\ Len(s \o t) = Len(s) + Len(t)
      /\ \A i \in 1..(Len(s) + Len(t)) : (s \o t)[i] = IF i <= Len(s) THEN s[i] ELSE t[i - Len(s)]
  BY ConcatProperties, LenProperties
<1>2. from + Len(text) = to /\ to <= Len(s) /\ \A k \in 1..Len(text) : s[from + k] = text[k]
  BY DEF Stands
<1>3. \A k \in 1..Len(text) : (s \o t)[from + k] = text[k]
  <2> TAKE k \in 1..Len(text)
  <2>1. from + k \in 1..(Len(s) + Len(t)) /\ from + k <= Len(s)
    BY <1>1, <1>2
  <2> QED
    BY <1>1, <1>2, <2>1
<1> QED
  BY <1>1, <1>2, <1>3 DEF Stands

(* It stands further on when bytes precede. *)
LEMMA StandsBehind ==
  ASSUME NEW s \in Seq(Byte), NEW t \in Seq(Byte), NEW from \in Nat, NEW to \in Nat,
         NEW text \in Seq(Byte), Stands(t, from, to, text)
  PROVE  Stands(s \o t, Len(s) + from, Len(s) + to, text)
<1>1. /\ Len(s) \in Nat /\ Len(t) \in Nat /\ Len(text) \in Nat /\ Len(s \o t) = Len(s) + Len(t)
      /\ \A i \in 1..(Len(s) + Len(t)) : (s \o t)[i] = IF i <= Len(s) THEN s[i] ELSE t[i - Len(s)]
  BY ConcatProperties, LenProperties
<1>2. from + Len(text) = to /\ to <= Len(t) /\ \A k \in 1..Len(text) : t[from + k] = text[k]
  BY DEF Stands
<1>3. \A k \in 1..Len(text) : (s \o t)[(Len(s) + from) + k] = text[k]
  <2> TAKE k \in 1..Len(text)
  <2>1. /\ (Len(s) + from) + k \in 1..(Len(s) + Len(t)) /\ ~((Len(s) + from) + k <= Len(s))
        /\ ((Len(s) + from) + k) - Len(s) = from + k
    BY <1>1, <1>2
  <2>2. (s \o t)[(Len(s) + from) + k] = t[((Len(s) + from) + k) - Len(s)]
    BY <1>1, <2>1
  <2> QED
    BY <1>2, <2>1, <2>2
<1> QED
  BY <1>1, <1>2, <1>3 DEF Stands

(* What two texts in turn make up stands where they do. *)
LEMMA StandsBoth ==
  ASSUME NEW s \in Seq(Byte), NEW t \in Seq(Byte), NEW bytes, NEW from \in Nat, NEW to \in Nat,
         Len(bytes) \in Nat, Stands(bytes, from, to, s \o t)
  PROVE  /\ Stands(bytes, from, from + Len(s), s)
         /\ Stands(bytes, from + Len(s), to, t)
<1>1. /\ Len(s) \in Nat /\ Len(t) \in Nat /\ Len(s \o t) = Len(s) + Len(t)
      /\ \A i \in 1..(Len(s) + Len(t)) : (s \o t)[i] = IF i <= Len(s) THEN s[i] ELSE t[i - Len(s)]
  BY ConcatProperties, LenProperties
<1> DEFINE u == s \o t
<1>2. from + Len(u) = to /\ to <= Len(bytes) /\ \A k \in 1..Len(u) : bytes[from + k] = u[k]
  BY DEF Stands
<1>3. \A k \in 1..Len(s) : bytes[from + k] = s[k]
  BY <1>1, <1>2
<1>4. \A k \in 1..Len(t) : bytes[(from + Len(s)) + k] = t[k]
  <2> TAKE k \in 1..Len(t)
  <2>1. Len(s) + k \in 1..Len(u) /\ ~(Len(s) + k <= Len(s)) /\ (Len(s) + k) - Len(s) = k
        /\ from + (Len(s) + k) = (from + Len(s)) + k
    BY <1>1
  <2>2. u[Len(s) + k] = t[(Len(s) + k) - Len(s)]
    BY <1>1, <2>1
  <2> HIDE DEF u
  <2> QED
    BY <1>2, <2>1, <2>2
<1> HIDE DEF u
<1>5. Len(u) = Len(s) + Len(t)
  BY <1>1 DEF u
<1> QED
  BY <1>1, <1>2, <1>3, <1>4, <1>5 DEF Stands

(* A number's text is of digits, and its value is the number. *)
LEMMA DecimalBytes ==
  ASSUME NEW n \in Nat
  PROVE  /\ Decimal(n) \in Seq(Digits) /\ Decimal(n) \in Seq(Byte) /\ Len(Decimal(n)) \in Nat \ {0}
         /\ Value(Decimal(n)) = n
         /\ n > 0 => Decimal(n)[1] # Zero
<1> DEFINE d == Decimal(n)
<1>1. IsDecimal(d, n)
  BY DecimalFacts
<1> HIDE DEF d
<1>2. d \in Seq(Digits) /\ d # <<>>
  BY <1>1 DEF IsDecimal
<1>3. Len(d) \in Nat \ {0}
  BY <1>2, EmptySeq
<1>4. d \in Seq(Byte)
  <2>1. Digits \subseteq Byte
    BY DEF Digits, Byte, Zero
  <2> QED
    BY <1>2, <2>1, SeqMonotonic
<1> QED
  BY <1>1, <1>2, <1>3, <1>4 DEF IsDecimal, d

(* How long the text of a number of a header is. *)
LEMMA ShortDecimal ==
  ASSUME NEW n \in Nat, n < 1000
  PROVE  Len(Decimal(n)) = IF n < 10 THEN 1 ELSE IF n < 100 THEN 2 ELSE 3
<1>1. IsDecimal(Decimal(n), n)
  BY DecimalFacts
<1> QED
  BY <1>1 DEF IsDecimal

(* A line, byte for byte. *)
LEMMA LineBytes ==
  ASSUME NEW mark \in Byte, NEW text \in Seq(Byte)
  PROVE  LET line == Line(mark, text)
         IN /\ line \in Seq(Byte) /\ Len(line) = Len(text) + 3
            /\ line[1] = mark /\ line[Len(text) + 2] = CR /\ line[Len(text) + 3] = LF
            /\ \A k \in 1..Len(text) : line[k + 1] = text[k]
<1> DEFINE n == Len(text)
           first == <<mark>> \o text
           line == first \o <<CR, LF>>
<1>1. /\ <<mark>> \in Seq(Byte) /\ Len(<<mark>>) = 1 /\ <<mark>>[1] = mark /\ n \in Nat
      /\ <<CR, LF>> \in Seq(Byte) /\ Len(<<CR, LF>>) = 2 /\ <<CR, LF>>[1] = CR /\ <<CR, LF>>[2] = LF
  BY DEF Byte, CR, LF
<1>2. /\ first \in Seq(Byte) /\ Len(first) = n + 1
      /\ first[1] = mark /\ \A k \in 1..n : first[k + 1] = text[k]
  <2>1. /\ first \in Seq(Byte) /\ Len(first) = 1 + n
        /\ \A i \in 1..(1 + n) : first[i] = IF i <= 1 THEN mark ELSE text[i - 1]
    <3>1. /\ first \in Seq(Byte) /\ Len(first) = Len(<<mark>>) + n
          /\ \A i \in 1..(Len(<<mark>>) + n) :
               first[i] = IF i <= Len(<<mark>>) THEN <<mark>>[i] ELSE text[i - Len(<<mark>>)]
      BY <1>1, ConcatProperties
    <3> HIDE DEF first, n
    <3> QED
      BY <1>1, <3>1
  <2> HIDE DEF first
  <2>2. ASSUME NEW k \in 1..n
        PROVE  first[k + 1] = text[k]
    <3>1. k + 1 \in 1..(1 + n) /\ ~(k + 1 <= 1) /\ (k + 1) - 1 = k
      BY <1>1
    <3> QED
      BY <2>1, <3>1
  <2> QED
    BY <1>1, <2>1, <2>2
<1> HIDE DEF first
<1>3. /\ line \in Seq(Byte) /\ Len(line) = (n + 1) + 2
      /\ \A i \in 1..((n + 1) + 2) : line[i] = IF i <= n + 1 THEN first[i] ELSE <<CR, LF>>[i - (n + 1)]
  <2>1. /\ line \in Seq(Byte) /\ Len(line) = Len(first) + Len(<<CR, LF>>)
        /\ \A i \in 1..(Len(first) + Len(<<CR, LF>>)) :
             line[i] = IF i <= Len(first) THEN first[i] ELSE <<CR, LF>>[i - Len(first)]
    BY <1>1, <1>2, ConcatProperties
  <2> HIDE DEF line, n
  <2> QED
    BY <1>1, <1>2, <2>1
<1> HIDE DEF line
<1>4. line[1] = mark /\ line[n + 2] = CR /\ line[n + 3] = LF /\ Len(line) = n + 3
  <2>1. /\ 1 \in 1..((n + 1) + 2) /\ 1 <= n + 1
        /\ n + 2 \in 1..((n + 1) + 2) /\ ~(n + 2 <= n + 1) /\ (n + 2) - (n + 1) = 1
        /\ n + 3 \in 1..((n + 1) + 2) /\ ~(n + 3 <= n + 1) /\ (n + 3) - (n + 1) = 2
    BY <1>1
  <2>2. line[1] = first[1] /\ line[n + 2] = <<CR, LF>>[(n + 2) - (n + 1)] /\ line[n + 3] = <<CR, LF>>[(n + 3) - (n + 1)]
    BY <1>3, <2>1
  <2> QED
    BY <1>1, <1>2, <1>3, <2>1, <2>2
<1>5. \A k \in 1..n : line[k + 1] = text[k]
  <2> TAKE k \in 1..n
  <2>1. k + 1 \in 1..((n + 1) + 2) /\ k + 1 <= n + 1
    BY <1>1
  <2> QED
    BY <1>2, <1>3, <2>1
<1>6. line = Line(mark, text)
  BY DEF line, first, Line
<1> QED
  BY <1>3, <1>4, <1>5, <1>6

(* A line that holds a number is a number line, of that number.              *)
LEMMA NumberLineStands ==
  ASSUME NEW bytes \in Seq(Byte), NEW from \in Nat, NEW to \in Nat, NEW mark \in Byte, NEW n \in Nat,
         Stands(bytes, from, to, Line(mark, Decimal(n)))
  PROVE  /\ IsNumberLine(bytes, from, to, mark)
         /\ LineText(bytes, from, to) = Decimal(n)
         /\ to = from + Len(Decimal(n)) + 3
<1> DEFINE d == Decimal(n)
           m == Len(d)
           line == Line(mark, d)
<1>1. d \in Seq(Digits) /\ d \in Seq(Byte) /\ m \in Nat \ {0}
  BY DecimalBytes
<1>2. /\ line \in Seq(Byte) /\ Len(line) = m + 3
      /\ line[1] = mark /\ line[m + 2] = CR /\ line[m + 3] = LF
      /\ \A k \in 1..m : line[k + 1] = d[k]
  <2> HIDE DEF d
  <2> QED
    BY <1>1, LineBytes
<1>3. /\ from + (m + 3) = to /\ to <= Len(bytes) /\ Len(bytes) \in Nat
      /\ \A k \in 1..(m + 3) : bytes[from + k] = line[k]
  <2>1. /\ from + Len(line) = to /\ to <= Len(bytes) /\ Len(bytes) \in Nat
        /\ \A k \in 1..Len(line) : bytes[from + k] = line[k]
    BY LenProperties DEF Stands
  <2> HIDE DEF line, m
  <2> QED
    BY <1>2, <2>1
<1> HIDE DEF line, d
<1>4. \A k \in 1..m : bytes[from + 1 + k] = d[k] /\ d[k] \in Digits
  <2> TAKE k \in 1..m
  <2>1. k + 1 \in 1..(m + 3) /\ from + (k + 1) = from + 1 + k
    BY <1>1
  <2>2. bytes[from + (k + 1)] = line[k + 1]
    BY <1>3, <2>1
  <2>3. d[k] \in Digits
    BY <1>1, ElementOfSeq
  <2> QED
    BY <1>2, <2>1, <2>2, <2>3
<1> HIDE DEF m
<1>5. \A k \in (from + 2)..(to - 2) : bytes[k] \in Digits
  <2> TAKE k \in (from + 2)..(to - 2)
  <2>1. k - from - 1 \in 1..m /\ from + 1 + (k - from - 1) = k
    BY <1>1, <1>3
  <2>2. bytes[from + 1 + (k - from - 1)] \in Digits
    BY <1>4, <2>1
  <2> QED
    BY <2>1, <2>2
<1>6. bytes[from + 1] = mark /\ bytes[to - 1] = CR /\ bytes[to] = LF
  <2>1. /\ 1 \in 1..(m + 3) /\ m + 2 \in 1..(m + 3) /\ m + 3 \in 1..(m + 3)
        /\ from + (m + 2) = to - 1 /\ from + (m + 3) = to
    BY <1>1, <1>3
  <2>2. bytes[from + 1] = line[1] /\ bytes[from + (m + 2)] = line[m + 2] /\ bytes[from + (m + 3)] = line[m + 3]
    BY <1>3, <2>1
  <2> QED
    BY <1>2, <2>1, <2>2
<1>7. from + 4 <= to
  BY <1>1, <1>3
<1>8. IsNumberLine(bytes, from, to, mark)
  <2>1. \A b \in Digits : b # CR /\ b \in Zero..(Zero + 9)
    BY DEF Digits, CR, Zero
  <2>2. \A k \in (from + 2)..(to - 2) : bytes[k] # CR /\ bytes[k] \in Zero..(Zero + 9)
    BY <1>5, <2>1
  <2> QED
    BY <1>3, <1>6, <1>7, <2>2 DEF IsNumberLine, IsLine
<1>9. LineText(bytes, from, to) = d
  <2> DEFINE t == LineText(bytes, from, to)
             a == from + 2
             b == to - 2
  <2>1. a \in Int /\ b \in Int /\ b - a + 1 = m /\ a <= b
    BY <1>1, <1>3
  <2>2. \A k \in a..b : bytes[k] \in Digits
    BY <1>5
  <2>3. t = SubSeq(bytes, a, b)
    BY DEF LineText
  <2> HIDE DEF a, b, t
  <2>4. t \in Seq(Digits) /\ Len(t) = b - a + 1 /\ \A i \in 1..(b - a + 1) : t[i] = bytes[a + i - 1]
    BY <2>1, <2>2, <2>3, SubSeqProperties
  <2>5. \A i \in 1..m : t[i] = d[i]
    <3> TAKE i \in 1..m
    <3>1. a + i - 1 = from + 1 + i
      BY <1>1 DEF a
    <3> QED
      BY <1>4, <2>1, <2>4, <3>1
  <2>6. t = d
    BY <1>1, <2>1, <2>4, <2>5, SeqEqual DEF m
  <2> QED
    BY <2>6 DEF t
<1>10. to = from + m + 3
  BY <1>1, <1>3
<1> QED
  BY <1>8, <1>9, <1>10 DEF d, m

(* A bulk string, byte for byte. *)
LEMMA BulkBytes ==
  ASSUME NEW d \in Seq(Byte)
  PROVE  /\ BulkHeader(Len(d)) \in Seq(Byte) /\ Len(BulkHeader(Len(d))) = Len(Decimal(Len(d))) + 3
         /\ BulkHeader(Len(d))[1] = Dollar
         /\ BulkHeader(Len(d)) \o d \in Seq(Byte) /\ <<CR, LF>> \in Seq(Byte)
         /\ Bulk(d) \in Seq(Byte)
         /\ Len(Bulk(d)) = Len(BulkHeader(Len(d))) + Len(d) + 2
         /\ Bulk(d)[1] = Dollar
<1> DEFINE h == BulkHeader(Len(d))
           n == Len(h)
<1>1. Len(d) \in Nat
  OBVIOUS
<1>2. h \in Seq(Byte) /\ n = Len(Decimal(Len(d))) + 3 /\ h[1] = Dollar
  <2> DEFINE digits == Decimal(Len(d))
  <2>1. digits \in Seq(Byte) /\ Dollar \in Byte
    BY <1>1, DecimalBytes DEF Dollar, Byte
  <2>2. h = Line(Dollar, digits)
    BY DEF BulkHeader
  <2> HIDE DEF h, digits
  <2>3. h \in Seq(Byte) /\ Len(h) = Len(digits) + 3 /\ h[1] = Dollar
    BY <2>1, <2>2, LineBytes
  <2> QED
    BY <2>3 DEF digits
<1>3. n \in Nat /\ n > 1
  <2>1. Len(Decimal(Len(d))) \in Nat \ {0}
    BY <1>1, DecimalBytes
  <2> HIDE DEF n
  <2> QED
    BY <1>2, <2>1
<1> DEFINE s == h \o d
           e == <<CR, LF>>
<1> HIDE DEF h
<1>4. s \in Seq(Byte) /\ Len(s) = n + Len(d) /\ s[1] = Dollar
  <2>1. /\ s \in Seq(Byte) /\ Len(s) = n + Len(d)
        /\ \A i \in 1..(n + Len(d)) : s[i] = IF i <= n THEN h[i] ELSE d[i - n]
    BY <1>2, ConcatProperties
  <2>2. 1 \in 1..(n + Len(d)) /\ 1 <= n
    BY <1>1, <1>3
  <2> HIDE DEF s, n
  <2> QED
    BY <1>2, <2>1, <2>2
<1>5. e \in Seq(Byte) /\ Len(e) = 2
  BY DEF Byte, CR, LF
<1> HIDE DEF s, e
<1>6. s \o e \in Seq(Byte) /\ Len(s \o e) = n + Len(d) + 2 /\ (s \o e)[1] = Dollar
  <2>1. /\ s \o e \in Seq(Byte) /\ Len(s \o e) = Len(s) + Len(e)
        /\ \A i \in 1..(Len(s) + Len(e)) : (s \o e)[i] = IF i <= Len(s) THEN s[i] ELSE e[i - Len(s)]
    <3>1. s \in Seq(Byte) /\ e \in Seq(Byte)
      BY <1>4, <1>5
    <3> HIDE DEF n
    <3> QED
      BY <3>1, ConcatProperties
  <2>2. 1 \in 1..(Len(s) + Len(e)) /\ 1 <= Len(s)
    BY <1>1, <1>3, <1>4, <1>5
  <2> HIDE DEF n
  <2> QED
    BY <1>4, <1>5, <2>1, <2>2
<1>7. Bulk(d) = s \o e
  BY DEF Bulk, s, e, h
<1> QED
  BY <1>2, <1>4, <1>5, <1>6, <1>7 DEF s, e, h

(* A part of a query as the parser is to read it. *)
BulkString(d) == [Empty EXCEPT !.sres = d, !.type = "bulk_str"]

(* A bulk string is the reply whose string it holds. *)
LEMMA BulkStands ==
  ASSUME NEW bytes \in Seq(Byte), NEW from \in Nat, NEW to \in Nat, NEW d \in Seq(Byte),
         Stands(bytes, from, to, Bulk(d))
  PROVE  IsBulk(bytes, from, to, BulkString(d)) /\ from < to
<1> DEFINE h == BulkHeader(Len(d))
           mid == from + Len(h)
           s == h \o d
           e == <<CR, LF>>
<1>1. /\ h \in Seq(Byte) /\ s \in Seq(Byte) /\ e \in Seq(Byte) /\ Len(d) \in Nat /\ Len(bytes) \in Nat
      /\ Len(h) \in Nat /\ Len(e) = 2
  <2>1. h \in Seq(Byte) /\ s \in Seq(Byte) /\ e \in Seq(Byte)
    BY BulkBytes
  <2> QED
    BY <2>1, LenProperties
<1>2. Stands(bytes, from, to, s \o e)
  BY DEF Bulk
<1>3. Len(s) = Len(h) + Len(d)
  BY <1>1, ConcatProperties
<1> HIDE DEF h, e
<1>4. Stands(bytes, from, from + Len(s), s) /\ Stands(bytes, from + Len(s), to, e)
  <2> HIDE DEF s
  <2> QED
    BY <1>1, <1>2, StandsBoth
<1>5. Stands(bytes, from, mid, h) /\ Stands(bytes, mid, mid + Len(d), d) /\ to = (mid + Len(d)) + 2
      /\ to <= Len(bytes) /\ mid \in Nat
  <2>1. from + Len(s) \in Nat /\ from + Len(s) = mid + Len(d) /\ mid \in Nat
    BY <1>1, <1>3
  <2>2. Stands(bytes, from, from + Len(h), h) /\ Stands(bytes, from + Len(h), from + Len(s), d)
    BY <1>1, <1>4, <2>1, StandsBoth
  <2>3. (from + Len(s)) + Len(e) = to /\ to <= Len(bytes)
    BY <1>4 DEF Stands
  <2> HIDE DEF s
  <2> QED
    BY <1>1, <2>1, <2>2, <2>3
<1> HIDE DEF s
<1>6. IsNumberLine(bytes, from, mid, Dollar) /\ Value(LineText(bytes, from, mid)) = Len(d)
  <2>1. Dollar \in Byte /\ h = Line(Dollar, Decimal(Len(d)))
    BY DEF Dollar, Byte, h, BulkHeader
  <2>2. IsNumberLine(bytes, from, mid, Dollar) /\ LineText(bytes, from, mid) = Decimal(Len(d))
    <3> HIDE DEF mid
    <3> QED
      BY <1>1, <1>5, <2>1, NumberLineStands
  <2> QED
    BY <1>1, <2>2, DecimalBytes
<1> HIDE DEF mid
<1>7. SubSeq(bytes, mid + 1, mid + Len(d)) = d
  <2> DEFINE t == SubSeq(bytes, mid + 1, mid + Len(d))
  <2>1. mid \in 0..Len(bytes) /\ mid + Len(d) \in mid..Len(bytes)
    BY <1>1, <1>5
  <2>2. \A i \in (mid + 1)..(mid + Len(d)) : bytes[i] \in Byte
    <3>1. \A i \in (mid + 1)..(mid + Len(d)) : i \in 1..Len(bytes)
      BY <1>1, <2>1
    <3> QED
      BY <3>1, ElementOfSeq
  <2>3. /\ t \in Seq(Byte)
        /\ Len(t) = IF mid + 1 <= mid + Len(d) THEN (mid + Len(d)) - (mid + 1) + 1 ELSE 0
        /\ \A i \in 1..((mid + Len(d)) - (mid + 1) + 1) : t[i] = bytes[(mid + 1) + i - 1]
    <3>1. mid + 1 \in Int /\ mid + Len(d) \in Int
      BY <1>1, <1>5
    <3> QED
      BY <2>2, <3>1, SubSeqProperties
  <2> HIDE DEF t
  <2>4. Len(t) = Len(d) /\ (mid + Len(d)) - (mid + 1) + 1 = Len(d)
    BY <1>1, <1>5, <2>3
  <2>5. \A i \in 1..Len(d) : t[i] = d[i]
    <3> TAKE i \in 1..Len(d)
    <3>1. (mid + 1) + i - 1 = mid + i
      BY <1>5
    <3>2. t[i] = bytes[mid + i]
      BY <2>3, <2>4, <3>1
    <3> QED
      BY <1>5, <3>2 DEF Stands
  <2>6. t = d
    BY <2>3, <2>4, <2>5, SeqEqual
  <2> QED
    BY <2>6 DEF t
<1>8. from <= mid
  BY <1>1 DEF mid
<1>9. mid \in from..(to - 2) /\ to - 2 - mid = Len(d) /\ from < to
  BY <1>1, <1>5, <1>8
<1> QED
  BY <1>5, <1>6, <1>7, <1>9 DEF IsBulk, BulkString

(* The texts stand one after the other, as bulk strings, at places.          *)
StandInTurn(bytes, places, texts) ==
  /\ places \in Seq(Nat) /\ Len(places) = Len(texts) + 1
  /\ \A i, j \in 1..Len(places) : i < j => places[i] < places[j]
  /\ \A i \in 1..Len(texts) : Stands(bytes, places[i], places[i + 1], Bulk(texts[i]))

(* The bytes are those of the texts. *)
Encodes(bytes, texts) ==
  /\ bytes \in Seq(Byte) /\ texts \in Seq(Seq(Byte))
  /\ \E places : /\ StandInTurn(bytes, places, texts)
                 /\ places[1] = 0 /\ places[Len(texts) + 1] = Len(bytes)

(* No bytes are the bytes of no texts. *)
LEMMA EncodesNone == Encodes(<<>>, <<>>)
<1>1. <<>> \in Seq(Byte) /\ <<>> \in Seq(Seq(Byte)) /\ Len(<<>>) = 0
  OBVIOUS
<1>2. <<0>> \in Seq(Nat) /\ Len(<<0>>) = 1 /\ <<0>>[1] = 0
  OBVIOUS
<1>3. StandInTurn(<<>>, <<0>>, <<>>) /\ <<0>>[1] = 0 /\ <<0>>[0 + 1] = 0
  BY <1>1, <1>2 DEF StandInTurn
<1> QED
  BY <1>1, <1>3 DEF Encodes

(* A bulk string more is a text more. *)
LEMMA EncodesNext ==
  ASSUME NEW bytes, NEW texts, Encodes(bytes, texts), NEW d \in Seq(Byte)
  PROVE  Encodes(bytes \o Bulk(d), Append(texts, d))
<1> DEFINE n == Len(texts)
           more == Append(texts, d)
           all == bytes \o Bulk(d)
           end == Len(bytes) + Len(Bulk(d))
<1>1. bytes \in Seq(Byte) /\ texts \in Seq(Seq(Byte)) /\ n \in Nat /\ Len(bytes) \in Nat
  BY LenProperties DEF Encodes
<1>2. PICK places : /\ StandInTurn(bytes, places, texts)
                    /\ places[1] = 0 /\ places[n + 1] = Len(bytes)
  BY DEF Encodes
<1>3. /\ places \in Seq(Nat) /\ Len(places) = n + 1
      /\ \A i, j \in 1..(n + 1) : i < j => places[i] < places[j]
      /\ \A i \in 1..n : Stands(bytes, places[i], places[i + 1], Bulk(texts[i]))
  BY <1>2 DEF StandInTurn
<1>4. Bulk(d) \in Seq(Byte) /\ Len(Bulk(d)) \in Nat /\ Len(Bulk(d)) > 0
  <2>1. Bulk(d) \in Seq(Byte) /\ Len(Bulk(d)) = Len(BulkHeader(Len(d))) + Len(d) + 2
        /\ BulkHeader(Len(d)) \in Seq(Byte)
    BY BulkBytes
  <2>2. Len(BulkHeader(Len(d))) \in Nat /\ Len(d) \in Nat
    BY <2>1, LenProperties
  <2> QED
    BY <2>1, <2>2
<1> DEFINE places2 == Append(places, end)
<1>5. all \in Seq(Byte) /\ Len(all) = end /\ end \in Nat
  BY <1>1, <1>4, ConcatProperties
<1>6. more \in Seq(Seq(Byte)) /\ Len(more) = n + 1 /\ more[n + 1] = d /\ \A i \in 1..n : more[i] = texts[i]
  BY <1>1, AppendProperties
<1> HIDE DEF end, more, n
<1>7. /\ places2 \in Seq(Nat) /\ Len(places2) = (n + 1) + 1 /\ places2[(n + 1) + 1] = end
      /\ \A i \in 1..(n + 1) : places2[i] = places[i]
  BY <1>3, <1>5, AppendProperties
<1> HIDE DEF places2
<1>8. \A i \in 1..(n + 1) : places[i] \in Nat /\ places[i] < end
  <2> TAKE i \in 1..(n + 1)
  <2>1. places[i] \in Nat
    BY <1>3, ElementOfSeq
  <2>2. n + 1 \in 1..(n + 1) /\ (i = n + 1 \/ i < n + 1)
    BY <1>1
  <2>3. places[i] <= Len(bytes)
    <3>1. CASE i = n + 1
      BY <1>1, <1>2, <3>1
    <3>2. CASE i < n + 1
      <4>1. places[i] < places[n + 1]
        BY <1>3, <2>2, <3>2
      <4> QED
        BY <1>1, <1>2, <2>1, <4>1
    <3> QED
      BY <2>2, <3>1, <3>2
  <2> QED
    BY <1>1, <1>4, <2>1, <2>3 DEF end
<1>9. ASSUME NEW i \in 1..((n + 1) + 1), NEW j \in 1..((n + 1) + 1), i < j
      PROVE  places2[i] < places2[j]
  <2>1. i \in 1..(n + 1) /\ (j \in 1..(n + 1) \/ j = (n + 1) + 1)
    BY <1>1, <1>9
  <2>2. CASE j \in 1..(n + 1)
    BY <1>3, <1>7, <1>9, <2>1, <2>2
  <2>3. CASE j = (n + 1) + 1
    BY <1>7, <1>8, <2>1, <2>3
  <2> QED
    BY <2>1, <2>2, <2>3
<1>10. ASSUME NEW i \in 1..(n + 1)
       PROVE  Stands(all, places2[i], places2[i + 1], Bulk(more[i]))
  <2>1. CASE i \in 1..n
    <3>1. i + 1 \in 1..(n + 1) /\ i \in 1..(n + 1)
      BY <1>1, <2>1
    <3>2. places[i] \in Nat /\ places[i + 1] \in Nat /\ texts[i] \in Seq(Byte)
      BY <1>1, <1>8, <2>1, <3>1, ElementOfSeq DEF n
    <3>3. Bulk(texts[i]) \in Seq(Byte)
      BY <3>2, BulkBytes
    <3>4. Stands(bytes, places[i], places[i + 1], Bulk(texts[i]))
      BY <1>3, <2>1
    <3>5. Stands(bytes \o Bulk(d), places[i], places[i + 1], Bulk(texts[i]))
      BY <1>1, <1>4, <3>2, <3>3, <3>4, StandsMore
    <3> QED
      BY <1>6, <1>7, <2>1, <3>1, <3>5
  <2>2. CASE i = n + 1
    <3> DEFINE b == Bulk(d)
    <3>1. Stands(b, 0, Len(b), b)
      BY <1>4, StandsWhole
    <3>2. b \in Seq(Byte) /\ Len(b) \in Nat
      BY <1>4
    <3> HIDE DEF b
    <3>3. Stands(bytes \o b, Len(bytes) + 0, Len(bytes) + Len(b), b)
      BY <1>1, <3>1, <3>2, StandsBehind
    <3>4. Len(bytes) + 0 = places2[i] /\ Len(bytes) + Len(b) = places2[i + 1] /\ more[i] = d
      BY <1>1, <1>2, <1>6, <1>7, <2>2 DEF end, b
    <3>5. Stands(bytes \o b, places2[i], places2[i + 1], b)
      BY <3>3, <3>4
    <3> QED
      BY <3>4, <3>5 DEF b
  <2> QED
    BY <1>1, <2>1, <2>2
<1>11. StandInTurn(all, places2, more)
  <2> HIDE DEF all
  <2> QED
    BY <1>6, <1>7, <1>9, <1>10 DEF StandInTurn
<1>12. places2[1] = 0 /\ places2[Len(more) + 1] = Len(all)
  BY <1>1, <1>2, <1>5, <1>6, <1>7
<1>13. Encodes(all, more)
  BY <1>5, <1>6, <1>11, <1>12 DEF Encodes
<1> QED
  BY <1>13 DEF more

(* The query that the server is to read. *)
ArrayOf(texts) == [Empty EXCEPT !.ares = [i \in 1..Len(texts) |-> BulkString(texts[i])]]
QueryAt(bytes, texts, places) == [replies |-> <<ArrayOf(texts)>>, bytes |-> bytes, at |-> <<places>>]

(* The bytes are a well-formed stream of one array, of the texts. *)
IsQueryOf(bytes, texts) == \E places : WellFormed(QueryAt(bytes, texts, places))

(* A stream of one reply.                                                   *)
LEMMA OneReply ==
  ASSUME NEW bytes \in Seq(Byte), NEW places, NEW v, IsReply(bytes, places, v),
         Len(places) \in Nat \ {0}, places[1] = 0, places[Len(places)] = Len(bytes)
  PROVE  WellFormed([replies |-> <<v>>, bytes |-> bytes, at |-> <<places>>])
<1> DEFINE s == [replies |-> <<v>>, bytes |-> bytes, at |-> <<places>>]
<1>1. s.bytes = bytes /\ s.replies = <<v>> /\ s.at = <<places>>
  OBVIOUS
<1>2. DOMAIN <<v>> = {1} /\ DOMAIN <<places>> = {1} /\ <<v>>[1] = v /\ <<places>>[1] = places
  OBVIOUS
<1> HIDE DEF s
<1>3. s.bytes \in Seq(0..255)
  BY <1>1 DEF Byte
<1>4. s.replies \in Seq({s.replies[r] : r \in DOMAIN s.replies})
  <2>1. {s.replies[r] : r \in DOMAIN s.replies} = {v}
    BY <1>1, <1>2
  <2>2. <<v>> \in Seq({v})
    OBVIOUS
  <2> QED
    BY <1>1, <2>1, <2>2
<1>5. DOMAIN s.at = DOMAIN s.replies
  BY <1>1, <1>2
<1>6. \A r \in DOMAIN s.at : IsReply(s.bytes, s.at[r], s.replies[r])
  BY <1>1, <1>2
<1>7. BeginOf(s, 1) = 0
  BY <1>1, <1>2 DEF BeginOf
<1>8. \A r \in DOMAIN s.at : EndOf(s, r) = BeginOf(s, r + 1)
  <2> TAKE r \in DOMAIN s.at
  <2>1. r = 1 /\ r + 1 = 2 /\ 2 \notin DOMAIN s.at
    BY <1>1, <1>2
  <2>2. EndOf(s, r) = Len(bytes)
    BY <1>1, <1>2, <2>1 DEF EndOf, Last
  <2>3. BeginOf(s, r + 1) = Len(bytes)
    BY <1>1, <2>1 DEF BeginOf
  <2> QED
    BY <2>2, <2>3
<1> QED
  BY <1>3, <1>4, <1>5, <1>6, <1>7, <1>8 DEF WellFormed, s

(* Behind a header with their number, bulk strings are an array. *)
LEMMA EncodedQuery ==
  ASSUME NEW body, NEW texts, Encodes(body, texts), Len(texts) > 0, Len(texts) < 1000
  PROVE  IsQueryOf(Line(Star, Decimal(Len(texts))) \o body, texts)
<1> DEFINE n == Len(texts)
           digits == Decimal(n)
           h == Line(Star, digits)
           bytes == h \o body
           v == ArrayOf(texts)
<1>1. body \in Seq(Byte) /\ texts \in Seq(Seq(Byte)) /\ n \in Nat /\ n > 0 /\ n < 1000 /\ Len(body) \in Nat
  BY LenProperties DEF Encodes
<1>2. PICK places0 : /\ StandInTurn(body, places0, texts)
                     /\ places0[1] = 0 /\ places0[n + 1] = Len(body)
  BY DEF Encodes
<1>3. /\ places0 \in Seq(Nat) /\ Len(places0) = n + 1
      /\ \A i, j \in 1..(n + 1) : i < j => places0[i] < places0[j]
      /\ \A i \in 1..n : Stands(body, places0[i], places0[i + 1], Bulk(texts[i]))
  BY <1>2 DEF StandInTurn
<1>4. digits \in Seq(Byte) /\ Len(digits) \in 1..3 /\ Value(digits) = n /\ digits[1] # Zero
  <2> HIDE DEF n
  <2>1. digits \in Seq(Byte) /\ Value(digits) = n /\ digits[1] # Zero
    <3>1. n \in Nat /\ n > 0
      BY <1>1
    <3> QED
      BY ONLY <3>1, DecimalBytes DEF digits
  <2>2. Len(digits) = IF n < 10 THEN 1 ELSE IF n < 100 THEN 2 ELSE 3
    BY <1>1, ShortDecimal
  <2> HIDE DEF digits
  <2> QED
    BY <1>1, <2>1, <2>2
<1>5. Star \in Byte
  BY DEF Star, Byte
<1> HIDE DEF digits
<1>6. h \in Seq(Byte) /\ Len(h) = Len(digits) + 3 /\ h[2] = digits[1]
  <2>1. /\ h \in Seq(Byte) /\ Len(h) = Len(digits) + 3
        /\ \A k \in 1..Len(digits) : h[k + 1] = digits[k]
    BY <1>4, <1>5, LineBytes
  <2>2. 1 \in 1..Len(digits) /\ 1 + 1 = 2
    BY <1>4
  <2> HIDE DEF h
  <2>3. h[1 + 1] = digits[1]
    BY <2>1, <2>2
  <2> QED
    BY <2>1, <2>2, <2>3
<1> DEFINE b == Len(h)
<1> HIDE DEF h
<1>7. b \in 4..6
  <2>1. Len(h) = Len(digits) + 3
    BY <1>6
  <2>2. Len(digits) = 1 \/ Len(digits) = 2 \/ Len(digits) = 3
    BY <1>4
  <2>3. CASE Len(digits) = 1
    BY <2>1, <2>3
  <2>4. CASE Len(digits) = 2
    BY <2>1, <2>4
  <2>5. CASE Len(digits) = 3
    BY <2>1, <2>5
  <2> QED
    BY <2>2, <2>3, <2>4, <2>5
<1>8. bytes \in Seq(Byte) /\ Len(bytes) = b + Len(body)
  BY <1>1, <1>6, ConcatProperties
<1> DEFINE places == [i \in 1..(n + 2) |-> IF i = 1 THEN 0 ELSE b + places0[i - 1]]
<1> HIDE DEF n, b
<1>9. \A i \in 1..(n + 1) : places0[i] \in Nat /\ places[i + 1] = b + places0[i]
  <2> TAKE i \in 1..(n + 1)
  <2>1. i + 1 \in 1..(n + 2) /\ i + 1 # 1 /\ (i + 1) - 1 = i
    BY <1>1
  <2>2. places0[i] \in Nat
    BY <1>3, ElementOfSeq
  <2> QED
    BY <2>1, <2>2
<1>10. places[1] = 0 /\ places[2] = b /\ places[n + 2] = Len(bytes)
  <2>1. 1 \in 1..(n + 2) /\ 1 \in 1..(n + 1) /\ n + 1 \in 1..(n + 1) /\ 1 + 1 = 2 /\ (n + 1) + 1 = n + 2
    BY <1>1
  <2>2. places[1] = 0 /\ places[1 + 1] = b + places0[1] /\ places[(n + 1) + 1] = b + places0[n + 1]
    BY <1>9, <2>1
  <2> HIDE DEF places, bytes
  <2> QED
    BY <1>2, <1>7, <1>8, <2>1, <2>2
<1>11. places \in Seq(Nat) /\ Len(places) = n + 2 /\ DOMAIN places = 1..(n + 2)
  <2>1. ASSUME NEW i \in 1..(n + 2)
        PROVE  places[i] \in Nat
    <3>1. i = 1 \/ (i - 1 \in 1..(n + 1) /\ (i - 1) + 1 = i)
      BY <1>1
    <3>2. CASE i = 1
      BY <1>10, <3>2
    <3>3. CASE i - 1 \in 1..(n + 1) /\ (i - 1) + 1 = i
      <4>1. places0[i - 1] \in Nat /\ places[(i - 1) + 1] = b + places0[i - 1]
        BY <1>9, <3>3
      <4> HIDE DEF places
      <4> QED
        BY <1>7, <3>3, <4>1
    <3> QED
      BY <3>1, <3>2, <3>3
  <2>2. places = [i \in 1..(n + 2) |-> places[i]] /\ n + 2 \in Nat
    BY <1>1
  <2> HIDE DEF places
  <2> QED
    BY <2>1, <2>2
<1> HIDE DEF places
<1>12. ASSUME NEW i \in DOMAIN places, NEW j \in DOMAIN places, i < j
       PROVE  places[i] < places[j]
  <2>0. i \in 1..(n + 2) /\ j \in 1..(n + 2)
    BY <1>11
  <2>1. j - 1 \in 1..(n + 1) /\ (j - 1) + 1 = j /\ (i = 1 \/ (i - 1 \in 1..(n + 1) /\ (i - 1) + 1 = i))
    BY <1>1, <1>12, <2>0
  <2>2. places[j] = b + places0[j - 1] /\ places0[j - 1] \in Nat
    BY <1>9, <2>1
  <2>3. CASE i = 1
    BY <1>7, <1>10, <2>2, <2>3
  <2>4. CASE i - 1 \in 1..(n + 1) /\ (i - 1) + 1 = i
    <3>1. places[i] = b + places0[i - 1] /\ places0[i - 1] \in Nat
      BY <1>9, <2>4
    <3>2. i - 1 < j - 1
      BY <1>11, <1>12
    <3>3. places0[i - 1] < places0[j - 1]
      BY <1>3, <2>1, <2>4, <3>2
    <3> QED
      BY <1>7, <2>2, <3>1, <3>3
  <2> QED
    BY <2>1, <2>3, <2>4
<1>13. IsHeader(bytes, places[1], places[2], n)
  <2>1. Stands(h, 0, b, h) /\ b \in Nat
    BY <1>6, <1>7, StandsWhole DEF b
  <2>2. Stands(bytes, 0, b, h)
    BY <1>1, <1>6, <2>1, StandsMore
  <2>3. /\ IsNumberLine(bytes, 0, b, Star) /\ LineText(bytes, 0, b) = digits
    <3>1. Stands(bytes, 0, b, Line(Star, Decimal(n)))
      BY <2>2 DEF h, digits
    <3> HIDE DEF bytes
    <3> QED
      BY <1>1, <1>5, <1>8, <2>1, <3>1, NumberLineStands DEF digits
  <2>4. bytes[0 + 2] # Zero
    <3>1. bytes[0 + 2] = h[2]
      <4>1. 2 \in 1..Len(h)
        BY <1>7 DEF b
      <4> QED
        BY <2>2, <4>1 DEF Stands
    <3> QED
      BY <1>4, <1>6, <3>1
  <2> HIDE DEF bytes
  <2> QED
    BY <1>4, <1>7, <1>10, <2>3, <2>4 DEF IsHeader
<1>14. ASSUME NEW i \in 1..n
       PROVE  IsFlat(bytes, places[i + 1], places[i + 2], BulkString(texts[i]))
  <2>1. i \in 1..(n + 1) /\ i + 1 \in 1..(n + 1) /\ (i + 1) + 1 = i + 2
    BY <1>1
  <2>2. places0[i] \in Nat /\ places0[i + 1] \in Nat /\ texts[i] \in Seq(Byte)
    BY <1>1, <1>9, <2>1, ElementOfSeq DEF n
  <2>3. places[i + 1] = b + places0[i] /\ places[i + 2] = b + places0[i + 1]
    BY <1>9, <2>1
  <2> DEFINE t == Bulk(texts[i])
  <2>4. t \in Seq(Byte) /\ Stands(body, places0[i], places0[i + 1], t)
    BY <1>3, <2>2, BulkBytes
  <2>5. Stands(bytes, places[i + 1], places[i + 2], t)
    <3> HIDE DEF t
    <3>1. Stands(h \o body, Len(h) + places0[i], Len(h) + places0[i + 1], t)
      BY <1>1, <1>6, <2>2, <2>4, StandsBehind
    <3> QED
      BY <2>3, <3>1 DEF b
  <2>6. places[i + 1] \in Nat /\ places[i + 2] \in Nat
    BY <1>7, <2>2, <2>3
  <2>7. IsBulk(bytes, places[i + 1], places[i + 2], BulkString(texts[i]))
    <3> HIDE DEF bytes
    <3> QED
      BY <1>8, <2>2, <2>5, <2>6, BulkStands
  <2> QED
    BY <2>7 DEF IsFlat
<1>15. IsArray(bytes, places, v)
  <2> DEFINE ares == [i \in 1..n |-> BulkString(texts[i])]
  <2>1. v = [Empty EXCEPT !.ares = ares] /\ v.ares = ares
    BY DEF ArrayOf, Empty, n
  <2>2. DOMAIN ares = 1..n /\ Len(ares) = n /\ \A i \in 1..n : ares[i] = BulkString(texts[i])
    BY <1>1
  <2>3. ares # <<>> /\ ares \in Seq({ares[i] : i \in DOMAIN ares})
    <3>1. \A i \in 1..n : ares[i] \in {ares[k] : k \in 1..n}
      OBVIOUS
    <3>2. ares = [i \in 1..n |-> ares[i]]
      OBVIOUS
    <3>3. {ares[i] : i \in DOMAIN ares} = {ares[i] : i \in 1..n}
      BY <2>2
    <3> DEFINE S == {ares[i] : i \in 1..n}
    <3>4. \A i \in 1..n : ares[i] \in S
      BY <3>1
    <3> HIDE DEF ares, S
    <3>5. ares \in Seq(S)
      <4>1. n \in Nat
        BY <1>1
      <4> HIDE DEF n
      <4> QED
        BY ONLY <3>2, <3>4, <4>1
    <3>6. ares # <<>>
      BY <1>1, <2>2
    <3> QED
      BY <3>3, <3>5, <3>6 DEF S
  <2> HIDE DEF ares, v, bytes
  <2> QED
    BY <1>11, <1>13, <1>14, <2>1, <2>2, <2>3 DEF IsArray
<1>16. IsReply(bytes, places, v)
  <2> HIDE DEF bytes, v
  <2> QED
    BY <1>11, <1>12, <1>15 DEF IsReply
<1>17. WellFormed([replies |-> <<v>>, bytes |-> bytes, at |-> <<places>>])
  <2>1. Len(places) \in Nat \ {0} /\ places[Len(places)] = Len(bytes)
    BY <1>1, <1>10, <1>11
  <2> HIDE DEF bytes, v
  <2> QED
    BY <1>8, <1>10, <1>16, <2>1, OneReply
<1> QED
  BY <1>17 DEF IsQueryOf, QueryAt, h, digits, n

-----------------------------------------------------------------------------
(* What the general constructor builds.                                     *)

Query == [text : Seq(Byte), ext : Seq(ExtBuff), pcount : Nat]

(* Behind the reserved bytes, the query that is built has a text and places  *)
(* of direct data, which together make the texts it has been given.         *)
Building(q, texts) ==
  \E body, ext :
    /\ Fits(ext, body)
    /\ q.text = Reserved.text \o body
    /\ q.ext = Moved(ext, query_pref_max_size)
    /\ Encodes(Sent(body, ext), texts)
    /\ body = <<>> \/ body[1] = Dollar
    /\ texts # <<>> => body # <<>>

IsBuilding(q, texts) == q \in Query /\ q.pcount = Len(texts) /\ Building(q, texts)

(* The room for the header. *)
LEMMA ReservedRoom == Reserved.text \in Seq(Byte) /\ Len(Reserved.text) = query_pref_max_size
<1>1. Reserved.text = [k \in 1..13 |-> 0]
  BY DEF Reserved, query_pref_max_size
<1>2. 0 \in Byte
  BY DEF Byte
<1> QED
  BY <1>1, <1>2 DEF query_pref_max_size

(* The constructor begins with no texts. *)
LEMMA BuildingNone == IsBuilding(Reserved, <<>>)
<1>1. Fits(<<>>, <<>>)
  <2>1. <<>> \in Seq(Byte) /\ <<>> \in Seq(ExtBuff) /\ Len(<<>>) = 0
    OBVIOUS
  <2> QED
    BY <2>1 DEF Fits
<1>2. Sent(<<>>, <<>>) = <<>>
  <2>1. Len(<<>>) = 0 /\ prev_pos(<<>>, 0) = 0
    BY DEF prev_pos
  <2>2. Pieces(<<>>, <<>>)[0] = <<>>
    BY <1>1, PiecesFacts
  <2>3. SubSeq(<<>>, 0 + 1, 0) = <<>>
    BY SubSeqEmpty
  <2>4. <<>> \o <<>> = <<>>
    OBVIOUS
  <2> QED
    BY <2>1, <2>2, <2>3, <2>4 DEF Sent
<1>3. Reserved.text \o <<>> = Reserved.text
  BY ReservedRoom, ConcatEmptySeq
<1>4. Reserved.ext = <<>> /\ Reserved.pcount = 0 /\ Len(<<>>) = 0
  BY DEF Reserved
<1>5. Moved(<<>>, query_pref_max_size) = <<>>
  BY DEF Moved
<1>6. Building(Reserved, <<>>)
  BY <1>1, <1>2, <1>3, <1>4, <1>5, EncodesNone DEF Building
<1>7. Reserved \in Query
  <2> DEFINE z == Reserved.text
  <2>1. Reserved = [text |-> z, ext |-> <<>>, pcount |-> 0]
    BY DEF Reserved
  <2>2. <<>> \in Seq(ExtBuff) /\ z \in Seq(Byte)
    BY ReservedRoom
  <2> HIDE DEF z
  <2> QED
    BY <2>1, <2>2 DEF Query
<1> QED
  BY <1>4, <1>6, <1>7 DEF IsBuilding

(* The first byte of what begins with a text. *)
LEMMA FirstOfBoth ==
  ASSUME NEW s \in Seq(Byte), NEW t \in Seq(Byte)
  PROVE  /\ s # <<>> => (s \o t)[1] = s[1]
         /\ s = <<>> => s \o t = t
         /\ t # <<>> => s \o t # <<>>
<1>1. /\ Len(s \o t) = Len(s) + Len(t) /\ Len(s) \in Nat /\ Len(t) \in Nat
      /\ \A i \in 1..(Len(s) + Len(t)) : (s \o t)[i] = IF i <= Len(s) THEN s[i] ELSE t[i - Len(s)]
  BY ConcatProperties, LenProperties
<1>2. s # <<>> => (s \o t)[1] = s[1]
  <2>1. s # <<>> => Len(s) > 0
    BY EmptySeq
  <2> QED
    BY <1>1, <2>1
<1>3. s = <<>> => s \o t = t
  BY ConcatEmptySeq
<1>4. t # <<>> => s \o t # <<>>
  BY ConcatEqualIffEmpty
<1> QED
  BY <1>2, <1>3, <1>4

(* A text of the body, which is a bulk string, is sent as it is. *)
LEMMA TextBuilt ==
  ASSUME NEW q, NEW texts, IsBuilding(q, texts), NEW d \in Seq(Byte), NEW r,
         r = [q EXCEPT !.text = @ \o Bulk(d), !.pcount = @ + 1]
  PROVE  IsBuilding(r, Append(texts, d))
<1> DEFINE b == Bulk(d)
<1>1. q \in Query /\ q.pcount = Len(texts) /\ Building(q, texts)
  BY DEF IsBuilding
<1>2. b \in Seq(Byte) /\ b # <<>> /\ b[1] = Dollar
  <2>1. b \in Seq(Byte) /\ b[1] = Dollar /\ Len(b) = Len(BulkHeader(Len(d))) + Len(d) + 2
        /\ BulkHeader(Len(d)) \in Seq(Byte)
    BY BulkBytes
  <2>2. Len(BulkHeader(Len(d))) \in Nat /\ Len(d) \in Nat
    BY <2>1, LenProperties
  <2> HIDE DEF b
  <2>3. Len(b) > 0
    BY <2>1, <2>2
  <2>4. b # <<>>
    BY <2>3
  <2> QED
    BY <2>1, <2>4
<1>3. PICK body, ext :
        /\ Fits(ext, body)
        /\ q.text = Reserved.text \o body
        /\ q.ext = Moved(ext, query_pref_max_size)
        /\ Encodes(Sent(body, ext), texts)
        /\ body = <<>> \/ body[1] = Dollar
        /\ texts # <<>> => body # <<>>
  BY <1>1 DEF Building
<1>4. body \in Seq(Byte)
  BY <1>3 DEF Fits
<1>5. texts \in Seq(Seq(Byte)) /\ Len(Append(texts, d)) = Len(texts) + 1
  <2>1. texts \in Seq(Seq(Byte))
    BY <1>3 DEF Encodes
  <2> QED
    BY <2>1, AppendProperties
<1>6. r.text = q.text \o b /\ r.ext = q.ext /\ r.pcount = q.pcount + 1 /\ r \in Query
  <2>1. q.text \o b \in Seq(Byte) /\ q.pcount + 1 \in Nat
    <3>1. q.text \in Seq(Byte) /\ q.pcount \in Nat
      BY <1>1 DEF Query
    <3> HIDE DEF b
    <3> QED
      BY <1>2, <3>1, ConcatProperties
  <2> HIDE DEF b
  <2>2. r = [q EXCEPT !.text = q.text \o b, !.pcount = q.pcount + 1]
    BY DEF b
  <2> QED
    BY <1>1, <2>1, <2>2 DEF Query
<1> HIDE DEF b
<1>7. Fits(ext, body \o b)
  BY <1>2, <1>3, FitsMore
<1>8. r.text = Reserved.text \o (body \o b)
  <2> DEFINE z == Reserved.text
  <2>1. z \in Seq(Byte) /\ body \in Seq(Byte) /\ b \in Seq(Byte)
    BY <1>2, <1>4, ReservedRoom
  <2> HIDE DEF z
  <2>2. (z \o body) \o b = z \o (body \o b)
    BY <2>1, ConcatAssociative
  <2> QED
    BY <1>3, <1>6, <2>2 DEF z
<1>9. Encodes(Sent(body \o b, ext), Append(texts, d))
  <2>1. Sent(body \o b, ext) = Sent(body, ext) \o b
    BY <1>2, <1>3, SentMore
  <2> QED
    BY <1>3, <2>1, EncodesNext DEF b
<1>10. body \o b # <<>> /\ (body \o b)[1] = Dollar
  <2>1. CASE body = <<>>
    BY <1>2, <1>4, <2>1, FirstOfBoth
  <2>2. CASE body # <<>>
    BY <1>2, <1>3, <1>4, <2>2, FirstOfBoth
  <2> QED
    BY <2>1, <2>2
<1>11. Building(r, Append(texts, d))
  BY <1>3, <1>6, <1>7, <1>8, <1>9, <1>10 DEF Building
<1> QED
  BY <1>1, <1>5, <1>6, <1>11 DEF IsBuilding

(* Direct data is a bulk string of which the text holds all but the data.    *)
LEMMA DirectBuilt ==
  ASSUME NEW q, NEW texts, IsBuilding(q, texts), NEW d \in Seq(Byte)
  PROVE  IsBuilding(AddDirect(q, d), Append(texts, d))
<1> DEFINE h == BulkHeader(Len(d))
           e == <<CR, LF>>
           r == AddDirect(q, d)
<1>1. q \in Query /\ q.pcount = Len(texts) /\ Building(q, texts)
  BY DEF IsBuilding
<1>2. /\ h \in Seq(Byte) /\ e \in Seq(Byte) /\ h # <<>> /\ h[1] = Dollar /\ Len(e) = 2
      /\ Bulk(d) = (h \o d) \o e
  <2>1. h \in Seq(Byte) /\ e \in Seq(Byte) /\ h[1] = Dollar /\ Len(h) = Len(Decimal(Len(d))) + 3
    BY BulkBytes
  <2>2. Len(d) \in Nat /\ Len(e) = 2
    OBVIOUS
  <2>3. Len(Decimal(Len(d))) \in Nat
    BY <2>2, DecimalBytes
  <2>4. Bulk(d) = (h \o d) \o e
    BY DEF Bulk
  <2> HIDE DEF h, e
  <2>5. h # <<>>
    <3>1. Len(h) > 0
      BY <2>1, <2>3
    <3> QED
      BY <3>1
  <2> QED
    BY <2>1, <2>2, <2>4, <2>5
<1>3. PICK body, ext :
        /\ Fits(ext, body)
        /\ q.text = Reserved.text \o body
        /\ q.ext = Moved(ext, query_pref_max_size)
        /\ Encodes(Sent(body, ext), texts)
        /\ body = <<>> \/ body[1] = Dollar
        /\ texts # <<>> => body # <<>>
  BY <1>1 DEF Building
<1>4. body \in Seq(Byte) /\ ext \in Seq(ExtBuff) /\ Len(body) \in Nat
  BY <1>3, LenProperties DEF Fits
<1>5. texts \in Seq(Seq(Byte)) /\ Len(Append(texts, d)) = Len(texts) + 1
  <2>1. texts \in Seq(Seq(Byte))
    BY <1>3 DEF Encodes
  <2> QED
    BY <2>1, AppendProperties
<1> DEFINE body1 == body \o h
           body2 == body1 \o e
           new == [pos |-> Len(body1), data |-> d]
           ext2 == Append(ext, new)
           text2 == (q.text \o h) \o e
<1>6. /\ r.text = text2 /\ r.ext = Append(q.ext, [pos |-> Len(text2) - 2, data |-> d])
      /\ r.pcount = q.pcount + 1 /\ r = [text |-> r.text, ext |-> r.ext, pcount |-> r.pcount]
  BY DEF AddDirect
<1> HIDE DEF h, e, r
<1>7. body1 \in Seq(Byte) /\ Len(body1) = Len(body) + Len(h) /\ Len(h) \in Nat /\ Len(body1) \in Nat
  <2>1. body1 \in Seq(Byte) /\ Len(body1) = Len(body) + Len(h) /\ Len(h) \in Nat
    BY <1>2, <1>4, ConcatProperties, LenProperties
  <2> QED
    BY <1>4, <2>1
<1>8. text2 = Reserved.text \o body2 /\ text2 \in Seq(Byte) /\ Len(text2) - 2 = Len(body1) + query_pref_max_size
  <2> DEFINE z == Reserved.text
  <2>1. z \in Seq(Byte) /\ Len(z) = query_pref_max_size
    BY ReservedRoom
  <2> HIDE DEF z
  <2>a. z \in Seq(Byte) /\ body \in Seq(Byte) /\ h \in Seq(Byte)
    BY <1>2, <1>4, <2>1
  <2>b. (z \o body) \o h = z \o (body \o h)
    BY <2>a, ConcatAssociative
  <2>2. (z \o body) \o h = z \o body1
    BY <2>b
  <2> HIDE DEF body1
  <2>c. z \in Seq(Byte) /\ body1 \in Seq(Byte) /\ e \in Seq(Byte)
    BY <1>2, <1>7, <2>1
  <2>d. (z \o body1) \o e = z \o (body1 \o e)
    BY <2>c, ConcatAssociative
  <2>3. (z \o body1) \o e = z \o body2
    BY <2>d
  <2>4. text2 = z \o body2
    BY <1>3, <2>2, <2>3 DEF z
  <2>5. body2 \in Seq(Byte) /\ Len(body2) = Len(body1) + Len(e)
    BY <1>2, <1>7, ConcatProperties
  <2> HIDE DEF body2, text2
  <2>6. text2 \in Seq(Byte) /\ Len(text2) = query_pref_max_size + Len(body2)
    BY <2>1, <2>4, <2>5, ConcatProperties
  <2>7. Len(text2) - 2 = Len(body1) + query_pref_max_size
    BY <1>2, <1>7, <2>5, <2>6 DEF query_pref_max_size
  <2> QED
    BY <2>4, <2>6, <2>7 DEF z
<1> HIDE DEF text2
<1>9. Fits(ext, body1) /\ Sent(body1, ext) = Sent(body, ext) \o h
  BY <1>2, <1>3, FitsMore, SentMore
<1> HIDE DEF body1
<1>10. Fits(ext2, body2) /\ Sent(body2, ext2) = (Sent(body1, ext) \o d) \o e
  <2>1. Fits(ext, body1) /\ d \in Seq(Byte) /\ e \in Seq(Byte)
    BY <1>2, <1>9
  <2>2. SentBehind(body1, ext, d, e)
    BY <2>1, SentDirect
  <2> QED
    BY <2>2 DEF SentBehind
<1>11. Sent(body2, ext2) = Sent(body, ext) \o Bulk(d)
  <2> DEFINE s == Sent(body, ext)
  <2>1. s \in Seq(Byte)
    BY <1>3, SentFacts
  <2> HIDE DEF s
  <2>2. h \in Seq(Byte) /\ d \in Seq(Byte) /\ e \in Seq(Byte)
    BY <1>2
  <2>3. (s \o h) \o d = s \o (h \o d)
    BY ONLY <2>1, <2>2, ConcatAssociative
  <2> DEFINE hd == h \o d
  <2>4. hd \in Seq(Byte)
    BY ONLY <2>2, ConcatProperties
  <2> HIDE DEF hd
  <2>5. s \in Seq(Byte) /\ hd \in Seq(Byte) /\ e \in Seq(Byte)
    BY <2>1, <2>2, <2>4
  <2>6. (s \o hd) \o e = s \o (hd \o e)
    BY ONLY <2>5, ConcatAssociative
  <2> QED
    BY <1>2, <1>9, <1>10, <2>3, <2>6 DEF s, hd
<1>12. Encodes(Sent(body2, ext2), Append(texts, d))
  BY <1>3, <1>11, EncodesNext
<1>13. r.ext = Moved(ext2, query_pref_max_size) /\ r.ext \in Seq(ExtBuff)
  <2> DEFINE m == query_pref_max_size
             old == Moved(ext, m)
             n == Len(ext)
             last == [pos |-> Len(text2) - 2, data |-> d]
  <2>1. n \in Nat /\ DOMAIN ext = 1..n /\ m \in Nat
    BY <1>4, LenProperties DEF query_pref_max_size
  <2>2. old \in Seq(ExtBuff) /\ Len(old) = n /\ \A i \in 1..n : old[i] = [ext[i] EXCEPT !.pos = @ + m]
    <3>1. old \in Seq(ExtBuff)
      BY <1>1, <1>3 DEF Query
    <3>2. Len(old) = n
      BY <1>3, ReservedRoom, FitsMoved
    <3>3. \A i \in 1..n : old[i] = [ext[i] EXCEPT !.pos = @ + m]
      BY <2>1 DEF Moved
    <3> QED
      BY <3>1, <3>2, <3>3
  <2>3. new \in ExtBuff /\ last \in ExtBuff /\ last = [new EXCEPT !.pos = @ + m]
    <3>1. Len(text2) - 2 = Len(body1) + m
      BY <1>8
    <3> HIDE DEF m
    <3>2. Len(body1) + m \in Nat
      BY <1>7, <2>1
    <3>3. last = [pos |-> Len(body1) + m, data |-> d]
      BY <3>1
    <3> QED
      BY <1>7, <3>2, <3>3 DEF ExtBuff
  <2> HIDE DEF old, new, last, m, n
  <2>4. r.ext = Append(old, last)
    BY <1>3, <1>6 DEF old, last, m
  <2>5. /\ Append(old, last) \in Seq(ExtBuff) /\ Len(Append(old, last)) = n + 1
        /\ Append(old, last)[n + 1] = last /\ \A i \in 1..n : Append(old, last)[i] = old[i]
    BY <2>2, <2>3, AppendProperties
  <2>6. /\ ext2 \in Seq(ExtBuff) /\ Len(ext2) = n + 1 /\ ext2[n + 1] = new
        /\ \A i \in 1..n : ext2[i] = ext[i]
    BY <1>4, <2>3, AppendProperties DEF n
  <2> HIDE DEF ext2
  <2> DEFINE app == Append(old, last)
  <2> HIDE DEF app
  <2>7. \A i \in 1..(n + 1) : app[i] = [ext2[i] EXCEPT !.pos = @ + m]
    <3> TAKE i \in 1..(n + 1)
    <3>1. i \in 1..n \/ i = n + 1
      BY <2>1
    <3>2. CASE i \in 1..n
      BY <2>2, <2>5, <2>6, <3>2 DEF app
    <3>3. CASE i = n + 1
      BY <2>3, <2>5, <2>6, <3>3 DEF app
    <3> QED
      BY <3>1, <3>2, <3>3
  <2>a. app \in Seq(ExtBuff) /\ Len(app) = n + 1
    BY <2>5 DEF app
  <2>b. DOMAIN app = 1..(n + 1) /\ DOMAIN ext2 = 1..(n + 1)
    BY <2>6, <2>a, LenProperties
  <2>c. app = [i \in DOMAIN app |-> app[i]]
    BY <2>a
  <2>8. DOMAIN app = 1..(n + 1) /\ DOMAIN ext2 = 1..(n + 1) /\ app = [i \in 1..(n + 1) |-> app[i]]
    BY <2>b, <2>c
  <2>9. app = Moved(ext2, m)
    BY <2>7, <2>8 DEF Moved
  <2> QED
    BY <2>4, <2>5, <2>9 DEF app, m
<1>14. body2 # <<>> /\ body2[1] = Dollar
  <2>1. body1 # <<>> /\ body1[1] = Dollar
    <3>1. CASE body = <<>>
      BY <1>2, <1>4, <3>1, FirstOfBoth DEF body1
    <3>2. CASE body # <<>>
      BY <1>2, <1>3, <1>4, <3>2, FirstOfBoth DEF body1
    <3> QED
      BY <3>1, <3>2
  <2>2. e # <<>>
    BY DEF e
  <2>3. body1 \in Seq(Byte) /\ e \in Seq(Byte)
    BY <1>2, <1>7
  <2>4. (body1 \o e)[1] = body1[1] /\ body1 \o e # <<>>
    BY <2>1, <2>2, <2>3, FirstOfBoth
  <2> QED
    BY <2>1, <2>4
<1> HIDE DEF ext2, body2
<1>15. Building(r, Append(texts, d))
  BY <1>6, <1>8, <1>10, <1>12, <1>13, <1>14 DEF Building
<1>16. r \in Query
  <2>1. r.pcount \in Nat
    BY <1>1, <1>6 DEF Query
  <2> QED
    BY <1>6, <1>8, <1>13, <2>1 DEF Query
<1>17. IsBuilding(r, Append(texts, d))
  BY <1>1, <1>5, <1>6, <1>15, <1>16 DEF IsBuilding
<1> QED
  BY <1>17 DEF r

(* A C string: the bytes before the first zero byte, none of which is zero,  *)
(* and the whole text when there is none.                                   *)
LEMMA CTextFacts ==
  ASSUME NEW s \in Seq(Byte)
  PROVE  CText(s) \in Seq(Byte) /\ ((\A i \in 1..Len(s) : s[i] # 0) => CText(s) = s)
<1> DEFINE I == {i \in 1..Len(s) : s[i] = 0}
           zero == SelectInSeq(s, LAMBDA c : c = 0)
<1>1. zero = IF I # {} THEN Min(I) ELSE 0
  BY DEF SelectInSeq
<1>2. CText(s) = IF zero = 0 THEN s ELSE SubSeq(s, 1, zero - 1)
  BY DEF CText
<1>3. Len(s) \in Nat /\ \A i \in 1..Len(s) : s[i] \in Byte
  BY LenProperties, ElementOfSeq
<1> HIDE DEF zero
<1>4. CASE I = {}
  <2>1. CText(s) = s
    BY <1>1, <1>2, <1>4
  <2> QED
    BY <2>1
<1>5. CASE I # {}
  <2>1. I \subseteq Nat
    BY <1>3
  <2>2. \E x \in I : \A y \in I : x <= y
    <3> HIDE DEF I
    <3> QED
      BY <1>5, <2>1, LeastElement
  <2>3. Min(I) \in I
    <3> HIDE DEF I
    <3> QED
      BY <2>2 DEF Min
  <2>4. zero \in 1..Len(s) /\ s[zero] = 0
    BY <1>1, <1>5, <2>3
  <2>5. zero # 0 /\ 1 \in Int /\ zero - 1 \in Int /\ \A i \in 1..(zero - 1) : s[i] \in Byte
    BY <1>3, <2>4
  <2>6. SubSeq(s, 1, zero - 1) \in Seq(Byte)
    BY <2>5, SubSeqProperties
  <2> QED
    BY <1>2, <2>4, <2>5, <2>6
<1> QED
  BY <1>4, <1>5

(* The text of a number is passed whole. *)
LEMMA NumberText ==
  ASSUME NEW n \in Int
  PROVE  ToText(n) \in Seq(Byte) /\ CText(ToText(n)) = ToText(n)
<1> DEFINE Plain == {s \in Seq(Byte) : \A i \in 1..Len(s) : s[i] # 0}
<1>1. ASSUME NEW m \in Nat
      PROVE  Decimal(m) \in Plain
  <2> DEFINE d == Decimal(m)
  <2>1. d \in Seq(Digits) /\ d \in Seq(Byte)
    BY DecimalBytes
  <2> HIDE DEF d
  <2>2. \A i \in 1..Len(d) : d[i] # 0
    BY <2>1, ElementOfSeq DEF Digits, Zero
  <2> QED
    BY <2>1, <2>2 DEF d
<1>2. ToText(n) \in Plain
  <2>1. CASE n >= 0
    <3>1. n \in Nat /\ ~(n < 0)
      BY <2>1
    <3> QED
      BY <1>1, <3>1 DEF ToText
  <2>2. CASE n < 0
    <3> DEFINE d == Decimal(-n)
               m == <<Minus>>
    <3>1. -n \in Nat
      BY <2>2
    <3>2. d \in Plain
      BY <1>1, <3>1
    <3>3. m \in Seq(Byte) /\ Len(m) = 1 /\ m[1] # 0
      BY DEF Byte, Minus
    <3> HIDE DEF d, m
    <3>4. /\ m \o d \in Seq(Byte) /\ Len(m \o d) = Len(m) + Len(d)
          /\ \A i \in 1..(Len(m) + Len(d)) : (m \o d)[i] = IF i <= Len(m) THEN m[i] ELSE d[i - Len(m)]
      BY <3>2, <3>3, ConcatProperties
    <3>5. Len(d) \in Nat
      BY <3>2, LenProperties
    <3>6. ASSUME NEW i \in 1..Len(m \o d)
          PROVE  (m \o d)[i] # 0
      <4>1. i = 1 \/ (~(i <= 1) /\ i - 1 \in 1..Len(d))
        BY <3>3, <3>4, <3>5
      <4>2. i \in 1..(Len(m) + Len(d))
        BY <3>4
      <4> QED
        BY <3>2, <3>3, <3>4, <4>1, <4>2
    <3>7. ToText(n) = m \o d
      BY <2>2 DEF ToText, m, d
    <3> QED
      BY <3>4, <3>6, <3>7
  <2> QED
    BY <2>1, <2>2
<1> QED
  BY <1>2, CTextFacts

(* A text is one text more. *)
LEMMA PartBuilt ==
  ASSUME NEW q, NEW texts, IsBuilding(q, texts), NEW part \in Seq(Byte)
  PROVE  IsBuilding(add_query_part(q, part), Append(texts, CText(part)))
<1>1. CText(part) \in Seq(Byte)
  BY CTextFacts
<1>2. add_query_part(q, part) = [q EXCEPT !.text = @ \o Bulk(CText(part)), !.pcount = @ + 1]
  BY DEF add_query_part
<1> QED
  BY <1>1, <1>2, TextBuilt

(* add_query_part makes a query of a query. *)
LEMMA PartIsQuery ==
  ASSUME NEW q \in Query, NEW part \in Seq(Byte)
  PROVE  add_query_part(q, part) \in Query
<1> DEFINE b == Bulk(CText(part))
<1>1. b \in Seq(Byte)
  BY CTextFacts, BulkBytes
<1> HIDE DEF b
<1>2. q.text \in Seq(Byte) /\ q.pcount \in Nat
  BY DEF Query
<1>3. q.text \o b \in Seq(Byte) /\ q.pcount + 1 \in Nat
  BY <1>1, <1>2, ConcatProperties
<1>4. add_query_part(q, part) = [q EXCEPT !.text = q.text \o b, !.pcount = q.pcount + 1]
  BY DEF add_query_part, b
<1> QED
  BY <1>3, <1>4 DEF Query

(* AddDirect makes a query of a query. *)
LEMMA DirectIsQuery ==
  ASSUME NEW q \in Query, NEW d \in Seq(Byte)
  PROVE  AddDirect(q, d) \in Query
<1> DEFINE h == BulkHeader(Len(d))
           e == <<CR, LF>>
           text == q.text \o h \o e
<1>1. h \in Seq(Byte) /\ e \in Seq(Byte) /\ Len(e) = 2
  <2>1. h \in Seq(Byte) /\ e \in Seq(Byte)
    BY BulkBytes
  <2> QED
    BY <2>1
<1>2. AddDirect(q, d) = [text |-> text, ext |-> Append(q.ext, [pos |-> Len(text) - 2, data |-> d]),
                         pcount |-> q.pcount + 1]
  BY DEF AddDirect
<1>3. q.text \in Seq(Byte) /\ q.ext \in Seq(ExtBuff) /\ q.pcount \in Nat
  BY DEF Query
<1> HIDE DEF h, e
<1>4. q.text \o h \in Seq(Byte) /\ Len(q.text \o h) \in Nat
  <2>1. q.text \o h \in Seq(Byte)
    BY <1>1, <1>3, ConcatProperties
  <2> QED
    BY <2>1, LenProperties
<1>5. text \in Seq(Byte) /\ Len(text) - 2 \in Nat
  <2> DEFINE th == q.text \o h
  <2>1. th \in Seq(Byte) /\ Len(th) \in Nat
    BY <1>4
  <2> HIDE DEF th
  <2>2. th \o e \in Seq(Byte) /\ Len(th \o e) = Len(th) + Len(e)
    BY <1>1, <2>1, ConcatProperties
  <2>3. Len(th \o e) - 2 \in Nat
    BY <1>1, <2>1, <2>2
  <2> QED
    BY <2>2, <2>3 DEF th
<1> HIDE DEF text
<1>6. [pos |-> Len(text) - 2, data |-> d] \in ExtBuff
  BY <1>5 DEF ExtBuff
<1> DEFINE new == [pos |-> Len(text) - 2, data |-> d]
<1> HIDE DEF new
<1>7. Append(q.ext, new) \in Seq(ExtBuff) /\ q.pcount + 1 \in Nat
  BY <1>3, <1>6, AppendProperties DEF new
<1>8. AddDirect(q, d) = [text |-> text, ext |-> Append(q.ext, new), pcount |-> q.pcount + 1]
  BY <1>2 DEF new
<1> QED
  BY <1>5, <1>7, <1>8 DEF Query

(* What AddVector computes on the way. *)
AddedParts(q, parts) ==
  CHOOSE add : add = [i \in 0..Len(parts) |->
    IF i = 0 THEN q ELSE add_query_part(add[i - 1], parts[i])]

(* The recursion of AddVector has a solution. *)
LEMMA AddedPartsExist ==
  ASSUME NEW q \in Query, NEW parts \in Seq(Seq(Byte))
  PROVE  LET a == AddedParts(q, parts)
         IN /\ AddVector(q, parts) = a[Len(parts)]
            /\ a[0] = q
            /\ \A i \in 1..Len(parts) : a[i] = add_query_part(a[i - 1], parts[i])
            /\ a[Len(parts)] \in Query
<1> DEFINE n == Len(parts)
           step == [x \in Query \X (1..n) |-> add_query_part(x[1], parts[x[2]])]
           Is(a) == a = [i \in 0..n |-> IF i = 0 THEN q ELSE add_query_part(a[i - 1], parts[i])]
<1>1. n \in Nat /\ \A i \in 1..n : parts[i] \in Seq(Byte)
  BY LenProperties, ElementOfSeq
<1>2. \A s \in Query : \A i \in 1..n : add_query_part(s, parts[i]) \in Query
  <2> TAKE s \in Query
  <2> TAKE i \in 1..n
  <2> QED
    BY <1>1, PartIsQuery
<1>3. \A s \in Query : \A i \in 1..n : step[<<s, i>>] = add_query_part(s, parts[i])
  OBVIOUS
<1>4. \A s \in Query : \A i \in 1..n : step[<<s, i>>] \in Query
  BY <1>2, <1>3
<1> HIDE DEF step
<1>5. PICK f : Recurs(f, n, Query, q, step)
  <2> HIDE DEF n
  <2>1. Keeps(step, n, Query)
    BY <1>4 DEF Keeps
  <2> QED
    BY <1>1, <2>1, Recursion
<1>6. \A i \in 1..n : f[i] = add_query_part(f[i - 1], parts[i])
  <2> TAKE i \in 1..n
  <2>1. f[i - 1] \in Query
    <3>1. i - 1 \in 0..n
      BY <1>1
    <3> HIDE DEF n
    <3> QED
      BY <1>5, <3>1 DEF Recurs
  <2> QED
    BY <1>3, <1>5, <2>1 DEF Recurs
<1>7. Is(f)
  <2>1. \A i \in 0..n : f[i] = IF i = 0 THEN q ELSE add_query_part(f[i - 1], parts[i])
    <3> TAKE i \in 0..n
    <3>1. i # 0 => i \in 1..n
      BY <1>1
    <3> HIDE DEF n
    <3> QED
      BY <1>5, <1>6, <3>1 DEF Recurs
  <2>2. f = [i \in 0..n |-> f[i]]
    BY <1>5 DEF Recurs
  <2> QED
    BY <2>1, <2>2
<1>8. Is(AddedParts(q, parts))
  BY <1>7 DEF AddedParts
<1>9. AddVector(q, parts) = AddedParts(q, parts)[n]
  BY DEF AddVector, AddedParts
<1> DEFINE a == AddedParts(q, parts)
<1> HIDE DEF a
<1>10. \A i \in 0..n : a[i] = IF i = 0 THEN q ELSE add_query_part(a[i - 1], parts[i])
  BY <1>8 DEF a
<1>11. 0 \in 0..n /\ \A i \in 1..n : i \in 0..n /\ i # 0
  BY <1>1
<1> HIDE DEF n
<1>12. a[0] = q /\ \A i \in 1..n : a[i] = add_query_part(a[i - 1], parts[i])
  BY <1>10, <1>11
<1>13. a[n] \in Query
  <2> DEFINE T == {i \in 0..n : a[i] \in Query}
  <2>1. 0 \in T
    BY <1>11, <1>12
  <2>2. \A i \in 1..n : i - 1 \in T => i \in T
    BY <1>2, <1>11, <1>12 DEF n
  <2>3. \A i \in 0..n : i \in T
    <3> HIDE DEF T
    <3>1. n \in Nat
      BY <1>1 DEF n
    <3> QED
      BY <2>1, <2>2, <3>1, Induct
  <2>4. n \in 0..n
    BY <1>1 DEF n
  <2> QED
    BY <2>3, <2>4
<1> QED
  BY <1>9, <1>12, <1>13 DEF a, n

(* A vector is all its texts more. *)
LEMMA VectorBuilt ==
  ASSUME NEW q, NEW texts, IsBuilding(q, texts), NEW parts \in Seq(Seq(Byte))
  PROVE  IsBuilding(AddVector(q, parts), texts \o CTexts(parts)) /\ CTexts(parts) \in Seq(Seq(Byte))
<1> DEFINE n == Len(parts)
           a == AddedParts(q, parts)
           c == CTexts(parts)
           S == Seq(Byte)
<1>1. n \in Nat /\ \A i \in 1..n : parts[i] \in S /\ CText(parts[i]) \in S
  BY LenProperties, ElementOfSeq, CTextFacts
<1>2. q \in Query /\ texts \in Seq(S)
  BY DEF IsBuilding, Building, Encodes
<1>3. c \in Seq(S) /\ Len(c) = n /\ \A i \in 1..n : c[i] = CText(parts[i])
  <2> HIDE DEF S
  <2> QED
    BY <1>1 DEF CTexts
<1>4. AddVector(q, parts) = a[n] /\ a[0] = q /\ \A i \in 1..n : a[i] = add_query_part(a[i - 1], parts[i])
  BY <1>2, AddedPartsExist
<1> HIDE DEF a, c, S
<1> DEFINE T == {i \in 0..n : IsBuilding(a[i], texts \o SubSeq(c, 1, i))}
<1>5. 0 \in T
  <2>1. SubSeq(c, 1, 0) = <<>>
    BY SubSeqEmpty
  <2>2. texts \o <<>> = texts
    BY <1>2, ConcatEmptySeq
  <2>3. IsBuilding(a[0], texts \o SubSeq(c, 1, 0))
    BY <1>4, <2>1, <2>2
  <2>4. 0 \in 0..n
    BY <1>1
  <2> QED
    BY <2>3, <2>4
<1>6. ASSUME NEW i \in 1..n, i - 1 \in T
      PROVE  i \in T
  <2>1. IsBuilding(a[i - 1], texts \o SubSeq(c, 1, i - 1))
    BY <1>6
  <2>2. parts[i] \in Seq(Byte)
    BY <1>1 DEF S
  <2>3. IsBuilding(a[i], Append(texts \o SubSeq(c, 1, i - 1), c[i]))
    BY <1>3, <1>4, <2>1, <2>2, PartBuilt
  <2>4. texts \o SubSeq(c, 1, i) = Append(texts \o SubSeq(c, 1, i - 1), c[i])
    <3>1. i \in 1..Len(c)
      BY <1>3
    <3> QED
      BY <1>2, <1>3, <3>1, NextOfSeq
  <2>5. IsBuilding(a[i], texts \o SubSeq(c, 1, i))
    BY <2>3, <2>4
  <2>6. i \in 0..n
    BY <1>1
  <2> QED
    BY <2>5, <2>6
<1>7. \A i \in 0..n : i \in T
  <2> HIDE DEF T, n
  <2> QED
    BY <1>1, <1>5, <1>6, Induct
<1>8. IsBuilding(a[n], texts \o SubSeq(c, 1, n))
  BY <1>1, <1>7
<1>9. SubSeq(c, 1, n) = c
  BY <1>3, SubSeqFull
<1> QED
  BY <1>3, <1>4, <1>8, <1>9 DEF c, S

(* An argument is its texts more, of whatever kind it is. *)
LEMMA ArgumentBuilt ==
  ASSUME NEW q, NEW texts, IsBuilding(q, texts), NEW arg \in Argument
  PROVE  IsBuilding(AddArgument(q, arg), texts \o PartsOf(arg)) /\ PartsOf(arg) \in Seq(Seq(Byte))
<1>1. texts \in Seq(Seq(Byte))
  BY DEF IsBuilding, Building, Encodes
<1>2. ASSUME NEW d \in Seq(Byte)
      PROVE  texts \o <<d>> = Append(texts, d) /\ <<d>> \in Seq(Seq(Byte))
  <2> DEFINE S == Seq(Byte)
  <2>1. texts \in Seq(S) /\ d \in S
    BY <1>1
  <2> HIDE DEF S
  <2>2. texts \o <<d>> = Append(texts, d) /\ <<d>> \in Seq(S)
    BY <2>1, AppendIsConcat
  <2> QED
    BY <2>2 DEF S
<1>3. CASE arg.kind = "text"
  <2>1. arg.val \in Seq(Byte)
    BY <1>3 DEF Argument
  <2>2. PartsOf(arg) = <<CText(arg.val)>> /\ AddArgument(q, arg) = add_query_part(q, arg.val)
    BY <1>3 DEF PartsOf, AddArgument
  <2>3. CText(arg.val) \in Seq(Byte)
    BY <2>1, CTextFacts
  <2> QED
    BY <1>2, <2>1, <2>2, <2>3, PartBuilt
<1>4. CASE arg.kind = "int"
  <2>1. arg.val \in Int
    BY <1>4 DEF Argument
  <2>2. PartsOf(arg) = <<ToText(arg.val)>> /\ AddArgument(q, arg) = add_query_part(q, ToText(arg.val))
    BY <1>4 DEF PartsOf, AddArgument
  <2>3. ToText(arg.val) \in Seq(Byte) /\ CText(ToText(arg.val)) = ToText(arg.val)
    BY <2>1, NumberText
  <2>4. IsBuilding(AddArgument(q, arg), Append(texts, ToText(arg.val)))
    BY <2>2, <2>3, PartBuilt
  <2> QED
    BY <1>2, <2>2, <2>3, <2>4
<1>5. CASE arg.kind = "vector"
  <2>1. arg.val \in Seq(Seq(Byte))
    BY <1>5 DEF Argument
  <2>2. PartsOf(arg) = CTexts(arg.val) /\ AddArgument(q, arg) = AddVector(q, arg.val)
    BY <1>5 DEF PartsOf, AddArgument
  <2> QED
    BY <2>1, <2>2, VectorBuilt
<1>6. CASE arg.kind = "direct"
  <2>1. arg.val \in Seq(Byte)
    BY <1>6 DEF Argument
  <2>2. PartsOf(arg) = <<arg.val>> /\ AddArgument(q, arg) = AddDirect(q, arg.val)
    BY <1>6 DEF PartsOf, AddArgument
  <2> QED
    BY <1>2, <2>1, <2>2, DirectBuilt
<1>7. arg.kind \in {"text", "int", "vector", "direct"}
  BY DEF Argument
<1> QED
  BY <1>3, <1>4, <1>5, <1>6, <1>7

(* AddArgument makes a query of a query. *)
LEMMA ArgumentIsQuery ==
  ASSUME NEW q \in Query, NEW arg \in Argument
  PROVE  AddArgument(q, arg) \in Query
<1>1. CASE arg.kind = "text"
  <2>1. arg.val \in Seq(Byte) /\ AddArgument(q, arg) = add_query_part(q, arg.val)
    BY <1>1 DEF Argument, AddArgument
  <2> QED
    BY <2>1, PartIsQuery
<1>2. CASE arg.kind = "int"
  <2>1. arg.val \in Int /\ AddArgument(q, arg) = add_query_part(q, ToText(arg.val))
    BY <1>2 DEF Argument, AddArgument
  <2>2. ToText(arg.val) \in Seq(Byte)
    BY <2>1, NumberText
  <2> QED
    BY <2>1, <2>2, PartIsQuery
<1>3. CASE arg.kind = "vector"
  <2>1. arg.val \in Seq(Seq(Byte)) /\ AddArgument(q, arg) = AddVector(q, arg.val)
    BY <1>3 DEF Argument, AddArgument
  <2> QED
    BY <2>1, AddedPartsExist
<1>4. CASE arg.kind = "direct"
  <2>1. arg.val \in Seq(Byte) /\ AddArgument(q, arg) = AddDirect(q, arg.val)
    BY <1>4 DEF Argument, AddArgument
  <2> QED
    BY <2>1, DirectIsQuery
<1>5. arg.kind \in {"text", "int", "vector", "direct"}
  BY DEF Argument
<1> QED
  BY <1>1, <1>2, <1>3, <1>4, <1>5

(* An argument's texts are texts. *)
LEMMA PartsAreTexts ==
  ASSUME NEW arg \in Argument
  PROVE  PartsOf(arg) \in Seq(Seq(Byte))
BY BuildingNone, ArgumentBuilt

(* What AddArguments computes on the way. *)
AddedArguments(q, args) ==
  CHOOSE add : add = [i \in 0..Len(args) |->
    IF i = 0 THEN q ELSE AddArgument(add[i - 1], args[i])]

(* The recursion of AddArguments has a solution. *)
LEMMA AddedArgumentsExist ==
  ASSUME NEW q \in Query, NEW args \in Seq(Argument)
  PROVE  LET a == AddedArguments(q, args)
         IN /\ AddArguments(q, args) = a[Len(args)]
            /\ a[0] = q
            /\ \A i \in 1..Len(args) : a[i] = AddArgument(a[i - 1], args[i])
<1> DEFINE n == Len(args)
           step == [x \in Query \X (1..n) |-> AddArgument(x[1], args[x[2]])]
           Is(a) == a = [i \in 0..n |-> IF i = 0 THEN q ELSE AddArgument(a[i - 1], args[i])]
<1>1. n \in Nat /\ \A i \in 1..n : args[i] \in Argument
  BY LenProperties, ElementOfSeq
<1>2. \A s \in Query : \A i \in 1..n : AddArgument(s, args[i]) \in Query
  <2> TAKE s \in Query
  <2> TAKE i \in 1..n
  <2> QED
    BY <1>1, ArgumentIsQuery
<1>3. \A s \in Query : \A i \in 1..n : step[<<s, i>>] = AddArgument(s, args[i])
  OBVIOUS
<1>4. \A s \in Query : \A i \in 1..n : step[<<s, i>>] \in Query
  BY <1>2, <1>3
<1> HIDE DEF step
<1>5. PICK f : Recurs(f, n, Query, q, step)
  <2> HIDE DEF n
  <2>1. Keeps(step, n, Query)
    BY <1>4 DEF Keeps
  <2> QED
    BY <1>1, <2>1, Recursion
<1>6. \A i \in 1..n : f[i] = AddArgument(f[i - 1], args[i])
  <2> TAKE i \in 1..n
  <2>1. f[i - 1] \in Query
    <3>1. i - 1 \in 0..n
      BY <1>1
    <3> HIDE DEF n
    <3> QED
      BY <1>5, <3>1 DEF Recurs
  <2> QED
    BY <1>3, <1>5, <2>1 DEF Recurs
<1>7. Is(f)
  <2>1. \A i \in 0..n : f[i] = IF i = 0 THEN q ELSE AddArgument(f[i - 1], args[i])
    <3> TAKE i \in 0..n
    <3>1. i # 0 => i \in 1..n
      BY <1>1
    <3> HIDE DEF n
    <3> QED
      BY <1>5, <1>6, <3>1 DEF Recurs
  <2>2. f = [i \in 0..n |-> f[i]]
    BY <1>5 DEF Recurs
  <2> QED
    BY <2>1, <2>2
<1>8. Is(AddedArguments(q, args))
  BY <1>7 DEF AddedArguments
<1>9. AddArguments(q, args) = AddedArguments(q, args)[n]
  BY DEF AddArguments, AddedArguments
<1> DEFINE a == AddedArguments(q, args)
<1> HIDE DEF a
<1>10. \A i \in 0..n : a[i] = IF i = 0 THEN q ELSE AddArgument(a[i - 1], args[i])
  BY <1>8 DEF a
<1>11. 0 \in 0..n /\ \A i \in 1..n : i \in 0..n /\ i # 0
  BY <1>1
<1> HIDE DEF n
<1>12. a[0] = q /\ \A i \in 1..n : a[i] = AddArgument(a[i - 1], args[i])
  BY <1>10, <1>11
<1> QED
  BY <1>9, <1>12 DEF a, n

(* What AllParts computes on the way. *)
PartsSoFar(args) ==
  CHOOSE parts : parts = [i \in 0..Len(args) |->
    IF i = 0 THEN <<>> ELSE parts[i - 1] \o PartsOf(args[i])]

(* The recursion of AllParts has a solution. *)
LEMMA PartsSoFarExist ==
  ASSUME NEW args \in Seq(Argument)
  PROVE  LET a == PartsSoFar(args)
         IN /\ AllParts(args) = a[Len(args)]
            /\ a[0] = <<>>
            /\ \A i \in 1..Len(args) : a[i] = a[i - 1] \o PartsOf(args[i])
<1> DEFINE n == Len(args)
           S == Seq(Seq(Byte))
           step == [x \in S \X (1..n) |-> x[1] \o PartsOf(args[x[2]])]
           Is(a) == a = [i \in 0..n |-> IF i = 0 THEN <<>> ELSE a[i - 1] \o PartsOf(args[i])]
<1>1. n \in Nat /\ \A i \in 1..n : args[i] \in Argument
  BY LenProperties, ElementOfSeq
<1>2. \A s \in S : \A i \in 1..n : s \o PartsOf(args[i]) \in S
  <2> TAKE s \in S
  <2> TAKE i \in 1..n
  <2>1. PartsOf(args[i]) \in S
    BY <1>1, PartsAreTexts
  <2> QED
    BY <2>1, ConcatProperties
<1>3. <<>> \in S
  OBVIOUS
<1> HIDE DEF S
<1>4. \A s \in S : \A i \in 1..n : step[<<s, i>>] = s \o PartsOf(args[i])
  OBVIOUS
<1>5. \A s \in S : \A i \in 1..n : step[<<s, i>>] \in S
  BY <1>2, <1>4
<1> HIDE DEF step
<1>6. PICK f : Recurs(f, n, S, <<>>, step)
  <2> HIDE DEF n
  <2>1. Keeps(step, n, S)
    BY <1>5 DEF Keeps
  <2> QED
    BY <1>1, <1>3, <2>1, Recursion
<1>7. \A i \in 1..n : f[i] = f[i - 1] \o PartsOf(args[i])
  <2> TAKE i \in 1..n
  <2>1. f[i - 1] \in S
    <3>1. i - 1 \in 0..n
      BY <1>1
    <3> HIDE DEF n
    <3> QED
      BY <1>6, <3>1 DEF Recurs
  <2> QED
    BY <1>4, <1>6, <2>1 DEF Recurs
<1>8. Is(f)
  <2>1. \A i \in 0..n : f[i] = IF i = 0 THEN <<>> ELSE f[i - 1] \o PartsOf(args[i])
    <3> TAKE i \in 0..n
    <3>1. i # 0 => i \in 1..n
      BY <1>1
    <3> HIDE DEF n
    <3> QED
      BY <1>6, <1>7, <3>1 DEF Recurs
  <2>2. f = [i \in 0..n |-> f[i]]
    BY <1>6 DEF Recurs
  <2> QED
    BY <2>1, <2>2
<1>9. Is(PartsSoFar(args))
  BY <1>8 DEF PartsSoFar
<1>10. AllParts(args) = PartsSoFar(args)[n]
  BY DEF AllParts, PartsSoFar
<1> DEFINE a == PartsSoFar(args)
<1> HIDE DEF a
<1>11. \A i \in 0..n : a[i] = IF i = 0 THEN <<>> ELSE a[i - 1] \o PartsOf(args[i])
  BY <1>9 DEF a
<1>12. 0 \in 0..n /\ \A i \in 1..n : i \in 0..n /\ i # 0
  BY <1>1
<1> HIDE DEF n
<1>13. a[0] = <<>> /\ \A i \in 1..n : a[i] = a[i - 1] \o PartsOf(args[i])
  BY <1>11, <1>12
<1> QED
  BY <1>10, <1>13 DEF a, n

(* The general constructor, before the header, has built all the texts. *)
LEMMA ArgumentsBuilt ==
  ASSUME NEW args \in Seq(Argument)
  PROVE  IsBuilding(AddArguments(Reserved, args), AllParts(args))
<1> DEFINE n == Len(args)
           a == AddedArguments(Reserved, args)
           c == PartsSoFar(args)
<1>1. n \in Nat /\ \A i \in 1..n : args[i] \in Argument
  BY LenProperties, ElementOfSeq
<1>2. Reserved \in Query
  BY BuildingNone DEF IsBuilding
<1>3. /\ AddArguments(Reserved, args) = a[n] /\ a[0] = Reserved
      /\ \A i \in 1..n : a[i] = AddArgument(a[i - 1], args[i])
  BY <1>2, AddedArgumentsExist
<1>4. AllParts(args) = c[n] /\ c[0] = <<>> /\ \A i \in 1..n : c[i] = c[i - 1] \o PartsOf(args[i])
  BY PartsSoFarExist
<1> HIDE DEF a, c, n
<1> DEFINE T == {i \in 0..n : IsBuilding(a[i], c[i])}
<1>5. 0 \in T
  <2>1. 0 \in 0..n
    BY <1>1
  <2> QED
    BY <1>3, <1>4, <2>1, BuildingNone
<1>6. ASSUME NEW i \in 1..n, i - 1 \in T
      PROVE  i \in T
  <2>1. IsBuilding(a[i - 1], c[i - 1]) /\ args[i] \in Argument
    BY <1>1, <1>6
  <2>2. IsBuilding(AddArgument(a[i - 1], args[i]), c[i - 1] \o PartsOf(args[i]))
    BY <2>1, ArgumentBuilt
  <2>3. IsBuilding(a[i], c[i])
    BY <1>3, <1>4, <2>2
  <2>4. i \in 0..n
    BY <1>1
  <2> QED
    BY <2>3, <2>4
<1>7. \A i \in 0..n : i \in T
  <2> HIDE DEF T
  <2> QED
    BY <1>1, <1>5, <1>6, Induct
<1>8. n \in 0..n
  BY <1>1
<1> QED
  BY <1>3, <1>4, <1>7, <1>8

-----------------------------------------------------------------------------
(* What the header does to the query. *)

(* The length that is reckoned is the length of what is printed. *)
LEMMA HeaderLength ==
  ASSUME NEW n \in Nat, n > 0, n < 1000
  PROVE  LET h == Line(Star, Decimal(n))
         IN h \in Seq(Byte) /\ Len(h) = pref_len(n) /\ pref_len(n) \in 4..6 /\ h[1] = Star
<1> DEFINE d == Decimal(n)
           h == Line(Star, d)
           T == {t \in {10, 100, 1000} : n \div t > 0}
<1>1. d \in Seq(Byte)
  BY DecimalBytes
<1>2. Len(d) = IF n < 10 THEN 1 ELSE IF n < 100 THEN 2 ELSE 3
  BY ShortDecimal
<1> HIDE DEF d
<1>3. h \in Seq(Byte) /\ Len(h) = Len(d) + 3 /\ h[1] = Star
  <2>1. Star \in Byte
    BY DEF Star, Byte
  <2> QED
    BY <1>1, <2>1, LineBytes
<1>4. pref_len(n) = 4 + Cardinality(T)
  BY DEF pref_len
<1>5. /\ n < 10 => n \div 10 = 0
      /\ n < 100 => n \div 100 = 0
      /\ n \div 1000 = 0
      /\ n >= 10 => n \div 10 > 0
      /\ n >= 100 => n \div 100 > 0
  OBVIOUS
<1>6. Cardinality(T) = IF n < 10 THEN 0 ELSE IF n < 100 THEN 1 ELSE 2
  <2>1. CASE n < 10
    <3>1. T = {}
      BY <1>5, <2>1
    <3> QED
      BY <2>1, <3>1, FS_EmptySet
  <2>2. CASE n >= 10 /\ n < 100
    <3>1. T = {10}
      BY <1>5, <2>2
    <3>2. Cardinality({10}) = 1
      BY FS_Singleton
    <3> QED
      BY <2>2, <3>1, <3>2
  <2>3. CASE n >= 100
    <3>1. T = {10} \cup {100}
      BY <1>5, <2>3
    <3>2. IsFiniteSet({10}) /\ Cardinality({10}) = 1
      BY FS_Singleton
    <3>3. 100 \notin {10}
      OBVIOUS
    <3>4. Cardinality({10} \cup {100}) = Cardinality({10}) + 1
      BY <3>2, <3>3, FS_AddElement
    <3> HIDE DEF T
    <3> QED
      BY <2>3, <3>1, <3>2, <3>4
  <2> QED
    BY <2>1, <2>2, <2>3
<1> HIDE DEF h, T
<1>7. Len(h) = pref_len(n) /\ pref_len(n) \in 4..6
  <2>1. CASE n < 10
    BY <1>2, <1>3, <1>4, <1>6, <2>1
  <2>2. CASE n >= 10 /\ n < 100
    BY <1>2, <1>3, <1>4, <1>6, <2>2
  <2>3. CASE n >= 100
    BY <1>2, <1>3, <1>4, <1>6, <2>3
  <2> QED
    BY <2>1, <2>2, <2>3
<1> QED
  BY <1>3, <1>7 DEF h, d

(* The header takes the place of the reserved bytes: the zero byte behind it *)
(* is overwritten with the '$' that it had overwritten.                     *)
LEMMA HeaderWritten ==
  ASSUME NEW n \in Nat, n > 0, n < 1000, NEW body \in Seq(Byte), body # <<>>, body[1] = Dollar
  PROVE  LET text == WriteHeader(Reserved.text \o body, n)
         IN SubSeq(text, query_pref_max_size - pref_len(n) + 1, Len(text)) = Line(Star, Decimal(n)) \o body
<1> DEFINE z == Reserved.text
           old == z \o body
           text == WriteHeader(old, n)
           h == Line(Star, Decimal(n))
           m == pref_len(n)
           b == Len(body)
           header == h \o <<0>>
           start == 13 - m
<1>1. h \in Seq(Byte) /\ Len(h) = m /\ m \in 4..6
  BY HeaderLength
<1>2. b \in Nat \ {0}
  BY EmptySeq, LenProperties
<1>3. z \in Seq(Byte) /\ Len(z) = 13
  BY ReservedRoom DEF query_pref_max_size
<1> HIDE DEF z, h, m
<1>4. /\ old \in Seq(Byte) /\ Len(old) = 13 + b /\ DOMAIN old = 1..(13 + b)
      /\ \A i \in 1..(13 + b) : old[i] = IF i <= 13 THEN z[i] ELSE body[i - 13]
  <2>1. /\ old \in Seq(Byte) /\ Len(old) = Len(z) + b
        /\ \A i \in 1..(Len(z) + b) : old[i] = IF i <= Len(z) THEN z[i] ELSE body[i - Len(z)]
    BY <1>3, ConcatProperties
  <2> HIDE DEF old, b
  <2>2. DOMAIN old = 1..Len(old)
    BY <2>1, LenProperties
  <2> QED
    BY <1>3, <2>1, <2>2
<1>5. /\ DOMAIN header = 1..(m + 1)
      /\ \A i \in 1..m : header[i] = h[i]
  <2> DEFINE nil == <<0>>
  <2>1. nil \in Seq(Byte) /\ Len(nil) = 1
    BY DEF Byte
  <2> HIDE DEF nil
  <2>2. /\ h \o nil \in Seq(Byte) /\ Len(h \o nil) = Len(h) + Len(nil)
        /\ \A i \in 1..(Len(h) + Len(nil)) : (h \o nil)[i] = IF i <= Len(h) THEN h[i] ELSE nil[i - Len(h)]
    BY <1>1, <2>1, ConcatProperties
  <2> DEFINE w == h \o nil
  <2> HIDE DEF w
  <2>3. w \in Seq(Byte) /\ Len(w) = m + 1
    BY <1>1, <2>1, <2>2 DEF w
  <2>4. DOMAIN w = 1..(m + 1)
    BY <2>3, LenProperties
  <2>5. ASSUME NEW i \in 1..m
        PROVE  w[i] = h[i]
    <3>1. i \in 1..(m + 1) /\ i <= m
      BY <1>1
    <3> QED
      BY <1>1, <2>1, <2>2, <3>1 DEF w
  <2> QED
    BY <2>4, <2>5 DEF w, nil
<1>6. text = [k \in DOMAIN old |-> IF k = 14 THEN Dollar
                                   ELSE IF k - start \in DOMAIN header THEN header[k - start]
                                   ELSE old[k]]
  BY DEF WriteHeader, query_pref_max_size, h, m
<1> HIDE DEF old, header, b, text
<1>7. /\ DOMAIN text = 1..(13 + b)
      /\ \A k \in 1..(13 + b) : text[k] = IF k = 14 THEN Dollar
                                          ELSE IF k - start \in 1..(m + 1) THEN header[k - start]
                                          ELSE old[k]
  BY <1>4, <1>5, <1>6
<1>8. body[1] = Dollar /\ \A i \in 1..b : body[i] \in Byte
  BY ElementOfSeq DEF b
<1> DEFINE both == h \o body
<1>9. /\ both \in Seq(Byte) /\ Len(both) = m + b
      /\ \A i \in 1..(m + b) : both[i] = IF i <= m THEN h[i] ELSE body[i - m]
  BY <1>1, ConcatProperties DEF b
<1> HIDE DEF both
<1>10. ASSUME NEW j \in 1..(m + b)
       PROVE  start + j \in 1..(13 + b) /\ text[start + j] = both[j]
  <2>1. start + j \in 1..(13 + b) /\ (start + j) - start = j
    BY <1>1, <1>2
  <2>2. CASE j <= m
    <3>1. start + j # 14 /\ j \in 1..(m + 1) /\ j \in 1..m
      BY <1>1, <2>2
    <3>2. text[start + j] = header[j]
      BY <1>7, <2>1, <3>1
    <3> QED
      BY <1>5, <1>9, <2>1, <2>2, <3>1, <3>2
  <2>3. CASE j = m + 1
    <3>1. start + j = 14 /\ j - m = 1 /\ ~(j <= m)
      BY <1>1, <2>3
    <3>2. text[start + j] = Dollar
      BY <1>7, <2>1, <3>1
    <3>3. both[j] = body[1]
      BY <1>9, <3>1
    <3> QED
      BY <1>8, <2>1, <3>2, <3>3
  <2>4. CASE j > m + 1
    <3>1. start + j # 14 /\ j \notin 1..(m + 1) /\ ~(j <= m) /\ ~(start + j <= 13) /\ (start + j) - 13 = j - m
      BY <1>1, <2>4
    <3>2. text[start + j] = old[start + j]
      BY <1>7, <2>1, <3>1
    <3>3. old[start + j] = body[j - m]
      BY <1>4, <2>1, <3>1
    <3>4. both[j] = body[j - m]
      BY <1>9, <3>1
    <3> QED
      BY <2>1, <3>2, <3>3, <3>4
  <2>5. j <= m \/ j = m + 1 \/ j > m + 1
    BY <1>1
  <2> QED
    BY <2>2, <2>3, <2>4, <2>5
<1>11. both[1] \in Byte /\ \A i \in 1..(m + b) : both[i] \in Byte
  <2>1. \A i \in 1..(m + b) : both[i] \in Byte
    BY <1>9, ElementOfSeq
  <2>2. 1 \in 1..(m + b)
    BY <1>1, <1>2
  <2> QED
    BY <2>1, <2>2
<1>12. text = [k \in 1..(13 + b) |-> text[k]] /\ Len(text) = 13 + b
  <2>1. text = [k \in DOMAIN text |-> text[k]]
    BY <1>6
  <2> HIDE DEF start
  <2>2. 13 + b \in Nat
    BY <1>2
  <2>3. Len(text) = 13 + b
    BY <1>7, <2>1, <2>2
  <2> QED
    BY <1>7, <2>1, <2>3
<1> DEFINE cut == SubSeq(text, start + 1, 13 + b)
<1>13. /\ cut \in Seq(Byte) /\ Len(cut) = m + b
       /\ \A i \in 1..(m + b) : cut[i] = text[start + i]
  <2>1. \A k \in (start + 1)..(13 + b) : text[k] \in Byte
    <3> TAKE k \in (start + 1)..(13 + b)
    <3>1. k - start \in 1..(m + b) /\ start + (k - start) = k
      BY <1>1, <1>2
    <3>2. text[start + (k - start)] = both[k - start]
      BY <1>10, <3>1
    <3> QED
      BY <1>11, <3>1, <3>2
  <2>2. start + 1 \in Int /\ 13 + b \in Int /\ start + 1 <= 13 + b
        /\ (13 + b) - (start + 1) + 1 = m + b
    BY <1>1, <1>2
  <2> DEFINE p == start + 1
             r == 13 + b
  <2>3. /\ p \in Int /\ r \in Int /\ p <= r /\ r - p + 1 = m + b
        /\ \A k \in p..r : text[k] \in Byte
    BY <2>1, <2>2
  <2> HIDE DEF p, r
  <2>4. /\ SubSeq(text, p, r) \in Seq(Byte)
        /\ Len(SubSeq(text, p, r)) = r - p + 1
        /\ \A i \in 1..(r - p + 1) : SubSeq(text, p, r)[i] = text[p + i - 1]
    BY <2>3, SubSeqProperties
  <2>5. \A i \in 1..(m + b) : p + i - 1 = start + i
    BY <1>1, <1>2 DEF p
  <2>6. \A i \in 1..(m + b) : SubSeq(text, p, r)[i] = text[start + i]
    BY <2>3, <2>4, <2>5
  <2> QED
    BY <2>3, <2>4, <2>6 DEF p, r
<1> HIDE DEF cut
<1>14. cut = both
  <2>1. \A i \in 1..(m + b) : cut[i] = both[i]
    BY <1>10, <1>13
  <2>2. DOMAIN cut = 1..(m + b) /\ DOMAIN both = 1..(m + b)
    BY <1>9, <1>13, LenProperties
  <2>3. cut = [i \in 1..(m + b) |-> cut[i]] /\ both = [i \in 1..(m + b) |-> both[i]]
    BY <1>9, <1>13, <2>2
  <2> QED
    BY <2>1, <2>3
<1>15. SubSeq(text, query_pref_max_size - pref_len(n) + 1, Len(text)) = both
  <2>1. query_pref_max_size - pref_len(n) + 1 = start + 1
    BY <1>1 DEF m, query_pref_max_size
  <2>2. SubSeq(text, start + 1, Len(text)) = both
    <3> HIDE DEF start
    <3> QED
      BY <1>12, <1>14 DEF cut
  <2> HIDE DEF start
  <2> QED
    BY <2>1, <2>2
<1> QED
  BY <1>15 DEF text, old, z, both, h

(* The places of direct data move with the text. *)
LEMMA PlacesTrimmed ==
  ASSUME NEW text, NEW ext, Fits(ext, text), NEW n \in Nat, n > 0, n < 1000
  PROVE  LET old == Moved(ext, query_pref_max_size)
             trimmed == query_pref_max_size - pref_len(n)
         IN [i \in DOMAIN old |-> [old[i] EXCEPT !.pos = @ - trimmed]] = Moved(ext, pref_len(n))
<1> DEFINE m == pref_len(n)
           old == Moved(ext, 13)
<1>1. m \in 4..6
  BY HeaderLength
<1>2. ext \in Seq(ExtBuff) /\ \A i \in DOMAIN ext : ext[i] \in ExtBuff
  BY ElementOfSeq DEF Fits
<1> HIDE DEF m
<1>3. DOMAIN old = DOMAIN ext
  BY DEF Moved
<1>4. ASSUME NEW i \in DOMAIN ext
      PROVE  [old[i] EXCEPT !.pos = @ - (13 - m)] = [ext[i] EXCEPT !.pos = @ + m]
  <2>1. old[i] = [ext[i] EXCEPT !.pos = @ + 13]
    BY DEF Moved
  <2> DEFINE e == ext[i]
  <2>2. e \in ExtBuff
    BY <1>2
  <2> HIDE DEF e, old
  <2>3. e.pos \in Nat /\ e = [pos |-> e.pos, data |-> e.data]
    BY <2>2 DEF ExtBuff
  <2>4. old[i] = [pos |-> e.pos + 13, data |-> e.data]
    BY <2>1, <2>3 DEF e
  <2>5. (e.pos + 13) - (13 - m) = e.pos + m
    BY <1>1, <2>3
  <2>6. [old[i] EXCEPT !.pos = @ - (13 - m)] = [pos |-> (e.pos + 13) - (13 - m), data |-> e.data]
    BY <2>4
  <2>7. [e EXCEPT !.pos = @ + m] = [pos |-> e.pos + m, data |-> e.data]
    BY <2>3
  <2> QED
    BY <2>5, <2>6, <2>7 DEF e
<1> HIDE DEF old
<1>5. [i \in DOMAIN old |-> [old[i] EXCEPT !.pos = @ - (13 - m)]] = [i \in DOMAIN ext |-> [ext[i] EXCEPT !.pos = @ + m]]
  BY <1>3, <1>4
<1>6. query_pref_max_size = 13
  BY DEF query_pref_max_size
<1> QED
  BY <1>5, <1>6 DEF Moved, old, m

(* The general constructor makes of every list of arguments, of which there  *)
(* come one to 999 texts, the array of their texts: what the socket is      *)
(* given is, byte for byte, one well-formed array of bulk strings, each of   *)
(* them one text, wherever the data lies and however many digits the header  *)
(* has (QueryBuilder's BuildRESP and build_multibuffer).                    *)
THEOREM QueryIsWellFormed ==
  ASSUME NEW args \in Seq(Argument), Len(AllParts(args)) > 0, Len(AllParts(args)) < 1000
  PROVE  IsQueryOf(build_multibuffer(BuildRESP(args)), AllParts(args))
<1> DEFINE q == AddArguments(Reserved, args)
           texts == AllParts(args)
           n == Len(texts)
           r == BuildRESP(args)
           h == Line(Star, Decimal(n))
<1>1. q.pcount = n /\ q \in Query /\ Building(q, texts)
  BY ArgumentsBuilt DEF IsBuilding
<1>2. n > 0 /\ n < 1000 /\ n \in Nat
  BY <1>1 DEF Query
<1> HIDE DEF q, texts
<1>3. PICK body, ext :
        /\ Fits(ext, body)
        /\ q.text = Reserved.text \o body
        /\ q.ext = Moved(ext, query_pref_max_size)
        /\ Encodes(Sent(body, ext), texts)
        /\ body = <<>> \/ body[1] = Dollar
        /\ texts # <<>> => body # <<>>
  BY <1>1 DEF Building
<1>4. body # <<>> /\ body[1] = Dollar /\ body \in Seq(Byte)
  <2>1. texts # <<>>
    BY <1>2
  <2> QED
    BY <1>3, <2>1 DEF Fits
<1> HIDE DEF n
<1>5. h \in Seq(Byte) /\ Len(h) = pref_len(n)
  BY <1>2, HeaderLength
<1>6. r.text = h \o body
  <2> DEFINE w == WriteHeader(q.text, q.pcount)
  <2>1. r.text = SubSeq(w, query_pref_max_size - pref_len(q.pcount) + 1, Len(w))
    <3>1. r = ins_query_prefix(q)
      BY DEF BuildRESP, q
    <3>2. ins_query_prefix(q).text = SubSeq(w, query_pref_max_size - pref_len(q.pcount) + 1, Len(w))
      BY <1>1 DEF ins_query_prefix, Query
    <3> QED
      BY <3>1, <3>2
  <2> DEFINE v == WriteHeader(Reserved.text \o body, n)
  <2>2. w = v /\ q.pcount = n
    BY <1>1, <1>3
  <2>3. SubSeq(v, query_pref_max_size - pref_len(n) + 1, Len(v)) = h \o body
    BY <1>2, <1>4, HeaderWritten
  <2> HIDE DEF v, w, h
  <2> QED
    BY <2>1, <2>2, <2>3
<1>7. r.ext = Moved(ext, Len(h))
  <2> DEFINE trimmed == query_pref_max_size - pref_len(q.pcount)
  <2>1. r.ext = [i \in DOMAIN q.ext |-> [q.ext[i] EXCEPT !.pos = @ - trimmed]]
    <3>1. r = ins_query_prefix(q)
      BY DEF BuildRESP, q
    <3>2. ins_query_prefix(q).ext = [i \in DOMAIN q.ext |-> [q.ext[i] EXCEPT !.pos = @ - trimmed]]
      BY <1>1 DEF ins_query_prefix, Query
    <3> QED
      BY <3>1, <3>2
  <2> QED
    BY <1>1, <1>2, <1>3, <1>5, <2>1, PlacesTrimmed
<1> HIDE DEF h, r
<1>8. build_multibuffer(r) = h \o Sent(body, ext)
  <2>1. build_multibuffer(r) = Sent(h \o body, Moved(ext, Len(h)))
    BY <1>6, <1>7, SentIsBuilt
  <2>2. Sent(h \o body, Moved(ext, Len(h))) = h \o Sent(body, ext)
    BY <1>3, <1>5, SentMoved
  <2> QED
    BY <2>1, <2>2
<1>9. IsQueryOf(h \o Sent(body, ext), texts)
  <2>1. Len(texts) > 0 /\ Len(texts) < 1000
    BY <1>2 DEF n
  <2> QED
    BY <1>3, <2>1, EncodedQuery DEF h, n
<1> QED
  BY <1>8, <1>9 DEF r, texts

(* So do the fast constructors for a command alone and for a command with    *)
(* one text (q_fast_build_1, q_fast_build_2).  The one for two texts does    *)
(* not: the run query_fast_set shows it.                                    *)
THEOREM FastQueryIsWellFormed ==
  ASSUME NEW cmd \in Seq(Byte), NEW texts \in Seq(Seq(Byte)), Len(texts) <= 1
  PROVE  IsQueryOf(FastQuery(cmd, texts), <<cmd>> \o CTexts(texts))
<1> DEFINE S == Seq(Byte)
           one == Bulk(cmd)
<1>1. one \in S
  BY BulkBytes
<1>2. Encodes(one, <<cmd>>)
  <2>1. Encodes(<<>> \o Bulk(cmd), Append(<<>>, cmd))
    BY EncodesNone, EncodesNext
  <2>2. <<>> \o one = one
    <3> HIDE DEF one
    <3> QED
      BY <1>1, ConcatEmptySeq
  <2>3. Append(<<>>, cmd) = <<cmd>>
    OBVIOUS
  <2> QED
    BY <2>1, <2>2, <2>3
<1>3. CASE texts = <<>>
  <2>1. FastQuery(cmd, texts) = Line(Star, Decimal(1)) \o one
    BY <1>3 DEF FastQuery, q_fast_build_1
  <2>2. <<cmd>> \o CTexts(texts) = <<cmd>>
    <3>1. CTexts(texts) = <<>>
      <4>1. Len(texts) = 0
        BY <1>3
      <4> QED
        BY <4>1 DEF CTexts
    <3>2. <<cmd>> \in Seq(Seq(Byte))
      OBVIOUS
    <3> QED
      BY <3>1, <3>2, ConcatEmptySeq
  <2>3. Len(<<cmd>>) = 1
    OBVIOUS
  <2> HIDE DEF one
  <2>4. IsQueryOf(Line(Star, Decimal(Len(<<cmd>>))) \o one, <<cmd>>)
    <3> DEFINE v == <<cmd>>
    <3>1. Encodes(one, v) /\ Len(v) > 0 /\ Len(v) < 1000
      BY <1>2, <2>3
    <3> HIDE DEF v
    <3>2. IsQueryOf(Line(Star, Decimal(Len(v))) \o one, v)
      BY <3>1, EncodedQuery
    <3> QED
      BY <3>2 DEF v
  <2> QED
    BY <2>1, <2>2, <2>3, <2>4
<1>4. CASE Len(texts) = 1
  <2> DEFINE c == CText(texts[1])
             two == Bulk(c)
             v == Append(<<cmd>>, c)
  <2>1. texts[1] \in Seq(Byte) /\ texts # <<>>
    BY <1>4, OneAtMost
  <2>2. c \in Seq(Byte)
    BY <2>1, CTextFacts
  <2>3. two \in S
    <3> HIDE DEF c
    <3> QED
      BY <2>2, BulkBytes
  <2>4. Encodes(one \o two, v)
    <3> HIDE DEF one, c
    <3> QED
      BY <1>2, <2>2, EncodesNext
  <2>5. FastQuery(cmd, texts) = Line(Star, Decimal(2)) \o one \o two
    BY <1>4, <2>1 DEF FastQuery, q_fast_build_2
  <2>6. (Line(Star, Decimal(2)) \o one) \o two = Line(Star, Decimal(2)) \o (one \o two)
    <3> DEFINE h == Line(Star, Decimal(2))
    <3>1. h \in S
      <4> DEFINE d == Decimal(2)
      <4>1. d \in Seq(Byte) /\ Star \in Byte
        BY DecimalBytes DEF Star, Byte
      <4> HIDE DEF d
      <4> QED
        BY <4>1, LineBytes DEF d
    <3>2. h \in Seq(Byte) /\ one \in Seq(Byte) /\ two \in Seq(Byte)
      BY <1>1, <2>3, <3>1
    <3> HIDE DEF h, one, two
    <3>3. (h \o one) \o two = h \o (one \o two)
      BY <3>2, ConcatAssociative
    <3> QED
      BY <3>3 DEF h
  <2>7. <<cmd>> \o CTexts(texts) = v
    <3>1. CTexts(texts) = <<c>>
      <4>1. CTexts(texts) = [i \in 1..1 |-> CText(texts[i])]
        BY <1>4 DEF CTexts
      <4>2. [i \in 1..1 |-> CText(texts[i])] = <<CText(texts[1])>>
        OBVIOUS
      <4> QED
        BY <4>1, <4>2
    <3> DEFINE u == <<cmd>>
    <3>2. u \in Seq(Seq(Byte)) /\ c \in Seq(Byte)
      BY <2>2
    <3> HIDE DEF u, c
    <3>3. u \o <<c>> = Append(u, c)
      BY <3>2, AppendIsConcat
    <3> QED
      BY <3>1, <3>3 DEF u
  <2>8. Len(v) = 2
    OBVIOUS
  <2> HIDE DEF v
  <2>9. IsQueryOf(Line(Star, Decimal(Len(v))) \o (one \o two), v)
    <3> HIDE DEF one, two
    <3>1. Len(v) > 0 /\ Len(v) < 1000
      BY <2>8
    <3> QED
      BY <2>4, <3>1, EncodedQuery
  <2> QED
    BY <2>5, <2>6, <2>7, <2>8, <2>9
<1>5. texts = <<>> \/ Len(texts) = 1
  BY OneAtMost
<1> QED
  BY <1>3, <1>4, <1>5
=============================================================================
