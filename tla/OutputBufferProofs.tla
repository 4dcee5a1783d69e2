------------------------- MODULE OutputBufferProofs -------------------------
(***************************************************************************)
(* Proofs about OutputBuffer, for every limit and block size the code could *)
(* be built with and for queries of any sizes.                             *)
(***************************************************************************)
EXTENDS OutputBuffer, SequenceFacts

Byte == 0..(Labels - 1)

-----------------------------------------------------------------------------
(* The sizes that calculate_mem computes.                                   *)

(* The record of the reserved memory stays a number when it wraps around.   *)
LEMMA MemIsNat ==
  ASSUME NEW top \in Nat, NEW block \in Nat \ {0}
  PROVE  calculate_mem(top, block) \in Nat
BY LimitAssumption, BlocksForTwice DEF calculate_mem

(* For a block that fits under the limit it is enough.                      *)
LEMMA MemIsEnough ==
  ASSUME NEW top \in Nat, NEW block \in Nat \ {0}, top + block <= MaxBuff
  PROVE  calculate_mem(top, block) > top + block
<1>1. top + top + 2 * block < SizeT
  BY LimitAssumption, BlockAssumption
<1>2. calculate_mem(top, block) \in Nat /\ calculate_mem(top, block) > top + top + block
  BY <1>1, LimitAssumption, BlocksForTwice DEF calculate_mem
<1> QED
  BY <1>2

(* A new buffer is within the limit.                                        *)
LEMMA NewBuffer == new_buff \in Buffer /\ new_buff.reserved <= MaxBuff
<1>1. calculate_mem(0, BasicBlock) \in Nat /\ calculate_mem(0, BasicBlock) <= 0 + 0 + 2 * BasicBlock
  BY LimitAssumption, BlocksForTwice DEF calculate_mem
<1> QED
  BY <1>1, LimitAssumption, BlockAssumption DEF new_buff, Buffer

-----------------------------------------------------------------------------
(* Sequences of bytes.                                                      *)

(* What begins a sequence begins it when bytes are added at the end.         *)
LEMMA PrefixOfConcat ==
  ASSUME NEW S, NEW s \in Seq(S), NEW t \in Seq(S), NEW r \in Seq(S), IsPrefix(s, t)
  PROVE  IsPrefix(s, t \o r)
<1>1. Len(s) \in 0..Len(t) /\ Len(t) \in Nat /\ Len(t \o r) >= Len(t)
  BY DEF IsPrefix
<1>2. SubSeq(t \o r, 1, Len(s)) = SubSeq(t, 1, Len(s))
  BY <1>1, SubSeqOfConcat1
<1> QED
  BY <1>1, <1>2 DEF IsPrefix

(* A sequence begins what it is the beginning of.                           *)
LEMMA ConcatHasPrefix ==
  ASSUME NEW S, NEW s \in Seq(S), NEW r \in Seq(S)
  PROVE  IsPrefix(s, s \o r)
<1>1. Len(s) \in Nat /\ Len(s \o r) >= Len(s) /\ Len(s) <= Len(s)
  OBVIOUS
<1>2. SubSeq(s \o r, 1, Len(s)) = SubSeq(s, 1, Len(s))
  BY <1>1, SubSeqOfConcat1
<1> QED
  BY <1>1, <1>2 DEF IsPrefix

(* Taking bytes off the first of two sequences takes them off the whole.     *)
LEMMA DropFromConcat ==
  ASSUME NEW S, NEW s \in Seq(S), NEW r \in Seq(S), NEW n \in 0..Len(s)
  PROVE  SubSeq(s \o r, n + 1, Len(s \o r)) = SubSeq(s, n + 1, Len(s)) \o r
<1>1. Len(s) \in Nat /\ Len(r) \in Nat /\ Len(s \o r) = Len(s) + Len(r) /\ s \o r \in Seq(S)
  OBVIOUS
<1>2. /\ SubSeq(s, n + 1, Len(s)) \in Seq(S)
      /\ Len(SubSeq(s, n + 1, Len(s))) = Len(s) - n
      /\ \A i \in 1..Len(s) - n : SubSeq(s, n + 1, Len(s))[i] = s[n + i]
  OBVIOUS
<1>3. /\ SubSeq(s \o r, n + 1, Len(s \o r)) \in Seq(S)
      /\ Len(SubSeq(s \o r, n + 1, Len(s \o r))) = Len(s) + Len(r) - n
      /\ \A i \in 1..Len(s) + Len(r) - n : SubSeq(s \o r, n + 1, Len(s \o r))[i] = (s \o r)[n + i]
  BY <1>1
<1> DEFINE a == SubSeq(s, n + 1, Len(s))
           b == SubSeq(s \o r, n + 1, Len(s \o r))
<1>4. /\ a \o r \in Seq(S) /\ Len(a \o r) = Len(s) + Len(r) - n
      /\ \A i \in 1..Len(s) + Len(r) - n :
           (a \o r)[i] = IF i <= Len(s) - n THEN a[i] ELSE r[i - (Len(s) - n)]
  <2>1. a \in Seq(S) /\ Len(a) = Len(s) - n
    BY <1>2
  <2> HIDE DEF a
  <2>2. /\ a \o r \in Seq(S) /\ Len(a \o r) = Len(a) + Len(r)
        /\ \A i \in 1..Len(a) + Len(r) :
             (a \o r)[i] = IF i <= Len(a) THEN a[i] ELSE r[i - Len(a)]
    BY <2>1, ConcatProperties
  <2> QED
    BY <1>1, <2>1, <2>2
<1>5. \A i \in 1..Len(s) + Len(r) :
        (s \o r)[i] = IF i <= Len(s) THEN s[i] ELSE r[i - Len(s)]
  BY ConcatProperties
<1>6. ASSUME NEW i \in 1..Len(s) + Len(r) - n
      PROVE  b[i] = (a \o r)[i]
  <2>1. b[i] = (s \o r)[n + i] /\ n + i \in 1..Len(s) + Len(r)
    BY <1>1, <1>3
  <2>2. CASE i <= Len(s) - n
    <3>1. n + i <= Len(s) /\ i \in 1..Len(s) - n
      BY <1>1, <2>2
    <3> QED
      BY <1>2, <1>4, <1>5, <2>1, <2>2, <3>1
  <2>3. CASE i > Len(s) - n
    <3>1. n + i > Len(s) /\ (n + i) - Len(s) = i - (Len(s) - n)
      BY <1>1, <2>3
    <3> HIDE DEF a, b
    <3> QED
      BY <1>1, <1>4, <1>5, <2>1, <2>3, <3>1
  <2> QED
    BY <1>1, <2>2, <2>3
<1> QED
  BY <1>3, <1>4, <1>6, SeqEqual

-----------------------------------------------------------------------------
(* The steps.                                                              *)

(* The bytes that add_query writes.                                         *)
Bytes(sz) == [k \in 1..sz |-> (label + k - 1) % Labels]

(* They are as many as it was asked for.                                    *)
LEMMA BytesAreBytes ==
  ASSUME TypeOK, NEW sz \in Nat
  PROVE  Bytes(sz) \in Seq(Byte) /\ Len(Bytes(sz)) = sz
<1>1. \A x \in Nat : x % Labels \in Byte
  BY QueryAssumption DEF Byte
<1>2. \A k \in 1..sz : label + k - 1 \in Nat
  BY QueryAssumption DEF TypeOK
<1>3. \A k \in 1..sz : (label + k - 1) % Labels \in Byte
  BY <1>1, <1>2
<1> QED
  BY <1>3 DEF Bytes

(* A buffer with two fields changed, as a record.                           *)
LEMMA ExceptIsRecord ==
  ASSUME NEW b \in Buffer, NEW x, NEW y
  PROVE  [b EXCEPT !.size = x, !.reserved = y] = [top |-> b.top, size |-> x, reserved |-> y]
<1> DEFINE c == [b EXCEPT !.size = x]
<1>1. c = [top |-> b.top, size |-> x, reserved |-> b.reserved]
  BY DEF Buffer
<1> HIDE DEF c
<1>2. [c EXCEPT !.reserved = y] = [top |-> c.top, size |-> c.size, reserved |-> y]
  BY <1>1
<1>3. [b EXCEPT !.size = x, !.reserved = y] = [c EXCEPT !.reserved = y]
  BY DEF c
<1> QED
  BY <1>1, <1>2, <1>3

(* release makes room for the bytes and keeps to its record; for a query     *)
(* that check_overflow let pass it throws only if a line end was added.     *)
LEMMA ReleaseFacts ==
  ASSUME IInv, NEW n \in Sizes, NEW plus_rn \in BOOLEAN, ~check_overflow(n)
  PROVE  LET sz == Written(n, plus_rn)
             released == release(buff, sz)
         IN /\ sz \in Nat \ {0} /\ buff.top + sz <= MaxBuff + 1
            /\ ReleaseThrows(buff, sz) => plus_rn
            /\ ~ReleaseThrows(buff, sz) =>
                 /\ released \in Buffer /\ released.top = buff.top
                 /\ buff.top + sz <= released.size /\ released.size <= released.reserved
                 /\ Reallocates(buff, sz) => released.reserved <= MaxBuff
                 /\ ~Reallocates(buff, sz) => released.reserved = buff.reserved
<1> DEFINE sz == Written(n, plus_rn)
           released == release(buff, sz)
<1>1. /\ n \in Nat \ {0} /\ buff.top + n < MaxBuff /\ MaxBuff \in Nat
      /\ buff \in Buffer /\ buff.top \in Nat /\ buff.size \in Nat /\ buff.reserved \in Nat
      /\ buff.top <= buff.size /\ buff.size <= buff.reserved
  BY QueryAssumption, LimitAssumption DEF IInv, TypeOK, MemoryMatchesRecord, OffsetsOK, check_overflow, Buffer
<1>2. sz \in Nat \ {0} /\ buff.top + sz <= MaxBuff + 1 /\ (~plus_rn => sz = n)
  BY <1>1 DEF Written
<1> HIDE DEF sz
<1>3. ReleaseThrows(buff, sz) => plus_rn
  BY <1>1, <1>2 DEF ReleaseThrows
<1>4. ASSUME ~ReleaseThrows(buff, sz)
      PROVE  /\ released \in Buffer /\ released.top = buff.top
             /\ buff.top + sz <= released.size /\ released.size <= released.reserved
             /\ Reallocates(buff, sz) => released.reserved <= MaxBuff
             /\ ~Reallocates(buff, sz) => released.reserved = buff.reserved
  <2>1. /\ released.top = buff.top
        /\ released.size = IF sz < size_avail(buff) THEN buff.size ELSE buff.top + sz
        /\ released.reserved = IF Reallocates(buff, sz) THEN AtMostMax(calculate_mem(buff.top, sz))
                               ELSE buff.reserved
        /\ released = [top |-> released.top, size |-> released.size, reserved |-> released.reserved]
    <3>1. released = [top |-> buff.top,
                      size |-> IF sz < size_avail(buff) THEN buff.size ELSE buff.top + sz,
                      reserved |-> IF Reallocates(buff, sz) THEN AtMostMax(calculate_mem(buff.top, sz))
                                   ELSE buff.reserved]
      BY <1>1, ExceptIsRecord DEF release
    <3> QED
      BY <3>1
  <2>2. CASE Reallocates(buff, sz)
    <3>1. buff.top + sz <= MaxBuff /\ sz >= buff.size - buff.top
      BY <1>1, <1>2, <1>4, <2>2 DEF ReleaseThrows, Reallocates, size_avail
    <3>2. calculate_mem(buff.top, sz) \in Nat /\ calculate_mem(buff.top, sz) > buff.top + sz
      BY <1>1, <1>2, <3>1, MemIsNat, MemIsEnough
    <3>3. released.size = buff.top + sz
      BY <1>1, <1>2, <2>1, <3>1 DEF size_avail
    <3>4. released.reserved = AtMostMax(calculate_mem(buff.top, sz))
      BY <2>1, <2>2
    <3>5. released.reserved \in Nat /\ released.reserved <= MaxBuff /\ released.size <= released.reserved
      BY <1>1, <1>2, <3>1, <3>2, <3>3, <3>4 DEF AtMostMax
    <3>6. released.size \in Nat
      BY <1>1, <1>2, <3>3
    <3> QED
      BY <1>1, <1>2, <2>1, <2>2, <3>3, <3>5, <3>6 DEF Buffer
  <2>3. CASE ~Reallocates(buff, sz)
    <3>1. released.reserved = buff.reserved
      BY <2>1, <2>3
    <3>2. /\ released.size \in Nat /\ buff.top + sz <= released.size
          /\ released.size <= released.reserved
      BY <1>1, <1>2, <2>1, <2>3, <3>1 DEF size_avail, Reallocates
    <3> QED
      BY <1>1, <2>1, <2>3, <3>1, <3>2 DEF Buffer
  <2> QED
    BY <2>2, <2>3
<1> QED
  BY <1>2, <1>3, <1>4 DEF sz

(* What is left of the frozen block is bytes.                               *)
LEMMA FrozenPart ==
  ASSUME TypeOK
  PROVE  /\ SubSeq(frozen_data, frozen_sended + 1, frozen_top) \in Seq(Byte)
         /\ Len(SubSeq(frozen_data, frozen_sended + 1, frozen_top)) = frozen_top - frozen_sended
<1>1. frozen_data \in Seq(Byte) /\ Len(frozen_data) = frozen_top /\ frozen_sended \in 0..frozen_top
  BY DEF TypeOK, Byte
<1> QED
  BY <1>1

(* The first buffer is empty, and has all it says it has.                   *)
LEMMA InitInv == Init => IInv
<1> SUFFICES ASSUME Init
             PROVE  IInv
  OBVIOUS
<1>1. buff \in Buffer /\ buff.top = 0 /\ buff.size = 0 /\ buff.reserved <= MaxBuff /\ buff.reserved \in Nat
  BY NewBuffer DEF Init, new_buff, Buffer
<1>2. TypeOK
  <2>1. allocated \in 0..MaxBuff
    BY <1>1, LimitAssumption DEF Init
  <2>2. <<>> \in Seq(Byte) /\ Len(<<>>) = 0 /\ 0 \in 0..0 /\ 0 \in Byte
    BY QueryAssumption DEF Byte
  <2> QED
    BY <1>1, <2>1, <2>2 DEF Init, TypeOK, Byte
<1>3. MemoryMatchesRecord /\ NoOverrun /\ OffsetsOK
  BY <1>1, LimitAssumption DEF Init, MemoryMatchesRecord, NoOverrun, OffsetsOK, AtMostMax
<1>4. BytesInOrder /\ FrozenOK
  <2>1. SubSeq(<<>>, 0 + 1, 0) \o <<>> = <<>> /\ IsPrefix(<<>>, <<>>)
    BY DEF IsPrefix
  <2> QED
    BY <2>1 DEF Init, BytesInOrder, FrozenOK
<1> QED
  BY <1>2, <1>3, <1>4 DEF IInv

(* add_query: what is added follows what is owed, in memory that is there.   *)
LEMMA AddStep ==
  ASSUME IInv, NEW n \in Sizes, NEW plus_rn \in BOOLEAN, add_query(n, plus_rn)
  PROVE  IInv'
<1> DEFINE sz == Written(n, plus_rn)
           released == release(buff, sz)
<1>1. /\ sz \in Nat \ {0} /\ buff.top + sz <= MaxBuff + 1
      /\ ReleaseThrows(buff, sz) => plus_rn
      /\ ~ReleaseThrows(buff, sz) =>
           /\ released \in Buffer /\ released.top = buff.top
           /\ buff.top + sz <= released.size /\ released.size <= released.reserved
           /\ Reallocates(buff, sz) => released.reserved <= MaxBuff
           /\ ~Reallocates(buff, sz) => released.reserved = buff.reserved
  BY ReleaseFacts DEF add_query
<1>2. CASE ReleaseThrows(buff, sz)
  <2>1. state' = "line_threw"
        /\ UNCHANGED <<buff, allocated, data, frozenVars, out, owed, label>>
    BY <1>1, <1>2 DEF add_query
  <2> QED
    BY <2>1 DEF IInv, TypeOK, BytesInOrder, MemoryMatchesRecord, NoOverrun, OffsetsOK, FrozenOK, frozenVars
<1>3. CASE ~ReleaseThrows(buff, sz)
  <2>1. /\ allocated' = IF Reallocates(buff, sz) THEN released.reserved ELSE allocated
        /\ buff' = accept(released, sz)
        /\ data' = data \o Bytes(sz)
        /\ owed' = owed \o Bytes(sz)
        /\ label' = (label + sz) % Labels
        /\ UNCHANGED <<frozenVars, out, state>>
    BY <1>3 DEF add_query, Bytes
  <2>2. Bytes(sz) \in Seq(Byte) /\ Len(Bytes(sz)) = sz
    BY <1>1, BytesAreBytes DEF IInv
  <2> HIDE DEF sz, released
  <2>3. /\ buff \in Buffer /\ buff.top \in Nat /\ buff.reserved \in Nat /\ MaxBuff \in Nat
        /\ buff' \in Buffer /\ buff'.top = buff.top + sz
        /\ buff'.size = released.size /\ buff'.reserved = released.reserved
    <3>1. buff \in Buffer /\ released \in Buffer /\ released.top = buff.top /\ sz \in Nat
      BY <1>1, <1>3 DEF IInv, TypeOK
    <3>2. buff' = [top |-> released.top + sz, size |-> released.size, reserved |-> released.reserved]
      BY <2>1, <3>1 DEF accept, Buffer
    <3> QED
      BY <3>1, <3>2, LimitAssumption DEF Buffer
  <2>4. MemoryMatchesRecord' /\ OffsetsOK'
    <3>1. allocated' = AtMostMax(buff'.reserved)
      BY <1>1, <1>3, <2>1, <2>3 DEF IInv, MemoryMatchesRecord, AtMostMax, Buffer
    <3> QED
      BY <1>1, <1>3, <2>3, <3>1 DEF MemoryMatchesRecord, OffsetsOK
  <2>5. NoOverrun'
    <3>1. buff'.top <= buff'.reserved /\ buff'.top <= MaxBuff + 1 /\ allocated' = AtMostMax(buff'.reserved)
          /\ buff'.top \in Nat /\ buff'.reserved \in Nat
      BY <1>1, <1>3, <2>3, <2>4 DEF MemoryMatchesRecord, Buffer
    <3>2. buff'.top <= allocated' \/ (allocated' = MaxBuff /\ buff'.top = MaxBuff + 1)
      BY <2>3, <3>1 DEF AtMostMax
    <3> QED
      BY <2>1, <3>2 DEF IInv, NoOverrun
  <2>6. /\ data \in Seq(Byte) /\ Len(data) = buff.top /\ owed \in Seq(Byte) /\ out \in Seq(Byte)
        /\ frozen_data \in Seq(Byte)
    BY DEF IInv, TypeOK, Byte
  <2>7. data' \in Seq(Byte) /\ Len(data') = buff'.top /\ owed' \in Seq(Byte)
    <3>1. \A t, u \in Seq(Byte) : t \o u \in Seq(Byte) /\ Len(t \o u) = Len(t) + Len(u)
      BY ConcatProperties
    <3>2. data \o Bytes(sz) \in Seq(Byte) /\ Len(data \o Bytes(sz)) = Len(data) + Len(Bytes(sz))
      BY <2>2, <2>6, <3>1
    <3>3. owed \o Bytes(sz) \in Seq(Byte)
      BY <2>2, <2>6, <3>1
    <3> QED
      BY <2>1, <2>2, <2>3, <2>6, <3>2, <3>3
  <2>8. allocated' \in 0..MaxBuff /\ label' \in Byte
    <3>1. \A x \in Nat : x % Labels \in Byte
      BY QueryAssumption DEF Byte
    <3>2. label + sz \in Nat
      BY <1>1, QueryAssumption DEF IInv, TypeOK
    <3> QED
      BY <2>1, <2>3, <2>4, <3>1, <3>2 DEF MemoryMatchesRecord, AtMostMax, Buffer
  <2>9. TypeOK'
    BY <2>1, <2>3, <2>7, <2>8 DEF IInv, TypeOK, Byte, frozenVars
  <2>10. BytesInOrder'
    <3> DEFINE rest == SubSeq(frozen_data, frozen_sended + 1, frozen_top)
    <3>1. rest \in Seq(Byte)
      BY <2>6, FrozenPart DEF IInv
    <3>2. owed = rest \o data /\ IsPrefix(out, owed)
      BY DEF IInv, BytesInOrder
    <3> HIDE DEF rest
    <3>3. owed' = rest \o data'
      <4>1. \A t, u, v \in Seq(Byte) : (t \o u) \o v = t \o (u \o v)
        BY ConcatAssociative
      <4>2. (rest \o data) \o Bytes(sz) = rest \o (data \o Bytes(sz))
        BY <2>2, <2>6, <3>1, <4>1
      <4> QED
        BY <2>1, <3>2, <4>2
    <3>4. IsPrefix(out, owed \o Bytes(sz))
      BY <2>2, <2>6, <3>2, PrefixOfConcat
    <3> QED
      BY <2>1, <3>3, <3>4 DEF rest, IInv, BytesInOrder, frozenVars
  <2>11. FrozenOK'
    BY <2>1 DEF IInv, FrozenOK, frozenVars
  <2> QED
    BY <2>4, <2>5, <2>9, <2>10, <2>11 DEF IInv
<1> QED
  BY <1>2, <1>3

(* The main block is empty after a reset and has no more than it records.    *)
LEMMA EmptyBlock ==
  ASSUME NEW b \in Buffer, b.top = 0, b.size = 0, buff' = b, allocated' = AtMostMax(b.reserved),
         state' # "threw"
  PROVE  /\ MemoryMatchesRecord' /\ NoOverrun' /\ OffsetsOK'
         /\ buff' \in Buffer /\ buff'.top = 0 /\ allocated' \in 0..MaxBuff
<1>1. b.reserved \in Nat /\ MaxBuff \in Nat
  BY LimitAssumption DEF Buffer
<1>2. AtMostMax(b.reserved) \in 0..MaxBuff
  BY <1>1 DEF AtMostMax
<1> QED
  BY <1>1, <1>2 DEF MemoryMatchesRecord, NoOverrun, OffsetsOK

(* get_buffer: the write begins with the first byte owed.                    *)
LEMMA GetBufferStep ==
  ASSUME IInv, get_buffer
  PROVE  IInv'
<1>1. /\ state = "idle" /\ state' = "writing" /\ UNCHANGED <<owed, label>>
      /\ out' = SubSeq(frozen_data', frozen_sended + 1, frozen_top')
  BY DEF get_buffer, FirstUnsent
<1>2. /\ data \in Seq(Byte) /\ Len(data) = buff.top /\ owed \in Seq(Byte)
      /\ frozen_data \in Seq(Byte) /\ frozen_top = Len(frozen_data)
      /\ buff \in Buffer /\ buff.top \in Nat /\ buff.reserved \in Nat
      /\ frozen_sended \in 0..frozen_top
  BY DEF IInv, TypeOK, Byte, Buffer
<1>3. CASE have_frozen
  <2>1. UNCHANGED <<buff, allocated, data, frozenVars>>
    BY <1>3 DEF get_buffer
  <2>2. out' \in Seq(Byte) /\ Len(out') = frozen_top - frozen_sended
    BY <1>1, <2>1, FrozenPart DEF IInv, frozenVars
  <2>3. frozen_sended < frozen_top /\ frozen_top \in Nat
    BY <1>2, <1>3 DEF IInv, FrozenOK
  <2>4. TypeOK'
    BY <1>1, <2>1, <2>2 DEF IInv, TypeOK, Byte, frozenVars
  <2>5. out' # <<>>
    BY <1>2, <2>2, <2>3
  <2>6. owed = out' \o data
    BY <1>1, <2>1 DEF IInv, BytesInOrder, frozenVars
  <2>7. IsPrefix(out', owed)
    BY <1>2, <2>2, <2>6, ConcatHasPrefix
  <2>8. BytesInOrder'
    BY <1>1, <2>1, <2>5, <2>6, <2>7 DEF BytesInOrder, frozenVars
  <2>9. MemoryMatchesRecord' /\ NoOverrun' /\ OffsetsOK'
    BY <1>1, <2>1 DEF IInv, MemoryMatchesRecord, NoOverrun, OffsetsOK
  <2>10. FrozenOK'
    BY <1>1, <1>3, <2>1, <2>3 DEF IInv, FrozenOK, FirstUnsent, frozenVars
  <2> QED
    BY <2>4, <2>8, <2>9, <2>10 DEF IInv
<1>4. CASE ~have_frozen
  <2>1. /\ frozen_data' = data /\ frozen_top' = buff.top /\ have_frozen' = TRUE
        /\ remalloc_free_mem /\ data' = <<>> /\ frozen_sended' = frozen_sended
    BY <1>4 DEF get_buffer
  <2>2. frozen_top = 0 /\ frozen_sended = 0 /\ frozen_data = <<>>
    BY <1>2, <1>4 DEF IInv, FrozenOK
  <2>3. buff.top # 0
    BY <1>4 DEF get_buffer, nothing_to_send
  <2>4. free_block \in Nat \ {0}
    BY <1>2, LimitAssumption DEF free_block
  <2>5. remalloc_size \in Nat
    BY <1>2, <2>4, MemIsNat DEF remalloc_size
  <2> DEFINE b == [top |-> 0, size |-> 0, reserved |-> remalloc_size]
  <2>6. b \in Buffer /\ buff' = b /\ allocated' = AtMostMax(b.reserved)
    BY <1>2, <2>1, <2>5 DEF remalloc_free_mem, soft_reset, Buffer
  <2>7. /\ MemoryMatchesRecord' /\ NoOverrun' /\ OffsetsOK'
        /\ buff' \in Buffer /\ buff'.top = 0 /\ allocated' \in 0..MaxBuff
    BY <1>1, <2>6, EmptyBlock
  <2>8. out' = data
    <3>1. out' = SubSeq(data, 1, Len(data))
      BY <1>1, <1>2, <2>1, <2>2
    <3> QED
      BY <1>2, <3>1, SubSeqFull
  <2>9. TypeOK'
    <3>1. /\ <<>> \in Seq(Byte) /\ Len(<<>>) = 0 /\ 0 \in 0..frozen_top'
          /\ owed' \in Seq(Byte) /\ label' \in Byte
      BY <1>1, <1>2, <2>1 DEF IInv, TypeOK, Byte
    <3>2. /\ data' \in Seq(Byte) /\ Len(data') = buff'.top
          /\ frozen_data' \in Seq(Byte) /\ Len(frozen_data') = frozen_top'
          /\ frozen_sended' \in 0..frozen_top' /\ out' \in Seq(Byte)
      BY <1>2, <2>1, <2>2, <2>7, <2>8, <3>1
    <3> QED
      BY <1>1, <2>1, <2>7, <3>1, <3>2 DEF TypeOK, Byte
  <2>10. owed = data
    <3>1. SubSeq(<<>>, 0 + 1, 0) = <<>>
      OBVIOUS
    <3> QED
      BY <1>2, <2>2, <3>1 DEF IInv, BytesInOrder
  <2>11. BytesInOrder'
    <3>1. SubSeq(data, 0 + 1, Len(data)) \o <<>> = data
      BY <1>2, SubSeqFull
    <3>2. IsPrefix(data, data)
      BY <1>2 DEF IsPrefix
    <3>3. data # <<>>
      BY <1>2, <2>3
    <3> QED
      BY <1>1, <1>2, <2>1, <2>2, <2>8, <2>10, <3>1, <3>2, <3>3 DEF BytesInOrder
  <2>12. FrozenOK'
    BY <1>1, <1>2, <2>1, <2>2, <2>3 DEF FrozenOK, FirstUnsent
  <2> QED
    BY <2>7, <2>9, <2>11, <2>12 DEF IInv
<1> QED
  BY <1>3, <1>4

(* sending_report: what the kernel took is owed no longer.                   *)
LEMMA ReportStep ==
  ASSUME IInv, NEW n \in 1..Len(out), sending_report(n)
  PROVE  IInv'
<1> DEFINE rest == SubSeq(frozen_data, frozen_sended + 1, frozen_top)
<1>1. /\ state' = "idle" /\ out' = <<>>
      /\ owed' = SubSeq(owed, n + 1, Len(owed))
      /\ UNCHANGED <<buff, allocated, data, label>>
  BY DEF sending_report
<1>2. have_frozen /\ out = rest
  BY DEF IInv, FrozenOK, sending_report, FirstUnsent
<1>3. /\ data \in Seq(Byte) /\ owed \in Seq(Byte) /\ frozen_data \in Seq(Byte)
      /\ Len(frozen_data) = frozen_top /\ frozen_top \in Nat /\ frozen_sended \in 0..frozen_top
  BY DEF IInv, TypeOK, Byte
<1>4. rest \in Seq(Byte) /\ Len(rest) = frozen_top - frozen_sended
  BY FrozenPart DEF IInv
<1>5. n \in Nat \ {0} /\ n \in 0..Len(rest) /\ frozen_sended + n <= frozen_top
      /\ frozen_sended + n \in Nat
  BY <1>2, <1>3, <1>4
<1>6. owed = rest \o data
  BY DEF IInv, BytesInOrder
<1>7. owed' = SubSeq(rest, n + 1, Len(rest)) \o data
  <2> HIDE DEF rest
  <2> QED
    BY <1>1, <1>3, <1>4, <1>5, <1>6, DropFromConcat
<1>8. SubSeq(rest, n + 1, Len(rest)) = SubSeq(frozen_data, (frozen_sended + n) + 1, frozen_top)
  <2>1. /\ SubSeq(rest, n + 1, Len(rest)) \in Seq(Byte)
        /\ Len(SubSeq(rest, n + 1, Len(rest))) = frozen_top - frozen_sended - n
        /\ \A i \in 1..(frozen_top - frozen_sended - n) : SubSeq(rest, n + 1, Len(rest))[i] = rest[n + i]
    <3> HIDE DEF rest
    <3> QED
      BY <1>3, <1>4, <1>5
  <2>2. \A j \in 1..(frozen_top - frozen_sended) : rest[j] = frozen_data[frozen_sended + j]
    BY <1>3
  <2>3. /\ SubSeq(frozen_data, (frozen_sended + n) + 1, frozen_top) \in Seq(Byte)
        /\ Len(SubSeq(frozen_data, (frozen_sended + n) + 1, frozen_top)) = frozen_top - frozen_sended - n
        /\ \A i \in 1..(frozen_top - frozen_sended - n) :
             SubSeq(frozen_data, (frozen_sended + n) + 1, frozen_top)[i] = frozen_data[frozen_sended + n + i]
    <3> DEFINE m == (frozen_sended + n) + 1
    <3>1. m \in 1..Len(frozen_data) + 1 /\ \A i \in m..frozen_top : frozen_data[i] \in Byte
      BY <1>3, <1>5
    <3>2. /\ frozen_top - m + 1 = frozen_top - frozen_sended - n
          /\ m > frozen_top => frozen_top - frozen_sended - n = 0
          /\ \A i \in Nat : m + i - 1 = frozen_sended + n + i
      BY <1>3, <1>5
    <3> HIDE DEF m
    <3>3. /\ SubSeq(frozen_data, m, frozen_top) \in Seq(Byte)
          /\ Len(SubSeq(frozen_data, m, frozen_top)) = IF m <= frozen_top THEN frozen_top - m + 1 ELSE 0
          /\ \A i \in 1..(frozen_top - m + 1) : SubSeq(frozen_data, m, frozen_top)[i] = frozen_data[m + i - 1]
      BY <1>3, <3>1, SubSeqProperties
    <3>4. /\ SubSeq(frozen_data, m, frozen_top) \in Seq(Byte)
          /\ Len(SubSeq(frozen_data, m, frozen_top)) = frozen_top - frozen_sended - n
          /\ \A i \in 1..(frozen_top - frozen_sended - n) :
               SubSeq(frozen_data, m, frozen_top)[i] = frozen_data[frozen_sended + n + i]
      BY SMTT(20), <1>3, <1>5, <3>1, <3>2, <3>3
    <3> QED
      BY <3>4 DEF m
  <2>4. \A i \in 1..(frozen_top - frozen_sended - n) :
          n + i \in 1..(frozen_top - frozen_sended) /\ frozen_sended + (n + i) = frozen_sended + n + i
    BY <1>3, <1>5
  <2>5. \A i \in 1..(frozen_top - frozen_sended - n) :
          SubSeq(rest, n + 1, Len(rest))[i] = SubSeq(frozen_data, (frozen_sended + n) + 1, frozen_top)[i]
    <3> HIDE DEF rest
    <3> QED
      BY <2>1, <2>2, <2>3, <2>4
  <2> HIDE DEF rest
  <2> QED
    BY <1>3, <1>5, <2>1, <2>3, <2>5, SeqEqual
<1>9. owed' \in Seq(Byte)
  <2>1. SubSeq(rest, n + 1, Len(rest)) \in Seq(Byte)
    <3> HIDE DEF rest
    <3> QED
      BY <1>4, <1>5
  <2> QED
    BY <1>3, <1>7, <2>1, ConcatProperties
<1>10. IsPrefix(<<>>, owed')
  BY <1>9 DEF IsPrefix
<1>11. CASE AllSent(frozen_sended + n)
  <2>1. have_frozen' = FALSE /\ frozen_sended' = 0 /\ frozen_top' = 0 /\ frozen_data' = <<>>
    BY <1>11 DEF sending_report
  <2>2. frozen_sended + n = frozen_top
    BY <1>3, <1>5, <1>11 DEF AllSent
  <2>3. owed' = SubSeq(<<>>, 0 + 1, 0) \o data
    <3>1. SubSeq(frozen_data, (frozen_sended + n) + 1, frozen_top) = <<>>
      BY <1>3, <2>2
    <3>2. SubSeq(<<>>, 0 + 1, 0) = <<>>
      OBVIOUS
    <3> QED
      BY <1>7, <1>8, <3>1, <3>2
  <2>4. BytesInOrder'
    BY <1>1, <1>10, <2>1, <2>3 DEF BytesInOrder
  <2>5. TypeOK'
    <3>1. <<>> \in Seq(Byte) /\ Len(<<>>) = 0 /\ 0 \in 0..0
      OBVIOUS
    <3> QED
      BY <1>1, <1>9, <2>1, <3>1 DEF IInv, TypeOK, Byte
  <2>6. FrozenOK' /\ MemoryMatchesRecord' /\ NoOverrun' /\ OffsetsOK'
    BY <1>1, <2>1 DEF IInv, FrozenOK, MemoryMatchesRecord, NoOverrun, OffsetsOK
  <2> QED
    BY <2>4, <2>5, <2>6 DEF IInv
<1>12. CASE ~AllSent(frozen_sended + n)
  <2>1. frozen_sended' = frozen_sended + n /\ UNCHANGED <<have_frozen, frozen_data, frozen_top>>
    BY <1>12 DEF sending_report
  <2>2. frozen_sended + n < frozen_top
    BY <1>3, <1>5, <1>12 DEF AllSent
  <2>3. BytesInOrder'
    BY <1>1, <1>7, <1>8, <1>10, <2>1 DEF BytesInOrder
  <2>4. TypeOK'
    BY <1>1, <1>3, <1>5, <1>9, <2>1 DEF IInv, TypeOK, Byte
  <2>5. FrozenOK' /\ MemoryMatchesRecord' /\ NoOverrun' /\ OffsetsOK'
    BY <1>1, <1>2, <2>1, <2>2 DEF IInv, FrozenOK, MemoryMatchesRecord, NoOverrun, OffsetsOK
  <2> QED
    BY <2>3, <2>4, <2>5 DEF IInv
<1> QED
  BY <1>11, <1>12

(* reset: nothing is owed, and the buffer is a new one.                      *)
LEMMA ResetStep ==
  ASSUME IInv, reset
  PROVE  IInv'
<1>1. /\ buff' = new_buff /\ allocated' = new_buff.reserved /\ data' = <<>>
      /\ have_frozen' = FALSE /\ frozen_data' = <<>> /\ frozen_top' = 0 /\ frozen_sended' = 0
      /\ out' = <<>> /\ owed' = <<>> /\ state' = "reset" /\ label' = label
  BY DEF reset
<1>2. /\ new_buff \in Buffer /\ new_buff.top = 0 /\ new_buff.size = 0
      /\ allocated' = AtMostMax(new_buff.reserved)
  BY <1>1, NewBuffer, LimitAssumption DEF new_buff, AtMostMax, Buffer
<1>3. /\ MemoryMatchesRecord' /\ NoOverrun' /\ OffsetsOK'
      /\ buff' \in Buffer /\ buff'.top = 0 /\ allocated' \in 0..MaxBuff
  BY <1>1, <1>2, EmptyBlock
<1>4. TypeOK'
  <2>1. <<>> \in Seq(Byte) /\ Len(<<>>) = 0 /\ 0 \in 0..0 /\ label \in Byte
    BY DEF IInv, TypeOK, Byte
  <2> QED
    BY <1>1, <1>3, <2>1 DEF TypeOK, Byte
<1>5. BytesInOrder' /\ FrozenOK'
  <2>1. SubSeq(<<>>, 0 + 1, 0) \o <<>> = <<>> /\ IsPrefix(<<>>, <<>>)
    BY DEF IsPrefix
  <2> QED
    BY <1>1, <2>1 DEF BytesInOrder, FrozenOK
<1> QED
  BY <1>3, <1>4, <1>5 DEF IInv

-----------------------------------------------------------------------------
(* Every reachable state satisfies the inductive invariant: the offsets stay *)
(* in their order while the record of the memory grows and wraps around.     *)
THEOREM Invariance == Spec => []IInv
<1>1. IInv /\ UNCHANGED vars => IInv'
  BY DEF vars, frozenVars, IInv, TypeOK, BytesInOrder, MemoryMatchesRecord, NoOverrun, OffsetsOK, FrozenOK
<1>2. IInv /\ [Next]_vars => IInv'
  BY <1>1, AddStep, GetBufferStep, ReportStep, ResetStep DEF Next
<1> QED
  BY <1>2, InitInv, PTL DEF Spec

(* Every variable keeps its type, whatever the calls (output_buff).          *)
THEOREM TypeCorrect == Spec => []TypeOK
<1>1. IInv => TypeOK
  BY DEF IInv
<1> QED
  BY <1>1, Invariance, PTL

(* The kernel gets the bytes in the order they were added, each once         *)
(* (add_query, get_buffer, sending_report).                                 *)
THEOREM StreamInOrder == Spec => []BytesInOrder
<1>1. IInv => BytesInOrder
  BY DEF IInv
<1> QED
  BY <1>1, Invariance, PTL

(* The allocation is what is recorded, up to the limit, and what is handed   *)
(* out is within it (release, remalloc_free_mem).                           *)
THEOREM RecordIsTrue == Spec => []MemoryMatchesRecord
<1>1. IInv => MemoryMatchesRecord
  BY DEF IInv
<1> QED
  BY <1>1, Invariance, PTL

(* Nothing is written past the allocation but the last byte of a line end,   *)
(* and only a line end makes release throw (check_overflow, add_query).      *)
THEOREM OneByteAtMost == Spec => []NoOverrun
<1>1. IInv => NoOverrun
  BY DEF IInv
<1> QED
  BY <1>1, Invariance, PTL
=============================================================================
