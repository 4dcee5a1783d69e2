--------------------------- MODULE RespInvariant ---------------------------
(***************************************************************************)
(* What a well-formed stream of replies is, and the inductive invariant of *)
(* the parser on such a stream, by which the properties of RespProto are   *)
(* proved.                                                                 *)
(***************************************************************************)
EXTENDS RespProto

(* The grammar.  Something stands at [from, to] when it is the bytes        *)
(* from + 1 .. to of the stream.                                           *)

Stands(bytes, from, to, text) ==
  /\ from + Len(text) = to /\ to <= Len(bytes)
  /\ \A k \in 1..Len(text) : bytes[from + k] = text[k]

LineText(bytes, from, to) == SubSeq(bytes, from + 2, to - 2)

(* A line has some text.  (The parser waits for a fourth byte, so that it   *)
(* holds an empty line back.)                                              *)
IsLine(bytes, from, to, mark) ==
  /\ from + 4 <= to /\ to <= Len(bytes)
  /\ bytes[from + 1] = mark
  /\ \A k \in (from + 2)..(to - 2) : bytes[k] # CR
  /\ bytes[to - 1] = CR /\ bytes[to] = LF

IsNumberLine(bytes, from, to, mark) ==
  /\ IsLine(bytes, from, to, mark)
  /\ \A k \in (from + 2)..(to - 2) : bytes[k] \in Zero..(Zero + 9)

IsSimple(bytes, from, to, v) ==
  \/ /\ IsLine(bytes, from, to, Plus)
     /\ v = [Empty EXCEPT !.sres = LineText(bytes, from, to), !.type = "simple_str"]
  \/ /\ IsLine(bytes, from, to, Minus)
     /\ v = [Empty EXCEPT !.sres = LineText(bytes, from, to), !.type = "error_str"]

IsInteger(bytes, from, to, v) ==
  /\ IsNumberLine(bytes, from, to, Colon)
  /\ v = [Empty EXCEPT !.ires = Value(LineText(bytes, from, to)), !.type = "integer"]

IsBulk(bytes, from, to, v) ==
  \E mid \in from..(to - 2) :
    LET n == to - 2 - mid
    IN /\ IsNumberLine(bytes, from, mid, Dollar)
       /\ n = Value(LineText(bytes, from, mid))
       /\ to <= Len(bytes)
       /\ v = [Empty EXCEPT !.sres = SubSeq(bytes, mid + 1, mid + n), !.type = "bulk_str"]

IsNullBulk(bytes, from, to, v) ==
  /\ Stands(bytes, from, to, <<Dollar, Minus, Zero + 1, CR, LF>>)
  /\ v = [Empty EXCEPT !.isnull = TRUE, !.type = "bulk_str"]

IsFlat(bytes, from, to, v) ==
  \/ IsSimple(bytes, from, to, v)
  \/ IsInteger(bytes, from, to, v)
  \/ IsBulk(bytes, from, to, v)
  \/ IsNullBulk(bytes, from, to, v)

IsEmptyArray(bytes, from, to, v) ==
  /\ Stands(bytes, from, to, <<Star, Zero, CR, LF>>)
  /\ v = [Empty EXCEPT !.isnull = TRUE]

(* The size of an array has three digits at most: the search for its end    *)
(* looks at a byte that has not been received, and could take three digits  *)
(* of a longer one for a size.                                              *)
IsHeader(bytes, from, to, n) ==
  /\ IsNumberLine(bytes, from, to, Star)
  /\ to <= from + 6
  /\ bytes[from + 2] # Zero
  /\ Value(LineText(bytes, from, to)) = n

(* A reply is flat, or an array of flat ones: what the code does with an    *)
(* array in an array is described in README.md.                             *)
IsArray(bytes, places, v) ==
  /\ v.ares # <<>> /\ v.ares \in Seq({v.ares[i] : i \in DOMAIN v.ares})
  /\ v = [Empty EXCEPT !.ares = v.ares]
  /\ Len(places) = Len(v.ares) + 2
  /\ IsHeader(bytes, places[1], places[2], Len(v.ares))
  /\ \A i \in DOMAIN v.ares : IsFlat(bytes, places[i + 1], places[i + 2], v.ares[i])

IsReply(bytes, places, v) ==
  /\ places \in Seq(Nat)
  /\ \A i, j \in DOMAIN places : i < j => places[i] < places[j]
  /\ \/ /\ Len(places) = 2
        /\ IsFlat(bytes, places[1], places[2], v) \/ IsEmptyArray(bytes, places[1], places[2], v)
     \/ IsArray(bytes, places, v)

(* Where a reply begins, the one after the last at the end of the stream.   *)
BeginOf(s, r) == IF r \in DOMAIN s.at THEN s.at[r][1] ELSE Len(s.bytes)
EndOf(s, r) == Last(s.at[r])

WellFormed(s) ==
  /\ s.bytes \in Seq(0..255)
  /\ s.replies \in Seq({s.replies[r] : r \in DOMAIN s.replies})
  /\ DOMAIN s.at = DOMAIN s.replies
  /\ \A r \in DOMAIN s.at : IsReply(s.bytes, s.at[r], s.replies[r])
  /\ BeginOf(s, 1) = 0
  /\ \A r \in DOMAIN s.at : EndOf(s, r) = BeginOf(s, r + 1)

-----------------------------------------------------------------------------
(* The inductive invariant. *)

(* How many bytes of the stream came before those in the buffer, and which  *)
(* reply is read.                                                          *)
base == Len(stream.bytes) - Len(wire) - buff.top
current == Len(delivered) + 1

(* The stream is what is gone, what is in the buffer, and what is to come:   *)
(* no byte is lost, moved twice or overwritten when manage_mem moves what    *)
(* has not been parsed to the front.                                        *)
BytesKept ==
  /\ base >= 0
  /\ \A k \in 0..(buff.top - 1) : mem[k] = stream.bytes[base + k + 1]
  /\ \A k \in 1..Len(wire) : wire[k] = stream.bytes[base + buff.top + k]

DeliveredOK ==
  /\ delivered \in Seq({replies[r] : r \in DOMAIN replies})
  /\ Len(delivered) <= Len(replies)
  /\ \A r \in 1..Len(delivered) : delivered[r] = replies[r]

(* An array of which k records have been found. *)
Found(v, k) == [Empty EXCEPT !.ares = [i \in DOMAIN v.ares |-> IF i <= k THEN v.ares[i] ELSE Empty]]

(* The parser is where a reply, or a record of an array, begins, and when it *)
(* waits for bytes, what begins there has not been received whole.          *)
AtReply ==
  /\ base + unparsed = BeginOf(stream, current)
  /\ status = "reading" /\ current \in DOMAIN stream.at => base + buff.top < stream.at[current][2]

AtRecord(k) ==
  LET places == stream.at[current]
  IN /\ respond = Found(replies[current], k)
     /\ base + unparsed = places[k + 2]
     /\ status = "reading" => base + buff.top < places[k + 3]

PlaceOK ==
  status # "error" =>
    IF incompl_arr
    THEN /\ current \in DOMAIN replies
         /\ \E k \in 0..(Len(replies[current].ares) - 1) : AtRecord(k)
    ELSE AtReply

(* The reply that is read begins in the first half of the buffer or of the   *)
(* bytes in it.                                                            *)
RoomOK ==
  LET begun == BeginOf(stream, current) - base
  IN begun >= 0 /\ (2 * begun <= buff.top \/ 2 * begun < MaxBuff)

(* When the last reply is delivered, the buffer and the wire are empty. *)
EndOK == current \notin DOMAIN stream.at => buff.top = 0 /\ wire = <<>>

ParserInv ==
  /\ TypeOK /\ BytesKept /\ DeliveredOK /\ PlaceOK /\ RoomOK /\ EndOK
  /\ RefusedBetweenRecords /\ OverflowNeedsLongReply
=============================================================================
