------------------------------ MODULE RespProto ------------------------------
(***************************************************************************)
(* The reply parser, resp_proto, and the input buffer it works on, as the  *)
(* read handlers of the processors drive them: a read adds bytes to the    *)
(* buffer wherever the network cut the stream, and parse_one is called     *)
(* until it finds no complete reply.                                       *)
(*                                                                         *)
(* Memory above _top_offset is read by the parser: it holds what earlier   *)
(* replies left there, or whatever it held when it was allocated (junk).   *)
(* Bytes are their codes; a value parsed is a record as in resp_data.      *)
(***************************************************************************)
EXTENDS BuffAbstract, RespFormat, SequencesExt

CONSTANTS
  Streams,      (* what may be read: see stream                               *)
  Junk,         (* what fresh memory may hold                                 *)
  ReadSize,     (* resp_release_sz                                            *)
  MemSize,      (* bytes of memory the model keeps, more than the limit        *)
  NestedArray(_, _, _, _)   (* _init_array, called for an array in an array:   *)
                            (* every cfg gives it InitArray                    *)

ASSUME ReadAssumption ==
  /\ ReadSize \in 1..MaxBuff
  /\ MemSize \in Nat /\ MaxBuff < MemSize
  /\ Junk \subseteq 0..255

VARIABLES
  stream,       (* [replies, bytes, at]: the server's replies, their bytes, and *)
                (* for each reply where its parts begin and where it ends     *)
  wire,         (* the bytes that have not been read yet                       *)
  mem,          (* the memory of the buffer                                   *)
  buff,         (* its _top_offset, _size and _reserved                       *)
  unparsed,     (* _unparsed_offset                                           *)
  incompl_arr,  (* _incompl_arr                                               *)
  respond,      (* _respond                                                   *)
  delivered,    (* the replies parse_one has returned                         *)
  status        (* "reading", "parsing", or how the parser ended              *)

bufferVars == <<mem, buff, unparsed>>
vars == <<stream, wire, bufferVars, incompl_arr, respond, delivered, status>>

Empty == [type |-> "empty", sres |-> <<>>, ires |-> 0, ares |-> <<>>, isnull |-> FALSE]

replies == stream.replies

-----------------------------------------------------------------------------
(* The parser, for memory m of which the first top bytes have been received. *)
(* Its functions return what they leave in target and in _unparsed_offset,  *)
(* and whether they found the whole reply, set _incompl_arr, or threw.       *)

Got(target, off)    == [ok |-> TRUE, cut |-> FALSE, threw |-> FALSE, target |-> target, off |-> off]
NotYet(target, off) == [ok |-> FALSE, cut |-> FALSE, threw |-> FALSE, target |-> target, off |-> off]
Threw(target, off)  == [ok |-> FALSE, cut |-> FALSE, threw |-> TRUE, target |-> target, off |-> off]

Bytes(m, from, n) == [k \in 1..n |-> m[from + k - 1]]

(* Digits to a number: result * 10 + (c - '0'). *)
Value(text) ==
  LET value[i \in 0..Len(text)] == IF i = 0 THEN 0 ELSE 10 * value[i - 1] + (text[i] - Zero)
  IN value[Len(text)]
Number(m, from, n) == Value(Bytes(m, from, n))

(* Where the line ends, among the first n + 1 bytes after the cursor. *)
LineEnds(m, cursor, n) == {i \in 0..n : m[cursor + i] = CR}

(* The line of a simple string, an error or an integer is complete when     *)
(* its \r is followed by one more byte that has been received.             *)
LastLineEnd(sz) == sz - 2

ReadSimpleString(m, target, type, cursor, sz) ==
  LET ends == LineEnds(m, cursor, LastLineEnd(sz))
      i == Min(ends)
  IN IF ends = {} THEN NotYet(target, cursor - 1)
     ELSE Got([target EXCEPT !.sres = Bytes(m, cursor, i), !.type = type], cursor + i + 2)

ReadInteger(m, target, cursor, sz) ==
  LET ends == LineEnds(m, cursor, LastLineEnd(sz))
      i == Min(ends)
  IN IF ends = {} THEN NotYet(target, cursor - 1)
     ELSE Got([target EXCEPT !.ires = Number(m, cursor, i), !.type = "integer"], cursor + i + 2)

(* The bytes a bulk string needs after its length, \r\n twice included. *)
BulkTail(bulk_size) == bulk_size + 4

(* Where the next reply begins, after a length that ends at i. *)
BulkEnd(cursor, i, bulk_size) == cursor + bulk_size + i + 4

(* The length may end at the byte after the last received one. *)
ReadBulkString(m, target, cursor, sz) ==
  LET ends == LineEnds(m, cursor, sz)
      i == Min(ends)
      bulk_size == Number(m, cursor, i)
  IN IF m[cursor] = Minus THEN
       Got([target EXCEPT !.isnull = TRUE, !.type = "bulk_str"], cursor + 4)
     ELSE IF ends = {} \/ sz - i < BulkTail(bulk_size) THEN NotYet(target, cursor - 1)
     ELSE Got([target EXCEPT !.sres = Bytes(m, cursor + i + 2, bulk_size), !.type = "bulk_str"],
              BulkEnd(cursor, i, bulk_size))

Resize(ares, n) == [k \in 1..n |-> IF k <= Len(ares) THEN ares[k] ELSE Empty]

unparsed_size(top, off) == IF top < off THEN 0 ELSE top - off

(* The shortest reply of each kind, as the parser has it. *)
ShortestReply_Five(mark) == 5
ShortestReply(mark) == IF mark = Dollar THEN 5 ELSE 4

(* _read_data: the first byte is read whether it has been received or not. *)
BeginsArray(m, top, off) == m[off] = Star /\ unparsed_size(top, off) >= ShortestReply(Star)

ReadFlat(m, top, target, off) ==
  LET mark == m[off]
      sz == unparsed_size(top, off) - 1
  IN IF mark \notin {Plus, Minus, Colon, Dollar, Star} THEN Threw(target, off)
     ELSE IF unparsed_size(top, off) < ShortestReply(mark) THEN NotYet(target, off)
     ELSE CASE mark = Plus   -> ReadSimpleString(m, target, "simple_str", off + 1, sz)
            [] mark = Minus  -> ReadSimpleString(m, target, "error_str", off + 1, sz)
            [] mark = Colon  -> ReadInteger(m, target, off + 1, sz)
            [] mark = Dollar -> ReadBulkString(m, target, off + 1, sz)

ReadRecord(m, top, target, off) ==
  IF BeginsArray(m, top, off) THEN NestedArray(m, top, target, off) ELSE ReadFlat(m, top, target, off)

(* The loop of _fill_array: records that have a type are complete.  Nothing *)
(* ever gets the type of an array.                                         *)
FillRecord(m, top, r, i) ==
  LET read == ReadRecord(m, top, r.target.ares[i], r.off)
  IN IF r.target.ares[i].type # "empty" THEN r
     ELSE [read EXCEPT !.target = [r.target EXCEPT !.ares[i] = read.target]]

FillAll(m, top, target, off) ==
  LET fill[i \in 0..Len(target.ares)] ==
        IF i = 0 THEN Got(target, off)
        ELSE LET r == fill[i - 1]
             IN IF r.ok THEN FillRecord(m, top, r, i) ELSE r
  IN fill[Len(target.ares)]

FillArray(m, top, target, off) ==
  IF target.ares = <<>> THEN Got(target, off)
  ELSE IF unparsed_size(top, off) = 0 THEN NotYet(target, off)
  ELSE FillAll(m, top, target, off)

InitArray(m, top, target, off) ==
  LET cursor == off + 1
      ends == LineEnds(m, cursor, unparsed_size(top, off) - 1)
      i == Min(ends)
      array_size == Number(m, cursor, i)
      r == FillArray(m, top, [target EXCEPT !.ares = Resize(@, array_size)], cursor + i + 2)
  IN IF m[cursor] = Zero THEN Got([target EXCEPT !.isnull = TRUE], cursor + 3)
     ELSE IF ends = {} THEN NotYet(target, off)
     ELSE IF array_size < 0 THEN Threw(target, off)
     ELSE [r EXCEPT !.cut = ~r.ok /\ ~r.threw]

ReadData(m, top, target, off) ==
  IF BeginsArray(m, top, off) THEN InitArray(m, top, target, off) ELSE ReadFlat(m, top, target, off)

-----------------------------------------------------------------------------
(* manage_mem: everything parsed, the buffer is emptied; otherwise what is  *)
(* left moves to the front, unless there is room or too much to move.      *)
CanMove_Never(off) == FALSE
CanMove(off) == buff.reserved <= 2 * buff.top /\ buff.top - off <= off

ManageMem(off) ==
  IF off = buff.top THEN
    /\ buff' = soft_reset(buff)
    /\ unparsed' = 0
    /\ UNCHANGED mem
  ELSE IF CanMove(off) THEN
    /\ mem' = [k \in DOMAIN mem |-> IF k < buff.top - off THEN mem[off + k] ELSE mem[k]]
    /\ buff' = [buff EXCEPT !.top = @ - off]
    /\ unparsed' = 0
  ELSE
    /\ unparsed' = off
    /\ UNCHANGED <<mem, buff>>

Init ==
  /\ stream \in Streams
  /\ wire = stream.bytes
  /\ \E b \in Junk : mem = [k \in 0..(MemSize - 1) |-> b]
  /\ buff = new_buff
  /\ unparsed = 0
  /\ incompl_arr = FALSE
  /\ respond = Empty
  /\ delivered = <<>>
  /\ status = "reading"

(* __resp_proc: room is made for a read, which returns n bytes. *)
Read(n) ==
  /\ status = "reading"
  /\ ~ReleaseThrows(buff, ReadSize)
  /\ LET b == release(buff, ReadSize)
     IN /\ n \in 1..Len(wire) /\ n <= size_avail(b)
        /\ buff' = accept(b, n)
        /\ mem' = [k \in DOMAIN mem |->
                     IF k \in b.top..(b.top + n - 1) THEN wire[1 + k - b.top] ELSE mem[k]]
  /\ wire' = SubSeq(wire, n + 1, Len(wire))
  /\ status' = "parsing"
  /\ UNCHANGED <<stream, unparsed, incompl_arr, respond, delivered>>

ReadThrows ==
  /\ status = "reading"
  /\ ReleaseThrows(buff, ReadSize)
  /\ status' = "overflow"
  /\ UNCHANGED <<stream, wire, bufferVars, incompl_arr, respond, delivered>>

NothingUnparsed ==
  /\ status = "parsing"
  /\ buff.top <= unparsed
  /\ status' = "reading"
  /\ UNCHANGED <<stream, wire, bufferVars, incompl_arr, respond, delivered>>

(* parse_one goes on with an array, or starts afresh. *)
Parsed_Restarts == ReadData(mem, buff.top, Empty, unparsed)
Parsed ==
  IF incompl_arr THEN FillArray(mem, buff.top, respond, unparsed)
  ELSE ReadData(mem, buff.top, Empty, unparsed)

ParseOne ==
  /\ status = "parsing"
  /\ buff.top > unparsed
  /\ respond' = Parsed.target
  /\ \/ /\ Parsed.ok
        /\ delivered' = Append(delivered, Parsed.target)
        /\ incompl_arr' = FALSE
        /\ ManageMem(Parsed.off)
        /\ UNCHANGED status
     \/ /\ ~Parsed.ok
        /\ unparsed' = Parsed.off
        /\ incompl_arr' = (incompl_arr \/ Parsed.cut)
        /\ status' = IF Parsed.threw THEN "error" ELSE "reading"
        /\ UNCHANGED <<delivered, mem, buff>>
  /\ UNCHANGED <<stream, wire>>

Next ==
  \/ \E n \in 1..Len(wire) : Read(n)
  \/ ReadThrows
  \/ NothingUnparsed
  \/ ParseOne

Spec == Init /\ [][Next]_vars

-----------------------------------------------------------------------------
(* Types and bounds.  The parser's place and the bytes received are inside   *)
(* the memory that release allocated; a place past the last byte waits for  *)
(* the end of a size line, of which the \r may have been taken for granted.  *)
TypeOK ==
  /\ stream \in Streams
  /\ wire \in Seq(0..255)
  /\ mem \in [0..(MemSize - 1) -> 0..255]
  /\ buff \in Buffer
  /\ unparsed \in 0..(buff.top + 2)
  /\ buff.top <= buff.size /\ buff.size <= buff.reserved /\ buff.reserved <= MaxBuff
  /\ incompl_arr \in BOOLEAN
  /\ status \in {"reading", "parsing", "error", "overflow"}

(* However the network cuts the stream, what parse_one returns are the       *)
(* replies of the server, in their order and complete.                      *)
RepliesInOrder == IsPrefix(delivered, replies)

(* When the whole stream has been read, no reply is left in the buffer: the  *)
(* last one does not wait for bytes that will never come.                   *)
NothingHeldBack == status = "reading" /\ wire = <<>> => delivered = replies

(* A well-formed stream is refused only when a read ended between two        *)
(* records of an array, where _fill_array looks at a byte that has not      *)
(* been received (proto.cpp:312).                                           *)
RefusedBetweenRecords ==
  status = "error" => unparsed = buff.top

(* The bytes of a reply. *)
ReplySize(i) == Last(stream.at[i]) - Head(stream.at[i])

(* The buffer overflows only for a reply longer than half of its limit: what *)
(* has been parsed is cleared away in time.                                 *)
OverflowNeedsLongReply ==
  status = "overflow" =>
    \E i \in DOMAIN replies : ReplySize(i) > MaxBuff \div 2 - ReadSize

(* A reply in parts is completed by the next call of parse_one               *)
(* (proto.hpp:18-21): no well-formed stream is refused.                     *)
NeverRefused == status # "error"
=============================================================================
