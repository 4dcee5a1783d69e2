---------------------------- MODULE QueryBuilder ----------------------------
(***************************************************************************)
(* How redis::query turns a command and its arguments into the bytes that  *)
(* are sent: one array of bulk strings.                                    *)
(*                                                                         *)
(* The general constructor reserves room for the array's header, appends a *)
(* bulk string per part, and then writes the header, right-aligned, into   *)
(* the room and cuts off what it did not need.  The data of a direct       *)
(* buffer stays in the memory of the caller: the text has its header and   *)
(* its \r\n, and the place in between is remembered, to be filled when the  *)
(* pieces are handed to the socket.  The fast constructors format a query  *)
(* of one, two or three texts in one go.                                   *)
(*                                                                         *)
(* A query under construction is [text, ext, pcount]: _query,              *)
(* _ext_buffs_list and _pcount.                                            *)
(***************************************************************************)
EXTENDS RespFormat, SequencesExt, FiniteSets

(* The digits of the largest unsigned, and three bytes for "*\r\n". *)
query_pref_max_size == 10 + 3

(* A text is passed as a C string, which ends at its first zero byte. *)
CText(s) ==
  LET zero == SelectInSeq(s, LAMBDA c : c = 0)
  IN IF zero = 0 THEN s ELSE SubSeq(s, 1, zero - 1)

BulkHeader(n) == Line(Dollar, Decimal(n))
Bulk(data) == BulkHeader(Len(data)) \o data \o <<CR, LF>>

-----------------------------------------------------------------------------
(* The general constructor *)

Reserved == [text |-> [k \in 1..query_pref_max_size |-> 0], ext |-> <<>>, pcount |-> 0]

add_query_part(q, part) ==
  [q EXCEPT !.text = @ \o Bulk(CText(part)), !.pcount = @ + 1]

(* The place of direct data is before the last \r\n of the text. *)
AddDirect(q, data) ==
  LET text == q.text \o BulkHeader(Len(data)) \o <<CR, LF>>
  IN [text |-> text,
      ext |-> Append(q.ext, [pos |-> Len(text) - 2, data |-> data]),
      pcount |-> q.pcount + 1]

ToText(n) == IF n < 0 THEN <<Minus>> \o Decimal(-n) ELSE Decimal(n)

AddVector(q, parts) ==
  LET add[i \in 0..Len(parts)] == IF i = 0 THEN q ELSE add_query_part(add[i - 1], parts[i])
  IN add[Len(parts)]

(* One overload per kind of argument, each of which goes on with the rest. *)
AddArgument(q, arg) ==
  CASE arg.kind = "text"   -> add_query_part(q, arg.val)
    [] arg.kind = "int"    -> add_query_part(q, ToText(arg.val))
    [] arg.kind = "vector" -> AddVector(q, arg.val)
    [] arg.kind = "direct" -> AddDirect(q, arg.val)

AddArguments(q, args) ==
  LET add[i \in 0..Len(args)] == IF i = 0 THEN q ELSE AddArgument(add[i - 1], args[i])
  IN add[Len(args)]

(* The length of "*%d\r\n", for counts below ten thousand. *)
pref_len_TenIsOneDigit(pcount) == 4 + Cardinality({t \in {10, 100, 1000} : pcount \div t > 1})
pref_len(pcount) == 4 + Cardinality({t \in {10, 100, 1000} : pcount \div t > 0})

(* sprintf ends the header with a zero byte, on the '$' of the first part. *)
WriteHeader(text, pcount) ==
  LET start == query_pref_max_size - pref_len(pcount)
      header == Line(Star, Decimal(pcount)) \o <<0>>
  IN [k \in DOMAIN text |-> IF k = query_pref_max_size + 1 THEN Dollar
                            ELSE IF k - start \in DOMAIN header THEN header[k - start]
                            ELSE text[k]]

(* The reserved bytes left over are cut off, and the places move with them. *)
ins_query_prefix(q) ==
  LET trimmed == query_pref_max_size - pref_len(q.pcount)
      text == WriteHeader(q.text, q.pcount)
  IN [text |-> SubSeq(text, trimmed + 1, Len(text)),
      ext |-> [i \in DOMAIN q.ext |-> [q.ext[i] EXCEPT !.pos = @ - trimmed]],
      pcount |-> q.pcount]

BuildRESP(args) == ins_query_prefix(AddArguments(Reserved, args))

(* The pieces that the socket is given, one after the other. *)
prev_pos(ext, i) == IF i = 0 THEN 0 ELSE ext[i].pos

build_multibuffer(q) ==
  LET last == Len(q.ext)
      pieces[i \in 0..last] ==
        IF i = 0 THEN <<>>
        ELSE pieces[i - 1] \o SubSeq(q.text, prev_pos(q.ext, i - 1) + 1, q.ext[i].pos) \o q.ext[i].data
  IN pieces[last] \o SubSeq(q.text, prev_pos(q.ext, last) + 1, Len(q.text))

-----------------------------------------------------------------------------
(* What is asked for: the texts of the array that an application's arguments  *)
(* stand for.  A text ends at its first zero byte, direct data does not.     *)

Byte == 0..255

Argument ==
  [kind : {"text", "direct"}, val : Seq(Byte)] \cup [kind : {"int"}, val : Int]
    \cup [kind : {"vector"}, val : Seq(Seq(Byte))]

CTexts(parts) == [i \in 1..Len(parts) |-> CText(parts[i])]

PartsOf(arg) ==
  CASE arg.kind = "text"   -> <<CText(arg.val)>>
    [] arg.kind = "int"    -> <<ToText(arg.val)>>
    [] arg.kind = "vector" -> CTexts(arg.val)
    [] arg.kind = "direct" -> <<arg.val>>

AllParts(args) ==
  LET parts[i \in 0..Len(args)] == IF i = 0 THEN <<>> ELSE parts[i - 1] \o PartsOf(args[i])
  IN parts[Len(args)]

-----------------------------------------------------------------------------
(* The fast constructors, for a command with no, one or two texts. *)

q_fast_build_1(cmd) == Line(Star, Decimal(1)) \o Bulk(cmd)

q_fast_build_2(cmd, key) == Line(Star, Decimal(2)) \o Bulk(cmd) \o Bulk(CText(key))

(* The format of three parts counts two, and lacks a '$' before the value's  *)
(* length.                                                                 *)
q_fast_build_3(cmd, key, val) ==
  Line(Star, Decimal(2)) \o Bulk(cmd) \o Bulk(CText(key)) \o Tail(Bulk(CText(val)))

FastQuery(cmd, texts) ==
  CASE texts = <<>>    -> q_fast_build_1(cmd)
    [] Len(texts) = 1  -> q_fast_build_2(cmd, texts[1])
    [] Len(texts) = 2  -> q_fast_build_3(cmd, texts[1], texts[2])
=============================================================================
