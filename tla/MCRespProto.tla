---------------------------- MODULE MCRespProto ----------------------------
(***************************************************************************)
(* Small instances of RespProto: streams of one to six replies of every    *)
(* kind, and the queries of QueryBuilder, cut into reads in every way.     *)
(***************************************************************************)
EXTENDS RespInvariant

Builder == INSTANCE QueryBuilder

(* The server's side of the protocol: a reply is sent in parts, one for a    *)
(* flat reply, and for an array its header and then its records.            *)
Encode(v) ==
  CASE v.type = "simple_str" -> Line(Plus, v.sres)
    [] v.type = "error_str"  -> Line(Minus, v.sres)
    [] v.type = "integer"    -> Line(Colon, Decimal(v.ires))
    [] v.type = "bulk_str"   ->
         IF v.isnull THEN Line(Dollar, <<Minus, Zero + 1>>)
         ELSE Line(Dollar, Decimal(Len(v.sres))) \o v.sres \o <<CR, LF>>
    [] v.type = "empty"      -> Line(Star, Decimal(Len(v.ares)))

Parts(v) == <<Encode(v)>> \o [i \in DOMAIN v.ares |-> Encode(v.ares[i])]

EncodeAll(vs) == FlattenSeq([i \in DOMAIN vs |-> FlattenSeq(Parts(vs[i]))])

(* Where the parts of each reply begin, and where it ends. *)
Places(vs) ==
  [i \in DOMAIN vs |->
     [k \in 1..(Len(vs[i].ares) + 2) |->
        Len(EncodeAll(SubSeq(vs, 1, i - 1))) + Len(FlattenSeq(SubSeq(Parts(vs[i]), 1, k - 1)))]]

Simple(s)  == [Empty EXCEPT !.type = "simple_str", !.sres = s]
Error(s)   == [Empty EXCEPT !.type = "error_str", !.sres = s]
Integer(n) == [Empty EXCEPT !.type = "integer", !.ires = n]
Bulk(s)    == [Empty EXCEPT !.type = "bulk_str", !.sres = s]
NullBulk   == [Empty EXCEPT !.type = "bulk_str", !.isnull = TRUE]
Array(a)   == [Empty EXCEPT !.ares = a]
EmptyArray == [Empty EXCEPT !.isnull = TRUE]

A == 65

(* Bulk strings may hold the bytes the protocol is made of. *)
Flat == {Simple(<<A, A>>), Error(<<A>>), Integer(7), Integer(42), Bulk(<<>>), Bulk(<<CR, LF>>),
         Bulk(<<Plus, CR, LF, A, Star, A, A, A, A, A, A>>), NullBulk, EmptyArray}
Small == Array(<<Bulk(<<A>>), NullBulk, Integer(12)>>)
Large == Array([k \in 1..19 |-> Simple(<<A>>)])
Single == Flat \cup {Array(<<Integer(1)>>), Small, Large}
Second == {Integer(7), Bulk(<<CR, LF>>), Small}

ServerReplies ==
  {<<r>> : r \in Single} \cup {<<r, s>> : r \in Single, s \in Second}
    \cup {<<Integer(7), Simple(<<A, A>>), s>> : s \in Second}
    \cup {[k \in 1..11 |-> Bulk(<<CR, LF>>)]}
FromServer(vs) == [replies |-> vs, at |-> Places(vs), bytes |-> EncodeAll(vs)]
ServerStreams == {FromServer(vs) : vs \in ServerReplies}

ASSUME StreamsAreWellFormed == \A s \in ServerStreams : WellFormed(s)

(* A query is an array of bulk strings, the command's name the first. *)
Query(parts, bytes) ==
  LET vs == <<Array([i \in DOMAIN parts |-> Bulk(parts[i])])>>
  IN [replies |-> vs, at |-> Places(vs), bytes |-> bytes]

Cmd == <<A, A>>
Text(s)   == [kind |-> "text", val |-> s]
IntArg(n)    == [kind |-> "int", val |-> n]
Vector(v) == [kind |-> "vector", val |-> v]
Direct(d) == [kind |-> "direct", val |-> d]
(* The arguments after the name, and the texts that they are to become. *)
Arguments ==
  << [args |-> <<Text(<<A, 0, A>>), IntArg(-12)>>, parts |-> <<<<A>>, <<Minus, Zero + 1, Zero + 2>>>>],
     [args |-> <<Vector([k \in 1..8 |-> <<>>])>>, parts |-> [k \in 1..8 |-> <<>>]],
     [args |-> <<Vector([k \in 1..9 |-> <<>>])>>, parts |-> [k \in 1..9 |-> <<>>]],
     [args |-> <<Direct(<<0, CR, LF>>), Direct(<<>>), Text(<<A>>)>>, parts |-> <<<<0, CR, LF>>, <<>>, <<A>>>>],
     [args |-> <<Vector([k \in 1..7 |-> <<>>]), Direct(<<A>>), Direct(<<Star>>)>>,
      parts |-> [k \in 1..7 |-> <<>>] \o <<<<A>>, <<Star>>>>] >>

ASSUME TextsAreAskedFor ==
  \A k \in DOMAIN Arguments : Builder!AllParts(Arguments[k].args) = Arguments[k].parts

Built(a) == Query(<<Cmd>> \o a.parts, Builder!build_multibuffer(Builder!BuildRESP(<<Text(Cmd)>> \o a.args)))

(* Eight and nine parts after the name: the header grows by a digit.  Direct *)
(* data holds any byte, a text ends at its first zero.                      *)
ClientQueries ==
  {Query(<<Cmd>>, Builder!FastQuery(Cmd, <<>>)), Query(<<Cmd, <<A>>>>, Builder!FastQuery(Cmd, <<<<A>>>>))}
    \cup {Built(Arguments[k]) : k \in DOMAIN Arguments}

MCStreams == ServerStreams \cup ClientQueries
(* An array of two records, the second of which may come with another read. *)
MCPair == {FromServer(<<Array(<<Integer(1), Integer(2)>>)>>)}
(* A command with a key and a value, by a fast constructor. *)
MCFastSet == {Query(<<Cmd, <<A>>, <<A>>>>, Builder!FastQuery(Cmd, <<<<A>>, <<A>>>>))}

MCJunk == {0, CR, Colon}
=============================================================================
