----------------------------- MODULE RespFormat -----------------------------
(***************************************************************************)
(* What both directions of the protocol are made of: bytes, decimal        *)
(* numbers, and lines that begin with a mark and end with \r\n.            *)
(***************************************************************************)
EXTENDS Integers, Sequences

CR == 13  LF == 10
Plus == 43  Minus == 45  Colon == 58  Dollar == 36  Star == 42  Zero == 48

Decimal(n) ==
  LET decimal[k \in 0..n] == IF k < 10 THEN <<Zero + k>> ELSE decimal[k \div 10] \o <<Zero + (k % 10)>>
  IN decimal[n]

Line(mark, text) == <<mark>> \o text \o <<CR, LF>>
=============================================================================
