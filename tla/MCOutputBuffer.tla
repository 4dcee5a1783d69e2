--------------------------- MODULE MCOutputBuffer ---------------------------
(***************************************************************************)
(* A small instance of OutputBuffer.                                       *)
(***************************************************************************)
EXTENDS OutputBuffer
=============================================================================
