----------------------------- MODULE MCPipeline -----------------------------
(***************************************************************************)
(* Small instances of Pipeline: the .cfg files say which threads push how  *)
(* many queries into how large a buffer, and whether the connection may    *)
(* break.                                                                  *)
(***************************************************************************)
EXTENDS PipelineInvariant, TLC

(* Application threads are interchangeable, and so are the queries they push. *)
Symmetry == Permutations(Clients) \cup Permutations(Query \ FromCallback)
=============================================================================
