--------------------------- MODULE MCFramedCalls ---------------------------
(***************************************************************************)
(* FramedCalls on small instances: four calls, chunks that end between    *)
(* frames, inside a prefix, after it, and inside a body.                   *)
(***************************************************************************)
EXTENDS FramedCalls
=============================================================================
