----------------------------- MODULE MCEnvelope -----------------------------
(***************************************************************************)
(* Envelope with small bytes: every message of short fields, and every     *)
(* string of bytes a little longer than the shortest message.              *)
(***************************************************************************)
EXTENDS Envelope
=============================================================================
