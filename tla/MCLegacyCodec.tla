--------------------------- MODULE MCLegacyCodec ---------------------------
(***************************************************************************)
(* Every message of short fields over the tokens of LegacyText.            *)
(***************************************************************************)
EXTENDS LegacyCodec
=============================================================================
