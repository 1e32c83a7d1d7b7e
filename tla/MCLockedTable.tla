--------------------------- MODULE MCLockedTable ---------------------------
(***************************************************************************)
(* A built-in type and one to be registered, two names of which both may   *)
(* come to have the same, three goroutines.                                *)
(***************************************************************************)
EXTENDS LockedTable, TLC

CONSTANTS URL, custom, nameURL, name
builtInName == URL :> nameURL
=============================================================================
