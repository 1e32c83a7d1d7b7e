----------------------------- MODULE MCLegacyJs -----------------------------
(***************************************************************************)
(* Plain messages, one with a character of two bytes, and a document that  *)
(* contains a whole text.                                                  *)
(***************************************************************************)
EXTENDS LegacyJs

Msg(type, data) ==
  [type |-> type, data |-> data, user |-> <<"x">>, pass |-> <<>>, file |-> <<>>]

character == Msg("Document", <<"hi", "lo">>)
url == Msg("URL", <<"http", ":", "//">>)
wholeText == Msg("Document", Serialize(url))
messages == {character, url, wholeText}
oneURL == {url}
codes == {<<"0">>}
=============================================================================
