-------------------------- MODULE MCLegacySession --------------------------
(***************************************************************************)
(* Plain messages that brush against every delimiter, and messages that    *)
(* collide with one: a document with a blank line, one that holds a whole  *)
(* text, a notification that starts with the Auth mark.                    *)
(***************************************************************************)
EXTENDS LegacySession

user == <<"x", "nl">>
pass == <<":", "x">>
Msg(type, data, file) ==
  [type |-> type, data |-> data, user |-> user, pass |-> pass, file |-> file]

plain == {Msg("URL", <<"http", ":", "//", "x", "nl">>, <<>>),
          Msg("URL", <<"tab", "x">>, <<>>),
          Msg("Document", <<"nl">> \o Tabs, <<":", "nl", "x", ":">>),
          Msg("Notification", <<"x">>, <<>>)}
colliding == {Msg("Document", <<"x">> \o Blank, <<>>),
              Msg("Document", Serialize(Msg("URL", <<"x">>, <<>>)), <<"x">>),
              Msg("Notification", <<"Auth", ":">>, <<>>),
              Msg("Document", <<"x">>, <<"x", "nl">>)}
messages == plain \cup colliding
codes == {<<"0">>, <<"1", "2">>}
=============================================================================
