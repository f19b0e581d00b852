------------------------------ MODULE MCCognex ------------------------------
(* Cognex on two keys and two values, with lines typed in several ways. *)
EXTENDS Cognex

MCSymbol ==
  {"PUT", "DEL", SP, "QUOTE", "TAB", "put", "del", "SNAPSHOT", "COMPACT", "a", "b", "x", "y"}

MCKey   == {<<"a">>, <<"b">>}
MCValue == {<<"x">>, <<"y", SP, "x">>}

Quoted(text) == <<Cli!QT>> \o text \o <<Cli!QT>>

MCLine ==
  {<<"put", SP>> \o Quoted(<<"a">>) \o <<SP>> \o Quoted(<<"x">>),
   <<"PUT">> \o Quoted(<<"b">>) \o Quoted(<<"y", SP, "x">>),
   <<SP, "PUT">> \o Quoted(<<"a">>) \o Quoted(<<"y", SP, "x">>) \o <<SP>>,
   <<"del">> \o Quoted(<<"a">>),
   <<"DEL", SP, SP>> \o Quoted(<<"b">>),
   <<"PUT">> \o Quoted(<<"b">>),
   <<"SNAPSHOT">>,
   <<"COMPACT", SP>>}
=============================================================================
