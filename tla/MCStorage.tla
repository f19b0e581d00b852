------------------------------ MODULE MCStorage ------------------------------
(* CognexStorage on two keys and two values. *)
EXTENDS CognexStorage

MCSymbol == {"PUT", "DEL", SP, "a", "b", "my", "key", "x", "y"}

MCKey   == {<<"a">>, <<"b">>}
MCValue == {<<"x">>, <<"y">>}

(* A key with a space, and the key that replay makes of it. *)
MCSpacedKey == {<<"my">>, <<"my", SP, "key">>}
=============================================================================
