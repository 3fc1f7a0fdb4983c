------------------------------ MODULE MCConsole ------------------------------
(* Instances of Console for TLC: three rows of two columns and the clock. *)
EXTENDS Console

SomeStrings == {<<"a", NL>>, <<"a", "a", "a">>, <<"a", NL, NL, "a">>}
SomeNumbers == {<<"1">>, <<"1", "2">>}
None == {}
=============================================================================
