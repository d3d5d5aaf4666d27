------------------------------- MODULE MCTree -------------------------------
(***************************************************************************)
(* Texts for YajlTree: a key with a NUL in it and one without, and a number *)
(* that is no integer, but begins with one.                                *)
(***************************************************************************)
EXTENDS TreeDocument

CONSTANT other

MCThreads == {me, other}
MCKeys == {<<"a", "nul">>, <<"b">>}
MCStrings == {<<"a">>}
MCNumbers == {<<"1", ".", "5">>}
MCBooleans == {"false"}
MCLongLongs == {<<"7">>, <<"1">>}
MCDoubles == {<<"7">>, <<"1", ".", "5">>}
=============================================================================
