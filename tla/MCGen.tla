-------------------------------- MODULE MCGen --------------------------------
(***************************************************************************)
(* Texts for GenClient: a whole double and one that is not, strings with   *)
(* what is escaped and what is not, and, beside the default indent of four *)
(* spaces, none.                                                           *)
(***************************************************************************)
EXTENDS GenClient

MCDoubles == {<<"7">>, <<"7", ".", "5">>}
MCStrings == {<<"bs">>, <<"/", "ctl">>, <<"lead2", "cont">>}
MCIndents == {<<>>}
=============================================================================
