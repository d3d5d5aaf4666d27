----------------------------- MODULE MCReformat -----------------------------
(***************************************************************************)
(* Texts for YajlReformat: all of up to three of these pieces.  Characters *)
(* and escapes, high and low surrogates (the hexadecimal digits in either  *)
(* case), and bytes of which some make UTF-8 and some do not.              *)
(***************************************************************************)
EXTENDS YajlReformat

Pieces == {<<"a">>, <<"/">>, <<"\\", "n">>, <<"\\", "\"">>, <<"\\", "\\">>,
           <<"\\", "u", "0", "0", "0", "0">>, <<"\\", "u", "0", "0", "e", "9">>,
           <<"\\", "u", "2", "0", "A", "c">>,
           <<"\\", "u", "D", "8", "3", "d">>, <<"\\", "u", "d", "e", "0", "0">>,
           <<"C3", "A9">>, <<"F0", "9F", "98", "80">>, <<"E2">>, <<"82">>}

MCRaws == {<<>>} \cup Pieces \cup {p \o q : p, q \in Pieces}
          \cup {p \o q \o r : p, q, r \in {<<"a">>,
                <<"\\", "u", "D", "8", "3", "d">>, <<"\\", "u", "d", "e", "0", "0">>,
                <<"E2">>, <<"82">>}}
MCFewRaws == {<<"a">>, <<"\\", "u", "0", "0", "0", "0">>}
MCOffsets == {0, 1, 29, 30, 31, 59, 60, 61, 90}
=============================================================================
