------------------------------- MODULE MCStream -------------------------------
(***************************************************************************)
(* Clients for YajlStream.  Every short sequence of the pieces below is a  *)
(* text of a client that only validates; some texts are fed by clients     *)
(* with callbacks, or with options.  777 is the number that is too long:   *)
(* two digits stand for the width of a long long.                          *)
(***************************************************************************)
EXTENDS YajlStream, SequencesExt

Chars(s) == [i \in 1..Len(s) |-> SubSeq(s, i, i)]

Pieces == {"{", "}", "[", "]", ",", ":", "\"\"", "7", " ", "\""}
Sequences(n) == UNION {[1..k -> Pieces] : k \in 1..n}
Texts == {<<>>} \cup {Chars(FlattenSeq(s)) : s \in Sequences(3)}
         \cup {Chars(p) \o Chars(FlattenSeq(s)) :
                  p \in {"{\"\":", "{\"\":7", "[7", "[{"}, s \in Sequences(2)}

Documents ==
    {Chars(s) : s \in
        {"{\"\":7}", "{\"a\":[7]\n}", "{\"\":7 \"", "[7\n,{}]", "{\"a\":7,\"\":{}}",
         "[true,777]", "777", "[7,]", "{\"\":7 true", "7 7 ", "[]7", "7 x",
         "{\"\":7\n7", "\"\\n\"", "{\"\\n\"", "\"\\n\" \"", "[nul]", "", "7 // x", "/**/[7/*\"*/]"}}

\* The tables are given to YajlParser's Tables, so they are written out here
\* and not taken from its instance.
NoTable == {"no table"}
NoNumber == {"yajl_null", "yajl_boolean", "yajl_integer", "yajl_double", "yajl_string",
             "yajl_start_map", "yajl_map_key", "yajl_end_map",
             "yajl_start_array", "yajl_end_array"}
ClientTables == {NoTable, NoNumber, {"yajl_number", "yajl_end_map"}}

Validator(t) == [text |-> t, options |-> {}, table |-> NoTable]
OptionSets == {{}, {"allow_trailing_garbage"}, {"allow_multiple_values"},
               {"allow_partial_values", "dont_validate_strings"}, {"allow_comments"}}
Programs == [text : Documents, options : OptionSets, table : ClientTables]

MCClients == {Validator(t) : t \in Texts} \cup Programs
MCOutOfRange == {<<"7", "7", "7">>}
MCSettable == UNION OptionSets

\* A few clients are enough to refute a claim.
FewClients == {Validator(t) : t \in Documents}
=============================================================================
