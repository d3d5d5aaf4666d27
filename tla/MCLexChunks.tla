----------------------------- MODULE MCLexChunks -----------------------------
(***************************************************************************)
(* Texts for LexChunks: every short text over a few small alphabets, and   *)
(* longer ones that reach the rest of the scanner.                         *)
(***************************************************************************)
EXTENDS LexChunks

\* The characters of a string of TLC, one by one.
Chars(s) == [i \in 1..Len(s) |-> SubSeq(s, i, i)]

UpTo(n, S) == UNION {[1..k -> S] : k \in 0..n}

NumberTexts  == {s \o <<" ">> : s \in UpTo(4, {"-", "0", "7", ".", "e", "+"})}
SpaceTexts   == UpTo(4, {" ", "\n", "7", ","})
CommentTexts == {<<"/">> \o s : s \in UpTo(4, {"/", "*", "\n", ","})}
StringTexts  == {<<"\"">> \o s : s \in UpTo(3, {"\"", "\\", "u", "a", "\n", "/"})}
Utf8Texts    == {<<"\"">> \o s \o <<"\"", " ">> :
                    s \in UpTo(3, {"lead2", "lead3", "cont", "a"})}

LongTexts ==
    {Chars(s) : s \in
        {"true,false:null ", "tru ", "falsx ", "nul", "nule", "[{}]",
         "\"\\u00Fd\\\"\" ", "\"\\u00x\"", "-10.05e-10 ", "-10.05E+1\n,",
         "0.10e05]", "/* *x/ **/7 ", "7\"\\\\\"", "// x\n7 ", "x"}}
    \cup {<<"\"", "lead4", "cont", "cont", "cont", "high", "\"", " ">>,
          <<"\"", "lead4", "cont", "cont", "\"">>,
          <<"\"", "ctl", "\"">>, <<"cont">>, <<"vt", "7", "\f">>}

MCTexts == NumberTexts \cup SpaceTexts \cup CommentTexts \cup StringTexts
           \cup Utf8Texts \cup LongTexts
=============================================================================
