----------------------------- MODULE LexGrammar -----------------------------
(***************************************************************************)
(* The tokens of JSON as RFC 8259 writes them down: which sequences of     *)
(* characters are an integer, another number, a string or a keyword.       *)
(* Independent of how the lexer reads them.                                *)
(***************************************************************************)
EXTENDS YajlScan

AllIn(s, S) == \A i \in 1..Len(s) : s[i] \in S
From(s, i) == SubSeq(s, i, Len(s))
IsDigits(s) == s # <<>> /\ AllIn(s, Digit)
Unsigned(s, signs) == IF s # <<>> /\ s[1] \in signs THEN From(s, 2) ELSE s

\* int = [ minus ] ( zero / digit1-9 *DIGIT )
IsInt(s) == LET d == Unsigned(s, {"-"})
            IN  IsDigits(d) /\ (d[1] = "0" => Len(d) = 1)
\* frac = decimal-point 1*DIGIT
IsFrac(s) == s # <<>> /\ s[1] = "." /\ IsDigits(From(s, 2))
\* exp = e [ minus / plus ] 1*DIGIT
IsExp(s) == /\ s # <<>> /\ s[1] \in {"e", "E"}
            /\ IsDigits(Unsigned(From(s, 2), {"+", "-"}))

\* number = int [ frac ] [ exp ], with a fraction or an exponent
IsReal(s) == \E i, j \in 1..Len(s) :
                /\ i <= j /\ i < Len(s)
                /\ IsInt(SubSeq(s, 1, i))
                /\ i < j => IsFrac(SubSeq(s, i + 1, j))
                /\ j < Len(s) => IsExp(From(s, j + 1))

\* u is one character of a string: unescaped, escaped or of several bytes.
IsCharacter(u, o) ==
    \/ /\ Len(u) = 1 /\ u[1] \notin Control \cup {"\"", "\\"}
       /\ o.validateUTF8 => u[1] \notin HighByte
    \/ Len(u) = 2 /\ u[1] = "\\" /\ u[2] \in Escapable
    \/ Len(u) = 6 /\ u[1] = "\\" /\ u[2] = "u" /\ AllIn(From(u, 3), Hex)
    \/ /\ o.validateUTF8 /\ u # <<>>
       /\ Len(u) = CASE u[1] = "lead2" -> 2 [] u[1] = "lead3" -> 3
                     [] u[1] = "lead4" -> 4 [] OTHER -> 0
       /\ AllIn(From(u, 2), {"cont"})

\* What may stand between the quotes of a string can be cut into characters:
\* starts are the places where one starts, and the place behind the last.
IsStringBody(s, o) ==
    \E inner \in SUBSET (2..Len(s)) :
        LET starts == inner \cup {1, Len(s) + 1}
        IN  \A i \in starts \ {Len(s) + 1} :
               \E j \in starts : i < j /\ IsCharacter(SubSeq(s, i, j - 1), o)

Words == [bool |-> {<<"t", "r", "u", "e">>, <<"f", "a", "l", "s", "e">>},
          null |-> {<<"n", "u", "l", "l">>}]

\* text is what the lexer may hand out as a token of kind t.
IsLexeme(t, s, o) ==
    CASE t \in DOMAIN Words -> s \in Words[t]
      [] t = "integer" -> IsInt(s)
      [] t = "double" -> IsReal(s)
      [] t = "string" -> IsStringBody(s, o)
                           /\ \A i \in 1..Len(s) : s[i] # "\\"
      [] t = "string_with_escapes" ->
            IsStringBody(s, o) /\ \E i \in 1..Len(s) : s[i] = "\\"
      [] OTHER -> \E p \in Punctuation : s = <<p>> /\ t = PunctuationToken[p]
=============================================================================
