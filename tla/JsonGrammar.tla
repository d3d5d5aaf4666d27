----------------------------- MODULE JsonGrammar -----------------------------
(***************************************************************************)
(* JSON texts as RFC 8259 writes them down, as a definition over the       *)
(* characters: for each place of a text, where a phrase that starts there  *)
(* can end.  Nothing here looks at how yajl lexes or parses.               *)
(***************************************************************************)
EXTENDS LexGrammar

\* yajl_lex.c takes \v and \f for white space too.
SpaceEnds(s, i) == {j \in i..Len(s) + 1 : AllIn(SubSeq(s, i, j - 1), White)}

\* That no quote in a string stands unescaped follows from IsStringBody; it
\* is said first, for it rules out most texts at once.
IsString(s, o) == /\ Len(s) >= 2 /\ s[1] = "\"" /\ s[Len(s)] = "\""
                  /\ \A i \in 2..Len(s) - 1 : s[i] = "\"" => s[i - 1] = "\\"
                  /\ IsStringBody(SubSeq(s, 2, Len(s) - 1), o)
IsNumber(s) == s[1] \in Digit \cup {"-"} /\ (IsInt(s) \/ IsReal(s))
IsScalar(s, o) == \/ s \in Words.bool \cup Words.null
                  \/ IsNumber(s)
                  \/ IsString(s, o)

ScalarEnds(s, i, o) == {j \in i + 1..Len(s) + 1 : IsScalar(SubSeq(s, i, j - 1), o)}
StringEnds(s, i, o) == {j \in i + 1..Len(s) + 1 : IsString(SubSeq(s, i, j - 1), o)}

\* The places behind c, when c stands at one of the places P.
Past(s, P, ch) == {j + 1 : j \in {k \in P : k <= Len(s) /\ s[k] = ch}}
Spaced(s, P) == UNION {SpaceEnds(s, j) : j \in P}

\* The ends of the values, of the rests of an array behind its first element,
\* of the members of a map and of what follows one of them, that start at the
\* place i; later has those of the places behind i, in their order.
Rests(later, i, P, phrase) == UNION {later[j - i][phrase] : j \in P}

ValueEnds(s, o, i, later) ==
    LET array == Spaced(s, Past(s, {i}, "["))
        map   == Spaced(s, Past(s, {i}, "{"))
    IN  ScalarEnds(s, i, o)
        \cup Past(s, array, "]") \cup Rests(later, i, array, "elements")
        \cup Past(s, map, "}") \cup Rests(later, i, map, "members")

\* Behind an item that ends in P, white space and a comma or the closing.
ItemsBehind(s, i, later, P, closing, phrase) ==
    LET after == Spaced(s, P)
    IN  Past(s, after, closing)
        \cup Rests(later, i, Spaced(s, Past(s, after, ",")), phrase)

PhrasesAt(s, o, i, later) ==
    LET value     == ValueEnds(s, o, i, later)
        values(P) == Rests(later, i, P \ {i}, "value")
                     \cup IF i \in P THEN value ELSE {}
        key       == Spaced(s, StringEnds(s, i, o))
        member    == values(Spaced(s, Past(s, key, ":")))
    IN  [value    |-> value,
         elements |-> ItemsBehind(s, i, later, values(SpaceEnds(s, i)), "]", "elements"),
         members  |-> ItemsBehind(s, i, later, member, "}", "members")]

\* The table of them, made from its end, as no phrase ends before it starts.
PhraseEnds(s, o) ==
    LET from[i \in 1..Len(s) + 1] ==
            IF i = Len(s) + 1
            THEN <<[value |-> {}, elements |-> {}, members |-> {}]>>
            ELSE LET later == from[i + 1]
                 IN  <<PhrasesAt(s, o, i, later)>> \o later
    IN  from[1]

\* The places where a value may end, of a text that starts with one.
DocumentEnds(s, o) == LET ends == PhraseEnds(s, o)
                      IN  UNION {ends[i].value : i \in SpaceEnds(s, 1)}

\* JSON-text = ws value ws
IsDocument(s, o) == Len(s) + 1 \in Spaced(s, DocumentEnds(s, o))

\* Documents one behind the other, as yajl_allow_multiple_values takes them.
IsDocuments(s, o) ==
    LET ends == PhraseEnds(s, o)
        one[i \in 1..Len(s) + 1] ==
            \E j \in UNION {ends[k].value : k \in SpaceEnds(s, i)} :
                Len(s) + 1 \in SpaceEnds(s, j) \/ one[j]
    IN  one[1]
=============================================================================
