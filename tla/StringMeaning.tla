--------------------------- MODULE StringMeaning ---------------------------
(***************************************************************************)
(* The code points a JSON string stands for, after RFC 8259, section 7,    *)
(* and RFC 3629, from the symbols between its quotes; and the tokens of a  *)
(* JSON text.  Nothing here looks at how yajl decodes or parses.           *)
(***************************************************************************)
EXTENDS JsonGrammar

Upper == <<"0", "1", "2", "3", "4", "5", "6", "7", "8", "9", "A", "B", "C", "D", "E", "F">>
Lower == <<"0", "1", "2", "3", "4", "5", "6", "7", "8", "9", "a", "b", "c", "d", "e", "f">>
DigitOf(ch) == CHOOSE d \in 0..15 : ch \in {Upper[d + 1], Lower[d + 1]}

\* The byte of a symbol of two digits, and the bits of a continuation byte.
Octets == {Upper[h] \o Upper[l] : h \in 9..16, l \in 1..16}
OctetOf == [x \in Octets |-> CHOOSE b \in 128..255 : Upper[b \div 16 + 1] \o Upper[(b % 16) + 1] = x]
Bits(ch) == OctetOf[ch] - 128

Controls == [nul |-> 0, bs |-> 8, vt |-> 11, ctl |-> 31]
Escapes == [b |-> 8, f |-> 12, n |-> 10, r |-> 13, t |-> 9]
Plain == [ch \in {"\t", "\n", "\f", "\r", "\"", "/", "?", "A", "\\", "a"} |->
            CASE ch = "\t" -> 9 [] ch = "\n" -> 10 [] ch = "\f" -> 12 [] ch = "\r" -> 13
              [] ch = "\"" -> 34 [] ch = "/" -> 47 [] ch = "?" -> 63 [] ch = "A" -> 65
              [] ch = "\\" -> 92 [] ch = "a" -> 97]
Point(ch) == IF ch \in DOMAIN Controls THEN Controls[ch] ELSE Plain[ch]

Hex4(s, i) == DigitOf(s[i]) * 4096 + DigitOf(s[i + 1]) * 256
              + DigitOf(s[i + 2]) * 16 + DigitOf(s[i + 3])

\* The number at place i of a string, and the length of what writes it.
Written(s, i) ==
    CASE s[i] = "\\" /\ s[i + 1] = "u" -> <<Hex4(s, i + 2), 6>>
      [] s[i] = "\\" /\ s[i + 1] \in DOMAIN Escapes -> <<Escapes[s[i + 1]], 2>>
      [] s[i] = "\\" /\ s[i + 1] \notin DOMAIN Escapes \cup {"u"} -> <<Point(s[i + 1]), 2>>
      [] s[i] \in Octets /\ OctetOf[s[i]] < 224 ->
            <<(OctetOf[s[i]] - 192) * 64 + Bits(s[i + 1]), 2>>
      [] s[i] \in Octets /\ OctetOf[s[i]] \in 224..239 ->
            <<(OctetOf[s[i]] - 224) * 4096 + Bits(s[i + 1]) * 64 + Bits(s[i + 2]), 3>>
      [] s[i] \in Octets /\ OctetOf[s[i]] > 239 ->
            <<(OctetOf[s[i]] - 240) * 262144 + Bits(s[i + 1]) * 4096
                + Bits(s[i + 2]) * 64 + Bits(s[i + 3]), 4>>
      [] OTHER -> <<Point(s[i]), 1>>

\* Two surrogates in order are one code point; one alone is none, for which
\* a question mark stands.
HighSurrogates == 55296..56319
LowSurrogates == 56320..57343
Meaning(s) ==
    LET numbers[i \in 1..Len(s) + 1] ==
            IF i > Len(s) THEN <<>>
            ELSE <<Written(s, i)[1]>> \o numbers[i + Written(s, i)[2]]
        units == numbers[1]
        points[i \in 1..Len(units) + 2] ==
            CASE i > Len(units) -> <<>>
              [] i <= Len(units) /\ units[i] \notin HighSurrogates \cup LowSurrogates ->
                    <<units[i]>> \o points[i + 1]
              [] i < Len(units) /\ units[i] \in HighSurrogates /\ units[i + 1] \in LowSurrogates ->
                    <<65536 + (units[i] - 55296) * 1024 + (units[i + 1] - 56320)>> \o points[i + 2]
              [] OTHER -> <<63>> \o points[i + 1]
    IN  points[1]

-----------------------------------------------------------------------------
\* The tokens of a text, white space left out: strings by their meaning, and
\* numbers and keywords by their characters.
StringToken(body) == <<"string", Meaning(body)>>
WordToken(chars) == <<"word", chars>>
PunctuationOf(ch) == <<"punctuation", ch>>

TokensOf(text) ==
    LET \* the place of the quote that ends a string whose rest starts at k
        quote[k \in 1..Len(text) + 2] ==
            IF k > Len(text) THEN Len(text) + 1
            ELSE IF text[k] = "\"" THEN k
            ELSE IF text[k] = "\\" THEN quote[k + 2] ELSE quote[k + 1]
        InWord(k) == text[k] \notin White \cup Punctuation \cup {"\""}
        \* the place behind a word that goes on at k
        wordEnd[k \in 1..Len(text) + 1] ==
            IF k <= Len(text) /\ InWord(k) THEN wordEnd[k + 1] ELSE k
        from[i \in 1..Len(text) + 2] ==
            CASE i > Len(text) -> <<>>
              [] i <= Len(text) /\ text[i] \in White -> from[i + 1]
              [] i <= Len(text) /\ text[i] \in Punctuation ->
                    <<PunctuationOf(text[i])>> \o from[i + 1]
              [] i <= Len(text) /\ text[i] = "\"" ->
                    <<StringToken(SubSeq(text, i + 1, quote[i + 1] - 1))>> \o from[quote[i + 1] + 1]
              [] OTHER -> <<WordToken(SubSeq(text, i, wordEnd[i] - 1))>> \o from[wordEnd[i]]
    IN  from[1]
=============================================================================
