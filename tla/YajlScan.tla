------------------------------ MODULE YajlScan ------------------------------
(***************************************************************************)
(* What one character does to the token being lexed (src/src/yajl_lex.c).  *)
(*                                                                         *)
(* yajl_lex_lex and the routines it calls (yajl_lex_string, _utf8_char,    *)
(* _number, _comment) are a program counter and a read; the place where    *)
(* the code waits for its next character is a `mode' here, and Scan(m, c)  *)
(* says what the code does when it reads c there.  The scanner knows       *)
(* nothing of chunks and buffers: those are in YajlLex.                    *)
(*                                                                         *)
(* A character is a one-character string, "vt" and "ctl" (the other        *)
(* control characters), or the class of a byte above 0x7f: the lead of a   *)
(* 2, 3 or 4 byte UTF-8 sequence, a continuation byte, or neither.         *)
(***************************************************************************)
EXTENDS Naturals, Sequences

Digit    == {"0", "1", "2", "3", "4", "5", "6", "7", "8", "9"}
Hex      == Digit \cup {"a", "b", "c", "d", "e", "f", "A", "B", "C", "D", "E", "F"}
White    == {" ", "\t", "\n", "\r", "\f", "vt"}
Control  == {"\t", "\n", "\r", "\f", "vt", "ctl"}              \* IJC
HighByte == {"lead2", "lead3", "lead4", "cont", "high"}        \* NUC
Escapable == {"\"", "\\", "/", "b", "f", "n", "r", "t"}        \* VEC
Punctuation == {"{", "}", "[", "]", ",", ":"}
OtherChar == {"r", "u", "l", "s", "x", "-", "+", ".", "*"}     \* what is left

Char == Hex \cup White \cup Control \cup HighByte \cup Escapable
            \cup Punctuation \cup OtherChar

WordModes    == {"t", "tr", "tru", "f", "fa", "fal", "fals", "n", "nu", "nul"}
NumberModes  == {"minus", "zero", "int", "point", "frac", "exp", "sign", "power"}
StringModes  == {"str", "esc", "hex4", "hex3", "hex2", "hex1",
                 "cont3", "cont2", "cont1"}
CommentModes == {"slash", "line", "block", "star"}
Modes == {"start"} \cup WordModes \cup NumberModes \cup StringModes
                   \cup CommentModes

Tokens == {"bool", "colon", "comma", "eof", "error", "left_brace",
           "left_bracket", "null", "right_brace", "right_bracket", "integer",
           "double", "string", "string_with_escapes"}

LexErrors == {"e_ok", "string_invalid_utf8", "string_invalid_escaped_char",
              "string_invalid_json_char", "string_invalid_hex_char",
              "invalid_char", "invalid_string",
              "missing_integer_after_decimal", "missing_integer_after_exponent",
              "missing_integer_after_minus", "unallowed_comment",
              "number_with_leading_zero"}

LexOptions == [allowComments : BOOLEAN, validateUTF8 : BOOLEAN]

-----------------------------------------------------------------------------
(* An outcome: more of the token to come, the token complete, or an error. *)
(* back: the character is not part of the token and is unread.             *)

More(m) == [tok |-> "none", mode |-> m, error |-> "e_ok", back |-> FALSE]
Done(t) == [tok |-> t, mode |-> "start", error |-> "e_ok", back |-> FALSE]
DoneBefore(t) == [Done(t) EXCEPT !.back = TRUE]
Bad(e) == [tok |-> "error", mode |-> "start", error |-> e, back |-> FALSE]
BadBefore(e) == [Bad(e) EXCEPT !.back = TRUE]

-----------------------------------------------------------------------------
PunctuationToken ==
    [c \in Punctuation |-> CASE c = "{" -> "left_bracket"
                             [] c = "}" -> "right_bracket"
                             [] c = "[" -> "left_brace"
                             [] c = "]" -> "right_brace"
                             [] c = "," -> "comma"
                             [] c = ":" -> "colon"]

\* The first character of a token (white space is not part of any).  A
\* digit is unread and read again by yajl_lex_number: the two cancel.
ScanStart(c, o) ==
    CASE c \in Punctuation   -> Done(PunctuationToken[c])
      [] c \in {"t", "f", "n"} -> More(c)
      [] c = "\""            -> More("str")
      [] c = "-"             -> More("minus")
      [] c = "0"             -> More("zero")
      [] c \in Digit \ {"0"} -> More("int")
      [] c = "/"             -> IF o.allowComments
                                THEN More("slash")
                                ELSE BadBefore("unallowed_comment")
      [] OTHER               -> Bad("invalid_char")

\* The letter a keyword wants next, and what has been read of it then.
Want == [t |-> "r", tr |-> "u", tru |-> "e",
         f |-> "a", fa |-> "l", fal |-> "s", fals |-> "e",
         n |-> "u", nu |-> "l", nul |-> "l"]
Grown == [t |-> "tr", tr |-> "tru", tru |-> "true",
          f |-> "fa", fa |-> "fal", fal |-> "fals", fals |-> "false",
          n |-> "nu", nu |-> "nul", nul |-> "null"]

ScanWord(m, c) ==
    CASE c # Want[m]                                 -> BadBefore("invalid_string")
      [] c = Want[m] /\ Grown[m] \in {"true", "false"} -> Done("bool")
      [] c = Want[m] /\ Grown[m] = "null"              -> Done("null")
      [] OTHER                                         -> More(Grown[m])

-----------------------------------------------------------------------------
\* Where a digit leads, and what any character that fits nowhere means.
DigitTo == [minus |-> "int", int |-> "int", point |-> "frac", frac |-> "frac",
            exp |-> "power", sign |-> "power", power |-> "power"]
\* NumberEnd with "1." taken for a number.
MutNumberEnd ==
    [m \in NumberModes |->
        CASE m = "minus" -> BadBefore("missing_integer_after_minus")
          [] m \in {"zero", "int"} -> DoneBefore("integer")
          [] m \in {"point", "frac", "power"} -> DoneBefore("double")
          [] OTHER -> BadBefore("missing_integer_after_exponent")]

NumberEnd ==
    [minus |-> BadBefore("missing_integer_after_minus"),
     zero  |-> DoneBefore("integer"),
     int   |-> DoneBefore("integer"),
     point |-> BadBefore("missing_integer_after_decimal"),
     frac  |-> DoneBefore("double"),
     exp   |-> BadBefore("missing_integer_after_exponent"),
     sign  |-> BadBefore("missing_integer_after_exponent"),
     power |-> DoneBefore("double")]

\* ScanNumber without an exponent right behind a single zero.
MutScanNumber(m, c) ==
    CASE c \in Digit /\ m = "zero"             -> BadBefore("number_with_leading_zero")
      [] c = "0" /\ m = "minus"                -> More("zero")
      [] c \in Digit /\ m # "zero"
                     /\ ~(c = "0" /\ m = "minus") -> More(DigitTo[m])
      [] c = "." /\ m \in {"zero", "int"}      -> More("point")
      [] c \in {"e", "E"} /\ m \in {"int", "frac"} -> More("exp")
      [] c \in {"+", "-"} /\ m = "exp"         -> More("sign")
      [] OTHER                                 -> NumberEnd[m]

ScanNumber(m, c) ==
    CASE c \in Digit /\ m = "zero"             -> BadBefore("number_with_leading_zero")
      [] c = "0" /\ m = "minus"                -> More("zero")
      [] c \in Digit /\ m # "zero"
                     /\ ~(c = "0" /\ m = "minus") -> More(DigitTo[m])
      [] c = "." /\ m \in {"zero", "int"}      -> More("point")
      [] c \in {"e", "E"} /\ m \in {"zero", "int", "frac"} -> More("exp")
      [] c \in {"+", "-"} /\ m = "exp"         -> More("sign")
      [] OTHER                                 -> NumberEnd[m]

-----------------------------------------------------------------------------
\* Inside a string.  Whether the string has escapes is read off its text
\* when it ends (WithEscapes).
ScanString(m, c, o) ==
    CASE m = "str" /\ c = "\""      -> Done("string")
      [] m = "str" /\ c = "\\"      -> More("esc")
      [] m = "str" /\ c \in Control -> Bad("string_invalid_json_char")
      [] m = "str" /\ c \in HighByte /\ o.validateUTF8 ->
            IF c \in {"lead2", "lead3", "lead4"}
            THEN More([lead2 |-> "cont1", lead3 |-> "cont2", lead4 |-> "cont3"][c])
            ELSE Bad("string_invalid_utf8")
      [] m = "esc" /\ c = "u"        -> More("hex4")
      [] m = "esc" /\ c \in Escapable -> More("str")
      [] m = "esc" /\ c \notin Escapable \cup {"u"} ->
            Bad("string_invalid_escaped_char")
      [] m \in {"hex4", "hex3", "hex2", "hex1"} ->
            IF c \in Hex
            THEN More([hex4 |-> "hex3", hex3 |-> "hex2", hex2 |-> "hex1",
                       hex1 |-> "str"][m])
            ELSE BadBefore("string_invalid_hex_char")
      [] m \in {"cont3", "cont2", "cont1"} ->
            IF c = "cont"
            THEN More([cont3 |-> "cont2", cont2 |-> "cont1", cont1 |-> "str"][m])
            ELSE Bad("string_invalid_utf8")
      [] OTHER -> More("str")

\* Inside a comment.  After a star that does not end the comment the next
\* character is unread and read again: the two cancel.
ScanComment(m, c) ==
    CASE m = "slash" /\ c = "/"             -> More("line")
      [] m = "slash" /\ c = "*"             -> More("block")
      [] m = "slash" /\ c \notin {"/", "*"} -> Bad("invalid_char")
      [] m = "line" /\ c = "\n"             -> Done("comment")
      [] m = "line" /\ c # "\n"             -> More("line")
      [] m = "star" /\ c = "/"              -> Done("comment")
      [] OTHER -> More(IF c = "*" THEN "star" ELSE "block")

Scan(m, c, o) ==
    CASE m \in WordModes    -> ScanWord(m, c)
      [] m \in NumberModes  -> ScanNumber(m, c)
      [] m \in StringModes  -> ScanString(m, c, o)
      [] m \in CommentModes -> ScanComment(m, c)
      [] OTHER              -> ScanStart(c, o)

-----------------------------------------------------------------------------
\* A string token is told apart by whether a backslash was read in it.
WithEscapes(t, lexeme) ==
    IF t = "string" /\ \E i \in 1..Len(lexeme) : lexeme[i] = "\\"
    THEN "string_with_escapes"
    ELSE t

\* The text handed to the client: a string without its quotes.
Unquoted(t, lexeme) ==
    IF t = "string" THEN SubSeq(lexeme, 2, Len(lexeme) - 1) ELSE lexeme
=============================================================================
