----------------------------- MODULE YajlEncode -----------------------------
(***************************************************************************)
(* yajl_string_decode and yajl_string_validate_utf8 of                     *)
(* src/src/yajl_encode.c.  (yajl_string_encode is in YajlGen.)             *)
(*                                                                         *)
(* A byte is a symbol: a one-character string, "nul", "bs", "vt" or "ctl"  *)
(* (0x1f) for a control character, and its two hexadecimal digits, "C3",   *)
(* from 0x80 on.                                                           *)
(***************************************************************************)
EXTENDS Naturals, Sequences

UpperHex == <<"0", "1", "2", "3", "4", "5", "6", "7", "8", "9", "A", "B", "C", "D", "E", "F">>
LowerHex == <<"0", "1", "2", "3", "4", "5", "6", "7", "8", "9", "a", "b", "c", "d", "e", "f">>

\* The bytes below 0x80 that texts of the models are made of.
Ascii == {<<0, "nul">>, <<8, "bs">>, <<9, "\t">>, <<10, "\n">>, <<11, "vt">>,
          <<12, "\f">>, <<13, "\r">>, <<31, "ctl">>, <<34, "\"">>, <<47, "/">>,
          <<63, "?">>, <<65, "A">>, <<92, "\\">>, <<97, "a">>}

High == [b \in 128..255 |-> UpperHex[b \div 16 + 1] \o UpperHex[(b % 16) + 1]]
HighBytes == {High[b] : b \in 128..255}

Symbol(b) == IF b < 128 THEN (CHOOSE p \in Ascii : p[1] = b)[2] ELSE High[b]
ValueOf == [s \in HighBytes |-> CHOOSE b \in 128..255 : High[b] = s]

-----------------------------------------------------------------------------
\* hexToDigit of one digit, and of the four from str[i] on.
hexToDigit(c) == CHOOSE d \in 0..15 : c \in {UpperHex[d + 1], LowerHex[d + 1]}
Unit(str, i) ==
    hexToDigit(str[i]) * 4096 + hexToDigit(str[i + 1]) * 256
        + hexToDigit(str[i + 2]) * 16 + hexToDigit(str[i + 3])

Continued(bits) == Symbol(128 + (bits % 64))

Utf32toUtf8(codepoint) ==
    CASE codepoint < 128 -> <<Symbol(codepoint)>>
      [] codepoint \in 128..2047 ->
            <<Symbol(192 + codepoint \div 64), Continued(codepoint)>>
      [] codepoint \in 2048..65535 ->
            <<Symbol(224 + codepoint \div 4096), Continued(codepoint \div 64),
              Continued(codepoint)>>
      [] OTHER ->
            <<Symbol(240 + codepoint \div 262144), Continued(codepoint \div 4096),
              Continued(codepoint \div 64), Continued(codepoint)>>

IsHigh(unit) == unit \div 1024 = 54   \* (unit & 0xFC00) == 0xD800
IsLow(unit) == unit \div 1024 = 55    \* (unit & 0xFC00) == 0xDC00

Joined(high, low) ==
    (high % 64) * 1024 + (((high \div 64) % 16) + 1) * 65536 + (low % 1024)

\* The escape of a unit behind the one at i, 0 if there is none.
UnitBehind(str, i) ==
    IF i + 11 <= Len(str) /\ str[i + 6] = "\\" /\ str[i + 7] = "u"
    THEN Unit(str, i + 8) ELSE 0

\* What an escape at i stands for, and where the text goes on.
Becomes(text, next) == [text |-> text, next |-> next]

\* UnicodeEscape that takes two escapes whatever the second is.
MutUnicodeEscape(str, i) ==
    LET unit == Unit(str, i + 2)
        next == UnitBehind(str, i)
    IN  CASE IsHigh(unit) /\ IsLow(next) -> Becomes(Utf32toUtf8(Joined(unit, next)), i + 12)
          [] IsHigh(unit) /\ ~IsLow(next) /\ next # 0 -> Becomes(<<"?">>, i + 12)
          [] IsLow(unit) \/ (IsHigh(unit) /\ next = 0) -> Becomes(<<"?">>, i + 6)
          [] OTHER -> Becomes(Utf32toUtf8(unit), i + 6)

UnicodeEscape(str, i) ==
    LET unit == Unit(str, i + 2)
        next == UnitBehind(str, i)
    IN  CASE IsHigh(unit) /\ IsLow(next) -> Becomes(Utf32toUtf8(Joined(unit, next)), i + 12)
          [] IsHigh(unit) /\ ~IsLow(next) -> Becomes(<<"?">>, i + 6)
          [] IsLow(unit) -> Becomes(<<"?">>, i + 6)
          [] OTHER -> Becomes(Utf32toUtf8(unit), i + 6)

Unescape(str, i) ==
    CASE str[i + 1] \in {"\\", "/", "\""} -> Becomes(<<str[i + 1]>>, i + 2)
      [] str[i + 1] = "r" -> Becomes(<<"\r">>, i + 2)
      [] str[i + 1] = "n" -> Becomes(<<"\n">>, i + 2)
      [] str[i + 1] = "f" -> Becomes(<<"\f">>, i + 2)
      [] str[i + 1] = "b" -> Becomes(<<"bs">>, i + 2)
      [] str[i + 1] = "t" -> Becomes(<<"\t">>, i + 2)
      [] str[i + 1] = "u" -> UnicodeEscape(str, i)

\* yajl_string_decode
string_decode(str) ==
    LET decoded[i \in 1..Len(str) + 1] ==
            IF i > Len(str) THEN <<>>
            ELSE IF str[i] # "\\" THEN <<str[i]>> \o decoded[i + 1]
            ELSE Unescape(str, i).text \o decoded[Unescape(str, i).next]
    IN  decoded[1]

-----------------------------------------------------------------------------
\* The classes of bytes that the lexer and the validator tell apart.
ByteClass(s) ==
    IF s \notin HighBytes THEN "ascii"
    ELSE LET b == ValueOf[s] IN
         CASE b \div 64 = 2 -> "cont"
           [] b \div 32 = 6 -> "lead2"
           [] b \div 16 = 14 -> "lead3"
           [] b \div 8 = 30 -> "lead4"
           [] OTHER -> "high"

\* The bytes of a sequence that starts with a byte of a class.
\* MutSequenceLength: the lead of four bytes is not one.
MutSequenceLength == [ascii |-> 1, lead2 |-> 2, lead3 |-> 3]
SequenceLength == [ascii |-> 1, lead2 |-> 2, lead3 |-> 3, lead4 |-> 4]

\* yajl_string_validate_utf8
string_validate_utf8(str) ==
    LET valid[i \in 1..Len(str) + 1] ==
            \/ i > Len(str)
            \/ /\ ByteClass(str[i]) \in DOMAIN SequenceLength
               /\ LET n == SequenceLength[ByteClass(str[i])]
                  IN  /\ i + n - 1 <= Len(str)
                      /\ \A j \in i + 1..i + n - 1 : ByteClass(str[j]) = "cont"
                      /\ valid[i + n]
    IN  valid[1]
=============================================================================
