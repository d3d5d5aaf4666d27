----------------------------- MODULE YajlError -----------------------------
(***************************************************************************)
(* yajl_render_error_string of src/src/yajl_parser.c: the sizes of what it *)
(* allocates and writes, and the 72 bytes in which it quotes the text      *)
(* around the error.  The words are left out.                              *)
(***************************************************************************)
EXTENDS Integers

Digits == 20       \* MAXULLONG_B10_DIGITS
QuoteSize == 72    \* sizeof(text)
Caret == 39        \* where the ^ of arrow is

AtMost(a, b) == IF a <= b THEN a ELSE b

\* "line: L: offset: C: T error: E", with the lengths of L, C, T and E; those
\* of the two numbers are cut to what fits in anumber.
Labels == 6 + 10 + 2 + 6
memneeded(type, text) == Labels + 2 * Digits + type + (IF text = 0 THEN 0 ELSE 2 + text)
MessageLength(line, coff, type, text) ==
    Labels + AtMost(line, Digits) + AtMost(coff, Digits) + type
           + (IF text = 0 THEN 0 ELSE 2 + text) + 1

\* The message, a newline behind it and a NUL behind that are in what was
\* allocated for them.
MessageFits(line, coff, type, text) ==
    MessageLength(line, coff, type, text) + 1 <= memneeded(type, text) + 2

\* The quote with the text from where it was, as it is 30 characters on.
MutExcerpt(offset, textLen) ==
    LET start == 0
        end   == IF offset + 30 > textLen THEN textLen ELSE offset + 30
        spaces == IF offset < 30 THEN 40 - offset ELSE 10
    IN  [spaces |-> spaces, start |-> start, end |-> end,
         length |-> spaces + IF start < end THEN end - start ELSE 0]

Excerpt(offset, textLen) ==
    LET start == IF offset >= 30 THEN offset - 30 ELSE 0
        end   == IF offset + 30 > textLen THEN textLen ELSE offset + 30
        spaces == IF offset < 30 THEN 40 - offset ELSE 10
    IN  [spaces |-> spaces, start |-> start, end |-> end,
         length |-> spaces + IF start < end THEN end - start ELSE 0]

\* The quote with its newline and its NUL is in text (the assert of
\* yajl_parser.c:277 would let one byte more pass), no byte behind the client's text
\* is read, and the caret is under the last character consumed.
ExcerptRight(offset, textLen) ==
    LET e == Excerpt(offset, textLen)
    IN  /\ e.length + 2 <= QuoteSize
        /\ e.start < e.end => e.end <= textLen
        /\ 1 <= offset /\ offset <= textLen =>
              /\ e.start < offset /\ offset <= e.end
              /\ e.spaces + (offset - 1 - e.start) = Caret
=============================================================================
