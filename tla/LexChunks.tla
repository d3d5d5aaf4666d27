------------------------------ MODULE LexChunks ------------------------------
(***************************************************************************)
(* The lexer of YajlLex driven the way yajl_do_parse drives it: a text is  *)
(* fed in chunks of any length, empty ones included; within a chunk the    *)
(* lexer is called until it says eof; after an error it is not called      *)
(* again (the parser is in an error state then, and stays there).          *)
(*                                                                         *)
(* fed, trail and toks are history: they record what was fed, the modes    *)
(* the scanner went through in the pending token, and the tokens returned. *)
(***************************************************************************)
EXTENDS YajlLex, LexGrammar, FiniteSets

CONSTANTS
    Texts,      \* the texts to feed
    MaxChunk    \* the longest chunk

ASSUME TextsAssumption == Texts \subseteq Seq(Char)
ASSUME MaxChunkAssumption == MaxChunk \in Nat

VARIABLES text, fed, trail, toks

vars == <<lexVars, pc, text, fed, trail, toks>>

\* The token whose reading is under way, as far as it has been read since
\* the text began, and how much of it this call has (re)read.
Pending == Held \o (IF pc = "lex" THEN SubSeq(chunk, startOffset + 1, offset) ELSE <<>>)
Consumed == (IF bufInUse THEN bufOff ELSE 0) + (offset - startOffset)

\* Characters of the text in front of the lexer's place in the chunk.
Position == fed - Len(chunk) + offset

Unbuffered == INSTANCE LexStream WITH
    arrived <- fed,
    taken <- Position,
    lexeme <- Pending,
    mode <- IF trail = <<>> THEN "start" ELSE trail[Len(trail)]

Failed == Unbuffered!Failed(toks)

-----------------------------------------------------------------------------
Init ==
    /\ LexAlloc /\ pc = "got"
    /\ text \in Texts /\ opts \in LexOptions
    /\ fed = 0 /\ trail = <<>> /\ toks = <<>>

\* yajl_do_parse with the next n characters.
Feed(n) ==
    /\ pc = "got" /\ tok = "eof"
    /\ fed + n <= Len(text)
    /\ LexEnter(SubSeq(text, fed + 1, fed + n), 0)
    /\ fed' = fed + n
    /\ pc' = "lex"
    /\ UNCHANGED <<text, trail, toks>>

\* around_again: the next token of the same chunk.
CallAgain ==
    /\ pc = "got" /\ tok \notin {"eof", "error"}
    /\ LexEnter(chunk, offset)
    /\ pc' = "lex"
    /\ UNCHANGED <<text, fed, trail, toks>>

Skip == SkipWhite /\ UNCHANGED <<text, fed, trail, toks>>

Read ==
    /\ Advance
    /\ trail' = IF Replaying THEN trail ELSE Append(trail, mode')
    /\ UNCHANGED <<text, fed, toks>>

Comment == EndComment /\ trail' = <<>> /\ UNCHANGED <<text, fed, toks>>

Suspend == EndChunk /\ UNCHANGED <<text, fed, trail, toks>>

Emit ==
    /\ EndToken
    /\ trail' = <<>>
    /\ toks' = Append(toks, IF tok' = "error"
                            THEN Unbuffered!Failure(error')
                            ELSE [tok |-> tok', text |-> out', error |-> "e_ok"])
    /\ UNCHANGED <<text, fed>>

Next ==
    \/ \E n \in 0..MaxChunk : Feed(n)
    \/ CallAgain \/ Skip \/ Read \/ Comment \/ Suspend \/ Emit

Spec == Init /\ [][Next]_vars

-----------------------------------------------------------------------------
TypeOK ==
    /\ LexTypeOK
    /\ pc \in {"lex", "got"}
    /\ text \in Texts /\ fed \in Nat
    /\ trail \in Seq(Modes)
    /\ toks \in Seq([tok : Tokens, text : Seq(Char), error : LexErrors])

\* The place of the lexer in its chunk, in the text and in its buffer:
\* the chunk is the end of what was fed, the token starts in it at
\* startOffset, and while the buffer is replayed the chunk is untouched.
\* readChar and unreadChar rely on the last: unreadChar takes the character
\* back from the chunk whenever *offset > 0.
CursorOK ==
    /\ Len(chunk) <= fed /\ fed <= Len(text)
    /\ chunk = SubSeq(text, fed - Len(chunk) + 1, fed)
    /\ startOffset <= offset /\ offset <= Len(chunk)
    /\ bufInUse => bufOff <= Len(buf)
    /\ pc = "lex" /\ Replaying => offset = 0
    /\ pc = "lex" /\ mode = "start" => offset = startOffset /\ (bufInUse => bufOff = 0)
    /\ pc = "got" /\ bufInUse => tok = "eof" /\ bufOff = 0 /\ offset = Len(chunk)
    /\ pc = "got" /\ tok = "eof" => offset = Len(chunk)
    /\ Failed <=> (pc = "got" /\ tok = "error")

\* The modes the scanner went through are those Scan prescribes for the
\* pending token, and a call is where its share of them has led: reading
\* the buffer again repeats what was done when it was filled.
ModeAfter(n) == IF n = 0 THEN "start" ELSE trail[n]
TrailOK ==
    /\ Len(trail) = Len(Pending)
    /\ \A i \in 1..Len(trail) :
          /\ ~(i = 1 /\ Pending[1] \in White)
          /\ Scan(ModeAfter(i - 1), Pending[i], opts) = More(trail[i])
    /\ pc = "lex" => mode = ModeAfter(Consumed)

\* Whatever the chunk boundaries, the lexer does what a lexer without
\* buffering does: same tokens, same text of each, same error (the README's
\* "stream" parsing; yajl_lex.c:57-77).
ImplementsStream == Unbuffered!Spec

\* While yajl_lex_lex reads what an earlier call put in the buffer it never
\* returns a token, an error or the end of a comment: every unreadChar then
\* concerns a character of the buffer, and the buffer is never cut short.
ReplayNeverEnds ==
    [][pc = "lex" /\ Replaying /\ offset < Len(chunk) => pc' = "lex" /\ buf' = buf]_vars

\* Every token handed out is a token of JSON of the kind the lexer says.
TokensAreLexemes ==
    \A i \in 1..Len(toks) :
        toks[i].tok = "error" \/ IsLexeme(toks[i].tok, toks[i].text, opts)

\* And every token of JSON, white space behind it, comes out as one token:
\* none is refused, cut short, or taken for another.
WholeText(kind) ==
    CASE kind \in {"string", "string_with_escapes"} -> SubSeq(text, 2, Len(text) - 2)
      [] OTHER -> SubSeq(text, 1, Len(text) - 1)
IsTokenText(kind) ==
    /\ Len(text) > 1 /\ text[Len(text)] = " "
    /\ kind \in {"string", "string_with_escapes"} =>
          Len(text) > 2 /\ text[1] = "\"" /\ text[Len(text) - 1] = "\""
    /\ IsLexeme(kind, WholeText(kind), opts)
LexemesAreTokens ==
    pc = "got" /\ (tok = "error" \/ (tok = "eof" /\ fed = Len(text))) =>
        \A kind \in Tokens \ {"eof", "error"} :
            IsTokenText(kind) =>
                toks = <<[tok |-> kind, text |-> WholeText(kind), error |-> "e_ok"]>>

\* Without comments, lineOff and charOff are the line and the column of the
\* lexer's place in the text, however often characters were unread or read
\* again (yajl_lex_current_line counts from one, yajl_lex_current_char is
\* charOff - 1: yajl_lex.c:889-913).
Newlines(n) == {i \in 1..n : text[i] = "\n"}
LastNewline(n) == IF Newlines(n) = {} THEN 0
                  ELSE CHOOSE i \in Newlines(n) : \A j \in Newlines(n) : j <= i
PositionTrue ==
    ~opts.allowComments /\ ~Failed =>
        /\ lineOff = 1 + Cardinality(Newlines(Position))
        /\ charOff = Position - LastNewline(Position)

-----------------------------------------------------------------------------
\* yajl_lex.c:893-896 of yajl_lex_current_line: "Returns the number of lines
\* lexed by this lexer instance, counting from one."  The lines inside a
\* comment are not counted.
LinesCounted == ~Failed => lineOff = 1 + Cardinality(Newlines(Position))
=============================================================================
