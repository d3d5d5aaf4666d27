------------------------------- MODULE YajlLex -------------------------------
(***************************************************************************)
(* The stream lexer of src/src/yajl_lex.c: yajl_lex_lex with the two       *)
(* places it reads from, the chunk of this call and the buffer that keeps  *)
(* the token a chunk boundary cut in two.                                  *)
(*                                                                         *)
(* A call starts at LexEnter, reads one character a step and ends, with    *)
(* pc = "got" and the token in tok, at the label `lexed' (Lexed).  When    *)
(* the chunk runs out inside a token the whole of the token read so far    *)
(* is kept in buf; the next call reads it again from there (replays it)    *)
(* before it goes on in its own chunk.                                     *)
(***************************************************************************)
EXTENDS YajlScan

VARIABLES
    chunk,        \* jsonText of the current call, a sequence of characters
    offset,       \* *offset, the characters read of chunk
    startOffset,  \* where the token being lexed starts in chunk
    buf,          \* lexer->buf, the token cut by chunk boundaries
    bufOff,       \* lexer->bufOff, the characters replayed of buf
    bufInUse,     \* lexer->bufInUse
    lineOff,      \* lexer->lineOff
    charOff,      \* lexer->charOff
    error,        \* lexer->error
    opts,         \* lexer->allowComments, lexer->validateUTF8
    mode,         \* where in the scanning routines the call is
    tok,          \* the token the last call returned
    out,          \* *outBuf, *outLen of the last call
    pc            \* "lex" inside the call, "got" after it

lexVars == <<chunk, offset, startOffset, buf, bufOff, bufInUse, lineOff,
             charOff, error, opts, mode, tok, out>>

-----------------------------------------------------------------------------
\* yajl_lex_alloc
LexAlloc ==
    /\ chunk = <<>> /\ offset = 0 /\ startOffset = 0
    /\ buf = <<>> /\ bufOff = 0 /\ bufInUse = FALSE
    /\ lineOff = 1 /\ charOff = 0 /\ error = "e_ok"
    /\ mode = "start" /\ tok = "eof" /\ out = <<>>

\* Entry of yajl_lex_lex, on chunk text with *offset = at.
LexEnter(text, at) ==
    /\ chunk' = text
    /\ offset' = at
    /\ startOffset' = at
    /\ mode' = "start"
    /\ UNCHANGED <<buf, bufOff, bufInUse, lineOff, charOff, error, opts, tok, out>>

-----------------------------------------------------------------------------
\* readChar and unreadChar, on the three cursors of the lexer.
Replaying == bufInUse /\ bufOff < Len(buf)

readChar ==
    IF Replaying
    THEN [offset |-> offset, charOff |-> charOff, bufOff |-> bufOff + 1]
    ELSE [offset |-> offset + 1, charOff |-> charOff + 1, bufOff |-> bufOff]

\* unreadChar that takes the first character of the chunk for the buffer's.
MutUnreadCharFirst(k) ==
    IF k.offset > 1
    THEN [k EXCEPT !.offset = @ - 1, !.charOff = @ - 1]
    ELSE [k EXCEPT !.bufOff = @ - 1]
\* unreadChar that leaves charOff alone.
MutUnreadCharOff(k) ==
    IF k.offset > 0
    THEN [k EXCEPT !.offset = @ - 1]
    ELSE [k EXCEPT !.bufOff = @ - 1]

unreadChar(k) ==
    IF k.offset > 0
    THEN [k EXCEPT !.offset = @ - 1, !.charOff = @ - 1]
    ELSE [k EXCEPT !.bufOff = @ - 1]

MoveTo(k) == offset' = k.offset /\ charOff' = k.charOff /\ bufOff' = k.bufOff

NextChar == IF Replaying THEN buf[bufOff + 1] ELSE chunk[offset + 1]

\* Every read is preceded by a test that the chunk is not exhausted.
AtEof == offset >= Len(chunk)
Reading == pc = "lex" /\ ~AtEof

Outcome == Scan(mode, NextChar, opts)

-----------------------------------------------------------------------------
\* White space between tokens; a newline starts a line.
SkipWhite ==
    /\ Reading
    /\ mode = "start" /\ NextChar \in White
    /\ offset' = readChar.offset /\ bufOff' = readChar.bufOff
    /\ IF NextChar = "\n"
       THEN lineOff' = lineOff + 1 /\ charOff' = 0
       ELSE charOff' = readChar.charOff /\ UNCHANGED lineOff
    /\ startOffset' = startOffset + 1
    /\ UNCHANGED <<chunk, buf, bufInUse, error, opts, mode, tok, out, pc>>

InToken == Reading /\ ~(mode = "start" /\ NextChar \in White)

\* A character of the token that does not end it.
Advance ==
    /\ InToken
    /\ Outcome.tok = "none"
    /\ MoveTo(readChar)
    /\ mode' = Outcome.mode
    /\ UNCHANGED <<chunk, startOffset, buf, bufInUse, lineOff, error, opts, tok, out, pc>>

\* The end of a comment: the call goes on behind it as if it just began.
EndCommentAt(start) ==
    /\ InToken
    /\ Outcome.tok = "comment"
    /\ MoveTo(readChar)
    /\ mode' = "start"
    /\ startOffset' = start
    /\ UNCHANGED <<chunk, lineOff, error, opts, tok, out, pc>>

\* EndComment that keeps the buffer.
MutEndCommentBuf ==
    /\ EndCommentAt(readChar.offset)
    /\ UNCHANGED <<buf, bufInUse>>
\* EndComment that leaves startOffset in front of the comment.
MutEndCommentStart ==
    /\ EndCommentAt(startOffset)
    /\ buf' = <<>> /\ bufInUse' = FALSE

EndComment ==
    /\ EndCommentAt(readChar.offset)
    /\ buf' = <<>> /\ bufInUse' = FALSE

\* Held without the yajl_buf_clear of a buffer not in use.
MutHeld == buf

\* The label `lexed': the call returns token t with the cursors at k.
Held == IF bufInUse THEN buf ELSE <<>>

\* A call returns token t with the cursors at k, and the buffer, if it has
\* been read, at bufOff = from.
LexedFrom(t, k, from) ==
    LET lexeme == Held \o SubSeq(chunk, startOffset + 1, k.offset)
    IN  /\ IF t = "eof" \/ bufInUse
           THEN buf' = lexeme /\ bufOff' = from /\ bufInUse' = (t = "eof")
           ELSE bufOff' = k.bufOff /\ UNCHANGED <<buf, bufInUse>>
        /\ out' = IF t = "eof" \/ (t = "error" /\ ~bufInUse)
                  THEN <<>> ELSE Unquoted(t, lexeme)
        /\ tok' = WithEscapes(t, lexeme)
        /\ offset' = k.offset /\ charOff' = k.charOff
        /\ mode' = "start"
        /\ pc' = "got"
        /\ UNCHANGED <<chunk, startOffset, lineOff, opts>>

\* Lexed without the reset of bufOff.
MutLexed(t, k) == LexedFrom(t, k, k.bufOff)

Lexed(t, k) == LexedFrom(t, k, 0)

\* EndToken that returns a comment as a token.
MutEndToken ==
    /\ InToken
    /\ Outcome.tok # "none"
    /\ error' = IF Outcome.tok = "error" THEN Outcome.error ELSE error
    /\ Lexed(Outcome.tok, IF Outcome.back THEN unreadChar(readChar) ELSE readChar)

\* A character that ends the token, or cannot be part of any.
EndToken ==
    /\ InToken
    /\ Outcome.tok \notin {"none", "comment"}
    /\ error' = IF Outcome.tok = "error" THEN Outcome.error ELSE error
    /\ Lexed(Outcome.tok, IF Outcome.back THEN unreadChar(readChar) ELSE readChar)

\* The end of the chunk, in a token or between two.
EndChunk ==
    /\ pc = "lex" /\ AtEof
    /\ Lexed("eof", [offset |-> offset, charOff |-> charOff, bufOff |-> bufOff])
    /\ UNCHANGED error

LexStep == SkipWhite \/ Advance \/ EndComment \/ EndToken \/ EndChunk

-----------------------------------------------------------------------------
LexTypeOK ==
    /\ chunk \in Seq(Char) /\ buf \in Seq(Char) /\ out \in Seq(Char)
    /\ offset \in Nat /\ startOffset \in Nat /\ bufOff \in Nat
    /\ bufInUse \in BOOLEAN
    /\ lineOff \in Nat /\ charOff \in Nat
    /\ error \in LexErrors /\ opts \in LexOptions
    /\ mode \in Modes /\ tok \in Tokens
=============================================================================
