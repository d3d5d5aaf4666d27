----------------------------- MODULE StreamProofs -----------------------------
(***************************************************************************)
(* Proofs about YajlStream, for every set of clients, every text, every    *)
(* way of cutting it into chunks and all options: type correctness, that   *)
(* the offset of an error stays in the chunk the client passed last, and   *)
(* that lexer, parser and client together are the parser of YajlParser.    *)
(*                                                                         *)
(* The inductive invariant Inv relates the cursors of the lexer to the     *)
(* parser's place in its loop.  Its heart is Pending: what is read of the  *)
(* token being lexed, in the buffer and in the chunk, is no longer than    *)
(* the column, which the parser moves back by the length of a token.       *)
(***************************************************************************)
EXTENDS YajlStream, SequenceTheorems, TLAPS

-----------------------------------------------------------------------------
(* What one character does to the scanner.                                 *)

\* What may end a token.
Ends == Tokens \ {"eof", "error", "string_with_escapes"}

\* An outcome as the lexer's types want it.
Sound(s) ==
    /\ s.tok \in Ends \cup {"none", "comment", "error"}
    /\ s.error \in LexErrors
    /\ s.tok = "none" => s.mode \in Modes \ {"start"}
    /\ s.tok = "comment" => ~s.back

\* No number ends where it starts.
Numeric(s) == s.tok \in {"integer", "double"}

\* The kinds of outcome are sound.
LEMMA Kinds ==
  /\ \A m \in Modes \ {"start"} : Sound(More(m)) /\ ~Numeric(More(m))
  /\ \A t \in Ends \cup {"comment"} : Sound(Done(t))
  /\ \A t \in Ends : Sound(DoneBefore(t))
  /\ \A t \in Ends \ {"integer", "double"} : ~Numeric(Done(t))
  /\ \A e \in LexErrors : /\ Sound(Bad(e)) /\ ~Numeric(Bad(e))
                          /\ Sound(BadBefore(e)) /\ ~Numeric(BadBefore(e))
BY DEF Sound, Numeric, More, Done, DoneBefore, Bad, BadBefore, Ends, Tokens, LexErrors

\* The first character of a token (ScanStart).
LEMMA StartLemma ==
  ASSUME NEW c \in Char, NEW o \in LexOptions
  PROVE  Sound(ScanStart(c, o)) /\ ~Numeric(ScanStart(c, o))
<1>1. CASE c \in Punctuation
  <2>1. PunctuationToken[c] \in Ends \ {"integer", "double"}
    BY <1>1 DEF PunctuationToken, Punctuation, Ends, Tokens
  <2>2. ScanStart(c, o) = Done(PunctuationToken[c])
    BY <1>1 DEF ScanStart, Punctuation, Digit
  <2> QED BY <2>1, <2>2, Kinds
<1>2. CASE c \notin Punctuation
  <2>1. \/ \E m \in Modes \ {"start"} : ScanStart(c, o) = More(m)
        \/ \E e \in LexErrors : ScanStart(c, o) \in {Bad(e), BadBefore(e)}
    BY <1>2 DEF ScanStart, Modes, WordModes, NumberModes, StringModes, CommentModes,
                 LexErrors, Punctuation, Digit
  <2> QED BY <2>1, Kinds
<1> QED BY <1>1, <1>2

\* true, false and null (ScanWord).
LEMMA WordLemma ==
  ASSUME NEW m \in WordModes, NEW c \in Char
  PROVE  Sound(ScanWord(m, c))
<1>1. \/ ScanWord(m, c) = BadBefore("invalid_string")
      \/ ScanWord(m, c) \in {Done("bool"), Done("null")}
      \/ \E x \in WordModes : ScanWord(m, c) = More(x)
  BY DEF ScanWord, WordModes, Want, Grown
<1>2. /\ WordModes \subseteq Modes \ {"start"} /\ {"bool", "null"} \subseteq Ends
      /\ "invalid_string" \in LexErrors
  BY DEF WordModes, Modes, Ends, Tokens, LexErrors
<1> QED BY <1>1, <1>2, Kinds

\* yajl_lex_number.
LEMMA NumberLemma ==
  ASSUME NEW m \in NumberModes, NEW c \in Char
  PROVE  Sound(ScanNumber(m, c))
<1> DEFINE Good(s) == Sound(s)
<1>1. /\ NumberModes \subseteq Modes \ {"start"} /\ {"integer", "double"} \subseteq Ends
      /\ {"number_with_leading_zero", "missing_integer_after_minus",
          "missing_integer_after_decimal", "missing_integer_after_exponent"} \subseteq LexErrors
  BY DEF NumberModes, Modes, Ends, Tokens, LexErrors
<1>2. \A x \in NumberModes : Good(More(x))
  BY <1>1, Kinds
<1>3. Good(BadBefore("number_with_leading_zero"))
  BY <1>1, Kinds
<1>4. Good(NumberEnd[m])
  BY <1>1, Kinds DEF NumberEnd, NumberModes
<1>5. m # "zero" /\ m \in {"minus", "int", "point", "frac", "exp", "sign", "power"}
        => Good(More(DigitTo[m]))
  BY <1>2 DEF DigitTo, NumberModes
<1> HIDE DEF Good
<1>6. Good(ScanNumber(m, c))
  BY <1>2, <1>3, <1>4, <1>5 DEF ScanNumber, NumberModes
<1> QED BY <1>6 DEF Good

\* yajl_lex_string.
LEMMA StringLemma ==
  ASSUME NEW m \in StringModes, NEW c \in Char, NEW o \in LexOptions
  PROVE  Sound(ScanString(m, c, o))
<1>0. /\ StringModes \subseteq Modes \ {"start"} /\ "string" \in Ends
      /\ {"string_invalid_json_char", "string_invalid_utf8", "string_invalid_escaped_char",
          "string_invalid_hex_char"} \subseteq LexErrors
  BY DEF StringModes, Modes, Ends, Tokens, LexErrors
<1>1. \A x \in StringModes : Sound(More(x))
  BY <1>0, Kinds
<1>2. \A e \in LexErrors : Sound(Bad(e)) /\ Sound(BadBefore(e))
  BY Kinds
<1>3. Sound(Done("string"))
  BY <1>0, Kinds
<1>4. CASE m = "str"
  <2>1. [lead2 |-> "cont1", lead3 |-> "cont2", lead4 |-> "cont3"][c] \in StringModes
        \/ c \notin {"lead2", "lead3", "lead4"}
    BY DEF StringModes
  <2> QED BY <1>1, <1>2, <1>3, <1>4, <2>1, Zenon DEF ScanString, StringModes, LexErrors
<1>5. CASE m = "esc"
  BY <1>1, <1>2, <1>5 DEF ScanString, StringModes, LexErrors
<1>6. CASE m \in {"hex4", "hex3", "hex2", "hex1"}
  <2>1. [hex4 |-> "hex3", hex3 |-> "hex2", hex2 |-> "hex1", hex1 |-> "str"][m] \in StringModes
    BY <1>6 DEF StringModes
  <2> QED BY <1>1, <1>2, <1>6, <2>1 DEF ScanString, LexErrors
<1>7. CASE m \in {"cont3", "cont2", "cont1"}
  <2>1. [cont3 |-> "cont2", cont2 |-> "cont1", cont1 |-> "str"][m] \in StringModes
    BY <1>7 DEF StringModes
  <2> QED BY <1>1, <1>2, <1>7, <2>1 DEF ScanString, LexErrors
<1> QED BY <1>4, <1>5, <1>6, <1>7 DEF StringModes

\* yajl_lex_comment.
LEMMA CommentLemma ==
  ASSUME NEW m \in CommentModes, NEW c \in Char
  PROVE  Sound(ScanComment(m, c))
<1>1. /\ CommentModes \subseteq Modes \ {"start"} /\ "invalid_char" \in LexErrors
  BY DEF CommentModes, Modes, LexErrors
<1>2. \A x \in CommentModes : Sound(More(x))
  BY <1>1, Kinds
<1>3. Sound(Bad("invalid_char")) /\ Sound(Done("comment"))
  BY <1>1, Kinds
<1> QED BY <1>2, <1>3 DEF ScanComment, CommentModes

\* What any character can do in any mode.
LEMMA ScanLemma ==
  ASSUME NEW m \in Modes, NEW c \in Char, NEW o \in LexOptions
  PROVE  /\ Sound(Scan(m, c, o))
         /\ Numeric(Scan(m, c, o)) => m # "start"
<1>1. /\ m \in WordModes => Scan(m, c, o) = ScanWord(m, c)
      /\ m \in NumberModes => Scan(m, c, o) = ScanNumber(m, c)
      /\ m \in StringModes => Scan(m, c, o) = ScanString(m, c, o)
      /\ m \in CommentModes => Scan(m, c, o) = ScanComment(m, c)
      /\ m = "start" => Scan(m, c, o) = ScanStart(c, o)
  <2>1. m \in WordModes => m \notin NumberModes \cup StringModes \cup CommentModes
    BY DEF WordModes, NumberModes, StringModes, CommentModes
  <2>2. m \in NumberModes => m \notin StringModes \cup CommentModes
    BY DEF NumberModes, StringModes, CommentModes
  <2>3. m \in StringModes => m \notin CommentModes
    BY DEF StringModes, CommentModes
  <2>4. m = "start" => m \notin WordModes \cup NumberModes \cup StringModes \cup CommentModes
    BY DEF WordModes, NumberModes, StringModes, CommentModes
  <2> QED BY <2>1, <2>2, <2>3, <2>4, Zenon DEF Scan
<1>2. m \in {"start"} \cup WordModes \cup NumberModes \cup StringModes \cup CommentModes
  BY DEF Modes
<1> QED BY <1>1, <1>2, StartLemma, WordLemma, NumberLemma, StringLemma, CommentLemma

-----------------------------------------------------------------------------
(* The inductive invariant.                                                *)

\* The part of chunk t between two offsets, behind what the buffer holds.
Cut(b, t, i, j) == b \o SubSeq(t, i + 1, j)

\* What has been read of the token that is being lexed or waits in the
\* buffer for the next chunk.
Pend == IF pc = "lex" THEN Cut(Held, chunk, startOffset, offset) ELSE Held

Typed ==
    /\ LexTypeOK
    /\ pc \in {"client", "loop", "lex", "got", "finish"}
    /\ client \in Clients /\ flags \subseteq client.options
    /\ fed \in 0..Len(text) /\ given \in 0..Len(text) /\ saved \in 0..Len(text)
    /\ allocated \in BOOLEAN

\* The offset is one of the chunk the parser works on, and of the client's
\* chunk when the client has it back.
Cursors ==
    /\ pc \in {"loop", "lex", "got"} =>
          /\ call \in {"parse", "finish"}
          /\ offset <= Len(chunk)
          /\ call = "parse" => Len(chunk) = given
    /\ pc \in {"client", "finish"} => offset <= given
    /\ pc = "finish" => call = "finish"
    /\ call = "finish" => saved <= given

\* A token is in the buffer only between the end of one chunk and the first
\* token of the next.
Buffered ==
    /\ bufInUse => bufOff <= Len(buf)
    /\ bufInUse /\ pc # "lex" => bufOff = 0
    /\ pc = "got" /\ bufInUse => tok = "eof" /\ offset = Len(chunk)
    /\ pc = "loop" /\ bufInUse => offset \in {0, Len(chunk)}

\* The buffer is replayed before a character of the chunk is read.
InLexer ==
    /\ mode # "start" => pc = "lex" /\ Pend # <<>>
    /\ pc = "lex" =>
          /\ startOffset <= offset
          /\ mode = "start" => startOffset = offset /\ (bufInUse => bufOff = 0)
          /\ Replaying => startOffset = offset
          /\ Replaying /\ ~AtEof => offset = 0

\* The column counts the characters of the token, which starts with no
\* white space.
Pending ==
    /\ Len(Pend) <= charOff
    /\ Pend # <<>> => Pend[1] \notin White

\* The parser can move back by the length of the token it got.
Answered ==
    pc = "got" /\ tok # "eof" =>
        /\ Len(out) <= charOff
        /\ tok \in {"integer", "double"} => out # <<>>

Inv == Typed /\ Cursors /\ Buffered /\ InLexer /\ Pending /\ Answered

-----------------------------------------------------------------------------
(* Lemmas about chunks and cursors.                                        *)

\* A part of a text behind the buffer, and what one character more does.
CutOK(b, t, i, j) ==
    /\ Cut(b, t, i, j) \in Seq(Char)
    /\ Len(Cut(b, t, i, j)) = Len(b) + (j - i)
    /\ i = j => Cut(b, t, i, j) = b
    /\ b # <<>> => Cut(b, t, i, j)[1] = b[1]
    /\ b = <<>> /\ i < j => Cut(b, t, i, j)[1] = t[i + 1]
    /\ b # <<>> \/ i < j => Cut(b, t, i, j) # <<>>

LEMMA CutLemma ==
  ASSUME NEW b \in Seq(Char), NEW t \in Seq(Char), NEW i \in Nat, NEW j \in Nat,
         i <= j, j <= Len(t)
  PROVE  CutOK(b, t, i, j)
<1>1. /\ Len(t) \in Nat /\ Len(b) \in Nat
      /\ \A k \in 1..Len(t) : t[k] \in Char
  BY LenProperties, ElementOfSeq
<1> DEFINE p == SubSeq(t, i + 1, j)
<1>2. p \in Seq(Char) /\ Len(p) = j - i /\ \A k \in 1..j - i : p[k] = t[i + k]
  <2>1. /\ i + 1 \in 1..Len(t) + 1 /\ j \in (i + 1) - 1..Len(t)
    BY <1>1
  <2>2. SubSeq(t, i + 1, j) \in Seq(Char)
    BY <1>1, <2>1, SubSeqProperties
  <2>3. Len(SubSeq(t, i + 1, j)) = j - i
    BY <1>1, <2>1, SubSeqProperties
  <2>4. \A k \in 1..j - i : SubSeq(t, i + 1, j)[k] = t[i + k]
    BY <1>1, <2>1, SubSeqProperties
  <2> QED BY <2>2, <2>3, <2>4
<1> HIDE DEF p
<1>3. /\ b \o p \in Seq(Char) /\ Len(b \o p) = Len(b) + Len(p)
      /\ \A k \in 1..Len(b) + Len(p) : (b \o p)[k] = IF k <= Len(b) THEN b[k] ELSE p[k - Len(b)]
  BY <1>2, ConcatProperties, ZenonT(40)
<1>4. i = j => b \o p = b
  <2> SUFFICES ASSUME i = j PROVE b \o p = b
    OBVIOUS
  <2>1. p = <<>>
    BY <1>2, EmptySeq
  <2> QED BY <2>1, ConcatEmptySeq
<1>5. b # <<>> => (b \o p)[1] = b[1]
  BY <1>1, <1>2, <1>3, EmptySeq
<1>6. b = <<>> /\ i < j => (b \o p)[1] = t[i + 1]
  <2> SUFFICES ASSUME b = <<>>, i < j PROVE (b \o p)[1] = t[i + 1]
    OBVIOUS
  <2>1. Len(b) = 0
    OBVIOUS
  <2>2. (b \o p)[1] = p[1]
    BY <1>2, <1>3, <2>1
  <2> QED BY <1>2, <2>2
<1>7. b # <<>> \/ i < j => b \o p # <<>>
  <2>1. b # <<>> \/ i < j => Len(b \o p) # 0
    BY <1>1, <1>2, <1>3, EmptySeq
  <2> QED BY <2>1
<1> QED BY <1>2, <1>3, <1>4, <1>5, <1>6, <1>7 DEF CutOK, Cut, p

\* Nothing is read of a token at its start.
LEMMA NoCut ==
  ASSUME NEW t \in Seq(Char), NEW j \in Nat, j <= Len(t)
  PROVE  Cut(<<>>, t, j, j) = <<>>
<1>1. <<>> \in Seq(Char) /\ j <= j
  OBVIOUS
<1>2. CutOK(<<>>, t, j, j)
  BY <1>1, CutLemma
<1> QED BY <1>2 DEF CutOK

\* What the buffer holds.
LEMMA HeldLemma ==
  ASSUME Typed
  PROVE  Held \in Seq(Char) /\ Len(Held) \in Nat
BY LenProperties DEF Typed, LexTypeOK, Held

\* What is read next, and where the cursors stand behind it.
ReadOK(k) ==
    /\ k.offset \in startOffset..Len(chunk) /\ k.charOff \in Nat /\ k.bufOff \in Nat
    /\ Len(Cut(Held, chunk, startOffset, k.offset)) <= k.charOff
    /\ Cut(Held, chunk, startOffset, k.offset) \in Seq(Char)
    /\ Pend # <<>> => Cut(Held, chunk, startOffset, k.offset) # <<>>

LEMMA ReadLemma ==
  ASSUME Inv, Reading
  PROVE  /\ NextChar \in Char
         /\ ReadOK(readChar)
         /\ unreadChar(readChar) = [offset |-> offset, charOff |-> charOff, bufOff |-> bufOff]
         /\ ReadOK(unreadChar(readChar))
<1>0. /\ pc = "lex" /\ offset < Len(chunk) /\ startOffset <= offset
      /\ chunk \in Seq(Char) /\ buf \in Seq(Char)
      /\ offset \in Nat /\ startOffset \in Nat /\ charOff \in Nat /\ bufOff \in Nat
      /\ Len(chunk) \in Nat /\ Len(buf) \in Nat
      /\ Replaying => offset = 0
  BY LenProperties DEF Inv, Typed, LexTypeOK, InLexer, Reading, AtEof
<1>1. Held \in Seq(Char) /\ Len(Held) \in Nat
  BY HeldLemma DEF Inv
<1>2. /\ Pend = Cut(Held, chunk, startOffset, offset)
      /\ Len(Cut(Held, chunk, startOffset, offset)) <= charOff
  BY <1>0 DEF Inv, Pending, Pend
<1>3. NextChar \in Char
  <2>1. CASE Replaying
    <3>1. bufOff + 1 \in 1..Len(buf)
      BY <1>0, <2>1 DEF Replaying
    <3> QED BY <1>0, <2>1, <3>1, ElementOfSeq DEF NextChar
  <2>2. CASE ~Replaying
    <3>1. offset + 1 \in 1..Len(chunk)
      BY <1>0
    <3> QED BY <1>0, <2>2, <3>1, ElementOfSeq DEF NextChar
  <2> QED BY <2>1, <2>2
<1> DEFINE here == [offset |-> offset, charOff |-> charOff, bufOff |-> bufOff]
<1>4. unreadChar(readChar) = here
  <2>1. CASE Replaying
    <3>1. readChar = [offset |-> offset, charOff |-> charOff, bufOff |-> bufOff + 1]
      BY <2>1 DEF readChar
    <3>2. ~(readChar.offset > 0) /\ readChar.bufOff - 1 = bufOff
      BY <1>0, <2>1, <3>1
    <3>3. unreadChar(readChar) = [readChar EXCEPT !.bufOff = readChar.bufOff - 1]
      BY <3>2 DEF unreadChar
    <3> QED BY <3>1, <3>2, <3>3
  <2>2. CASE ~Replaying
    <3>1. readChar = [offset |-> offset + 1, charOff |-> charOff + 1, bufOff |-> bufOff]
      BY <2>2 DEF readChar
    <3>2. readChar.offset > 0 /\ readChar.offset - 1 = offset /\ readChar.charOff - 1 = charOff
      BY <1>0, <3>1
    <3>3. unreadChar(readChar) = [readChar EXCEPT !.offset = readChar.offset - 1,
                                                  !.charOff = readChar.charOff - 1]
      BY <3>2 DEF unreadChar
    <3> QED BY <3>1, <3>2, <3>3
  <2> QED BY <2>1, <2>2
<1>5. \A j \in {offset, offset + 1} :
          /\ Cut(Held, chunk, startOffset, j) \in Seq(Char)
          /\ Len(Cut(Held, chunk, startOffset, j)) = Len(Held) + (j - startOffset)
  <2> HIDE DEF here
  <2> TAKE j \in {offset, offset + 1}
  <2>1. /\ j \in Nat /\ startOffset <= j /\ j <= Len(chunk)
        /\ startOffset \in Nat /\ chunk \in Seq(Char) /\ Held \in Seq(Char)
    BY <1>0, <1>1
  <2> QED BY <2>1, CutLemma DEF CutOK
<1>6. ReadOK(here)
  BY <1>0, <1>2, <1>5 DEF ReadOK
<1>7. ReadOK(readChar)
  <2>1. CASE Replaying
    BY <1>0, <1>2, <1>5, <2>1 DEF ReadOK, readChar
  <2>2. CASE ~Replaying
    <3>1. readChar = [offset |-> offset + 1, charOff |-> charOff + 1, bufOff |-> bufOff]
      BY <2>2 DEF readChar
    <3>2. Len(Cut(Held, chunk, startOffset, offset + 1)) <= charOff + 1
      BY <1>0, <1>1, <1>2, <1>5
    <3>3. Cut(Held, chunk, startOffset, offset + 1) # <<>>
      <4>1. Len(Cut(Held, chunk, startOffset, offset + 1)) # 0
        BY <1>0, <1>1, <1>5
      <4> QED BY <4>1
    <3> QED BY <1>0, <1>5, <3>1, <3>2, <3>3 DEF ReadOK
  <2> QED BY <2>1, <2>2
<1> QED BY <1>3, <1>4, <1>6, <1>7 DEF here

-----------------------------------------------------------------------------
(* The steps of the lexer.                                                 *)

Outside == UNCHANGED <<parserHeld, clientVars>>

\* Of what the parser and the client keep only the offsets matter here.
LEMMA OutsideLemma ==
  ASSUME Inv, Outside, pc = "lex", pc' \in {"lex", "got"}, chunk' = chunk, offset' <= Len(chunk)
  PROVE  Cursors'
BY DEF Inv, Cursors, Outside, parserHeld, clientVars

\* White space is not read from the buffer.
LEMMA SkipWhiteInv ==
  ASSUME Inv, SkipWhite, Outside
  PROVE  Inv'
<1>0. /\ pc = "lex" /\ offset < Len(chunk) /\ startOffset = offset /\ mode = "start"
      /\ chunk \in Seq(Char) /\ buf \in Seq(Char)
      /\ offset \in Nat /\ charOff \in Nat /\ bufOff \in Nat
      /\ Len(chunk) \in Nat /\ bufInUse \in BOOLEAN
      /\ bufInUse => bufOff = 0 /\ bufOff <= Len(buf)
  BY LenProperties DEF Inv, Typed, LexTypeOK, InLexer, SkipWhite, Reading, AtEof, Buffered
<1>1. /\ Held \in Seq(Char) /\ Len(Held) \in Nat
      /\ Pend = Held
  <2>1. Held \in Seq(Char) /\ Len(Held) \in Nat
    BY HeldLemma DEF Inv
  <2>2. CutOK(Held, chunk, startOffset, offset)
    BY <1>0, <2>1, CutLemma
  <2> QED BY <1>0, <2>1, <2>2 DEF Pend, CutOK
<1>2. Held = <<>>
  <2> SUFFICES ASSUME Held # <<>> PROVE FALSE
    OBVIOUS
  <2>1. bufInUse /\ Held = buf /\ buf # <<>>
    BY DEF Held
  <2>2. Len(buf) > 0
    BY <1>0, <2>1, EmptySeq
  <2>3. Replaying /\ NextChar = buf[1]
    BY <1>0, <2>1, <2>2 DEF Replaying, NextChar
  <2>4. buf[1] \notin White
    BY <1>1, <2>1 DEF Inv, Pending
  <2> QED BY <2>3, <2>4 DEF SkipWhite
<1>3. ~Replaying
  <2>1. bufInUse => Len(buf) = 0
    BY <1>2 DEF Held
  <2> QED BY <1>0, <2>1 DEF Replaying
<1>4. /\ offset' = offset + 1 /\ bufOff' = bufOff /\ startOffset' = offset + 1
      /\ charOff' \in {0, charOff + 1} /\ lineOff' \in {lineOff, lineOff + 1}
      /\ UNCHANGED <<chunk, buf, bufInUse, error, opts, mode, tok, out, pc>>
  BY <1>0, <1>3 DEF SkipWhite, readChar
<1>5. Held' = <<>> /\ Pend' = <<>> /\ ~Replaying'
  <2>1. Held' = <<>> /\ ~Replaying'
    BY <1>2, <1>3, <1>4 DEF Held, Replaying
  <2>2. offset' \in Nat /\ offset' <= Len(chunk)
    BY <1>0, <1>4
  <2>3. Cut(<<>>, chunk, offset', offset') = <<>>
    BY <1>0, <2>2, NoCut
  <2> QED BY <1>0, <1>4, <2>1, <2>3 DEF Pend
<1>6. Typed'
  BY <1>0, <1>4 DEF Inv, Typed, LexTypeOK, Outside, parserHeld, clientVars, text
<1>7. Cursors'
  BY <1>0, <1>4, OutsideLemma
<1>8. Buffered' /\ InLexer'
  BY <1>0, <1>4, <1>5 DEF Inv, Buffered, InLexer
<1>9. Pending'
  BY <1>0, <1>4, <1>5 DEF Pending
<1>10. Answered'
  BY <1>0, <1>4 DEF Answered
<1> QED BY <1>6, <1>7, <1>8, <1>9, <1>10 DEF Inv

\* A character more of the token, from the buffer or from the chunk.
LEMMA AdvanceInv ==
  ASSUME Inv, Advance, Outside
  PROVE  Inv'
<1>0. /\ pc = "lex" /\ offset < Len(chunk) /\ startOffset <= offset
      /\ chunk \in Seq(Char) /\ buf \in Seq(Char)
      /\ offset \in Nat /\ startOffset \in Nat /\ charOff \in Nat /\ bufOff \in Nat
      /\ Len(chunk) \in Nat /\ Len(buf) \in Nat /\ bufInUse \in BOOLEAN
      /\ mode \in Modes /\ opts \in LexOptions
      /\ bufInUse => bufOff <= Len(buf)
      /\ Reading
  BY LenProperties DEF Inv, Typed, LexTypeOK, InLexer, Advance, InToken, Reading, AtEof, Buffered
<1>1. /\ NextChar \in Char /\ ReadOK(readChar)
  BY <1>0, ReadLemma
<1>2. Outcome.mode \in Modes \ {"start"}
  BY <1>0, <1>1, ScanLemma DEF Outcome, Sound, Advance
<1>3. /\ offset' = readChar.offset /\ charOff' = readChar.charOff /\ bufOff' = readChar.bufOff
      /\ mode' = Outcome.mode
      /\ UNCHANGED <<chunk, startOffset, buf, bufInUse, lineOff, error, opts, tok, out, pc>>
  BY DEF Advance, MoveTo
<1>4. Held' = Held /\ Held \in Seq(Char) /\ Len(Held) \in Nat
  BY <1>3, HeldLemma DEF Held, Inv
<1>5. Pend' = Cut(Held, chunk, startOffset, readChar.offset)
  BY <1>0, <1>3, <1>4 DEF Pend
<1>6. /\ Pend = Cut(Held, chunk, startOffset, offset)
      /\ CutOK(Held, chunk, startOffset, offset)
  BY <1>0, <1>4, CutLemma DEF Pend
<1>7. /\ Pend' # <<>> /\ Pend'[1] \notin White
      /\ bufInUse => bufOff' <= Len(buf)
      /\ Replaying' => Replaying /\ offset' = offset
  <2>1. CASE Replaying
    <3>1. readChar.offset = offset /\ readChar.bufOff = bufOff + 1
      BY <2>1 DEF readChar
    <3>2. Pend' = Pend
      BY <1>5, <1>6, <3>1
    <3>3. Held = buf /\ Held # <<>> /\ bufOff + 1 <= Len(buf)
      BY <1>0, <2>1 DEF Held, Replaying
    <3>4. Pend # <<>>
      BY <1>6, <3>3 DEF CutOK
    <3> QED BY <1>3, <2>1, <3>1, <3>2, <3>3, <3>4 DEF Inv, Pending
  <2>2. CASE ~Replaying
    <3>1. readChar.offset = offset + 1 /\ readChar.bufOff = bufOff
      BY <2>2 DEF readChar
    <3>2. ~Replaying'
      BY <1>3, <2>2, <3>1 DEF Replaying
    <3>3. offset + 1 \in Nat /\ startOffset <= offset + 1 /\ offset + 1 <= Len(chunk)
      BY <1>0
    <3>4. CutOK(Held, chunk, startOffset, offset + 1)
      BY <1>0, <1>4, <3>3, CutLemma
    <3>5. Pend' # <<>>
      BY <1>0, <1>5, <3>1, <3>4 DEF CutOK
    <3>6. Pend'[1] \notin White
      <4>1. CASE Held # <<>>
        <5>1. Pend'[1] = Held[1] /\ Pend[1] = Held[1] /\ Pend # <<>>
          BY <1>5, <1>6, <3>1, <3>4, <4>1 DEF CutOK
        <5> QED BY <5>1 DEF Inv, Pending
      <4>2. CASE Held = <<>>
        <5>1. Pend'[1] = chunk[startOffset + 1]
          BY <1>0, <1>5, <3>1, <3>4, <4>2 DEF CutOK
        <5>2. CASE startOffset = offset
          <6>1. Pend = <<>>
            BY <1>6, <4>2, <5>2 DEF CutOK
          <6>2. mode = "start"
            BY <6>1 DEF Inv, InLexer
          <6>3. NextChar = chunk[offset + 1] /\ NextChar \notin White
            BY <2>2, <6>2 DEF NextChar, Advance, InToken
          <6> QED BY <5>1, <5>2, <6>3
        <5>3. CASE startOffset # offset
          <6>1. startOffset < offset
            BY <1>0, <5>3
          <6>2. Pend[1] = chunk[startOffset + 1] /\ Pend # <<>>
            BY <1>6, <4>2, <6>1 DEF CutOK
          <6> QED BY <5>1, <6>2 DEF Inv, Pending
        <5> QED BY <5>2, <5>3
      <4> QED BY <4>1, <4>2
    <3> QED BY <1>0, <1>3, <3>1, <3>2, <3>5, <3>6
  <2> QED BY <2>1, <2>2
<1>8. /\ offset' \in startOffset..Len(chunk) /\ charOff' \in Nat /\ bufOff' \in Nat
      /\ Len(Pend') <= charOff'
  BY <1>1, <1>3, <1>5 DEF ReadOK
<1>9. Typed'
  <2>1. offset' \in Nat
    BY <1>0, <1>8
  <2> QED BY <1>0, <1>2, <1>3, <1>8, <2>1 DEF Inv, Typed, LexTypeOK, Outside, parserHeld, clientVars, text
<1>10. Cursors'
  BY <1>0, <1>3, <1>8, OutsideLemma
<1>11. Buffered' /\ Pending' /\ Answered'
  BY <1>0, <1>3, <1>7, <1>8 DEF Buffered, Pending, Answered
<1>12. InLexer'
  <2>1. Replaying /\ offset' = offset => startOffset = offset /\ offset = 0
    BY <1>0 DEF Inv, InLexer, AtEof
  <2> QED BY <1>0, <1>2, <1>3, <1>7, <1>8, <2>1 DEF InLexer
<1> QED BY <1>9, <1>10, <1>11, <1>12 DEF Inv

\* Behind a comment the call goes on as if it had just begun.
LEMMA EndCommentInv ==
  ASSUME Inv, EndComment, Outside
  PROVE  Inv'
<1>0. /\ pc = "lex" /\ Reading /\ chunk \in Seq(Char) /\ Len(chunk) \in Nat
      /\ startOffset \in Nat
  BY LenProperties DEF Inv, Typed, LexTypeOK, EndComment, EndCommentAt, InToken, Reading
<1>1. ReadOK(readChar)
  BY <1>0, ReadLemma
<1>2. /\ offset' = readChar.offset /\ charOff' = readChar.charOff /\ bufOff' = readChar.bufOff
      /\ startOffset' = readChar.offset /\ mode' = "start" /\ buf' = <<>> /\ bufInUse' = FALSE
      /\ UNCHANGED <<chunk, lineOff, error, opts, tok, out, pc>>
  BY DEF EndComment, EndCommentAt, MoveTo
<1>3. /\ offset' \in Nat /\ offset' <= Len(chunk) /\ charOff' \in Nat /\ bufOff' \in Nat
  BY <1>0, <1>1, <1>2 DEF ReadOK
<1>4. ~Replaying' /\ Held' = <<>>
  BY <1>2 DEF Replaying, Held
<1>5. Pend' = <<>>
  <2>1. Cut(<<>>, chunk, offset', offset') = <<>>
    BY <1>0, <1>3, NoCut
  <2> QED BY <1>0, <1>2, <1>4, <2>1 DEF Pend
<1>6. Typed'
  <2>1. "start" \in Modes /\ <<>> \in Seq(Char)
    BY DEF Modes
  <2> QED BY <1>0, <1>2, <1>3, <2>1 DEF Inv, Typed, LexTypeOK, Outside, parserHeld, clientVars, text
<1>7. Cursors'
  BY <1>0, <1>2, <1>3, OutsideLemma
<1>8. Buffered' /\ InLexer' /\ Answered'
  BY <1>0, <1>2, <1>3, <1>4 DEF Buffered, InLexer, Answered
<1>9. Pending'
  BY <1>3, <1>5 DEF Pending
<1> QED BY <1>6, <1>7, <1>8, <1>9 DEF Inv

\* The text of a token without its quotes is no longer than the token.
LEMMA UnquotedLemma ==
  ASSUME NEW t, NEW s \in Seq(Char)
  PROVE  /\ Unquoted(t, s) \in Seq(Char)
         /\ Len(Unquoted(t, s)) <= Len(s)
         /\ t # "string" => Unquoted(t, s) = s
<1>1. CASE t # "string"
  BY <1>1 DEF Unquoted
<1>2. CASE t = "string"
  <2>1. Len(s) \in Nat /\ \A k \in 1..Len(s) : s[k] \in Char
    BY LenProperties, ElementOfSeq
  <2>2. PICK n \in Int : n = Len(s) - 1
    BY <2>1
  <2>3. \A k \in 2..n : s[k] \in Char
    BY <2>1, <2>2
  <2>4. SubSeq(s, 2, n) \in Seq(Char) /\ Len(SubSeq(s, 2, n)) = IF 2 <= n THEN n - 2 + 1 ELSE 0
    BY <2>3, SubSeqProperties
  <2>5. Len(SubSeq(s, 2, n)) <= Len(s)
    BY <2>1, <2>2, <2>4
  <2> QED BY <1>2, <2>2, <2>4, <2>5 DEF Unquoted
<1> QED BY <1>1, <1>2

\* The answer of a call of the lexer: token t, with the cursors at k.
LEMMA LexedInv ==
  ASSUME Inv, Outside, pc = "lex", NEW t, NEW k, ReadOK(k), Lexed(t, k),
         t \in Ends \cup {"error"},
         t \in {"integer", "double"} => mode # "start", error' \in LexErrors
  PROVE  Inv'
<1> DEFINE lexeme == Cut(Held, chunk, startOffset, k.offset)
<1>0. t # "eof" /\ "start" \in Modes
  BY DEF Ends, Modes
<1>1. /\ chunk \in Seq(Char) /\ Len(chunk) \in Nat /\ startOffset \in Nat
      /\ k.offset \in Nat /\ k.offset <= Len(chunk) /\ k.charOff \in Nat /\ k.bufOff \in Nat
      /\ lexeme \in Seq(Char) /\ Len(lexeme) <= k.charOff
  BY LenProperties DEF Inv, Typed, LexTypeOK, ReadOK
<1>2. /\ IF bufInUse
         THEN buf' = lexeme /\ bufOff' = 0 /\ bufInUse' = FALSE
         ELSE bufOff' = k.bufOff /\ UNCHANGED <<buf, bufInUse>>
      /\ out' = IF t = "error" /\ ~bufInUse THEN <<>> ELSE Unquoted(t, lexeme)
      /\ tok' = WithEscapes(t, lexeme)
      /\ offset' = k.offset /\ charOff' = k.charOff /\ mode' = "start" /\ pc' = "got"
      /\ UNCHANGED <<chunk, startOffset, lineOff, opts>>
  BY <1>0 DEF Lexed, LexedFrom, Cut
<1> HIDE DEF lexeme
<1>3. /\ bufInUse' = FALSE /\ buf' \in Seq(Char) /\ bufOff' \in Nat
  BY <1>1, <1>2 DEF Inv, Typed, LexTypeOK
<1>4. Pend' = <<>> /\ Held' = <<>>
  BY <1>2, <1>3 DEF Pend, Held
<1>5. /\ tok' \in Tokens
      /\ tok' \in {"integer", "double"} => tok' = t
  <2>1. tok' \in {t, "string_with_escapes"}
    BY <1>2 DEF WithEscapes
  <2> QED BY <2>1 DEF Ends, Tokens
<1>6. /\ out' \in Seq(Char) /\ Len(out') <= k.charOff
      /\ t \in {"integer", "double"} => out' # <<>>
  <2>1. /\ Unquoted(t, lexeme) \in Seq(Char) /\ Len(Unquoted(t, lexeme)) <= Len(lexeme)
        /\ t # "string" => Unquoted(t, lexeme) = lexeme
    BY <1>1, UnquotedLemma
  <2>2. t \in {"integer", "double"} => lexeme # <<>>
    BY DEF Inv, InLexer, ReadOK, lexeme
  <2>3. Unquoted(t, lexeme) \in Seq(Char) /\ Len(Unquoted(t, lexeme)) <= k.charOff
    <3>1. Len(Unquoted(t, lexeme)) \in Nat /\ Len(lexeme) \in Nat
      BY <1>1, <2>1, LenProperties
    <3> QED BY <1>1, <2>1, <3>1
  <2>4. CASE t = "error" /\ ~bufInUse
    BY <1>1, <1>2, <2>4
  <2>5. CASE ~(t = "error" /\ ~bufInUse)
    BY <1>2, <2>1, <2>2, <2>3, <2>5
  <2> QED BY <2>4, <2>5
<1>7. Typed'
  BY <1>0, <1>1, <1>2, <1>3, <1>5, <1>6
  DEF Inv, Typed, LexTypeOK, Outside, parserHeld, clientVars, text
<1>8. Cursors'
  BY <1>1, <1>2, OutsideLemma
<1>9. Buffered' /\ InLexer'
  BY <1>2, <1>3 DEF Buffered, InLexer
<1>10. Pending' /\ Answered'
  BY <1>1, <1>2, <1>4, <1>5, <1>6 DEF Pending, Answered
<1> QED BY <1>7, <1>8, <1>9, <1>10 DEF Inv

LEMMA EndTokenInv ==
  ASSUME Inv, EndToken, Outside
  PROVE  Inv'
<1>0. /\ pc = "lex" /\ Reading /\ mode \in Modes /\ opts \in LexOptions /\ error \in LexErrors
  BY DEF Inv, Typed, LexTypeOK, EndToken, InToken, Reading
<1>1. NextChar \in Char /\ ReadOK(readChar) /\ ReadOK(unreadChar(readChar))
  BY <1>0, ReadLemma
<1>2. Sound(Outcome) /\ (Numeric(Outcome) => mode # "start")
  BY <1>0, <1>1, ScanLemma DEF Outcome
<1>3. PICK k \in {readChar, unreadChar(readChar)} : Lexed(Outcome.tok, k)
  BY DEF EndToken
<1>4. ReadOK(k)
  BY <1>1
<1>5. /\ Outcome.tok \in Ends \cup {"error"}
      /\ Outcome.tok \in {"integer", "double"} => mode # "start"
      /\ error' \in LexErrors
  BY <1>0, <1>2 DEF EndToken, Sound, Numeric
<1> QED BY <1>0, <1>3, <1>4, <1>5, LexedInv

\* The end of the chunk leaves what is read of a token in the buffer.
LEMMA EndChunkInv ==
  ASSUME Inv, EndChunk, Outside
  PROVE  Inv'
<1>0. /\ pc = "lex" /\ offset = Len(chunk) /\ startOffset <= offset
      /\ chunk \in Seq(Char) /\ offset \in Nat /\ startOffset \in Nat
      /\ "start" \in Modes /\ "eof" \in Tokens
  BY LenProperties DEF Inv, Typed, LexTypeOK, EndChunk, AtEof, Cursors, InLexer, Modes, Tokens
<1>1. Held \in Seq(Char)
  BY HeldLemma DEF Inv
<1>2. Pend = Cut(Held, chunk, startOffset, offset) /\ Pend \in Seq(Char)
  <2>1. CutOK(Held, chunk, startOffset, offset)
    BY <1>0, <1>1, CutLemma
  <2> QED BY <1>0, <2>1 DEF CutOK, Pend
<1>3. /\ buf' = Pend /\ bufOff' = 0 /\ bufInUse' = TRUE /\ out' = <<>> /\ tok' = "eof"
      /\ mode' = "start" /\ pc' = "got" /\ offset' = offset /\ charOff' = charOff
      /\ UNCHANGED <<chunk, startOffset, lineOff, opts, error>>
  <2>1. WithEscapes("eof", Pend) = "eof"
    BY DEF WithEscapes
  <2> QED BY <1>2, <2>1 DEF EndChunk, Lexed, LexedFrom, Cut
<1>4. Pend' = Pend
  BY <1>3 DEF Pend, Held
<1>5. Typed'
  BY <1>0, <1>2, <1>3 DEF Inv, Typed, LexTypeOK, Outside, parserHeld, clientVars, text
<1>6. Cursors'
  BY <1>0, <1>3, OutsideLemma
<1>7. Buffered' /\ InLexer' /\ Answered'
  BY <1>0, <1>2, <1>3, LenProperties DEF Buffered, InLexer, Answered
<1>8. Pending'
  BY <1>3, <1>4 DEF Inv, Pending
<1> QED BY <1>5, <1>6, <1>7, <1>8 DEF Inv

LEMMA LexInv ==
  ASSUME Inv, Lex
  PROVE  Inv'
<1>1. Outside
  BY DEF Lex, Outside
<1> QED BY <1>1, SkipWhiteInv, AdvanceInv, EndCommentInv, EndTokenInv, EndChunkInv, Zenon
        DEF Lex, LexStep

-----------------------------------------------------------------------------
(* The steps of the parser.                                                *)

\* What a turn of the loop does to what the lexer and the client see: where
\* it may lead, and with which tokens it moves the offset back.
Turned ==
    /\ pc \in {"loop", "got"} /\ pc' \in {"loop", "client", "finish"}
    /\ pc' = "finish" => call = "finish"
    /\ UNCHANGED <<call, flags, tok>>
    /\ RangeError => pc = "got" /\ tok \in {"integer", "double"}
    /\ MapError => pc = "got" /\ tok # "eof"

\* Every step of the parser on a token.
LEMMA HandleTurned ==
  ASSUME NEW fits \in BOOLEAN, P!HandleToken(fits)
  PROVE  Turned
<1> USE DEF Turned, RangeError, MapError, P!Got, P!Silent
<1>1. CASE P!Eof
  BY <1>1 DEF P!Eof, P!Return
<1>2. CASE P!LexicalError
  BY <1>2 DEF P!LexicalError, P!Become
<1>3. CASE P!Garbage
  BY <1>3 DEF P!Garbage, P!Fail
<1>4. CASE P!Unexpected
  BY <1>4 DEF P!Unexpected, P!Fail
<1>5. ASSUME NEW cb, NEW stack, P!Callback(cb, stack), pc = "got", UNCHANGED <<call, flags, tok>>
      PROVE  Turned
  BY <1>5 DEF P!Callback, P!Become, P!Cancelled, P!Return
<1>6. CASE P!Scalar
  BY <1>5, <1>6 DEF P!Scalar
<1>7. CASE P!Number(fits)
  <2>1. CASE P!Fail("out of range")
    BY <1>7, <2>1 DEF P!Number, P!Fail
  <2>2. CASE ~P!Fail("out of range")
    <3>1. \E cb, stack : P!Callback(cb, stack)
      BY <1>7, <2>2 DEF P!Number
    <3> QED BY <1>5, <1>7, <3>1 DEF P!Number
  <2> QED BY <2>1, <2>2
<1>8. CASE P!OpenMap \/ P!OpenArray
  BY <1>5, <1>8 DEF P!OpenMap, P!OpenArray
<1>9. CASE P!CloseMap \/ P!CloseArray
  BY <1>5, <1>9 DEF P!CloseMap, P!CloseArray
<1>10. CASE P!Key
  BY <1>5, <1>10 DEF P!Key
<1>11. CASE P!Colon \/ P!Comma
  BY <1>11 DEF P!Colon, P!Comma, P!Become
<1> QED BY <1>1, <1>2, <1>3, <1>4, <1>6, <1>7, <1>8, <1>9, <1>10, <1>11 DEF P!HandleToken

LEMMA ParseTurned ==
  ASSUME Parse
  PROVE  Turned
<1>1. CASE P!NextDocument
  BY <1>1 DEF P!NextDocument, P!Turn, Turned, RangeError, MapError
<1>2. CASE P!StayDead
  BY <1>2 DEF P!StayDead, P!Turn, P!Return, Turned, RangeError, MapError
<1>3. CASE P!HandleToken(out \notin OutOfRange)
  <2>1. (out \notin OutOfRange) \in BOOLEAN
    OBVIOUS
  <2> QED BY <1>3, <2>1, HandleTurned
<1>4. CASE P!Rest(offset = Len(chunk)) /\ pc' # "lex"
  BY <1>4 DEF P!Rest, P!Turn, P!Return, Turned, RangeError, MapError
<1> QED BY <1>1, <1>2, <1>3, <1>4 DEF Parse

\* The offset and the column of an error stay in the text (yajl_do_parse
\* moves them back by the length of a token, which came from the text).
LEMMA Moved ==
  ASSUME Inv, Turned
  PROVE  /\ MovedOffset \in 0..offset /\ MovedCharOff \in Nat
         /\ ~(pc = "got" /\ tok # "eof") => MovedOffset = offset
<1>0. /\ offset \in Nat /\ charOff \in Nat /\ out \in Seq(Char) /\ Len(out) \in Nat
  BY LenProperties DEF Inv, Typed, LexTypeOK
<1>1. ~(RangeError /\ MapError)
  BY DEF RangeError, MapError
<1>2. CASE RangeError
  <2>1. /\ MovedOffset = IF offset >= bufLen THEN offset - (bufLen - 1) ELSE 0
        /\ MovedCharOff = charOff - (bufLen - 1)
    <3>1. ~MapError
      BY <1>1, <1>2
    <3> QED BY <1>2, <3>1, Zenon DEF MovedOffset, MovedCharOff
  <2>2. pc = "got" /\ tok \in {"integer", "double"}
    BY <1>2 DEF Turned
  <2>3. Len(out) <= charOff /\ out # <<>>
    BY <2>2 DEF Inv, Answered
  <2>4. Len(out) >= 1
    BY <1>0, <2>3, EmptySeq
  <2> QED BY <1>0, <2>1, <2>2, <2>3, <2>4 DEF bufLen
<1>3. CASE MapError
  <2>0. ~RangeError
    BY <1>1, <1>3
  <2>1. MovedOffset = IF offset >= bufLen THEN offset - bufLen ELSE 0
    BY <1>3, <2>0, Zenon DEF MovedOffset
  <2>2. MovedCharOff \in {charOff - bufLen, charOff}
    BY <1>3, <2>0 DEF MovedCharOff
  <2>3. pc = "got" /\ tok # "eof"
    BY <1>3 DEF Turned
  <2>4. Len(out) <= charOff
    BY <2>3 DEF Inv, Answered
  <2> QED BY <1>0, <2>1, <2>2, <2>3, <2>4 DEF bufLen
<1>4. CASE ~RangeError /\ ~MapError
  <2>1. MovedOffset = offset /\ MovedCharOff = charOff
    BY <1>4, Zenon DEF MovedOffset, MovedCharOff
  <2> QED BY <1>0, <2>1
<1> QED BY <1>2, <1>3, <1>4

LEMMA ParseInv ==
  ASSUME Inv, Parse
  PROVE  Inv'
<1>1. Turned
  BY ParseTurned
<1>2. /\ MovedOffset \in 0..offset /\ MovedCharOff \in Nat
      /\ ~(pc = "got" /\ tok # "eof") => MovedOffset = offset
  BY <1>1, Moved
<1>3. /\ offset' = Restored(MovedOffset) /\ charOff' = MovedCharOff
      /\ UNCHANGED <<chunk, startOffset, buf, bufOff, bufInUse, lineOff, error, opts, mode, out,
                     client, fed, given, allocated, saved>>
  BY DEF Parse, lexHeld, clientVars
<1>4. /\ offset \in Nat /\ saved \in Nat /\ given \in Nat /\ Len(chunk) \in Nat
      /\ offset <= Len(chunk) /\ call \in {"parse", "finish"}
      /\ call = "parse" => Len(chunk) = given
      /\ call = "finish" => saved <= given
  BY <1>1, LenProperties DEF Inv, Typed, LexTypeOK, Cursors, Turned
<1>5. /\ offset' \in Nat
      /\ pc' = "loop" => offset' = MovedOffset /\ offset' <= Len(chunk)
      /\ pc' \in {"client", "finish"} => offset' <= given
  BY <1>1, <1>2, <1>3, <1>4 DEF Restored, Turned
<1>6. Typed'
  BY <1>1, <1>2, <1>3, <1>5 DEF Inv, Typed, LexTypeOK, Turned, text
<1>7. Cursors'
  BY <1>1, <1>3, <1>4, <1>5 DEF Cursors, Turned
<1>8. bufInUse => offset' \in {0, Len(chunk)} \/ pc' # "loop"
  <2>1. bufInUse => MovedOffset = offset /\ offset \in {0, Len(chunk)}
    BY <1>1, <1>2 DEF Inv, Buffered, Turned
  <2> QED BY <1>5, <2>1
<1>9. Buffered' /\ InLexer' /\ Answered'
  BY <1>1, <1>3, <1>8 DEF Inv, Buffered, InLexer, Answered, Turned
<1>10. Pending'
  <2>1. Pend' = Held /\ Pend = Held
    BY <1>1, <1>3 DEF Pend, Held, Turned
  <2>2. bufInUse => charOff' = charOff
    <3>1. bufInUse => ~(pc = "got" /\ tok # "eof")
      BY DEF Inv, Buffered
    <3>2. bufInUse => ~RangeError /\ ~MapError
      BY <1>1, <3>1 DEF Turned
    <3> QED BY <1>3, <3>2, Zenon DEF MovedCharOff
  <2>3. ~bufInUse => Held = <<>>
    BY DEF Held
  <2> QED BY <1>2, <1>3, <2>1, <2>2, <2>3 DEF Inv, Pending
<1> QED BY <1>6, <1>7, <1>9, <1>10 DEF Inv

-----------------------------------------------------------------------------
(* The steps of the client, and those between parser and lexer.            *)

LEMMA InitInv == Init => Inv
<1> SUFFICES ASSUME Init PROVE Inv
  OBVIOUS
<1>1. /\ client \in Clients /\ flags = {} /\ pc = "client" /\ call = "none" /\ tok = "eof"
      /\ chunk = <<>> /\ offset = 0 /\ startOffset = 0 /\ buf = <<>> /\ bufOff = 0
      /\ bufInUse = FALSE /\ lineOff = 1 /\ charOff = 0 /\ error = "e_ok"
      /\ mode = "start" /\ out = <<>>
      /\ opts = [allowComments |-> FALSE, validateUTF8 |-> FALSE]
      /\ fed = 0 /\ given = 0 /\ saved = 0 /\ allocated = FALSE
  BY DEF Init, P!Init, LexAlloc
<1>2. text \in Seq(Char)
  BY <1>1, ClientsAssumption DEF text
<1>3. <<>> \in Seq(Char) /\ opts \in LexOptions /\ Len(text) \in Nat
      /\ "start" \in Modes /\ "eof" \in Tokens /\ "e_ok" \in LexErrors
  BY <1>1, <1>2, LenProperties DEF LexOptions, Modes, Tokens, LexErrors
<1>4. Typed
  <2>1. LexTypeOK
    BY <1>1, <1>3 DEF LexTypeOK
  <2>2. 0 \in 0..Len(text)
    BY <1>3
  <2> QED BY <1>1, <2>1, <2>2 DEF Typed
<1>5. Held = <<>> /\ Pend = <<>> /\ Len(Pend) = 0
  BY <1>1 DEF Held, Pend
<1> QED BY <1>1, <1>4, <1>5 DEF Inv, Cursors, Buffered, InLexer, Pending, Answered

\* The client's text, of which every chunk is a part.
LEMMA TextLemma ==
  ASSUME Typed
  PROVE  text \in Seq(Char) /\ Len(text) \in Nat
<1>1. text \in Seq(Char)
  BY ClientsAssumption DEF Typed, text
<1> QED BY <1>1, LenProperties

LEMMA ConfigureInv ==
  ASSUME Inv, Configure
  PROVE  Inv'
<1>1. /\ pc = "client" /\ flags' \subseteq client.options
      /\ UNCHANGED <<lexHeld, offset, charOff, clientVars, call, pc, tok>>
  BY DEF Inv, Typed, Configure, P!Config
<1> QED BY <1>1 DEF Inv, Typed, LexTypeOK, Cursors, Buffered, InLexer, Pending, Answered,
               Pend, Held, Replaying, lexHeld, clientVars, text

\* A call of the client leaves the lexer where it was, on a new chunk.
LEMMA PassInv ==
  ASSUME Inv, NEW c \in {"parse", "finish"}, P!Call(c), NEW piece \in Seq(Char), Pass(piece),
         fed' \in 0..Len(text), given' \in 0..Len(text), saved' \in 0..Len(text),
         c = "parse" => Len(piece) = given',
         c = "finish" => saved' <= given'
  PROVE  Inv'
<1>1. /\ pc = "client" /\ pc' = "loop" /\ call' = c /\ chunk' = piece /\ offset' = 0
      /\ opts' \in LexOptions /\ allocated' = TRUE
      /\ UNCHANGED <<flags, tok, startOffset, buf, bufOff, bufInUse, lineOff, charOff, error,
                     mode, out, client>>
  <2>1. [allowComments |-> "allow_comments" \in flags,
         validateUTF8  |-> "dont_validate_strings" \notin flags] \in LexOptions
    BY DEF LexOptions
  <2>2. opts' \in LexOptions
    BY <2>1 DEF Pass, Inv, Typed, LexTypeOK
  <2> QED BY <2>2 DEF Pass, P!Call
<1>2. Len(piece) \in Nat
  BY LenProperties
<1>3. Typed'
  BY <1>1 DEF Inv, Typed, LexTypeOK, text
<1>4. Cursors'
  BY <1>1, <1>2 DEF Cursors
<1>5. Buffered' /\ InLexer' /\ Answered'
  BY <1>1 DEF Inv, Buffered, InLexer, Answered
<1>6. Pending'
  <2>1. Pend' = Pend
    BY <1>1 DEF Pend, Held
  <2> QED BY <1>1, <2>1 DEF Inv, Pending
<1> QED BY <1>3, <1>4, <1>5, <1>6 DEF Inv

LEMMA parseInv ==
  ASSUME Inv, NEW n \in ChunkSizes, parse(n)
  PROVE  Inv'
<1>1. /\ text \in Seq(Char) /\ Len(text) \in Nat /\ fed \in Nat /\ n \in Nat
      /\ fed + n <= Len(text)
  BY TextLemma, ChunkSizesAssumption DEF Inv, Typed, parse
<1> DEFINE piece == SubSeq(text, fed + 1, fed + n)
<1>2. piece \in Seq(Char) /\ Len(piece) = n
  <2>1. \A k \in 1..Len(text) : text[k] \in Char
    BY <1>1, ElementOfSeq
  <2>2. \A k \in fed + 1..fed + n : text[k] \in Char
    BY <1>1, <2>1
  <2>3. fed + 1 \in Int /\ fed + n \in Int
    BY <1>1
  <2>4. piece \in Seq(Char)
    BY <2>2, <2>3, SubSeqProperties
  <2>5. Len(piece) = IF fed + 1 <= fed + n THEN (fed + n) - (fed + 1) + 1 ELSE 0
    BY <2>2, <2>3, SubSeqProperties
  <2>6. Len(piece) = n
    BY <1>1, <2>5
  <2> QED BY <2>4, <2>6
<1> HIDE DEF piece
<1>3. P!Call("parse") /\ Pass(piece) /\ fed' = fed + n /\ given' = n /\ saved' = saved
  BY DEF parse, piece
<1>4. fed' \in 0..Len(text) /\ given' \in 0..Len(text) /\ saved' \in 0..Len(text)
  BY <1>1, <1>3 DEF Inv, Typed
<1> QED BY <1>2, <1>3, <1>4, PassInv

LEMMA completeInv ==
  ASSUME Inv, complete_parse
  PROVE  Inv'
<1>1. /\ pc = "client" /\ offset \in Nat /\ given \in 0..Len(text) /\ fed \in 0..Len(text)
      /\ Len(text) \in Nat
  BY TextLemma DEF Inv, Typed, LexTypeOK, complete_parse, P!Call
<1>2. P!Call("finish") /\ Pass(<<" ">>) /\ saved' = offset /\ fed' = fed /\ given' = given
  BY DEF complete_parse
<1>3. offset <= given
  BY <1>1 DEF Inv, Cursors
<1>4. fed' \in 0..Len(text) /\ given' \in 0..Len(text) /\ saved' \in 0..Len(text) /\ saved' <= given'
  <2>1. \A m, n, k \in Nat : m <= n /\ n <= k => m \in 0..k
    OBVIOUS
  <2>2. given \in Nat /\ given <= Len(text)
    BY <1>1
  <2>3. offset \in 0..Len(text)
    BY <1>1, <1>3, <2>1, <2>2
  <2>4. saved' \in 0..Len(text) /\ saved' <= given'
    BY <1>2, <1>3, <2>3
  <2> QED BY <1>1, <1>2, <2>4
<1>5. <<" ">> \in Seq(Char)
  <2>1. " " \in Char
    BY DEF Char, White
  <2>2. <<" ">> = Append(<<>>, " ") /\ <<>> \in Seq(Char)
    OBVIOUS
  <2> QED BY <2>1, <2>2, AppendProperties
<1> QED BY <1>2, <1>4, <1>5, PassInv

\* The lexer starts with the buffer or where the parser is in its chunk.
LEMMA AskInv ==
  ASSUME Inv, Ask
  PROVE  Inv'
<1>1. /\ pc = "loop" /\ pc' = "lex" /\ UNCHANGED <<call, flags, tok, clientVars>>
  BY DEF Ask, P!EnterLexer, P!Rest, P!Turn
<1>2. /\ offset' = offset /\ startOffset' = offset /\ mode' = "start"
      /\ UNCHANGED <<chunk, buf, bufOff, bufInUse, lineOff, charOff, error, opts, tok, out>>
  BY DEF Ask, LexEnter
<1>3. /\ chunk \in Seq(Char) /\ offset \in Nat /\ offset <= Len(chunk) /\ Held \in Seq(Char)
      /\ "start" \in Modes
  BY <1>1, HeldLemma DEF Inv, Typed, LexTypeOK, Cursors, Modes
<1>4. Pend' = Pend
  <2>1. offset <= offset
    BY <1>3
  <2>2. CutOK(Held, chunk, offset, offset)
    BY <1>3, <2>1, CutLemma
  <2>3. Held' = Held
    BY <1>2 DEF Held
  <2> QED BY <1>1, <1>2, <2>2, <2>3 DEF Pend, CutOK
<1>5. Typed'
  BY <1>1, <1>2, <1>3 DEF Inv, Typed, LexTypeOK, clientVars, text
<1>6. Cursors'
  BY <1>1, <1>2 DEF Inv, Cursors, clientVars
<1>7. Buffered' /\ Answered'
  BY <1>1, <1>2 DEF Inv, Buffered, Answered
<1>8. InLexer'
  BY <1>1, <1>2, <1>3 DEF Inv, Buffered, InLexer, AtEof, Replaying
<1>9. Pending'
  BY <1>2, <1>4 DEF Inv, Pending
<1> QED BY <1>5, <1>6, <1>7, <1>8, <1>9 DEF Inv

LEMMA JudgeInv ==
  ASSUME Inv, Judge
  PROVE  Inv'
<1>1. /\ pc = "finish" /\ pc' = "client" /\ UNCHANGED <<call, flags, tok>>
      /\ UNCHANGED <<lexHeld, offset, charOff, clientVars>>
  BY DEF Judge, P!FinishReturn
<1> QED BY <1>1 DEF Inv, Typed, LexTypeOK, Cursors, Buffered, InLexer, Pending, Answered,
               Pend, Held, Replaying, lexHeld, clientVars, text

LEMMA StepInv == Inv /\ [Next]_vars => Inv'
<1> SUFFICES ASSUME Inv, [Next]_vars PROVE Inv'
  OBVIOUS
<1>1. CASE Configure
  BY <1>1, ConfigureInv
<1>2. CASE \E n \in ChunkSizes : parse(n)
  BY <1>2, parseInv
<1>3. CASE complete_parse
  BY <1>3, completeInv
<1>4. CASE Program
  BY <1>4, AskInv, LexInv, ParseInv, JudgeInv DEF Program
<1>5. CASE UNCHANGED vars
  BY <1>5 DEF Inv, Typed, LexTypeOK, Cursors, Buffered, InLexer, Pending, Answered,
              Pend, Held, Replaying, AtEof, vars, lexHeld, parserHeld, clientVars, text
<1> QED BY <1>1, <1>2, <1>3, <1>4, <1>5 DEF Next

-----------------------------------------------------------------------------
THEOREM StreamInvariance == Spec => []Inv
BY InitInv, StepInv, PTL DEF Spec

\* Whatever is fed to the handle, in whatever chunks, what the lexer and
\* the client keep has its type; the column, moved back by the length of a
\* token, is never below zero.
THEOREM StreamTypeCorrect == Spec => []TypeOK
<1>1. Inv => TypeOK
  BY DEF Inv, Typed, TypeOK
<1> QED BY <1>1, StreamInvariance, PTL

\* The offset the client asks for after an error is one of its own chunk
\* (yajl_get_bytes_consumed, yajl_render_error_string).
THEOREM StreamConsumedInChunk == Spec => []ConsumedInChunk
<1>1. Inv => ConsumedInChunk
  BY DEF Inv, Typed, Cursors, ConsumedInChunk
<1> QED BY <1>1, StreamInvariance, PTL

-----------------------------------------------------------------------------
(* Lexer, parser and client together are the parser of YajlParser: each    *)
(* step is one of the parser's or is not seen by it.                       *)

\* MaxDepth, which bounds the tokens YajlParser lets its lexer return, is
\* not reached by the texts that are fed.
Shallow == P!Depth <= MaxDepth

LEMMA ConfigureSeen ==
  ASSUME Inv, Configure
  PROVE  P!Next
<1>1. client.options \subseteq Settable
  BY ClientsAssumption DEF Inv, Typed
<1>2. PICK o \in client.options \ flags : P!Config(o, TRUE)
  BY DEF Configure
<1>3. o \in Settable /\ TRUE \in BOOLEAN
  BY <1>1
<1> QED BY <1>2, <1>3 DEF P!Next

LEMMA CallSeen ==
  ASSUME (\E n \in ChunkSizes : parse(n)) \/ complete_parse
  PROVE  P!Next
<1>1. P!Call("parse") \/ P!Call("finish")
  BY DEF parse, complete_parse
<1> QED BY <1>1 DEF P!Next

\* Only the step that ends a call of the lexer is one of the parser's.
LEMMA LexSeen ==
  ASSUME Inv, Shallow, Lex
  PROVE  P!Next \/ UNCHANGED P!vars
<1>0. UNCHANGED P!parserVars
  BY DEF Lex, parserHeld, P!parserVars
<1>1. CASE SkipWhite \/ Advance \/ EndComment
  BY <1>0, <1>1 DEF SkipWhite, Advance, EndComment, EndCommentAt, P!vars
<1>2. CASE EndToken \/ EndChunk
  <2>1. pc = "lex" /\ pc' = "got"
    BY <1>2 DEF EndToken, EndChunk, InToken, Reading, Lexed, LexedFrom
  <2>2. tok' \in P!ParserTokens
    <3>1. tok' \in Tokens
      BY LexInv DEF Inv, Typed, LexTypeOK
    <3> QED BY <3>1 DEF Tokens, P!ParserTokens
  <2>3. P!ReadToken
    BY <1>0, <2>1, <2>2 DEF P!ReadToken, Shallow
  <2> QED BY <2>3 DEF P!Next
<1> QED BY <1>1, <1>2 DEF Lex, LexStep

LEMMA TurnSeen ==
  ASSUME Ask \/ Parse \/ Judge
  PROVE  P!Next
<1> DEFINE drained == offset = Len(chunk)
           fits == out \notin OutOfRange
<1>1. drained \in BOOLEAN /\ fits \in BOOLEAN
  OBVIOUS
<1>2. P!ParserStep(fits, drained)
  BY DEF Ask, Parse, Judge, P!ParserStep
<1> HIDE DEF drained, fits
<1> QED BY <1>1, <1>2 DEF P!Next

LEMMA StepSeen ==
  ASSUME Inv, Shallow, [Next]_vars
  PROVE  [P!Next]_(P!vars)
<1>1. CASE Next
  BY <1>1, ConfigureSeen, CallSeen, LexSeen, TurnSeen DEF Next, Program
<1>2. CASE UNCHANGED vars
  BY <1>2 DEF vars, parserHeld, P!vars, P!parserVars
<1> QED BY <1>1, <1>2

\* What the lexer returns, and when, is what YajlParser lets it return, and
\* the handle makes no other step: all that is proved of that parser holds of
\* a handle, its lexer and its client, for texts that nest no deeper than
\* the bound.
THEOREM StreamImplementsParser == Spec /\ []Shallow => ImplementsParser
<1>1. Init => P!Init
  BY DEF Init
<1>2. Inv /\ Shallow /\ [Next]_vars => [P!Next]_(P!vars)
  BY StepSeen
<1> QED BY <1>1, <1>2, StreamInvariance, PTL DEF Spec, ImplementsParser
=============================================================================
