------------------------------ MODULE LexProofs ------------------------------
(***************************************************************************)
(* Proofs about LexChunks, for every set of texts, every way of cutting a  *)
(* text into chunks and both options of the lexer: type correctness, the   *)
(* agreement of the lexer's cursors, that a token cut by chunk boundaries  *)
(* is read again the way it was read first, that the lexer with its buffer *)
(* implements one that never meets a boundary (LexStream), and that the    *)
(* line and the column it reports are true.                                *)
(*                                                                         *)
(* The inductive invariant is Inv: types, cursors and TrailOK, which ties  *)
(* the buffer to the modes the scanner went through when it was filled.    *)
(*                                                                         *)
(* Then that every token handed out is a token of JSON of the kind the     *)
(* lexer says: Inv says which modes the scanner went through, and Shape    *)
(* adds what the pending text looks like in each of them, by places in the *)
(* text, so that it stays true as the text grows.  And that every token of *)
(* JSON comes out as one: the modes it is read in are known beforehand     *)
(* (Walk), and the lexer follows them.                                     *)
(***************************************************************************)
EXTENDS LexChunks, SequenceTheorems, FiniteSetTheorems, TLAPS

\* What may end a token, and the modes inside one that is no comment.
Ends == Tokens \ {"eof", "error", "string_with_escapes"}
TokenModes == WordModes \cup NumberModes \cup StringModes

\* An outcome that goes on in a mode of M, completes a token of T, or is one
\* a number may have or an error.
OutcomeIn(s, M, T) ==
    \/ \E m \in M : s = More(m)
    \/ \E t \in T : s = Done(t)
    \/ \E t \in {"integer", "double"} : s = DoneBefore(t)
    \/ \E e \in LexErrors : s = Bad(e) \/ s = BadBefore(e)

\* The first character of a token leads into a word, a number, a string or,
\* when comments are allowed, a comment; ends a token of one character; or
\* is an error.
LEMMA StartLemma ==
    ASSUME NEW c \in Char, NEW o \in LexOptions
    PROVE  OutcomeIn(ScanStart(c, o),
                     IF o.allowComments THEN TokenModes \cup CommentModes ELSE TokenModes, Ends)
  <1>1. CASE c \in Punctuation
    <2>1. PunctuationToken[c] \in Ends
      BY <1>1 DEF PunctuationToken, Punctuation, Ends, Tokens
    <2>2. ScanStart(c, o) = Done(PunctuationToken[c])
      BY <1>1 DEF ScanStart, Punctuation, Digit
    <2> QED BY <2>1, <2>2 DEF OutcomeIn
  <1>2. CASE c \notin Punctuation
    BY <1>2 DEF ScanStart, OutcomeIn, TokenModes, WordModes, NumberModes, StringModes,
                CommentModes, LexErrors, Punctuation, Digit
  <1> QED BY <1>1, <1>2

\* true, false and null: each letter leads on, ends the word or is an error.
LEMMA WordLemma ==
    ASSUME NEW m \in WordModes, NEW c \in Char
    PROVE  OutcomeIn(ScanWord(m, c), WordModes, Ends)
  BY DEF ScanWord, WordModes, Want, Grown, OutcomeIn, Ends, Tokens, LexErrors

\* yajl_lex_number ends a token only by unreading what follows it.
LEMMA NumberLemma ==
    ASSUME NEW m \in NumberModes, NEW c \in Char
    PROVE  OutcomeIn(ScanNumber(m, c), NumberModes, {})
  <1> DEFINE Good(s) == OutcomeIn(s, NumberModes, {})
  <1>1. Good(NumberEnd[m])
    BY DEF NumberEnd, NumberModes, OutcomeIn, LexErrors
  <1>2. m # "zero" => Good(More(DigitTo[m]))
    BY DEF DigitTo, NumberModes, OutcomeIn, Digit
  <1>3. Good(BadBefore("number_with_leading_zero"))
    BY DEF OutcomeIn, LexErrors
  <1>4. \A x \in NumberModes : Good(More(x))
    BY DEF OutcomeIn
  <1> HIDE DEF Good
  <1>5. Good(ScanNumber(m, c))
    BY <1>1, <1>2, <1>3, <1>4 DEF ScanNumber, NumberModes
  <1> QED BY <1>5 DEF Good

\* yajl_lex_string ends with the closing quote, or with an error.
LEMMA StringLemma ==
    ASSUME NEW m \in StringModes, NEW c \in Char, NEW o \in LexOptions
    PROVE  OutcomeIn(ScanString(m, c, o), StringModes, {"string"})
  <1> DEFINE Good(s) == OutcomeIn(s, StringModes, {"string"})
  <1>1. \A x \in StringModes : Good(More(x))
    BY DEF OutcomeIn
  <1>2. \A e \in LexErrors : Good(Bad(e)) /\ Good(BadBefore(e))
    BY DEF OutcomeIn
  <1>3. Good(Done("string"))
    BY DEF OutcomeIn
  <1> SUFFICES Good(ScanString(m, c, o))
    BY DEF Good
  <1> HIDE DEF Good
  <1>4. CASE m = "str"
    <2>1. [lead2 |-> "cont1", lead3 |-> "cont2", lead4 |-> "cont3"][c] \in StringModes
          \/ c \notin {"lead2", "lead3", "lead4"}
      BY DEF StringModes
    <2> QED BY <1>1, <1>2, <1>3, <1>4, <2>1, Zenon DEF ScanString, StringModes, LexErrors
  <1>5. CASE m = "esc"
    BY <1>1, <1>2, <1>5 DEF ScanString, StringModes, LexErrors
  <1>6. CASE m \in {"hex4", "hex3", "hex2", "hex1"}
    <2>1. [hex4 |-> "hex3", hex3 |-> "hex2", hex2 |-> "hex1", hex1 |-> "str"][m] \in StringModes
      BY <1>6 DEF StringModes
    <2> QED BY <1>1, <1>2, <1>6, <2>1 DEF ScanString, LexErrors
  <1>7. CASE m \in {"cont3", "cont2", "cont1"}
    <2>1. [cont3 |-> "cont2", cont2 |-> "cont1", cont1 |-> "str"][m] \in StringModes
      BY <1>7 DEF StringModes
    <2> QED BY <1>1, <1>2, <1>7, <2>1 DEF ScanString, LexErrors
  <1> QED BY <1>4, <1>5, <1>6, <1>7 DEF StringModes

\* yajl_lex_comment ends with the end of the comment, or with an error.
LEMMA CommentLemma ==
    ASSUME NEW m \in CommentModes, NEW c \in Char
    PROVE  OutcomeIn(ScanComment(m, c), CommentModes, {"comment"})
  <1> DEFINE Good(s) == OutcomeIn(s, CommentModes, {"comment"})
  <1>1. \A x \in CommentModes : Good(More(x))
    BY DEF OutcomeIn
  <1>2. Good(Bad("invalid_char")) /\ Good(Done("comment"))
    BY DEF OutcomeIn, LexErrors
  <1> HIDE DEF Good
  <1>3. Good(ScanComment(m, c))
    BY <1>1, <1>2 DEF ScanComment, CommentModes
  <1> QED BY <1>3 DEF Good

\* Which routine reads on in which mode.
LEMMA Dispatch ==
    ASSUME NEW m, NEW c, NEW o
    PROVE  /\ m \in WordModes => Scan(m, c, o) = ScanWord(m, c)
           /\ m \in NumberModes => Scan(m, c, o) = ScanNumber(m, c)
           /\ m \in StringModes => Scan(m, c, o) = ScanString(m, c, o)
           /\ m \in CommentModes => Scan(m, c, o) = ScanComment(m, c)
           /\ m = "start" => Scan(m, c, o) = ScanStart(c, o)
  <1>1. m \in WordModes => m \notin NumberModes \cup StringModes \cup CommentModes
    BY DEF WordModes, NumberModes, StringModes, CommentModes
  <1>2. m \in NumberModes => m \notin StringModes \cup CommentModes
    BY DEF NumberModes, StringModes, CommentModes
  <1>3. m \in StringModes => m \notin CommentModes
    BY DEF StringModes, CommentModes
  <1>4. m = "start" => m \notin WordModes \cup NumberModes \cup StringModes \cup CommentModes
    BY DEF WordModes, NumberModes, StringModes, CommentModes
  <1> QED BY <1>1, <1>2, <1>3, <1>4, Zenon DEF Scan

\* What the kinds of outcome say of token, mode, error and unreading.
LEMMA Fields ==
    /\ \A x : /\ More(x).tok = "none" /\ More(x).mode = x /\ ~More(x).back
             /\ Done(x).tok = x /\ ~Done(x).back
             /\ DoneBefore(x).tok = x /\ DoneBefore(x).back
             /\ Bad(x).tok = "error" /\ Bad(x).error = x
             /\ BadBefore(x).tok = "error" /\ BadBefore(x).error = x /\ BadBefore(x).back
  BY DEF More, Done, DoneBefore, Bad, BadBefore

\* What a character can do in any mode; without comments the scanner is
\* never inside one.
LEMMA OutcomeLemma ==
    ASSUME NEW m \in Modes, NEW c \in Char, NEW o \in LexOptions
    PROVE  /\ OutcomeIn(Scan(m, c, o), Modes \ {"start"}, Ends \cup {"comment"})
           /\ m \notin CommentModes /\ ~o.allowComments =>
                OutcomeIn(Scan(m, c, o), TokenModes, Ends)
  <1>1. /\ TokenModes \cup CommentModes = Modes \ {"start"}
        /\ "string" \in Ends
    BY DEF TokenModes, Modes, WordModes, NumberModes, StringModes, CommentModes, Ends, Tokens
  <1>2. CASE m \in WordModes
    BY <1>1, <1>2, WordLemma, Dispatch DEF OutcomeIn, TokenModes
  <1>3. CASE m \in NumberModes
    BY <1>1, <1>3, NumberLemma, Dispatch DEF OutcomeIn, TokenModes
  <1>4. CASE m \in StringModes
    BY <1>1, <1>4, StringLemma, Dispatch DEF OutcomeIn, TokenModes
  <1>5. CASE m \in CommentModes
    BY <1>1, <1>5, CommentLemma, Dispatch DEF OutcomeIn
  <1>6. CASE m = "start"
    <2>1. /\ \A M, s : OutcomeIn(s, TokenModes, Ends) => OutcomeIn(s, TokenModes \cup M, Ends)
          /\ \A s : OutcomeIn(s, Modes \ {"start"}, Ends)
                      => OutcomeIn(s, Modes \ {"start"}, Ends \cup {"comment"})
      BY DEF OutcomeIn
    <2>2. CASE o.allowComments
      BY <1>1, <1>6, <2>1, <2>2, StartLemma, Dispatch
    <2>3. CASE ~o.allowComments
      <3>1. OutcomeIn(Scan(m, c, o), TokenModes, Ends)
        BY <1>6, <2>3, StartLemma, Dispatch
      <3>2. OutcomeIn(Scan(m, c, o), TokenModes \cup CommentModes, Ends)
        BY <2>1, <3>1
      <3> QED BY <1>1, <2>1, <3>1, <3>2
    <2> QED BY <2>2, <2>3
  <1> QED BY <1>2, <1>3, <1>4, <1>5, <1>6 DEF Modes

\* The same, field by field.
LEMMA OutcomeFacts ==
    ASSUME NEW s, NEW M, NEW T \in SUBSET (Ends \cup {"comment"}), OutcomeIn(s, M, T)
    PROVE  /\ s.tok \in T \cup {"integer", "double", "none", "error"}
           /\ s.error \in LexErrors
           /\ s.tok = "none" => s.mode \in M /\ s = More(s.mode)
           /\ s.tok = "comment" => ~s.back
  BY DEF OutcomeIn, More, Done, DoneBefore, Bad, BadBefore, Ends, Tokens, LexErrors

-----------------------------------------------------------------------------
\* LexStream reads with the same scanner.
LEMMA SameToken ==
    ASSUME NEW t, NEW s
    PROVE  /\ Unbuffered!WithEscapes(t, s) = WithEscapes(t, s)
           /\ Unbuffered!Unquoted(t, s) = Unquoted(t, s)
  BY DEF WithEscapes, Unquoted, Unbuffered!WithEscapes, Unbuffered!Unquoted

\* It does the same with every character.
LEMMA SameScan ==
    ASSUME NEW m, NEW c, NEW o
    PROVE  Unbuffered!Scan(m, c, o) = Scan(m, c, o)
  <1> USE DEF Unbuffered!Digit, Unbuffered!Hex, Unbuffered!Control, Unbuffered!HighByte,
              Unbuffered!Escapable, Unbuffered!Punctuation, Digit, Hex, Control, HighByte,
              Escapable, Punctuation
  <1>1. /\ \A x : Unbuffered!More(x) = More(x)
        /\ \A x : Unbuffered!Done(x) = Done(x)
        /\ \A x : Unbuffered!DoneBefore(x) = DoneBefore(x)
        /\ \A x : Unbuffered!Bad(x) = Bad(x)
        /\ \A x : Unbuffered!BadBefore(x) = BadBefore(x)
    BY DEF More, Done, DoneBefore, Bad, BadBefore, Unbuffered!More, Unbuffered!Done,
           Unbuffered!DoneBefore, Unbuffered!Bad, Unbuffered!BadBefore
  <1>2. Unbuffered!ScanStart(c, o) = ScanStart(c, o)
    <2>1. Unbuffered!PunctuationToken = PunctuationToken
      BY DEF PunctuationToken, Unbuffered!PunctuationToken
    <2> QED BY <1>1, <2>1, Zenon DEF ScanStart, Unbuffered!ScanStart
  <1>3. Unbuffered!ScanWord(m, c) = ScanWord(m, c)
    BY <1>1, Zenon DEF ScanWord, Unbuffered!ScanWord, Want, Unbuffered!Want, Grown, Unbuffered!Grown
  <1>4. Unbuffered!ScanNumber(m, c) = ScanNumber(m, c)
    <2>1. Unbuffered!NumberEnd = NumberEnd
      BY <1>1, Zenon DEF NumberEnd, Unbuffered!NumberEnd
    <2> QED BY <1>1, <2>1, Zenon
            DEF ScanNumber, Unbuffered!ScanNumber, DigitTo, Unbuffered!DigitTo
  <1>5. Unbuffered!ScanString(m, c, o) = ScanString(m, c, o)
    BY <1>1, Zenon DEF ScanString, Unbuffered!ScanString
  <1>6. Unbuffered!ScanComment(m, c) = ScanComment(m, c)
    BY <1>1, Zenon DEF ScanComment, Unbuffered!ScanComment
  <1> QED BY <1>2, <1>3, <1>4, <1>5, <1>6, Zenon
          DEF Scan, Unbuffered!Scan, WordModes, NumberModes, StringModes, CommentModes,
              Unbuffered!WordModes, Unbuffered!NumberModes, Unbuffered!StringModes,
              Unbuffered!CommentModes

-----------------------------------------------------------------------------
\* A part of a sequence: its type, its length and its elements.
LEMMA Part ==
    ASSUME NEW S, NEW s \in Seq(S), NEW i \in Nat, NEW j \in Nat, i <= j, j <= Len(s)
    PROVE  /\ SubSeq(s, i + 1, j) \in Seq(S)
           /\ Len(SubSeq(s, i + 1, j)) = j - i
           /\ \A k \in 1..j - i : SubSeq(s, i + 1, j)[k] = s[i + k]
  <1>1. \A k \in i + 1..j : s[k] \in S
    BY ElementOfSeq
  <1> QED BY <1>1, SubSeqProperties

\* One element more at the end of a part.
LEMMA PartGrows ==
    ASSUME NEW S, NEW s \in Seq(S), NEW i \in Nat, NEW j \in Nat, i <= j, j < Len(s)
    PROVE  SubSeq(s, i + 1, j + 1) = Append(SubSeq(s, i + 1, j), s[j + 1])
  <1> DEFINE p == SubSeq(s, i + 1, j)
             q == SubSeq(s, i + 1, j + 1)
  <1>1. p \in Seq(S) /\ Len(p) = j - i /\ \A k \in 1..j - i : p[k] = s[i + k]
    BY Part
  <1>2. q \in Seq(S) /\ Len(q) = j + 1 - i /\ \A k \in 1..j + 1 - i : q[k] = s[i + k]
    BY Part
  <1>3. s[j + 1] \in S
    BY ElementOfSeq
  <1>4. /\ Append(p, s[j + 1]) \in Seq(S)
        /\ Len(Append(p, s[j + 1])) = j - i + 1
        /\ \A k \in 1..j - i : Append(p, s[j + 1])[k] = p[k]
        /\ Append(p, s[j + 1])[j - i + 1] = s[j + 1]
    BY <1>1, <1>3, AppendProperties
  <1>5. \A k \in 1..Len(q) : q[k] = Append(p, s[j + 1])[k]
    BY <1>1, <1>2, <1>4
  <1> HIDE DEF p, q
  <1>6. Len(q) = Len(Append(p, s[j + 1]))
    BY <1>2, <1>4
  <1>7. q = Append(p, s[j + 1])
    BY <1>2, <1>4, <1>5, <1>6, SeqEqual
  <1> QED BY <1>7 DEF p, q

\* Appending to the second of two sequences that are put together.
LEMMA ConcatAppend ==
    ASSUME NEW S, NEW s \in Seq(S), NEW t \in Seq(S), NEW e \in S
    PROVE  s \o Append(t, e) = Append(s \o t, e)
  <1>1. Append(t, e) = t \o <<e>> /\ <<e>> \in Seq(S)
    BY AppendIsConcat
  <1>2. s \o t \in Seq(S) /\ Append(s \o t, e) = (s \o t) \o <<e>>
    BY AppendIsConcat, ConcatProperties
  <1> QED BY <1>1, <1>2, ConcatAssociative

-----------------------------------------------------------------------------
\* The inductive invariant.
Inv == TypeOK /\ CursorOK /\ TrailOK

\* The piece of the chunk that belongs to the pending token.
InChunk == SubSeq(chunk, startOffset + 1, offset)

\* What is pending: what the buffer holds, and in a call the token's piece of
\* the chunk behind it.
LEMMA Place ==
    ASSUME Inv
    PROVE  /\ Held \in Seq(Char) /\ InChunk \in Seq(Char) /\ Pending \in Seq(Char)
           /\ Len(InChunk) = offset - startOffset
           /\ pc = "lex" => Pending = Held \o InChunk /\ ~Failed
                              /\ Len(Pending) = Len(Held) + offset - startOffset
           /\ pc = "got" => Pending = Held
           /\ text \in Seq(Char)
  <1>1. Held \in Seq(Char)
    BY DEF Inv, TypeOK, LexTypeOK, Held
  <1>2. InChunk \in Seq(Char) /\ Len(InChunk) = offset - startOffset
    BY Part DEF Inv, TypeOK, LexTypeOK, CursorOK, InChunk
  <1>3. pc = "lex" => Pending = Held \o InChunk
    BY DEF Pending, InChunk
  <1>4. pc = "got" => Pending = Held
    BY <1>1, ConcatEmptySeq DEF Pending
  <1>5. Held \o InChunk \in Seq(Char) /\ Len(Held \o InChunk) = Len(Held) + Len(InChunk)
    BY <1>1, <1>2, ConcatProperties
  <1>6. pc \in {"lex", "got"} /\ text \in Seq(Char) /\ (pc = "lex" => ~Failed)
    BY TextsAssumption DEF Inv, TypeOK, CursorOK
  <1>7. Len(Held) \in Nat /\ offset \in Nat /\ startOffset \in Nat
    BY <1>1, LenProperties DEF Inv, TypeOK, LexTypeOK
  <1> QED BY <1>1, <1>2, <1>3, <1>4, <1>5, <1>6, <1>7

\* While the buffer is replayed nothing of the chunk has been read, and the
\* scanner is where its share of the trail left it.
LEMMA ReplayPlace ==
    ASSUME Inv, pc = "lex", Replaying
    PROVE  /\ offset = 0 /\ startOffset = 0 /\ bufInUse
           /\ Pending = buf /\ Consumed = bufOff /\ bufOff < Len(trail)
           /\ Len(trail) = Len(buf)
           /\ mode = ModeAfter(bufOff)
           /\ mode = "start" => bufOff = 0
  <1>1. offset = 0 /\ startOffset = 0 /\ bufInUse /\ bufOff \in Nat /\ bufOff < Len(buf)
    BY DEF Inv, TypeOK, LexTypeOK, CursorOK, Replaying
  <1>2. InChunk = <<>>
    BY <1>1, SubSeqEmpty DEF InChunk
  <1>3. Pending = buf
    BY <1>1, <1>2, Place, ConcatEmptySeq DEF Held
  <1>4. Consumed = bufOff
    BY <1>1 DEF Consumed
  <1> QED BY <1>1, <1>3, <1>4 DEF Inv, CursorOK, TrailOK

\* Outside a replay the scanner has read all that is pending.
LEMMA FreshPlace ==
    ASSUME Inv, pc = "lex", ~Replaying
    PROVE  /\ Consumed = Len(Pending) /\ Len(trail) = Len(Pending)
           /\ mode = ModeAfter(Len(trail))
           /\ bufInUse => bufOff = Len(buf)
  <1>1. bufInUse => bufOff = Len(buf)
    BY LenProperties DEF Inv, TypeOK, LexTypeOK, CursorOK, Replaying
  <1>2. Consumed = Len(Held) + offset - startOffset
    BY <1>1 DEF Consumed, Held, Inv, TypeOK, LexTypeOK
  <1> QED BY <1>1, <1>2, Place DEF Inv, TrailOK

\* readChar finds a character, in the buffer or in the chunk.
LEMMA NextCharLemma ==
    ASSUME Inv, Reading
    PROVE  /\ NextChar \in Char /\ pc = "lex" /\ offset < Len(chunk)
           /\ ~Replaying => NextChar = chunk[offset + 1]
           /\ Replaying => NextChar = Pending[bufOff + 1]
  <1>1. pc = "lex" /\ offset < Len(chunk) /\ chunk \in Seq(Char) /\ buf \in Seq(Char)
        /\ offset \in Nat /\ bufOff \in Nat
    BY LenProperties DEF Inv, TypeOK, LexTypeOK, Reading, AtEof
  <1>2. chunk[offset + 1] \in Char
    BY <1>1, ElementOfSeq
  <1>3. Replaying => buf[bufOff + 1] \in Char /\ Pending = buf
    BY <1>1, ElementOfSeq, ReplayPlace DEF Replaying
  <1> QED BY <1>1, <1>2, <1>3 DEF NextChar

\* What the character read next can do.
LEMMA OutcomeHere ==
    ASSUME Inv, Reading
    PROVE  /\ Outcome.tok \in Ends \cup {"comment", "none", "error"}
           /\ Outcome.error \in LexErrors
           /\ Outcome.tok = "none" =>
                Outcome.mode \in Modes \ {"start"} /\ Outcome = More(Outcome.mode)
           /\ Outcome.tok = "comment" => ~Outcome.back
  <1>1. OutcomeIn(Outcome, Modes \ {"start"}, Ends \cup {"comment"})
    BY NextCharLemma, OutcomeLemma DEF Outcome, Inv, TypeOK, LexTypeOK
  <1> QED BY <1>1, OutcomeFacts DEF Ends, Tokens

\* What is replayed was read before, and did not end the token.
LEMMA ReplayLemma ==
    ASSUME Inv, Reading, Replaying
    PROVE  /\ Outcome = More(trail[bufOff + 1])
           /\ trail[bufOff + 1] \in Modes \ {"start"}
           /\ InToken
  <1>1. /\ bufOff \in Nat /\ bufOff < Len(trail) /\ mode = ModeAfter(bufOff)
        /\ mode = "start" => bufOff = 0
        /\ NextChar = Pending[bufOff + 1]
    BY ReplayPlace, NextCharLemma DEF Inv, TypeOK, LexTypeOK, Reading
  <1>2. bufOff + 1 \in 1..Len(trail) /\ (bufOff + 1) - 1 = bufOff
    BY <1>1 DEF Inv, TypeOK, LenProperties
  <1>3. /\ ~(bufOff + 1 = 1 /\ Pending[1] \in White)
        /\ Scan(ModeAfter(bufOff), Pending[bufOff + 1], opts) = More(trail[bufOff + 1])
    BY <1>2 DEF Inv, TrailOK
  <1>4. Outcome = More(trail[bufOff + 1])
    BY <1>1, <1>3 DEF Outcome
  <1>5. Outcome.tok = "none" /\ Outcome.mode = trail[bufOff + 1]
    BY <1>4 DEF More
  <1>6. trail[bufOff + 1] \in Modes \ {"start"}
    BY <1>5, OutcomeHere
  <1>7. ~(mode = "start" /\ NextChar \in White)
    <2> SUFFICES ASSUME mode = "start", NextChar \in White PROVE FALSE
      OBVIOUS
    <2>1. bufOff = 0
      BY <1>1
    <2> QED BY <1>1, <1>3, <2>1
  <1> QED BY <1>4, <1>6, <1>7 DEF InToken

-----------------------------------------------------------------------------
\* A step that leaves the pending token and its modes alone, or forgets both.
LEMMA TrailKept ==
    ASSUME Inv, trail' = trail, Pending' = Pending, opts' = opts,
           pc' = "lex" => mode' = ModeAfter(Consumed')
    PROVE  TrailOK'
  <1>1. \A i : ModeAfter(i)' = ModeAfter(i)
    BY DEF ModeAfter
  <1> QED BY <1>1 DEF Inv, TrailOK, ModeAfter

\* A step behind which nothing is pending.
LEMMA TrailCleared ==
    ASSUME trail' = <<>>, Pending' = <<>>, pc' = "lex" => mode' = "start" /\ Consumed' = 0
    PROVE  TrailOK'
  BY DEF TrailOK, ModeAfter

\* yajl_lex_alloc, before anything is fed.
LEMMA InitInv == Init => Inv
  <1> SUFFICES ASSUME Init PROVE Inv
    OBVIOUS
  <1>1. text \in Seq(Char) /\ Len(text) \in Nat
    BY TextsAssumption, LenProperties DEF Init
  <1>2. /\ chunk = <<>> /\ offset = 0 /\ startOffset = 0 /\ buf = <<>> /\ bufOff = 0
        /\ bufInUse = FALSE /\ lineOff = 1 /\ charOff = 0 /\ error = "e_ok"
        /\ mode = "start" /\ tok = "eof" /\ out = <<>> /\ pc = "got"
        /\ fed = 0 /\ trail = <<>> /\ toks = <<>> /\ opts \in LexOptions /\ text \in Texts
    BY DEF Init, LexAlloc
  <1>3. TypeOK
    <2>1. \A S : <<>> \in Seq(S)
      BY EmptySeq
    <2>2. LexTypeOK
      BY <1>2, <2>1 DEF LexTypeOK, LexErrors, Modes, Tokens
    <2> QED BY <1>2, <2>1, <2>2 DEF TypeOK
  <1>4. ~Failed
    BY <1>2 DEF Failed, Unbuffered!Failed
  <1>5. SubSeq(text, fed - Len(chunk) + 1, fed) = <<>>
    BY <1>2, SubSeqEmpty
  <1>6. CursorOK
    BY <1>1, <1>2, <1>4, <1>5 DEF CursorOK
  <1>7. Pending = <<>>
    BY <1>2, ConcatEmptySeq DEF Pending, Held
  <1>8. TrailOK
    BY <1>2, <1>7 DEF TrailOK
  <1> QED BY <1>3, <1>6, <1>8 DEF Inv

-----------------------------------------------------------------------------
\* The entry of a call: the pending token is what the buffer holds.
LEMMA EnterEffect ==
    ASSUME Inv, pc = "got", tok # "error",
           NEW t, NEW at \in Nat, LexEnter(t, at), pc' = "lex",
           UNCHANGED <<text, trail, toks>>
    PROVE  /\ Pending' = Pending /\ Consumed' = 0
           /\ TrailOK'
           /\ t \in Seq(Char) /\ fed' \in Nat => TypeOK'
           /\ ~Failed'
  <1>1. Held' = Held /\ Held \in Seq(Char) /\ Pending = Held
    BY Place DEF Held, LexEnter
  <1>2. SubSeq(chunk', startOffset' + 1, offset') = <<>>
    BY SubSeqEmpty DEF LexEnter
  <1>3. Pending' = Pending
    BY <1>1, <1>2, ConcatEmptySeq DEF Pending
  <1>4. Consumed' = 0
    BY DEF Consumed, LexEnter, Inv, CursorOK
  <1>5. TrailOK'
    BY <1>3, <1>4, TrailKept DEF LexEnter, ModeAfter
  <1>6. t \in Seq(Char) /\ fed' \in Nat => TypeOK'
    BY DEF TypeOK, LexTypeOK, LexEnter, Inv, Modes
  <1>7. ~Failed'
    BY DEF Inv, CursorOK, Failed, Unbuffered!Failed
  <1> QED BY <1>3, <1>4, <1>5, <1>6, <1>7

\* yajl_parse with another chunk: the lexer stays where it is in the text.
LEMMA FeedEffect ==
    ASSUME Inv, NEW n \in 0..MaxChunk, Feed(n)
    PROVE  /\ Inv'
           /\ Pending' = Pending /\ trail' = trail
           /\ Position = fed /\ Position' = fed /\ fed' = fed + n /\ fed' <= Len(text)
  <1>1. /\ n \in Nat /\ fed \in Nat /\ text \in Seq(Char) /\ fed + n <= Len(text)
        /\ pc = "got" /\ tok = "eof" /\ pc' = "lex" /\ fed' = fed + n /\ fed' \in Nat
        /\ UNCHANGED <<text, trail, toks>>
    BY Place, MaxChunkAssumption DEF Feed, Inv, TypeOK
  <1>2. LexEnter(SubSeq(text, fed + 1, fed + n), 0)
    BY DEF Feed
  <1>3. SubSeq(text, fed + 1, fed + n) \in Seq(Char) /\ Len(SubSeq(text, fed + 1, fed + n)) = n
    BY <1>1, Part
  <1>4. chunk' \in Seq(Char) /\ Len(chunk') = n /\ offset' = 0 /\ startOffset' = 0
        /\ chunk' = SubSeq(text, fed + 1, fed + n)
        /\ UNCHANGED <<buf, bufOff, bufInUse, tok>> /\ mode' = "start"
    BY <1>2, <1>3 DEF LexEnter
  <1>5. Pending' = Pending /\ TypeOK' /\ TrailOK' /\ ~Failed'
    <2>1. tok # "error" /\ 0 \in Nat
      BY <1>1
    <2> QED BY <1>1, <1>2, <1>3, <2>1, EnterEffect
  <1>6. fed' - Len(chunk') + 1 = fed + 1
    BY <1>1, <1>4
  <1>7. bufInUse => bufOff = 0 /\ Len(buf) \in Nat
    BY <1>1, LenProperties DEF Inv, CursorOK, TypeOK, LexTypeOK
  <1>8. CursorOK'
    BY <1>1, <1>4, <1>5, <1>6, <1>7 DEF CursorOK
  <1>9. Position = fed
    <2>1. Len(chunk) \in Nat /\ offset = Len(chunk)
      BY <1>1, LenProperties DEF Inv, CursorOK, TypeOK, LexTypeOK
    <2> QED BY <1>1, <2>1 DEF Position
  <1>10. Position' = fed
    BY <1>1, <1>4 DEF Position
  <1> QED BY <1>1, <1>5, <1>8, <1>9, <1>10 DEF Inv

\* yajl_lex_lex again in the same chunk: nothing is pending.
LEMMA CallAgainEffect ==
    ASSUME Inv, CallAgain
    PROVE  /\ Inv'
           /\ Pending' = Pending /\ trail' = trail /\ Position' = Position
  <1>1. /\ pc = "got" /\ tok # "error" /\ tok # "eof" /\ pc' = "lex" /\ LexEnter(chunk, offset)
        /\ UNCHANGED <<text, fed, trail, toks>>
        /\ offset \in Nat /\ chunk \in Seq(Char) /\ fed \in Nat
    BY DEF CallAgain, Inv, TypeOK, LexTypeOK
  <1>2. chunk' = chunk /\ offset' = offset /\ startOffset' = offset
        /\ UNCHANGED <<buf, bufOff, bufInUse, tok>> /\ mode' = "start"
    BY <1>1 DEF LexEnter
  <1>3. Pending' = Pending /\ TypeOK' /\ TrailOK' /\ ~Failed'
    BY <1>1, EnterEffect
  <1>4. bufInUse = FALSE
    BY <1>1 DEF Inv, CursorOK, TypeOK, LexTypeOK
  <1>5. CursorOK'
    BY <1>1, <1>2, <1>3, <1>4 DEF CursorOK, Replaying, Inv
  <1>6. Position' = Position
    BY <1>1, <1>2 DEF Position
  <1> QED BY <1>1, <1>3, <1>5, <1>6 DEF Inv

-----------------------------------------------------------------------------
\* White space is only skipped between tokens, so never while replaying.
LEMMA SkipEffect ==
    ASSUME Inv, Skip
    PROVE  /\ Inv' /\ ~Replaying
           /\ Pending = <<>> /\ Pending' = <<>> /\ trail = <<>> /\ trail' = <<>>
           /\ Position' = Position + 1
  <1>1. /\ Reading /\ mode = "start" /\ NextChar \in White
        /\ UNCHANGED <<text, fed, trail, toks>>
        /\ UNCHANGED <<chunk, buf, bufInUse, error, opts, mode, tok, out, pc>>
    BY DEF Skip, SkipWhite
  <1>2. ~Replaying /\ pc = "lex"
    BY <1>1, ReplayLemma DEF InToken, Reading
  <1>3. offset' = offset + 1 /\ bufOff' = bufOff /\ startOffset' = startOffset + 1
    BY <1>2 DEF Skip, SkipWhite, readChar
  <1>4. lineOff' \in Nat /\ charOff' \in Nat
    BY <1>2 DEF Skip, SkipWhite, readChar, Inv, TypeOK, LexTypeOK
  <1>5. /\ offset \in Nat /\ startOffset = offset /\ bufOff \in Nat
        /\ bufInUse => bufOff = 0
        /\ offset < Len(chunk) /\ chunk \in Seq(Char) /\ Len(chunk) \in Nat /\ fed \in Nat
    BY <1>1, <1>2, NextCharLemma, LenProperties DEF Inv, TypeOK, LexTypeOK, CursorOK
  <1>6. Held = <<>>
    <2>1. bufInUse => buf \in Seq(Char) /\ Len(buf) = 0
      BY <1>2, <1>5, FreshPlace DEF Inv, TypeOK, LexTypeOK
    <2> QED BY <2>1, EmptySeq DEF Held
  <1>7. Pending = <<>> /\ Pending' = <<>>
    <2>1. Held' = <<>>
      BY <1>1, <1>6 DEF Held
    <2>2. InChunk = <<>> /\ SubSeq(chunk', startOffset' + 1, offset') = <<>>
      BY <1>3, <1>5, SubSeqEmpty DEF InChunk
    <2> QED BY <1>6, <2>1, <2>2, ConcatEmptySeq DEF Pending, InChunk
  <1>8. trail = <<>> /\ trail' = <<>>
    BY <1>1, <1>7, EmptySeq DEF Inv, TrailOK, TypeOK
  <1>9. TypeOK'
    BY <1>1, <1>3, <1>4, <1>5 DEF Inv, TypeOK, LexTypeOK
  <1>10. Consumed' = 0
    BY <1>1, <1>3, <1>5 DEF Consumed
  <1>11. TrailOK'
    BY <1>1, <1>7, <1>8, <1>10, TrailCleared
  <1>12. Failed' = Failed
    BY <1>1 DEF Failed, Unbuffered!Failed
  <1>13. ~Replaying'
    BY <1>1, <1>2, <1>3 DEF Replaying
  <1>14. CursorOK'
    BY <1>1, <1>2, <1>3, <1>5, <1>12, <1>13 DEF CursorOK, Inv
  <1>15. Position' = Position + 1
    BY <1>1, <1>3, <1>5 DEF Position
  <1> QED BY <1>2, <1>7, <1>8, <1>9, <1>11, <1>14, <1>15 DEF Inv

-----------------------------------------------------------------------------
\* Outside a replay the character read is the next one of the text.
LEMMA TextLemma ==
    ASSUME Inv
    PROVE  /\ Position \in Nat /\ Position <= fed /\ fed <= Len(text)
           /\ Reading /\ ~Replaying => Position < fed /\ NextChar = text[Position + 1]
  <1>1. /\ Len(chunk) \in Nat /\ fed \in Nat /\ offset \in Nat /\ Len(text) \in Nat
        /\ Len(chunk) <= fed /\ fed <= Len(text) /\ offset <= Len(chunk)
        /\ chunk = SubSeq(text, (fed - Len(chunk)) + 1, fed) /\ text \in Seq(Char)
    BY Place, LenProperties DEF Inv, TypeOK, LexTypeOK, CursorOK
  <1>2. Position \in Nat /\ Position <= fed
    BY <1>1 DEF Position
  <1>3. ASSUME Reading, ~Replaying
        PROVE  Position < fed /\ NextChar = text[Position + 1]
    <2>1. offset < Len(chunk) /\ NextChar = chunk[offset + 1]
      BY <1>3, NextCharLemma
    <2> DEFINE b == fed - Len(chunk)
    <2>2. b \in Nat /\ b <= fed /\ fed - b = Len(chunk)
      BY <1>1
    <2>3. \A k \in 1..fed - b : SubSeq(text, b + 1, fed)[k] = text[b + k]
      BY <1>1, <2>2, Part
    <2>4. offset + 1 \in 1..fed - b /\ chunk = SubSeq(text, b + 1, fed)
      BY <1>1, <2>1, <2>2
    <2>5. b + (offset + 1) = Position + 1
      BY <1>1 DEF Position
    <2>6. Position < fed
      BY <1>1, <2>1 DEF Position
    <2> HIDE DEF b
    <2>7. chunk[offset + 1] = text[b + (offset + 1)]
      BY <2>3, <2>4
    <2> QED BY <2>1, <2>5, <2>6, <2>7
  <1> QED BY <1>1, <1>2, <1>3

\* A character of the buffer read again: only bufOff and the mode move.
LEMMA ReadReplayEffect ==
    ASSUME Inv, Read, Replaying
    PROVE  /\ Inv'
           /\ Pending' = Pending /\ trail' = trail /\ Position' = Position
  <1>1. /\ Reading /\ pc = "lex" /\ InToken /\ trail' = trail /\ UNCHANGED <<text, fed, toks>>
        /\ UNCHANGED <<chunk, startOffset, buf, bufInUse, lineOff, error, opts, tok, out, pc>>
        /\ offset' = offset /\ charOff' = charOff /\ bufOff' = bufOff + 1 /\ mode' = Outcome.mode
    BY DEF Read, Advance, MoveTo, readChar, InToken, Reading
  <1>2. /\ offset = 0 /\ startOffset = 0 /\ bufInUse /\ Pending = buf /\ bufOff < Len(trail)
        /\ Len(trail) = Len(buf) /\ bufOff \in Nat
    BY <1>1, ReplayPlace DEF Inv, TypeOK, LexTypeOK
  <1>3. mode' = trail[bufOff + 1] /\ mode' \in Modes \ {"start"}
    BY <1>1, ReplayLemma DEF More
  <1>4. Pending' = Pending
    BY <1>1 DEF Pending, Held
  <1>5. TypeOK'
    BY <1>1, <1>2, <1>3 DEF Inv, TypeOK, LexTypeOK
  <1>6. Consumed' = bufOff + 1
    BY <1>1, <1>2 DEF Consumed
  <1>7. TrailOK'
    BY <1>1, <1>2, <1>3, <1>4, <1>6, TrailKept DEF ModeAfter
  <1>8. Failed' = Failed
    BY <1>1 DEF Failed, Unbuffered!Failed
  <1>9. Len(trail) \in Nat
    BY LenProperties DEF Inv, TypeOK
  <1>10. CursorOK'
    BY <1>1, <1>2, <1>3, <1>8, <1>9 DEF CursorOK, Inv
  <1>11. Position' = Position
    BY <1>1 DEF Position
  <1> QED BY <1>1, <1>4, <1>5, <1>7, <1>10, <1>11 DEF Inv

\* One character more from the chunk.
LEMMA PendingGrows ==
    ASSUME Inv, Reading, ~Replaying
    PROVE  /\ Held \o SubSeq(chunk, startOffset + 1, offset + 1) = Append(Pending, NextChar)
           /\ Append(Pending, NextChar) \in Seq(Char)
           /\ Len(Append(Pending, NextChar)) = Len(Pending) + 1
  <1>1. /\ chunk \in Seq(Char) /\ startOffset \in Nat /\ offset \in Nat
        /\ startOffset <= offset /\ offset < Len(chunk)
        /\ NextChar = chunk[offset + 1] /\ NextChar \in Char /\ pc = "lex"
    BY NextCharLemma DEF Inv, TypeOK, LexTypeOK, CursorOK
  <1>2. SubSeq(chunk, startOffset + 1, offset + 1) = Append(InChunk, NextChar)
    BY <1>1, PartGrows DEF InChunk
  <1>3. Held \in Seq(Char) /\ InChunk \in Seq(Char) /\ Pending = Held \o InChunk
        /\ Pending \in Seq(Char)
    BY <1>1, Place
  <1>4. Held \o Append(InChunk, NextChar) = Append(Held \o InChunk, NextChar)
    BY <1>1, <1>3, ConcatAppend
  <1>5. Append(Pending, NextChar) \in Seq(Char) /\ Len(Append(Pending, NextChar)) = Len(Pending) + 1
    BY <1>1, <1>3, AppendProperties
  <1> QED BY <1>2, <1>3, <1>4, <1>5

\* A character of the chunk that does not end the token joins it.
LEMMA ReadEffect ==
    ASSUME Inv, Read, ~Replaying
    PROVE  /\ Inv'
           /\ Outcome = More(mode') /\ mode = ModeAfter(Len(trail))
           /\ Pending' = Append(Pending, NextChar) /\ trail' = Append(trail, mode')
           /\ Position' = Position + 1 /\ UNCHANGED <<text, opts, fed, toks, pc>>
  <1>1. /\ Reading /\ pc = "lex" /\ InToken /\ trail' = Append(trail, mode')
        /\ UNCHANGED <<text, fed, toks>>
        /\ UNCHANGED <<chunk, startOffset, buf, bufInUse, lineOff, error, opts, tok, out, pc>>
        /\ offset' = offset + 1 /\ charOff' = charOff + 1 /\ bufOff' = bufOff
        /\ mode' = Outcome.mode /\ Outcome.tok = "none"
    BY DEF Read, Advance, MoveTo, readChar, InToken, Reading
  <1>2. Outcome = More(mode') /\ mode' \in Modes \ {"start"}
    BY <1>1, OutcomeHere
  <1>3. /\ mode = ModeAfter(Len(trail)) /\ Consumed = Len(Pending) /\ Len(trail) = Len(Pending)
        /\ bufInUse => bufOff = Len(buf)
    BY <1>1, FreshPlace
  <1>4. /\ offset \in Nat /\ startOffset \in Nat /\ startOffset <= offset /\ offset < Len(chunk)
        /\ Len(chunk) \in Nat /\ bufOff \in Nat /\ fed \in Nat /\ trail \in Seq(Modes)
        /\ Len(trail) \in Nat /\ Pending \in Seq(Char)
    BY <1>1, NextCharLemma, Place, LenProperties DEF Inv, TypeOK, LexTypeOK, CursorOK
  <1>5. Pending' = Append(Pending, NextChar)
    BY <1>1, PendingGrows DEF Pending, Held
  <1>6. Consumed' = Consumed + 1
    BY <1>1, <1>4 DEF Consumed
  <1>7. /\ trail' \in Seq(Modes) /\ Len(trail') = Len(trail) + 1
        /\ \A i \in 1..Len(trail) : trail'[i] = trail[i]
        /\ trail'[Len(trail) + 1] = mode'
    BY <1>1, <1>2, <1>4, AppendProperties
  <1>8. /\ Len(Pending') = Len(Pending) + 1
        /\ \A i \in 1..Len(trail) : Pending'[i] = Pending[i]
        /\ Pending'[Len(trail) + 1] = NextChar
    BY <1>1, <1>3, <1>4, <1>5, NextCharLemma, AppendProperties
  <1>9. TypeOK'
    BY <1>1, <1>2, <1>4, <1>7 DEF Inv, TypeOK, LexTypeOK
  <1>10. Failed' = Failed
    BY <1>1 DEF Failed, Unbuffered!Failed
  <1>11. CursorOK'
    BY <1>1, <1>2, <1>3, <1>4, <1>10 DEF CursorOK, Inv, Replaying
  <1>12. TrailOK'
    <2> DEFINE After(n) == IF n = 0 THEN "start" ELSE trail'[n]
               Step(i) == /\ ~(i = 1 /\ Pending'[1] \in White)
                          /\ Scan(After(i - 1), Pending'[i], opts') = More(trail'[i])
    <2>1. \A i \in 0..Len(trail) : After(i) = ModeAfter(i)
      BY <1>4, <1>7 DEF ModeAfter
    <2>2. After(Len(trail) + 1) = mode'
      BY <1>4, <1>7
    <2>3. ASSUME NEW i \in 1..Len(trail)
          PROVE  Step(i)
      <3>1. i - 1 \in 0..Len(trail) /\ 1 \in 1..Len(trail)
        BY <1>4
      <3>2. After(i - 1) = ModeAfter(i - 1) /\ Pending'[1] = Pending[1]
            /\ Pending'[i] = Pending[i] /\ trail'[i] = trail[i]
        BY <1>7, <1>8, <2>1, <3>1
      <3> HIDE DEF After
      <3> QED BY <1>1, <3>2 DEF Inv, TrailOK
    <2>4. Step(Len(trail) + 1)
      <3>1. ~(Len(trail) + 1 = 1 /\ NextChar \in White)
        BY <1>1, <1>3, <1>4 DEF InToken, ModeAfter
      <3>2. (Len(trail) + 1) - 1 = Len(trail) /\ After(Len(trail)) = mode
        BY <1>3, <1>4, <2>1
      <3> HIDE DEF After
      <3>3. ~(Len(trail) + 1 = 1 /\ Pending'[1] \in White)
        BY <1>8, <3>1
      <3>4. Scan(After((Len(trail) + 1) - 1), Pending'[Len(trail) + 1], opts')
                = More(trail'[Len(trail) + 1])
        BY <1>1, <1>2, <1>7, <1>8, <3>2 DEF Outcome
      <3> QED BY <3>3, <3>4
    <2>5. \A i \in 1..Len(trail') : Step(i)
      <3>1. \A i \in 1..Len(trail') : i \in 1..Len(trail) \/ i = Len(trail) + 1
        BY <1>4, <1>7
      <3> HIDE DEF Step
      <3> QED BY <2>3, <2>4, <3>1
    <2>6. mode' = After(Consumed')
      BY <1>3, <1>6, <2>2
    <2>7. Len(trail') = Len(Pending')
      BY <1>3, <1>7, <1>8
    <2> QED BY <2>5, <2>6, <2>7 DEF TrailOK, ModeAfter
  <1>13. Position' = Position + 1
    BY <1>1, <1>4 DEF Position
  <1> QED BY <1>1, <1>2, <1>3, <1>5, <1>9, <1>11, <1>12, <1>13 DEF Inv

-----------------------------------------------------------------------------
\* The end of a comment: nothing is pending, nothing is in the buffer.
LEMMA CommentEffect ==
    ASSUME Inv, Comment
    PROVE  /\ Inv' /\ ~Replaying
           /\ mode = ModeAfter(Len(trail)) /\ ~Outcome.back
           /\ Pending' = <<>> /\ trail' = <<>>
           /\ Position' = Position + 1 /\ UNCHANGED <<text, opts, fed, toks>>
  <1>1. /\ Reading /\ pc = "lex" /\ InToken /\ Outcome.tok = "comment"
        /\ trail' = <<>> /\ UNCHANGED <<text, fed, toks>>
        /\ UNCHANGED <<chunk, lineOff, error, opts, tok, out, pc>>
        /\ mode' = "start" /\ buf' = <<>> /\ bufInUse' = FALSE
        /\ MoveTo(readChar) /\ startOffset' = readChar.offset
    BY DEF Comment, EndComment, EndCommentAt, InToken, Reading
  <1>2. ~Replaying
    BY <1>1, ReplayLemma DEF More
  <1>3. /\ offset' = offset + 1 /\ charOff' = charOff + 1 /\ bufOff' = bufOff
        /\ startOffset' = offset + 1
    BY <1>1, <1>2 DEF MoveTo, readChar
  <1>4. mode = ModeAfter(Len(trail)) /\ ~Outcome.back
    BY <1>1, <1>2, FreshPlace, OutcomeHere
  <1>5. /\ offset \in Nat /\ offset < Len(chunk) /\ Len(chunk) \in Nat /\ bufOff \in Nat
        /\ fed \in Nat
    BY <1>1, NextCharLemma, LenProperties DEF Inv, TypeOK, LexTypeOK
  <1>6. Pending' = <<>>
    <2>1. Held' = <<>>
      BY <1>1 DEF Held
    <2>2. SubSeq(chunk', startOffset' + 1, offset') = <<>>
      BY <1>3, <1>5, SubSeqEmpty
    <2>3. <<>> \o <<>> = <<>>
      BY EmptySeq, ConcatEmptySeq
    <2> QED BY <1>1, <2>1, <2>2, <2>3 DEF Pending
  <1>7. TypeOK'
    <2>1. buf' \in Seq(Char) /\ trail' \in Seq(Modes)
      BY <1>1, EmptySeq
    <2>2. offset' \in Nat /\ startOffset' \in Nat /\ bufOff' \in Nat /\ charOff' \in Nat
      BY <1>3, <1>5 DEF Inv, TypeOK, LexTypeOK
    <2> QED BY <1>1, <2>1, <2>2 DEF Inv, TypeOK, LexTypeOK, Modes
  <1>8. Consumed' = 0
    BY <1>1, <1>3, <1>5 DEF Consumed
  <1>9. TrailOK'
    BY <1>1, <1>6, <1>8, TrailCleared
  <1>10. Failed' = Failed
    BY <1>1 DEF Failed, Unbuffered!Failed
  <1>11. CursorOK'
    BY <1>1, <1>3, <1>5, <1>10 DEF CursorOK, Inv, Replaying
  <1>12. Position' = Position + 1
    BY <1>1, <1>3, <1>5 DEF Position
  <1> QED BY <1>1, <1>2, <1>4, <1>6, <1>7, <1>9, <1>11, <1>12 DEF Inv

\* The text handed out is made of characters of the lexeme.
LEMMA UnquotedType ==
    ASSUME NEW t, NEW s \in Seq(Char)
    PROVE  Unquoted(t, s) \in Seq(Char)
  <1>1. Len(s) \in Nat
    BY LenProperties
  <1>2. \A i \in 2..Len(s) - 1 : s[i] \in Char
    BY <1>1, ElementOfSeq
  <1>3. SubSeq(s, 2, Len(s) - 1) \in Seq(Char)
    BY <1>1, <1>2, SubSeqProperties
  <1> QED BY <1>3 DEF Unquoted

\* The end of the chunk: the whole of the pending token is in the buffer.
LEMMA SuspendEffect ==
    ASSUME Inv, Suspend
    PROVE  /\ Inv'
           /\ Pending' = Pending /\ trail' = trail /\ Position' = Position
           /\ UNCHANGED <<text, opts, fed, toks>>
  <1>1. /\ pc = "lex" /\ offset >= Len(chunk) /\ error' = error
        /\ UNCHANGED <<text, fed, trail, toks>> /\ UNCHANGED <<chunk, startOffset, lineOff, opts>>
        /\ buf' = Held \o InChunk /\ bufOff' = 0 /\ bufInUse' = TRUE
        /\ out' = <<>> /\ tok' = WithEscapes("eof", Held \o InChunk)
        /\ offset' = offset /\ charOff' = charOff /\ mode' = "start" /\ pc' = "got"
    BY DEF Suspend, EndChunk, AtEof, Lexed, LexedFrom, InChunk
  <1>2. tok' = "eof"
    BY <1>1 DEF WithEscapes
  <1>3. Pending = Held \o InChunk /\ Pending \in Seq(Char) /\ buf' = Pending
    BY <1>1, Place
  <1>4. Pending' = Pending
    BY <1>1, <1>3, ConcatEmptySeq DEF Pending, Held
  <1>5. TypeOK'
    <2>1. <<>> \in Seq(Char)
      BY EmptySeq
    <2> QED BY <1>1, <1>2, <1>3, <2>1 DEF Inv, TypeOK, LexTypeOK, Modes, Tokens
  <1>6. TrailOK'
    BY <1>1, <1>4, TrailKept
  <1>7. Failed' = Failed
    BY <1>1 DEF Failed, Unbuffered!Failed
  <1>8. Len(buf') \in Nat /\ Len(chunk) \in Nat /\ offset \in Nat
    BY <1>3, LenProperties DEF Inv, TypeOK, LexTypeOK
  <1>9. CursorOK'
    BY <1>1, <1>2, <1>7, <1>8 DEF CursorOK, Inv
  <1>10. Position' = Position
    BY <1>1 DEF Position
  <1> QED BY <1>1, <1>4, <1>5, <1>6, <1>9, <1>10 DEF Inv

\* The token that ends here, all of it.
Whole == IF Outcome.back THEN Pending ELSE Append(Pending, NextChar)

\* The end of a token: what is handed out is what the abstract lexer makes of
\* the whole of it, and nothing stays in the buffer.
LEMMA EmitEffect ==
    ASSUME Inv, Emit
    PROVE  /\ Inv' /\ ~Replaying /\ InToken
           /\ mode = ModeAfter(Len(trail)) /\ Outcome.tok \notin {"none", "comment"}
           /\ Pending' = <<>> /\ trail' = <<>>
           /\ Position' = IF Outcome.back THEN Position ELSE Position + 1
           /\ toks' = Append(toks, IF Outcome.tok = "error"
                                   THEN Unbuffered!Failure(Outcome.error)
                                   ELSE Unbuffered!Token(Outcome.tok, Whole))
           /\ UNCHANGED <<text, opts, fed>>
  <1> DEFINE t == Outcome.tok
             k == IF Outcome.back THEN unreadChar(readChar) ELSE readChar
             L == Held \o SubSeq(chunk, startOffset + 1, k.offset)
  <1>1. /\ Reading /\ pc = "lex" /\ InToken /\ t \notin {"none", "comment"}
        /\ error' = IF t = "error" THEN Outcome.error ELSE error
        /\ trail' = <<>> /\ UNCHANGED <<text, fed>>
        /\ toks' = Append(toks, IF tok' = "error"
                                THEN Unbuffered!Failure(error')
                                ELSE [tok |-> tok', text |-> out', error |-> "e_ok"])
    BY DEF Emit, EndToken, InToken, Reading
  <1>2. Lexed(t, k)
    BY DEF Emit, EndToken
  <1>3. t \in Ends \cup {"error"} /\ Outcome.error \in LexErrors
    BY <1>1, OutcomeHere
  <1>4. ~Replaying
    BY <1>1, ReplayLemma DEF More
  <1>5. /\ offset \in Nat /\ charOff \in Nat /\ bufOff \in Nat /\ offset < Len(chunk)
        /\ Len(chunk) \in Nat /\ fed \in Nat /\ bufInUse \in BOOLEAN
    BY <1>1, NextCharLemma, LenProperties DEF Inv, TypeOK, LexTypeOK
  <1>6. /\ k.offset = IF Outcome.back THEN offset ELSE offset + 1
        /\ k.charOff = IF Outcome.back THEN charOff ELSE charOff + 1
        /\ k.bufOff = bufOff
    BY <1>4, <1>5 DEF readChar, unreadChar
  <1>7. L = Whole /\ Whole \in Seq(Char)
    BY <1>1, <1>4, <1>6, Place, PendingGrows DEF InChunk, Whole
  <1>8. /\ t # "eof" /\ Outcome.tok = t
        /\ IF bufInUse THEN buf' = L /\ bufOff' = 0 /\ bufInUse' = FALSE
           ELSE bufOff' = k.bufOff /\ UNCHANGED <<buf, bufInUse>>
        /\ out' = IF t = "error" /\ ~bufInUse THEN <<>> ELSE Unquoted(t, L)
        /\ tok' = WithEscapes(t, L)
        /\ offset' = k.offset /\ charOff' = k.charOff
        /\ mode' = "start" /\ pc' = "got"
        /\ UNCHANGED <<chunk, startOffset, lineOff, opts>>
    <2>1. t # "eof"
      BY <1>3 DEF Ends
    <2> HIDE DEF k, t
    <2> QED BY <1>2, <2>1, Zenon DEF Lexed, LexedFrom, t
  <1> HIDE DEF k, L
  <1>9. bufInUse' = FALSE
    BY <1>5, <1>8
  <1>10. Pending' = <<>>
    <2>1. Held' = <<>>
      BY <1>9 DEF Held
    <2>2. <<>> \o <<>> = <<>>
      BY EmptySeq, ConcatEmptySeq
    <2> QED BY <1>8, <2>1, <2>2 DEF Pending
  <1>11. Position' = IF Outcome.back THEN Position ELSE Position + 1
    BY <1>1, <1>5, <1>6, <1>8 DEF Position
  <1>12. tok' \in Tokens /\ tok' # "eof" /\ (tok' = "error" <=> t = "error")
    BY <1>3, <1>8 DEF WithEscapes, Ends, Tokens
  <1>13. toks' = Append(toks, IF t = "error"
                             THEN Unbuffered!Failure(Outcome.error)
                             ELSE Unbuffered!Token(t, Whole))
    <2>1. CASE t = "error"
      BY <1>1, <1>12, <2>1
    <2>2. CASE t # "error"
      <3>1. tok' = WithEscapes(t, Whole) /\ out' = Unquoted(t, Whole)
        BY <1>7, <1>8, <2>2
      <3>2. Unbuffered!Token(t, Whole) = [tok |-> tok', text |-> out', error |-> "e_ok"]
        BY <3>1, SameToken DEF Unbuffered!Token
      <3> QED BY <1>1, <1>12, <2>2, <3>2
    <2> QED BY <2>1, <2>2
  <1>14. out' \in Seq(Char) /\ buf' \in Seq(Char) /\ error' \in LexErrors /\ bufOff' \in Nat
    <2>1. <<>> \in Seq(Char) /\ Unquoted(t, L) \in Seq(Char)
      BY <1>7, EmptySeq, UnquotedType
    <2>2. buf \in Seq(Char) /\ error \in LexErrors
      BY DEF Inv, TypeOK, LexTypeOK
    <2> QED BY <1>1, <1>3, <1>5, <1>6, <1>7, <1>8, <2>1, <2>2
  <1> DEFINE R == [tok : Tokens, text : Seq(Char), error : LexErrors]
             r == IF tok' = "error" THEN Unbuffered!Failure(error')
                  ELSE [tok |-> tok', text |-> out', error |-> "e_ok"]
  <1>15. r \in R /\ r.tok = tok'
    <2>1. <<>> \in Seq(Char) /\ "e_ok" \in LexErrors
      BY EmptySeq DEF LexErrors
    <2> QED BY <1>12, <1>14, <2>1 DEF Unbuffered!Failure
  <1>16. toks \in Seq(R) /\ toks' = Append(toks, r)
    BY <1>1 DEF Inv, TypeOK
  <1> HIDE DEF r
  <1>17. toks' \in Seq(R) /\ toks' # <<>> /\ Len(toks') = Len(toks) + 1
         /\ toks'[Len(toks) + 1] = r
    BY <1>15, <1>16, AppendProperties
  <1>18. Failed' <=> tok' = "error"
    BY <1>15, <1>17 DEF Failed, Unbuffered!Failed
  <1>19. TypeOK'
    <2>1. <<>> \in Seq(Modes)
      BY EmptySeq
    <2>2. offset' \in Nat /\ charOff' \in Nat
      BY <1>5, <1>6, <1>8
    <2> HIDE DEF t
    <2> QED BY <1>1, <1>8, <1>9, <1>12, <1>14, <1>17, <2>1, <2>2
            DEF Inv, TypeOK, LexTypeOK, Modes
  <1>20. TrailOK'
    BY <1>1, <1>8, <1>10, TrailCleared
  <1>21. CursorOK'
    <2>1. offset' <= Len(chunk) /\ startOffset <= offset'
      BY <1>5, <1>6, <1>8 DEF Inv, CursorOK, TypeOK, LexTypeOK
    <2> HIDE DEF t
    <2> QED BY <1>1, <1>8, <1>9, <1>12, <1>18, <2>1 DEF CursorOK, Inv
  <1> QED BY <1>1, <1>4, <1>8, <1>10, <1>11, <1>13, <1>19, <1>20, <1>21, FreshPlace DEF Inv

-----------------------------------------------------------------------------
\* A step of nothing leaves everything where it is.
LEMMA StutterEffect ==
    ASSUME Inv, UNCHANGED vars
    PROVE  Inv' /\ Pending' = Pending /\ Position' = Position
  <1>1. UNCHANGED <<chunk, offset, startOffset, buf, bufOff, bufInUse, lineOff, charOff,
                    error, opts, mode, tok, out, pc, text, fed, trail, toks>>
    BY DEF vars, lexVars
  <1>2. Pending' = Pending /\ Position' = Position /\ Consumed' = Consumed
        /\ Failed' = Failed /\ Replaying' = Replaying
    BY <1>1 DEF Pending, Position, Held, Consumed, Failed, Unbuffered!Failed, Replaying
  <1>3. TypeOK'
    BY <1>1 DEF Inv, TypeOK, LexTypeOK
  <1>4. CursorOK'
    BY <1>1, <1>2 DEF Inv, CursorOK
  <1>5. TrailOK'
    BY <1>1, <1>2, TrailKept DEF Inv, TrailOK
  <1> QED BY <1>2, <1>3, <1>4, <1>5 DEF Inv

\* Every step keeps types, cursors and trail.
LEMMA NextInv == Inv /\ [Next]_vars => Inv'
  <1> SUFFICES ASSUME Inv, [Next]_vars PROVE Inv'
    OBVIOUS
  <1>1. ASSUME NEW n \in 0..MaxChunk, Feed(n) PROVE Inv'
    BY <1>1, FeedEffect
  <1>2. CASE CallAgain
    BY <1>2, CallAgainEffect
  <1>3. CASE Skip
    BY <1>3, SkipEffect
  <1>4. CASE Read
    BY <1>4, ReadEffect, ReadReplayEffect
  <1>5. CASE Comment
    BY <1>5, CommentEffect
  <1>6. CASE Suspend
    BY <1>6, SuspendEffect
  <1>7. CASE Emit
    BY <1>7, EmitEffect
  <1>8. CASE UNCHANGED vars
    BY <1>8, StutterEffect
  <1> QED BY <1>1, <1>2, <1>3, <1>4, <1>5, <1>6, <1>7, <1>8 DEF Next

\* So they hold throughout.
LEMMA Invariant == Spec => []Inv
  BY InitInv, NextInv, PTL DEF Spec

\* yajl_lex_lex keeps its cursors, its buffer, its mode and what it returns
\* in their types, whatever it is fed and however that is cut.
THEOREM TypeCorrect == Spec => []TypeOK
  <1>1. Inv => TypeOK
    BY DEF Inv
  <1> QED BY <1>1, Invariant, PTL

\* The cursors of the lexer (*offset, startOffset, bufOff, bufInUse) agree
\* with the text, the chunk and one another: readChar never reads behind the
\* buffer or the chunk, and while the buffer is replayed the chunk is
\* untouched, on which unreadChar relies.
THEOREM CursorsAgree == Spec => []CursorOK
  <1>1. Inv => CursorOK
    BY DEF Inv
  <1> QED BY <1>1, Invariant, PTL

\* Reading the buffer again takes the scanner through the modes it went
\* through when the buffer was filled, and the buffer holds the whole of the
\* pending token.
THEOREM ReplayRepeats == Spec => []TrailOK
  <1>1. Inv => TrailOK
    BY DEF Inv
  <1> QED BY <1>1, Invariant, PTL

\* A call that reads what an earlier one buffered does not return, and does
\* not clear the buffer, before it has read all of it.
THEOREM ReplayGoesOn == Spec => ReplayNeverEnds
  <1>1. ASSUME Inv, [Next]_vars, pc = "lex", Replaying, offset < Len(chunk)
        PROVE  pc' = "lex" /\ buf' = buf
    <2>1. Reading
      BY <1>1, LenProperties DEF Reading, AtEof, Inv, TypeOK, LexTypeOK
    <2>2. Outcome = More(trail[bufOff + 1]) /\ InToken
      BY <1>1, <2>1, ReplayLemma
    <2>3. ~(\E n \in 0..MaxChunk : Feed(n)) /\ ~CallAgain
      BY <1>1 DEF Feed, CallAgain
    <2>4. ~Skip /\ ~Comment /\ ~Emit
      BY <2>2 DEF Skip, SkipWhite, InToken, Comment, EndComment, EndCommentAt, Emit, EndToken, More
    <2>5. ~Suspend
      BY <2>1 DEF Suspend, EndChunk, Reading
    <2>6. Read => pc' = "lex" /\ buf' = buf
      BY <1>1 DEF Read, Advance
    <2>7. UNCHANGED vars => pc' = "lex" /\ buf' = buf
      BY <1>1 DEF vars, lexVars
    <2> QED BY <1>1, <2>3, <2>4, <2>5, <2>6, <2>7 DEF Next
  <1> QED BY <1>1, Invariant, PTL DEF Spec, ReplayNeverEnds

-----------------------------------------------------------------------------
\* The scanner's mode of the abstract lexer, the mode the trail ends in.
LastMode == IF trail = <<>> THEN "start" ELSE trail[Len(trail)]

\* It is the mode behind the whole trail.
LEMMA LastModeLemma ==
    ASSUME Inv
    PROVE  LastMode = ModeAfter(Len(trail))
  BY EmptySeq DEF LastMode, ModeAfter, Inv, TypeOK

\* What a step that reads outside a replay is to the abstract lexer.
LEMMA SameReading ==
    ASSUME Inv, Reading, ~Replaying
    PROVE  /\ Unbuffered!Ready /\ Unbuffered!c = NextChar
           /\ LastMode = mode /\ Unbuffered!Result = Outcome
           /\ InToken => Unbuffered!InToken
  <1>1. Position < fed /\ NextChar = text[Position + 1]
    BY TextLemma
  <1>2. ~Failed /\ pc = "lex"
    BY Place DEF Reading
  <1>3. Unbuffered!Ready /\ Unbuffered!c = NextChar
    BY <1>1, <1>2 DEF Unbuffered!Ready, Unbuffered!c, Failed
  <1>4. LastMode = mode
    BY <1>2, LastModeLemma, FreshPlace
  <1>5. Unbuffered!Result = Outcome
    BY <1>3, <1>4, SameScan DEF Unbuffered!Result, Outcome, LastMode
  <1>6. InToken => Unbuffered!InToken
    BY <1>3, <1>4 DEF InToken, Unbuffered!InToken, LastMode, White, Unbuffered!White
  <1> QED BY <1>3, <1>4, <1>5, <1>6

\* A lexer just allocated is an abstract lexer that has taken nothing.
LEMMA InitStream == Init => Unbuffered!Init
  <1> SUFFICES ASSUME Init PROVE Unbuffered!Init
    OBVIOUS
  <1>1. Pending = <<>>
    BY ConcatEmptySeq, EmptySeq DEF Init, LexAlloc, Pending, Held
  <1>2. Position = 0
    <2>1. fed = 0 /\ offset = 0
      BY DEF Init, LexAlloc
    <2>2. Len(chunk) = 0
      BY EmptySeq DEF Init, LexAlloc
    <2> QED BY <2>1, <2>2 DEF Position
  <1>3. LexOptions = Unbuffered!LexOptions
    BY DEF LexOptions, Unbuffered!LexOptions
  <1> QED BY <1>1, <1>2, <1>3 DEF Init, Unbuffered!Init

\* A step with the same token under way, the same place, the same tokens.
LEMMA SameStream ==
    ASSUME Pending' = Pending, Position' = Position, UNCHANGED <<text, opts, fed, trail, toks>>
    PROVE  UNCHANGED Unbuffered!streamVars
  BY DEF Unbuffered!streamVars

\* Every step of the lexer is a step of the abstract one, or none.
LEMMA StepStream ==
    ASSUME Inv, Next
    PROVE  [Unbuffered!Next]_(Unbuffered!streamVars)
  <1>1. ASSUME NEW n \in 0..MaxChunk, Feed(n)
        PROVE  Unbuffered!Arrive
    <2>1. UNCHANGED <<text, opts, toks>>
      BY <1>1 DEF Feed, LexEnter
    <2>2. fed' \in fed..Len(text)
      BY <1>1, FeedEffect, MaxChunkAssumption, Place, LenProperties DEF Inv, TypeOK
    <2> QED BY <1>1, <2>1, <2>2, FeedEffect DEF Unbuffered!Arrive
  <1>2. CASE CallAgain
    BY <1>2, CallAgainEffect, SameStream DEF CallAgain, LexEnter
  <1>3. CASE Skip
    <2>1. Reading /\ mode = "start" /\ NextChar \in White /\ UNCHANGED <<text, opts, fed, toks>>
      BY <1>3 DEF Skip, SkipWhite
    <2> QED BY <1>3, <2>1, SkipEffect, SameReading
            DEF Unbuffered!TakeWhite, Unbuffered!Next, LastMode, White, Unbuffered!White
  <1>4. CASE Read /\ Replaying
    BY <1>4, ReadReplayEffect, SameStream DEF Read, Advance
  <1>5. CASE Read /\ ~Replaying
    <2>1. InToken /\ Reading /\ Outcome.tok = "none" /\ mode' = Outcome.mode
      BY <1>5 DEF Read, Advance, InToken
    <2>2. trail' = Append(trail, mode') /\ Pending' = Append(Pending, NextChar)
          /\ Position' = Position + 1 /\ UNCHANGED <<text, opts, fed, toks>> /\ Inv'
      BY <1>5, ReadEffect
    <2>3. LastMode' = mode'
      <3>1. trail \in Seq(Modes) /\ mode' \in Modes
        BY <2>2 DEF Inv, TypeOK, LexTypeOK
      <3>2. /\ Append(trail, mode') # <<>> /\ Len(Append(trail, mode')) = Len(trail) + 1
            /\ Append(trail, mode')[Len(trail) + 1] = mode'
        BY <3>1, AppendProperties
      <3> QED BY <2>2, <3>2 DEF LastMode
    <2> QED BY <1>5, <2>1, <2>2, <2>3, SameReading
            DEF Unbuffered!TakeMore, Unbuffered!Next, LastMode
  <1>6. CASE Comment
    <2>1. InToken /\ Reading /\ Outcome.tok = "comment"
      BY <1>6 DEF Comment, EndComment, EndCommentAt, InToken
    <2> QED BY <1>6, <2>1, CommentEffect, SameReading
            DEF Unbuffered!TakeComment, Unbuffered!Restart, Unbuffered!Next
  <1>7. CASE Suspend
    BY <1>7, SuspendEffect, SameStream
  <1>8. CASE Emit
    <2>1. Reading /\ ~Replaying /\ InToken
      BY <1>8, EmitEffect DEF InToken
    <2> QED BY <1>8, <2>1, EmitEffect, SameReading
            DEF Unbuffered!TakeToken, Unbuffered!Restart, Unbuffered!Next, Whole
  <1> QED BY <1>1, <1>2, <1>3, <1>4, <1>5, <1>6, <1>7, <1>8 DEF Next, Unbuffered!Next

\* yajl_lex_lex with its chunks and its buffer implements the lexer that reads
\* the text from one end to the other: same tokens, same text of each, same
\* error, wherever the chunk boundaries fall.
THEOREM Refinement == Spec => ImplementsStream
  <1>1. Inv /\ [Next]_vars => [Unbuffered!Next]_(Unbuffered!streamVars)
    <2>1. ASSUME Inv, UNCHANGED vars
          PROVE  UNCHANGED Unbuffered!streamVars
      BY <2>1, StutterEffect, SameStream DEF vars, lexVars
    <2> QED BY <2>1, StepStream
  <1> QED BY <1>1, InitStream, Invariant, PTL DEF Spec, ImplementsStream, Unbuffered!Spec

-----------------------------------------------------------------------------
\* Without comments no comment is ever scanned.
LEMMA NoCommentScan ==
    ASSUME NEW m \in Modes \ CommentModes, NEW c \in Char, NEW o \in LexOptions,
           ~o.allowComments
    PROVE  /\ Scan(m, c, o).tok # "comment"
           /\ Scan(m, c, o).tok = "none" => Scan(m, c, o).mode \notin CommentModes
  <1>1. OutcomeIn(Scan(m, c, o), TokenModes, Ends)
    BY OutcomeLemma
  <1>2. /\ Scan(m, c, o).tok \in Ends \cup {"integer", "double", "none", "error"}
        /\ Scan(m, c, o).tok = "none" => Scan(m, c, o).mode \in TokenModes
    BY <1>1, OutcomeFacts
  <1> QED BY <1>2 DEF TokenModes, WordModes, NumberModes, StringModes, CommentModes, Ends, Tokens

\* Inside a token that is no comment a newline is unread or an error.
LEMMA NewlineScan ==
    ASSUME NEW m \in Modes \ CommentModes, NEW o \in LexOptions, m # "start"
    PROVE  LET s == Scan(m, "\n", o) IN s.tok # "none" /\ (s.tok = "error" \/ s.back)
  <1>1. CASE m \in WordModes
    <2>1. ScanWord(m, "\n") = BadBefore("invalid_string")
      BY <1>1 DEF ScanWord, WordModes, Want
    <2> QED BY <1>1, <2>1, Dispatch, Fields
  <1>2. CASE m \in NumberModes
    <2>1. ScanNumber(m, "\n") = NumberEnd[m]
      BY <1>2 DEF ScanNumber, Digit
    <2>2. NumberEnd[m].tok # "none" /\ NumberEnd[m].back
      BY <1>2, Fields DEF NumberEnd, NumberModes
    <2> QED BY <1>2, <2>1, <2>2, Dispatch
  <1>3. CASE m \in StringModes
    <2>1. \E e : ScanString(m, "\n", o) \in {Bad(e), BadBefore(e)}
      BY <1>3 DEF ScanString, StringModes, Control, Escapable, Hex, Digit
    <2> QED BY <1>3, <2>1, Dispatch, Fields
  <1> QED BY <1>1, <1>2, <1>3 DEF Modes

\* How the newlines in front of a place, and the last of them, grow.
LEMMA NewlinesGrow ==
    ASSUME text \in Seq(Char), NEW n \in Nat
    PROVE  /\ IsFiniteSet(Newlines(n)) /\ Cardinality(Newlines(n)) \in Nat
           /\ text[n + 1] = "\n" =>
                 /\ Cardinality(Newlines(n + 1)) = Cardinality(Newlines(n)) + 1
                 /\ LastNewline(n + 1) = n + 1
           /\ text[n + 1] # "\n" =>
                 Newlines(n + 1) = Newlines(n) /\ LastNewline(n + 1) = LastNewline(n)
  <1>1. IsFiniteSet(Newlines(n)) /\ Cardinality(Newlines(n)) \in Nat
    <2>1. IsFiniteSet(1..n) /\ Newlines(n) \in SUBSET (1..n)
      BY FS_Interval DEF Newlines
    <2> QED BY <2>1, FS_Subset, FS_CardinalityType
  <1>2. ASSUME text[n + 1] = "\n"
        PROVE  /\ Cardinality(Newlines(n + 1)) = Cardinality(Newlines(n)) + 1
               /\ LastNewline(n + 1) = n + 1
    <2>1. Newlines(n + 1) = Newlines(n) \cup {n + 1} /\ n + 1 \notin Newlines(n)
      BY <1>2 DEF Newlines
    <2>2. \A i \in Newlines(n + 1) : i \in Nat /\ i <= n + 1
      BY DEF Newlines
    <2> DEFINE P(i) == i \in Newlines(n + 1) /\ \A j \in Newlines(n + 1) : j <= i
    <2>3. P(n + 1)
      BY <2>1, <2>2
    <2>4. \A i : P(i) => i = n + 1
      BY <2>1, <2>2
    <2>5. LastNewline(n + 1) = CHOOSE i : P(i)
      BY <2>1 DEF LastNewline
    <2>6. P(CHOOSE i : P(i))
      BY <2>3
    <2> HIDE DEF P
    <2> QED BY <1>1, <2>1, <2>4, <2>5, <2>6, FS_AddElement
  <1>3. ASSUME text[n + 1] # "\n"
        PROVE  Newlines(n + 1) = Newlines(n) /\ LastNewline(n + 1) = LastNewline(n)
    <2>1. Newlines(n + 1) = Newlines(n)
      BY <1>3 DEF Newlines
    <2> DEFINE L(S) == IF S = {} THEN 0 ELSE CHOOSE i \in S : \A j \in S : j <= i
    <2>2. LastNewline(n + 1) = L(Newlines(n + 1)) /\ LastNewline(n) = L(Newlines(n))
      BY Zenon DEF LastNewline
    <2> HIDE DEF L
    <2> QED BY <2>1, <2>2
  <1> QED BY <1>1, <1>2, <1>3

\* No comment is under way when none are allowed.
CommentFree == ~opts.allowComments => \A i \in 1..Len(trail) : trail[i] \notin CommentModes

\* The line under way starts somewhere.
LineStarts == ~opts.allowComments /\ ~Failed => LastNewline(Position) \in Nat

\* The inductive invariant of the positions.
PlaceInv == Inv /\ CommentFree /\ LineStarts /\ PositionTrue

\* yajl_lex_alloc starts at line 1, column 0.
LEMMA InitPlace == Init => PlaceInv
  <1> SUFFICES ASSUME Init PROVE PlaceInv
    OBVIOUS
  <1>1. Inv /\ Position = 0 /\ lineOff = 1 /\ charOff = 0
    BY InitInv, InitStream DEF Init, LexAlloc, Unbuffered!Init
  <1>2. Newlines(0) = {} /\ LastNewline(0) = 0
    BY DEF Newlines, LastNewline
  <1>3. PositionTrue
    BY <1>1, <1>2, FS_EmptySet DEF PositionTrue
  <1>4. CommentFree
    BY DEF Init, CommentFree
  <1> QED BY <1>1, <1>2, <1>3, <1>4 DEF PlaceInv, LineStarts

\* A step that counts nothing, from a state in which nothing has failed.
LEMMA PlaceKept ==
    ASSUME PlaceInv, Inv', ~Failed, Position' = Position, UNCHANGED <<text, opts, lineOff, charOff>>,
           trail' \in {trail, <<>>}
    PROVE  PlaceInv'
  <1>1. CommentFree'
    BY DEF CommentFree, PlaceInv
  <1>2. PositionTrue'
    BY DEF PositionTrue, PlaceInv, Newlines, LastNewline
  <1>3. LineStarts'
    BY Zenon DEF LineStarts, PlaceInv, Newlines, LastNewline
  <1> QED BY <1>1, <1>2, <1>3 DEF PlaceInv

\* A step past a character that is not a newline.
LEMMA PlaceMoved ==
    ASSUME PlaceInv, Inv', ~Failed, CommentFree', Reading, ~Replaying, NextChar # "\n",
           Position' = Position + 1, UNCHANGED <<text, opts, lineOff>>, charOff' = charOff + 1
    PROVE  PlaceInv'
  <1>1. Position \in Nat /\ NextChar = text[Position + 1] /\ text \in Seq(Char)
        /\ charOff \in Nat
    BY TextLemma, Place DEF PlaceInv, Inv, TypeOK, LexTypeOK
  <1>2. /\ Newlines(Position + 1) = Newlines(Position)
        /\ LastNewline(Position + 1) = LastNewline(Position)
    BY <1>1, NewlinesGrow
  <1>3. PositionTrue' /\ LineStarts'
    <2> SUFFICES ASSUME ~opts.allowComments
                 PROVE  /\ lineOff' = 1 + Cardinality(Newlines(Position + 1))
                        /\ charOff' = (Position + 1) - LastNewline(Position + 1)
                        /\ LastNewline(Position + 1) \in Nat
      BY Zenon DEF PositionTrue, LineStarts, Newlines, LastNewline
    <2>1. /\ lineOff = 1 + Cardinality(Newlines(Position))
          /\ charOff = Position - LastNewline(Position)
          /\ LastNewline(Position) \in Nat
      BY DEF PlaceInv, PositionTrue, LineStarts
    <2> QED BY <1>1, <1>2, <2>1
  <1> QED BY <1>3 DEF PlaceInv

\* A newline outside a comment is white space, unread, or an error.
LEMMA NoNewline ==
    ASSUME PlaceInv, Reading, InToken, ~Replaying, ~opts.allowComments
    PROVE  /\ Outcome.tok # "comment"
           /\ Outcome.tok = "none" => NextChar # "\n" /\ Outcome.mode \notin CommentModes
           /\ Outcome.tok # "error" /\ ~Outcome.back => NextChar # "\n"
  <1>1. mode \in Modes /\ opts \in LexOptions /\ NextChar \in Char
    BY NextCharLemma DEF PlaceInv, Inv, TypeOK, LexTypeOK
  <1>2. mode = ModeAfter(Len(trail)) /\ Len(trail) \in Nat
    BY FreshPlace, LenProperties DEF PlaceInv, Inv, TypeOK, Reading
  <1>3. mode \notin CommentModes
    <2>1. CASE Len(trail) = 0
      BY <1>2, <2>1 DEF ModeAfter, CommentModes
    <2>2. CASE Len(trail) \in 1..Len(trail)
      BY <1>2, <2>2 DEF ModeAfter, PlaceInv, CommentFree
    <2> QED BY <1>2, <2>1, <2>2
  <1>4. NextChar = "\n" => mode # "start"
    BY DEF InToken, White
  <1> QED BY <1>1, <1>3, <1>4, NoCommentScan, NewlineScan DEF Outcome

\* Every step keeps the line and the column true.
LEMMA NextPlace == PlaceInv /\ [Next]_vars => PlaceInv'
  <1> SUFFICES ASSUME PlaceInv, [Next]_vars PROVE PlaceInv'
    OBVIOUS
  <1>1. Inv /\ Inv'
    BY NextInv DEF PlaceInv
  <1>2. ASSUME NEW n \in 0..MaxChunk, Feed(n) PROVE PlaceInv'
    <2>1. ~Failed
      BY <1>1, <1>2 DEF Feed, Inv, CursorOK
    <2> QED BY <1>1, <1>2, <2>1, FeedEffect, PlaceKept DEF Feed, LexEnter
  <1>3. CASE CallAgain
    <2>1. ~Failed
      BY <1>1, <1>3 DEF CallAgain, Inv, CursorOK
    <2> QED BY <1>1, <1>3, <2>1, CallAgainEffect, PlaceKept DEF CallAgain, LexEnter
  <1>4. CASE Skip
    <2>1. /\ Reading /\ ~Failed /\ ~Replaying /\ trail' = <<>> /\ trail = <<>>
          /\ Position' = Position + 1 /\ UNCHANGED <<text, opts>>
      BY <1>1, <1>4, SkipEffect, Place DEF Skip, SkipWhite, Reading
    <2>2. CommentFree'
      BY <2>1 DEF CommentFree
    <2>3. CASE NextChar # "\n"
      BY <1>1, <1>4, <2>1, <2>2, <2>3, PlaceMoved DEF Skip, SkipWhite, readChar
    <2>4. CASE NextChar = "\n"
      <3>1. lineOff' = lineOff + 1 /\ charOff' = 0
        BY <1>4, <2>4 DEF Skip, SkipWhite
      <3>2. Position \in Nat /\ NextChar = text[Position + 1] /\ text \in Seq(Char)
            /\ lineOff \in Nat
        BY <1>1, <2>1, TextLemma, Place DEF Inv, TypeOK, LexTypeOK
      <3>3. /\ Cardinality(Newlines(Position + 1)) = Cardinality(Newlines(Position)) + 1
            /\ LastNewline(Position + 1) = Position + 1
            /\ Cardinality(Newlines(Position)) \in Nat
        BY <2>4, <3>2, NewlinesGrow
      <3>4. PositionTrue' /\ LineStarts'
        <4> SUFFICES ASSUME ~opts.allowComments
                     PROVE  /\ lineOff' = 1 + Cardinality(Newlines(Position + 1))
                            /\ charOff' = (Position + 1) - LastNewline(Position + 1)
                            /\ LastNewline(Position + 1) \in Nat
          BY <2>1, Zenon DEF PositionTrue, LineStarts, Newlines, LastNewline
        <4>1. lineOff = 1 + Cardinality(Newlines(Position))
          BY <2>1 DEF PlaceInv, PositionTrue
        <4> QED BY <3>1, <3>2, <3>3, <4>1
      <3> QED BY <1>1, <2>2, <3>4 DEF PlaceInv
    <2> QED BY <2>3, <2>4
  <1>5. CASE Read /\ Replaying
    <2>1. ~Failed
      BY <1>1, <1>5, Place DEF Read, Advance, InToken, Reading
    <2> QED BY <1>1, <1>5, <2>1, ReadReplayEffect, PlaceKept DEF Read, Advance, MoveTo, readChar
  <1>6. CASE Read /\ ~Replaying
    <2>1. /\ Reading /\ InToken /\ ~Failed /\ trail' = Append(trail, mode')
          /\ Outcome.tok = "none" /\ mode' = Outcome.mode
          /\ Position' = Position + 1 /\ UNCHANGED <<text, opts, lineOff>>
          /\ charOff' = charOff + 1
      BY <1>1, <1>6, ReadEffect, Place DEF Read, Advance, InToken, Reading, MoveTo, readChar
    <2>2. CommentFree'
      <3> SUFFICES ASSUME ~opts.allowComments, NEW i \in 1..Len(trail')
                   PROVE  trail'[i] \notin CommentModes
        BY <2>1 DEF CommentFree
      <3>1. mode' \notin CommentModes
        BY <1>6, <2>1, NoNewline
      <3>2. trail \in Seq(Modes) /\ mode' \in Modes
        BY <1>1 DEF Inv, TypeOK, LexTypeOK
      <3>3. /\ Len(trail') = Len(trail) + 1 /\ trail'[Len(trail) + 1] = mode'
            /\ \A j \in 1..Len(trail) : trail'[j] = trail[j]
            /\ Len(trail) \in Nat
        BY <2>1, <3>2, AppendProperties, LenProperties
      <3>4. i \in 1..Len(trail) \/ i = Len(trail) + 1
        BY <3>3
      <3> QED BY <3>1, <3>3, <3>4 DEF PlaceInv, CommentFree
    <2>3. CASE opts.allowComments
      BY <1>1, <2>1, <2>2, <2>3 DEF PlaceInv, PositionTrue, LineStarts
    <2>4. CASE ~opts.allowComments
      BY <1>1, <1>6, <2>1, <2>2, <2>4, NoNewline, PlaceMoved
    <2> QED BY <2>3, <2>4
  <1>7. CASE Comment
    <2>1. /\ Reading /\ InToken /\ ~Replaying /\ Outcome.tok = "comment" /\ opts' = opts
          /\ trail' = <<>>
      BY <1>1, <1>7, CommentEffect DEF Comment, EndComment, EndCommentAt, InToken
    <2>2. opts.allowComments
      BY <2>1, NoNewline
    <2> QED BY <1>1, <2>1, <2>2 DEF PlaceInv, PositionTrue, LineStarts, CommentFree
  <1>8. CASE Suspend
    <2>1. ~Failed
      BY <1>1, <1>8, Place DEF Suspend, EndChunk
    <2> QED BY <1>1, <1>8, <2>1, SuspendEffect, PlaceKept DEF Suspend, EndChunk, Lexed, LexedFrom
  <1>9. CASE Emit
    <2>1. /\ Reading /\ ~Failed /\ ~Replaying /\ InToken /\ trail' = <<>>
          /\ Outcome.tok \notin {"none", "comment"}
          /\ Position' = IF Outcome.back THEN Position ELSE Position + 1
          /\ UNCHANGED <<text, opts>>
      BY <1>1, <1>9, EmitEffect, Place DEF InToken, Reading
    <2>2. /\ lineOff' = lineOff
          /\ charOff' = IF Outcome.back THEN charOff ELSE charOff + 1
      <3>1. charOff \in Nat /\ offset \in Nat
        BY <1>1 DEF Inv, TypeOK, LexTypeOK
      <3> QED BY <1>9, <2>1, <3>1 DEF Emit, EndToken, Lexed, LexedFrom, readChar, unreadChar
    <2>3. CommentFree'
      BY <2>1 DEF CommentFree
    <2>4. CASE opts.allowComments
      BY <1>1, <2>1, <2>3, <2>4 DEF PlaceInv, PositionTrue, LineStarts
    <2>5. CASE ~opts.allowComments /\ Outcome.tok = "error"
      <3>1. Failed'
        BY <1>1, <1>9, <2>5 DEF Emit, EndToken, Lexed, LexedFrom, WithEscapes, Inv, CursorOK
      <3> QED BY <1>1, <2>3, <3>1 DEF PlaceInv, PositionTrue, LineStarts
    <2>6. CASE Outcome.back
      BY <1>1, <2>1, <2>2, <2>6, PlaceKept
    <2>7. CASE ~opts.allowComments /\ Outcome.tok # "error" /\ ~Outcome.back
      BY <1>1, <2>1, <2>2, <2>3, <2>7, NoNewline, PlaceMoved
    <2> QED BY <2>4, <2>5, <2>6, <2>7
  <1>10. CASE UNCHANGED vars
    <2>1. UNCHANGED <<text, opts, lineOff, charOff, trail, toks>> /\ Position' = Position
      BY <1>1, <1>10, StutterEffect DEF vars, lexVars
    <2>2. CASE ~Failed
      BY <1>1, <2>1, <2>2, PlaceKept
    <2>3. CASE Failed
      BY <1>1, <2>1, <2>3 DEF Failed, Unbuffered!Failed, PlaceInv, PositionTrue, LineStarts,
                             CommentFree
    <2> QED BY <2>2, <2>3
  <1> QED BY <1>2, <1>3, <1>4, <1>5, <1>6, <1>7, <1>8, <1>9, <1>10 DEF Next

\* Without comments lineOff and charOff are the line and the column of the
\* lexer's place, however often characters were unread or read again.
THEOREM PositionsAreTrue == Spec => []PositionTrue
  <1>1. PlaceInv => PositionTrue
    BY DEF PlaceInv
  <1> QED BY <1>1, InitPlace, NextPlace, PTL DEF Spec

-----------------------------------------------------------------------------
(* Every token handed out is a token of JSON of the kind the lexer says.   *)

\* A part of a sequence: its type, its length and its elements.
LEMMA Piece ==
    ASSUME NEW S, NEW s \in Seq(S), NEW i \in 1..Len(s) + 1, NEW j \in i - 1..Len(s)
    PROVE  /\ SubSeq(s, i, j) \in Seq(S)
           /\ Len(SubSeq(s, i, j)) = j - i + 1
           /\ \A k \in 1..j - i + 1 : SubSeq(s, i, j)[k] = s[i + k - 1]
  <1>1. Len(s) \in Nat
    BY LenProperties
  <1>2. \A k \in i..j : s[k] \in S
    BY <1>1, ElementOfSeq
  <1>3. i \in Int /\ j \in Int
    BY <1>1
  <1>4. /\ SubSeq(s, i, j) \in Seq(S)
        /\ Len(SubSeq(s, i, j)) = IF i <= j THEN j - i + 1 ELSE 0
        /\ \A k \in 1..j - i + 1 : SubSeq(s, i, j)[k] = s[i + k - 1]
    BY <1>2, <1>3, SubSeqProperties
  <1>5. j - i + 1 = IF i <= j THEN j - i + 1 ELSE 0
    BY <1>1
  <1> QED BY <1>4, <1>5

-----------------------------------------------------------------------------
\* The characters d..i of s are the digits of an integer that begins s.
IntTo(s, d, i) ==
    /\ d \in {1, 2} /\ i \in d..Len(s)
    /\ d = 2 => s[1] = "-"
    /\ \A k \in d..i : s[k] \in Digit
    /\ s[d] = "0" => i = d
\* Behind place i stands a fraction that ends at place j.
FracTo(s, i, j) ==
    /\ j \in i + 2..Len(s)
    /\ s[i + 1] = "."
    /\ \A k \in i + 2..j : s[k] \in Digit
\* An integer, and maybe a fraction, that end at place j.
MantissaTo(s, j) ==
    \E d \in {1, 2}, i \in 1..Len(s) : IntTo(s, d, i) /\ (i = j \/ FracTo(s, i, j))

\* Such digits, all of them, are an integer of JSON.
LEMMA IntLemma ==
    ASSUME NEW s \in Seq(Char), NEW d, IntTo(s, d, Len(s))
    PROVE  IsInt(s)
  <1>1. Len(s) \in Nat
    BY LenProperties
  <1>2. CASE d = 1
    <2>1. s[1] \in Digit /\ s # <<>> /\ AllIn(s, Digit) /\ (s[1] = "0" => Len(s) = 1)
      BY <1>1, <1>2 DEF IntTo, AllIn
    <2>2. Unsigned(s, {"-"}) = s
      BY <2>1 DEF Unsigned, Digit
    <2> QED BY <2>1, <2>2 DEF IsInt, IsDigits
  <1>3. CASE d = 2
    <2> DEFINE u == From(s, 2)
    <2>1. 2 \in 1..Len(s) + 1 /\ Len(s) \in 2 - 1..Len(s) /\ s[1] = "-" /\ s # <<>>
      BY <1>1, <1>3 DEF IntTo
    <2>2. u \in Seq(Char) /\ Len(u) = Len(s) - 2 + 1
          /\ \A k \in 1..Len(s) - 2 + 1 : u[k] = s[2 + k - 1]
      BY <2>1, Piece DEF From
    <2>3. \A k \in 1..Len(u) : u[k] = s[k + 1] /\ k + 1 \in 2..Len(s)
      BY <1>1, <2>2
    <2>4. /\ \A k \in 2..Len(s) : s[k] \in Digit
          /\ s[2] = "0" => Len(s) = 2
          /\ Len(s) >= 2
      BY <1>1, <1>3 DEF IntTo
    <2>5. Unsigned(s, {"-"}) = u
      BY <2>1 DEF Unsigned
    <2> HIDE DEF u
    <2>6. Len(u) = Len(s) - 1 /\ Len(u) \in Nat /\ Len(u) >= 1
      BY <1>1, <2>2, <2>4
    <2>7. AllIn(u, Digit)
      BY <2>3, <2>4 DEF AllIn
    <2>8. 1 \in 1..Len(u)
      BY <2>6
    <2>9. u[1] = "0" => Len(u) = 1
      <3>1. u[1] = s[1 + 1] /\ 1 + 1 = 2
        BY <2>3, <2>8
      <3>2. Len(s) = 2 => Len(u) = 1
        BY <1>1, <2>6
      <3> QED BY <2>4, <3>1, <3>2
    <2>10. u # <<>>
      BY <2>2, <2>6, EmptySeq
    <2> QED BY <2>5, <2>7, <2>9, <2>10 DEF IsInt, IsDigits
  <1> QED BY <1>2, <1>3 DEF IntTo

\* And so they are in front of more.
LEMMA IntToLemma ==
    ASSUME NEW s \in Seq(Char), NEW d, NEW i \in 1..Len(s), IntTo(s, d, i)
    PROVE  IsInt(SubSeq(s, 1, i))
  <1> DEFINE p == SubSeq(s, 1, i)
  <1>1. Len(s) \in Nat
    BY LenProperties
  <1>2. p \in Seq(Char) /\ Len(p) = i /\ \A k \in 1..i : p[k] = s[k]
    BY <1>1, Piece
  <1> HIDE DEF p
  <1>3. IntTo(p, d, Len(p))
    BY <1>1, <1>2 DEF IntTo
  <1>4. IsInt(p)
    BY <1>2, <1>3, IntLemma
  <1> QED BY <1>4 DEF p

\* Such a fraction is a fraction of JSON.
LEMMA FracToLemma ==
    ASSUME NEW s \in Seq(Char), NEW i \in 1..Len(s), NEW j, FracTo(s, i, j)
    PROVE  IsFrac(SubSeq(s, i + 1, j))
  <1> DEFINE p == SubSeq(s, i + 1, j)
             u == From(p, 2)
  <1>1. Len(s) \in Nat /\ j \in Nat /\ i + 1 \in 1..Len(s) + 1 /\ j \in (i + 1) - 1..Len(s)
    BY LenProperties DEF FracTo
  <1>2. p \in Seq(Char) /\ Len(p) = j - (i + 1) + 1
        /\ \A k \in 1..j - (i + 1) + 1 : p[k] = s[(i + 1) + k - 1]
    BY <1>1, Piece
  <1>3. Len(p) = j - i /\ Len(p) >= 2 /\ p # <<>>
        /\ \A k \in 1..Len(p) : p[k] = s[i + k]
    BY <1>1, <1>2 DEF FracTo
  <1> HIDE DEF p
  <1>4. u \in Seq(Char) /\ Len(u) = Len(p) - 2 + 1 /\ \A k \in 1..Len(p) - 2 + 1 : u[k] = p[2 + k - 1]
    BY <1>1, <1>2, <1>3, Piece DEF From
  <1>5. Len(u) = Len(p) - 1 /\ \A k \in 1..Len(u) : u[k] = p[k + 1] /\ k + 1 \in 1..Len(p)
    BY <1>1, <1>3, <1>4
  <1>6. \A k \in 1..Len(u) : u[k] = s[i + (k + 1)] /\ i + (k + 1) \in i + 2..j
    BY <1>1, <1>3, <1>5
  <1>7. AllIn(u, Digit)
    BY <1>6 DEF FracTo, AllIn
  <1>8. p[1] = "."
    <2>1. 1 \in 1..Len(p)
      BY <1>1, <1>3
    <2> QED BY <1>3, <2>1 DEF FracTo
  <1>9. u # <<>>
    <2>1. Len(u) >= 1
      BY <1>1, <1>3, <1>5
    <2> HIDE DEF u
    <2> QED BY <1>4, <2>1, EmptySeq
  <1> QED BY <1>3, <1>7, <1>8, <1>9 DEF IsFrac, IsDigits, p

\* What an exponent is that begins behind place j and has its digits from e.
ExpFrom(s, j, e) ==
    /\ e \in {j + 2, j + 3} /\ e <= Len(s)
    /\ s[j + 1] \in {"e", "E"}
    /\ e = j + 3 => s[j + 2] \in {"+", "-"}
    /\ \A k \in e..Len(s) : s[k] \in Digit

\* Such an exponent is an exponent of JSON.
LEMMA ExpFromLemma ==
    ASSUME NEW s \in Seq(Char), NEW j \in 1..Len(s), NEW e, ExpFrom(s, j, e)
    PROVE  IsExp(From(s, j + 1))
  <1> DEFINE p == From(s, j + 1)
             u == From(p, 2)
             v == From(u, 2)
  <1>1. Len(s) \in Nat /\ e \in Nat /\ j + 1 \in 1..Len(s) + 1 /\ Len(s) \in (j + 1) - 1..Len(s)
    BY LenProperties DEF ExpFrom
  <1>2. p \in Seq(Char) /\ Len(p) = Len(s) - (j + 1) + 1
        /\ \A k \in 1..Len(s) - (j + 1) + 1 : p[k] = s[(j + 1) + k - 1]
    BY <1>1, Piece DEF From
  <1>3. Len(p) = Len(s) - j /\ Len(p) >= 2 /\ p # <<>>
        /\ \A k \in 1..Len(p) : p[k] = s[j + k]
    <2> HIDE DEF p
    <2>1. Len(p) = Len(s) - j /\ Len(p) >= 2
      BY <1>1, <1>2 DEF ExpFrom
    <2>2. \A k \in 1..Len(p) : p[k] = s[(j + 1) + k - 1] /\ (j + 1) + k - 1 = j + k
      BY <1>1, <1>2
    <2>3. p # <<>>
      BY <1>2, <2>1, EmptySeq
    <2> QED BY <2>1, <2>2, <2>3
  <1> HIDE DEF p
  <1>4. u \in Seq(Char) /\ Len(u) = Len(p) - 2 + 1 /\ \A k \in 1..Len(p) - 2 + 1 : u[k] = p[2 + k - 1]
    BY <1>1, <1>2, <1>3, Piece DEF From
  <1>5. p[1] \in {"e", "E"}
    <2>1. 1 \in 1..Len(p)
      BY <1>1, <1>3
    <2> QED BY <1>3, <2>1 DEF ExpFrom
  <1> HIDE DEF u
  <1>6. /\ Len(u) = Len(s) - j - 1 /\ Len(u) >= 1 /\ u # <<>>
        /\ \A k \in 1..Len(u) : u[k] = s[j + 1 + k]
    <2>1. Len(u) = Len(p) - 1 /\ \A k \in 1..Len(u) : u[k] = p[k + 1] /\ k + 1 \in 1..Len(p)
      BY <1>1, <1>3, <1>4
    <2>2. Len(u) = Len(s) - j - 1 /\ Len(u) >= 1
      BY <1>1, <1>3, <2>1
    <2>3. \A k \in 1..Len(u) : u[k] = s[j + (k + 1)] /\ j + (k + 1) = j + 1 + k
      BY <1>1, <1>3, <2>1
    <2>4. u # <<>>
      BY <2>2, EmptySeq
    <2> QED BY <2>2, <2>3, <2>4
  <1>7. IsDigits(Unsigned(u, {"+", "-"}))
    <2>1. CASE e = j + 2
      <3>1. \A k \in 1..Len(u) : u[k] \in Digit
        BY <1>1, <1>6, <2>1 DEF ExpFrom
      <3>2. 1 \in 1..Len(u)
        BY <1>1, <1>6
      <3>3. u[1] \notin {"+", "-"}
        BY <3>1, <3>2 DEF Digit
      <3> QED BY <1>6, <3>1, <3>3 DEF IsDigits, Unsigned, AllIn
    <2>2. CASE e = j + 3
      <3>1. u[1] \in {"+", "-"} /\ Len(u) >= 2 /\ Len(u) \in Nat
        BY <1>1, <1>6, <2>2 DEF ExpFrom
      <3>2. v \in Seq(Char) /\ Len(v) = Len(u) - 2 + 1
            /\ \A k \in 1..Len(u) - 2 + 1 : v[k] = u[2 + k - 1]
        BY <1>4, <3>1, Piece DEF From
      <3>3. Len(v) = Len(u) - 1 /\ \A k \in 1..Len(v) : v[k] = u[k + 1]
        BY <3>1, <3>2
      <3>4. \A k \in 1..Len(v) : v[k] = s[j + 1 + (k + 1)] /\ j + 1 + (k + 1) \in e..Len(s)
        BY <1>1, <1>6, <2>2, <3>1, <3>3
      <3>5. AllIn(v, Digit)
        BY <3>4 DEF AllIn, ExpFrom
      <3>6. Len(v) >= 1
        BY <3>1, <3>3
      <3> HIDE DEF v
      <3>7. v # <<>>
        BY <3>2, <3>6, EmptySeq
      <3> QED BY <1>6, <3>1, <3>5, <3>7 DEF IsDigits, Unsigned, v
    <2> QED BY <2>1, <2>2 DEF ExpFrom
  <1> QED BY <1>3, <1>5, <1>7 DEF IsExp, p, u

\* An integer with a fraction, an exponent or both is a number of JSON that is
\* no integer.
LEMMA RealLemma ==
    ASSUME NEW s \in Seq(Char), NEW d \in {1, 2}, NEW i \in 1..Len(s), NEW j \in 1..Len(s),
           IntTo(s, d, i), i = j \/ FracTo(s, i, j),
           \/ j = Len(s) /\ i # j
           \/ \E e : ExpFrom(s, j, e)
    PROVE  IsReal(s)
  <1>1. Len(s) \in Nat
    BY LenProperties
  <1>2. i <= j /\ i < Len(s)
    BY <1>1 DEF FracTo, ExpFrom
  <1>3. IsInt(SubSeq(s, 1, i))
    BY IntToLemma
  <1>4. i < j => IsFrac(SubSeq(s, i + 1, j))
    BY <1>1, FracToLemma
  <1>5. j < Len(s) => IsExp(From(s, j + 1))
    BY <1>1, ExpFromLemma
  <1> QED BY <1>2, <1>3, <1>4, <1>5 DEF IsReal

-----------------------------------------------------------------------------
(* What has been read of a number when the scanner is in one of its modes. *)

NumberShape(m, s) ==
    LET n == Len(s)
    IN  CASE m = "minus" -> n = 1 /\ s[1] = "-"
          [] m = "zero"  -> \E d \in {1, 2} : IntTo(s, d, n) /\ s[d] = "0"
          [] m = "int"   -> \E d \in {1, 2} : IntTo(s, d, n) /\ s[d] # "0"
          [] m = "point" -> s[n] = "." /\ \E d \in {1, 2} : IntTo(s, d, n - 1)
          [] m = "frac"  -> \E d \in {1, 2}, i \in 1..n : IntTo(s, d, i) /\ FracTo(s, i, n)
          [] m = "exp"   -> s[n] \in {"e", "E"} /\ MantissaTo(s, n - 1)
          [] m = "sign"  -> /\ s[n - 1] \in {"e", "E"} /\ s[n] \in {"+", "-"}
                            /\ MantissaTo(s, n - 2)
          [] OTHER       -> \E j \in 1..n : \E e \in 1..n : MantissaTo(s, j) /\ ExpFrom(s, j, e)

-----------------------------------------------------------------------------
(* What has been read of a string: whole characters up to a place, and a   *)
(* part of the next one.                                                   *)

Lead(k) == IF k = 2 THEN "lead2" ELSE IF k = 3 THEN "lead3" ELSE "lead4"
HexMode(k) == IF k = 1 THEN "hex1" ELSE IF k = 2 THEN "hex2" ELSE IF k = 3 THEN "hex3" ELSE "hex4"
ContMode(k) == IF k = 1 THEN "cont1" ELSE IF k = 2 THEN "cont2" ELSE "cont3"

\* The places p+1..q of s are one character of a string.
CharAt(s, p, q, o) ==
    \/ /\ q = p + 1 /\ s[p + 1] \notin Control \cup {"\"", "\\"}
       /\ o.validateUTF8 => s[p + 1] \notin HighByte
    \/ q = p + 2 /\ s[p + 1] = "\\" /\ s[p + 2] \in Escapable
    \/ /\ q = p + 6 /\ s[p + 1] = "\\" /\ s[p + 2] = "u"
       /\ \A i \in p + 3..q : s[i] \in Hex
    \/ /\ o.validateUTF8
       /\ \E k \in 2..4 : q = p + k /\ s[p + 1] = Lead(k) /\ \A i \in p + 2..q : s[i] = "cont"

\* The places behind p are the part of a character read in mode m.
Started(m, s, p, o) ==
    \/ m = "str" /\ Len(s) = p
    \/ m = "esc" /\ Len(s) = p + 1 /\ s[p + 1] = "\\"
    \/ \E k \in 1..4 :
          /\ m = HexMode(k) /\ Len(s) + k = p + 6
          /\ s[p + 1] = "\\" /\ s[p + 2] = "u"
          /\ \A i \in p + 3..Len(s) : s[i] \in Hex
    \/ \E k \in 1..3, b \in 2..4 :
          /\ m = ContMode(k) /\ k < b /\ Len(s) + k = p + b
          /\ o.validateUTF8 /\ s[p + 1] = Lead(b)
          /\ \A i \in p + 2..Len(s) : s[i] = "cont"

\* The places 2..p of s are whole characters of a string.
CutTo(s, p, o) ==
    \E starts \in SUBSET (2..p + 1) :
        /\ 2 \in starts /\ p + 1 \in starts
        /\ \A i \in starts \ {p + 1} :
              \E j \in starts : i < j /\ IsCharacter(SubSeq(s, i, j - 1), o)

\* A quote, whole characters, and the part of one that mode m stands for.
StringShape(m, s, o) ==
    /\ Len(s) >= 1 /\ s[1] = "\""
    /\ \E p \in 1..Len(s) : CutTo(s, p, o) /\ Started(m, s, p, o)

-----------------------------------------------------------------------------
\* What has been read of a keyword.
WordText == [t |-> <<"t">>, tr |-> <<"t", "r">>, tru |-> <<"t", "r", "u">>,
             f |-> <<"f">>, fa |-> <<"f", "a">>, fal |-> <<"f", "a", "l">>,
             fals |-> <<"f", "a", "l", "s">>,
             n |-> <<"n">>, nu |-> <<"n", "u">>, nul |-> <<"n", "u", "l">>]

\* What the pending token looks like in each mode.
Shape(m, s, o) ==
    /\ m = "start" => s = <<>>
    /\ m \in WordModes => s = WordText[m]
    /\ m \in NumberModes => NumberShape(m, s)
    /\ m \in StringModes => StringShape(m, s, o)

\* The inductive invariant.
PendingShape == Shape(ModeAfter(Len(trail)), Pending, opts)
LexemeInv == Inv /\ PendingShape /\ TokensAreLexemes

-----------------------------------------------------------------------------
\* The token under way with the next character behind it.
LEMMA Grows ==
    ASSUME NEW s \in Seq(Char), NEW c \in Char
    PROVE  LET t == Append(s, c)
           IN  /\ t \in Seq(Char) /\ Len(t) = Len(s) + 1 /\ Len(s) \in Nat /\ Len(t) \in Nat
               /\ t[Len(s) + 1] = c /\ \A i \in 1..Len(s) : t[i] = s[i]
  BY AppendProperties, LenProperties

\* What has been read of a number stays what it is.
LEMMA NumberKept ==
    ASSUME NEW s \in Seq(Char), NEW c \in Char
    PROVE  LET t == Append(s, c)
           IN  /\ \A d, i : IntTo(s, d, i) => IntTo(t, d, i) /\ t[d] = s[d]
               /\ \A i \in 1..Len(s) : \A j : FracTo(s, i, j) => FracTo(t, i, j)
               /\ \A j : MantissaTo(s, j) => MantissaTo(t, j)
  <1> DEFINE t == Append(s, c)
  <1>1. /\ t \in Seq(Char) /\ Len(t) = Len(s) + 1 /\ Len(s) \in Nat
        /\ t[Len(s) + 1] = c /\ \A i \in 1..Len(s) : t[i] = s[i]
    BY Grows
  <1> HIDE DEF t
  <1>2. ASSUME NEW d, NEW i, IntTo(s, d, i)
        PROVE  IntTo(t, d, i) /\ t[d] = s[d]
    <2>1. d \in 1..Len(s) /\ 1 \in 1..Len(s) /\ i \in d..Len(t) /\ i \in d..Len(s)
          /\ \A k \in d..i : k \in 1..Len(s)
      BY <1>1, <1>2 DEF IntTo
    <2>2. t[d] = s[d] /\ t[1] = s[1] /\ \A k \in d..i : t[k] = s[k]
      BY <1>1, <2>1
    <2> QED BY <1>2, <2>1, <2>2 DEF IntTo
  <1>3. ASSUME NEW i \in 1..Len(s), NEW j, FracTo(s, i, j)
        PROVE  FracTo(t, i, j)
    <2>1. i + 1 \in 1..Len(s) /\ j \in i + 2..Len(t) /\ \A k \in i + 2..j : k \in 1..Len(s)
      BY <1>1, <1>3 DEF FracTo
    <2>2. t[i + 1] = s[i + 1] /\ \A k \in i + 2..j : t[k] = s[k]
      BY <1>1, <2>1
    <2> QED BY <1>3, <2>1, <2>2 DEF FracTo
  <1>4. ASSUME NEW j, MantissaTo(s, j)
        PROVE  MantissaTo(t, j)
    <2>1. \A i \in 1..Len(s) : i \in 1..Len(t)
      BY <1>1
    <2> QED BY <1>2, <1>3, <1>4, <2>1 DEF MantissaTo
  <1> QED BY <1>2, <1>3, <1>4 DEF t

\* Where a number can go on, and with what.
NumberStep(m, c, to) ==
    \/ m = "minus" /\ c = "0" /\ to = "zero"
    \/ m = "minus" /\ c \in Digit \ {"0"} /\ to = "int"
    \/ m = "int" /\ c \in Digit /\ to = "int"
    \/ m \in {"zero", "int"} /\ c = "." /\ to = "point"
    \/ m \in {"point", "frac"} /\ c \in Digit /\ to = "frac"
    \/ m \in {"zero", "int", "frac"} /\ c \in {"e", "E"} /\ to = "exp"
    \/ m = "exp" /\ c \in {"+", "-"} /\ to = "sign"
    \/ m \in {"exp", "sign", "power"} /\ c \in Digit /\ to = "power"

\* ScanNumber goes on in these ways only.
LEMMA NumberSteps ==
    ASSUME NEW m \in NumberModes, NEW c \in Char, ScanNumber(m, c).tok = "none"
    PROVE  NumberStep(m, c, ScanNumber(m, c).mode)
  <1> USE DEF NumberStep
  <1>1. NumberEnd[m].tok # "none"
    BY Fields DEF NumberEnd, NumberModes
  <1>2. BadBefore("number_with_leading_zero").tok # "none"
    BY Fields
  <1>3. CASE c \in Digit /\ m = "zero"
    <2>1. ScanNumber(m, c) = BadBefore("number_with_leading_zero")
      BY <1>3 DEF ScanNumber, Digit
    <2> QED BY <1>2, <2>1
  <1>4. CASE c = "0" /\ m = "minus"
    <2>1. ScanNumber(m, c) = More("zero")
      BY <1>4 DEF ScanNumber
    <2> QED BY <1>4, <2>1, Fields
  <1>5. CASE c \in Digit /\ m # "zero" /\ ~(c = "0" /\ m = "minus")
    <2>1. ScanNumber(m, c) = More(DigitTo[m])
      BY <1>5 DEF ScanNumber, Digit
    <2>2. ScanNumber(m, c).mode = DigitTo[m]
      BY <2>1, Fields
    <2>3. \/ m = "minus" /\ DigitTo[m] = "int"
          \/ m = "int" /\ DigitTo[m] = "int"
          \/ m \in {"point", "frac"} /\ DigitTo[m] = "frac"
          \/ m \in {"exp", "sign", "power"} /\ DigitTo[m] = "power"
      BY <1>5 DEF DigitTo, NumberModes
    <2> QED BY <1>5, <2>2, <2>3
  <1>6. CASE c = "." /\ m \in {"zero", "int"}
    <2>1. ScanNumber(m, c) = More("point")
      BY <1>6 DEF ScanNumber, Digit
    <2> QED BY <1>6, <2>1, Fields
  <1>7. CASE c \in {"e", "E"} /\ m \in {"zero", "int", "frac"}
    <2>1. ScanNumber(m, c) = More("exp")
      BY <1>7 DEF ScanNumber, Digit
    <2> QED BY <1>7, <2>1, Fields
  <1>8. CASE c \in {"+", "-"} /\ m = "exp"
    <2>1. ScanNumber(m, c) = More("sign")
      BY <1>8 DEF ScanNumber, Digit
    <2> QED BY <1>8, <2>1, Fields
  <1>9. CASE ~(c \in Digit) /\ ~(c = "." /\ m \in {"zero", "int"})
             /\ ~(c \in {"e", "E"} /\ m \in {"zero", "int", "frac"})
             /\ ~(c \in {"+", "-"} /\ m = "exp")
    <2>1. ScanNumber(m, c) = NumberEnd[m]
      BY <1>9 DEF ScanNumber, Digit
    <2> QED BY <1>1, <2>1
  <1> QED BY <1>3, <1>4, <1>5, <1>6, <1>7, <1>8, <1>9

\* Where a number ends, and as what.
LEMMA NumberEnds ==
    ASSUME NEW m \in NumberModes, NEW c \in Char
    PROVE  LET t == ScanNumber(m, c).tok
           IN  /\ t \in {"none", "error", "integer", "double"}
               /\ t # "none" => ScanNumber(m, c).back
               /\ t = "integer" => m \in {"zero", "int"}
               /\ t = "double" => m \in {"frac", "power"}
  <1>1. /\ NumberEnd[m].back /\ NumberEnd[m].tok \in {"error", "integer", "double"}
        /\ NumberEnd[m].tok = "integer" => m \in {"zero", "int"}
        /\ NumberEnd[m].tok = "double" => m \in {"frac", "power"}
    BY Fields DEF NumberEnd, NumberModes
  <1>2. \/ ScanNumber(m, c) = NumberEnd[m]
        \/ \E x : ScanNumber(m, c) = More(x)
        \/ ScanNumber(m, c) = BadBefore("number_with_leading_zero")
    <2> DEFINE Good(r) == \/ r = NumberEnd[m]
                          \/ \E x : r = More(x)
                          \/ r = BadBefore("number_with_leading_zero")
    <2>1. /\ Good(NumberEnd[m]) /\ Good(BadBefore("number_with_leading_zero"))
          /\ \A x : Good(More(x))
      OBVIOUS
    <2> SUFFICES Good(ScanNumber(m, c))
      OBVIOUS
    <2> HIDE DEF Good
    <2> QED BY <2>1 DEF ScanNumber
  <1> QED BY <1>1, <1>2, Fields

\* Every character of a number keeps its shape.
LEMMA NumberGrows ==
    ASSUME NEW m \in NumberModes, NEW s \in Seq(Char), NEW c \in Char,
           NumberShape(m, s), ScanNumber(m, c).tok = "none"
    PROVE  NumberShape(ScanNumber(m, c).mode, Append(s, c))
  <1> DEFINE t == Append(s, c)
             n == Len(s)
             to == ScanNumber(m, c).mode
  <1>1. /\ t \in Seq(Char) /\ Len(t) = n + 1 /\ n \in Nat /\ Len(t) \in Nat
        /\ t[n + 1] = c /\ \A i \in 1..n : t[i] = s[i]
    BY Grows
  <1>2. /\ \A d, i : IntTo(s, d, i) => IntTo(t, d, i) /\ t[d] = s[d]
        /\ \A i \in 1..n : \A j : FracTo(s, i, j) => FracTo(t, i, j)
        /\ \A j : MantissaTo(s, j) => MantissaTo(t, j)
    BY NumberKept
  <1>3. \A d, i : IntTo(s, d, i) => d \in {1, 2} /\ i \in 1..n /\ i \in 1..Len(t) /\ d \in 1..i
    BY <1>1 DEF IntTo
  <1>4. ASSUME NEW j, MantissaTo(s, j)
        PROVE  j \in 1..n /\ j \in 1..Len(t)
    BY <1>1, <1>3, <1>4 DEF MantissaTo, FracTo
  <1> SUFFICES NumberShape(to, t)
    OBVIOUS
  <1> HIDE DEF t, n, to
  <1>5. CASE m = "minus" /\ c = "0" /\ to = "zero"
    <2>1. n = 1 /\ s[1] = "-"
      BY <1>5 DEF NumberShape, n
    <2>2. Len(t) = 2 /\ t[1] = "-" /\ t[2] = "0"
      BY <1>1, <1>5, <2>1
    <2>3. IntTo(t, 2, 2)
      BY <2>2 DEF IntTo, Digit
    <2> QED BY <1>5, <2>2, <2>3 DEF NumberShape
  <1>6. CASE m = "minus" /\ c \in Digit \ {"0"} /\ to = "int"
    <2>1. n = 1 /\ s[1] = "-"
      BY <1>6 DEF NumberShape, n
    <2>2. Len(t) = 2 /\ t[1] = "-" /\ t[2] = c
      BY <1>1, <1>6, <2>1
    <2>3. IntTo(t, 2, 2)
      BY <1>6, <2>2 DEF IntTo
    <2> QED BY <1>6, <2>2, <2>3 DEF NumberShape
  <1>7. CASE m = "int" /\ c \in Digit /\ to = "int"
    <2>1. PICK d \in {1, 2} : IntTo(s, d, n) /\ s[d] # "0"
      BY <1>7 DEF NumberShape, n
    <2>2. IntTo(t, d, n) /\ t[d] = s[d]
      BY <1>2, <2>1
    <2>3. IntTo(t, d, Len(t))
      <3>1. Len(t) \in d..Len(t) /\ \A k \in d..Len(t) : k \in d..n \/ k = n + 1
        BY <1>1, <1>3, <2>1
      <3>2. \A k \in d..Len(t) : t[k] \in Digit
        BY <1>1, <1>7, <2>2, <3>1 DEF IntTo
      <3> QED BY <2>1, <2>2, <3>1, <3>2 DEF IntTo
    <2> QED BY <1>7, <2>1, <2>2, <2>3 DEF NumberShape
  <1>8. CASE m \in {"zero", "int"} /\ c = "." /\ to = "point"
    <2>1. PICK d \in {1, 2} : IntTo(s, d, n)
      BY <1>8 DEF NumberShape, n
    <2>2. Len(t) - 1 = n
      BY <1>1
    <2> QED BY <1>1, <1>2, <1>8, <2>1, <2>2 DEF NumberShape
  <1>9. CASE m = "point" /\ c \in Digit /\ to = "frac"
    <2>1. s[n] = "." /\ \E d \in {1, 2} : IntTo(s, d, n - 1)
      BY <1>9 DEF NumberShape, n
    <2>2. PICK d \in {1, 2} : IntTo(s, d, n - 1)
      BY <2>1
    <2>3. n - 1 \in 1..n /\ n - 1 \in 1..Len(t) /\ IntTo(t, d, n - 1) /\ n \in 1..n
      BY <1>1, <1>2, <1>3, <2>2
    <2>4. FracTo(t, n - 1, Len(t))
      <3>1. /\ Len(t) \in (n - 1) + 2..Len(t) /\ (n - 1) + 1 = n
            /\ \A k \in (n - 1) + 2..Len(t) : k = n + 1
        BY <1>1
      <3>2. t[n] = "."
        BY <1>1, <2>1, <2>3
      <3> QED BY <1>1, <1>9, <3>1, <3>2 DEF FracTo
    <2> QED BY <1>9, <2>3, <2>4 DEF NumberShape
  <1>10. CASE m = "frac" /\ c \in Digit /\ to = "frac"
    <2>1. PICK d \in {1, 2}, i \in 1..n : IntTo(s, d, i) /\ FracTo(s, i, n)
      BY <1>10 DEF NumberShape, n
    <2>2. IntTo(t, d, i) /\ FracTo(t, i, n) /\ i \in 1..Len(t)
      BY <1>2, <1>3, <2>1
    <2>3. FracTo(t, i, Len(t))
      <3>1. Len(t) \in i + 2..Len(t) /\ \A k \in i + 2..Len(t) : k \in i + 2..n \/ k = n + 1
        BY <1>1, <2>1 DEF FracTo
      <3>2. \A k \in i + 2..Len(t) : t[k] \in Digit
        BY <1>1, <1>10, <2>2, <3>1 DEF FracTo
      <3> QED BY <2>2, <3>1, <3>2 DEF FracTo
    <2> QED BY <1>10, <2>2, <2>3 DEF NumberShape
  <1>11. CASE m \in {"zero", "int", "frac"} /\ c \in {"e", "E"} /\ to = "exp"
    <2>1. MantissaTo(s, n)
      <3>1. CASE m \in {"zero", "int"}
        <4>1. PICK d \in {1, 2} : IntTo(s, d, n)
          BY <3>1 DEF NumberShape, n
        <4> QED BY <1>3, <4>1 DEF MantissaTo, n
      <3>2. CASE m = "frac"
        BY <3>2 DEF NumberShape, MantissaTo, n
      <3> QED BY <1>11, <3>1, <3>2
    <2>2. Len(t) - 1 = n
      BY <1>1
    <2> QED BY <1>1, <1>2, <1>11, <2>1, <2>2 DEF NumberShape
  <1>12. CASE m = "exp" /\ c \in {"+", "-"} /\ to = "sign"
    <2>1. s[n] \in {"e", "E"} /\ MantissaTo(s, n - 1)
      BY <1>12 DEF NumberShape, n
    <2>2. n - 1 \in 1..n /\ MantissaTo(t, n - 1)
      BY <1>2, <1>4, <2>1
    <2>3. Len(t) - 1 = n /\ Len(t) - 2 = n - 1 /\ n \in 1..n
      BY <1>1, <2>2
    <2>4. t[n] = s[n]
      BY <1>1, <2>3
    <2> QED BY <1>1, <1>12, <2>1, <2>2, <2>3, <2>4 DEF NumberShape
  <1>13. CASE m \in {"exp", "sign", "power"} /\ c \in Digit /\ to = "power"
    <2> DEFINE Power(j, e) == j \in 1..Len(t) /\ e \in 1..Len(t) /\ MantissaTo(t, j) /\ ExpFrom(t, j, e)
    <2>1. CASE m = "exp"
      <3>1. s[n] \in {"e", "E"} /\ MantissaTo(s, n - 1)
        BY <2>1 DEF NumberShape, n
      <3>2. n - 1 \in 1..n /\ n - 1 \in 1..Len(t) /\ MantissaTo(t, n - 1) /\ n \in 1..n
        BY <1>1, <1>2, <1>4, <3>1
      <3>3. /\ (n - 1) + 1 = n /\ n + 1 = (n - 1) + 2 /\ Len(t) = n + 1
            /\ n + 1 # (n - 1) + 3
            /\ \A k \in n + 1..Len(t) : k = n + 1
            /\ n + 1 \in 1..Len(t)
        BY <1>1
      <3>4. t[n] \in {"e", "E"}
        BY <1>1, <3>1, <3>2
      <3>5. ExpFrom(t, n - 1, n + 1)
        BY <1>1, <1>13, <3>3, <3>4 DEF ExpFrom
      <3> QED BY <1>13, <3>2, <3>3, <3>5 DEF NumberShape
    <2>2. CASE m = "sign"
      <3>1. s[n - 1] \in {"e", "E"} /\ s[n] \in {"+", "-"} /\ MantissaTo(s, n - 2)
        BY <2>2 DEF NumberShape, n
      <3>2. /\ n - 2 \in 1..n /\ n - 2 \in 1..Len(t) /\ MantissaTo(t, n - 2)
            /\ n \in 1..n /\ n - 1 \in 1..n
        BY <1>1, <1>2, <1>4, <3>1
      <3>3. /\ (n - 2) + 1 = n - 1 /\ (n - 2) + 2 = n /\ n + 1 = (n - 2) + 3 /\ Len(t) = n + 1
            /\ \A k \in n + 1..Len(t) : k = n + 1
            /\ n + 1 \in 1..Len(t)
        BY <1>1
      <3>4. t[n - 1] \in {"e", "E"} /\ t[n] \in {"+", "-"}
        BY <1>1, <3>1, <3>2
      <3>5. ExpFrom(t, n - 2, n + 1)
        BY <1>1, <1>13, <3>3, <3>4 DEF ExpFrom
      <3> QED BY <1>13, <3>2, <3>3, <3>5 DEF NumberShape
    <2>3. CASE m = "power"
      <3>1. PICK j \in 1..n, e \in 1..n : MantissaTo(s, j) /\ ExpFrom(s, j, e)
        BY <2>3 DEF NumberShape, n
      <3>2. j \in 1..Len(t) /\ e \in 1..Len(t) /\ MantissaTo(t, j)
        BY <1>1, <1>2, <3>1
      <3>3. /\ j + 1 \in 1..n /\ (e = j + 3 => j + 2 \in 1..n)
            /\ e <= Len(t) /\ \A k \in e..Len(t) : k \in e..n \/ k = n + 1
            /\ \A k \in e..n : k \in 1..n
        BY <1>1, <3>1 DEF ExpFrom, n
      <3>4. \A k \in e..n : t[k] \in Digit
        BY <1>1, <3>1, <3>3 DEF ExpFrom, n
      <3>5. /\ t[j + 1] = s[j + 1]
            /\ e = j + 3 => t[j + 2] = s[j + 2]
            /\ \A k \in e..Len(t) : t[k] \in Digit
        BY <1>1, <1>13, <3>3, <3>4
      <3>6. ExpFrom(t, j, e)
        BY <3>1, <3>3, <3>5 DEF ExpFrom
      <3> QED BY <1>13, <3>2, <3>6 DEF NumberShape
    <2> QED BY <1>13, <2>1, <2>2, <2>3
  <1> QED
    BY <1>5, <1>6, <1>7, <1>8, <1>9, <1>10, <1>11, <1>12, <1>13, NumberSteps DEF to, NumberStep

\* A number that ends is one of JSON's, an integer or another.
LEMMA NumberDone ==
    ASSUME NEW m \in NumberModes, NEW s \in Seq(Char), NumberShape(m, s)
    PROVE  /\ m \in {"zero", "int"} => IsInt(s)
           /\ m \in {"frac", "power"} => IsReal(s)
  <1>1. CASE m \in {"zero", "int"}
    <2>1. PICK d \in {1, 2} : IntTo(s, d, Len(s))
      BY <1>1 DEF NumberShape
    <2> QED BY <1>1, <2>1, IntLemma
  <1>2. CASE m = "frac"
    <2>1. PICK d \in {1, 2}, i \in 1..Len(s) : IntTo(s, d, i) /\ FracTo(s, i, Len(s))
      BY <1>2 DEF NumberShape
    <2>2. Len(s) \in 1..Len(s) /\ i # Len(s)
      BY <2>1, LenProperties DEF FracTo
    <2> QED BY <1>2, <2>1, <2>2, RealLemma
  <1>3. CASE m = "power"
    <2>1. PICK j \in 1..Len(s), e \in 1..Len(s) : MantissaTo(s, j) /\ ExpFrom(s, j, e)
      BY <1>3 DEF NumberShape
    <2>2. PICK d \in {1, 2}, i \in 1..Len(s) : IntTo(s, d, i) /\ (i = j \/ FracTo(s, i, j))
      BY <2>1 DEF MantissaTo
    <2> QED BY <1>3, <2>1, <2>2, RealLemma
  <1> QED BY <1>1, <1>2, <1>3

-----------------------------------------------------------------------------
\* Where a string can go on, and with what.
StringStep(m, c, o, to) ==
    \/ /\ m = "str" /\ c \notin Control \cup {"\"", "\\"} /\ to = "str"
       /\ o.validateUTF8 => c \notin HighByte
    \/ m = "str" /\ c = "\\" /\ to = "esc"
    \/ /\ m = "str" /\ o.validateUTF8
       /\ \E k \in 2..4 : c = Lead(k) /\ to = ContMode(k - 1)
    \/ m = "esc" /\ c \in Escapable /\ to = "str"
    \/ m = "esc" /\ c = "u" /\ to = "hex4"
    \/ c \in Hex /\ \E k \in 2..4 : m = HexMode(k) /\ to = HexMode(k - 1)
    \/ m = "hex1" /\ c \in Hex /\ to = "str"
    \/ c = "cont" /\ \E k \in 2..3 : m = ContMode(k) /\ to = ContMode(k - 1)
    \/ m = "cont1" /\ c = "cont" /\ to = "str"

\* ScanString goes on in these ways only.
LEMMA StringSteps ==
    ASSUME NEW m \in StringModes, NEW c \in Char, NEW o, ScanString(m, c, o).tok = "none"
    PROVE  StringStep(m, c, o, ScanString(m, c, o).mode)
  <1> USE DEF StringStep
  <1> DEFINE r == ScanString(m, c, o)
  <1>1. CASE m = "str"
    <2>1. CASE c = "\""
      <3>1. r = Done("string")
        BY <1>1, <2>1 DEF ScanString, Control, HighByte
      <3>2. Done("string").tok = "string"
        BY Fields
      <3>3. r.tok = "string"
        BY <3>1, <3>2
      <3> QED BY <3>3
    <2>2. CASE c = "\\"
      <3>1. r = More("esc")
        BY <1>1, <2>2 DEF ScanString, Control, HighByte
      <3> QED BY <1>1, <2>2, <3>1, Fields
    <2>3. CASE c \in Control
      <3>1. r = Bad("string_invalid_json_char")
        BY <1>1, <2>3 DEF ScanString, Control, HighByte
      <3> QED BY <3>1, Fields
    <2>4. CASE c \in HighByte /\ o.validateUTF8
      <3>1. c \in {"lead2", "lead3", "lead4"} =>
              r = More([lead2 |-> "cont1", lead3 |-> "cont2", lead4 |-> "cont3"][c])
        BY <1>1, <2>4 DEF ScanString, Control, HighByte
      <3>2. c \notin {"lead2", "lead3", "lead4"} => r = Bad("string_invalid_utf8")
        BY <1>1, <2>4 DEF ScanString, Control, HighByte
      <3>3. c \in {"lead2", "lead3", "lead4"}
        BY <3>2, Fields
      <3>4. r.mode = [lead2 |-> "cont1", lead3 |-> "cont2", lead4 |-> "cont3"][c]
        BY <3>1, <3>3, Fields
      <3>5. \E k \in 2..4 : c = Lead(k) /\ r.mode = ContMode(k - 1)
        <4>1. CASE c = "lead2"
          <5>1. c = Lead(2) /\ r.mode = ContMode(2 - 1)
            BY <3>4, <4>1 DEF Lead, ContMode
          <5> QED BY <5>1
        <4>2. CASE c = "lead3"
          <5>1. c = Lead(3) /\ r.mode = ContMode(3 - 1)
            BY <3>4, <4>2 DEF Lead, ContMode
          <5> QED BY <5>1
        <4>3. CASE c = "lead4"
          <5>1. c = Lead(4) /\ r.mode = ContMode(4 - 1)
            BY <3>4, <4>3 DEF Lead, ContMode
          <5> QED BY <5>1
        <4> QED BY <3>3, <4>1, <4>2, <4>3
      <3> QED BY <1>1, <2>4, <3>5
    <2>5. CASE c \notin Control \cup {"\"", "\\"} /\ ~(c \in HighByte /\ o.validateUTF8)
      <3>1. r = More("str")
        BY <1>1, <2>5 DEF ScanString
      <3> QED BY <1>1, <2>5, <3>1, Fields
    <2> QED BY <2>1, <2>2, <2>3, <2>4, <2>5
  <1>2. CASE m = "esc"
    <2>1. CASE c = "u"
      <3>1. r = More("hex4")
        BY <1>2, <2>1 DEF ScanString, Escapable
      <3> QED BY <1>2, <2>1, <3>1, Fields
    <2>2. CASE c \in Escapable
      <3>1. r = More("str")
        BY <1>2, <2>2 DEF ScanString, Escapable
      <3> QED BY <1>2, <2>2, <3>1, Fields
    <2>3. CASE c \notin Escapable \cup {"u"}
      <3>1. r = Bad("string_invalid_escaped_char")
        BY <1>2, <2>3 DEF ScanString
      <3> QED BY <3>1, Fields
    <2> QED BY <2>1, <2>2, <2>3
  <1>3. CASE m \in {"hex4", "hex3", "hex2", "hex1"}
    <2>1. c \notin Hex => r = BadBefore("string_invalid_hex_char")
      BY <1>3 DEF ScanString
    <2>2. c \in Hex
      BY <2>1, Fields
    <2>3. r = More([hex4 |-> "hex3", hex3 |-> "hex2", hex2 |-> "hex1", hex1 |-> "str"][m])
      BY <1>3, <2>2 DEF ScanString
    <2>4. r.mode = [hex4 |-> "hex3", hex3 |-> "hex2", hex2 |-> "hex1", hex1 |-> "str"][m]
      BY <2>3, Fields
    <2> HIDE DEF r
    <2>5. CASE m = "hex1"
      <3>1. r.mode = "str"
        BY <2>4, <2>5
      <3> QED BY <2>2, <2>5, <3>1 DEF r
    <2>6. CASE m # "hex1"
      <3>1. \/ m = "hex2" /\ r.mode = "hex1"
            \/ m = "hex3" /\ r.mode = "hex2"
            \/ m = "hex4" /\ r.mode = "hex3"
        BY <1>3, <2>4, <2>6
      <3>2. \/ m = HexMode(2) /\ r.mode = HexMode(2 - 1)
            \/ m = HexMode(3) /\ r.mode = HexMode(3 - 1)
            \/ m = HexMode(4) /\ r.mode = HexMode(4 - 1)
        BY <3>1 DEF HexMode
      <3>3. \E k \in 2..4 : m = HexMode(k) /\ r.mode = HexMode(k - 1)
        BY <3>2
      <3> QED BY <2>2, <3>3 DEF r
    <2> QED BY <2>5, <2>6
  <1>4. CASE m \in {"cont3", "cont2", "cont1"}
    <2>1. c # "cont" => r = Bad("string_invalid_utf8")
      BY <1>4 DEF ScanString
    <2>2. c = "cont"
      BY <2>1, Fields
    <2>3. r = More([cont3 |-> "cont2", cont2 |-> "cont1", cont1 |-> "str"][m])
      BY <1>4, <2>2 DEF ScanString
    <2>4. r.mode = [cont3 |-> "cont2", cont2 |-> "cont1", cont1 |-> "str"][m]
      BY <2>3, Fields
    <2> HIDE DEF r
    <2>5. CASE m = "cont1"
      <3>1. r.mode = "str"
        BY <2>4, <2>5
      <3> QED BY <2>2, <2>5, <3>1 DEF r
    <2>6. CASE m # "cont1"
      <3>1. \/ m = "cont2" /\ r.mode = "cont1"
            \/ m = "cont3" /\ r.mode = "cont2"
        BY <1>4, <2>4, <2>6
      <3>2. \/ m = ContMode(2) /\ r.mode = ContMode(2 - 1)
            \/ m = ContMode(3) /\ r.mode = ContMode(3 - 1)
        BY <3>1 DEF ContMode
      <3>3. \E k \in 2..3 : m = ContMode(k) /\ r.mode = ContMode(k - 1)
        BY <3>2
      <3> QED BY <2>2, <3>3 DEF r
    <2> QED BY <2>5, <2>6
  <1> QED BY <1>1, <1>2, <1>3, <1>4 DEF StringModes

\* A string ends with the quote behind a whole character.
LEMMA StringEnds ==
    ASSUME NEW m \in StringModes, NEW c \in Char, NEW o
    PROVE  LET r == ScanString(m, c, o)
           IN  r.tok \in {"none", "error"}
                 \/ (r.tok = "string" /\ ~r.back /\ m = "str" /\ c = "\"")
  <1> DEFINE Good(r) == r.tok \in {"none", "error"}
                         \/ (r.tok = "string" /\ ~r.back /\ m = "str" /\ c = "\"")
  <1>1. \A x : Good(More(x)) /\ Good(Bad(x)) /\ Good(BadBefore(x))
    BY Fields
  <1>2. m = "str" /\ c = "\"" => Good(Done("string"))
    BY Fields
  <1> SUFFICES Good(ScanString(m, c, o))
    OBVIOUS
  <1> HIDE DEF Good
  <1> QED BY <1>1, <1>2, Zenon DEF ScanString, StringModes

-----------------------------------------------------------------------------
\* A part of a sequence with an element more behind it.
LEMMA PartKept ==
    ASSUME NEW S, NEW s \in Seq(S), NEW c \in S, NEW i \in 1..Len(s) + 1, NEW j \in i - 1..Len(s)
    PROVE  SubSeq(Append(s, c), i, j) = SubSeq(s, i, j)
  <1> DEFINE t == Append(s, c)
             a == SubSeq(t, i, j)
             b == SubSeq(s, i, j)
  <1>1. /\ t \in Seq(S) /\ Len(t) = Len(s) + 1 /\ Len(s) \in Nat
        /\ \A k \in 1..Len(s) : t[k] = s[k]
    BY AppendProperties, LenProperties
  <1> HIDE DEF t
  <1>2. b \in Seq(S) /\ Len(b) = j - i + 1 /\ \A k \in 1..j - i + 1 : b[k] = s[i + k - 1]
    BY Piece
  <1>3. i \in 1..Len(t) + 1 /\ j \in i - 1..Len(t)
    BY <1>1
  <1>4. a \in Seq(S) /\ Len(a) = j - i + 1 /\ \A k \in 1..j - i + 1 : a[k] = t[i + k - 1]
    BY <1>1, <1>3, Piece
  <1>5. \A k \in 1..j - i + 1 : i + k - 1 \in 1..Len(s)
    BY <1>1
  <1>6. \A k \in 1..j - i + 1 : a[k] = b[k]
    BY <1>1, <1>2, <1>4, <1>5
  <1> HIDE DEF a, b
  <1>7. a = b
    BY <1>2, <1>4, <1>6, SeqEqual
  <1> QED BY <1>7 DEF a, b, t

\* Such places are one character of a string of JSON.
LEMMA CharLemma ==
    ASSUME NEW s \in Seq(Char), NEW p \in Nat, NEW q \in p + 1..Len(s), NEW o,
           CharAt(s, p, q, o)
    PROVE  IsCharacter(SubSeq(s, p + 1, q), o)
  <1> DEFINE u == SubSeq(s, p + 1, q)
  <1>1. Len(s) \in Nat /\ q \in Nat /\ p + 1 \in 1..Len(s) + 1 /\ q \in (p + 1) - 1..Len(s)
    BY LenProperties
  <1>2. /\ u \in Seq(Char) /\ Len(u) = q - (p + 1) + 1
        /\ \A k \in 1..q - (p + 1) + 1 : u[k] = s[(p + 1) + k - 1]
    BY <1>1, Piece
  <1>3. q - (p + 1) + 1 = q - p /\ \A k \in 1..q - p : (p + 1) + k - 1 = p + k
    BY <1>1
  <1>4. Len(u) = q - p /\ \A k \in 1..q - p : u[k] = s[p + k]
    BY <1>1, <1>2, <1>3
  <1>5. ASSUME NEW i \in 1..Len(u), NEW v, v = From(u, i)
        PROVE  \A k \in 1..Len(v) : i + k - 1 \in i..q - p /\ v[k] = s[p + (i + k - 1)]
    <2>1. Len(u) \in Nat /\ i \in 1..Len(u) + 1 /\ Len(u) \in i - 1..Len(u)
      BY <1>1, <1>4
    <2>2. Len(v) = Len(u) - i + 1 /\ \A k \in 1..Len(u) - i + 1 : v[k] = u[i + k - 1]
      BY <1>2, <1>5, <2>1, Piece DEF From
    <2>3. \A k \in 1..Len(v) : i + k - 1 \in 1..q - p /\ i + k - 1 \in i..q - p
      BY <1>1, <1>4, <2>1, <2>2
    <2> HIDE DEF u
    <2> QED BY <1>4, <2>2, <2>3
  <1> SUFFICES IsCharacter(u, o)
    OBVIOUS
  <1> HIDE DEF u
  <1>6. CASE q = p + 1 /\ s[p + 1] \notin Control \cup {"\"", "\\"}
             /\ (o.validateUTF8 => s[p + 1] \notin HighByte)
    <2>1. Len(u) = 1 /\ u[1] = s[p + 1]
      <3>1. q = p + 1
        BY <1>6, Zenon
      <3>2. q - p = 1 /\ 1 \in 1..q - p
        BY <3>1
      <3> QED BY <1>4, <3>2
    <2> QED BY <1>6, <2>1 DEF IsCharacter
  <1>7. CASE q = p + 2 /\ s[p + 1] = "\\" /\ s[p + 2] \in Escapable
    <2>1. Len(u) = 2 /\ u[1] = s[p + 1] /\ u[2] = s[p + 2]
      BY <1>1, <1>4, <1>7
    <2> QED BY <1>7, <2>1 DEF IsCharacter
  <1>8. CASE /\ q = p + 6 /\ s[p + 1] = "\\" /\ s[p + 2] = "u"
             /\ \A i \in p + 3..q : s[i] \in Hex
    <2>1. Len(u) = 6 /\ u[1] = s[p + 1] /\ u[2] = s[p + 2] /\ 3 \in 1..Len(u)
      BY <1>1, <1>4, <1>8
    <2>2. \A k \in 1..Len(From(u, 3)) : 3 + k - 1 \in 3..q - p
                                        /\ From(u, 3)[k] = s[p + (3 + k - 1)]
      BY <1>5, <2>1
    <2>3. \A x \in 3..q - p : p + x \in p + 3..q
      BY <1>1
    <2>4. AllIn(From(u, 3), Hex)
      BY <1>8, <2>2, <2>3 DEF AllIn
    <2> QED BY <1>8, <2>1, <2>4 DEF IsCharacter
  <1>9. CASE /\ o.validateUTF8
             /\ \E k \in 2..4 : q = p + k /\ s[p + 1] = Lead(k) /\ \A i \in p + 2..q : s[i] = "cont"
    <2>1. PICK k \in 2..4 : q = p + k /\ s[p + 1] = Lead(k) /\ \A i \in p + 2..q : s[i] = "cont"
      BY <1>9
    <2>2. Len(u) = k /\ u[1] = Lead(k) /\ 2 \in 1..Len(u) /\ u # <<>>
      <3>1. Len(u) = k /\ 1 \in 1..q - p /\ 2 \in 1..Len(u)
        BY <1>1, <1>4, <2>1
      <3> QED BY <1>4, <2>1, <3>1, EmptySeq
    <2>3. \A x \in 1..Len(From(u, 2)) : 2 + x - 1 \in 2..q - p
                                        /\ From(u, 2)[x] = s[p + (2 + x - 1)]
      BY <1>5, <2>2
    <2>4. \A x \in 2..q - p : p + x \in p + 2..q
      BY <1>1
    <2>5. AllIn(From(u, 2), {"cont"})
      BY <2>1, <2>3, <2>4 DEF AllIn
    <2>6. Len(u) = CASE u[1] = "lead2" -> 2 [] u[1] = "lead3" -> 3
                     [] u[1] = "lead4" -> 4 [] OTHER -> 0
      BY <2>2 DEF Lead
    <2> QED BY <1>9, <2>2, <2>5, <2>6 DEF IsCharacter
  <1> QED BY <1>6, <1>7, <1>8, <1>9 DEF CharAt

\* One character more, whole.
LEMMA CutGrows ==
    ASSUME NEW s \in Seq(Char), NEW p \in 1..Len(s), NEW o, CutTo(s, p, o),
           NEW c \in Char
    PROVE  /\ CutTo(Append(s, c), p, o)
           /\ CharAt(Append(s, c), p, Len(s) + 1, o) => CutTo(Append(s, c), Len(s) + 1, o)
  <1> DEFINE t == Append(s, c)
             n == Len(s)
  <1>1. /\ t \in Seq(Char) /\ Len(t) = n + 1 /\ n \in Nat
    BY Grows
  <1>2. PICK starts \in SUBSET (2..p + 1) :
           /\ 2 \in starts /\ p + 1 \in starts
           /\ \A i \in starts \ {p + 1} :
                 \E j \in starts : i < j /\ IsCharacter(SubSeq(s, i, j - 1), o)
    BY DEF CutTo
  <1>3. ASSUME NEW i \in starts, NEW j \in starts, i < j
        PROVE  SubSeq(t, i, j - 1) = SubSeq(s, i, j - 1)
    <2>1. i \in 1..Len(s) + 1 /\ j - 1 \in i - 1..Len(s)
      BY <1>1, <1>2, <1>3
    <2> QED BY <2>1, PartKept
  <1>4. \A i \in starts \ {p + 1} :
           \E j \in starts : i < j /\ IsCharacter(SubSeq(t, i, j - 1), o)
    BY <1>2, <1>3
  <1>5. CutTo(t, p, o)
    BY <1>2, <1>4 DEF CutTo
  <1>6. ASSUME CharAt(t, p, n + 1, o)
        PROVE  CutTo(t, n + 1, o)
    <2> DEFINE more == starts \cup {n + 2}
    <2>1. more \in SUBSET (2..(n + 1) + 1) /\ 2 \in more /\ (n + 1) + 1 \in more
      <3>1. n \in Nat /\ (n + 1) + 1 = n + 2 /\ n + 2 \in 2..n + 2
        BY <1>1
      <3>2. \A i \in 2..p + 1 : i \in 2..n + 2
        BY <1>1
      <3> QED BY <1>2, <3>1, <3>2
    <2>2. IsCharacter(SubSeq(t, p + 1, n + 1), o)
      <3>1. p \in Nat /\ n + 1 \in p + 1..Len(t)
        BY <1>1
      <3> QED BY <1>1, <1>6, <3>1, CharLemma
    <2>3. ASSUME NEW i \in more \ {(n + 1) + 1}
          PROVE  \E j \in more : i < j /\ IsCharacter(SubSeq(t, i, j - 1), o)
      <3>1. CASE i = p + 1
        <4>1. n + 2 \in more /\ i < n + 2 /\ (n + 2) - 1 = n + 1
          BY <1>1, <3>1
        <4> QED BY <2>2, <3>1, <4>1
      <3>2. CASE i # p + 1
        <4>1. i \in starts \ {p + 1}
          BY <1>1, <2>3, <3>2
        <4> QED BY <1>4, <4>1
      <3> QED BY <3>1, <3>2
    <2> HIDE DEF more
    <2> QED BY <2>1, <2>3 DEF CutTo
  <1> QED BY <1>5, <1>6

\* Which part of a character has been read in which mode.
LEMMA StartedLemma ==
    ASSUME NEW m, NEW s, NEW p, NEW o, Started(m, s, p, o)
    PROVE  /\ m = "str" => Len(s) = p
           /\ m = "esc" => Len(s) = p + 1 /\ s[p + 1] = "\\"
           /\ \A k \in 1..4 : m = HexMode(k) =>
                 /\ Len(s) + k = p + 6 /\ s[p + 1] = "\\" /\ s[p + 2] = "u"
                 /\ \A i \in p + 3..Len(s) : s[i] \in Hex
           /\ \A k \in 1..3 : m = ContMode(k) =>
                 \E b \in 2..4 : /\ k < b /\ Len(s) + k = p + b
                                 /\ o.validateUTF8 /\ s[p + 1] = Lead(b)
                                 /\ \A i \in p + 2..Len(s) : s[i] = "cont"
  <1>1. /\ \A k \in 1..4 : /\ HexMode(k) \in {"hex1", "hex2", "hex3", "hex4"}
                           /\ \A l \in 1..4 : HexMode(k) = HexMode(l) => k = l
        /\ \A k \in 1..3 : /\ ContMode(k) \in {"cont1", "cont2", "cont3"}
                           /\ \A l \in 1..3 : ContMode(k) = ContMode(l) => k = l
    BY DEF HexMode, ContMode
  <1>2. \A k \in 1..4 : \A l \in 1..3 : HexMode(k) # ContMode(l)
    BY <1>1
  <1>3. /\ \A k \in 1..4 : HexMode(k) \notin {"str", "esc"}
        /\ \A k \in 1..3 : ContMode(k) \notin {"str", "esc"}
    BY <1>1
  <1>4. CASE m = "str" /\ Len(s) = p
    BY <1>3, <1>4
  <1>5. CASE m = "esc" /\ Len(s) = p + 1 /\ s[p + 1] = "\\"
    BY <1>3, <1>5
  <1>6. CASE \E k \in 1..4 :
                /\ m = HexMode(k) /\ Len(s) + k = p + 6
                /\ s[p + 1] = "\\" /\ s[p + 2] = "u"
                /\ \A i \in p + 3..Len(s) : s[i] \in Hex
    <2>1. PICK k \in 1..4 :
                /\ m = HexMode(k) /\ Len(s) + k = p + 6
                /\ s[p + 1] = "\\" /\ s[p + 2] = "u"
                /\ \A i \in p + 3..Len(s) : s[i] \in Hex
      BY <1>6
    <2>2. \A l \in 1..4 : m = HexMode(l) => l = k
      BY <1>1, <2>1
    <2>3. m \notin {"str", "esc"} /\ \A l \in 1..3 : m # ContMode(l)
      BY <1>2, <1>3, <2>1
    <2> HIDE DEF HexMode, ContMode
    <2> QED BY <2>1, <2>2, <2>3, Zenon
  <1>7. CASE \E k \in 1..3, b \in 2..4 :
                /\ m = ContMode(k) /\ k < b /\ Len(s) + k = p + b
                /\ o.validateUTF8 /\ s[p + 1] = Lead(b)
                /\ \A i \in p + 2..Len(s) : s[i] = "cont"
    <2>1. PICK k \in 1..3, b \in 2..4 :
                /\ m = ContMode(k) /\ k < b /\ Len(s) + k = p + b
                /\ o.validateUTF8 /\ s[p + 1] = Lead(b)
                /\ \A i \in p + 2..Len(s) : s[i] = "cont"
      BY <1>7
    <2>2. \A l \in 1..3 : m = ContMode(l) => l = k
      BY <1>1, <2>1
    <2>3. m \notin {"str", "esc"} /\ \A l \in 1..4 : m # HexMode(l)
      BY <1>2, <1>3, <2>1
    <2> QED BY <2>1, <2>2, <2>3, Zenon
  <1> QED BY <1>4, <1>5, <1>6, <1>7 DEF Started

\* Every character of a string keeps its shape.
LEMMA StringGrows ==
    ASSUME NEW m \in StringModes, NEW s \in Seq(Char), NEW c \in Char, NEW o,
           StringShape(m, s, o), ScanString(m, c, o).tok = "none"
    PROVE  StringShape(ScanString(m, c, o).mode, Append(s, c), o)
  <1> DEFINE t == Append(s, c)
             n == Len(s)
             to == ScanString(m, c, o).mode
  <1>1. /\ t \in Seq(Char) /\ Len(t) = n + 1 /\ n \in Nat /\ Len(t) \in Nat
        /\ t[n + 1] = c /\ \A i \in 1..n : t[i] = s[i]
    BY Grows
  <1>2. s[1] = "\"" /\ 1 \in 1..n
    <2>1. s[1] = "\""
      BY Zenon DEF StringShape
    <2>2. Len(s) >= 1
      BY Zenon DEF StringShape
    <2>3. Len(s) \in Nat
      BY LenProperties
    <2>4. 1 \in 1..Len(s)
      BY <2>2, <2>3
    <2> QED BY <2>1, <2>4
  <1>3. PICK p \in 1..n : CutTo(s, p, o) /\ Started(m, s, p, o)
    BY DEF StringShape
  <1>4. CutTo(t, p, o) /\ (CharAt(t, p, n + 1, o) => CutTo(t, n + 1, o))
    BY <1>3, CutGrows
  <1>5. p \in Nat /\ p \in 1..Len(t) /\ n + 1 \in 1..Len(t) /\ Len(t) >= 1
    BY <1>1
  <1> SUFFICES StringShape(to, t, o)
    OBVIOUS
  <1> HIDE DEF t, n, to
  <1>6. t[1] = "\""
    BY <1>1, <1>2
  <1>7. ASSUME to = "str", CharAt(t, p, n + 1, o)
        PROVE  StringShape(to, t, o)
    <2>1. Started(to, t, n + 1, o)
      BY <1>1, <1>7 DEF Started
    <2> QED BY <1>4, <1>5, <1>6, <1>7, <2>1 DEF StringShape
  <1>8. ASSUME Started(to, t, p, o)
        PROVE  StringShape(to, t, o)
    BY <1>4, <1>5, <1>6, <1>8 DEF StringShape
  <1>9. CASE /\ m = "str" /\ c \notin Control \cup {"\"", "\\"} /\ to = "str"
             /\ o.validateUTF8 => c \notin HighByte
    <2>1. n = p
      <3>1. m = "str"
        BY <1>9, Zenon
      <3> QED BY <1>3, <3>1, StartedLemma DEF n
    <2>2. CharAt(t, p, n + 1, o)
      BY <1>1, <1>9, <2>1, Zenon DEF CharAt
    <2> QED BY <1>7, <1>9, <2>2
  <1>10. CASE m = "str" /\ c = "\\" /\ to = "esc"
    <2>1. n = p
      BY <1>3, <1>10, StartedLemma DEF n
    <2> QED BY <1>1, <1>8, <1>10, <2>1 DEF Started
  <1>11. CASE /\ m = "str" /\ o.validateUTF8
              /\ \E k \in 2..4 : c = Lead(k) /\ to = ContMode(k - 1)
    <2>1. n = p
      BY <1>3, <1>11, StartedLemma DEF n
    <2>2. PICK b \in 2..4 : c = Lead(b) /\ to = ContMode(b - 1)
      BY <1>11
    <2>3. b - 1 \in 1..3 /\ b - 1 < b /\ Len(t) + (b - 1) = p + b
          /\ \A i \in p + 2..Len(t) : FALSE
      BY <1>1, <2>1
    <2>4. t[p + 1] = Lead(b)
      BY <1>1, <2>1, <2>2
    <2> QED BY <1>8, <1>11, <2>2, <2>3, <2>4 DEF Started
  <1>12. CASE m = "esc" /\ c \in Escapable /\ to = "str"
    <2>1. n = p + 1 /\ s[p + 1] = "\\"
      BY <1>3, <1>12, StartedLemma DEF n
    <2>2. n + 1 = p + 2 /\ p + 1 \in 1..n
      BY <1>1, <2>1
    <2>3. CharAt(t, p, n + 1, o)
      BY <1>1, <1>12, <2>1, <2>2 DEF CharAt
    <2> QED BY <1>7, <1>12, <2>3
  <1>13. CASE m = "esc" /\ c = "u" /\ to = "hex4"
    <2>1. n = p + 1 /\ s[p + 1] = "\\"
      BY <1>3, <1>13, StartedLemma DEF n
    <2>2. n + 1 = p + 2 /\ p + 1 \in 1..n /\ Len(t) + 4 = p + 6
          /\ \A i \in p + 3..Len(t) : FALSE
      BY <1>1, <2>1
    <2>3. t[p + 1] = "\\" /\ t[p + 2] = "u"
      BY <1>1, <1>13, <2>1, <2>2
    <2>4. to = HexMode(4) /\ 4 \in 1..4
      BY <1>13 DEF HexMode
    <2> QED BY <1>8, <2>2, <2>3, <2>4 DEF Started
  <1>14. ASSUME NEW k \in 1..4, m = HexMode(k), c \in Hex
         PROVE  /\ Len(t) + (k - 1) = p + 6 /\ t[p + 1] = "\\" /\ t[p + 2] = "u"
                /\ \A i \in p + 3..Len(t) : t[i] \in Hex
    <2>1. /\ n + k = p + 6 /\ s[p + 1] = "\\" /\ s[p + 2] = "u"
          /\ \A i \in p + 3..n : s[i] \in Hex
      BY <1>3, <1>14, StartedLemma DEF n
    <2>2. /\ p + 1 \in 1..n /\ p + 2 \in 1..n /\ Len(t) + (k - 1) = p + 6
          /\ \A i \in p + 3..Len(t) : (i \in p + 3..n /\ i \in 1..n) \/ i = n + 1
      BY <1>1, <2>1
    <2> QED BY <1>1, <1>14, <2>1, <2>2
  <1>15. CASE c \in Hex /\ \E k \in 2..4 : m = HexMode(k) /\ to = HexMode(k - 1)
    <2>1. PICK k \in 2..4 : m = HexMode(k) /\ to = HexMode(k - 1)
      BY <1>15
    <2>2. k \in 1..4 /\ k - 1 \in 1..4
      OBVIOUS
    <2> QED BY <1>8, <1>14, <1>15, <2>1, <2>2 DEF Started
  <1>16. CASE m = "hex1" /\ c \in Hex /\ to = "str"
    <2>1. m = HexMode(1) /\ 1 \in 1..4
      BY <1>16 DEF HexMode
    <2>2. /\ Len(t) + (1 - 1) = p + 6 /\ t[p + 1] = "\\" /\ t[p + 2] = "u"
          /\ \A i \in p + 3..Len(t) : t[i] \in Hex
      BY <1>14, <1>16, <2>1
    <2>3. n + 1 = p + 6 /\ Len(t) = n + 1
      BY <1>1, <2>2
    <2>4. CharAt(t, p, n + 1, o)
      BY <2>2, <2>3 DEF CharAt
    <2> QED BY <1>7, <1>16, <2>4
  <1>17. ASSUME NEW k \in 1..3, m = ContMode(k), c = "cont"
         PROVE  \E b \in 2..4 :
                   /\ k < b /\ Len(t) + (k - 1) = p + b /\ o.validateUTF8 /\ t[p + 1] = Lead(b)
                   /\ \A i \in p + 2..Len(t) : t[i] = "cont"
    <2>1. PICK b \in 2..4 : /\ k < b /\ n + k = p + b
                            /\ o.validateUTF8 /\ s[p + 1] = Lead(b)
                            /\ \A i \in p + 2..n : s[i] = "cont"
      BY <1>3, <1>17, StartedLemma DEF n
    <2>2. /\ p + 1 \in 1..n /\ Len(t) + (k - 1) = p + b
          /\ \A i \in p + 2..Len(t) : (i \in p + 2..n /\ i \in 1..n) \/ i = n + 1
      BY <1>1, <2>1
    <2>3. t[p + 1] = Lead(b) /\ \A i \in p + 2..Len(t) : t[i] = "cont"
      BY <1>1, <1>17, <2>1, <2>2
    <2> QED BY <2>1, <2>2, <2>3
  <1>18. CASE c = "cont" /\ \E k \in 2..3 : m = ContMode(k) /\ to = ContMode(k - 1)
    <2>1. PICK k \in 2..3 : m = ContMode(k) /\ to = ContMode(k - 1)
      BY <1>18
    <2>2. PICK b \in 2..4 :
             /\ k < b /\ Len(t) + (k - 1) = p + b /\ o.validateUTF8 /\ t[p + 1] = Lead(b)
             /\ \A i \in p + 2..Len(t) : t[i] = "cont"
      BY <1>17, <1>18, <2>1
    <2>3. k - 1 \in 1..3 /\ k - 1 < b
      BY <2>2
    <2> QED BY <1>8, <2>1, <2>2, <2>3 DEF Started
  <1>19. CASE m = "cont1" /\ c = "cont" /\ to = "str"
    <2>1. m = ContMode(1) /\ 1 \in 1..3
      BY <1>19 DEF ContMode
    <2>2. PICK b \in 2..4 :
             /\ 1 < b /\ Len(t) + (1 - 1) = p + b /\ o.validateUTF8 /\ t[p + 1] = Lead(b)
             /\ \A i \in p + 2..Len(t) : t[i] = "cont"
      BY <1>17, <1>19, <2>1
    <2>3. n + 1 = p + b /\ Len(t) = n + 1
      BY <1>1, <2>2
    <2>4. CharAt(t, p, n + 1, o)
      BY <2>2, <2>3 DEF CharAt
    <2> QED BY <1>7, <1>19, <2>4
  <1>20. StringStep(m, c, o, to)
    BY StringSteps DEF to
  <1> QED
    BY <1>9, <1>10, <1>11, <1>12, <1>13, <1>15, <1>16, <1>18, <1>19, <1>20, Zenon
       DEF StringStep

\* A part of what stands between the quotes, as a part of the whole.
LEMMA InnerPart ==
    ASSUME NEW S, NEW s \in Seq(S), NEW n \in 1..Len(s), NEW i \in 1..n, NEW j \in i - 1..n - 1
    PROVE  SubSeq(SubSeq(s, 2, n), i, j) = SubSeq(s, i + 1, j + 1)
  <1> DEFINE b == SubSeq(s, 2, n)
             u == SubSeq(b, i, j)
             v == SubSeq(s, i + 1, j + 1)
  <1>1. Len(s) \in Nat /\ 2 \in 1..Len(s) + 1 /\ n \in 2 - 1..Len(s) /\ n \in Nat
    BY LenProperties
  <1>2. b \in Seq(S) /\ Len(b) = n - 2 + 1 /\ \A k \in 1..n - 2 + 1 : b[k] = s[2 + k - 1]
    BY <1>1, Piece
  <1>3. Len(b) = n - 1 /\ \A k \in 1..n - 1 : b[k] = s[k + 1]
    BY <1>1, <1>2
  <1> HIDE DEF b
  <1>4. i \in 1..Len(b) + 1 /\ j \in i - 1..Len(b)
    BY <1>1, <1>3
  <1>5. u \in Seq(S) /\ Len(u) = j - i + 1 /\ \A k \in 1..j - i + 1 : u[k] = b[i + k - 1]
    BY <1>2, <1>4, Piece
  <1>6. i + 1 \in 1..Len(s) + 1 /\ j + 1 \in (i + 1) - 1..Len(s) /\ (j + 1) - (i + 1) + 1 = j - i + 1
    BY <1>1
  <1>7. v \in Seq(S) /\ Len(v) = j - i + 1 /\ \A k \in 1..j - i + 1 : v[k] = s[(i + 1) + k - 1]
    BY <1>6, Piece
  <1>8. \A k \in 1..j - i + 1 : i + k - 1 \in 1..n - 1 /\ (i + k - 1) + 1 = (i + 1) + k - 1
    BY <1>1
  <1>9. \A k \in 1..j - i + 1 : u[k] = v[k]
    BY <1>3, <1>5, <1>7, <1>8
  <1> HIDE DEF u, v
  <1>10. u = v
    BY <1>5, <1>7, <1>9, SeqEqual
  <1> QED BY <1>10 DEF u, v, b

\* What stands between the quotes of a string that ends is whole characters.
LEMMA BodyLemma ==
    ASSUME NEW s \in Seq(Char), NEW o, Len(s) >= 1, CutTo(s, Len(s), o)
    PROVE  IsStringBody(SubSeq(s, 2, Len(s)), o)
  <1> DEFINE n == Len(s)
             b == SubSeq(s, 2, n)
  <1>1. n \in Nat /\ n \in 1..Len(s) /\ 2 \in 1..Len(s) + 1 /\ n \in 2 - 1..Len(s)
    BY LenProperties
  <1>2. Len(b) = n - 2 + 1
    BY <1>1, Piece
  <1>3. Len(b) = n - 1 /\ Len(b) + 1 = n
    BY <1>1, <1>2
  <1>4. PICK starts \in SUBSET (2..n + 1) :
           /\ 2 \in starts /\ n + 1 \in starts
           /\ \A i \in starts \ {n + 1} :
                 \E j \in starts : i < j /\ IsCharacter(SubSeq(s, i, j - 1), o)
    BY DEF CutTo
  <1> DEFINE inner == {i \in 2..n - 1 : i + 1 \in starts}
             cuts == inner \cup {1, n}
  <1>5. \A i \in cuts : i \in 1..n /\ i + 1 \in starts
    BY <1>1, <1>4
  <1>6. \A j \in starts : j - 1 \in cuts
    <2> SUFFICES ASSUME NEW j \in starts PROVE j - 1 \in cuts
      OBVIOUS
    <2>1. j \in 2..n + 1
      BY <1>4
    <2>2. (j - 1) + 1 = j /\ (j - 1 \in 2..n - 1 \/ j - 1 = 1 \/ j - 1 = n)
      BY <1>1, <2>1
    <2> QED BY <2>2
  <1> SUFFICES IsStringBody(b, o)
    OBVIOUS
  <1>7. ASSUME NEW i \in cuts \ {n}
        PROVE  \E j \in cuts : i < j /\ IsCharacter(SubSeq(b, i, j - 1), o)
    <2>1. i + 1 \in starts \ {n + 1} /\ i \in 1..n
      BY <1>1, <1>5, <1>7
    <2>2. PICK j \in starts : i + 1 < j /\ IsCharacter(SubSeq(s, i + 1, j - 1), o)
      BY <1>4, <2>1
    <2>3. j \in 2..n + 1
      BY <1>4
    <2>4. i < j - 1 /\ (j - 1) - 1 \in i - 1..n - 1 /\ ((j - 1) - 1) + 1 = j - 1
      BY <1>1, <2>1, <2>2, <2>3
    <2>5. SubSeq(b, i, (j - 1) - 1) = SubSeq(s, i + 1, ((j - 1) - 1) + 1)
      BY <1>1, <2>1, <2>4, InnerPart
    <2>6. j - 1 \in cuts
      BY <1>6
    <2> HIDE DEF cuts, b
    <2> QED BY <2>2, <2>4, <2>5, <2>6
  <1>8. inner \in SUBSET (2..Len(b))
    BY <1>1, <1>3
  <1>9. inner \cup {1, Len(b) + 1} = cuts
    BY <1>3
  <1> HIDE DEF inner, b
  <1> QED BY <1>3, <1>7, <1>8, <1>9 DEF IsStringBody

-----------------------------------------------------------------------------
\* A sequence that is another and one element more.
LEMMA Spelt ==
    ASSUME NEW S, NEW s \in Seq(S), NEW t \in Seq(S), Len(t) = Len(s) + 1,
           \A i \in 1..Len(s) : t[i] = s[i]
    PROVE  Append(s, t[Len(t)]) = t
  <1>1. Len(t) \in Nat /\ Len(s) \in Nat /\ Len(t) \in 1..Len(t)
    BY LenProperties
  <1>2. t[Len(t)] \in S
    BY <1>1, ElementOfSeq
  <1> DEFINE u == Append(s, t[Len(t)])
  <1>3. u \in Seq(S) /\ Len(u) = Len(s) + 1 /\ u[Len(s) + 1] = t[Len(t)]
        /\ \A i \in 1..Len(s) : u[i] = s[i]
    BY <1>2, AppendProperties
  <1> HIDE DEF u
  <1>4. \A i \in 1..Len(t) : i \in 1..Len(s) \/ i = Len(s) + 1
    BY <1>1
  <1>5. \A i \in 1..Len(t) : u[i] = t[i]
    BY <1>3, <1>4
  <1>6. u = t
    BY <1>3, <1>5, SeqEqual
  <1> QED BY <1>6 DEF u

\* A letter behind one, two, three or four.
LEMMA Tuples ==
    /\ \A a, b : Append(<<a>>, b) = <<a, b>>
    /\ \A a, b, c : Append(<<a, b>>, c) = <<a, b, c>>
    /\ \A a, b, c, d : Append(<<a, b, c>>, d) = <<a, b, c, d>>
    /\ \A a, b, c, d, e : Append(<<a, b, c, d>>, e) = <<a, b, c, d, e>>
  <1>1. ASSUME NEW a, NEW b
        PROVE  Append(<<a>>, b) = <<a, b>>
    <2> DEFINE S == {a, b}
               s == <<a>>
               t == <<a, b>>
    <2>1. s \in Seq(S) /\ t \in Seq(S) /\ Len(s) = 1 /\ Len(t) = 2 /\ t[2] = b
      OBVIOUS
    <2>2. \A i \in 1..1 : t[i] = s[i]
      OBVIOUS
    <2> HIDE DEF S, s, t
    <2>3. Len(t) = Len(s) + 1 /\ \A i \in 1..Len(s) : t[i] = s[i]
      BY <2>1, <2>2
    <2>4. Append(s, t[Len(t)]) = t
      BY <2>1, <2>3, Spelt, Zenon
    <2> QED BY <2>1, <2>4 DEF s, t
  <1>2. ASSUME NEW a, NEW b, NEW c
        PROVE  Append(<<a, b>>, c) = <<a, b, c>>
    <2> DEFINE S == {a, b, c}
               s == <<a, b>>
               t == <<a, b, c>>
    <2>1. s \in Seq(S) /\ t \in Seq(S) /\ Len(s) = 2 /\ Len(t) = 3 /\ t[3] = c
      OBVIOUS
    <2>2. \A i \in 1..2 : t[i] = s[i]
      OBVIOUS
    <2> HIDE DEF S, s, t
    <2>3. Len(t) = Len(s) + 1 /\ \A i \in 1..Len(s) : t[i] = s[i]
      BY <2>1, <2>2
    <2>4. Append(s, t[Len(t)]) = t
      BY <2>1, <2>3, Spelt, Zenon
    <2> QED BY <2>1, <2>4 DEF s, t
  <1>3. ASSUME NEW a, NEW b, NEW c, NEW d
        PROVE  Append(<<a, b, c>>, d) = <<a, b, c, d>>
    <2> DEFINE S == {a, b, c, d}
               s == <<a, b, c>>
               t == <<a, b, c, d>>
    <2>1. s \in Seq(S) /\ t \in Seq(S) /\ Len(s) = 3 /\ Len(t) = 4 /\ t[4] = d
      OBVIOUS
    <2>2. \A i \in 1..3 : t[i] = s[i]
      OBVIOUS
    <2> HIDE DEF S, s, t
    <2>3. Len(t) = Len(s) + 1 /\ \A i \in 1..Len(s) : t[i] = s[i]
      BY <2>1, <2>2
    <2>4. Append(s, t[Len(t)]) = t
      BY <2>1, <2>3, Spelt, Zenon
    <2> QED BY <2>1, <2>4 DEF s, t
  <1>4. ASSUME NEW a, NEW b, NEW c, NEW d, NEW e
        PROVE  Append(<<a, b, c, d>>, e) = <<a, b, c, d, e>>
    <2> DEFINE S == {a, b, c, d, e}
               s == <<a, b, c, d>>
               t == <<a, b, c, d, e>>
    <2>1. s \in Seq(S) /\ t \in Seq(S) /\ Len(s) = 4 /\ Len(t) = 5 /\ t[5] = e
      OBVIOUS
    <2>2. \A i \in 1..4 : t[i] = s[i]
      OBVIOUS
    <2> HIDE DEF S, s, t
    <2>3. Len(t) = Len(s) + 1 /\ \A i \in 1..Len(s) : t[i] = s[i]
      BY <2>1, <2>2
    <2>4. Append(s, t[Len(t)]) = t
      BY <2>1, <2>3, Spelt, Zenon
    <2> QED BY <2>1, <2>4 DEF s, t
  <1> QED BY <1>1, <1>2, <1>3, <1>4, Zenon

\* The letters of true, false and null, one by one.
LEMMA Letters ==
    /\ Append(<<"t">>, "r") = <<"t", "r">>
    /\ Append(<<"t", "r">>, "u") = <<"t", "r", "u">>
    /\ Append(<<"t", "r", "u">>, "e") = <<"t", "r", "u", "e">>
    /\ Append(<<"f">>, "a") = <<"f", "a">>
    /\ Append(<<"f", "a">>, "l") = <<"f", "a", "l">>
    /\ Append(<<"f", "a", "l">>, "s") = <<"f", "a", "l", "s">>
    /\ Append(<<"f", "a", "l", "s">>, "e") = <<"f", "a", "l", "s", "e">>
    /\ Append(<<"n">>, "u") = <<"n", "u">>
    /\ Append(<<"n", "u">>, "l") = <<"n", "u", "l">>
    /\ Append(<<"n", "u", "l">>, "l") = <<"n", "u", "l", "l">>
  <1>1. Append(<<"t">>, "r") = <<"t", "r">>
    BY Tuples
  <1>2. Append(<<"t", "r">>, "u") = <<"t", "r", "u">>
    BY Tuples
  <1>3. Append(<<"t", "r", "u">>, "e") = <<"t", "r", "u", "e">>
    BY Tuples
  <1>4. Append(<<"f">>, "a") = <<"f", "a">>
    BY Tuples
  <1>5. Append(<<"f", "a">>, "l") = <<"f", "a", "l">>
    BY Tuples
  <1>6. Append(<<"f", "a", "l">>, "s") = <<"f", "a", "l", "s">>
    BY Tuples
  <1>7. Append(<<"f", "a", "l", "s">>, "e") = <<"f", "a", "l", "s", "e">>
    BY Tuples
  <1>8. Append(<<"n">>, "u") = <<"n", "u">>
    BY Tuples
  <1>9. Append(<<"n", "u">>, "l") = <<"n", "u", "l">>
    BY Tuples
  <1>10. Append(<<"n", "u", "l">>, "l") = <<"n", "u", "l", "l">>
    BY Tuples
  <1> QED
    BY <1>1, <1>2, <1>3, <1>4, <1>5, <1>6, <1>7, <1>8, <1>9, <1>10

\* The letters of a keyword.
LEMMA WordGrows ==
    ASSUME NEW m \in WordModes, NEW c \in Char
    PROVE  LET r == ScanWord(m, c)
           IN  /\ r.tok \in {"none", "error", "bool", "null"}
               /\ r.tok = "none" =>
                     r.mode \in WordModes /\ WordText[r.mode] = Append(WordText[m], c)
               /\ r.tok \in {"bool", "null"} =>
                     ~r.back /\ Append(WordText[m], c) \in Words[r.tok]
  <1> DEFINE Good(r) ==
               /\ r.tok \in {"none", "error", "bool", "null"}
               /\ r.tok = "none" =>
                     r.mode \in WordModes /\ WordText[r.mode] = Append(WordText[m], c)
               /\ r.tok \in {"bool", "null"} =>
                     ~r.back /\ Append(WordText[m], c) \in Words[r.tok]
  <1>1. CASE c # Want[m]
    <2>1. ScanWord(m, c) = BadBefore("invalid_string")
      BY <1>1, Zenon DEF ScanWord
    <2> QED BY <2>1, Fields
  <1>2. CASE c = Want[m] /\ m \in {"tru", "fals"}
    <2>1. ScanWord(m, c) = Done("bool")
      BY <1>2 DEF ScanWord, Grown
    <2>2. Append(WordText[m], c) \in Words["bool"]
      <3>1. CASE m = "tru"
        BY <1>2, <3>1, Letters DEF WordText, Words, Want
      <3>2. CASE m = "fals"
        BY <1>2, <3>2, Letters DEF WordText, Words, Want
      <3> QED BY <1>2, <3>1, <3>2
    <2> QED BY <2>1, <2>2, Fields
  <1>3. CASE c = Want[m] /\ m = "nul"
    <2>1. ScanWord(m, c) = Done("null")
      BY <1>3 DEF ScanWord, Grown
    <2>2. Append(WordText[m], c) \in Words["null"]
      BY <1>3, Letters DEF WordText, Words, Want
    <2> QED BY <2>1, <2>2, Fields
  <1>4. CASE c = Want[m] /\ m \notin {"tru", "fals", "nul"}
    <2>1. ScanWord(m, c) = More(Grown[m])
      BY <1>4 DEF ScanWord, Grown, WordModes
    <2>2. Grown[m] \in WordModes
      BY <1>4 DEF Grown, WordModes
    <2>3. WordText[Grown[m]] = Append(WordText[m], Want[m])
      <3>1. CASE m = "t"
        BY <3>1, Letters DEF WordText, Grown, Want
      <3>2. CASE m = "tr"
        BY <3>2, Letters DEF WordText, Grown, Want
      <3>3. CASE m = "f"
        BY <3>3, Letters DEF WordText, Grown, Want
      <3>4. CASE m = "fa"
        BY <3>4, Letters DEF WordText, Grown, Want
      <3>5. CASE m = "fal"
        BY <3>5, Letters DEF WordText, Grown, Want
      <3>6. CASE m = "n"
        BY <3>6, Letters DEF WordText, Grown, Want
      <3>7. CASE m = "nu"
        BY <3>7, Letters DEF WordText, Grown, Want
      <3> QED BY <1>4, <3>1, <3>2, <3>3, <3>4, <3>5, <3>6, <3>7 DEF WordModes
    <2> QED BY <1>4, <2>1, <2>2, <2>3, Fields
  <1> QED BY <1>1, <1>2, <1>3, <1>4

-----------------------------------------------------------------------------
\* The first character of a token.
LEMMA ShapeStarts ==
    ASSUME NEW c \in Char, NEW o
    PROVE  LET r == ScanStart(c, o)
           IN  /\ r.tok \in {"none", "error"} \/ (c \in Punctuation /\ r = Done(PunctuationToken[c]))
               /\ r.tok = "none" => r.mode # "start" /\ Shape(r.mode, <<c>>, o)
  <1> DEFINE r == ScanStart(c, o)
             s == <<c>>
             Good == /\ r.tok \in {"none", "error"}
                        \/ (c \in Punctuation /\ r = Done(PunctuationToken[c]))
                     /\ r.tok = "none" => r.mode # "start" /\ Shape(r.mode, <<c>>, o)
  <1>1. s \in Seq(Char) /\ Len(s) = 1 /\ s[1] = c
    OBVIOUS
  <1> SUFFICES Good
    OBVIOUS
  <1> HIDE DEF s
  <1>2. CASE c \in Punctuation
    <2>1. r = Done(PunctuationToken[c])
      BY <1>2 DEF ScanStart, Punctuation, Digit
    <2>2. PunctuationToken[c] # "none"
      BY <1>2 DEF Punctuation, PunctuationToken
    <2> HIDE DEF r
    <2> QED BY <1>2, <2>1, <2>2, Fields
  <1>3. CASE c \in {"t", "f", "n"}
    <2>1. r = More(c)
      BY <1>3 DEF ScanStart, Punctuation, Digit
    <2>2. c \in WordModes /\ WordText[c] = s
      BY <1>3 DEF WordModes, WordText, s
    <2>3. c \notin NumberModes /\ c \notin StringModes /\ c # "start"
      BY <1>3 DEF NumberModes, StringModes
    <2>4. Shape(c, s, o)
      BY <2>2, <2>3 DEF Shape
    <2> HIDE DEF r
    <2> QED BY <2>1, <2>3, <2>4, Fields DEF s
  <1>4. CASE c = "\""
    <2>1. r = More("str")
      BY <1>4 DEF ScanStart, Punctuation, Digit
    <2>2. CutTo(s, 1, o)
      <3> DEFINE starts == {2}
      <3>1. starts \in SUBSET (2..1 + 1) /\ 2 \in starts /\ 1 + 1 \in starts /\ starts \ {1 + 1} = {}
        OBVIOUS
      <3> HIDE DEF starts
      <3> QED BY <3>1 DEF CutTo
    <2>3. Started("str", s, 1, o)
      BY <1>1 DEF Started
    <2>4. StringShape("str", s, o)
      <3>1. 1 \in 1..Len(s) /\ Len(s) >= 1
        BY <1>1
      <3> QED BY <1>1, <1>4, <2>2, <2>3, <3>1 DEF StringShape
    <2>5. Shape("str", s, o)
      BY <2>4 DEF Shape, WordModes, NumberModes
    <2> HIDE DEF r
    <2> QED BY <2>1, <2>5, Fields DEF s
  <1>5. CASE c = "-"
    <2>1. r = More("minus")
      BY <1>5 DEF ScanStart, Punctuation, Digit
    <2>2. NumberShape("minus", s)
      BY <1>1, <1>5 DEF NumberShape
    <2>3. Shape("minus", s, o)
      BY <2>2 DEF Shape, WordModes, StringModes
    <2> HIDE DEF r
    <2> QED BY <2>1, <2>3, Fields DEF s
  <1>6. CASE c \in Digit
    <2>1. IntTo(s, 1, 1)
      BY <1>1, <1>6 DEF IntTo
    <2>2. CASE c = "0"
      <3>1. r = More("zero")
        BY <2>2 DEF ScanStart, Punctuation, Digit
      <3>2. NumberShape("zero", s)
        BY <1>1, <2>1, <2>2 DEF NumberShape
      <3>3. Shape("zero", s, o)
        BY <3>2 DEF Shape, WordModes, StringModes
      <3> HIDE DEF r
      <3> QED BY <3>1, <3>3, Fields DEF s
    <2>3. CASE c # "0"
      <3>1. r = More("int")
        BY <1>6, <2>3 DEF ScanStart, Punctuation, Digit
      <3>2. NumberShape("int", s)
        BY <1>1, <2>1, <2>3 DEF NumberShape
      <3>3. Shape("int", s, o)
        BY <3>2 DEF Shape, WordModes, StringModes
      <3> HIDE DEF r
      <3> QED BY <3>1, <3>3, Fields DEF s
    <2> QED BY <2>2, <2>3
  <1>7. CASE c = "/"
    <2>1. r = More("slash") \/ r = BadBefore("unallowed_comment")
      BY <1>7 DEF ScanStart, Punctuation, Digit
    <2>2. Shape("slash", s, o)
      BY DEF Shape, WordModes, NumberModes, StringModes
    <2> HIDE DEF r
    <2> QED BY <2>1, <2>2, Fields DEF s
  <1>8. CASE c \notin Punctuation \cup Digit \cup {"t", "f", "n", "\"", "-", "/"}
    <2>1. r = Bad("invalid_char")
      BY <1>8, Zenon DEF ScanStart, Digit
    <2> HIDE DEF r
    <2> QED BY <2>1, Fields
  <1> QED BY <1>2, <1>3, <1>4, <1>5, <1>6, <1>7, <1>8

\* A character that goes on with the token keeps its shape.
LEMMA ShapeGrows ==
    ASSUME NEW m \in Modes, NEW s \in Seq(Char), NEW c \in Char, NEW o,
           Shape(m, s, o), Scan(m, c, o).tok = "none"
    PROVE  Scan(m, c, o).mode # "start" /\ Shape(Scan(m, c, o).mode, Append(s, c), o)
  <1> DEFINE r == Scan(m, c, o)
             t == Append(s, c)
  <1>1. CASE m = "start"
    <2>1. r = ScanStart(c, o) /\ t = Append(<<>>, c)
      BY <1>1, Dispatch DEF Shape
    <2>2. Append(<<>>, c) = <<c>>
      OBVIOUS
    <2>3. ScanStart(c, o).tok = "none"
      BY <2>1
    <2>4. ScanStart(c, o).mode # "start" /\ Shape(ScanStart(c, o).mode, <<c>>, o)
      BY <2>3, ShapeStarts
    <2> HIDE DEF r, t
    <2>5. r.mode # "start" /\ Shape(r.mode, t, o)
      BY <2>1, <2>2, <2>4
    <2> QED BY <2>5 DEF r, t
  <1>2. CASE m \in WordModes
    <2>1. r = ScanWord(m, c) /\ s = WordText[m]
      BY <1>2, Dispatch DEF Shape
    <2>2. r.mode \in WordModes /\ WordText[r.mode] = t
      BY <1>2, <2>1, WordGrows
    <2> HIDE DEF r, t
    <2>3. r.mode \notin NumberModes \cup StringModes /\ r.mode # "start"
      BY <2>2 DEF WordModes, NumberModes, StringModes
    <2> QED BY <2>2, <2>3 DEF Shape, r, t
  <1>3. CASE m \in NumberModes
    <2>1. r = ScanNumber(m, c) /\ NumberShape(m, s)
      BY <1>3, Dispatch DEF Shape
    <2>2. NumberShape(r.mode, t)
      BY <1>3, <2>1, NumberGrows
    <2>3. r.mode \in NumberModes
      <3>1. NumberStep(m, c, ScanNumber(m, c).mode)
        BY <1>3, <2>1, NumberSteps
      <3> QED BY <2>1, <3>1 DEF NumberStep, NumberModes
    <2> HIDE DEF r, t
    <2>4. r.mode \notin WordModes \cup StringModes /\ r.mode # "start"
      BY <2>3 DEF WordModes, NumberModes, StringModes
    <2> QED BY <2>2, <2>4 DEF Shape, r, t
  <1>4. CASE m \in StringModes
    <2>1. r = ScanString(m, c, o) /\ StringShape(m, s, o)
      BY <1>4, Dispatch DEF Shape
    <2>2. StringShape(r.mode, t, o)
      BY <1>4, <2>1, StringGrows
    <2>3. r.mode \in StringModes
      <3>1. StringStep(m, c, o, r.mode)
        BY <1>4, <2>1, StringSteps
      <3> HIDE DEF r
      <3>2. \/ r.mode \in {"str", "esc", "hex4"}
            \/ \E k \in 2..4 : r.mode = HexMode(k - 1)
            \/ \E k \in 2..4 : r.mode = ContMode(k - 1)
            \/ \E k \in 2..3 : r.mode = ContMode(k - 1)
        BY <3>1, Zenon DEF StringStep
      <3> QED BY <3>2 DEF StringModes, HexMode, ContMode
    <2> HIDE DEF r, t
    <2>4. r.mode \notin WordModes \cup NumberModes /\ r.mode # "start"
      BY <2>3 DEF WordModes, NumberModes, StringModes
    <2> QED BY <2>2, <2>4 DEF Shape, r, t
  <1>5. CASE m \in CommentModes
    <2>1. OutcomeIn(r, CommentModes, {"comment"})
      BY <1>5, CommentLemma, Dispatch
    <2>2. r.mode \in CommentModes
      BY <2>1, OutcomeFacts
    <2> HIDE DEF r, t
    <2>3. r.mode \notin WordModes \cup NumberModes \cup StringModes /\ r.mode # "start"
      BY <2>2 DEF CommentModes, WordModes, NumberModes, StringModes
    <2> QED BY <2>3 DEF Shape, r, t
  <1> QED BY <1>1, <1>2, <1>3, <1>4, <1>5 DEF Modes

\* A token that ends is one of JSON's.
LEMMA TokenLemma ==
    ASSUME NEW m \in Modes, NEW s \in Seq(Char), NEW c \in Char, NEW o,
           Shape(m, s, o), Scan(m, c, o).tok \notin {"none", "comment", "error"},
           NEW t, t = Scan(m, c, o).tok,
           NEW w, w = IF Scan(m, c, o).back THEN s ELSE Append(s, c)
    PROVE  IsLexeme(WithEscapes(t, w), Unquoted(t, w), o)
  <1> DEFINE r == Scan(m, c, o)
  <1>1. CASE m = "start"
    <2>1. r = ScanStart(c, o) /\ s = <<>>
      BY <1>1, Dispatch DEF Shape
    <2>2. c \in Punctuation /\ r = Done(PunctuationToken[c])
      BY <2>1, ShapeStarts
    <2>3. t = PunctuationToken[c] /\ w = Append(<<>>, c)
      BY <2>1, <2>2, Fields
    <2>4. Append(<<>>, c) = <<c>>
      OBVIOUS
    <2>5. t \notin {"bool", "null", "integer", "double", "string", "string_with_escapes"}
      BY <2>2, <2>3 DEF Punctuation, PunctuationToken
    <2>6. WithEscapes(t, w) = t /\ Unquoted(t, w) = <<c>>
      BY <2>3, <2>4, <2>5 DEF WithEscapes, Unquoted
    <2>7. t \notin DOMAIN Words
      BY <2>5 DEF Words
    <2> HIDE DEF r
    <2> QED BY <2>2, <2>3, <2>5, <2>6, <2>7, Zenon DEF IsLexeme
  <1>2. CASE m \in WordModes
    <2>1. r = ScanWord(m, c) /\ s = WordText[m]
      BY <1>2, Dispatch DEF Shape
    <2>2. t \in {"bool", "null"} /\ ~r.back /\ Append(WordText[m], c) \in Words[t]
      BY <1>2, <2>1, WordGrows
    <2>3. w \in Words[t]
      BY <2>1, <2>2
    <2>4. WithEscapes(t, w) = t /\ Unquoted(t, w) = w /\ t \in DOMAIN Words
      BY <2>2 DEF WithEscapes, Unquoted, Words
    <2>5. t \notin {"integer", "double", "string", "string_with_escapes"}
      BY <2>2
    <2> HIDE DEF r
    <2> QED BY <2>3, <2>4, <2>5, Zenon DEF IsLexeme
  <1>3. CASE m \in NumberModes
    <2>1. r = ScanNumber(m, c) /\ NumberShape(m, s)
      BY <1>3, Dispatch DEF Shape
    <2>2. /\ t \in {"integer", "double"} /\ r.back
          /\ t = "integer" => m \in {"zero", "int"}
          /\ t = "double" => m \in {"frac", "power"}
      BY <1>3, <2>1, NumberEnds
    <2>3. w = s
      BY <2>2
    <2>4. WithEscapes(t, w) = t /\ Unquoted(t, w) = w /\ t \notin DOMAIN Words
      BY <2>2 DEF WithEscapes, Unquoted, Words
    <2>5. (t = "integer" => IsInt(w)) /\ (t = "double" => IsReal(w))
      BY <1>3, <2>1, <2>2, <2>3, NumberDone
    <2> HIDE DEF r
    <2>6. CASE t = "integer"
      BY <2>4, <2>5, <2>6 DEF IsLexeme
    <2>7. CASE t = "double"
      BY <2>4, <2>5, <2>7 DEF IsLexeme
    <2> QED BY <2>2, <2>6, <2>7
  <1>4. CASE m \in StringModes
    <2>1. r = ScanString(m, c, o) /\ StringShape(m, s, o)
      BY <1>4, Dispatch DEF Shape
    <2>2. t = "string" /\ ~r.back /\ m = "str" /\ c = "\""
      <3> DEFINE q == ScanString(m, c, o)
      <3>1. q.tok \in {"none", "error"} \/ (q.tok = "string" /\ ~q.back /\ m = "str" /\ c = "\"")
        BY <1>4, StringEnds
      <3>2. r = q /\ t = r.tok /\ r.tok \notin {"none", "error"}
        BY <2>1
      <3> HIDE DEF q, r
      <3> QED BY <3>1, <3>2, Zenon
    <2>3. w = Append(s, c)
      BY <2>2
    <2> HIDE DEF r
    <2>4. PICK p \in 1..Len(s) : CutTo(s, p, o) /\ Started(m, s, p, o)
      BY <2>1, Zenon DEF StringShape
    <2>5. Len(s) = p /\ s[1] = "\""
      <3>1. Len(s) = p
        <4>1. m = "str" /\ Started(m, s, p, o)
          BY <2>2, <2>4, Zenon
        <4> QED BY <4>1, StartedLemma
      <3>2. s[1] = "\""
        BY <2>1, Zenon DEF StringShape
      <3> QED BY <3>1, <3>2
    <2>6. /\ w \in Seq(Char) /\ Len(w) = Len(s) + 1 /\ Len(s) \in Nat
          /\ w[Len(s) + 1] = c /\ \A i \in 1..Len(s) : w[i] = s[i]
      BY <2>3, Grows
    <2> DEFINE b == SubSeq(s, 2, Len(s))
    <2>7. Len(s) \in 1..Len(s) /\ Len(w) - 1 = Len(s) /\ 1 \in 1..Len(s)
          /\ 2 \in 1..Len(s) + 1 /\ Len(s) \in 2 - 1..Len(s) /\ Len(s) >= 1
      <3>1. Len(s) \in Nat /\ Len(w) = Len(s) + 1
        BY <2>6
      <3>2. p \in 1..Len(s) /\ Len(s) = p
        BY <2>5
      <3> QED BY <3>1, <3>2
    <2>8. Unquoted(t, w) = b
      <3>1. SubSeq(w, 2, Len(s)) = b
        BY <2>3, <2>7, PartKept
      <3> QED BY <2>2, <2>7, <3>1 DEF Unquoted
    <2>9. IsStringBody(b, o)
      BY <2>4, <2>5, <2>7, BodyLemma
    <2>10. Len(b) = Len(s) - 2 + 1 /\ \A k \in 1..Len(s) - 2 + 1 : b[k] = s[2 + k - 1]
      <3>1. 2 \in 1..Len(s) + 1 /\ Len(s) \in 2 - 1..Len(s)
        BY <2>7
      <3> QED BY <3>1, Piece, ZenonT(40)
    <2> HIDE DEF b
    <2>11. (\E i \in 1..Len(w) : w[i] = "\\") <=> \E i \in 1..Len(b) : b[i] = "\\"
      <3>1. ASSUME NEW i \in 1..Len(w), w[i] = "\\"
            PROVE  \E k \in 1..Len(b) : b[k] = "\\"
        <4>1. i # 1 /\ i # Len(s) + 1
          BY <2>2, <2>5, <2>6, <2>7, <3>1
        <4>2. i - 1 \in 1..Len(b) /\ 2 + (i - 1) - 1 = i /\ i \in 1..Len(s)
              /\ i - 1 \in 1..Len(s) - 2 + 1
          BY <2>6, <2>10, <4>1
        <4>3. b[i - 1] = w[i]
          BY <2>6, <2>10, <4>2
        <4> QED BY <3>1, <4>2, <4>3
      <3>2. ASSUME NEW k \in 1..Len(b), b[k] = "\\"
            PROVE  \E i \in 1..Len(w) : w[i] = "\\"
        <4>1. 2 + k - 1 \in 1..Len(s) /\ 2 + k - 1 \in 1..Len(w) /\ k \in 1..Len(s) - 2 + 1
          BY <2>6, <2>10
        <4>2. w[2 + k - 1] = b[k]
          BY <2>6, <2>10, <4>1
        <4> QED BY <3>2, <4>1, <4>2
      <3> QED BY <3>1, <3>2
    <2>12. CASE \E i \in 1..Len(w) : w[i] = "\\"
      <3>1. WithEscapes(t, w) = "string_with_escapes"
        BY <2>2, <2>12 DEF WithEscapes
      <3>2. "string_with_escapes" \notin DOMAIN Words
        BY DEF Words
      <3> QED BY <2>8, <2>9, <2>11, <2>12, <3>1, <3>2 DEF IsLexeme
    <2>13. CASE ~\E i \in 1..Len(w) : w[i] = "\\"
      <3>1. WithEscapes(t, w) = "string"
        BY <2>2, <2>13 DEF WithEscapes
      <3>2. "string" \notin DOMAIN Words
        BY DEF Words
      <3> QED BY <2>8, <2>9, <2>11, <2>13, <3>1, <3>2 DEF IsLexeme
    <2> QED BY <2>12, <2>13
  <1>5. CASE m \in CommentModes
    <2>1. OutcomeIn(r, CommentModes, {"comment"})
      BY <1>5, CommentLemma, Dispatch
    <2>2. r.tok \in {"comment", "integer", "double", "none", "error"}
      BY <2>1, OutcomeFacts
    <2>3. r.tok \in {"comment", "none", "error"}
      <3>1. ScanComment(m, c).tok \in {"comment", "none", "error"}
        BY <1>5, Fields DEF ScanComment, CommentModes
      <3> QED BY <1>5, <3>1, Dispatch
    <2> QED BY <2>3
  <1> QED BY <1>1, <1>2, <1>3, <1>4, <1>5 DEF Modes

-----------------------------------------------------------------------------
\* A token handed out is one of JSON's: the inductive invariant holds behind
\* the step that ends it.
LEMMA EmitLexeme ==
    ASSUME LexemeInv, Emit
    PROVE  LexemeInv'
  <1>1. /\ Inv /\ Inv' /\ ~Replaying /\ InToken /\ mode = ModeAfter(Len(trail))
        /\ Outcome.tok \notin {"none", "comment"} /\ Pending' = <<>> /\ trail' = <<>>
        /\ toks' = Append(toks, IF Outcome.tok = "error"
                                THEN Unbuffered!Failure(Outcome.error)
                                ELSE Unbuffered!Token(Outcome.tok, Whole))
        /\ UNCHANGED opts
    BY EmitEffect DEF LexemeInv
  <1>2. Reading
    BY <1>1 DEF InToken
  <1>3. mode \in Modes /\ Pending \in Seq(Char) /\ NextChar \in Char
    BY <1>1, <1>2, NextCharLemma, Place DEF Inv, TypeOK, LexTypeOK
  <1>4. Shape(mode, Pending, opts)
    BY <1>1 DEF LexemeInv, PendingShape
  <1> DEFINE R == [tok : Tokens, text : Seq(Char), error : LexErrors]
             x == IF Outcome.tok = "error"
                  THEN Unbuffered!Failure(Outcome.error)
                  ELSE Unbuffered!Token(Outcome.tok, Whole)
  <1>5. x.tok = "error" \/ IsLexeme(x.tok, x.text, opts)
    <2>1. CASE Outcome.tok = "error"
      <3>1. x = Unbuffered!Failure(Outcome.error)
        BY <2>1
      <3> HIDE DEF x
      <3> QED BY <3>1 DEF Unbuffered!Failure
    <2>2. CASE Outcome.tok # "error"
      <3>1. x = Unbuffered!Token(Outcome.tok, Whole)
        BY <2>2
      <3>2. x.tok = WithEscapes(Outcome.tok, Whole) /\ x.text = Unquoted(Outcome.tok, Whole)
        <4> HIDE DEF x
        <4> QED BY <3>1, SameToken DEF Unbuffered!Token
      <3> HIDE DEF x
      <3>3. Outcome.tok \notin {"none", "comment", "error"}
        BY <1>1, <2>2
      <3>4. IsLexeme(WithEscapes(Outcome.tok, Whole), Unquoted(Outcome.tok, Whole), opts)
        BY <1>3, <1>4, <3>3, TokenLemma DEF Outcome, Whole
      <3> QED BY <3>2, <3>4
    <2> QED BY <2>1, <2>2
  <1>6. toks \in Seq(R) /\ toks' \in Seq(R) /\ toks' = Append(toks, x)
    BY <1>1 DEF Inv, TypeOK
  <1> HIDE DEF x
  <1>7. Len(toks') = Len(toks) + 1 /\ Len(toks) \in Nat /\ toks'[Len(toks) + 1] = x
        /\ \A i \in 1..Len(toks) : toks'[i] = toks[i]
    <2>1. x \in R
      <3>1. toks'[Len(toks')] = x /\ toks' # <<>>
        BY <1>6
      <3> QED BY <1>6, <3>1, ElementOfSeq, LenProperties, EmptySeq
    <2> HIDE DEF R
    <2> QED BY <1>6, <2>1, AppendProperties, LenProperties
  <1>8. TokensAreLexemes'
    <2> SUFFICES ASSUME NEW i \in 1..Len(toks')
                 PROVE  toks'[i].tok = "error" \/ IsLexeme(toks'[i].tok, toks'[i].text, opts)
      BY <1>1 DEF TokensAreLexemes
    <2>1. i \in 1..Len(toks) \/ i = Len(toks) + 1
      BY <1>7
    <2> QED BY <1>5, <1>7, <2>1 DEF LexemeInv, TokensAreLexemes
  <1>9. PendingShape'
    BY <1>1 DEF PendingShape, ModeAfter, Shape, WordModes, NumberModes, StringModes
  <1> QED BY <1>1, <1>8, <1>9 DEF LexemeInv

\* A step that hands nothing out and leaves the pending token as it is.
LEMMA LexemeKept ==
    ASSUME LexemeInv, Inv', UNCHANGED <<opts, toks, trail>>, Pending' = Pending
    PROVE  LexemeInv'
  <1>1. TokensAreLexemes'
    BY DEF LexemeInv, TokensAreLexemes
  <1>2. PendingShape'
    BY DEF LexemeInv, PendingShape, ModeAfter
  <1> QED BY <1>1, <1>2 DEF LexemeInv

\* Every step keeps the shape of what is pending and of what is handed out.
LEMMA NextLexeme == LexemeInv /\ [Next]_vars => LexemeInv'
  <1> SUFFICES ASSUME LexemeInv, [Next]_vars PROVE LexemeInv'
    OBVIOUS
  <1>1. Inv
    BY DEF LexemeInv
  <1>2. ASSUME NEW n \in 0..MaxChunk, Feed(n) PROVE LexemeInv'
    BY <1>1, <1>2, FeedEffect, LexemeKept DEF Feed, LexEnter
  <1>3. CASE CallAgain
    BY <1>1, <1>3, CallAgainEffect, LexemeKept DEF CallAgain, LexEnter
  <1>4. CASE Skip
    <2>1. Inv' /\ Pending' = Pending /\ trail' = trail
      BY <1>1, <1>4, SkipEffect
    <2> QED BY <1>4, <2>1, LexemeKept DEF Skip, SkipWhite
  <1>5. CASE Read /\ Replaying
    BY <1>1, <1>5, ReadReplayEffect, LexemeKept DEF Read, Advance
  <1>6. CASE Read /\ ~Replaying
    <2>1. /\ Inv' /\ Outcome = More(mode') /\ mode = ModeAfter(Len(trail))
          /\ Pending' = Append(Pending, NextChar) /\ trail' = Append(trail, mode')
          /\ UNCHANGED <<opts, toks>>
      BY <1>1, <1>6, ReadEffect
    <2>2. Reading
      BY <1>6 DEF Read, Advance, InToken
    <2>3. mode \in Modes /\ Pending \in Seq(Char) /\ NextChar \in Char
      BY <1>1, <2>2, NextCharLemma, Place DEF Inv, TypeOK, LexTypeOK
    <2>4. Shape(mode, Pending, opts)
      BY <2>1 DEF LexemeInv, PendingShape
    <2>5. Outcome.tok = "none" /\ Outcome.mode = mode'
      BY <2>1, Fields
    <2>6. Shape(mode', Pending', opts')
      BY <2>1, <2>3, <2>4, <2>5, ShapeGrows DEF Outcome
    <2>7. IF Len(trail') = 0 THEN FALSE ELSE trail'[Len(trail')] = mode'
      <3>1. trail \in Seq(Modes) /\ mode' \in Modes
        BY <1>1, <2>1 DEF Inv, TypeOK, LexTypeOK
      <3>2. /\ Len(Append(trail, mode')) = Len(trail) + 1 /\ Len(trail) \in Nat
            /\ Append(trail, mode')[Len(trail) + 1] = mode'
        BY <3>1, AppendProperties, LenProperties
      <3> QED BY <2>1, <3>2
    <2>8. PendingShape'
      BY <2>6, <2>7 DEF PendingShape, ModeAfter
    <2>9. TokensAreLexemes'
      BY <2>1 DEF LexemeInv, TokensAreLexemes
    <2> QED BY <2>1, <2>8, <2>9 DEF LexemeInv
  <1>7. CASE Comment
    <2>1. Inv' /\ Pending' = <<>> /\ trail' = <<>> /\ UNCHANGED <<opts, toks>>
      BY <1>1, <1>7, CommentEffect
    <2>2. PendingShape'
      BY <2>1 DEF PendingShape, ModeAfter, Shape, WordModes, NumberModes, StringModes
    <2>3. TokensAreLexemes'
      BY <2>1 DEF LexemeInv, TokensAreLexemes
    <2> QED BY <2>1, <2>2, <2>3 DEF LexemeInv
  <1>8. CASE Suspend
    BY <1>1, <1>8, SuspendEffect, LexemeKept
  <1>9. CASE Emit
    BY <1>9, EmitLexeme
  <1>10. CASE UNCHANGED vars
    BY <1>1, <1>10, StutterEffect, LexemeKept DEF vars, lexVars
  <1> QED BY <1>2, <1>3, <1>4, <1>5, <1>6, <1>7, <1>8, <1>9, <1>10 DEF Next

\* Before anything is fed nothing is pending and nothing was handed out.
LEMMA InitLexeme == Init => LexemeInv
  <1> SUFFICES ASSUME Init PROVE LexemeInv
    OBVIOUS
  <1>1. Inv /\ trail = <<>> /\ toks = <<>> /\ Pending = <<>>
    BY InitInv, InitStream DEF Init, Unbuffered!Init
  <1>2. PendingShape
    BY <1>1 DEF PendingShape, ModeAfter, Shape, WordModes, NumberModes, StringModes
  <1>3. TokensAreLexemes
    BY <1>1 DEF TokensAreLexemes
  <1> QED BY <1>1, <1>2, <1>3 DEF LexemeInv

\* Every token yajl_lex_lex hands out, of whatever text and however it is cut
\* into chunks, is a token of JSON of the kind it says: a keyword, an integer,
\* another number, or a string made of whole characters, with or without a
\* backslash in it.
THEOREM LexemesOnly == Spec => []TokensAreLexemes
  <1>1. LexemeInv => TokensAreLexemes
    BY DEF LexemeInv
  <1> QED BY <1>1, InitLexeme, NextLexeme, PTL DEF Spec

-----------------------------------------------------------------------------
(* Every token of JSON comes out as one token.  Its text is known here      *)
(* before it is read, so the modes the scanner can be in behind each of its *)
(* characters are known too; the abstract lexer walks along them.           *)

\* A token and a space behind it.
Spaced(x) == Len(x) > 1 /\ x[Len(x)] = " "

TokenOf(x) == SubSeq(x, 1, Len(x) - 1)

\* The scanner walks through x, a token and a space, in the modes F, and has
\* the token, of kind t, with the character at e.  F[i] is a set: a string may
\* be cut into characters in more than one way, and F has what each cut says.
Walk(x, o, F, e, t) ==
    /\ Spaced(x) /\ x[1] \notin White
    /\ e \in {Len(x) - 1, Len(x)} /\ t \in Ends
    /\ F[0] = {"start"}
    /\ \A i \in 1..e - 1 : "start" \notin F[i]
    /\ \A i \in 1..e - 1 : \A m \in F[i - 1] : \E to \in F[i] : Scan(m, x[i], o) = More(to)
    /\ \A m \in F[e - 1] : Scan(m, x[e], o) = IF e = Len(x) THEN DoneBefore(t) ELSE Done(t)

\* The token is under way, along F, or it has been handed out.
UnderWay(F, e) ==
    /\ toks = <<>> /\ Position \in 0..e - 1
    /\ Pending = SubSeq(text, 1, Position) /\ LastMode \in F[Position]
HandedOut(t) ==
    /\ toks = <<Unbuffered!Token(t, TokenOf(text))>>
    /\ Position \in Len(text) - 1..Len(text)
    /\ Pending = <<>> /\ LastMode = "start"

\* The invariant: a text that can be walked through is.
Walked ==
    \A F, e, t : Walk(text, opts, F, e, t) => UnderWay(F, e) \/ HandedOut(t)

LEMMA SpacedLength ==
    ASSUME NEW x \in Seq(Char), Spaced(x)
    PROVE  Len(x) \in Nat /\ Len(x) > 1
  <1>1. Len(x) > 1
    BY Zenon DEF Spaced
  <1> QED BY <1>1, LenProperties

\* What a step may change, seen by the abstract lexer.
LEMMA StreamMoves ==
    ASSUME Inv, [Unbuffered!Next]_(Unbuffered!streamVars)
    PROVE  /\ UNCHANGED <<text, opts>>
           /\ \/ UNCHANGED <<Position, Pending, LastMode, toks>>
              \/ /\ Position < fed
                 /\ \/ /\ LastMode = "start" /\ text[Position + 1] \in White
                       /\ Position' = Position + 1 /\ UNCHANGED <<Pending, LastMode, toks>>
                    \/ /\ ~(LastMode = "start" /\ text[Position + 1] \in White)
                       /\ LET r == Scan(LastMode, text[Position + 1], opts)
                          IN  \/ /\ r.tok = "none"
                                 /\ Position' = Position + 1 /\ LastMode' = r.mode /\ toks' = toks
                                 /\ Pending' = Append(Pending, text[Position + 1])
                              \/ r.tok \in {"comment", "error"}
                              \/ /\ r.tok \notin {"none", "comment", "error"}
                                 /\ Position' = IF r.back THEN Position ELSE Position + 1
                                 /\ Pending' = <<>> /\ LastMode' = "start"
                                 /\ toks' = Append(toks, Unbuffered!Token(r.tok,
                                       IF r.back THEN Pending
                                       ELSE Append(Pending, text[Position + 1])))
  <1>1. Unbuffered!c = text[Position + 1]
    BY DEF Unbuffered!c
  <1>2. Unbuffered!Result = Scan(LastMode, text[Position + 1], opts)
    BY <1>1, SameScan DEF Unbuffered!Result, LastMode
  <1>3. White = Unbuffered!White
    BY DEF White, Unbuffered!White
  <1>4. CASE UNCHANGED Unbuffered!streamVars
    BY <1>4 DEF Unbuffered!streamVars, LastMode
  <1>5. CASE Unbuffered!Arrive
    BY <1>5 DEF Unbuffered!Arrive, LastMode
  <1>6. CASE Unbuffered!TakeWhite
    BY <1>1, <1>3, <1>6 DEF Unbuffered!TakeWhite, Unbuffered!Ready, LastMode
  <1>7. CASE Unbuffered!TakeMore
    BY <1>1, <1>2, <1>3, <1>7 DEF Unbuffered!TakeMore, Unbuffered!InToken, Unbuffered!Ready, LastMode
  <1>8. CASE Unbuffered!TakeComment
    BY <1>1, <1>2, <1>3, <1>8
       DEF Unbuffered!TakeComment, Unbuffered!Restart, Unbuffered!InToken, Unbuffered!Ready, LastMode
  <1>9. CASE Unbuffered!TakeToken
    BY <1>1, <1>2, <1>3, <1>9
       DEF Unbuffered!TakeToken, Unbuffered!Restart, Unbuffered!InToken, Unbuffered!Ready, LastMode
  <1> QED BY <1>4, <1>5, <1>6, <1>7, <1>8, <1>9 DEF Unbuffered!Next

\* Where a walk ends.
LEMMA WalkEnds ==
    ASSUME NEW x \in Seq(Char), NEW o, NEW F, NEW e, NEW t, Walk(x, o, F, e, t)
    PROVE  Len(x) \in Nat /\ Len(x) > 1 /\ e \in {Len(x) - 1, Len(x)} /\ e >= 1
  <1>1. Spaced(x) /\ e \in {Len(x) - 1, Len(x)}
    BY Zenon DEF Walk
  <1> QED BY <1>1, SpacedLength

\* A token under way goes on, or is handed out whole.
LEMMA WalkOn ==
    ASSUME Inv, [Unbuffered!Next]_(Unbuffered!streamVars), NEW F, NEW e, NEW t,
           Walk(text, opts, F, e, t), UnderWay(F, e)
    PROVE  UnderWay(F, e)' \/ HandedOut(t)'
  <1> DEFINE q == Position
             n == Len(text)
             r == Scan(LastMode, text[q + 1], opts)
  <1>1. text' = text /\ opts' = opts
    BY StreamMoves
  <1>2. text \in Seq(Char) /\ n \in Nat /\ fed <= n /\ fed \in Nat
    BY Place, LenProperties DEF Inv, TypeOK, CursorOK
  <1>3. q \in Nat /\ e \in Nat /\ q < e /\ n > 1 /\ e \in {n - 1, n}
    <2>1. q \in 0..e - 1
      BY DEF UnderWay
    <2> QED BY <1>2, <2>1, WalkEnds
  <1>4. CASE UNCHANGED <<Position, Pending, LastMode, toks>>
    BY <1>1, <1>4 DEF UnderWay
  <1> SUFFICES ASSUME ~UNCHANGED <<Position, Pending, LastMode, toks>>
               PROVE  UnderWay(F, e)' \/ HandedOut(t)'
    BY <1>4
  <1>5. ~(LastMode = "start" /\ text[q + 1] \in White)
    <2>1. CASE q = 0
      <3>1. text[q + 1] = text[1]
        BY <2>1
      <3> QED BY <3>1, Zenon DEF Walk
    <2>2. CASE q # 0
      <3>1. q \in 1..e - 1
        BY <1>3, <2>2
      <3> QED BY <3>1, Zenon DEF Walk, UnderWay
    <2> QED BY <2>1, <2>2
  <1>6. CASE q + 1 < e
    <2>1. q + 1 \in 1..e - 1 /\ (q + 1) - 1 = q
      BY <1>3, <1>6
    <2>2. PICK to \in F[q + 1] : r = More(to)
      BY <2>1 DEF Walk, UnderWay
    <2>3. r.tok = "none" /\ r.mode = to
      BY <2>2, Fields
    <2>4. /\ Position' = q + 1 /\ LastMode' = to /\ toks' = toks
          /\ Pending' = Append(Pending, text[q + 1])
      BY <1>5, <2>3, StreamMoves
    <2>5. Append(Pending, text[q + 1]) = SubSeq(text, 1, q + 1)
      <3>1. SubSeq(text, 0 + 1, q + 1) = Append(SubSeq(text, 0 + 1, q), text[q + 1])
        BY <1>2, <1>3, PartGrows
      <3> QED BY <3>1 DEF UnderWay
    <2>6. q + 1 \in 0..e - 1
      BY <1>3, <1>6
    <2> QED BY <1>1, <2>4, <2>5, <2>6 DEF UnderWay
  <1>7. CASE q + 1 = e
    <2>1. r = IF e = n THEN DoneBefore(t) ELSE Done(t)
      <3>1. e - 1 = q
        BY <1>3, <1>7
      <3> QED BY <1>7, <3>1 DEF Walk, UnderWay
    <2>2. r.tok = t /\ (r.back <=> e = n)
      BY <2>1, Fields
    <2>3. t \notin {"none", "comment", "error"}
      BY DEF Walk, Ends, Tokens
    <2>4. /\ Position' = IF r.back THEN q ELSE q + 1
          /\ Pending' = <<>> /\ LastMode' = "start"
          /\ toks' = Append(toks, Unbuffered!Token(r.tok,
                        IF r.back THEN Pending ELSE Append(Pending, text[q + 1])))
      BY <1>5, <2>2, <2>3, StreamMoves
    <2>5. (IF r.back THEN Pending ELSE Append(Pending, text[q + 1])) = TokenOf(text)
      <3>1. CASE e = n
        <4>1. q = n - 1
          BY <1>2, <1>3, <1>7, <3>1
        <4> QED BY <2>2, <3>1, <4>1 DEF UnderWay, TokenOf
      <3>2. CASE e # n
        <4>1. q + 1 = n - 1
          BY <1>3, <1>7, <3>2
        <4>2. SubSeq(text, 0 + 1, q + 1) = Append(SubSeq(text, 0 + 1, q), text[q + 1])
          BY <1>2, <1>3, PartGrows
        <4> QED BY <2>2, <3>2, <4>1, <4>2 DEF UnderWay, TokenOf
      <3> QED BY <3>1, <3>2
    <2>6. Position' \in n - 1..n
      BY <1>2, <1>3, <1>7, <2>2, <2>4
    <2>7. toks' = <<Unbuffered!Token(t, TokenOf(text))>>
      <3>1. toks' = Append(<<>>, Unbuffered!Token(t, TokenOf(text)))
        BY <2>2, <2>4, <2>5, Zenon DEF UnderWay
      <3>2. \A x : Append(<<>>, x) = <<x>>
        OBVIOUS
      <3> QED BY <3>1, <3>2, Zenon
    <2> QED BY <1>1, <2>4, <2>6, <2>7 DEF HandedOut
  <1> QED BY <1>3, <1>6, <1>7

\* Behind it there is only the space.
LEMMA WalkOver ==
    ASSUME Inv, [Unbuffered!Next]_(Unbuffered!streamVars), NEW F, NEW e, NEW t,
           Walk(text, opts, F, e, t), HandedOut(t)
    PROVE  HandedOut(t)'
  <1> DEFINE q == Position
             n == Len(text)
  <1>1. text' = text /\ opts' = opts
    BY StreamMoves
  <1>2. text \in Seq(Char) /\ n \in Nat /\ fed <= n /\ fed \in Nat
    BY Place, LenProperties DEF Inv, TypeOK, CursorOK
  <1>3. q \in Nat /\ q \in n - 1..n /\ n > 1
    <2>1. q \in n - 1..n
      BY DEF HandedOut
    <2> QED BY <1>2, <2>1, WalkEnds
  <1>4. CASE UNCHANGED <<Position, Pending, LastMode, toks>>
    BY <1>1, <1>4 DEF HandedOut
  <1>5. CASE q < fed
    <2>1. q + 1 = n
      BY <1>2, <1>3, <1>5
    <2>2. LastMode = "start" /\ text[q + 1] \in White
      BY <2>1 DEF HandedOut, Walk, Spaced, White
    <2>3. \/ UNCHANGED <<Position, Pending, LastMode, toks>>
          \/ Position' = q + 1 /\ UNCHANGED <<Pending, LastMode, toks>>
      BY <2>2, StreamMoves
    <2>4. q + 1 \in n - 1..n
      BY <1>2, <2>1
    <2> QED BY <1>1, <1>4, <2>3, <2>4 DEF HandedOut
  <1> QED BY <1>4, <1>5, StreamMoves

LEMMA NextWalked == Inv /\ Walked /\ [Unbuffered!Next]_(Unbuffered!streamVars) => Walked'
  <1> SUFFICES ASSUME Inv, Walked, [Unbuffered!Next]_(Unbuffered!streamVars), NEW F, NEW e, NEW t,
                      Walk(text, opts, F, e, t)'
               PROVE  UnderWay(F, e)' \/ HandedOut(t)'
    BY DEF Walked
  <1>1. text' = text /\ opts' = opts
    BY StreamMoves
  <1>2. Walk(text, opts, F, e, t)
    BY <1>1 DEF Walk
  <1>3. UnderWay(F, e) \/ HandedOut(t)
    BY <1>2 DEF Walked
  <1> QED BY <1>2, <1>3, WalkOn, WalkOver

LEMMA InitWalked == Init => Walked
  <1> SUFFICES ASSUME Init, NEW F, NEW e, NEW t, Walk(text, opts, F, e, t)
               PROVE  UnderWay(F, e)
    BY DEF Walked
  <1>1. trail = <<>> /\ toks = <<>> /\ Pending = <<>> /\ Position = 0 /\ Inv
    BY InitInv, InitStream DEF Init, Unbuffered!Init
  <1>2. text \in Seq(Char) /\ Len(text) \in Nat
    BY <1>1, Place, LenProperties
  <1>3. SubSeq(text, 1, 0) = <<>>
    BY <1>2, SubSeqEmpty
  <1>4. 0 \in 0..e - 1
    BY <1>2, WalkEnds
  <1> QED BY <1>1, <1>3, <1>4 DEF UnderWay, LastMode, Walk

-----------------------------------------------------------------------------
\* A walk in which each place has one mode.
LEMMA SingleWalk ==
    ASSUME NEW x \in Seq(Char), NEW o, NEW g, NEW e, NEW t,
           Spaced(x), x[1] \notin White, t \in Ends,
           e \in {Len(x) - 1, Len(x)}, g[0] = "start",
           \A i \in 1..e - 1 : g[i] # "start" /\ Scan(g[i - 1], x[i], o) = More(g[i]),
           Scan(g[e - 1], x[e], o) = IF e = Len(x) THEN DoneBefore(t) ELSE Done(t)
    PROVE  Walk(x, o, [i \in 0..e - 1 |-> {g[i]}], e, t)
  <1> DEFINE F == [i \in 0..e - 1 |-> {g[i]}]
  <1>1. e \in Nat /\ e >= 1
    BY SpacedLength
  <1>2. \A i \in 0..e - 1 : F[i] = {g[i]}
    OBVIOUS
  <1> HIDE DEF F
  <1>3. F[0] = {"start"} /\ F[e - 1] = {g[e - 1]}
    BY <1>1, <1>2
  <1>4. \A i \in 1..e - 1 : F[i] = {g[i]} /\ F[i - 1] = {g[i - 1]}
    BY <1>1, <1>2
  <1>5. /\ \A i \in 1..e - 1 : "start" \notin F[i]
        /\ \A i \in 1..e - 1 : \A m \in F[i - 1] : \E to \in F[i] : Scan(m, x[i], o) = More(to)
    BY <1>4, Zenon
  <1>6. \A m \in F[e - 1] : Scan(m, x[e], o) = IF e = Len(x) THEN DoneBefore(t) ELSE Done(t)
    BY <1>3, Zenon
  <1>7. Walk(x, o, F, e, t)
    BY <1>3, <1>5, <1>6, Zenon DEF Walk
  <1> QED BY <1>7 DEF F

\* What the walk of a text hands out is the token wanted of it.
HandsOut(x, o, kind, whole) ==
    \E F, e, t : /\ Walk(x, o, F, e, t)
                 /\ WithEscapes(t, TokenOf(x)) = kind
                 /\ Unquoted(t, TokenOf(x)) = whole

\* Any token but a string is its own text.
LEMMA Plain ==
    ASSUME NEW t, NEW s, t # "string"
    PROVE  WithEscapes(t, s) = t /\ Unquoted(t, s) = s
  BY DEF WithEscapes, Unquoted

\* All of a text but its last character.
LEMMA Front ==
    ASSUME NEW x \in Seq(Char), Spaced(x)
    PROVE  LET s == TokenOf(x)
           IN  /\ s \in Seq(Char) /\ Len(s) = Len(x) - 1 /\ Len(x) \in Nat
               /\ \A k \in 1..Len(x) - 1 : s[k] = x[k]
  <1>1. Len(x) \in Nat /\ 1 \in 1..Len(x) + 1 /\ Len(x) - 1 \in 1 - 1..Len(x)
    BY SpacedLength
  <1>2. /\ TokenOf(x) \in Seq(Char)
        /\ Len(TokenOf(x)) = (Len(x) - 1) - 1 + 1
        /\ \A k \in 1..(Len(x) - 1) - 1 + 1 : TokenOf(x)[k] = x[1 + k - 1]
    BY <1>1, Piece DEF TokenOf
  <1>3. (Len(x) - 1) - 1 + 1 = Len(x) - 1 /\ \A k \in 1..Len(x) - 1 : 1 + k - 1 = k
    BY <1>1
  <1> QED BY <1>1, <1>2, <1>3

\* Such a walk, named.
LEMMA HandsOutIs ==
    ASSUME NEW x, NEW o, NEW F, NEW e, NEW t, NEW kind, NEW whole, Walk(x, o, F, e, t),
           WithEscapes(t, TokenOf(x)) = kind, Unquoted(t, TokenOf(x)) = whole
    PROVE  HandsOut(x, o, kind, whole)
  BY Zenon DEF HandsOut

LEMMA OneMore ==
    \A n \in Nat : (1 = n - 1 => n = 2) /\ (4 = n - 1 => n = 5) /\ (5 = n - 1 => n = 6)
  OBVIOUS

\* A token of one character.
LEMMA PunctuationWalk ==
    ASSUME NEW x \in Seq(Char), NEW o, Spaced(x),
           NEW p \in Punctuation, TokenOf(x) = <<p>>
    PROVE  HandsOut(x, o, PunctuationToken[p], TokenOf(x))
  <1> DEFINE t == PunctuationToken[p]
             g == [i \in {0} |-> "start"]
             s == <<p>>
  <1>1. Len(x) = 2 /\ x[1] = p
    <2>1. Len(s) = 1 /\ s[1] = p
      OBVIOUS
    <2> HIDE DEF s
    <2>2. Len(x) \in Nat /\ Len(s) = Len(x) - 1 /\ \A k \in 1..Len(x) - 1 : s[k] = x[k]
      BY Front, Zenon DEF s
    <2>3. Len(x) = 2
      BY <2>1, <2>2, OneMore, Zenon
    <2>4. 1 \in 1..Len(x) - 1
      BY <2>3
    <2> QED BY <2>1, <2>2, <2>3, <2>4
  <1>2. t \in Ends /\ t # "string" /\ p \notin White
    BY DEF PunctuationToken, Punctuation, Ends, Tokens, White
  <1> HIDE DEF t
  <1>3. Scan("start", p, o) = Done(t)
    <2>1. p \notin {"t", "f", "n", "\"", "-", "0", "/"} \cup (Digit \ {"0"})
      BY DEF Punctuation, Digit
    <2>2. ScanStart(p, o) = Done(PunctuationToken[p])
      BY <2>1, Zenon DEF ScanStart
    <2> QED BY <2>2, Dispatch, Zenon DEF t
  <1>4. /\ g[0] = "start" /\ 1 \in {Len(x) - 1, Len(x)} /\ 1 # Len(x)
        /\ \A i \in 1..1 - 1 : g[i] # "start" /\ Scan(g[i - 1], x[i], o) = More(g[i])
        /\ g[1 - 1] = "start"
    BY <1>1
  <1> HIDE DEF g
  <1>5. Walk(x, o, [i \in 0..1 - 1 |-> {g[i]}], 1, t)
    BY <1>1, <1>2, <1>3, <1>4, SingleWalk
  <1>6. WithEscapes(t, TokenOf(x)) = t /\ Unquoted(t, TokenOf(x)) = TokenOf(x)
    BY <1>2, Plain, Zenon
  <1>7. HandsOut(x, o, t, TokenOf(x))
    BY <1>5, <1>6, HandsOutIs, Zenon
  <1> QED BY <1>7 DEF t

\* The letters of the keywords, read one by one.
LEMMA WordScans ==
    ASSUME NEW o
    PROVE  /\ Scan("start", "t", o) = More("t") /\ Scan("t", "r", o) = More("tr")
           /\ Scan("tr", "u", o) = More("tru") /\ Scan("tru", "e", o) = Done("bool")
           /\ Scan("start", "f", o) = More("f") /\ Scan("f", "a", o) = More("fa")
           /\ Scan("fa", "l", o) = More("fal") /\ Scan("fal", "s", o) = More("fals")
           /\ Scan("fals", "e", o) = Done("bool")
           /\ Scan("start", "n", o) = More("n") /\ Scan("n", "u", o) = More("nu")
           /\ Scan("nu", "l", o) = More("nul") /\ Scan("nul", "l", o) = Done("null")
  <1>1. \A m \in {"t", "f", "n"} : Scan("start", m, o) = More(m)
    <2> TAKE m \in {"t", "f", "n"}
    <2>1. m \notin Punctuation /\ m \notin Digit
      BY DEF Punctuation, Digit
    <2> QED BY <2>1, Dispatch DEF ScanStart
  <1>2. \A m \in WordModes \ {"tru", "fals", "nul"} : Scan(m, Want[m], o) = More(Grown[m])
    <2> TAKE m \in WordModes \ {"tru", "fals", "nul"}
    <2>1. Grown[m] \notin {"true", "false", "null"}
      BY DEF Grown, WordModes
    <2> QED BY <2>1, Dispatch DEF ScanWord
  <1>3. Scan("tru", "e", o) = Done("bool") /\ Scan("fals", "e", o) = Done("bool")
        /\ Scan("nul", "l", o) = Done("null")
    BY Dispatch DEF ScanWord, Grown, Want, WordModes
  <1>4. /\ Want["t"] = "r" /\ Grown["t"] = "tr" /\ Want["tr"] = "u" /\ Grown["tr"] = "tru"
        /\ Want["f"] = "a" /\ Grown["f"] = "fa" /\ Want["fa"] = "l" /\ Grown["fa"] = "fal"
        /\ Want["fal"] = "s" /\ Grown["fal"] = "fals"
        /\ Want["n"] = "u" /\ Grown["n"] = "nu" /\ Want["nu"] = "l" /\ Grown["nu"] = "nul"
    BY DEF Want, Grown
  <1>5. {"t", "tr", "f", "fa", "fal", "n", "nu"} \subseteq WordModes \ {"tru", "fals", "nul"}
    BY DEF WordModes
  <1> QED BY <1>1, <1>2, <1>3, <1>4, <1>5

\* The walk of a keyword ends with its last letter.
LEMMA KeywordWalk ==
    ASSUME NEW x \in Seq(Char), NEW o, Spaced(x),
           NEW t, t = "bool" \/ t = "null",
           NEW g, NEW e \in Nat, e + 1 = Len(x), g[0] = "start", x[1] \in {"t", "f", "n"},
           \A i \in 1..e - 1 : g[i] # "start" /\ Scan(g[i - 1], x[i], o) = More(g[i]),
           Scan(g[e - 1], x[e], o) = Done(t)
    PROVE  HandsOut(x, o, t, TokenOf(x))
  <1>1. t \in Ends /\ t # "string"
    BY DEF Ends, Tokens
  <1>2. x[1] \notin White
    BY DEF White
  <1>3. e \in {Len(x) - 1, Len(x)} /\ e # Len(x)
    BY SpacedLength
  <1>4. Walk(x, o, [i \in 0..e - 1 |-> {g[i]}], e, t)
    BY <1>1, <1>2, <1>3, SingleWalk
  <1>5. WithEscapes(t, TokenOf(x)) = t /\ Unquoted(t, TokenOf(x)) = TokenOf(x)
    BY <1>1, Plain, Zenon
  <1> QED BY <1>4, <1>5, HandsOutIs, Zenon

LEMMA TrueWalk ==
    ASSUME NEW x \in Seq(Char), NEW o, Spaced(x), Len(x) = 5,
           x[1] = "t" /\ x[2] = "r" /\ x[3] = "u" /\ x[4] = "e"
    PROVE  HandsOut(x, o, "bool", TokenOf(x))
  <1> DEFINE g == [i \in 0..3 |-> IF i = 0 THEN "start" ELSE IF i = 1 THEN "t" ELSE IF i = 2 THEN "tr" ELSE "tru"]
  <1>1. g[0] = "start" /\ g[1] = "t" /\ g[2] = "tr" /\ g[3] = "tru"
    OBVIOUS
  <1> HIDE DEF g
  <1>2. \A i \in 1..4 - 1 : g[i] # "start" /\ Scan(g[i - 1], x[i], o) = More(g[i])
    <2> TAKE i \in 1..4 - 1
    <2>1. i = 1 \/ i = 2 \/ i = 3
      OBVIOUS
    <2> QED BY <1>1, <2>1, WordScans
  <1>3. Scan(g[4 - 1], x[4], o) = Done("bool")
    BY <1>1, WordScans
  <1>4. 4 \in Nat /\ 4 + 1 = Len(x) /\ Len(x) > 1 /\ x[1] \in {"t", "f", "n"}
    OBVIOUS
  <1> QED BY <1>1, <1>2, <1>3, <1>4, KeywordWalk

LEMMA FalseWalk ==
    ASSUME NEW x \in Seq(Char), NEW o, Spaced(x), Len(x) = 6,
           x[1] = "f" /\ x[2] = "a" /\ x[3] = "l" /\ x[4] = "s" /\ x[5] = "e"
    PROVE  HandsOut(x, o, "bool", TokenOf(x))
  <1> DEFINE g == [i \in 0..4 |-> IF i = 0 THEN "start" ELSE IF i = 1 THEN "f" ELSE IF i = 2 THEN "fa" ELSE IF i = 3 THEN "fal" ELSE "fals"]
  <1>1. g[0] = "start" /\ g[1] = "f" /\ g[2] = "fa" /\ g[3] = "fal" /\ g[4] = "fals"
    OBVIOUS
  <1> HIDE DEF g
  <1>2. \A i \in 1..5 - 1 : g[i] # "start" /\ Scan(g[i - 1], x[i], o) = More(g[i])
    <2> TAKE i \in 1..5 - 1
    <2>1. i = 1 \/ i = 2 \/ i = 3 \/ i = 4
      OBVIOUS
    <2> QED BY <1>1, <2>1, WordScans
  <1>3. Scan(g[5 - 1], x[5], o) = Done("bool")
    BY <1>1, WordScans
  <1>4. 5 \in Nat /\ 5 + 1 = Len(x) /\ Len(x) > 1 /\ x[1] \in {"t", "f", "n"}
    OBVIOUS
  <1> QED BY <1>1, <1>2, <1>3, <1>4, KeywordWalk

LEMMA NullWalk ==
    ASSUME NEW x \in Seq(Char), NEW o, Spaced(x), Len(x) = 5,
           x[1] = "n" /\ x[2] = "u" /\ x[3] = "l" /\ x[4] = "l"
    PROVE  HandsOut(x, o, "null", TokenOf(x))
  <1> DEFINE g == [i \in 0..3 |-> IF i = 0 THEN "start" ELSE IF i = 1 THEN "n" ELSE IF i = 2 THEN "nu" ELSE "nul"]
  <1>1. g[0] = "start" /\ g[1] = "n" /\ g[2] = "nu" /\ g[3] = "nul"
    OBVIOUS
  <1> HIDE DEF g
  <1>2. \A i \in 1..4 - 1 : g[i] # "start" /\ Scan(g[i - 1], x[i], o) = More(g[i])
    <2> TAKE i \in 1..4 - 1
    <2>1. i = 1 \/ i = 2 \/ i = 3
      OBVIOUS
    <2> QED BY <1>1, <2>1, WordScans
  <1>3. Scan(g[4 - 1], x[4], o) = Done("null")
    BY <1>1, WordScans
  <1>4. 4 \in Nat /\ 4 + 1 = Len(x) /\ Len(x) > 1 /\ x[1] \in {"t", "f", "n"}
    OBVIOUS
  <1> QED BY <1>1, <1>2, <1>3, <1>4, KeywordWalk

\* The keywords, letter by letter.
LEMMA KeywordLetters ==
    ASSUME NEW s, NEW kind, kind \in DOMAIN Words, s \in Words[kind]
    PROVE  \/ kind = "bool" /\ Len(s) = 4 /\ s[1] = "t" /\ s[2] = "r" /\ s[3] = "u" /\ s[4] = "e"
           \/ kind = "bool" /\ Len(s) = 5 /\ s[1] = "f" /\ s[2] = "a" /\ s[3] = "l" /\ s[4] = "s" /\ s[5] = "e"
           \/ kind = "null" /\ Len(s) = 4 /\ s[1] = "n" /\ s[2] = "u" /\ s[3] = "l" /\ s[4] = "l"
  <1>1. \/ kind = "bool" /\ (s = <<"t", "r", "u", "e">> \/ s = <<"f", "a", "l", "s", "e">>)
        \/ kind = "null" /\ s = <<"n", "u", "l", "l">>
    BY DEF Words
  <1>2. s = <<"t", "r", "u", "e">> => Len(s) = 4 /\ s[1] = "t" /\ s[2] = "r" /\ s[3] = "u" /\ s[4] = "e"
    OBVIOUS
  <1>3. s = <<"f", "a", "l", "s", "e">> => Len(s) = 5 /\ s[1] = "f" /\ s[2] = "a" /\ s[3] = "l" /\ s[4] = "s" /\ s[5] = "e"
    OBVIOUS
  <1>4. s = <<"n", "u", "l", "l">> => Len(s) = 4 /\ s[1] = "n" /\ s[2] = "u" /\ s[3] = "l" /\ s[4] = "l"
    OBVIOUS
  <1> QED BY <1>1, <1>2, <1>3, <1>4, Zenon

\* A keyword: its letters are those the scanner wants.
LEMMA WordWalk ==
    ASSUME NEW x \in Seq(Char), NEW o, Spaced(x), NEW kind,
           kind \in DOMAIN Words, TokenOf(x) \in Words[kind]
    PROVE  HandsOut(x, o, kind, TokenOf(x))
  <1> DEFINE s == TokenOf(x)
  <1>1. Len(s) = Len(x) - 1 /\ Len(x) \in Nat /\ \A k \in 1..Len(x) - 1 : s[k] = x[k]
    BY Front
  <1>2. \/ kind = "bool" /\ Len(s) = 4 /\ s[1] = "t" /\ s[2] = "r" /\ s[3] = "u" /\ s[4] = "e"
        \/ kind = "bool" /\ Len(s) = 5 /\ s[1] = "f" /\ s[2] = "a" /\ s[3] = "l" /\ s[4] = "s" /\ s[5] = "e"
        \/ kind = "null" /\ Len(s) = 4 /\ s[1] = "n" /\ s[2] = "u" /\ s[3] = "l" /\ s[4] = "l"
    BY KeywordLetters, Zenon
  <1> HIDE DEF s
  <1>3. CASE kind = "bool" /\ Len(s) = 4 /\ s[1] = "t" /\ s[2] = "r" /\ s[3] = "u" /\ s[4] = "e"
    <2>1. Len(x) = 5
      BY <1>1, <1>3, OneMore, Zenon
    <2>2. \A k \in 1..4 : x[k] = s[k]
      BY <1>1, <2>1
    <2>3. Len(x) = 5 /\ x[1] = "t" /\ x[2] = "r" /\ x[3] = "u" /\ x[4] = "e"
      BY <2>1, <2>2, <1>3
    <2> QED BY <1>3, <2>3, TrueWalk
  <1>4. CASE kind = "bool" /\ Len(s) = 5 /\ s[1] = "f" /\ s[2] = "a" /\ s[3] = "l" /\ s[4] = "s" /\ s[5] = "e"
    <2>1. Len(x) = 6
      BY <1>1, <1>4, OneMore, Zenon
    <2>2. \A k \in 1..5 : x[k] = s[k]
      BY <1>1, <2>1
    <2>3. Len(x) = 6 /\ x[1] = "f" /\ x[2] = "a" /\ x[3] = "l" /\ x[4] = "s" /\ x[5] = "e"
      BY <2>1, <2>2, <1>4
    <2> QED BY <1>4, <2>3, FalseWalk
  <1>5. CASE kind = "null" /\ Len(s) = 4 /\ s[1] = "n" /\ s[2] = "u" /\ s[3] = "l" /\ s[4] = "l"
    <2>1. Len(x) = 5
      BY <1>1, <1>5, OneMore, Zenon
    <2>2. \A k \in 1..4 : x[k] = s[k]
      BY <1>1, <2>1
    <2>3. Len(x) = 5 /\ x[1] = "n" /\ x[2] = "u" /\ x[3] = "l" /\ x[4] = "l"
      BY <2>1, <2>2, <1>5
    <2> QED BY <1>5, <2>3, NullWalk
  <1> QED BY <1>2, <1>3, <1>4, <1>5

-----------------------------------------------------------------------------
\* All of a sequence but its first element.
LEMMA FromPart ==
    ASSUME NEW s \in Seq(Char), NEW i \in 1..Len(s) + 1
    PROVE  LET u == From(s, i)
           IN  /\ u \in Seq(Char) /\ Len(u) = Len(s) - i + 1 /\ Len(s) \in Nat
               /\ \A k \in 1..Len(s) - i + 1 : u[k] = s[i + k - 1]
  <1>1. Len(s) \in Nat /\ Len(s) \in i - 1..Len(s)
    BY LenProperties
  <1> QED BY <1>1, Piece DEF From

\* An integer of JSON has its digits behind the first place or the second.
LEMMA IntSplit ==
    ASSUME NEW s \in Seq(Char), IsInt(s)
    PROVE  \E d \in {1, 2} : IntTo(s, d, Len(s))
  <1> DEFINE n == Len(s)
             u == From(s, 2)
             d == Unsigned(s, {"-"})
  <1>1. n \in Nat
    BY LenProperties
  <1>2. d # <<>> /\ AllIn(d, Digit) /\ (d[1] = "0" => Len(d) = 1)
    BY DEF IsInt, IsDigits
  <1>3. CASE s # <<>> /\ s[1] = "-"
    <2>1. d = u
      BY <1>3 DEF Unsigned
    <2>2. n >= 1
      BY <1>1, <1>3, EmptySeq
    <2>3. 2 \in 1..n + 1
      BY <1>1, <2>2
    <2> HIDE DEF u, d
    <2>4. u \in Seq(Char) /\ Len(u) = n - 2 + 1 /\ \A k \in 1..n - 2 + 1 : u[k] = s[2 + k - 1]
      BY <2>3, FromPart DEF u
    <2>5. Len(u) = n - 1 /\ \A k \in 1..n - 1 : u[k] = s[k + 1]
      BY <1>1, <2>4
    <2>6. n # 1
      BY <1>2, <2>1, <2>4, <2>5, EmptySeq
    <2>7. n >= 2
      <3>1. \A a \in Nat : a >= 1 /\ a # 1 => a >= 2
        OBVIOUS
      <3> QED BY <1>1, <2>2, <2>6, <3>1, Zenon
    <2>8. \A k \in 2..n : s[k] \in Digit
      <3> TAKE k \in 2..n
      <3>1. k - 1 \in 1..n - 1 /\ (k - 1) + 1 = k
        BY <1>1
      <3> QED BY <1>2, <2>1, <2>5, <3>1 DEF AllIn
    <2>9. s[2] = "0" => n = 2
      <3>1. u[1] = s[1 + 1]
        BY <1>1, <2>5, <2>7
      <3> QED BY <1>1, <1>2, <2>1, <2>5, <3>1
    <2>10. n \in 2..n
      BY <1>1, <2>7
    <2>11. IntTo(s, 2, n)
      BY <1>3, <2>8, <2>9, <2>10 DEF IntTo
    <2> QED BY <2>11
  <1>4. CASE ~(s # <<>> /\ s[1] = "-")
    <2>1. d = s
      BY <1>4 DEF Unsigned
    <2> HIDE DEF d
    <2>2. n >= 1
      BY <1>1, <1>2, <2>1, EmptySeq
    <2>3. n \in 1..n
      BY <1>1, <2>2
    <2>4. IntTo(s, 1, n)
      BY <1>1, <1>2, <2>1, <2>2, <2>3 DEF IntTo, AllIn
    <2> QED BY <2>4
  <1> QED BY <1>3, <1>4

\* And so it has in front of more.
LEMMA IntToSplit ==
    ASSUME NEW s \in Seq(Char), NEW i \in 1..Len(s), IsInt(SubSeq(s, 1, i))
    PROVE  \E d \in {1, 2} : IntTo(s, d, i)
  <1> DEFINE p == SubSeq(s, 1, i)
  <1>1. Len(s) \in Nat
    BY LenProperties
  <1>2. p \in Seq(Char) /\ Len(p) = i /\ \A k \in 1..i : p[k] = s[k]
    BY <1>1, Piece
  <1> HIDE DEF p
  <1>3. PICK d \in {1, 2} : IntTo(p, d, Len(p))
    BY <1>2, IntSplit DEF p
  <1>4. IntTo(s, d, i)
    BY <1>1, <1>2, <1>3 DEF IntTo
  <1> QED BY <1>4

\* A fraction of JSON behind place i.
LEMMA FracToSplit ==
    ASSUME NEW s \in Seq(Char), NEW i \in 1..Len(s), NEW j \in 1..Len(s), i < j,
           IsFrac(SubSeq(s, i + 1, j))
    PROVE  FracTo(s, i, j)
  <1> DEFINE p == SubSeq(s, i + 1, j)
             u == From(p, 2)
  <1>1. Len(s) \in Nat /\ i + 1 \in 1..Len(s) + 1 /\ j \in (i + 1) - 1..Len(s)
    BY LenProperties
  <1>2. p \in Seq(Char) /\ Len(p) = j - (i + 1) + 1
        /\ \A k \in 1..j - (i + 1) + 1 : p[k] = s[(i + 1) + k - 1]
    BY <1>1, Piece
  <1>3. Len(p) = j - i /\ \A k \in 1..j - i : p[k] = s[i + k]
    BY <1>1, <1>2
  <1> HIDE DEF p
  <1>4. p[1] = "." /\ u # <<>> /\ AllIn(u, Digit)
    BY DEF IsFrac, IsDigits, p
  <1>5. 2 \in 1..Len(p) + 1
    BY <1>1, <1>3
  <1> HIDE DEF u
  <1>6. u \in Seq(Char) /\ Len(u) = Len(p) - 2 + 1 /\ \A k \in 1..Len(p) - 2 + 1 : u[k] = p[2 + k - 1]
    BY <1>2, <1>5, FromPart DEF u
  <1>7. Len(u) = j - i - 1 /\ \A k \in 1..j - i - 1 : u[k] = p[k + 1]
    BY <1>1, <1>3, <1>6
  <1>8. j # i + 1
    BY <1>1, <1>4, <1>6, <1>7, EmptySeq
  <1>9. j \in i + 2..Len(s)
    BY <1>1, <1>8
  <1>10. s[i + 1] = "."
    BY <1>1, <1>3, <1>4
  <1>11. \A k \in i + 2..j : s[k] \in Digit
    <2> TAKE k \in i + 2..j
    <2>1. k - i - 1 \in 1..j - i - 1 /\ (k - i - 1) + 1 \in 1..j - i /\ i + ((k - i - 1) + 1) = k
      BY <1>1, <1>9
    <2>2. u[k - i - 1] = s[k]
      BY <1>3, <1>7, <2>1
    <2>3. u[k - i - 1] \in Digit
      BY <1>4, <1>7, <2>1 DEF AllIn
    <2> QED BY <2>2, <2>3
  <1> QED BY <1>9, <1>10, <1>11 DEF FracTo

\* An exponent of JSON behind place j.
LEMMA ExpFromSplit ==
    ASSUME NEW s \in Seq(Char), NEW j \in 1..Len(s), j < Len(s), IsExp(From(s, j + 1))
    PROVE  \E e : ExpFrom(s, j, e)
  <1> DEFINE n == Len(s)
             p == From(s, j + 1)
             u == From(p, 2)
             v == From(u, 2)
             d == Unsigned(u, {"+", "-"})
  <1>1. n \in Nat /\ j + 1 \in 1..n + 1 /\ j \in Nat
    BY LenProperties
  <1>2. p \in Seq(Char) /\ Len(p) = n - (j + 1) + 1
        /\ \A k \in 1..n - (j + 1) + 1 : p[k] = s[(j + 1) + k - 1]
    BY <1>1, FromPart
  <1> HIDE DEF p
  <1>3. Len(p) = n - j /\ \A k \in 1..n - j : p[k] = s[j + k]
    BY <1>1, <1>2
  <1>4. p[1] \in {"e", "E"} /\ d # <<>> /\ AllIn(d, Digit)
    BY DEF IsExp, IsDigits, p
  <1>5. 2 \in 1..Len(p) + 1
    BY <1>1, <1>3
  <1>6. u \in Seq(Char) /\ Len(u) = Len(p) - 2 + 1 /\ \A k \in 1..Len(p) - 2 + 1 : u[k] = p[2 + k - 1]
    BY <1>2, <1>5, FromPart
  <1> HIDE DEF u
  <1>7. Len(u) = n - j - 1 /\ \A k \in 1..n - j - 1 : u[k] = s[j + 1 + k]
    <2>1. Len(u) = n - j - 1 /\ \A k \in 1..n - j - 1 : u[k] = p[k + 1] /\ k + 1 \in 1..n - j
      BY <1>1, <1>3, <1>6
    <2>2. \A k \in 1..n - j - 1 : u[k] = s[j + (k + 1)] /\ j + (k + 1) = j + 1 + k
      BY <1>1, <1>3, <2>1
    <2> QED BY <2>1, <2>2
  <1>8. s[j + 1] \in {"e", "E"}
    BY <1>1, <1>3, <1>4
  <1>9. CASE u # <<>> /\ u[1] \in {"+", "-"}
    <2>1. d = v
      BY <1>9 DEF Unsigned
    <2>2. Len(u) \in Nat /\ Len(u) >= 1
      BY <1>6, <1>9, EmptySeq, LenProperties
    <2>3. 2 \in 1..Len(u) + 1
      BY <2>2
    <2> HIDE DEF v, d
    <2>4. v \in Seq(Char) /\ Len(v) = Len(u) - 2 + 1 /\ \A k \in 1..Len(u) - 2 + 1 : v[k] = u[2 + k - 1]
      BY <1>6, <2>3, FromPart DEF v
    <2>5. Len(v) = Len(u) - 1 /\ \A k \in 1..Len(u) - 1 : v[k] = u[k + 1]
      BY <2>2, <2>4
    <2>6. Len(u) # 1
      BY <1>4, <2>1, <2>4, <2>5, EmptySeq
    <2>7. j + 3 <= n
      BY <1>1, <1>7, <2>2, <2>6
    <2>8. s[j + 2] \in {"+", "-"}
      <3>1. 1 \in 1..n - j - 1 /\ j + 1 + 1 = j + 2
        BY <1>1, <2>7
      <3> QED BY <1>7, <1>9, <3>1
    <2>9. \A k \in j + 3..n : s[k] \in Digit
      <3> TAKE k \in j + 3..n
      <3>1. /\ k - j - 2 \in 1..Len(u) - 1 /\ (k - j - 2) + 1 \in 1..n - j - 1
            /\ j + 1 + ((k - j - 2) + 1) = k
        BY <1>1, <1>7
      <3>2. v[k - j - 2] = s[k]
        BY <1>7, <2>5, <3>1
      <3>3. v[k - j - 2] \in Digit
        BY <1>4, <2>1, <2>5, <3>1 DEF AllIn
      <3> QED BY <3>2, <3>3
    <2>10. ExpFrom(s, j, j + 3)
      BY <1>8, <2>7, <2>8, <2>9 DEF ExpFrom
    <2> QED BY <2>10
  <1>10. CASE ~(u # <<>> /\ u[1] \in {"+", "-"})
    <2>1. d = u
      BY <1>10 DEF Unsigned
    <2> HIDE DEF d
    <2>2. Len(u) \in Nat /\ Len(u) >= 1
      BY <1>4, <1>6, <2>1, EmptySeq, LenProperties
    <2>3. j + 2 <= n
      BY <1>1, <1>7, <2>2
    <2>4. \A k \in j + 2..n : s[k] \in Digit
      <3> TAKE k \in j + 2..n
      <3>1. k - j - 1 \in 1..n - j - 1 /\ j + 1 + (k - j - 1) = k
        BY <1>1
      <3> QED BY <1>4, <1>7, <2>1, <3>1 DEF AllIn
    <2>5. j + 2 # j + 3
      BY <1>1
    <2>6. ExpFrom(s, j, j + 2)
      BY <1>8, <2>3, <2>4, <2>5 DEF ExpFrom
    <2> QED BY <2>6
  <1> QED BY <1>9, <1>10

-----------------------------------------------------------------------------
\* A number and its parts: the digits of an integer from d to i, a fraction
\* up to j, an exponent up to the end.
NumberCut(s, d, i, j) ==
    /\ d \in {1, 2} /\ i \in 1..Len(s) /\ j \in i..Len(s)
    /\ IntTo(s, d, i) /\ (i = j \/ FracTo(s, i, j))
    /\ j = Len(s) \/ \E e : ExpFrom(s, j, e)

\* The mode behind the first q characters of a number.
NumberAt(s, d, i, j, q) ==
    IF q = 0 THEN "start"
    ELSE IF q < d THEN "minus"
    ELSE IF q <= i THEN IF s[d] = "0" THEN "zero" ELSE "int"
    ELSE IF q <= j THEN IF q = i + 1 THEN "point" ELSE "frac"
    ELSE IF q = j + 1 THEN "exp"
    ELSE IF q = j + 2 /\ s[q] \in {"+", "-"} THEN "sign"
    ELSE "power"

\* An integer of JSON is cut into an integer and nothing else.
LEMMA IntCut ==
    ASSUME NEW s \in Seq(Char), IsInt(s)
    PROVE  \E d : NumberCut(s, d, Len(s), Len(s))
  <1>1. PICK d \in {1, 2} : IntTo(s, d, Len(s))
    BY IntSplit
  <1>2. Len(s) \in 1..Len(s) /\ Len(s) \in Len(s)..Len(s)
    BY <1>1, LenProperties DEF IntTo
  <1>3. NumberCut(s, d, Len(s), Len(s))
    BY <1>1, <1>2, Zenon DEF NumberCut
  <1> QED BY <1>3

\* Another number of JSON has a fraction or an exponent.
LEMMA RealCut ==
    ASSUME NEW s \in Seq(Char), IsReal(s)
    PROVE  \E d, i, j : NumberCut(s, d, i, j) /\ i < Len(s)
  <1>1. Len(s) \in Nat
    BY LenProperties
  <1>2. PICK i \in 1..Len(s), j \in 1..Len(s) :
           /\ i <= j /\ i < Len(s)
           /\ IsInt(SubSeq(s, 1, i))
           /\ i < j => IsFrac(SubSeq(s, i + 1, j))
           /\ j < Len(s) => IsExp(From(s, j + 1))
    BY DEF IsReal
  <1>3. PICK d \in {1, 2} : IntTo(s, d, i)
    BY <1>2, IntToSplit
  <1>4. i = j \/ FracTo(s, i, j)
    <2>1. i = j \/ i < j
      BY <1>1, <1>2
    <2> QED BY <1>2, <2>1, FracToSplit
  <1>5. j = Len(s) \/ \E e : ExpFrom(s, j, e)
    <2>1. j = Len(s) \/ j < Len(s)
      BY <1>1
    <2> QED BY <1>2, <2>1, ExpFromSplit
  <1>6. j \in i..Len(s)
    BY <1>1, <1>2
  <1>7. NumberCut(s, d, i, j)
    BY <1>3, <1>4, <1>5, <1>6, Zenon DEF NumberCut
  <1> QED BY <1>2, <1>7

\* The scanner goes on in these ways.
LEMMA NumberTakes ==
    ASSUME NEW m \in NumberModes, NEW c \in Char, NEW to, NumberStep(m, c, to)
    PROVE  ScanNumber(m, c) = More(to)
  <1>1. CASE m = "minus" /\ c = "0" /\ to = "zero"
    BY <1>1 DEF ScanNumber
  <1>2. CASE c \in Digit /\ m # "zero" /\ ~(c = "0" /\ m = "minus") /\ to = DigitTo[m]
    BY <1>2 DEF ScanNumber, Digit
  <1>3. CASE m \in {"zero", "int"} /\ c = "." /\ to = "point"
    BY <1>3 DEF ScanNumber, Digit
  <1>4. CASE m \in {"zero", "int", "frac"} /\ c \in {"e", "E"} /\ to = "exp"
    BY <1>4 DEF ScanNumber, Digit
  <1>5. CASE m = "exp" /\ c \in {"+", "-"} /\ to = "sign"
    BY <1>5 DEF ScanNumber, Digit
  <1>6. /\ DigitTo["minus"] = "int" /\ DigitTo["int"] = "int" /\ DigitTo["point"] = "frac"
        /\ DigitTo["frac"] = "frac" /\ DigitTo["exp"] = "power" /\ DigitTo["sign"] = "power"
        /\ DigitTo["power"] = "power"
    BY DEF DigitTo
  <1> QED BY <1>1, <1>2, <1>3, <1>4, <1>5, <1>6 DEF NumberStep, NumberModes

\* So each character of a number takes it from mode to mode.
LEMMA NumberAtStep ==
    ASSUME NEW s \in Seq(Char), NEW d, NEW i, NEW j, NumberCut(s, d, i, j),
           NEW q \in 1..Len(s)
    PROVE  /\ NumberAt(s, d, i, j, q) \in NumberModes
           /\ q = 1 => s[1] \in Digit \cup {"-"}
           /\ q = 1 => NumberAt(s, d, i, j, 1) =
                 IF s[1] = "-" THEN "minus" ELSE IF s[1] = "0" THEN "zero" ELSE "int"
           /\ q # 1 => NumberStep(NumberAt(s, d, i, j, q - 1), s[q], NumberAt(s, d, i, j, q))
  <1> DEFINE n == Len(s)
             At(k) == NumberAt(s, d, i, j, k)
  <1>1. /\ n \in Nat /\ d \in {1, 2} /\ i \in d..n /\ j \in i..n /\ q \in Nat
        /\ \A k \in d..i : s[k] \in Digit
        /\ d = 2 => s[1] = "-"
        /\ s[d] = "0" => i = d
    BY LenProperties DEF NumberCut, IntTo
  <1>2. i # j => /\ j \in i + 2..n /\ s[i + 1] = "."
                 /\ \A k \in i + 2..j : s[k] \in Digit
    BY DEF NumberCut, FracTo
  <1>3. At(q) \in NumberModes
    <2>1. q # 0
      BY <1>1
    <2> QED BY <2>1, Zenon DEF NumberAt, NumberModes
  <1>4. "-" \notin Digit /\ "+" \notin Digit
    BY DEF Digit
  <1>5. CASE q = 1
    <2>1. CASE d = 1
      <3>1. s[1] \in Digit
        BY <1>1, <2>1
      <3>2. At(1) = IF s[1] = "0" THEN "zero" ELSE "int"
        BY <1>1, <2>1 DEF NumberAt
      <3> QED BY <1>3, <1>4, <1>5, <3>1, <3>2
    <2>2. CASE d = 2
      <3>1. At(1) = "minus"
        BY <2>2 DEF NumberAt
      <3> QED BY <1>1, <1>3, <1>5, <2>2, <3>1
    <2> QED BY <1>1, <2>1, <2>2
  <1>6. CASE q # 1 /\ q <= i
    <2>1. d <= q /\ s[q] \in Digit
      BY <1>1, <1>6
    <2>2. At(q) = IF s[d] = "0" THEN "zero" ELSE "int"
      BY <1>1, <1>6, <2>1 DEF NumberAt
    <2>3. CASE q = d
      <3>1. At(q - 1) = "minus"
        BY <1>1, <1>6, <2>3 DEF NumberAt
      <3> QED BY <1>3, <1>6, <2>1, <2>2, <2>3, <3>1 DEF NumberStep
    <2>4. CASE q # d
      <3>1. d <= q - 1 /\ q - 1 <= i /\ q - 1 # 0 /\ s[d] # "0"
        BY <1>1, <1>6, <2>1, <2>4
      <3>2. At(q - 1) = "int"
        BY <1>1, <3>1 DEF NumberAt
      <3> QED BY <1>3, <1>6, <2>1, <2>2, <3>1, <3>2 DEF NumberStep
    <2> QED BY <2>3, <2>4
  <1>7. CASE i < q /\ q <= j
    <2>1. j \in i + 2..n /\ s[i + 1] = "." /\ \A k \in i + 2..j : s[k] \in Digit
      BY <1>1, <1>2, <1>7
    <2>2. At(q) = IF q = i + 1 THEN "point" ELSE "frac"
      BY <1>1, <1>7 DEF NumberAt
    <2>3. CASE q = i + 1
      <3>1. q - 1 = i /\ d <= i /\ i # 0
        BY <1>1, <2>3
      <3>2. At(q - 1) \in {"zero", "int"}
        BY <1>1, <3>1 DEF NumberAt
      <3> QED BY <1>1, <1>3, <1>7, <2>1, <2>2, <2>3, <3>2 DEF NumberStep
    <2>4. CASE q # i + 1
      <3>1. i < q - 1 /\ q - 1 <= j /\ q \in i + 2..j /\ d <= q - 1 /\ q - 1 # 0 /\ q # 1
        BY <1>1, <1>7, <2>4
      <3>2. At(q - 1) \in {"point", "frac"}
        BY <1>1, <3>1 DEF NumberAt
      <3> QED BY <1>3, <2>1, <2>2, <2>4, <3>1, <3>2 DEF NumberStep
    <2> QED BY <2>3, <2>4
  <1>8. CASE j < q
    <2>1. PICK e : ExpFrom(s, j, e)
      BY <1>1, <1>8 DEF NumberCut
    <2>2. /\ e \in {j + 2, j + 3} /\ e <= n
          /\ s[j + 1] \in {"e", "E"}
          /\ e = j + 3 => s[j + 2] \in {"+", "-"}
          /\ \A k \in e..n : s[k] \in Digit
      BY <2>1 DEF ExpFrom
    <2>3. CASE q = j + 1
      <3>1. q - 1 = j /\ d <= j /\ j # 0 /\ q # 1
        BY <1>1, <2>3
      <3>2. At(q - 1) \in {"zero", "int", "frac"}
        BY <1>1, <1>2, <3>1 DEF NumberAt
      <3>3. At(q) = "exp"
        BY <1>1, <2>3 DEF NumberAt
      <3> QED BY <1>3, <2>2, <2>3, <3>1, <3>2, <3>3 DEF NumberStep
    <2>4. CASE q = j + 2
      <3>1. At(q) = IF s[q] \in {"+", "-"} THEN "sign" ELSE "power"
        BY <1>1, <2>4 DEF NumberAt
      <3>2. At(q - 1) = "exp"
        BY <1>1, <2>4 DEF NumberAt
      <3>3. s[q] \in Digit \cup {"+", "-"}
        BY <1>1, <2>2, <2>4
      <3>4. q # 1
        BY <1>1, <2>4
      <3> QED BY <1>3, <3>1, <3>2, <3>3, <3>4 DEF NumberStep
    <2>5. CASE j + 2 < q
      <3>1. At(q) = "power"
        BY <1>1, <2>5 DEF NumberAt
      <3>2. At(q - 1) \in {"sign", "power"}
        BY <1>1, <2>5 DEF NumberAt
      <3>3. s[q] \in Digit /\ q # 1
        BY <1>1, <2>2, <2>5
      <3> QED BY <1>3, <3>1, <3>2, <3>3 DEF NumberStep
    <2>6. q = j + 1 \/ q = j + 2 \/ j + 2 < q
      BY <1>1, <1>8
    <2> QED BY <2>3, <2>4, <2>5, <2>6
  <1>9. q = 1 \/ (q # 1 /\ q <= i) \/ (i < q /\ q <= j) \/ j < q
    BY <1>1
  <1> QED BY <1>5, <1>6, <1>7, <1>8, <1>9

\* The mode behind the last character of a number is one a number may end in.
LEMMA NumberAtEnd ==
    ASSUME NEW s \in Seq(Char), NEW d, NEW i, NEW j, NumberCut(s, d, i, j)
    PROVE  LET m == NumberAt(s, d, i, j, Len(s))
           IN  /\ i = Len(s) => m \in {"zero", "int"}
               /\ i < Len(s) => m \in {"frac", "power"}
  <1> DEFINE n == Len(s)
             At(k) == NumberAt(s, d, i, j, k)
  <1>1. n \in Nat /\ d \in {1, 2} /\ i \in d..n /\ j \in i..n
    BY LenProperties DEF NumberCut, IntTo
  <1>2. CASE i = n
    BY <1>1, <1>2 DEF NumberAt
  <1>3. CASE i < n /\ j = n
    <2>1. n \in i + 2..n
      BY <1>1, <1>3 DEF NumberCut, FracTo
    <2>2. At(n) = "frac"
      BY <1>1, <1>3, <2>1 DEF NumberAt
    <2> QED BY <1>3, <2>2
  <1>4. CASE i < n /\ j # n
    <2>1. PICK e : ExpFrom(s, j, e)
      BY <1>4 DEF NumberCut
    <2>2. /\ e \in {j + 2, j + 3} /\ e <= n
          /\ \A k \in e..n : s[k] \in Digit
      BY <2>1 DEF ExpFrom
    <2>3. CASE n = j + 2
      <3>1. s[n] \in Digit
        BY <1>1, <2>2, <2>3
      <3>2. s[n] \notin {"+", "-"}
        BY <3>1 DEF Digit
      <3>3. At(n) = "power"
        BY <1>1, <1>4, <2>3, <3>2 DEF NumberAt
      <3> QED BY <1>1, <1>4, <3>3
    <2>4. CASE j + 2 < n
      <3>1. At(n) = "power"
        BY <1>1, <1>4, <2>4 DEF NumberAt
      <3> QED BY <1>1, <1>4, <3>1
    <2> QED BY <1>1, <2>2, <2>3, <2>4
  <1> QED BY <1>1, <1>2, <1>3, <1>4

\* A number, with a space behind it, is handed out by a walk of one mode a
\* place.
LEMMA NumberWalk ==
    ASSUME NEW x \in Seq(Char), NEW o, Spaced(x), NEW d, NEW i, NEW j, NEW t,
           NumberCut(TokenOf(x), d, i, j),
           t = IF i = Len(TokenOf(x)) THEN "integer" ELSE "double"
    PROVE  HandsOut(x, o, t, TokenOf(x))
  <1> DEFINE s == TokenOf(x)
             n == Len(x)
             g == [q \in 0..n - 1 |-> NumberAt(s, d, i, j, q)]
  <1>1. s \in Seq(Char) /\ Len(s) = n - 1 /\ n \in Nat /\ \A k \in 1..n - 1 : s[k] = x[k]
    BY Front, Zenon
  <1>2. n > 1
    BY SpacedLength
  <1> HIDE DEF s
  <1>3. NumberCut(s, d, i, j) /\ t = IF i = Len(s) THEN "integer" ELSE "double"
    BY DEF s
  <1>4. \A q \in 0..n - 1 : g[q] = NumberAt(s, d, i, j, q)
    OBVIOUS
  <1> HIDE DEF g
  <1>5. g[0] = "start" /\ 0 \in 0..n - 1
    BY <1>1, <1>2, <1>4 DEF NumberAt
  <1>6. t \in Ends /\ t # "string" /\ " " \in Char /\ " " \notin Digit
    BY <1>3 DEF Ends, Tokens, Char, White, Digit
  <1>7. x[1] \in Digit \cup {"-"} /\ x[1] = s[1]
    <2>1. 1 \in 1..Len(s) /\ 1 \in 1..n - 1
      BY <1>1, <1>2
    <2>2. s[1] \in Digit \cup {"-"}
      BY <1>1, <1>3, <2>1, NumberAtStep
    <2> QED BY <1>1, <2>1, <2>2
  <1>8. x[1] \notin White
    BY <1>7 DEF White, Digit
  <1>9. ASSUME NEW q \in 1..n - 1
        PROVE  g[q] # "start" /\ Scan(g[q - 1], x[q], o) = More(g[q])
    <2>1. q \in 1..Len(s) /\ q - 1 \in 0..n - 1 /\ q \in 0..n - 1 /\ s[q] = x[q] /\ s[q] \in Char
      <3>1. q \in 1..Len(s)
        BY <1>1
      <3>2. q - 1 \in 0..n - 1 /\ q \in 0..n - 1
        BY <1>1
      <3>3. s[q] \in Char
        BY <1>1, <3>1, ElementOfSeq, Zenon
      <3> QED BY <1>1, <3>1, <3>2, <3>3, Zenon
    <2>2. g[q] = NumberAt(s, d, i, j, q) /\ g[q - 1] = NumberAt(s, d, i, j, q - 1)
      BY <1>4, <2>1
    <2>3. g[q] \in NumberModes
      BY <1>1, <1>3, <2>1, <2>2, NumberAtStep
    <2>4. g[q] # "start"
      BY <2>3 DEF NumberModes
    <2>5. CASE q = 1
      <3>1. g[0] = "start" /\ g[1] = IF x[1] = "-" THEN "minus" ELSE IF x[1] = "0" THEN "zero" ELSE "int"
        BY <1>1, <1>3, <1>5, <1>7, <2>1, <2>2, <2>5, NumberAtStep
      <3>2. ScanStart(x[1], o) = More(g[1])
        BY <1>7, <3>1 DEF ScanStart, Punctuation, Digit
      <3>3. Scan("start", x[1], o) = More(g[1])
        BY <3>2, Dispatch, Zenon
      <3> QED BY <2>4, <2>5, <3>1, <3>3
    <2>6. CASE q # 1
      <3>1. q - 1 \in 1..Len(s)
        BY <1>1, <2>6
      <3>2. g[q - 1] \in NumberModes
        BY <1>1, <1>3, <2>2, <3>1, NumberAtStep
      <3>3. NumberStep(g[q - 1], s[q], g[q])
        BY <1>1, <1>3, <2>1, <2>2, <2>6, NumberAtStep
      <3>4. ScanNumber(g[q - 1], s[q]) = More(g[q])
        BY <2>1, <3>2, <3>3, NumberTakes
      <3>5. Scan(g[q - 1], s[q], o) = More(g[q])
        BY <3>2, <3>4, Dispatch, Zenon
      <3> QED BY <2>1, <2>4, <3>5
    <2> QED BY <2>5, <2>6
  <1>10. Scan(g[n - 1], x[n], o) = DoneBefore(t)
    <2>1. n - 1 \in 0..n - 1 /\ Len(s) = n - 1
      BY <1>1, <1>2
    <2>2. g[n - 1] = NumberAt(s, d, i, j, Len(s))
      BY <1>4, <2>1, Zenon
    <2>3. i = Len(s) \/ i < Len(s)
      BY <1>1, <1>3 DEF NumberCut
    <2>4. \/ t = "integer" /\ g[n - 1] \in {"zero", "int"}
          \/ t = "double" /\ g[n - 1] \in {"frac", "power"}
      BY <1>1, <1>3, <2>1, <2>2, <2>3, NumberAtEnd
    <2>5. \A m \in {"zero", "int", "frac", "power"} : ScanNumber(m, " ") = NumberEnd[m]
      BY <1>6 DEF ScanNumber, Digit
    <2>6. NumberEnd[g[n - 1]] = DoneBefore(t)
      BY <2>4 DEF NumberEnd
    <2>7. g[n - 1] \in NumberModes /\ ScanNumber(g[n - 1], " ") = DoneBefore(t)
      BY <2>4, <2>5, <2>6 DEF NumberModes
    <2>8. x[n] = " "
      BY Zenon DEF Spaced
    <2>9. Scan(g[n - 1], " ", o) = ScanNumber(g[n - 1], " ")
      BY <2>7, Dispatch, Zenon
    <2> QED BY <2>7, <2>8, <2>9, Zenon
  <1>11. Walk(x, o, [q \in 0..n - 1 |-> {g[q]}], n, t)
    <2>1. n \in {Len(x) - 1, Len(x)}
      OBVIOUS
    <2>2. Scan(g[n - 1], x[n], o) = IF n = Len(x) THEN DoneBefore(t) ELSE Done(t)
      BY <1>10
    <2> QED BY <1>5, <1>6, <1>8, <1>9, <2>1, <2>2, SingleWalk
  <1>12. WithEscapes(t, TokenOf(x)) = t /\ Unquoted(t, TokenOf(x)) = TokenOf(x)
    BY <1>6, Plain, Zenon
  <1> QED BY <1>11, <1>12, HandsOutIs, Zenon

-----------------------------------------------------------------------------
\* The mode behind the first r characters of u, one character of a string.
UnitMode(u, r) ==
    IF r = 0 THEN "str"
    ELSE IF u[1] = "\\" THEN IF r = 1 THEN "esc" ELSE HexMode(6 - r)
    ELSE ContMode(Len(u) - r)

\* The scanner goes on in these ways.
LEMMA StringTakes ==
    ASSUME NEW m \in StringModes, NEW c \in Char, NEW o, NEW to, StringStep(m, c, o, to)
    PROVE  ScanString(m, c, o) = More(to)
  <1>1. CASE m = "str" /\ c \notin Control \cup {"\"", "\\"} /\ to = "str"
             /\ (o.validateUTF8 => c \notin HighByte)
    BY <1>1 DEF ScanString
  <1>2. CASE m = "str" /\ c = "\\" /\ to = "esc"
    BY <1>2 DEF ScanString, Control, HighByte
  <1>3. ASSUME m = "str", o.validateUTF8, NEW k \in 2..4, c = Lead(k), to = ContMode(k - 1)
        PROVE  ScanString(m, c, o) = More(to)
    <2>1. \/ c = "lead2" /\ to = "cont1"
          \/ c = "lead3" /\ to = "cont2"
          \/ c = "lead4" /\ to = "cont3"
      BY <1>3 DEF Lead, ContMode
    <2>2. [lead2 |-> "cont1", lead3 |-> "cont2", lead4 |-> "cont3"][c] = to
      BY <2>1
    <2>3. c \in {"lead2", "lead3", "lead4"} /\ c \in HighByte
          /\ c \notin Control \cup {"\"", "\\"}
      BY <2>1 DEF HighByte, Control
    <2>4. ScanString(m, c, o) = More([lead2 |-> "cont1", lead3 |-> "cont2", lead4 |-> "cont3"][c])
      BY <1>3, <2>3 DEF ScanString
    <2> QED BY <2>2, <2>4
  <1>4. CASE m = "esc" /\ c \in Escapable /\ to = "str"
    BY <1>4 DEF ScanString, Escapable
  <1>5. CASE m = "esc" /\ c = "u" /\ to = "hex4"
    BY <1>5 DEF ScanString, Escapable
  <1>6. ASSUME m \in {"hex4", "hex3", "hex2", "hex1"}, c \in Hex,
               to = [hex4 |-> "hex3", hex3 |-> "hex2", hex2 |-> "hex1", hex1 |-> "str"][m]
        PROVE  ScanString(m, c, o) = More(to)
    BY <1>6 DEF ScanString
  <1>7. ASSUME c \in Hex, NEW k \in 2..4, m = HexMode(k), to = HexMode(k - 1)
        PROVE  ScanString(m, c, o) = More(to)
    <2>1. \/ m = "hex2" /\ to = "hex1"
          \/ m = "hex3" /\ to = "hex2"
          \/ m = "hex4" /\ to = "hex3"
      BY <1>7 DEF HexMode
    <2>2. to = [hex4 |-> "hex3", hex3 |-> "hex2", hex2 |-> "hex1", hex1 |-> "str"][m]
      BY <2>1
    <2>3. m \in {"hex4", "hex3", "hex2", "hex1"}
      BY <2>1
    <2> QED BY <1>6, <1>7, <2>2, <2>3
  <1>8. CASE m = "hex1" /\ c \in Hex /\ to = "str"
    <2>1. to = [hex4 |-> "hex3", hex3 |-> "hex2", hex2 |-> "hex1", hex1 |-> "str"][m]
      BY <1>8
    <2> QED BY <1>6, <1>8, <2>1
  <1>9. ASSUME m \in {"cont3", "cont2", "cont1"}, c = "cont",
               to = [cont3 |-> "cont2", cont2 |-> "cont1", cont1 |-> "str"][m]
        PROVE  ScanString(m, c, o) = More(to)
    BY <1>9 DEF ScanString
  <1>10. ASSUME c = "cont", NEW k \in 2..3, m = ContMode(k), to = ContMode(k - 1)
         PROVE  ScanString(m, c, o) = More(to)
    <2>1. \/ m = "cont2" /\ to = "cont1"
          \/ m = "cont3" /\ to = "cont2"
      BY <1>10 DEF ContMode
    <2>2. to = [cont3 |-> "cont2", cont2 |-> "cont1", cont1 |-> "str"][m]
      BY <2>1
    <2>3. m \in {"cont3", "cont2", "cont1"}
      BY <2>1
    <2> QED BY <1>9, <1>10, <2>2, <2>3
  <1>11. CASE m = "cont1" /\ c = "cont" /\ to = "str"
    <2>1. to = [cont3 |-> "cont2", cont2 |-> "cont1", cont1 |-> "str"][m]
      BY <1>11
    <2> QED BY <1>9, <1>11, <2>1
  <1> QED BY <1>1, <1>2, <1>3, <1>4, <1>5, <1>7, <1>8, <1>10, <1>11, Zenon DEF StringStep

\* So each byte of a character of a string takes it from mode to mode, and
\* the last one back to the beginning.
LEMMA UnitSteps ==
    ASSUME NEW u \in Seq(Char), NEW o, IsCharacter(u, o), NEW r \in 1..Len(u)
    PROVE  /\ UnitMode(u, r - 1) \in StringModes
           /\ ScanString(UnitMode(u, r - 1), u[r], o) =
                 More(IF r = Len(u) THEN "str" ELSE UnitMode(u, r))
  <1> DEFINE n == Len(u)
             to == IF r = n THEN "str" ELSE UnitMode(u, r)
  <1>1. n \in Nat /\ r \in Nat /\ 1 <= r /\ r <= n /\ u[r] \in Char
    BY LenProperties, ElementOfSeq
  <1>2. UnitMode(u, r - 1) \in StringModes
    <2>1. \A k : HexMode(k) \in StringModes /\ ContMode(k) \in StringModes
      BY DEF HexMode, ContMode, StringModes
    <2> QED BY <2>1, Zenon DEF UnitMode, StringModes
  <1> SUFFICES StringStep(UnitMode(u, r - 1), u[r], o, to)
    BY <1>1, <1>2, StringTakes
  <1>3. CASE /\ n = 1 /\ u[1] \notin Control \cup {"\"", "\\"}
             /\ o.validateUTF8 => u[1] \notin HighByte
    <2>1. r = 1 /\ UnitMode(u, r - 1) = "str" /\ to = "str"
      <3>1. n = 1
        BY <1>3
      <3>2. r = 1
        BY <1>1, <3>1
      <3> QED BY <3>1, <3>2 DEF UnitMode
    <2> HIDE DEF to
    <2> QED BY <1>3, <2>1 DEF StringStep
  <1>4. CASE n = 2 /\ u[1] = "\\" /\ u[2] \in Escapable
    <2>1. r = 1 \/ r = 2
      BY <1>1, <1>4
    <2>2. r = 1 => UnitMode(u, r - 1) = "str" /\ to = "esc"
      BY <1>4 DEF UnitMode
    <2>3. r = 2 => UnitMode(u, r - 1) = "esc" /\ to = "str"
      BY <1>4 DEF UnitMode
    <2> HIDE DEF to
    <2> QED BY <1>4, <2>1, <2>2, <2>3 DEF StringStep
  <1>5. CASE n = 6 /\ u[1] = "\\" /\ u[2] = "u" /\ AllIn(From(u, 3), Hex)
    <2>1. \A k \in 3..6 : u[k] \in Hex
      <3>1. 3 \in 1..Len(u) + 1
        BY <1>1, <1>5
      <3>2. Len(From(u, 3)) = n - 3 + 1 /\ \A k \in 1..n - 3 + 1 : From(u, 3)[k] = u[3 + k - 1]
        BY <3>1, FromPart
      <3> TAKE k \in 3..6
      <3>3. k - 2 \in 1..n - 3 + 1 /\ 3 + (k - 2) - 1 = k
        BY <1>5
      <3> QED BY <1>5, <3>2, <3>3 DEF AllIn
    <2>2. CASE r = 1
      <3>1. UnitMode(u, r - 1) = "str" /\ to = "esc"
        BY <1>5, <2>2 DEF UnitMode
      <3> QED BY <1>5, <2>2, <3>1 DEF StringStep
    <2>3. CASE r = 2
      <3>1. UnitMode(u, r - 1) = "esc" /\ to = "hex4"
        BY <1>5, <2>3 DEF UnitMode, HexMode
      <3> QED BY <1>5, <2>3, <3>1 DEF StringStep
    <2>4. CASE r \in 3..5
      <3>1. UnitMode(u, r - 1) = HexMode(6 - (r - 1)) /\ to = HexMode(6 - r)
        BY <1>5, <2>4 DEF UnitMode
      <3>2. 6 - (r - 1) \in 2..4 /\ (6 - (r - 1)) - 1 = 6 - r /\ r \in 3..6
        BY <2>4
      <3> HIDE DEF to
      <3>3. \E k \in 2..4 : UnitMode(u, r - 1) = HexMode(k) /\ to = HexMode(k - 1)
        BY <3>1, <3>2
      <3>4. u[r] \in Hex
        BY <2>1, <3>2
      <3> QED BY <3>3, <3>4, Zenon DEF StringStep
    <2>5. CASE r = 6
      <3>1. UnitMode(u, r - 1) = "hex1" /\ to = "str"
        BY <1>5, <2>5 DEF UnitMode, HexMode
      <3>2. u[r] \in Hex
        BY <2>1, <2>5
      <3> QED BY <3>1, <3>2, Zenon DEF StringStep
    <2> QED BY <1>1, <1>5, <2>2, <2>3, <2>4, <2>5
  <1>6. ASSUME o.validateUTF8, NEW b \in 2..4, u[1] = Lead(b), n = b, AllIn(From(u, 2), {"cont"})
        PROVE  StringStep(UnitMode(u, r - 1), u[r], o, to)
    <2>1. \A k \in 2..n : u[k] = "cont"
      <3>1. 2 \in 1..Len(u) + 1
        BY <1>1, <1>6
      <3>2. Len(From(u, 2)) = n - 2 + 1 /\ \A k \in 1..n - 2 + 1 : From(u, 2)[k] = u[2 + k - 1]
        BY <3>1, FromPart
      <3> TAKE k \in 2..n
      <3>3. k - 1 \in 1..n - 2 + 1 /\ 2 + (k - 1) - 1 = k
        BY <1>6
      <3> QED BY <1>6, <3>2, <3>3 DEF AllIn
    <2>2. u[1] # "\\"
      BY <1>6 DEF Lead
    <2>3. CASE r = 1
      <3>1. UnitMode(u, r - 1) = "str" /\ to = ContMode(b - 1)
        BY <1>6, <2>2, <2>3 DEF UnitMode
      <3> HIDE DEF to
      <3>2. \E k \in 2..4 : u[r] = Lead(k) /\ to = ContMode(k - 1)
        BY <1>6, <2>3, <3>1
      <3> QED BY <1>6, <3>1, <3>2, Zenon DEF StringStep
    <2>4. CASE 1 < r /\ r < n
      <3>1. UnitMode(u, r - 1) = ContMode(n - (r - 1)) /\ to = ContMode(n - r)
        BY <1>1, <2>2, <2>4 DEF UnitMode
      <3>2. n - (r - 1) \in 2..3 /\ (n - (r - 1)) - 1 = n - r /\ r \in 2..n
        BY <1>1, <1>6, <2>4
      <3> HIDE DEF to
      <3>3. \E k \in 2..3 : UnitMode(u, r - 1) = ContMode(k) /\ to = ContMode(k - 1)
        BY <3>1, <3>2
      <3>4. u[r] = "cont"
        BY <2>1, <3>2
      <3> QED BY <3>3, <3>4, Zenon DEF StringStep
    <2>5. CASE r = n
      <3>1. UnitMode(u, r - 1) = ContMode(n - (r - 1)) /\ n - (r - 1) = 1 /\ to = "str"
        BY <1>1, <1>6, <2>2, <2>5 DEF UnitMode
      <3>2. u[r] = "cont"
        BY <1>1, <1>6, <2>1, <2>5
      <3> HIDE DEF to
      <3>3. UnitMode(u, r - 1) = "cont1" /\ to = "str"
        BY <3>1 DEF ContMode
      <3> QED BY <3>2, <3>3, Zenon DEF StringStep
    <2> QED BY <1>1, <1>6, <2>3, <2>4, <2>5
  <1>7. CASE /\ o.validateUTF8 /\ u # <<>>
             /\ n = CASE u[1] = "lead2" -> 2 [] u[1] = "lead3" -> 3
                      [] u[1] = "lead4" -> 4 [] OTHER -> 0
             /\ AllIn(From(u, 2), {"cont"})
    <2>1. \/ u[1] = "lead2" /\ n = 2
          \/ u[1] = "lead3" /\ n = 3
          \/ u[1] = "lead4" /\ n = 4
      BY <1>1, <1>7
    <2>2. \E b \in 2..4 : u[1] = Lead(b) /\ n = b
      BY <2>1 DEF Lead
    <2> QED BY <1>6, <1>7, <2>2
  <1> QED BY <1>3, <1>4, <1>5, <1>7, Zenon DEF IsCharacter

\* The characters of a string body b that place q is in, or where one starts.
UnitModes(b, o, starts, q) ==
    IF q = Len(b) + 1 THEN {"str"}
    ELSE {UnitMode(SubSeq(b, c[1], c[2] - 1), q - c[1]) :
             c \in {c \in starts \X starts : /\ c[1] <= q /\ q < c[2]
                                             /\ IsCharacter(SubSeq(b, c[1], c[2] - 1), o)}}

\* The places where the characters of a body start, and the place behind it.
Cut(b, o, starts) ==
    /\ starts \subseteq 1..Len(b) + 1 /\ 1 \in starts /\ Len(b) + 1 \in starts
    /\ \A i \in starts \ {Len(b) + 1} :
          \E j \in starts : i < j /\ IsCharacter(SubSeq(b, i, j - 1), o)

LEMMA BodyCut ==
    ASSUME NEW b \in Seq(Char), NEW o, IsStringBody(b, o)
    PROVE  \E starts : Cut(b, o, starts)
  <1>1. Len(b) \in Nat
    BY LenProperties
  <1>2. PICK inner \in SUBSET (2..Len(b)) :
           LET starts == inner \cup {1, Len(b) + 1}
           IN  \A i \in starts \ {Len(b) + 1} :
                  \E j \in starts : i < j /\ IsCharacter(SubSeq(b, i, j - 1), o)
    BY Zenon DEF IsStringBody
  <1> DEFINE starts == inner \cup {1, Len(b) + 1}
  <1>3. \A i \in starts \ {Len(b) + 1} :
           \E j \in starts : i < j /\ IsCharacter(SubSeq(b, i, j - 1), o)
    BY <1>2
  <1>4. 1 \in starts /\ Len(b) + 1 \in starts
    OBVIOUS
  <1>6. starts \subseteq 1..Len(b) + 1
    <2>1. inner \subseteq 2..Len(b)
      BY Zenon
    <2>2. \A i \in 2..Len(b) : i \in 1..Len(b) + 1
      BY <1>1
    <2>3. 1 \in 1..Len(b) + 1 /\ Len(b) + 1 \in 1..Len(b) + 1
      BY <1>1
    <2> QED BY <2>1, <2>2, <2>3, Zenon
  <1> HIDE DEF starts
  <1>5. Cut(b, o, starts)
    BY <1>3, <1>4, <1>6, Zenon DEF Cut
  <1> QED BY <1>5

\* Where a character starts the scanner is in its mode for that.
LEMMA UnitStart ==
    ASSUME NEW b \in Seq(Char), NEW o, NEW starts, Cut(b, o, starts), NEW q \in starts
    PROVE  "str" \in UnitModes(b, o, starts, q)
  <1>1. CASE q = Len(b) + 1
    BY <1>1 DEF UnitModes
  <1>2. CASE q # Len(b) + 1
    <2>1. PICK j \in starts : q < j /\ IsCharacter(SubSeq(b, q, j - 1), o)
      BY <1>2 DEF Cut
    <2>2. q \in Nat /\ q - q = 0 /\ q <= q
      <3>1. q \in 1..Len(b) + 1
        BY DEF Cut
      <3> QED BY <3>1
    <2> DEFINE c == <<q, j>>
    <2>3. c \in starts \X starts /\ c[1] = q /\ c[2] = j
      OBVIOUS
    <2> HIDE DEF c
    <2>4. UnitMode(SubSeq(b, c[1], c[2] - 1), q - c[1]) = "str"
      BY <2>2, <2>3 DEF UnitMode
    <2>5. c[1] <= q /\ q < c[2] /\ IsCharacter(SubSeq(b, c[1], c[2] - 1), o)
      BY <2>1, <2>2, <2>3
    <2>6. "str" \in {UnitMode(SubSeq(b, c_[1], c_[2] - 1), q - c_[1]) :
             c_ \in {c_ \in starts \X starts : /\ c_[1] <= q /\ q < c_[2]
                                             /\ IsCharacter(SubSeq(b, c_[1], c_[2] - 1), o)}}
      BY <2>3, <2>4, <2>5
    <2> QED BY <1>2, <2>6 DEF UnitModes
  <1> QED BY <1>1, <1>2

\* From each mode of a place the scanner goes on to a mode of the next.
LEMMA UnitModesStep ==
    ASSUME NEW b \in Seq(Char), NEW o, NEW starts, Cut(b, o, starts),
           NEW q \in 1..Len(b), NEW m \in UnitModes(b, o, starts, q)
    PROVE  /\ m \in StringModes
           /\ \E to \in UnitModes(b, o, starts, q + 1) : ScanString(m, b[q], o) = More(to)
  <1>1. Len(b) \in Nat /\ q \in Nat /\ 1 <= q /\ q <= Len(b) /\ q # Len(b) + 1
    BY LenProperties
  <1>2. PICK p \in starts, k \in starts :
           /\ p <= q /\ q < k /\ IsCharacter(SubSeq(b, p, k - 1), o)
           /\ m = UnitMode(SubSeq(b, p, k - 1), q - p)
    <2>1. PICK c \in starts \X starts :
             /\ c[1] <= q /\ q < c[2] /\ IsCharacter(SubSeq(b, c[1], c[2] - 1), o)
             /\ m = UnitMode(SubSeq(b, c[1], c[2] - 1), q - c[1])
      BY <1>1 DEF UnitModes
    <2>2. c[1] \in starts /\ c[2] \in starts
      OBVIOUS
    <2> QED BY <2>1, <2>2
  <1> DEFINE u == SubSeq(b, p, k - 1)
             r == q - p + 1
  <1>3. p \in 1..Len(b) + 1 /\ k \in 1..Len(b) + 1
    BY DEF Cut
  <1>4. p \in 1..Len(b) + 1 /\ k - 1 \in p - 1..Len(b) /\ p \in Nat /\ k \in Nat
    BY <1>1, <1>2, <1>3
  <1>5. u \in Seq(Char) /\ Len(u) = (k - 1) - p + 1 /\ \A l \in 1..(k - 1) - p + 1 : u[l] = b[p + l - 1]
    BY <1>4, Piece
  <1> HIDE DEF u
  <1>6. Len(u) = k - p /\ r \in 1..Len(u) /\ r - 1 = q - p /\ p + r - 1 = q
    BY <1>1, <1>2, <1>4, <1>5
  <1>7. u[r] = b[q]
    BY <1>4, <1>5, <1>6
  <1>8. m = UnitMode(u, r - 1) /\ IsCharacter(u, o)
    BY <1>2, <1>6 DEF u
  <1>9. /\ m \in StringModes
        /\ ScanString(m, b[q], o) = More(IF r = Len(u) THEN "str" ELSE UnitMode(u, r))
    BY <1>5, <1>6, <1>7, <1>8, UnitSteps
  <1>10. CASE r = Len(u)
    <2>1. q + 1 = k
      BY <1>1, <1>4, <1>6, <1>10
    <2>2. "str" \in UnitModes(b, o, starts, q + 1)
      BY <2>1, UnitStart
    <2> QED BY <1>9, <1>10, <2>2
  <1>11. CASE r # Len(u)
    <2>1. p <= q + 1 /\ q + 1 < k /\ q + 1 # Len(b) + 1 /\ (q + 1) - p = r
      BY <1>1, <1>3, <1>4, <1>6, <1>11
    <2> HIDE DEF r
    <2> DEFINE c == <<p, k>>
    <2>2. c \in starts \X starts /\ c[1] = p /\ c[2] = k
      OBVIOUS
    <2> HIDE DEF c
    <2>3. UnitMode(SubSeq(b, c[1], c[2] - 1), (q + 1) - c[1]) = UnitMode(u, r)
      BY <2>1, <2>2, Zenon DEF u
    <2>4. c[1] <= q + 1 /\ q + 1 < c[2] /\ IsCharacter(SubSeq(b, c[1], c[2] - 1), o)
      BY <1>2, <2>1, <2>2
    <2>5. UnitMode(u, r) \in UnitModes(b, o, starts, q + 1)
      BY <2>1, <2>2, <2>3, <2>4 DEF UnitModes
    <2> QED BY <1>9, <1>11, <2>5
  <1> QED BY <1>9, <1>10, <1>11

\* A string in quotes, a space behind it, and what the quotes enclose.
IsQuote(c) == c = "\""
IsBackslash(c) == c = "\\"
Quoted(x) == Len(x) > 2 /\ IsQuote(x[1]) /\ IsQuote(x[Len(x) - 1])

BodyOf(x) == SubSeq(x, 2, Len(x) - 2)

LEMMA QuotedBody ==
    ASSUME NEW x \in Seq(Char), Spaced(x), Quoted(x)
    PROVE  /\ Len(x) \in Nat /\ Len(x) > 2
           /\ BodyOf(x) \in Seq(Char) /\ Len(BodyOf(x)) = Len(x) - 3
           /\ \A q \in 1..Len(x) - 3 : BodyOf(x)[q] = x[q + 1]
           /\ IsQuote(x[1]) /\ IsQuote(x[Len(x) - 1])
           /\ SubSeq(TokenOf(x), 2, Len(TokenOf(x)) - 1) = BodyOf(x)
  <1> DEFINE n == Len(x)
             s == TokenOf(x)
             b == BodyOf(x)
             u == SubSeq(s, 2, Len(s) - 1)
  <1>1. n \in Nat
    BY LenProperties
  <1>2. n > 2 /\ IsQuote(x[1]) /\ IsQuote(x[n - 1])
    BY Zenon DEF Quoted
  <1>3. 2 \in 1..n + 1 /\ n - 2 \in 2 - 1..n /\ (n - 2) - 2 + 1 = n - 3
    BY <1>1, <1>2
  <1>4. /\ b \in Seq(Char) /\ Len(b) = (n - 2) - 2 + 1
        /\ \A q \in 1..(n - 2) - 2 + 1 : b[q] = x[2 + q - 1]
    BY <1>3, Piece DEF BodyOf
  <1>5. s \in Seq(Char) /\ Len(s) = n - 1 /\ \A k \in 1..n - 1 : s[k] = x[k]
    BY Front, Zenon
  <1> HIDE DEF s, b
  <1>6. Len(b) = n - 3 /\ \A q \in 1..n - 3 : b[q] = x[q + 1]
    BY <1>3, <1>4
  <1>7. 2 \in 1..Len(s) + 1 /\ Len(s) - 1 \in 2 - 1..Len(s) /\ (Len(s) - 1) - 2 + 1 = n - 3
    BY <1>1, <1>2, <1>5
  <1>8. /\ u \in Seq(Char) /\ Len(u) = (Len(s) - 1) - 2 + 1
        /\ \A q \in 1..(Len(s) - 1) - 2 + 1 : u[q] = s[2 + q - 1]
    BY <1>5, <1>7, Piece
  <1> HIDE DEF u
  <1>9. Len(u) = n - 3 /\ \A q \in 1..n - 3 : u[q] = x[q + 1]
    <2>1. \A q \in 1..n - 3 : 2 + q - 1 = q + 1 /\ q + 1 \in 1..n - 1
      BY <1>1
    <2> QED BY <1>5, <1>7, <1>8, <2>1
  <1>10. u = b
    <2>1. \A q \in 1..Len(u) : u[q] = b[q]
      BY <1>6, <1>9
    <2> QED BY <1>4, <1>6, <1>8, <1>9, <2>1, SeqEqual
  <1> QED BY <1>1, <1>2, <1>4, <1>6, <1>10 DEF s, b, u

\* What a quote does outside a string and in one.
LEMMA QuoteScans ==
    ASSUME NEW c, IsQuote(c), NEW o
    PROVE  /\ c \notin White
           /\ Scan("start", c, o) = More("str")
           /\ Scan("str", c, o) = Done("string")
  <1>1. c = "\""
    BY Zenon DEF IsQuote
  <1>2. c \notin White /\ c \notin Punctuation /\ c \notin {"t", "f", "n"}
    BY <1>1, Zenon DEF White, Punctuation
  <1>6. c # "-" /\ c # "0" /\ c # "/" /\ c # "\\" /\ c \notin Digit /\ c \notin Control
        /\ c \notin HighByte
    BY <1>1, Zenon DEF Digit, Control, HighByte
  <1>3. ScanStart(c, o) = More("str")
    BY <1>1, <1>2, <1>6, Zenon DEF ScanStart
  <1>7. "str" # "esc" /\ "str" \notin {"hex4", "hex3", "hex2", "hex1"}
        /\ "str" \notin {"cont3", "cont2", "cont1"}
    OBVIOUS
  <1>4. ScanString("str", c, o) = Done("string")
    BY <1>1, <1>6, <1>7, Zenon DEF ScanString
  <1>5. "str" \in StringModes
    BY Zenon DEF StringModes
  <1> QED BY <1>2, <1>3, <1>4, <1>5, Dispatch, Zenon

\* The mode m of the place q goes on to a mode of the next place.
GoesOn(b, o, starts, q, m) ==
    /\ m \in StringModes
    /\ \E to \in UnitModes(b, o, starts, q + 1) : ScanString(m, b[q], o) = More(to)

LEMMA UnitModesGoOn ==
    ASSUME NEW b \in Seq(Char), NEW o, NEW starts, Cut(b, o, starts),
           NEW q \in 1..Len(b), NEW m \in UnitModes(b, o, starts, q)
    PROVE  GoesOn(b, o, starts, q, m)
  <1>1. /\ m \in StringModes
        /\ \E to \in UnitModes(b, o, starts, q + 1) : ScanString(m, b[q], o) = More(to)
    BY UnitModesStep
  <1> QED BY <1>1, Zenon DEF GoesOn

\* A string is walked through in the modes of its characters.
LEMMA StringWalk ==
    ASSUME NEW x \in Seq(Char), NEW o, Spaced(x), Quoted(x), IsStringBody(BodyOf(x), o)
    PROVE  HandsOut(x, o, WithEscapes("string", TokenOf(x)), BodyOf(x))
  <1> DEFINE n == Len(x)
             b == BodyOf(x)
  <1>1. /\ n \in Nat /\ n > 2 /\ b \in Seq(Char) /\ Len(b) = n - 3
        /\ \A q \in 1..n - 3 : b[q] = x[q + 1]
        /\ IsQuote(x[1]) /\ IsQuote(x[n - 1])
        /\ SubSeq(TokenOf(x), 2, Len(TokenOf(x)) - 1) = b
    BY QuotedBody
  <1>2. IsStringBody(b, o)
    OBVIOUS
  <1> HIDE DEF b
  <1>3. PICK starts : Cut(b, o, starts)
    BY <1>1, <1>2, BodyCut
  <1> DEFINE F == [i \in 0..n - 2 |-> IF i = 0 THEN {"start"} ELSE UnitModes(b, o, starts, i)]
  <1>4. F[0] = {"start"} /\ \A i \in 1..n - 2 : F[i] = UnitModes(b, o, starts, i)
    BY <1>1
  <1> HIDE DEF F
  <1>5. F[n - 2] = {"str"}
    <2>1. n - 2 \in 1..n - 2 /\ n - 2 = Len(b) + 1
      BY <1>1
    <2> QED BY <1>4, <2>1, Zenon DEF UnitModes
  <1>6. ASSUME NEW i \in 1..n - 3
        PROVE  \A m \in F[i] : m \in StringModes /\ \E to \in F[i + 1] : Scan(m, x[i + 1], o) = More(to)
    <2>1. i \in 1..Len(b) /\ i \in 1..n - 2 /\ i + 1 \in 1..n - 2 /\ b[i] = x[i + 1]
      BY <1>1
    <2>2. F[i] = UnitModes(b, o, starts, i) /\ F[i + 1] = UnitModes(b, o, starts, i + 1)
      BY <1>4, <2>1, Zenon
    <2>5. \A m \in UnitModes(b, o, starts, i) :
             /\ m \in StringModes
             /\ \E to \in UnitModes(b, o, starts, i + 1) : ScanString(m, b[i], o) = More(to)
      <3>1. b \in Seq(Char)
        BY <1>1, Zenon
      <3>2. i \in 1..Len(b)
        BY <2>1
      <3> TAKE m \in UnitModes(b, o, starts, i)
      <3>3. GoesOn(b, o, starts, i, m)
        BY <3>1, <3>2, <1>3, UnitModesGoOn, Zenon
      <3> QED BY <3>3, Zenon DEF GoesOn
    <2> TAKE m \in F[i]
    <2>3. m \in StringModes /\ \E to \in F[i + 1] : ScanString(m, b[i], o) = More(to)
      BY <2>2, <2>5, Zenon
    <2>4. Scan(m, b[i], o) = ScanString(m, b[i], o)
      BY <2>3, Dispatch, Zenon
    <2> QED BY <2>1, <2>3, <2>4, Zenon
  <1>7. "start" \notin StringModes /\ "str" \in StringModes /\ "string" \in Ends
    BY DEF StringModes, Ends, Tokens
  <1>8. \A i \in 1..n - 2 : "start" \notin F[i]
    <2> TAKE i \in 1..n - 2
    <2>1. i = n - 2 \/ i \in 1..n - 3
      BY <1>1
    <2>2. CASE i = n - 2
      BY <1>5, <1>7, <2>2
    <2>3. CASE i \in 1..n - 3
      BY <1>6, <1>7, <2>3, Zenon
    <2> QED BY <2>1, <2>2, <2>3, Zenon
  <1>9. \A i \in 1..n - 2 : \A m \in F[i - 1] : \E to \in F[i] : Scan(m, x[i], o) = More(to)
    <2> TAKE i \in 1..n - 2
    <2>1. CASE i = 1
      <3>3. Scan("start", x[1], o) = More("str")
        BY <1>1, QuoteScans, Zenon
      <3>4. 1 \in starts
        BY <1>3, Zenon DEF Cut
      <3>5. "str" \in UnitModes(b, o, starts, 1)
        BY <1>1, <1>3, <3>4, UnitStart
      <3>6. F[i - 1] = {"start"} /\ F[i] = UnitModes(b, o, starts, 1)
        BY <1>1, <1>4, <2>1
      <3> QED BY <2>1, <3>3, <3>5, <3>6
    <2>2. CASE i # 1
      <3>1. i - 1 \in 1..n - 3 /\ (i - 1) + 1 = i
        BY <1>1, <2>2
      <3>2. \A m \in F[i - 1] : \E to \in F[(i - 1) + 1] : Scan(m, x[(i - 1) + 1], o) = More(to)
        BY <1>6, <3>1
      <3> QED BY <3>1, <3>2
    <2> QED BY <2>1, <2>2
  <1>10. \A m \in F[(n - 1) - 1] : Scan(m, x[n - 1], o) = Done("string")
    <2>1. (n - 1) - 1 = n - 2
      BY <1>1
    <2>3. Scan("str", x[n - 1], o) = Done("string")
      BY <1>1, QuoteScans, Zenon
    <2> QED BY <1>5, <2>1, <2>3
  <1>11. Walk(x, o, F, n - 1, "string")
    <2>1. n - 1 \in {n - 1, n} /\ n - 1 # n /\ (n - 1) - 1 = n - 2
      BY <1>1
    <2>2. x[1] \notin White
      BY <1>1, QuoteScans, Zenon
    <2>3. \A m \in F[(n - 1) - 1] :
             Scan(m, x[n - 1], o) = IF n - 1 = n THEN DoneBefore("string") ELSE Done("string")
      BY <1>10, <2>1, Zenon
    <2>4. /\ \A i \in 1..(n - 1) - 1 : "start" \notin F[i]
          /\ \A i \in 1..(n - 1) - 1 : \A m \in F[i - 1] : \E to \in F[i] : Scan(m, x[i], o) = More(to)
      BY <1>8, <1>9, <2>1
    <2> QED BY <1>4, <1>7, <2>1, <2>2, <2>3, <2>4, Zenon DEF Walk
  <1>12. Unquoted("string", TokenOf(x)) = b
    BY <1>1, Zenon DEF Unquoted
  <1>13. HandsOut(x, o, WithEscapes("string", TokenOf(x)), b)
    BY <1>11, <1>12, HandsOutIs, Zenon
  <1> QED BY <1>13 DEF b

\* It has a backslash between its quotes exactly when it has one at all.
LEMMA SameEscapes ==
    ASSUME NEW x \in Seq(Char), Spaced(x), Quoted(x)
    PROVE  WithEscapes("string", TokenOf(x)) =
              IF \E q \in 1..Len(BodyOf(x)) : BodyOf(x)[q] = "\\" THEN "string_with_escapes" ELSE "string"
  <1> DEFINE n == Len(x)
             b == BodyOf(x)
             s == TokenOf(x)
  <1>1. /\ n \in Nat /\ n > 2 /\ Len(b) = n - 3
        /\ \A q \in 1..n - 3 : b[q] = x[q + 1]
        /\ IsQuote(x[1]) /\ IsQuote(x[n - 1])
    BY QuotedBody
  <1>2. Len(s) = n - 1 /\ \A k \in 1..n - 1 : s[k] = x[k]
    BY Front, Zenon
  <1> HIDE DEF s, b
  <1>3. \A c : IsQuote(c) => ~IsBackslash(c)
    BY Zenon DEF IsQuote, IsBackslash
  <1>4. ASSUME NEW k \in 1..Len(s), IsBackslash(s[k])
        PROVE  \E q \in 1..Len(b) : IsBackslash(b[q])
    <2>1. IsBackslash(x[k])
      BY <1>2, <1>4
    <2>2. k # 1 /\ k # n - 1
      BY <1>1, <1>3, <2>1
    <2>3. k - 1 \in 1..n - 3 /\ (k - 1) + 1 = k
      BY <1>1, <1>2, <2>2
    <2>4. IsBackslash(b[k - 1]) /\ k - 1 \in 1..Len(b)
      BY <1>1, <2>1, <2>3
    <2> QED BY <2>4
  <1>5. ASSUME NEW q \in 1..Len(b), IsBackslash(b[q])
        PROVE  \E k \in 1..Len(s) : IsBackslash(s[k])
    <2>1. q + 1 \in 1..Len(s) /\ IsBackslash(x[q + 1]) /\ s[q + 1] = x[q + 1]
      BY <1>1, <1>2, <1>5
    <2> QED BY <2>1
  <1>6. (\E k \in 1..Len(s) : IsBackslash(s[k])) <=> \E q \in 1..Len(b) : IsBackslash(b[q])
    BY <1>4, <1>5
  <1>7. WithEscapes("string", s) = IF \E q \in 1..Len(b) : b[q] = "\\" THEN "string_with_escapes" ELSE "string"
    BY <1>6, Zenon DEF WithEscapes, IsBackslash
  <1> QED BY <1>7, Zenon DEF s, b

-----------------------------------------------------------------------------
\* Every token of JSON is walked through to itself.
LEMMA TokenWalk ==
    ASSUME Inv, NEW kind \in Tokens \ {"eof", "error"}, IsTokenText(kind)
    PROVE  HandsOut(text, opts, kind, WholeText(kind))
  <1> DEFINE s == TokenOf(text)
  <1>1. text \in Seq(Char)
    BY Place
  <1>2. Spaced(text)
    BY Zenon DEF IsTokenText, Spaced
  <1>3. s \in Seq(Char)
    BY <1>1, <1>2, Front, Zenon
  <1>4. IsLexeme(kind, WholeText(kind), opts)
    BY Zenon DEF IsTokenText
  <1>5. kind \notin {"string", "string_with_escapes"} => WholeText(kind) = s
    BY Zenon DEF WholeText, TokenOf
  <1>6. kind \in {"string", "string_with_escapes"} => WholeText(kind) = BodyOf(text) /\ Quoted(text)
    BY Zenon DEF WholeText, BodyOf, IsTokenText, Quoted, IsQuote
  <1> HIDE DEF s
  <1>8. kind \in {"integer", "double", "string", "string_with_escapes"} => kind \notin DOMAIN Words
    BY DEF Words
  <1>7. CASE kind \in DOMAIN Words
    <2>1. kind \notin {"string", "string_with_escapes"}
      BY <1>7 DEF Words
    <2>2. s \in Words[kind]
      BY <1>4, <1>5, <1>7, <1>8, <2>1, Zenon DEF IsLexeme
    <2>3. WholeText(kind) = s
      BY <1>5, <2>1, Zenon
    <2> QED BY <1>1, <1>2, <1>7, <2>2, <2>3, WordWalk, Zenon DEF s
  <1>9. CASE kind = "integer"
    <2>1. IsInt(s) /\ WholeText(kind) = s
      BY <1>4, <1>5, <1>8, <1>9, Zenon DEF IsLexeme
    <2>2. PICK d : NumberCut(s, d, Len(s), Len(s))
      BY <1>3, <2>1, IntCut
    <2> QED BY <1>1, <1>2, <1>9, <2>1, <2>2, NumberWalk, Zenon DEF s
  <1>10. CASE kind = "double"
    <2>1. IsReal(s) /\ WholeText(kind) = s
      BY <1>4, <1>5, <1>8, <1>10, Zenon DEF IsLexeme
    <2>2. PICK d, i, j : NumberCut(s, d, i, j) /\ i < Len(s)
      BY <1>3, <2>1, RealCut
    <2>3. i # Len(s)
      <3>1. i \in Nat /\ Len(s) \in Nat
        BY <1>3, <2>2, LenProperties DEF NumberCut
      <3> QED BY <2>2, <3>1
    <2> QED BY <1>1, <1>2, <1>10, <2>1, <2>2, <2>3, NumberWalk, Zenon DEF s
  <1>11. CASE kind = "string"
    <2>1. /\ IsStringBody(BodyOf(text), opts) /\ Quoted(text) /\ WholeText(kind) = BodyOf(text)
          /\ ~\E q \in 1..Len(BodyOf(text)) : BodyOf(text)[q] = "\\"
      BY <1>4, <1>6, <1>8, <1>11, Zenon DEF IsLexeme
    <2>2. WithEscapes("string", TokenOf(text)) = kind
      BY <1>1, <1>2, <1>11, <2>1, SameEscapes, Zenon
    <2> QED BY <1>1, <1>2, <2>1, <2>2, StringWalk, Zenon
  <1>12. CASE kind = "string_with_escapes"
    <2>1. /\ IsStringBody(BodyOf(text), opts) /\ Quoted(text) /\ WholeText(kind) = BodyOf(text)
          /\ \E q \in 1..Len(BodyOf(text)) : BodyOf(text)[q] = "\\"
      BY <1>4, <1>6, <1>8, <1>12, Zenon DEF IsLexeme
    <2>2. WithEscapes("string", TokenOf(text)) = kind
      BY <1>1, <1>2, <1>12, <2>1, SameEscapes, Zenon
    <2> QED BY <1>1, <1>2, <2>1, <2>2, StringWalk, Zenon
  <1>13. CASE /\ kind \notin DOMAIN Words
              /\ kind \notin {"integer", "double", "string", "string_with_escapes"}
    <2>1. WholeText(kind) = s
      BY <1>5, <1>13, Zenon
    <2>2. PICK p \in Punctuation : s = <<p>> /\ kind = PunctuationToken[p]
      BY <1>4, <1>13, <2>1, Zenon DEF IsLexeme
    <2> QED BY <1>1, <1>2, <2>1, <2>2, PunctuationWalk, Zenon DEF s
  <1> QED BY <1>7, <1>9, <1>10, <1>11, <1>12, <1>13, Zenon

\* When the text is over, or the lexer has failed, a token under way is over
\* too.
LEMMA WalkedOut ==
    ASSUME Inv, NEW F, NEW e, NEW t, Walk(text, opts, F, e, t),
           UnderWay(F, e) \/ HandedOut(t),
           pc = "got", tok = "error" \/ (tok = "eof" /\ fed = Len(text))
    PROVE  toks = <<Unbuffered!Token(t, TokenOf(text))>>
  <1>1. text \in Seq(Char) /\ Len(text) \in Nat /\ Len(text) > 1 /\ e \in {Len(text) - 1, Len(text)}
    BY Place, WalkEnds
  <1>2. CASE HandedOut(t)
    BY <1>2, Zenon DEF HandedOut
  <1>3. CASE UnderWay(F, e) /\ tok = "error"
    <2>1. Failed
      BY <1>3, Zenon DEF Inv, CursorOK
    <2>2. toks # <<>>
      BY <2>1, Zenon DEF Failed, Unbuffered!Failed
    <2> QED BY <1>3, <2>2, Zenon DEF UnderWay
  <1>4. CASE UnderWay(F, e) /\ tok = "eof" /\ fed = Len(text)
    <2>1. offset = Len(chunk)
      BY <1>4, Zenon DEF Inv, CursorOK
    <2>2. Len(chunk) \in Nat
      BY LenProperties DEF Inv, TypeOK, LexTypeOK
    <2>3. Position = Len(text)
      BY <1>1, <1>4, <2>1, <2>2 DEF Position
    <2>4. Position \in 0..e - 1
      BY <1>4, Zenon DEF UnderWay
    <2> QED BY <1>1, <2>3, <2>4
  <1> QED BY <1>2, <1>3, <1>4

LEMMA WalkedWhole == Inv /\ Walked => LexemesAreTokens
  <1> SUFFICES ASSUME Inv, Walked, pc = "got", tok = "error" \/ (tok = "eof" /\ fed = Len(text)),
                      NEW kind \in Tokens \ {"eof", "error"}, IsTokenText(kind)
               PROVE  toks = <<[tok |-> kind, text |-> WholeText(kind), error |-> "e_ok"]>>
    BY Zenon DEF LexemesAreTokens
  <1>1. PICK F, e, t : /\ Walk(text, opts, F, e, t)
                       /\ WithEscapes(t, TokenOf(text)) = kind
                       /\ Unquoted(t, TokenOf(text)) = WholeText(kind)
    BY TokenWalk, Zenon DEF HandsOut
  <1>2. UnderWay(F, e) \/ HandedOut(t)
    BY <1>1, Zenon DEF Walked
  <1>3. toks = <<Unbuffered!Token(t, TokenOf(text))>>
    BY <1>1, <1>2, WalkedOut
  <1>4. Unbuffered!Token(t, TokenOf(text)) =
           [tok |-> WithEscapes(t, TokenOf(text)), text |-> Unquoted(t, TokenOf(text)), error |-> "e_ok"]
    BY SameToken, Zenon DEF Unbuffered!Token
  <1> QED BY <1>1, <1>3, <1>4, Zenon

\* And every token of JSON, with white space behind it, comes out of
\* yajl_lex_lex as one token of its kind, with its text, wherever the chunk
\* boundaries fall: none is refused, cut short, or taken for another.
THEOREM LexemesWhole == Spec => []LexemesAreTokens
  <1>1. Inv /\ [Next]_vars => [Unbuffered!Next]_(Unbuffered!streamVars)
    <2>1. ASSUME Inv, UNCHANGED vars
          PROVE  UNCHANGED Unbuffered!streamVars
      BY <2>1, StutterEffect, SameStream DEF vars, lexVars
    <2> QED BY <2>1, StepStream
  <1>2. Inv /\ Walked /\ [Next]_vars => Walked'
    BY <1>1, NextWalked
  <1> QED BY <1>2, InitWalked, WalkedWhole, Invariant, PTL DEF Spec
=============================================================================
