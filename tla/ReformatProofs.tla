--------------------------- MODULE ReformatProofs ---------------------------
(***************************************************************************)
(* json_reformat and the parts it is made of, for every YAJL_MAX_DEPTH,    *)
(* every width of size_t and every set of texts: the buffer and the        *)
(* rendering of errors by themselves, and then the program.                *)
(***************************************************************************)
EXTENDS YajlReformat, GenCallProofs, FiniteSetTheorems

-----------------------------------------------------------------------------
(* The buffer.  Fits needs to know of the loop that it works on a buffer   *)
(* with data and that the sizes are sizes: then what ends it is room for   *)
(* the text, or an assert.                                                 *)

BufInv ==
    /\ BufTypeOK
    /\ len < SizeMax /\ used <= len
    /\ Fits
    /\ bufAt = "ensure" => len > 0 /\ need < SizeMax /\ want + 1 < SizeMax

\* The remainder of what is not negative and not too large is itself.
LEMMA SmallRemainder ==
    ASSUME NEW a \in Nat, NEW n \in Nat, a < n
    PROVE  a % n = a
  OBVIOUS

LEMMA RemainderSmall ==
    ASSUME NEW a \in Int, NEW n \in Nat, n > 0
    PROVE  a % n \in Nat /\ a % n < n
  OBVIOUS

LEMMA BufInitInv == BufInit => BufInv
  BY SizesAssumption DEF BufInit, BufInv, BufTypeOK, Fits

LEMMA AskInv ==
    ASSUME BufInv, NEW n \in Nat, Ask(n)
    PROVE  BufInv'
  BY SizesAssumption DEF BufInv, BufTypeOK, Fits, Ask

LEMMA DoubleInv ==
    ASSUME BufInv, Double
    PROVE  BufInv'
  <1>1. need' \in Nat /\ need' < SizeMax
    BY SizesAssumption, RemainderSmall DEF BufInv, BufTypeOK, Double
  <1> QED
    BY <1>1 DEF BufInv, BufTypeOK, Fits, Double

LEMMA FitInv ==
    ASSUME BufInv, Fit
    PROVE  BufInv'
  <1>1. CASE need >= len
    <2>1. /\ len' = need /\ used' = used + want /\ bufAt' = "idle"
          /\ need' = need /\ want' = want
      BY <1>1 DEF Fit
    <2>2. need - used \in Nat /\ need - used < SizeMax
      BY <1>1, SizesAssumption DEF BufInv, BufTypeOK, Fit
    <2>3. (need - used) % SizeMax = need - used
      BY <2>2, SmallRemainder, SizesAssumption
    <2>4. need > 0
      BY <1>1 DEF BufInv, BufTypeOK, Fit
    <2>5. want + 1 < need - used
      BY <2>2, <2>3, <2>4 DEF Fit, TooSmall, BufInv, BufTypeOK
    <2> QED
      BY <2>1, <2>5 DEF BufInv, BufTypeOK, Fits, Fit
  <1>2. CASE ~(need >= len)
    BY <1>2 DEF BufInv, BufTypeOK, Fits, Fit
  <1> QED
    BY <1>1, <1>2

LEMMA TruncateInv ==
    ASSUME BufInv, NEW n \in Nat, truncate(n)
    PROVE  BufInv'
  <1>1. CASE n <= used
    BY <1>1 DEF BufInv, BufTypeOK, Fits, truncate
  <1>2. CASE ~(n <= used)
    BY <1>2 DEF BufInv, BufTypeOK, Fits, truncate
  <1> QED
    BY <1>1, <1>2

\* Every buffer holds what was appended to it and the NUL, whatever the order
\* and the lengths of the appends and truncations.
THEOREM BufferFits == BufSpec => []Fits
  <1>1. BufInit => BufInv
    BY BufInitInv
  <1>2. BufInv /\ [BufNext]_bufVars => BufInv'
    <2> SUFFICES ASSUME BufInv, [BufNext]_bufVars PROVE BufInv'
      OBVIOUS
    <2>1. CASE Double
      BY <2>1, DoubleInv
    <2>2. CASE Fit
      BY <2>2, FitInv
    <2>3. CASE \E n \in Nat : Ask(n) \/ truncate(n)
      <3>1. PICK n \in Nat : Ask(n) \/ truncate(n)
        BY <2>3
      <3> QED
        BY <3>1, AskInv, TruncateInv
    <2>4. CASE UNCHANGED bufVars
      BY <2>4 DEF bufVars, BufInv, BufTypeOK, Fits
    <2> QED
      BY <2>1, <2>2, <2>3, <2>4 DEF BufNext
  <1>3. BufInv => Fits
    BY DEF BufInv
  <1> QED
    BY <1>1, <1>2, <1>3, PTL DEF BufSpec

-----------------------------------------------------------------------------
(* The buffer of the generator, which holds what was printed.  In the loop *)
(* the size is not below the one before, until it wraps, which it does     *)
(* only when the text is half of what a size_t counts.                     *)

LoopInv ==
    /\ bufAt = "ensure" => \/ need >= len
                           \/ 2 * (used + want + 1) >= SizeMax
    /\ bufAt = "ensure" => used + want = Len(out)
    /\ bufAt = "aborted" => 2 * (Len(out) + 1) >= SizeMax
    /\ bufAt = "idle" => used = Len(out)

LEMMA PrintsInv ==
  ASSUME BufInv, LoopInv, bufAt = "idle", out \in Text, GrowsTo(out'), Prints
  PROVE  BufInv' /\ LoopInv'
<1>1. Len(out) \in Nat /\ Len(out') \in Nat /\ Len(out) <= Len(out') /\ used = Len(out)
  BY TextJoined DEF GrowsTo, LoopInv
<1>2. CASE out' = out
  BY <1>2 DEF Prints, bufVars, BufInv, BufTypeOK, Fits, LoopInv
<1>3. CASE out' # out
  <2> DEFINE n == Len(out') - Len(out)
  <2>1. n \in Nat /\ used + n = Len(out')
    BY <1>1
  <2>2. Ask(n)
    BY <1>3 DEF Prints
  <2> HIDE DEF n
  <2>3. BufInv'
    BY <2>1, <2>2, AskInv
  <2>4. LoopInv'
    BY <2>1, <2>2, SizesAssumption DEF Ask, LoopInv, BufInv, BufTypeOK
  <2> QED BY <2>3, <2>4
<1> QED BY <1>2, <1>3

LEMMA DoubleLoop ==
  ASSUME BufInv, LoopInv, Double, out' = out, Len(out) \in Nat
  PROVE  LoopInv'
<1>1. /\ len \in Nat /\ used \in Nat /\ need \in Nat /\ want \in Nat
      /\ need < SizeMax /\ used <= len /\ len' = len /\ used' = used /\ want' = want
      /\ bufAt = "ensure" /\ bufAt' = "ensure"
      /\ SizeMax \in Nat /\ SizeMax > 0
  BY SizesAssumption DEF Double, BufInv, BufTypeOK
<1>2. used + want = Len(out)
  BY <1>1 DEF LoopInv
<1>3. CASE 2 * (used + want + 1) >= SizeMax
  BY <1>1, <1>2, <1>3 DEF LoopInv
<1>4. CASE ~(2 * (used + want + 1) >= SizeMax)
  <2>1. need >= len
    BY <1>1, <1>4 DEF LoopInv
  <2>2. need - used \in Nat /\ need - used < SizeMax
    BY <1>1, <2>1
  <2>3. (need - used) % SizeMax = need - used
    BY <1>1, <2>2, SmallRemainder
  <2>4. want + 1 >= need - used
    BY <1>1, <2>3 DEF Double, TooSmall
  <2>5. 2 * need \in Nat /\ 2 * need < SizeMax
    BY <1>1, <1>4, <2>2, <2>4
  <2>6. (2 * need) % SizeMax = 2 * need
    BY <1>1, <2>5, SmallRemainder
  <2>7. need' = 2 * need
    BY <2>6 DEF Double
  <2>8. need' >= len'
    BY <1>1, <2>1, <2>7
  <2> QED BY <1>1, <1>2, <2>8 DEF LoopInv
<1> QED BY <1>3, <1>4

LEMMA FitLoop ==
  ASSUME BufInv, LoopInv, Fit, out' = out, Len(out) \in Nat
  PROVE  LoopInv'
<1>1. bufAt = "ensure" /\ used + want = Len(out) /\ used \in Nat /\ want \in Nat
  BY DEF Fit, LoopInv, BufInv, BufTypeOK
<1>2. CASE need >= len
  BY <1>1, <1>2 DEF Fit, LoopInv
<1>3. CASE ~(need >= len)
  <2>1. 2 * (used + want + 1) >= SizeMax
    BY <1>1, <1>3 DEF LoopInv
  <2>2. bufAt' = "aborted"
    BY <1>3 DEF Fit
  <2> QED BY <1>1, <2>1, <2>2 DEF LoopInv
<1> QED BY <1>2, <1>3

LEMMA ClearedInv ==
  ASSUME BufInv, LoopInv, truncate(0), out' = <<>>
  PROVE  BufInv' /\ LoopInv' /\ bufAt' = "idle"
<1>1. used' = 0 /\ bufAt' = "idle"
  BY DEF truncate, BufInv, BufTypeOK
<1>2. BufInv'
  BY TruncateInv
<1> QED BY <1>1, <1>2 DEF LoopInv

-----------------------------------------------------------------------------
(* The rendering of an error. *)

LEMMA QuoteNear ==
    ASSUME NEW offset \in Nat, NEW textLen \in Nat, offset < 30
    PROVE  ExcerptRight(offset, textLen)
  <1>1. CASE offset + 30 > textLen
    BY <1>1 DEF ExcerptRight, Excerpt, QuoteSize, Caret
  <1>2. CASE ~(offset + 30 > textLen)
    BY <1>2 DEF ExcerptRight, Excerpt, QuoteSize, Caret
  <1> QED
    BY <1>1, <1>2

LEMMA QuoteFar ==
    ASSUME NEW offset \in Nat, NEW textLen \in Nat, offset >= 30
    PROVE  ExcerptRight(offset, textLen)
  <1>1. CASE offset + 30 > textLen
    BY <1>1 DEF ExcerptRight, Excerpt, QuoteSize, Caret
  <1>2. CASE ~(offset + 30 > textLen)
    BY <1>2 DEF ExcerptRight, Excerpt, QuoteSize, Caret
  <1> QED
    BY <1>1, <1>2

\* For every text and every offset in it or behind it the quote is in its
\* buffer, and the caret is where it should be.
THEOREM ExcerptAlwaysRight ==
    \A offset, textLen \in Nat : ExcerptRight(offset, textLen)
  <1> SUFFICES ASSUME NEW offset \in Nat, NEW textLen \in Nat
               PROVE  ExcerptRight(offset, textLen)
    OBVIOUS
  <1>1. offset < 30 \/ offset >= 30
    OBVIOUS
  <1> QED
    BY <1>1, QuoteNear, QuoteFar

\* Numbers of any length and words of any length: the message is in what was
\* allocated for it.
THEOREM MessageAlwaysFits ==
    \A line, coff, type, text \in Nat : MessageFits(line, coff, type, text)
  BY DEF MessageFits, MessageLength, memneeded, AtMost, Digits, Labels

-----------------------------------------------------------------------------
(* The program. *)

Words == Raws \cup FewRaws
         \cup {<<"7">>, <<"t", "r", "u", "e">>, <<"n", "u", "l", "l">>, <<>>}

Whole == phase \in {"done", "more"} /\ todo = NoCall

OpenBehind(i) == Among(told, i, Starts) > Among(told, i, Ends)

MainInv ==
    /\ main \in {"options", "read", "parse", "write", "complete", "finish", "report",
                 "report_end", "exit_success", "exit_failure", "crashed"}
    /\ callbacks = Table /\ flags \subseteq {"allow_multiple_values"}
    /\ call = CASE main = "parse" -> "parse" [] main = "finish" -> "finish" [] OTHER -> "none"
    /\ main \in {"options", "read", "write", "complete"} => phase # "dead"
    /\ main = "options" => phase = "fresh"
    /\ main = "exit_success" => phase \in {"done", "more"}
    /\ bufAt # "idle" => main \in {"parse", "finish", "report", "report_end"}

HistoryInv ==
    /\ told \in Seq(Table \X Words) /\ Len(told) <= MaxTold
    /\ mark \in Nat /\ mark <= Len(told)
    /\ report = <<>> \/ report \in Nat \X Nat
    /\ lenient \in BOOLEAN
    /\ stat = "garbage" /\ main \in {"options", "read"} => told = <<>>
    /\ main \in {"parse", "write"} => stat # "garbage"
    /\ main = "crashed" => told = <<>>
    /\ ~stream => \A i \in 2..Len(told) : OpenBehind(i)

PhaseInv ==
    /\ phase \in {"fresh", "open", "done", "more", "dead"}
    /\ phase # "dead" =>
          /\ Nested(frames, Whole)
          /\ frames = <<>> <=> phase # "open"
          /\ told = <<>> <=> phase = "fresh"
          /\ Among(told, Len(told) + 1, Starts)
                = Among(told, Len(told) + 1, Ends) + Len(frames)
    /\ todo # NoCall => phase = "more"
    /\ phase = "more" => stream

\* The decoding of a string makes UTF-8 of what the lexer lets through when it
\* looks at UTF-8.  This is about the constants and the two algorithms alone.
KeepsUtf8 == \A raw \in Raws \cup FewRaws : LexAccepts(raw, TRUE) => IsUtf8[raw]
Excused == KeepsUtf8 => lenient

RefusedInv ==
    /\ depth \notin Levels => genStatus = "max_depth_exceeded" /\ phase = "dead"
    /\ status = "client_canceled" =>
          /\ phase = "dead"
          /\ \/ genStatus = "max_depth_exceeded" /\ depth = MaxDepth
             \/ genStatus = "invalid_string" /\ Excused

Inv ==
    /\ GenTypeOK /\ indentString \in Text /\ out \in Text /\ sink = "buf"
    /\ BufInv /\ LoopInv /\ MainInv /\ HistoryInv /\ PhaseInv /\ RefusedInv
-----------------------------------------------------------------------------
\* How many events of a kind there are once there is one more.
LEMMA AmongBefore ==
  ASSUME NEW S, NEW t \in Seq(S), NEW e, NEW C, NEW i \in 1..Len(t) + 1
  PROVE  Among(Append(t, e), i, C) = Among(t, i, C)
<1>1. Len(t) \in Nat /\ \A j \in 1..Len(t) : Append(t, e)[j] = t[j]
  OBVIOUS
<1>2. {j \in 1..i - 1 : Append(t, e)[j][1] \in C} = {j \in 1..i - 1 : t[j][1] \in C}
  BY <1>1
<1> QED BY <1>2, Zenon DEF Among

LEMMA AmongMore ==
  ASSUME NEW S, NEW t \in Seq(S), NEW e, NEW C
  PROVE  /\ Among(t, Len(t) + 1, C) \in Nat
         /\ Among(Append(t, e), Len(t) + 2, C)
               = Among(t, Len(t) + 1, C) + IF e[1] \in C THEN 1 ELSE 0
<1> DEFINE u == Append(t, e)
           n == Len(t)
           Of(s, i) == {j \in 1..i - 1 : s[j][1] \in C}
<1>1. n \in Nat /\ u[n + 1] = e /\ \A j \in 1..n : u[j] = t[j]
  OBVIOUS
<1>3. IsFiniteSet(Of(t, n + 1))
  <2>1. IsFiniteSet(1..n)
    BY <1>1, FS_Interval
  <2>2. Of(t, n + 1) \subseteq 1..n
    BY <1>1
  <2> QED BY <2>1, <2>2, FS_Subset
<1>4. Cardinality(Of(t, n + 1)) \in Nat
  BY <1>3, FS_CardinalityType
<1>5. Of(u, n + 2) = IF e[1] \in C THEN Of(t, n + 1) \cup {n + 1} ELSE Of(t, n + 1)
  BY <1>1
<1>6. n + 1 \notin Of(t, n + 1)
  BY <1>1
<1> HIDE DEF Of
<1>7. Cardinality(Of(u, n + 2)) = Cardinality(Of(t, n + 1)) + IF e[1] \in C THEN 1 ELSE 0
  <2> DEFINE C0 == Of(t, n + 1)
             x == n + 1
  <2>1. Cardinality(C0 \cup {x}) = Cardinality(C0) + 1
    <3> HIDE DEF C0, x
    <3> QED BY <1>3, <1>6, FS_AddElement DEF C0, x
  <2>2. CASE e[1] \in C
    BY <1>5, <2>1, <2>2
  <2>3. CASE e[1] \notin C
    BY <1>4, <1>5, <2>3
  <2> QED BY <2>2, <2>3
<1>8. \A i : /\ Among(u, i, C) = Cardinality(Of(u, i))
             /\ Among(t, i, C) = Cardinality(Of(t, i))
  BY DEF Among, Of
<1> HIDE DEF u, n
<1>10. Among(u, n + 2, C) = Among(t, n + 1, C) + IF e[1] \in C THEN 1 ELSE 0
  BY <1>7, <1>8, Zenon
<1>11. Among(t, n + 1, C) \in Nat
  BY <1>4, <1>8, Zenon
<1> QED BY <1>10, <1>11 DEF u, n

LEMMA QuotedText ==
  ASSUME NEW raw \in Raws \cup FewRaws
  PROVE  <<"\"">> \o Encoded(Decoded[raw]) \o <<"\"">> \in Text
<1>1. Decoded[raw] \in Text
  <2>1. Decoded[raw] \in Seq(STRING) /\ STRING \subseteq Symbols
    BY RawsAssumption, Zenon DEF Symbols
  <2>2. \A S, T : S \subseteq T => Seq(S) \subseteq Seq(T)
    OBVIOUS
  <2>3. Seq(STRING) \subseteq Seq(Symbols)
    BY <2>1, <2>2, Zenon
  <2> QED BY <2>1, <2>3, Zenon DEF Text
<1>2. Encoded(Decoded[raw]) \in Text /\ <<"\"">> \in Text
  BY <1>1, EncodedText, PiecesText
<1> QED BY <1>2, TextJoined, Zenon

\* What is told is one of the texts, and is printed as text.
LEMMA TextsAre ==
  ASSUME NEW cb \in Table, NEW text \in TextsOf(cb)
  PROVE  /\ text \in Words
         /\ cb \in {"yajl_string", "yajl_map_key"} =>
               /\ text \in Raws \cup FewRaws /\ LexAccepts(text, ~lenient)
               /\ <<"\"">> \o Encoded(Decoded[text]) \o <<"\"">> \in Text
         /\ cb \in {"yajl_number", "yajl_boolean", "yajl_null"} => text \in Text
<1>1. CASE cb = "yajl_string"
  <2>1. text \in Raws \cup FewRaws /\ LexAccepts(text, ~lenient)
    BY <1>1 DEF TextsOf
  <2> QED BY <1>1, <2>1, QuotedText DEF Words
<1>2. CASE cb = "yajl_map_key"
  <2>1. text \in Raws \cup FewRaws /\ LexAccepts(text, ~lenient)
    BY <1>2 DEF TextsOf
  <2> QED BY <1>2, <2>1, QuotedText DEF Words
<1>3. CASE cb = "yajl_number"
  <2>1. text = <<"7">>
    BY <1>3 DEF TextsOf
  <2> QED BY <1>3, <2>1, Printed, Signs DEF Words
<1>4. CASE cb = "yajl_boolean"
  <2>1. text = <<"t", "r", "u", "e">>
    BY <1>4 DEF TextsOf
  <2> QED BY <1>4, <2>1, Printed, Signs DEF Words
<1>5. CASE cb = "yajl_null"
  <2>1. text = <<"n", "u", "l", "l">>
    BY <1>5 DEF TextsOf
  <2> QED BY <1>5, <2>1, Printed, Signs DEF Words
<1>6. CASE cb \notin {"yajl_string", "yajl_map_key", "yajl_number", "yajl_boolean", "yajl_null"}
  <2>1. text = <<>>
    BY <1>6 DEF TextsOf
  <2> QED BY <1>6, <2>1 DEF Words
<1> QED BY <1>1, <1>2, <1>3, <1>4, <1>5, <1>6
-----------------------------------------------------------------------------
\* What a call of the generator comes to, gs being the containers that are
\* open behind it.
Result(gs, whole, invalid) ==
    /\ GenTypeOK' /\ GrowsTo(out') /\ UNCHANGED outputForm
    /\ \/ genStatus' = "ok" /\ Nested(gs, gs = <<>>)'
       \/ genStatus' = "generation_complete" /\ whole
       \/ genStatus' = "invalid_string" /\ invalid /\ depth' \in Levels
       \/ genStatus' = "max_depth_exceeded" /\ depth' = MaxDepth

Ready(fs, whole) ==
    GenTypeOK /\ out \in Text /\ indentString \in Text /\ Nested(fs, whole)

LEMMA RefusedResult ==
  ASSUME NEW fs, NEW whole \in BOOLEAN, Ready(fs, whole), NEW gs, NEW invalid,
         \/ whole /\ Refuse("generation_complete")
         \/ invalid /\ Refuse("invalid_string")
  PROVE  Result(gs, whole, invalid)
<1>1. UNCHANGED <<depth, state, out, outputForm>> /\ UNCHANGED <<genFlags, sink>>
  BY Zenon DEF Refuse, outputForm
<1>2. depth \in Levels
  BY Placed DEF Ready
<1>3. GrowsTo(out')
  BY <1>1, Behind DEF Ready
<1>4. genStatus' \in GenStatuses
  BY Zenon DEF Refuse, Answer, GenStatuses
<1>5. GenTypeOK'
  BY <1>1, <1>4 DEF Ready, GenTypeOK
<1> QED BY <1>1, <1>2, <1>3, <1>5, Zenon DEF Result, Refuse, Answer

LEMMA EmitResult ==
  ASSUME NEW fs, Ready(fs, FALSE), NEW gs, Advanced(fs, gs), NEW text \in Text, Emit(text),
         NEW whole, NEW invalid
  PROVE  Result(gs, whole, invalid)
<1>1. depth \in Nat /\ depth \in Levels /\ here \in GenStates
  BY Placed DEF Ready
<1>2. depth' = depth /\ state' = [state EXCEPT ![depth] = AfterAtom[@]]
      /\ UNCHANGED outputForm /\ genStatus' = "ok"
  BY DEF Emit, Answer
<1>3. Nested(gs, gs = <<>>)'
  BY <1>2, EmitNested DEF Ready
<1>4. GrowsTo(out')
  BY <1>1, EmitGrows DEF Ready
<1>5. state' \in [Levels -> GenStates] /\ depth' \in Levels
  BY <1>3, <1>1, <1>2 DEF Nested
<1>6. UNCHANGED <<genFlags, sink>> /\ genStatus' \in GenStatuses
  BY <1>2 DEF outputForm, GenStatuses
<1>7. GenTypeOK'
  BY <1>5, <1>6 DEF Ready, GenTypeOK
<1> QED BY <1>2, <1>3, <1>4, <1>7, Zenon DEF Result

LEMMA AtomResult ==
  ASSUME NEW fs, NEW whole \in BOOLEAN, Ready(fs, whole), fs = <<>> \/ fs[Len(fs)] # "key",
         NEW gs, Advanced(fs, gs), NEW text \in Text, gen_atom(text)
  PROVE  Result(gs, whole, FALSE)
<1>1. \/ whole /\ Refuse("generation_complete")
      \/ ~whole /\ Emit(text)
  BY AtomCall DEF Ready
<1>2. CASE whole /\ Refuse("generation_complete")
  BY <1>2, RefusedResult
<1>3. CASE ~whole /\ Emit(text)
  <2>1. Ready(fs, FALSE)
    BY <1>3 DEF Ready
  <2> QED BY <1>3, <2>1, EmitResult
<1> QED BY <1>1, <1>2, <1>3

LEMMA StringResult ==
  ASSUME NEW fs, NEW whole \in BOOLEAN, Ready(fs, whole), NEW gs, Advanced(fs, gs),
         NEW str, <<"\"">> \o Encoded(str) \o <<"\"">> \in Text, NEW valid,
         gen_string(str, valid), NEW invalid, ~valid => invalid
  PROVE  Result(gs, whole, invalid)
<1> DEFINE text == <<"\"">> \o Encoded(str) \o <<"\"">>
<1>1. \/ ~valid /\ Refuse("invalid_string")
      \/ whole /\ Refuse("generation_complete")
      \/ ~whole /\ Emit(text)
  BY StringCall DEF Ready
<1> HIDE DEF text
<1>2. CASE \/ ~valid /\ Refuse("invalid_string")
           \/ whole /\ Refuse("generation_complete")
  <2>1. \/ whole /\ Refuse("generation_complete")
        \/ invalid /\ Refuse("invalid_string")
    BY <1>2
  <2> QED BY <2>1, RefusedResult, Zenon
<1>3. CASE ~whole /\ Emit(text)
  <2>1. Ready(fs, FALSE) /\ text \in Text
    BY <1>3 DEF Ready, text
  <2> QED BY <1>3, <2>1, EmitResult
<1> QED BY <1>1, <1>2, <1>3

LEMMA OpenResult ==
  ASSUME NEW fs, NEW whole \in BOOLEAN, Ready(fs, whole), fs = <<>> \/ fs[Len(fs)] # "key",
         NEW past, Advanced(fs, past), NEW k \in {"key", "elem"}, NEW opened \in StateOf[k],
         NEW bracket \in Symbols, gen_open(opened, bracket)
  PROVE  Result(Append(past, k), whole, FALSE)
<1>1. CASE whole /\ Refuse("generation_complete")
  BY <1>1, RefusedResult
<1>2. CASE /\ ~whole /\ depth' = depth + 1 /\ UNCHANGED outputForm
           /\ depth' >= MaxDepth /\ Answer("max_depth_exceeded")
           /\ out' = out \o Lead /\ UNCHANGED state
  <2>1. depth \in Nat /\ depth \in Levels
    BY Placed DEF Ready
  <2>2. depth' = MaxDepth
    BY <1>2, <2>1, GenMaxDepthAssumption DEF Levels
  <2>3. GrowsTo(out')
    BY <1>2, <2>1, OpenGrows DEF Ready
  <2>4. UNCHANGED <<state, genFlags, sink>> /\ genStatus' \in GenStatuses
    BY <1>2 DEF outputForm, Answer, GenStatuses
  <2>5. GenTypeOK'
    BY <2>2, <2>4 DEF Ready, GenTypeOK
  <2> QED BY <1>2, <2>2, <2>3, <2>5, Zenon DEF Result, Answer
<1>3. CASE /\ ~whole /\ depth' = depth + 1 /\ UNCHANGED outputForm
           /\ ~(depth' >= MaxDepth) /\ Answer("ok")
           /\ out' = out \o Lead \o <<bracket>> \o Newline
           /\ state' = [state EXCEPT ![depth'] = opened]
  <2> DEFINE gs == Append(past, k)
  <2>1. Ready(fs, FALSE) /\ depth \in Nat /\ depth \in Levels /\ ~NeedsKey
    BY <1>3, Placed DEF Ready
  <2>2. depth' < MaxDepth /\ depth' \in Levels
    BY <1>3, <2>1, GenMaxDepthAssumption DEF Levels
  <2>3. Nested(gs, FALSE)' /\ gs # <<>>
    <3>1. Nested(gs, FALSE)'
      BY <1>3, <2>1, <2>2, OpenNested DEF Ready
    <3>2. past \in Seq(Kinds)
      BY DEF Advanced
    <3>3. Len(gs) = Len(past) + 1 /\ Len(past) \in Nat /\ Len(<<>>) = 0
      BY <3>2
    <3>4. gs # <<>>
      BY <3>3
    <3> QED BY <3>1, <3>4, Zenon
  <2> SUFFICES Result(gs, whole, FALSE)
    OBVIOUS
  <2> HIDE DEF gs
  <2>4. Nested(gs, gs = <<>>)' /\ state' \in [Levels -> GenStates]
    BY <2>3 DEF Nested
  <2>5. GrowsTo(out')
    BY <1>3, <2>1, OpenGrows DEF Ready
  <2>6. UNCHANGED <<genFlags, sink>> /\ genStatus' \in GenStatuses
    BY <1>3 DEF outputForm, Answer, GenStatuses
  <2>7. GenTypeOK'
    BY <2>2, <2>4, <2>6 DEF Ready, GenTypeOK
  <2> QED BY <1>3, <2>4, <2>5, <2>7, Zenon DEF Result, Answer
<1> QED BY <1>1, <1>2, <1>3, OpenCall DEF Ready

LEMMA CloseResult ==
  ASSUME NEW fs, Ready(fs, FALSE), fs # <<>>, fs[Len(fs)] \in {"key", "elem"},
         NEW bracket \in Symbols, gen_close(bracket), NEW whole
  PROVE  Result(SubSeq(fs, 1, Len(fs) - 1), whole, FALSE)
<1> DEFINE gs == SubSeq(fs, 1, Len(fs) - 1)
<1>1. /\ depth' = depth - 1 /\ Answer("ok") /\ UNCHANGED outputForm
      /\ state' = [state EXCEPT ![depth'] = AfterAtom[state[depth']]]
      /\ \E s : out' = out \o Newline \o Indent(depth', s) \o <<bracket>> \o Final(s)
  BY CloseCall DEF Ready
<1>2. Nested(gs, gs = <<>>)'
  BY <1>1, CloseNested DEF Ready
<1>3. depth \in Nat /\ depth >= 1 /\ depth \in Levels
  BY Placed DEF Ready
<1>4. depth' \in Nat /\ depth' \in Levels
  BY <1>1, <1>3, GenMaxDepthAssumption DEF Levels
<1>5. GrowsTo(out')
  BY <1>1, <1>4, CloseGrows DEF Ready
<1> SUFFICES Result(gs, whole, FALSE)
  OBVIOUS
<1> HIDE DEF gs
<1>6. UNCHANGED <<genFlags, sink>> /\ genStatus' \in GenStatuses
  BY <1>1 DEF outputForm, Answer, GenStatuses
<1>7. GenTypeOK'
  <2>1. state' \in [Levels -> GenStates]
    BY <1>2 DEF Nested
  <2> QED BY <1>4, <1>6, <2>1 DEF Ready, GenTypeOK
<1> QED BY <1>1, <1>2, <1>5, <1>7, Zenon DEF Result, Answer
-----------------------------------------------------------------------------
\* A callback, gs being the containers that are open behind it.
Continue(gs) ==
    /\ frames' = gs /\ phase' = IF gs = <<>> THEN "done" ELSE "open"
    /\ UNCHANGED <<call, status>>
Stop == frames' = <<>> /\ phase' = "dead" /\ call' = "none" /\ status' = "client_canceled"

Happens(gs, text, whole) ==
    /\ event' \in Table /\ text \in Words /\ gs \in Seq(Kinds)
    /\ whole <=> Whole
    /\ Len(gs) + (IF event' \in Ends THEN 1 ELSE 0)
          = Len(frames) + (IF event' \in Starts THEN 1 ELSE 0)
    /\ frames = <<>> => phase \in {"fresh", "more"}
    /\ Continue(gs) \/ Stop
    /\ Result(gs, whole, Excused)
    /\ genStatus' = "generation_complete" => ~stream
    /\ told' = IF genStatus' = "ok" THEN Append(told, <<event', text>>) ELSE told

LEMMA TellIs ==
  ASSUME callbacks = Table, NEW cb \in Table, NEW gs, Parser!Tell(cb, gs)
  PROVE  event' = cb /\ (Continue(gs) \/ Stop)
<1>1. Parser!Told(cb)
  BY DEF Parser!Told
<1> QED BY <1>1, Zenon DEF Parser!Tell, Parser!Die, Continue, Stop

LEMMA PastIs ==
  ASSUME frames \in Seq(Kinds), Parser!ExpectsValue
  PROVE  /\ Advanced(frames, Parser!PastValue)
         /\ frames = <<>> \/ frames[Len(frames)] # "key"
<1>1. CASE frames = <<>>
  BY <1>1 DEF Parser!PastValue, Advanced
<1>2. CASE frames # <<>>
  <2>1. Len(frames) \in Nat /\ Len(frames) >= 1
    BY <1>2
  <2>2. frames[Len(frames)] \in {"value", "elem"}
    BY <1>2 DEF Parser!ExpectsValue, Parser!Top
  <2>3. CASE frames[Len(frames)] = "value"
    <3>1. Parser!PastValue = [frames EXCEPT ![Len(frames)] = "key"]
      BY <1>2, <2>3 DEF Parser!PastValue, Parser!SetTop, Parser!Top
    <3> QED BY <2>1, <2>2, <2>3, <3>1 DEF Advanced, NextKind, Kinds
  <2>4. CASE frames[Len(frames)] = "elem"
    <3>1. Parser!PastValue = frames
      BY <1>2, <2>4 DEF Parser!PastValue, Parser!Top
    <3> QED BY <2>1, <2>2, <2>4, <3>1 DEF Advanced, NextKind
  <2> QED BY <2>2, <2>3, <2>4
<1> QED BY <1>1, <1>2

LEMMA KeyIs ==
  ASSUME frames \in Seq(Kinds), frames # <<>>, Parser!Top = "key"
  PROVE  Advanced(frames, Parser!SetTop("value"))
<1>1. Len(frames) \in Nat /\ Len(frames) >= 1
  OBVIOUS
<1>2. frames[Len(frames)] = "key"
  BY DEF Parser!Top
<1>3. Parser!SetTop("value") = [frames EXCEPT ![Len(frames)] = "value"]
  BY DEF Parser!SetTop
<1> QED BY <1>1, <1>2, <1>3 DEF Advanced, NextKind, Kinds

LEMMA ResultExcused ==
  ASSUME NEW gs, NEW whole, NEW invalid, Result(gs, whole, invalid), invalid => Excused
  PROVE  Result(gs, whole, Excused)
BY Zenon DEF Result

LEMMA BadIsExcused ==
  ASSUME lenient \in BOOLEAN, NEW raw \in Raws \cup FewRaws, LexAccepts(raw, ~lenient)
  PROVE  ~IsUtf8[raw] => Excused
<1>1. CASE lenient
  BY <1>1 DEF Excused
<1>2. CASE ~lenient
  <2>1. (~lenient) = TRUE
    BY <1>2
  <2>2. LexAccepts(raw, TRUE)
    BY <2>1
  <2> QED BY <2>2, Zenon DEF Excused, KeepsUtf8
<1> QED BY <1>1, <1>2

\* Where the program is when the parser calls back.
LEMMA Before ==
  ASSUME Inv, Running, phase # "dead"
  PROVE  /\ Ready(frames, Whole) /\ frames \in Seq(Kinds) /\ Whole \in BOOLEAN
         /\ callbacks = Table /\ bufAt = "idle" /\ lenient \in BOOLEAN
         /\ Whole => frames = <<>>
         /\ phase \in {"fresh", "open", "done", "more"} /\ (frames = <<>> <=> phase # "open")
<1>1. Nested(frames, Whole)
  BY DEF Inv, PhaseInv
<1>2. frames \in Seq(Kinds) /\ (Whole => frames = <<>>)
  BY <1>1 DEF Nested
<1>3. Whole \in BOOLEAN
  BY DEF Whole
<1>4. callbacks = Table /\ lenient \in BOOLEAN /\ bufAt = "idle"
  BY DEF Inv, MainInv, HistoryInv, Running
<1>5. phase \in {"fresh", "open", "done", "more"} /\ (frames = <<>> <=> phase # "open")
  BY DEF Inv, PhaseInv
<1> QED BY <1>1, <1>2, <1>3, <1>4, <1>5 DEF Inv, Ready

\* What the parser promises of a callback, for the containers fs before it and
\* gs behind it.
NoKeyHere(fs) == fs = <<>> \/ fs[Len(fs)] # "key"
Promised(cb, fs, gs, whole) ==
    \/ /\ cb \in {"yajl_null", "yajl_boolean", "yajl_number", "yajl_string"}
       /\ Advanced(fs, gs) /\ NoKeyHere(fs)
    \/ cb = "yajl_map_key" /\ Advanced(fs, gs) /\ fs # <<>>
    \/ /\ cb = "yajl_start_map" /\ NoKeyHere(fs)
       /\ \E past : Advanced(fs, past) /\ gs = Append(past, "key")
    \/ /\ cb = "yajl_start_array" /\ NoKeyHere(fs)
       /\ \E past : Advanced(fs, past) /\ gs = Append(past, "elem")
    \/ /\ cb \in Ends /\ ~whole /\ fs # <<>> /\ fs[Len(fs)] \in {"key", "elem"}
       /\ gs = SubSeq(fs, 1, Len(fs) - 1)

LEMMA PromisedDepth ==
  ASSUME NEW fs \in Seq(Kinds), NEW gs, NEW cb, NEW whole, Promised(cb, fs, gs, whole)
  PROVE  /\ gs \in Seq(Kinds) /\ cb \in Table
         /\ Len(gs) + (IF cb \in Ends THEN 1 ELSE 0)
               = Len(fs) + (IF cb \in Starts THEN 1 ELSE 0)
<1>1. Len(fs) \in Nat
  OBVIOUS
<1>2. ASSUME NEW past, NEW k \in Kinds, Advanced(fs, past), gs = Append(past, k)
      PROVE  gs \in Seq(Kinds) /\ Len(gs) = Len(fs) + 1
  <2>1. past \in Seq(Kinds) /\ Len(past) = Len(fs)
    BY <1>2 DEF Advanced
  <2> QED BY <1>2, <2>1
<1>3. "key" \in Kinds /\ "elem" \in Kinds
  BY DEF Kinds
<1>4. CASE cb \in Starts
  <2>1. gs \in Seq(Kinds) /\ Len(gs) = Len(fs) + 1
    BY <1>2, <1>3, <1>4 DEF Promised, Starts, Ends
  <2>2. cb \notin Ends /\ cb \in Table
    BY <1>4 DEF Starts, Ends, Table
  <2> QED BY <1>1, <1>4, <2>1, <2>2
<1>5. CASE cb \in Ends
  <2>1. fs # <<>> /\ gs = SubSeq(fs, 1, Len(fs) - 1)
    BY <1>5 DEF Promised, Ends
  <2>2. gs \in Seq(Kinds) /\ Len(gs) + 1 = Len(fs)
    <3>1. Len(fs) >= 1
      BY <1>1, <2>1
    <3>2. /\ SubSeq(fs, 1, Len(fs) - 1) \in Seq(Kinds)
          /\ Len(SubSeq(fs, 1, Len(fs) - 1)) = Len(fs) - 1
      BY <1>1, <3>1, SMTT(20)
    <3> QED BY <1>1, <2>1, <3>2
  <2>3. cb \notin Starts /\ cb \in Table
    BY <1>5 DEF Starts, Ends, Table
  <2> QED BY <1>1, <1>5, <2>2, <2>3
<1>6. CASE cb \notin Starts \cup Ends
  <2>1. Advanced(fs, gs) /\ cb \in Table
    BY <1>6 DEF Promised, Starts, Ends, Table
  <2>2. gs \in Seq(Kinds) /\ Len(gs) = Len(fs)
    BY <2>1 DEF Advanced
  <2> QED BY <1>1, <1>6, <2>1, <2>2
<1> QED BY <1>4, <1>5, <1>6

LEMMA Called ==
  ASSUME NEW fs, NEW whole \in BOOLEAN, Ready(fs, whole), NEW gs, lenient \in BOOLEAN,
         NEW cb \in Table, NEW text \in TextsOf(cb), func(cb, text),
         Promised(cb, fs, gs, whole)
  PROVE  Result(gs, whole, Excused)
<1>1. CASE cb \in {"yajl_null", "yajl_boolean", "yajl_number"}
  <2>1. gen_atom(text) /\ text \in Text
    BY <1>1, TextsAre DEF func
  <2>2. Advanced(fs, gs) /\ (fs = <<>> \/ fs[Len(fs)] # "key")
    BY <1>1 DEF Promised, NoKeyHere, Ends
  <2>3. Result(gs, whole, FALSE)
    BY <2>1, <2>2, AtomResult
  <2> QED BY <2>3, ResultExcused
<1>2. CASE cb \in {"yajl_string", "yajl_map_key"}
  <2>1. gen_string(Decoded[text], IsUtf8[text])
    BY <1>2 DEF func
  <2>2. <<"\"">> \o Encoded(Decoded[text]) \o <<"\"">> \in Text /\ Advanced(fs, gs)
    BY <1>2, TextsAre DEF Promised, Ends
  <2>3. ~IsUtf8[text] => Excused
    BY <1>2, TextsAre, BadIsExcused
  <2> DEFINE str == Decoded[text]
             valid == IsUtf8[text]
  <2>4. /\ gen_string(str, valid) /\ <<"\"">> \o Encoded(str) \o <<"\"">> \in Text
        /\ ~valid => Excused
    BY <2>1, <2>2, <2>3
  <2> HIDE DEF str, valid
  <2> QED BY <2>2, <2>4, StringResult
<1>3. CASE cb = "yajl_start_map"
  <2>1. gen_open("map_start", "{")
    BY <1>3 DEF func, map_open
  <2>2. PICK past : Advanced(fs, past) /\ gs = Append(past, "key")
    BY <1>3 DEF Promised, Ends
  <2>4. fs = <<>> \/ fs[Len(fs)] # "key"
    BY <1>3 DEF Promised, NoKeyHere, Ends
  <2>3. "map_start" \in StateOf["key"] /\ "key" \in {"key", "elem"} /\ "{" \in Symbols
    BY Signs DEF StateOf
  <2>5. Result(gs, whole, FALSE)
    BY <2>1, <2>2, <2>3, <2>4, OpenResult
  <2> QED BY <2>5, ResultExcused
<1>4. CASE cb = "yajl_start_array"
  <2>1. gen_open("array_start", "[")
    BY <1>4 DEF func, array_open
  <2>2. PICK past : Advanced(fs, past) /\ gs = Append(past, "elem")
    BY <1>4 DEF Promised, Ends
  <2>4. fs = <<>> \/ fs[Len(fs)] # "key"
    BY <1>4 DEF Promised, NoKeyHere, Ends
  <2>3. "array_start" \in StateOf["elem"] /\ "elem" \in {"key", "elem"} /\ "[" \in Symbols
    BY Signs DEF StateOf
  <2>5. Result(gs, whole, FALSE)
    BY <2>1, <2>2, <2>3, <2>4, OpenResult
  <2> QED BY <2>5, ResultExcused
<1>5. CASE cb \in Ends
  <2>1. gen_close("}") \/ gen_close("]")
    BY <1>5 DEF func, map_close, array_close, Ends
  <2>2. "}" \in Symbols /\ "]" \in Symbols
    BY Signs
  <2>3. /\ ~whole /\ fs # <<>> /\ fs[Len(fs)] \in {"key", "elem"}
        /\ gs = SubSeq(fs, 1, Len(fs) - 1)
    BY <1>5 DEF Promised, Ends
  <2>4. Ready(fs, FALSE)
    BY <2>3 DEF Ready
  <2>5. Result(gs, whole, FALSE)
    BY <2>1, <2>2, <2>3, <2>4, CloseResult
  <2> QED BY <2>5, ResultExcused
<1> QED BY <1>1, <1>2, <1>3, <1>4, <1>5 DEF Table, Ends

LEMMA CallbackHappens ==
  ASSUME Inv, Callback
  PROVE  /\ Running /\ phase # "dead" /\ UNCHANGED <<flags, callbacks>>
         /\ \E gs, text, whole : Happens(gs, text, whole)
<1>1. PICK text : /\ text \in TextsOf(event') /\ func(event', text)
                  /\ genStatus' = "generation_complete" => ~stream
                  /\ told' = IF genStatus' = "ok" THEN Append(told, <<event', text>>) ELSE told
  BY DEF Callback
<1>2. Running /\ phase # "dead" /\ UNCHANGED <<flags, callbacks>>
  BY DEF Callback, Parser!TellScalar, Parser!TellOpen, Parser!TellKey, Parser!TellClose,
         Parser!Within
<1>3. /\ Ready(frames, Whole) /\ frames \in Seq(Kinds) /\ callbacks = Table
      /\ lenient \in BOOLEAN /\ (Whole => frames = <<>>)
      /\ phase \in {"fresh", "open", "done", "more"} /\ (frames = <<>> <=> phase # "open")
  BY <1>2, Before
<1>4. PICK whole \in BOOLEAN : whole = Whole
  BY DEF Whole
<1>5. PICK fs : fs = frames
  OBVIOUS
<1>6. fs \in Seq(Kinds) /\ Len(fs) \in Nat /\ Ready(fs, whole) /\ (whole => fs = <<>>)
  BY <1>3, <1>4, <1>5
<1>7. ASSUME NEW cb, NEW gs, Promised(cb, fs, gs, whole), Parser!Tell(cb, gs),
             frames = <<>> => phase \in {"fresh", "more"}
      PROVE  Happens(gs, text, whole)
  <2>1. cb \in Table /\ gs \in Seq(Kinds)
        /\ Len(gs) + (IF cb \in Ends THEN 1 ELSE 0)
              = Len(fs) + (IF cb \in Starts THEN 1 ELSE 0)
    BY <1>6, <1>7, PromisedDepth
  <2>2. event' = cb /\ (Continue(gs) \/ Stop)
    BY <1>3, <1>7, <2>1, TellIs
  <2>3. text \in TextsOf(cb) /\ func(cb, text)
    BY <1>1, <2>2
  <2>4. Result(gs, whole, Excused)
    BY <1>3, <1>6, <1>7, <2>1, <2>3, Called
  <2>5. text \in Words
    BY <2>1, <2>3, TextsAre
  <2> QED BY <1>1, <1>4, <1>5, <1>7, <2>1, <2>2, <2>4, <2>5 DEF Happens
<1>8. CASE Parser!TellScalar
  <2>1. PICK cb \in Parser!ScalarEvents : Parser!Tell(cb, Parser!PastValue)
    BY <1>8 DEF Parser!TellScalar
  <2>2. cb \in {"yajl_null", "yajl_boolean", "yajl_number", "yajl_string"}
    BY <1>3 DEF Parser!ScalarEvents, Parser!Told, Table
  <2>3. PICK gs : gs = Parser!PastValue
    OBVIOUS
  <2>4. Advanced(fs, gs) /\ NoKeyHere(fs)
    BY <1>3, <1>5, <1>8, <2>3, PastIs DEF Parser!TellScalar, NoKeyHere
  <2>5. Promised(cb, fs, gs, whole)
    BY <2>2, <2>4 DEF Promised
  <2>6. frames = <<>> => phase \in {"fresh", "more"}
    BY <1>8 DEF Parser!TellScalar, Parser!ExpectsValue
  <2> QED BY <1>2, <1>7, <2>1, <2>3, <2>5, <2>6
<1>9. CASE Parser!TellOpen
  <2>1. PICK past : past = Parser!PastValue
    OBVIOUS
  <2>2. PICK cb, k : /\ <<cb, k>> \in {<<"yajl_start_map", "key">>, <<"yajl_start_array", "elem">>}
                     /\ Parser!Tell(cb, Append(past, k))
    BY <1>9, <2>1 DEF Parser!TellOpen
  <2>3. PICK gs : gs = Append(past, k)
    OBVIOUS
  <2>4. Advanced(fs, past) /\ NoKeyHere(fs)
    BY <1>3, <1>5, <1>9, <2>1, PastIs DEF Parser!TellOpen, NoKeyHere
  <2>5. Promised(cb, fs, gs, whole)
    BY <2>2, <2>3, <2>4 DEF Promised
  <2>6. frames = <<>> => phase \in {"fresh", "more"}
    BY <1>9 DEF Parser!TellOpen, Parser!ExpectsValue
  <2> QED BY <1>2, <1>7, <2>2, <2>3, <2>5, <2>6
<1>10. CASE Parser!TellKey
  <2>1. frames # <<>> /\ Parser!Top = "key"
        /\ Parser!Tell("yajl_map_key", Parser!SetTop("value"))
    BY <1>10 DEF Parser!TellKey
  <2>2. PICK gs : gs = Parser!SetTop("value")
    OBVIOUS
  <2>3. Advanced(fs, gs) /\ fs # <<>>
    BY <1>3, <1>5, <2>1, <2>2, KeyIs
  <2>4. Promised("yajl_map_key", fs, gs, whole)
    BY <2>3 DEF Promised
  <2> QED BY <1>2, <1>7, <2>1, <2>2, <2>4
<1>11. CASE Parser!TellClose
  <2>1. PICK gs : gs = SubSeq(frames, 1, Len(frames) - 1)
    OBVIOUS
  <2>2. PICK cb \in Ends : /\ Parser!Tell(cb, gs)
                           /\ frames # <<>> /\ Parser!Top \in {"key", "elem"}
    BY <1>11, <2>1 DEF Parser!TellClose, Ends
  <2>3. /\ ~whole /\ fs # <<>> /\ fs[Len(fs)] \in {"key", "elem"}
        /\ gs = SubSeq(fs, 1, Len(fs) - 1)
    BY <1>5, <1>6, <2>1, <2>2 DEF Parser!Top
  <2>4. Promised(cb, fs, gs, whole)
    BY <2>3 DEF Promised
  <2> QED BY <1>2, <1>5, <1>7, <2>2, <2>3, <2>4
<1> QED BY <1>2, <1>8, <1>9, <1>10, <1>11 DEF Callback

-----------------------------------------------------------------------------
(* Every action keeps the invariant. *)

LEMMA NestedSame ==
  ASSUME Nested(frames, Whole), UNCHANGED <<frames, depth, state>>, Whole' <=> Whole
  PROVE  Nested(frames, Whole)'
BY DEF Nested

LEMMA AcceptedPhase ==
  ASSUME Inv, Callback, NEW gs, NEW text, NEW whole, Happens(gs, text, whole), genStatus' = "ok"
  PROVE  PhaseInv' /\ RefusedInv' /\ Continue(gs)
<1>1. /\ status' # "client_canceled" /\ todo' = NoCall
  BY DEF Callback
<1>2. Continue(gs) /\ gs \in Seq(Kinds)
  BY <1>1 DEF Happens, Stop
<1>3. /\ frames' = gs /\ phase' = IF gs = <<>> THEN "done" ELSE "open"
      /\ phase' # "dead" /\ phase' # "fresh" /\ phase' # "more" /\ phase' \in {"open", "done"}
      /\ (gs = <<>> <=> phase' # "open")
  BY <1>2 DEF Continue
<1>4. Whole' <=> gs = <<>>
  BY <1>1, <1>3 DEF Whole
<1>5. Nested(gs, gs = <<>>)'
  BY DEF Happens, Result
<1>6. Nested(frames, Whole)' /\ depth' \in Levels
  BY <1>3, <1>4, <1>5 DEF Nested
<1>7. told \in Seq(Table \X Words) /\ event' \in Table /\ text \in Words /\ phase # "dead"
  BY CallbackHappens DEF Inv, HistoryInv, Happens
<1>8. told' = Append(told, <<event', text>>)
  BY DEF Happens
<1>9. Len(told) \in Nat /\ Len(told') = Len(told) + 1 /\ told' # <<>>
  BY <1>7, <1>8
<1>10. Among(told, Len(told) + 1, Starts)' = Among(told, Len(told) + 1, Ends)' + Len(frames')
  <2> DEFINE e == <<event', text>>
  <2>1. /\ Among(told', Len(told) + 2, Starts)
             = Among(told, Len(told) + 1, Starts) + IF e[1] \in Starts THEN 1 ELSE 0
        /\ Among(told', Len(told) + 2, Ends)
             = Among(told, Len(told) + 1, Ends) + IF e[1] \in Ends THEN 1 ELSE 0
        /\ Among(told, Len(told) + 1, Starts) \in Nat /\ Among(told, Len(told) + 1, Ends) \in Nat
    <3> HIDE DEF e
    <3> QED BY <1>7, <1>8, AmongMore DEF e
  <2>2. Among(told, Len(told) + 1, Starts) = Among(told, Len(told) + 1, Ends) + Len(frames)
    BY <1>7 DEF Inv, PhaseInv
  <2>3. /\ Len(gs) + (IF e[1] \in Ends THEN 1 ELSE 0)
             = Len(frames) + (IF e[1] \in Starts THEN 1 ELSE 0)
        /\ Len(gs) \in Nat
    BY <1>2 DEF Happens
  <2>4. frames \in Seq(Kinds) /\ Len(frames) \in Nat
    BY <1>7, CallbackHappens, Before
  <2>5. Len(told) + 2 = Len(told') + 1 /\ Len(frames') = Len(gs)
    BY <1>3, <1>9
  <2> HIDE DEF e
  <2>6. Among(told', Len(told) + 2, Starts) = Among(told', Len(told) + 2, Ends) + Len(gs)
    BY <2>1, <2>2, <2>3, <2>4
  <2> QED BY <2>5, <2>6
<1>11. PhaseInv'
  BY <1>1, <1>3, <1>6, <1>9, <1>10 DEF PhaseInv
<1>12. RefusedInv'
  BY <1>1, <1>6 DEF RefusedInv
<1> QED BY <1>2, <1>11, <1>12

LEMMA RefusedPhase ==
  ASSUME Inv, Callback, NEW gs, NEW text, NEW whole, Happens(gs, text, whole), genStatus' # "ok"
  PROVE  PhaseInv' /\ RefusedInv' /\ Stop
<1>1. /\ status' = "client_canceled" /\ todo' = NoCall
  BY DEF Callback
<1>2. phase # "dead"
  BY CallbackHappens
<1>3. status # "client_canceled"
  BY <1>2 DEF Inv, RefusedInv
<1>4. Stop
  BY <1>1, <1>3 DEF Happens, Continue
<1>5. ~(genStatus' = "generation_complete" /\ whole)
  <2> SUFFICES ASSUME genStatus' = "generation_complete", whole PROVE FALSE
    OBVIOUS
  <2>1. Whole /\ ~stream /\ (frames = <<>> => phase \in {"fresh", "more"})
    BY DEF Happens
  <2>2. frames = <<>>
    BY <2>1, CallbackHappens, Before
  <2>3. phase # "more"
    BY <2>1 DEF Inv, PhaseInv
  <2> QED BY <2>1, <2>2, <2>3 DEF Whole
<1>6. \/ genStatus' = "invalid_string" /\ depth' \in Levels /\ Excused'
      \/ genStatus' = "max_depth_exceeded" /\ depth' = MaxDepth
  <2>1. Excused' <=> Excused
    BY DEF Callback, Excused
  <2> QED BY <1>5, <2>1 DEF Happens, Result
<1>7. PhaseInv'
  BY <1>1, <1>4 DEF Stop, PhaseInv
<1>8. RefusedInv'
  BY <1>4, <1>6 DEF Stop, RefusedInv
<1> QED BY <1>4, <1>7, <1>8

LEMMA CallbackHistory ==
  ASSUME Inv, Callback, NEW gs, NEW text, NEW whole, Happens(gs, text, whole)
  PROVE  HistoryInv' /\ main' \in {"parse", "finish", "report", "report_end"}
<1>1. /\ main \in {"parse", "finish"} /\ phase # "dead" /\ flags' = flags
  BY CallbackHappens DEF Running
<1>2. /\ main' = IF call' # "none" THEN main ELSE IF main = "parse" THEN "report" ELSE "report_end"
      /\ UNCHANGED <<lenient, stat, mark, report>> /\ MoreToTell
  BY DEF Callback
<1>3. main' \in {"parse", "finish", "report", "report_end"} /\ (main' = "parse" => main = "parse")
  BY <1>1, <1>2
<1>4. told \in Seq(Table \X Words) /\ Len(told) \in Nat /\ Len(told) <= MaxTold
      /\ mark \in Nat /\ mark <= Len(told)
  BY DEF Inv, HistoryInv
<1>5. CASE told' = told
  <2>1. stream' <=> stream
    BY <1>1 DEF stream
  <2>2. \A i : OpenBehind(i)' <=> OpenBehind(i)
    BY <1>5 DEF OpenBehind
  <2> QED BY <1>2, <1>3, <1>5, <2>1, <2>2 DEF Inv, HistoryInv
<1>6. CASE told' = Append(told, <<event', text>>)
  <2>1. <<event', text>> \in Table \X Words
    BY DEF Happens
  <2>2. /\ told' \in Seq(Table \X Words) /\ Len(told') = Len(told) + 1
    BY <1>4, <1>6, <2>1
  <2>3. Len(told) < MaxTold
    <3>1. Len(told) < 2 \/ Len(told) < MaxTold
      BY <1>2 DEF MoreToTell
    <3> QED BY <1>4, <3>1, MaxToldAssumption
  <2>4. Len(told') <= MaxTold /\ mark' \in Nat /\ mark' <= Len(told')
    BY <1>2, <1>4, <2>2, <2>3, MaxToldAssumption
  <2>5. ASSUME ~stream', NEW i \in 2..Len(told') PROVE OpenBehind(i)'
    <3>1. ~stream
      BY <1>1, <2>5 DEF stream
    <3>2. i \in 1..Len(told) + 1
      BY <1>4, <2>2
    <3>3. /\ Among(told', i, Starts) = Among(told, i, Starts)
          /\ Among(told', i, Ends) = Among(told, i, Ends)
      <4>1. PICK e : e = <<event', text>>
        OBVIOUS
      <4>2. PICK t : t = told
        OBVIOUS
      <4>3. t \in Seq(Table \X Words) /\ told' = Append(t, e) /\ i \in 1..Len(t) + 1
        BY <1>4, <1>6, <3>2, <4>1, <4>2
      <4>4. Among(Append(t, e), i, Starts) = Among(t, i, Starts)
        BY <4>3, AmongBefore
      <4>5. Among(Append(t, e), i, Ends) = Among(t, i, Ends)
        BY <4>3, AmongBefore
      <4> QED BY <4>2, <4>3, <4>4, <4>5
    <3>4. OpenBehind(i)
      <4>1. CASE i \in 2..Len(told)
        BY <3>1, <4>1 DEF Inv, HistoryInv
      <4>2. CASE i = Len(told) + 1
        <5>1. told # <<>>
          BY <1>4, <4>2
        <5>2. phase # "fresh" /\ phase # "more"
          BY <1>1, <3>1, <5>1 DEF Inv, PhaseInv
        <5>3. frames # <<>>
          BY <5>2 DEF Happens
        <5>4. frames \in Seq(Kinds)
          BY <1>1, CallbackHappens, Before
        <5>5. Len(frames) \in Nat /\ Len(frames) > 0
          BY <5>3, <5>4
        <5>6. Among(told, Len(told) + 1, Starts)
                 = Among(told, Len(told) + 1, Ends) + Len(frames)
          BY <1>1 DEF Inv, PhaseInv
        <5>7. Among(told, Len(told) + 1, Ends) \in Nat
          BY <1>4, AmongMore
        <5>8. Among(told, Len(told) + 1, Starts) > Among(told, Len(told) + 1, Ends)
          BY <5>5, <5>6, <5>7
        <5> QED BY <4>2, <5>8 DEF OpenBehind
      <4>3. i \in 2..Len(told) \/ i = Len(told) + 1
        BY <1>4, <3>2
      <4> QED BY <4>1, <4>2, <4>3
    <3> QED BY <3>3, <3>4 DEF OpenBehind
  <2>6. HistoryInv'
    BY <1>2, <1>3, <2>2, <2>4, <2>5 DEF Inv, HistoryInv
  <2> QED BY <1>3, <2>6
<1> QED BY <1>5, <1>6 DEF Happens

LEMMA CallbackInv ==
  ASSUME Inv, Callback
  PROVE  Inv'
<1>1. PICK gs, text, whole : Happens(gs, text, whole)
  BY CallbackHappens
<1>2. /\ main \in {"parse", "finish"} /\ bufAt = "idle" /\ phase # "dead"
      /\ flags' = flags /\ callbacks' = callbacks
  BY CallbackHappens DEF Running
<1>3. HistoryInv' /\ main' \in {"parse", "finish", "report", "report_end"}
  BY <1>1, CallbackHistory
<1>4. GenTypeOK' /\ GrowsTo(out') /\ indentString' = indentString /\ sink' = sink
  BY <1>1 DEF Happens, Result, outputForm
<1>5. out' \in Text
  BY <1>4 DEF GrowsTo
<1>6. BufInv' /\ LoopInv'
  BY <1>2, <1>4, PrintsInv DEF Inv, Callback
<1>7. main' = IF call' # "none" THEN main ELSE IF main = "parse" THEN "report" ELSE "report_end"
  BY DEF Callback
<1>8. call = main
  BY <1>2 DEF Inv, MainInv
<1>9. CASE genStatus' = "ok"
  <2>1. PhaseInv' /\ RefusedInv' /\ Continue(gs)
    BY <1>1, <1>9, AcceptedPhase
  <2>2. call' = call /\ main' = main
    BY <1>2, <1>7, <1>8, <2>1 DEF Continue
  <2>3. MainInv'
    BY <1>2, <1>3, <1>8, <2>2 DEF Inv, MainInv
  <2> QED BY <1>3, <1>4, <1>5, <1>6, <2>1, <2>3 DEF Inv
<1>10. CASE genStatus' # "ok"
  <2>1. PhaseInv' /\ RefusedInv' /\ Stop
    BY <1>1, <1>10, RefusedPhase
  <2>2. call' = "none" /\ main' \in {"report", "report_end"}
    BY <1>2, <1>7, <2>1 DEF Stop
  <2>3. MainInv'
    BY <1>2, <1>3, <2>2 DEF Inv, MainInv
  <2> QED BY <1>3, <1>4, <1>5, <1>6, <2>1, <2>3 DEF Inv
<1> QED BY <1>9, <1>10

\* What leaves the histories, the options and the program's place alone.
LEMMA HistorySame ==
  ASSUME HistoryInv, UNCHANGED <<told, mark, report, lenient, stat, flags>>,
         \/ main' = main
         \/ main' \notin {"options", "read", "crashed", "parse", "write"}
         \/ main = "parse" /\ main' = "write"
  PROVE  HistoryInv'
<1>1. stream' <=> stream
  BY DEF stream
<1>2. \A i : OpenBehind(i)' <=> OpenBehind(i)
  BY DEF OpenBehind
<1> QED BY <1>1, <1>2 DEF HistoryInv

LEMMA PhaseSame ==
  ASSUME PhaseInv, UNCHANGED <<frames, phase, flags, told, todo, depth, state>>
  PROVE  PhaseInv'
<1>1. stream' <=> stream
  BY DEF stream
<1>2. Whole' <=> Whole
  BY DEF Whole
<1>3. phase # "dead" => Nested(frames, Whole)'
  BY <1>2, NestedSame DEF PhaseInv
<1>4. phase # "dead" => (Among(told, Len(told) + 1, Starts)
                = Among(told, Len(told) + 1, Ends) + Len(frames))'
  BY DEF PhaseInv
<1> QED BY <1>1, <1>3, <1>4 DEF PhaseInv

LEMMA SetupInv ==
  ASSUME Inv, Setup
  PROVE  Inv'
<1>1. /\ main = "options" /\ main' = "read" /\ flags' \subseteq {"allow_multiple_values"}
      /\ lenient' \in BOOLEAN /\ genFlags' \subseteq GenOptions
      /\ UNCHANGED <<depth, state, indentString, out, sink, genStatus, bufVars>>
      /\ UNCHANGED <<frames, phase, callbacks, call, status>>
      /\ UNCHANGED <<stat, todo, told, mark, report>>
  BY DEF Setup, GenOptions
<1>2. phase = "fresh" /\ told = <<>>
  BY <1>1 DEF Inv, MainInv, PhaseInv
<1>3. GenTypeOK' /\ indentString' \in Text /\ out' \in Text /\ sink' = "buf"
  BY <1>1 DEF Inv, GenTypeOK
<1>4. BufInv' /\ LoopInv'
  BY <1>1 DEF Inv, bufVars, BufInv, BufTypeOK, Fits, LoopInv
<1>5. MainInv'
  BY <1>1, <1>2 DEF Inv, MainInv, bufVars
<1>6. HistoryInv'
  BY <1>1, <1>2 DEF Inv, HistoryInv
<1>7. PhaseInv'
  <2>1. Nested(frames, Whole)'
    <3>1. Whole' <=> Whole
      BY <1>1 DEF Whole
    <3> QED BY <1>1, <1>2, <3>1, NestedSame DEF Inv, PhaseInv
  <2>2. (Among(told, Len(told) + 1, Starts)
                = Among(told, Len(told) + 1, Ends) + Len(frames))'
    BY <1>1, <1>2 DEF Inv, PhaseInv
  <2> QED BY <1>1, <1>2, <2>1, <2>2 DEF Inv, PhaseInv
<1>8. RefusedInv'
  BY <1>1, <1>2 DEF Inv, RefusedInv
<1> QED BY <1>3, <1>4, <1>5, <1>6, <1>7, <1>8 DEF Inv

LEMMA InitInv == Init => Inv
<1> SUFFICES ASSUME Init PROVE Inv
  OBVIOUS
<1>1. /\ GenInit /\ BufInit /\ frames = <<>> /\ phase = "fresh" /\ flags = {}
      /\ callbacks = Table /\ call = "none" /\ status = "ok"
      /\ main = "options" /\ stat = "garbage" /\ lenient = FALSE
      /\ todo = NoCall /\ told = <<>> /\ mark = 0 /\ report = <<>>
  BY DEF Init, Parser!Init
<1>2. /\ depth = 0 /\ state = [i \in Levels |-> "start"] /\ genFlags = {}
      /\ indentString = <<" ", " ", " ", " ">> /\ out = <<>> /\ sink = "buf"
      /\ genStatus = "ok"
  BY <1>1 DEF GenInit
<1>3. 0 \in Levels
  BY GenMaxDepthAssumption DEF Levels
<1>4. state \in [Levels -> GenStates] /\ state[0] = "start"
  BY <1>2, <1>3 DEF GenStates
<1>5. GenTypeOK
  BY <1>2, <1>3, <1>4 DEF GenTypeOK, GenStatuses
<1>6. indentString \in Text /\ out \in Text
  BY <1>2, Printed, Signs
<1>7. BufInv
  BY <1>1, BufInitInv
<1>8. LoopInv
  BY <1>1, <1>2 DEF LoopInv, BufInit
<1>9. MainInv
  BY <1>1 DEF MainInv, BufInit
<1>10. HistoryInv
  <2>1. told \in Seq(Table \X Words) /\ Len(told) = 0
    BY <1>1
  <2>2. Len(told) <= MaxTold /\ mark \in Nat /\ mark <= Len(told)
    BY <1>1, <2>1, MaxToldAssumption
  <2>3. \A i \in 2..Len(told) : OpenBehind(i)
    BY <2>1
  <2> QED BY <1>1, <2>1, <2>2, <2>3 DEF HistoryInv
<1>11. PhaseInv
  <2>1. ~Whole
    BY <1>1 DEF Whole
  <2>2. Nested(frames, Whole)
    <3>1. frames \in Seq(Kinds) /\ Len(frames) = 0
      BY <1>1
    <3>2. \A d \in 1..depth :
             state[d] \in IF d = depth THEN StateOf[frames[d]] ELSE WaitingOf[frames[d]]
      <4>1. depth = 0
        BY <1>2
      <4>2. 1..depth = {}
        BY <4>1
      <4> QED BY <4>2, Zenon
    <3> QED BY <1>2, <1>3, <1>4, <2>1, <3>1, <3>2 DEF Nested
  <2>3. \A C : Among(<<>>, 1, C) = 0
    <3>1. \A C : {j \in 1..1 - 1 : <<>>[j][1] \in C} = {}
      OBVIOUS
    <3> QED BY <3>1, FS_EmptySet DEF Among
  <2> QED BY <1>1, <2>2, <2>3 DEF PhaseInv
<1>12. RefusedInv
  BY <1>1, <1>2, <1>3 DEF RefusedInv
<1> QED BY <1>2, <1>5, <1>6, <1>7, <1>8, <1>9, <1>10, <1>11, <1>12 DEF Inv

\* gen_reset and the newline that separates two documents of a stream.
LEMMA ResetInv ==
  ASSUME Inv, ResetAndRepeat
  PROVE  Inv'
<1>1. /\ Running /\ stream /\ todo = NoCall /\ phase = "more"
      /\ gen_reset(<<"\n">>) /\ Prints
      /\ UNCHANGED <<frames, phase, flags, callbacks, call, status>>
      /\ UNCHANGED <<main, lenient, stat, told, mark, report>>
  BY DEF ResetAndRepeat, parserVars
<1>2. /\ depth' = 0 /\ state' = [i \in Levels |-> "start"] /\ out' = out \o <<"\n">>
      /\ genStatus' = "ok" /\ UNCHANGED <<genFlags, indentString, sink>>
  BY <1>1 DEF gen_reset, Answer, outputForm
<1>3. 0 \in Levels
  BY GenMaxDepthAssumption DEF Levels
<1>4. state' \in [Levels -> GenStates] /\ state'[0] = "start"
  BY <1>2, <1>3 DEF GenStates
<1>5. GenTypeOK'
  BY <1>2, <1>3, <1>4 DEF Inv, GenTypeOK, GenStatuses
<1>6. GrowsTo(out')
  <2>1. <<"\n">> \in Text /\ out \in Text
    BY Printed, Signs DEF Inv
  <2> QED BY <1>2, <2>1, Behind, Zenon
<1>7. out' \in Text /\ indentString' \in Text /\ sink' = "buf"
  BY <1>2, <1>6 DEF GrowsTo, Inv
<1>8. BufInv' /\ LoopInv'
  BY <1>1, <1>6, PrintsInv DEF Inv, Running
<1>9. MainInv'
  BY <1>1 DEF Inv, MainInv, Running
<1>10. HistoryInv'
  BY <1>1, HistorySame DEF Inv
<1>11. frames = <<>> /\ phase' = "more" /\ stream'
  BY <1>1 DEF Inv, PhaseInv, stream
<1>12. PhaseInv'
  <2>1. CASE todo' = NoCall
    <3>1. \A cb, text : cb \in Table => <<cb, text>> # NoCall
      BY DEF NoCall, Table
    <3>2. PICK cb, text : cb \in Tellable /\ todo' = <<cb, text>>
      BY DEF ResetAndRepeat
    <3>3. cb \in Table
      BY <3>2 DEF Tellable, Table
    <3> QED BY <2>1, <3>1, <3>2, <3>3
  <2>2. CASE todo' # NoCall
    <3>1. ~Whole'
      BY <2>2 DEF Whole
    <3>2. Nested(frames, Whole)'
      <4>1. frames' \in Seq(Kinds) /\ Len(frames') = 0 /\ frames' = <<>>
        BY <1>1, <1>11
      <4>2. 1..depth' = {}
        BY <1>2
      <4> QED BY <1>2, <1>3, <1>4, <3>1, <4>1, <4>2 DEF Nested
    <3>3. (Among(told, Len(told) + 1, Starts)
                = Among(told, Len(told) + 1, Ends) + Len(frames))'
      BY <1>1 DEF Inv, PhaseInv
    <3>4. (told = <<>> <=> phase = "fresh")' /\ (frames = <<>> <=> phase # "open")'
      BY <1>1 DEF Inv, PhaseInv
    <3> QED BY <1>11, <3>2, <3>3, <3>4 DEF PhaseInv
  <2> QED BY <2>1, <2>2
<1>13. RefusedInv'
  BY <1>1, <1>2, <1>3 DEF Inv, RefusedInv
<1> QED BY <1>5, <1>7, <1>8, <1>9, <1>10, <1>12, <1>13 DEF Inv

LEMMA ProceedInv ==
  ASSUME Inv, Proceed
  PROVE  Inv'
<1>1. /\ Running /\ todo = NoCall
      /\ UNCHANGED genVars /\ UNCHANGED bufVars /\ UNCHANGED <<main, mainVars>>
      /\ UNCHANGED <<flags, callbacks, call, status>> /\ phase # "dead"
  BY DEF Proceed, Parser!Another, Parser!GiveUp, Parser!Within
<1>2. UNCHANGED <<depth, state, genFlags, indentString, out, sink, genStatus>>
      /\ UNCHANGED <<len, used, need, want, bufAt>>
      /\ UNCHANGED <<main, lenient, stat, todo, told, mark, report>>
  BY <1>1 DEF genVars, bufVars, mainVars
<1>3. GenTypeOK' /\ indentString' \in Text /\ out' \in Text /\ sink' = "buf"
  BY <1>2 DEF Inv, GenTypeOK
<1>4. BufInv' /\ LoopInv'
  BY <1>2 DEF Inv, BufInv, BufTypeOK, Fits, LoopInv
<1>5. main \in {"parse", "finish"}
  BY <1>1 DEF Running
<1>6. MainInv'
  BY <1>1, <1>2, <1>5 DEF Inv, MainInv
<1>7. HistoryInv'
  BY <1>1, <1>2, HistorySame DEF Inv
<1>8. CASE Parser!Another
  <2>1. phase = "done" /\ stream /\ phase' = "more" /\ frames' = frames
    BY <1>8 DEF Parser!Another, stream
  <2>2. stream' /\ Whole /\ Whole'
    BY <1>1, <1>2, <2>1 DEF stream, Whole
  <2>3. Nested(frames, Whole)'
    BY <1>1, <1>2, <2>1, <2>2, NestedSame DEF Inv, PhaseInv
  <2>4. (Among(told, Len(told) + 1, Starts)
                = Among(told, Len(told) + 1, Ends) + Len(frames))'
    BY <1>1, <1>2, <2>1 DEF Inv, PhaseInv
  <2>5. (told = <<>> <=> phase = "fresh")' /\ (frames = <<>> <=> phase # "open")'
    BY <1>1, <1>2, <2>1 DEF Inv, PhaseInv
  <2>6. PhaseInv'
    BY <2>1, <2>2, <2>3, <2>4, <2>5 DEF PhaseInv
  <2>7. RefusedInv'
    BY <1>1, <1>2, <2>1 DEF Inv, RefusedInv
  <2> QED BY <1>3, <1>4, <1>6, <1>7, <2>6, <2>7 DEF Inv
<1>9. CASE Parser!GiveUp
  <2>1. phase' = "dead" /\ frames' = <<>>
    BY <1>9 DEF Parser!GiveUp, Parser!Die
  <2>2. PhaseInv'
    BY <1>1, <1>2, <2>1 DEF PhaseInv
  <2>3. RefusedInv'
    BY <1>1, <1>2, <2>1 DEF Inv, RefusedInv
  <2> QED BY <1>3, <1>4, <1>6, <1>7, <2>2, <2>3 DEF Inv
<1> QED BY <1>8, <1>9 DEF Proceed

LEMMA GenSame ==
  ASSUME Inv, UNCHANGED genVars
  PROVE  /\ GenTypeOK' /\ indentString' \in Text /\ out' \in Text /\ sink' = "buf"
         /\ UNCHANGED <<depth, state, genStatus, out>>
BY DEF Inv, GenTypeOK, genVars

LEMMA BufSame ==
  ASSUME Inv, UNCHANGED bufVars, out' = out
  PROVE  BufInv' /\ LoopInv' /\ bufAt' = bufAt
BY DEF Inv, BufInv, BufTypeOK, Fits, LoopInv, bufVars

LEMMA RefusedSame ==
  ASSUME RefusedInv, UNCHANGED <<depth, genStatus, phase, status, lenient>>
  PROVE  RefusedInv'
BY DEF RefusedInv, Excused

LEMMA AppendInv ==
  ASSUME Inv, Append_
  PROVE  Inv'
<1>1. /\ UNCHANGED <<frames, phase, flags, callbacks, call, status>>
      /\ UNCHANGED <<main, lenient, stat, todo, told, mark, report>>
  BY DEF Append_, parserVars, mainVars
<1>2. UNCHANGED genVars
  BY DEF Append_
<1>3. /\ GenTypeOK' /\ indentString' \in Text /\ out' \in Text /\ sink' = "buf"
      /\ UNCHANGED <<depth, state, genStatus, out>>
  BY <1>2, GenSame
<1>4. BufInv'
  BY DoubleInv, FitInv DEF Append_, Inv
<1>5. Len(out) \in Nat
  BY TextJoined DEF Inv
<1>6. LoopInv'
  BY <1>3, <1>5, DoubleLoop, FitLoop DEF Append_, Inv
<1>7. bufAt = "ensure"
  BY DEF Append_, Double, Fit
<1>8. MainInv'
  BY <1>1, <1>7 DEF Inv, MainInv
<1>9. HistoryInv'
  BY <1>1, HistorySame DEF Inv
<1>10. PhaseInv'
  BY <1>1, <1>3, PhaseSame DEF Inv
<1>11. RefusedInv'
  BY <1>1, <1>3, RefusedSame DEF Inv
<1> QED BY <1>3, <1>4, <1>6, <1>8, <1>9, <1>10, <1>11 DEF Inv

LEMMA ParseInv ==
  ASSUME Inv, parse
  PROVE  Inv'
<1>1. /\ main = "read" /\ main' = "parse" /\ stat' = "ok" /\ call' = "parse"
      /\ UNCHANGED genVars /\ UNCHANGED bufVars
      /\ UNCHANGED <<frames, phase, flags, callbacks, status>>
      /\ UNCHANGED <<lenient, todo, told, mark, report>>
  BY DEF parse, Parser!Begin
<1>2. /\ GenTypeOK' /\ indentString' \in Text /\ out' \in Text /\ sink' = "buf"
      /\ UNCHANGED <<depth, state, genStatus, out>>
  BY <1>1, GenSame
<1>3. BufInv' /\ LoopInv' /\ bufAt' = bufAt
  BY <1>1, <1>2, BufSame
<1>4. MainInv'
  BY <1>1, <1>3 DEF Inv, MainInv
<1>5. HistoryInv'
  <2>1. stream' <=> stream
    BY <1>1 DEF stream
  <2>2. \A i : OpenBehind(i)' <=> OpenBehind(i)
    BY <1>1 DEF OpenBehind
  <2> QED BY <1>1, <2>1, <2>2 DEF Inv, HistoryInv
<1>6. PhaseInv'
  BY <1>1, <1>2, PhaseSame DEF Inv
<1>7. RefusedInv'
  BY <1>1, <1>2, RefusedSame DEF Inv
<1> QED BY <1>2, <1>3, <1>4, <1>5, <1>6, <1>7 DEF Inv

LEMMA EndInv ==
  ASSUME Inv, EndOfInput
  PROVE  Inv'
<1>1. /\ main = "read" /\ mark' = Len(told)
      /\ main' = "complete" \/ (stat = "garbage" /\ main' = "crashed")
      /\ UNCHANGED genVars /\ UNCHANGED bufVars
      /\ UNCHANGED <<frames, phase, flags, callbacks, call, status>>
      /\ UNCHANGED <<lenient, stat, todo, told, report>>
  BY DEF EndOfInput, parserVars
<1>2. /\ GenTypeOK' /\ indentString' \in Text /\ out' \in Text /\ sink' = "buf"
      /\ UNCHANGED <<depth, state, genStatus, out>>
  BY <1>1, GenSame
<1>3. BufInv' /\ LoopInv' /\ bufAt' = bufAt
  BY <1>1, <1>2, BufSame
<1>4. MainInv'
  BY <1>1, <1>3 DEF Inv, MainInv
<1>5. HistoryInv'
  <2>1. stream' <=> stream
    BY <1>1 DEF stream
  <2>2. \A i : OpenBehind(i)' <=> OpenBehind(i)
    BY <1>1 DEF OpenBehind
  <2>3. mark' \in Nat /\ mark' <= Len(told')
    BY <1>1 DEF Inv, HistoryInv
  <2> QED BY <1>1, <2>1, <2>2, <2>3 DEF Inv, HistoryInv
<1>6. PhaseInv'
  BY <1>1, <1>2, PhaseSame DEF Inv
<1>7. RefusedInv'
  BY <1>1, <1>2, RefusedSame DEF Inv
<1> QED BY <1>2, <1>3, <1>4, <1>5, <1>6, <1>7 DEF Inv

LEMMA CompleteInv ==
  ASSUME Inv, complete_parse
  PROVE  Inv'
<1>1. /\ main = "complete" /\ main' = "finish" /\ call' = "finish"
      /\ UNCHANGED genVars /\ UNCHANGED bufVars
      /\ UNCHANGED <<frames, phase, flags, callbacks, status>>
      /\ UNCHANGED <<lenient, stat, todo, told, mark, report>>
  BY DEF complete_parse, Parser!Begin, mainVars
<1>2. /\ GenTypeOK' /\ indentString' \in Text /\ out' \in Text /\ sink' = "buf"
      /\ UNCHANGED <<depth, state, genStatus, out>>
  BY <1>1, GenSame
<1>3. BufInv' /\ LoopInv' /\ bufAt' = bufAt
  BY <1>1, <1>2, BufSame
<1>4. MainInv'
  BY <1>1, <1>3 DEF Inv, MainInv
<1>5. HistoryInv'
  BY <1>1, HistorySame DEF Inv
<1>6. PhaseInv'
  BY <1>1, <1>2, PhaseSame DEF Inv
<1>7. RefusedInv'
  BY <1>1, <1>2, RefusedSame DEF Inv
<1> QED BY <1>2, <1>3, <1>4, <1>5, <1>6, <1>7 DEF Inv

LEMMA ReturnedInv ==
  ASSUME Inv, Returned
  PROVE  Inv'
<1>1. /\ Running /\ todo = NoCall /\ Parser!Finish
      /\ main' = CASE main = "parse" /\ status' = "ok" -> "write"
                   [] main = "parse" /\ status' # "ok" -> "report"
                   [] main = "finish" /\ status' = "ok" -> "exit_success"
                   [] OTHER -> "report_end"
      /\ UNCHANGED genVars /\ UNCHANGED bufVars
      /\ UNCHANGED <<lenient, stat, todo, told, mark, report>>
  BY DEF Returned, mainVars
<1>2. main \in {"parse", "finish"} /\ bufAt = "idle" /\ call = main
  BY <1>1 DEF Inv, MainInv, Running
<1>3. /\ GenTypeOK' /\ indentString' \in Text /\ out' \in Text /\ sink' = "buf"
      /\ UNCHANGED <<depth, state, genStatus, out>>
  BY <1>1, GenSame
<1>4. BufInv' /\ LoopInv' /\ bufAt' = bufAt
  BY <1>1, <1>3, BufSame
<1>5. call' = "none" /\ UNCHANGED <<flags, callbacks>>
  BY <1>1 DEF Parser!Finish
<1>6. /\ main' \in {"write", "report", "exit_success", "report_end"}
      /\ main' = "write" => main = "parse"
  BY <1>1, <1>2
<1>7. HistoryInv'
  BY <1>1, <1>5, <1>6, HistorySame DEF Inv
<1>8. CASE /\ phase # "dead" /\ status' = "ok" /\ UNCHANGED <<frames, phase>>
           /\ call = "finish" => Parser!Complete \/ "allow_partial_values" \in flags
  <2>1. "allow_partial_values" \notin flags
    BY DEF Inv, MainInv
  <2>2. main = "finish" => phase' \in {"done", "more"}
    BY <1>2, <1>8, <2>1 DEF Parser!Complete
  <2>3. MainInv'
    BY <1>1, <1>2, <1>4, <1>5, <1>6, <1>8, <2>2 DEF Inv, MainInv
  <2>4. PhaseInv'
    BY <1>1, <1>3, <1>5, <1>8, PhaseSame DEF Inv
  <2>5. RefusedInv'
    BY <1>3, <1>8 DEF Inv, RefusedInv
  <2> QED BY <1>3, <1>4, <1>7, <2>3, <2>4, <2>5 DEF Inv
<1>9. CASE status' = "error" /\ phase' = "dead"
  <2>1. main' \in {"report", "report_end"}
    BY <1>1, <1>2, <1>9
  <2>2. MainInv'
    BY <1>2, <1>4, <1>5, <1>9, <2>1 DEF Inv, MainInv
  <2>3. PhaseInv'
    BY <1>1, <1>9 DEF PhaseInv
  <2>4. RefusedInv'
    BY <1>3, <1>9 DEF Inv, RefusedInv
  <2> QED BY <1>3, <1>4, <1>7, <2>2, <2>3, <2>4 DEF Inv
<1> QED BY <1>1, <1>8, <1>9, Zenon DEF Parser!Finish, Parser!Die

LEMMA WriteInv ==
  ASSUME Inv, write
  PROVE  Inv'
<1>1. /\ main = "write" /\ main' = "read" /\ gen_clear /\ truncate(0)
      /\ UNCHANGED <<frames, phase, flags, callbacks, call, status>>
      /\ UNCHANGED <<lenient, stat, todo, told, mark, report>>
  BY DEF write, parserVars
<1>2. phase # "dead" /\ depth \in Levels
  BY <1>1 DEF Inv, MainInv, RefusedInv
<1>3. /\ out' = <<>> /\ genStatus' = "ok" /\ UNCHANGED <<depth, state, genFlags, indentString, sink>>
  BY <1>1 DEF gen_clear, Answer, outputForm, Inv
<1>4. GenTypeOK' /\ indentString' \in Text /\ out' \in Text /\ sink' = "buf"
  BY <1>3, Printed DEF Inv, GenTypeOK, GenStatuses
<1>5. BufInv' /\ LoopInv' /\ bufAt' = "idle"
  BY <1>1, <1>3, ClearedInv DEF Inv
<1>6. MainInv'
  BY <1>1, <1>2, <1>5 DEF Inv, MainInv
<1>7. HistoryInv'
  <2>1. stream' <=> stream
    BY <1>1 DEF stream
  <2>2. \A i : OpenBehind(i)' <=> OpenBehind(i)
    BY <1>1 DEF OpenBehind
  <2> QED BY <1>1, <2>1, <2>2 DEF Inv, HistoryInv
<1>8. PhaseInv'
  BY <1>1, <1>3, PhaseSame DEF Inv
<1>9. RefusedInv'
  BY <1>1, <1>2, <1>3 DEF Inv, RefusedInv
<1> QED BY <1>4, <1>5, <1>6, <1>7, <1>8, <1>9 DEF Inv

LEMMA GetErrorInv ==
  ASSUME Inv, get_error
  PROVE  Inv'
<1>1. /\ main \in {"report", "report_end"} /\ bufAt = "idle" /\ main' = "exit_failure"
      /\ UNCHANGED genVars /\ UNCHANGED bufVars
      /\ UNCHANGED <<frames, phase, flags, callbacks, call, status>>
      /\ UNCHANGED <<lenient, stat, todo, told, mark>>
  BY DEF get_error, parserVars
<1>2. report' \in Nat \X Nat
  BY OffsetsAssumption DEF get_error
<1>3. /\ GenTypeOK' /\ indentString' \in Text /\ out' \in Text /\ sink' = "buf"
      /\ UNCHANGED <<depth, state, genStatus, out>>
  BY <1>1, GenSame
<1>4. BufInv' /\ LoopInv' /\ bufAt' = bufAt
  BY <1>1, <1>3, BufSame
<1>5. MainInv'
  BY <1>1, <1>4 DEF Inv, MainInv
<1>6. HistoryInv'
  <2>1. stream' <=> stream
    BY <1>1 DEF stream
  <2>2. \A i : OpenBehind(i)' <=> OpenBehind(i)
    BY <1>1 DEF OpenBehind
  <2> QED BY <1>1, <1>2, <2>1, <2>2 DEF Inv, HistoryInv
<1>7. PhaseInv'
  BY <1>1, <1>3, PhaseSame DEF Inv
<1>8. RefusedInv'
  BY <1>1, <1>3, RefusedSame DEF Inv
<1> QED BY <1>3, <1>4, <1>5, <1>6, <1>7, <1>8 DEF Inv

LEMMA StutterInv ==
  ASSUME Inv, UNCHANGED vars
  PROVE  Inv'
<1>1. /\ UNCHANGED genVars /\ UNCHANGED bufVars
      /\ UNCHANGED <<frames, phase, flags, callbacks, call, status>>
      /\ UNCHANGED <<main, lenient, stat, todo, told, mark, report>>
  BY DEF vars, parserVars, mainVars
<1>2. /\ GenTypeOK' /\ indentString' \in Text /\ out' \in Text /\ sink' = "buf"
      /\ UNCHANGED <<depth, state, genStatus, out>>
  BY <1>1, GenSame
<1>3. BufInv' /\ LoopInv' /\ bufAt' = bufAt
  BY <1>1, <1>2, BufSame
<1>4. MainInv'
  BY <1>1, <1>3 DEF Inv, MainInv
<1>5. HistoryInv'
  BY <1>1, HistorySame DEF Inv
<1>6. PhaseInv'
  BY <1>1, <1>2, PhaseSame DEF Inv
<1>7. RefusedInv'
  BY <1>1, <1>2, RefusedSame DEF Inv
<1> QED BY <1>2, <1>3, <1>4, <1>5, <1>6, <1>7 DEF Inv

LEMMA StepInv == Inv /\ [Next]_vars => Inv'
BY CallbackInv, SetupInv, ResetInv, ProceedInv, AppendInv, ParseInv, EndInv, CompleteInv,
   ReturnedInv, WriteInv, GetErrorInv, StutterInv, Zenon DEF Next

-----------------------------------------------------------------------------
LEMMA SpecInv == Spec => []Inv
BY InitInv, StepInv, PTL DEF Spec

\* Each variable stays in its range; the generator is out of its array of
\* states only when a container too deep was refused.
THEOREM TypeCorrect == Spec => []TypeOK
<1>1. Inv => TypeOK
  BY DEF Inv, TypeOK, BufInv, MainInv, HistoryInv, RefusedInv
<1> QED BY <1>1, SpecInv, PTL

\* What was printed is in the buffer, whatever a size_t can count, and only a
\* text of half of that ends the program.
THEOREM PrintedIsHeld == Spec => []BufferHolds
<1>1. Inv => BufferHolds
  BY DEF Inv, BufferHolds, BufInv, LoopInv
<1> QED BY <1>1, SpecInv, PTL

\* The program succeeds on whole documents only, and without -s on one; the
\* null pointer it may go through is that of an empty input.
THEOREM ExitsTrue == Spec => []ExitTrue
<1>1. Inv => ExitTrue
  BY DEF Inv, ExitTrue, MainInv, HistoryInv, PhaseInv, OpenBehind
<1> QED BY <1>1, SpecInv, PTL

\* Every error it reports is rendered inside of the buffers.
THEOREM ErrorsRender == Spec => []ErrorRenders
<1>1. Inv => ErrorRenders
  <2> SUFFICES ASSUME Inv, report # <<>>
               PROVE  /\ ExcerptRight(report[1], report[2])
                      /\ \A line, coff \in {1, Digits}, type \in {5, 7}, text \in {0, 70} :
                            MessageFits(line, coff, type, text)
    BY DEF ErrorRenders
  <2>1. report \in Nat \X Nat
    BY DEF Inv, HistoryInv
  <2>2. report[1] \in Nat /\ report[2] \in Nat
    BY <2>1
  <2>3. \A line, coff \in {1, Digits}, type \in {5, 7}, text \in {0, 70} :
           line \in Nat /\ coff \in Nat /\ type \in Nat /\ text \in Nat
    BY DEF Digits
  <2>4. ExcerptRight(report[1], report[2])
    BY <2>2, ExcerptAlwaysRight, Zenon
  <2>5. \A line, coff \in {1, Digits}, type \in {5, 7}, text \in {0, 70} :
           MessageFits(line, coff, type, text)
    BY <2>3, MessageAlwaysFits, ZenonT(30)
  <2> QED BY <2>4, <2>5
<1> QED BY <1>1, SpecInv, PTL

\* The generator never refuses what the parser tells, but for containers too
\* deep and for bytes that nobody asked the lexer to look at: the two keep the
\* same containers, and know the same end of a document.
THEOREM RefusedOnlyRightly == Spec => [](KeepsUtf8 => RefusedRightly)
<1>1. Inv => (KeepsUtf8 => RefusedRightly)
  <2> SUFFICES ASSUME Inv, KeepsUtf8 PROVE RefusedRightly
    OBVIOUS
  <2>1. status = "client_canceled" =>
          \/ genStatus = "max_depth_exceeded" /\ depth = MaxDepth
          \/ genStatus = "invalid_string" /\ lenient
    BY DEF Inv, RefusedInv, Excused
  <2>2. ASSUME phase # "dead"
        PROVE  /\ depth = Len(frames)
               /\ here = "complete" <=> (phase \in {"done", "more"} /\ todo = NoCall)
    <3>1. Nested(frames, Whole) /\ Whole \in BOOLEAN
      BY <2>2 DEF Inv, PhaseInv, Whole
    <3>2. depth = Len(frames) /\ (here = "complete" <=> Whole)
      BY <3>1, Placed
    <3> QED BY <3>2 DEF Whole
  <2> QED BY <2>1, <2>2 DEF RefusedRightly
<1> QED BY <1>1, SpecInv, PTL
=============================================================================
