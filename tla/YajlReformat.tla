---------------------------- MODULE YajlReformat ----------------------------
(***************************************************************************)
(* json_reformat (src/reformatter/json_reformat.c): the parser (its        *)
(* contract) calls back, a callback calls the generator, the generator     *)
(* prints into a buffer, and main writes the buffer to standard output     *)
(* between the calls of the parser.  Strings go through the decoding of    *)
(* the parser and the encoding of the generator.                           *)
(***************************************************************************)
EXTENDS YajlGen, YajlBuf, YajlEncode, YajlError, FiniteSets

CONSTANTS
    Raws, FewRaws,  \* texts between quotes: for a string that is the first
                    \* value, and for the others and keys
    Offsets,        \* where errors are, and how long chunks
    MaxTold         \* bound: the callbacks of a run

ASSUME OffsetsAssumption == Offsets \subseteq Nat
ASSUME MaxToldAssumption == MaxTold \in Nat /\ MaxTold >= 2

VARIABLES
    frames, phase, flags, callbacks, call, status, event, beat,  \* the parser's
    main,    \* where main is
    lenient, \* option -u
    stat,    \* main's, "garbage" if it was not set
    todo,    \* the generator's call that GEN_AND_RETURN makes again
    stdout,  \* history: what was written
    told,    \* history: the callbacks that answered 1, with their texts
    mark,    \* history: those made by yajl_parse
    report   \* offset and length of the text the error was rendered with

Table == {"yajl_null", "yajl_boolean", "yajl_number", "yajl_string",
          "yajl_start_map", "yajl_map_key", "yajl_end_map",
          "yajl_start_array", "yajl_end_array"}
NoCall == <<"none", <<>>>>

Parser == INSTANCE EventContract WITH Tables <- {Table}, Settable <- {}
Json == INSTANCE StringMeaning

parserVars == <<frames, phase, flags, callbacks, call, status, event, beat>>
mainVars == <<lenient, stat, todo, stdout, told, mark, report>>
vars == <<genVars, bufVars, parserVars, main, mainVars>>

\* Option -s is two variables in the code, which are set together.
stream == "allow_multiple_values" \in flags

-----------------------------------------------------------------------------
Init ==
    /\ GenInit /\ BufInit /\ Parser!Init
    /\ main = "options" /\ stat = "garbage" /\ lenient = FALSE
    /\ todo = NoCall /\ stdout = <<>> /\ told = <<>> /\ mark = 0 /\ report = <<>>

\* The options -m, -e, -s and -u, in any set.
Setup ==
    /\ main = "options" /\ main' = "read"
    /\ genFlags' \in {{"validate_utf8"} \cup o : o \in SUBSET {"beautify", "escape_solidus"}}
    /\ flags' \in SUBSET {"allow_multiple_values"}
    /\ lenient' \in BOOLEAN
    /\ UNCHANGED <<depth, state, indentString, out, sink, genStatus, bufVars>>
    /\ UNCHANGED <<frames, phase, callbacks, call, status, event, beat>>
    /\ UNCHANGED <<stat, todo, stdout, told, mark, report>>

-----------------------------------------------------------------------------
\* A text decoded, and whether the result is UTF-8.
Decoded == [raw \in Raws \cup FewRaws |-> string_decode(raw)]
IsUtf8 == [raw \in Raws \cup FewRaws |-> string_validate_utf8(Decoded[raw])]

ASSUME RawsAssumption == \A raw \in Raws \cup FewRaws : Decoded[raw] \in Seq(STRING)

\* What the lexer lets through between two quotes.
ScanChar(s) == IF ByteClass(s) = "ascii" THEN s ELSE ByteClass(s)
LexAccepts(raw, validate) ==
    Json!IsStringBody([i \in 1..Len(raw) |-> ScanChar(raw[i])], [validateUTF8 |-> validate])

TextsOf(cb) ==
    CASE cb = "yajl_string" -> {raw \in IF told = <<>> THEN Raws ELSE FewRaws :
                                    LexAccepts(raw, ~lenient)}
      [] cb = "yajl_map_key" -> {raw \in FewRaws : LexAccepts(raw, ~lenient)}
      [] cb = "yajl_number" -> {<<"7">>}
      [] cb = "yajl_boolean" -> {<<"t", "r", "u", "e">>}
      [] cb = "yajl_null" -> {<<"n", "u", "l", "l">>}
      [] OTHER -> {<<>>}

\* The callbacks reformat_null to reformat_end_array: the call they make.
func(cb, text) ==
    \/ /\ cb \in {"yajl_string", "yajl_map_key"}
       /\ gen_string(Decoded[text], IsUtf8[text])
    \/ cb \in {"yajl_number", "yajl_boolean", "yajl_null"} /\ gen_atom(text)
    \/ cb = "yajl_start_map" /\ map_open
    \/ cb = "yajl_end_map" /\ map_close
    \/ cb = "yajl_start_array" /\ array_open
    \/ cb = "yajl_end_array" /\ array_close

\* func would answer yajl_gen_generation_complete.
AnswersComplete(cb, text) ==
    here = "complete" /\ (IF cb = "yajl_string" THEN IsUtf8[text] ELSE TRUE)

\* What the generator prints is appended to its buffer: in pieces, of which
\* this is the sum (the size it comes to is the same).
Prints == IF out' = out THEN UNCHANGED bufVars ELSE Ask(Len(out') - Len(out))

\* The bound on the callbacks: MaxTold, but two with the options that are
\* only about strings, and one when its text is not one of the few.
MoreToTell ==
    /\ Len(told) < IF lenient \/ "escape_solidus" \in genFlags THEN 2 ELSE MaxTold
    /\ \A i \in 1..Len(told) : told[i][1] = "yajl_string" => told[i][2] \in FewRaws

Running == main \in {"parse", "finish"} /\ bufAt = "idle"

\* What the parser may tell: yajl_complete_parse has a single space to parse, and
\* that ends one number or keyword, if the chunks have left it open.
Tellable ==
    CASE main = "parse" -> Table
      [] main = "finish" /\ stat = "ok" /\ Len(told) = mark ->
            {"yajl_number", "yajl_boolean", "yajl_null"}
      [] OTHER -> {}

\* GEN_AND_RETURN without a reset, or behind one.
Callback ==
    /\ Running /\ MoreToTell
    /\ Parser!TellScalar \/ Parser!TellOpen \/ Parser!TellKey \/ Parser!TellClose
    /\ event' \in Tellable
    /\ \E text \in TextsOf(event') :
          /\ todo \in {NoCall, <<event', text>>}
          /\ func(event', text)
          /\ genStatus' = "generation_complete" => ~stream
          /\ told' = IF genStatus' = "ok" THEN Append(told, <<event', text>>) ELSE told
    /\ (status' = "client_canceled") <=> (genStatus' # "ok")
    /\ main' = IF call' # "none" THEN main ELSE IF main = "parse" THEN "report" ELSE "report_end"
    /\ Prints /\ todo' = NoCall
    /\ UNCHANGED <<lenient, stat, stdout, mark, report>>

\* yajl_gen_reset, between the call that was answered "complete" and the same
\* call again.
ResetAndRepeat ==
    /\ Running /\ stream /\ todo = NoCall /\ MoreToTell
    /\ phase = "more"
    /\ \E cb \in Tellable \ {"yajl_map_key", "yajl_end_map", "yajl_end_array"} :
          \E text \in TextsOf(cb) : AnswersComplete(cb, text) /\ todo' = <<cb, text>>
    /\ gen_reset(<<"\n">>) /\ Prints
    /\ UNCHANGED <<parserVars, main, lenient, stat, stdout, told, mark, report>>

\* The parser goes on by itself: another document, an error.
Proceed ==
    /\ Running /\ todo = NoCall
    /\ Parser!Another \/ Parser!GiveUp
    /\ UNCHANGED <<genVars, bufVars, main, mainVars>>

Append_ == (Double \/ Fit) /\ UNCHANGED <<genVars, parserVars, main, mainVars>>

-----------------------------------------------------------------------------
(* main                                                                    *)

parse ==
    /\ main = "read" /\ Parser!Begin /\ call' = "parse"
    /\ main' = "parse" /\ stat' = "ok"
    /\ UNCHANGED <<genVars, bufVars, lenient, todo, stdout, told, mark, report>>

\* The end of the input.  With none of it stat is what its memory holds: if
\* that is not ok the error of a parser without a lexer is rendered, which
\* reads through a null pointer.
EndOfInput ==
    /\ main = "read"
    /\ \/ stat \in {"ok", "garbage"} /\ main' = "complete"
       \/ stat = "garbage" /\ main' = "crashed"
    /\ mark' = Len(told)
    /\ UNCHANGED <<genVars, bufVars, parserVars, lenient, stat, todo, stdout, told, report>>

complete_parse ==
    /\ main = "complete" /\ Parser!Begin /\ call' = "finish"
    /\ main' = "finish"
    /\ UNCHANGED <<genVars, bufVars, mainVars>>

\* Returned of a main that takes any answer for the end.
MutReturned ==
    /\ Running /\ todo = NoCall /\ Parser!Finish
    /\ main' = CASE main = "parse" /\ status' = "ok" -> "write"
                 [] main = "parse" /\ status' # "ok" -> "report"
                 [] OTHER -> "exit_success"
    /\ UNCHANGED <<genVars, bufVars, mainVars>>

Returned ==
    /\ Running /\ todo = NoCall /\ Parser!Finish
    /\ main' = CASE main = "parse" /\ status' = "ok" -> "write"
                 [] main = "parse" /\ status' # "ok" -> "report"
                 [] main = "finish" /\ status' = "ok" -> "exit_success"
                 [] OTHER -> "report_end"
    /\ UNCHANGED <<genVars, bufVars, mainVars>>

\* write that clears the buffer first.
Mutwrite ==
    /\ main = "write" /\ main' = "read"
    /\ UNCHANGED stdout
    /\ gen_clear /\ truncate(0)
    /\ UNCHANGED <<parserVars, lenient, stat, todo, told, mark, report>>

\* yajl_gen_get_buf, fwrite, yajl_gen_clear
write ==
    /\ main = "write" /\ main' = "read"
    /\ stdout' = stdout \o out
    /\ gen_clear /\ truncate(0)
    /\ UNCHANGED <<parserVars, lenient, stat, todo, told, mark, report>>

\* yajl_get_error, with the chunk in which the error is, or with none of it
\* when it was met at the end: the offset is then that of the chunk before.
get_error ==
    /\ main \in {"report", "report_end"} /\ bufAt = "idle"
    /\ main' = "exit_failure"
    /\ \E offset, rd \in IF told = <<>> THEN Offsets ELSE {0} :
          /\ IF main = "report" THEN offset <= rd ELSE rd = 0
          /\ report' = <<offset, rd>>
    /\ UNCHANGED <<genVars, bufVars, parserVars, lenient, stat, todo, stdout, told, mark>>

Next ==
    \/ Setup \/ Callback \/ ResetAndRepeat \/ Proceed \/ Append_
    \/ parse \/ EndOfInput \/ complete_parse \/ Returned \/ write \/ get_error

Spec == Init /\ [][Next]_vars

-----------------------------------------------------------------------------
\* The types; the depth is behind the array of states only once that was
\* refused.
TypeOK ==
    /\ GenTypeOK /\ BufTypeOK
    /\ depth \notin Levels => genStatus = "max_depth_exceeded"
    /\ main \in {"options", "read", "parse", "write", "complete", "finish", "report",
                 "report_end", "exit_success", "exit_failure", "crashed"}
    /\ mark <= Len(told) /\ Len(told) <= MaxTold

\* The tokens of what was told: a comma before what follows a value in the
\* same container, a colon before what follows a key.
Starts == {"yajl_start_map", "yajl_start_array"}
Ends == {"yajl_end_map", "yajl_end_array"}
Among(events, i, S) == Cardinality({j \in 1..i - 1 : events[j][1] \in S})
Comma(events, i) ==
    /\ Among(events, i, Starts) > Among(events, i, Ends)
    /\ events[i][1] \notin Ends /\ events[i - 1][1] \notin Starts \cup {"yajl_map_key"}

Colon(events, i) == i > 1 /\ events[i - 1][1] = "yajl_map_key"

TokenOf(e) ==
    CASE e[1] = "yajl_start_map" -> Json!PunctuationOf("{")
      [] e[1] = "yajl_end_map" -> Json!PunctuationOf("}")
      [] e[1] = "yajl_start_array" -> Json!PunctuationOf("[")
      [] e[1] = "yajl_end_array" -> Json!PunctuationOf("]")
      [] e[1] \in {"yajl_string", "yajl_map_key"} -> Json!StringToken(e[2])
      [] OTHER -> Json!WordToken(e[2])

TokensTold(events) ==
    Seqs!FlattenSeq([i \in 1..Len(events) |->
        (IF Comma(events, i) THEN <<Json!PunctuationOf(",")>> ELSE <<>>)
        \o (IF Colon(events, i) THEN <<Json!PunctuationOf(":")>> ELSE <<>>)
        \o <<TokenOf(events[i])>>])

\* The output has the same tokens as the input, and its strings the same code
\* points: whatever the escapes, surrogates and NULs of the input, the layout,
\* and the documents of a stream.
SameDocument ==
    status # "client_canceled" =>
        Json!TokensOf(stdout \o out) = TokensTold(told)

\* Whatever the parser told in a chunk is written before the next is asked
\* for; and at the end no less than all that yajl_parse told, the tokens whole
\* and none twice.
WrittenAll ==
    /\ main \in {"read", "complete"} =>
          out = <<>> /\ Json!TokensOf(stdout) = TokensTold(told)
    /\ main = "exit_success" =>
          \E n \in mark..Len(told) : Json!TokensOf(stdout) = TokensTold(SubSeq(told, 1, n))


\* The generator takes whatever the parser tells: the two agree on nesting,
\* on where a document ends, and on UTF-8, unless the lexer was told not to
\* look at it.  Only containers too deep are refused otherwise.
RefusedRightly ==
    /\ status = "client_canceled" =>
          \/ genStatus = "max_depth_exceeded" /\ depth = MaxDepth
          \/ genStatus = "invalid_string" /\ lenient
    /\ main # "options" /\ phase # "dead" =>
          /\ depth = Len(frames)
          /\ here = "complete" <=> (phase \in {"done", "more"} /\ todo = NoCall)

\* What was printed is in the buffer, with its NUL; an assert ends the program
\* only for a text of half of what a size_t can count.
BufferHolds ==
    /\ Fits
    /\ bufAt = "aborted" => 2 * (Len(out) + 1) >= SizeMax
    /\ bufAt = "idle" => used = Len(out)

\* The message and the quote of an error are in their buffers, also when the
\* error is met behind the last chunk; when it is met in a chunk the caret is
\* under it.
ErrorRenders ==
    report # <<>> =>
        /\ ExcerptRight(report[1], report[2])
        /\ \A line, coff \in {1, Digits}, type \in {5, 7}, text \in {0, 70} :
              MessageFits(line, coff, type, text)

\* The program succeeds only on a whole document, or one and more with -s;
\* it goes through a null pointer only when it was told nothing (that it may
\* do so, when there is no input, is in EndOfInput and not refused here).
ExitTrue ==
    /\ main = "exit_success" =>
          /\ told # <<>> /\ frames = <<>>
          /\ stream \/ \A i \in 2..Len(told) : Among(told, i, Starts) > Among(told, i, Ends)
    /\ main = "crashed" => told = <<>>
=============================================================================
