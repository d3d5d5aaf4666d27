------------------------------ MODULE YajlStream ------------------------------
(***************************************************************************)
(* A handle of the library and its client: the parser of YajlParser on the *)
(* lexer of YajlLex, called the way the programs of the repository call    *)
(* them (verify/json_verify.c, test/parsing/yajl_test.c): the options are  *)
(* set, the text is passed to yajl_parse in chunks until it ends or a call *)
(* is not ok, and yajl_complete_parse says what the whole was.             *)
(*                                                                         *)
(* The two share pc and tok: the parser waits in pc = "lex" while the      *)
(* lexer steps, and goes on when the lexer leaves pc = "got".              *)
(***************************************************************************)
EXTENDS JsonGrammar, YajlLex

CONSTANTS
    Clients,     \* what clients do: [text, options, table]
    ChunkSizes,  \* the sizes of the chunks they pass
    OutOfRange,  \* numbers of the texts that no long long, no double holds
    Tables, Settable, MaxDepth

ASSUME ClientsAssumption ==
    Clients \subseteq [text : Seq(Char), options : SUBSET Settable, table : Tables]
ASSUME ChunkSizesAssumption == ChunkSizes \subseteq Nat

VARIABLES
    stateStack, parseError, flags, callbacks, call, status,
    event, beat, \* the parser's; pc and tok are the lexer's and the parser's
    client,      \* the client: its text, its options, its callback table
    fed,         \* how much of the text it has passed
    given,       \* the length of the last chunk it passed
    allocated,   \* hand->lexer # NULL
    saved        \* offset of yajl_do_finish

P == INSTANCE YajlParser

lexHeld == <<chunk, startOffset, buf, bufOff, bufInUse, lineOff, error, opts, mode, out>>
parserHeld == <<stateStack, parseError, flags, callbacks, call, status, event, beat>>
clientVars == <<client, fed, given, allocated, saved>>
vars == <<lexHeld, offset, charOff, tok, pc, parserHeld, clientVars>>

text == client.text

-----------------------------------------------------------------------------
Init ==
    /\ client \in Clients
    /\ P!Init /\ LexAlloc
    /\ callbacks = client.table
    /\ opts = [allowComments |-> FALSE, validateUTF8 |-> FALSE]
    /\ fed = 0 /\ given = 0 /\ allocated = FALSE /\ saved = 0

Configure ==
    /\ \E o \in client.options \ flags : P!Config(o, TRUE)
    /\ UNCHANGED <<lexHeld, offset, charOff, clientVars>>

\* yajl_do_parse on `piece'.  The lexer is allocated by the first call, with
\* the options the handle has then.
Pass(piece) ==
    /\ flags = client.options
    /\ chunk' = piece /\ offset' = 0
    /\ opts' = IF allocated THEN opts
               ELSE [allowComments |-> "allow_comments" \in flags,
                     validateUTF8  |-> "dont_validate_strings" \notin flags]
    /\ allocated' = TRUE
    /\ UNCHANGED <<startOffset, buf, bufOff, bufInUse, lineOff, charOff, error,
                   mode, out, client>>

parse(n) ==
    /\ P!Call("parse")
    /\ call # "finish" /\ status = "ok" /\ fed + n <= Len(text)
    /\ Pass(SubSeq(text, fed + 1, fed + n))
    /\ fed' = fed + n /\ given' = n
    /\ UNCHANGED saved

complete_parse ==
    /\ P!Call("finish")
    /\ call # "finish" /\ status = "ok" /\ fed = Len(text)
    /\ Pass(<<" ">>)
    /\ saved' = offset
    /\ UNCHANGED <<fed, given>>

-----------------------------------------------------------------------------
\* The parser calls yajl_lex_lex, at its place in the chunk.
Ask ==
    /\ P!EnterLexer \/ (P!Rest(offset = Len(chunk)) /\ pc' = "lex")
    /\ LexEnter(chunk, offset)
    /\ UNCHANGED clientVars

Lex == LexStep /\ UNCHANGED <<parserHeld, clientVars>>

\* The steps of the parser that move the offset back, to show where an
\* error is: a number that cannot be converted, a token where a map has to
\* go on or end.  bufLen is the length of the token, less its quotes.
bufLen == Len(out)
RangeError == parseError' = "out of range" /\ parseError = "none"
MapError   == parseError' = "after key and value" /\ parseError = "none"

MovedOffset ==
    CASE RangeError -> IF offset >= bufLen THEN offset - (bufLen - 1) ELSE 0
      [] MapError   -> IF offset >= bufLen THEN offset - bufLen ELSE 0
      [] OTHER      -> offset
MovedCharOff ==
    CASE RangeError -> charOff - (bufLen - 1)
      [] MapError /\ offset >= bufLen -> charOff - bufLen
      [] OTHER      -> charOff

\* Restored that leaves the offset in the text of one space.
MutRestored(at) == at

\* yajl_do_parse has returned to yajl_do_finish, which puts back the offset.
Restored(at) == IF call = "finish" /\ pc' \in {"client", "finish"} THEN saved ELSE at

Parse ==
    /\ \/ P!NextDocument \/ P!StayDead \/ P!HandleToken(out \notin OutOfRange)
       \/ P!Rest(offset = Len(chunk)) /\ pc' # "lex"
    /\ offset' = Restored(MovedOffset)
    /\ charOff' = MovedCharOff
    /\ UNCHANGED <<lexHeld, clientVars>>

Judge ==
    /\ P!FinishReturn
    /\ UNCHANGED <<lexHeld, offset, charOff, clientVars>>

Program == Ask \/ Lex \/ Parse \/ Judge

Next == Configure \/ (\E n \in ChunkSizes : parse(n)) \/ complete_parse \/ Program

\* A call runs in the thread of its caller, to its end.
Spec == Init /\ [][Next]_vars /\ WF_vars(Program)

-----------------------------------------------------------------------------
TypeOK ==
    /\ LexTypeOK
    /\ flags \subseteq client.options
    /\ fed \in 0..Len(text) /\ given \in 0..Len(text) /\ saved \in 0..Len(text)
    /\ allocated \in BOOLEAN

\* The composed system is the parser of YajlParser: what the lexer returns,
\* and when, is what that module lets it return.
ImplementsParser == P!Init /\ [][P!Next]_(P!vars)

\* What the client was told about the whole text.
Refused == pc = "client" /\ status = "error"
Accepted == pc = "client" /\ call = "finish" /\ status = "ok"

\* A number of the text is too long, and the parser converts numbers.
Overflows ==
    /\ callbacks = P!NoTable \/ "yajl_number" \notin callbacks
    /\ \E n \in OutOfRange, i \in 0..Len(text) :
          i + Len(n) <= Len(text) /\ SubSeq(text, i + 1, i + Len(n)) = n

\* A JSON text as the options of the handle define it.
IsText(s) == IF "allow_multiple_values" \in flags
             THEN IsDocuments(s, opts) ELSE IsDocument(s, opts)

\* A JSON text is accepted, however it was cut, unless the client stops the
\* parse or a number does not fit (yajl_do_parse and yajl_do_finish).
AcceptsJson == Refused /\ ~Overflows => ~IsText(text)

\* Nothing else is accepted, apart from a JSON text followed by a string
\* that never ends, which yajl_complete_parse does not see (OnlyJsonAccepted).
\* With yajl_allow_trailing_garbage a text has to start with a document.
Unended(s) == s[1] = "\"" /\ ~\E i \in 2..Len(s) : IsString(SubSeq(s, 1, i), opts)
RejectsOthers ==
    Accepted /\ flags \cap {"allow_comments", "allow_partial_values"} = {} =>
        \/ IsText(text)
        \/ \E i \in 1..Len(text) :
              IsText(SubSeq(text, 1, i - 1)) /\ Unended(From(text, i))
        \/ "allow_trailing_garbage" \in flags /\ DocumentEnds(text, opts) # {}

\* yajl_get_bytes_consumed never points outside of the client's last chunk
\* (yajl_render_error_string indexes it with this offset).
ConsumedInChunk ==
    IF pc \in {"client", "finish"} THEN offset <= given ELSE offset <= Len(chunk)

\* Every call returns.
CallsReturn == (pc # "client") ~> (pc = "client")

-----------------------------------------------------------------------------
\* yajl_parse.h:126-128 of yajl_allow_trailing_garbage: "By default, upon
\* calls to yajl_complete_parse(), yajl will ensure the entire input text was
\* consumed and will raise an error otherwise."
OnlyJsonAccepted == Accepted /\ flags = {} => IsDocument(text, opts)

\* yajl_lex.c:903-907 of yajl_lex_current_char: "Returns the number of chars
\* lexed by this lexer instance since the last newline ('\n'), counting from
\* zero": what it returns, charOff - 1, is a number of characters.
ColumnCounts == Refused => charOff >= 1
=============================================================================
