----------------------------- MODULE YajlParser -----------------------------
(***************************************************************************)
(* The parser of src/src/yajl_parser.c (yajl_do_parse, yajl_do_finish) and *)
(* the calls of src/src/yajl.c that reach it, as an automaton over the     *)
(* tokens of the lexer: a stack of states, one per open array or map and   *)
(* one for the document.                                                   *)
(*                                                                         *)
(* One step is one turn of yajl_do_parse's loop up to the call of          *)
(* yajl_lex_lex (EnterLexer and the steps beside it), the answer of the    *)
(* lexer (ReadToken, any token at all), or what the parser does with it    *)
(* (HandleToken: one callback at most, then the stack).                    *)
(***************************************************************************)
EXTENDS Naturals, Sequences

CONSTANTS
    Tables,      \* the callback tables clients register: sets of callbacks
    Settable,    \* the options clients set with yajl_config
    MaxDepth     \* bound: how deep the documents fed nest

CallbackNames ==
    {"yajl_null", "yajl_boolean", "yajl_integer", "yajl_double", "yajl_number",
     "yajl_string", "yajl_start_map", "yajl_map_key", "yajl_end_map",
     "yajl_start_array", "yajl_end_array"}

ParserOptions ==
    {"allow_comments", "dont_validate_strings", "allow_trailing_garbage",
     "allow_multiple_values", "allow_partial_values"}

\* A callback table is the set of its members that are not null; the null
\* table, which a client that only validates registers, has a name of its own.
NoTable == {"no table"}

ASSUME TablesAssumption == Tables \subseteq (SUBSET CallbackNames) \cup {NoTable}
ASSUME SettableAssumption == Settable \subseteq ParserOptions
ASSUME MaxDepthAssumption == MaxDepth \in Nat

VARIABLES
    stateStack,   \* hand->stateStack
    parseError,   \* hand->parseError
    flags,        \* hand->flags, the options that are on
    callbacks,    \* hand->callbacks
    pc,           \* where the parser is
    call,         \* which call of the client runs
    status,       \* what the last call returned
    tok,          \* the token the lexer returned
    event,        \* the last callback made
    beat          \* changes with every callback made

parserVars == <<stateStack, parseError, flags, callbacks, call, status, event, beat>>
vars == <<parserVars, pc, tok>>

-----------------------------------------------------------------------------
ValueStates == {"start", "got_value", "map_need_val", "array_need_val", "array_start"}
KeyStates   == {"map_start", "map_need_key"}
ErrorStates == {"parse_error", "lexical_error"}
States == ValueStates \cup KeyStates \cup ErrorStates
            \cup {"parse_complete", "map_sep", "map_got_val", "array_got_val"}

ParserTokens ==
    {"bool", "colon", "comma", "eof", "error", "left_brace", "left_bracket",
     "null", "right_brace", "right_bracket", "integer", "double", "string",
     "string_with_escapes"}
Openings == {"left_bracket", "left_brace"}

Complaints ==
    {"none", "trailing garbage", "cancelled", "out of range",
     "unallowed token", "invalid object key", "missing colon",
     "after key and value", "after array element", "premature EOF"}

Statuses == {"ok", "client_canceled", "error"}

\* yajl_bytestack.h
Depth == Len(stateStack)
current == stateStack[Depth]
Set(s) == [stateStack EXCEPT ![Depth] = s]
Pop == SubSeq(stateStack, 1, Depth - 1)

Flag(o) == o \in flags

-----------------------------------------------------------------------------
\* yajl_alloc
Init ==
    /\ stateStack = <<"start">>
    /\ parseError = "none"
    /\ flags = {} /\ callbacks \in Tables
    /\ pc = "client" /\ call = "none" /\ status = "ok"
    /\ tok = "eof"
    /\ event = "none" /\ beat = FALSE

\* yajl_config, between two calls
Config(o, on) ==
    /\ pc = "client"
    /\ flags' = IF on THEN flags \cup {o} ELSE flags \ {o}
    /\ UNCHANGED <<stateStack, parseError, callbacks, pc, call, status, tok, event, beat>>

\* yajl_parse ("parse"), or yajl_complete_parse ("finish"), which runs
\* yajl_do_parse on a text of one space.
Call(c) ==
    /\ pc = "client"
    /\ call' = c /\ pc' = "loop"
    /\ UNCHANGED <<stateStack, parseError, flags, callbacks, status, tok, event, beat>>

\* yajl_do_parse returns s, to the client or to yajl_do_finish.
Return(s) ==
    /\ status' = s
    /\ pc' = IF call = "finish" /\ s = "ok" THEN "finish" ELSE "client"

-----------------------------------------------------------------------------
\* around_again, before a token is read. drained: *offset = jsonTextLen.
Turn == pc = "loop" /\ UNCHANGED <<flags, callbacks, call, tok, event, beat>>

NextDocument ==
    /\ Turn /\ current = "parse_complete" /\ Flag("allow_multiple_values")
    /\ stateStack' = Set("got_value")
    /\ UNCHANGED <<parseError, pc, status>>

\* Rest that calls the lexer without a look at the offset.
MutRest(drained) ==
    /\ Turn /\ current = "parse_complete" /\ ~Flag("allow_multiple_values")
    /\ IF Flag("allow_trailing_garbage")
       THEN Return("ok")
       ELSE pc' = "lex" /\ UNCHANGED status
    /\ UNCHANGED <<stateStack, parseError>>

Rest(drained) ==
    /\ Turn /\ current = "parse_complete" /\ ~Flag("allow_multiple_values")
    /\ IF Flag("allow_trailing_garbage") \/ drained
       THEN Return("ok")
       ELSE pc' = "lex" /\ UNCHANGED status
    /\ UNCHANGED <<stateStack, parseError>>

\* StayDead that answers ok.
MutStayDead ==
    /\ Turn /\ current \in ErrorStates
    /\ Return("ok")
    /\ UNCHANGED <<stateStack, parseError>>

StayDead ==
    /\ Turn /\ current \in ErrorStates
    /\ Return("error")
    /\ UNCHANGED <<stateStack, parseError>>

EnterLexer ==
    /\ Turn /\ current \notin ErrorStates \cup {"parse_complete"}
    /\ pc' = "lex"
    /\ UNCHANGED <<stateStack, parseError, status>>

\* ReadToken that lets comments through.
MutReadToken ==
    /\ pc = "lex"
    /\ \E t \in ParserTokens \cup {"comment"} :
          /\ t \in Openings => Depth <= MaxDepth
          /\ tok' = t
    /\ pc' = "got"
    /\ UNCHANGED parserVars

\* The lexer's answer, as far as the parser can know.
ReadToken ==
    /\ pc = "lex"
    /\ \E t \in ParserTokens :
          /\ t \in Openings => Depth <= MaxDepth
          /\ tok' = t
    /\ pc' = "got"
    /\ UNCHANGED parserVars

-----------------------------------------------------------------------------
\* What becomes of a token: the stack after it (loop on), or an error state.
Become(stack) ==
    /\ stateStack' = stack /\ pc' = "loop"
    /\ UNCHANGED <<parseError, status>>

Fail(complaint) ==
    /\ stateStack' = Set("parse_error") /\ parseError' = complaint
    /\ pc' = "loop"
    /\ UNCHANGED status

\* hand->callbacks && hand->callbacks->cb
Wants(cb) == cb \in callbacks

\* Cancelled that leaves the stack alone.
MutCancelled ==
    /\ stateStack' = stateStack /\ parseError' = "cancelled"
    /\ Return("client_canceled")

\* _CC_CHK around the client's callback: when it answers 0 the parse is
\* over, and the call returns at once.
Cancelled ==
    /\ stateStack' = Set("parse_error") /\ parseError' = "cancelled"
    /\ Return("client_canceled")

Callback(cb, stack) ==
    \/ ~Wants(cb) /\ Become(stack) /\ UNCHANGED <<event, beat>>
    \/ /\ Wants(cb) /\ event' = cb /\ beat' = ~beat
       /\ Become(stack) \/ Cancelled

Silent == UNCHANGED <<event, beat>>
Got(tokens) == pc = "got" /\ tok \in tokens /\ UNCHANGED <<flags, callbacks, call, tok>>

-----------------------------------------------------------------------------
AfterValue ==
    [s \in ValueStates |-> CASE s \in {"start", "got_value"} -> "parse_complete"
                             [] s = "map_need_val" -> "map_got_val"
                             [] s \in {"array_need_val", "array_start"} -> "array_got_val"]

CallbackOf == [string |-> "yajl_string", string_with_escapes |-> "yajl_string",
               bool |-> "yajl_boolean", null |-> "yajl_null",
               integer |-> "yajl_integer", double |-> "yajl_double"]

\* The end of the chunk.  In parse_complete the loop goes round once more.
Eof ==
    /\ Got({"eof"}) /\ Silent
    /\ UNCHANGED <<stateStack, parseError>>
    /\ IF current = "parse_complete"
       THEN pc' = "loop" /\ UNCHANGED status
       ELSE Return("ok")

LexicalError ==
    /\ Got({"error"}) /\ Silent
    /\ current # "parse_complete"
    /\ Become(Set("lexical_error"))

Garbage ==
    /\ Got(ParserTokens \ {"eof"}) /\ Silent
    /\ current = "parse_complete"
    /\ Fail("trailing garbage")

Scalar ==
    /\ Got({"string", "string_with_escapes", "bool", "null"})
    /\ current \in ValueStates
    /\ Callback(CallbackOf[tok], Set(AfterValue[current]))

\* A number goes to yajl_number as text; otherwise it is converted, if
\* there is no callback table at all too.  fits: the conversion succeeds.
Number(fits) ==
    /\ Got({"integer", "double"})
    /\ current \in ValueStates
    /\ LET converts == callbacks = NoTable \/ Wants(CallbackOf[tok])
           after == Set(AfterValue[current])
       IN  IF Wants("yajl_number") \/ ~converts
           THEN Callback("yajl_number", after)
           ELSE \/ fits /\ Callback(CallbackOf[tok], after)
                \/ ~fits /\ Fail("out of range") /\ Silent

\* OpenMap that pushes before the level below has its value.
MutOpenMap ==
    /\ Got({"left_bracket"}) /\ current \in ValueStates
    /\ Callback("yajl_start_map", Append(stateStack, "map_start"))

OpenMap ==
    /\ Got({"left_bracket"}) /\ current \in ValueStates
    /\ Callback("yajl_start_map", Append(Set(AfterValue[current]), "map_start"))

OpenArray ==
    /\ Got({"left_brace"}) /\ current \in ValueStates
    /\ Callback("yajl_start_array", Append(Set(AfterValue[current]), "array_start"))

CloseMap ==
    /\ Got({"right_bracket"}) /\ current \in {"map_start", "map_got_val"}
    /\ Callback("yajl_end_map", Pop)

\* CloseArray behind a comma.
MutCloseArrayComma ==
    /\ Got({"right_brace"}) /\ current \in {"array_start", "array_got_val", "array_need_val"}
    /\ Callback("yajl_end_array", Pop)

CloseArray ==
    /\ Got({"right_brace"}) /\ current \in {"array_start", "array_got_val"}
    /\ Callback("yajl_end_array", Pop)

Key ==
    /\ Got({"string", "string_with_escapes"}) /\ current \in KeyStates
    /\ Callback("yajl_map_key", Set("map_sep"))

Colon ==
    /\ Got({"colon"}) /\ current = "map_sep" /\ Silent
    /\ Become(Set("map_need_val"))

Comma ==
    /\ Got({"comma"}) /\ current \in {"map_got_val", "array_got_val"} /\ Silent
    /\ Become(Set(IF current = "map_got_val" THEN "map_need_key" ELSE "array_need_val"))

\* Any other token in any other state.
Unexpected ==
    /\ Got(ParserTokens \ {"eof", "error"}) /\ Silent
    /\ \/ /\ current \in ValueStates
          /\ tok \in {"colon", "comma", "right_bracket", "right_brace"}
          /\ ~(current = "array_start" /\ tok = "right_brace")
          /\ Fail("unallowed token")
       \/ /\ current \in KeyStates
          /\ tok \notin {"string", "string_with_escapes"}
          /\ ~(current = "map_start" /\ tok = "right_bracket")
          /\ Fail("invalid object key")
       \/ /\ current = "map_sep" /\ tok # "colon"
          /\ Fail("missing colon")
       \/ /\ current = "map_got_val" /\ tok \notin {"right_bracket", "comma"}
          /\ Fail("after key and value")
       \/ /\ current = "array_got_val" /\ tok \notin {"right_brace", "comma"}
          /\ Fail("after array element")

HandleToken(fits) ==
    \/ Eof \/ LexicalError \/ Garbage \/ Scalar \/ Number(fits) \/ OpenMap
    \/ OpenArray \/ CloseMap \/ CloseArray \/ Key \/ Colon \/ Comma \/ Unexpected

-----------------------------------------------------------------------------
\* Whole that forgets the state behind the last of several documents.
MutWhole == current = "parse_complete"

\* yajl_do_finish, after its yajl_do_parse said ok.
Whole == current \in {"got_value", "parse_complete"}

\* FinishReturn that takes part of a document for a document.
MutFinishReturn ==
    /\ pc = "finish"
    /\ pc' = "client" /\ status' = "ok"
    /\ UNCHANGED <<stateStack, parseError, flags, callbacks, call, tok, event, beat>>

FinishReturn ==
    /\ pc = "finish"
    /\ pc' = "client"
    /\ IF Whole \/ (current \notin ErrorStates /\ Flag("allow_partial_values"))
       THEN status' = "ok" /\ UNCHANGED <<stateStack, parseError>>
       ELSE /\ status' = "error"
            /\ IF current \in ErrorStates
               THEN UNCHANGED <<stateStack, parseError>>
               ELSE stateStack' = Set("parse_error") /\ parseError' = "premature EOF"
    /\ UNCHANGED <<flags, callbacks, call, tok, event, beat>>

\* The steps of the parser alone; fits and drained come from the text.
ParserStep(fits, drained) ==
    \/ NextDocument \/ Rest(drained) \/ StayDead \/ EnterLexer
    \/ HandleToken(fits) \/ FinishReturn

Next ==
    \/ \E o \in Settable, on \in BOOLEAN : Config(o, on)
    \/ \E c \in {"parse", "finish"} : Call(c)
    \/ ReadToken
    \/ \E fits, drained \in BOOLEAN : ParserStep(fits, drained)

Spec == Init /\ [][Next]_vars
=============================================================================
