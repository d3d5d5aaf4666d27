------------------------------- MODULE YajlGen -------------------------------
(***************************************************************************)
(* The generator of src/src/yajl_gen.c: one call per value, opening or     *)
(* closing, a state per open container, and an output.  A step is a call,  *)
(* with the macros it is made of: ENSURE_VALID_STATE, ENSURE_NOT_KEY,      *)
(* INSERT_SEP, INSERT_WHITESPACE, APPENDED_ATOM, FINAL_NEWLINE and the two *)
(* that move depth.                                                        *)
(*                                                                         *)
(* depth is an unsigned int and indexes state; a call made while depth is  *)
(* outside of the array reads behind it, has no defined meaning, and is    *)
(* not a step here (InArray).                                              *)
(***************************************************************************)
EXTENDS Naturals, Sequences

Seqs == INSTANCE SequencesExt

CONSTANTS
    MaxDepth,   \* YAJL_MAX_DEPTH
    UIntMax     \* UINT_MAX

ASSUME GenMaxDepthAssumption == MaxDepth \in Nat /\ MaxDepth >= 1
ASSUME UIntMaxAssumption == UIntMax \in Nat /\ UIntMax > MaxDepth

VARIABLES
    depth,         \* g->depth
    state,         \* g->state
    genFlags,      \* g->flags
    indentString,  \* g->indentString, characters
    out,           \* what g->ctx holds: the characters printed
    sink,          \* g->print: "buf" for the buffer of the generator's own
    genStatus      \* what the last call returned

genVars == <<depth, state, genFlags, indentString, out, sink, genStatus>>
outputForm == <<genFlags, indentString, sink>>

GenStates == {"start", "map_start", "map_key", "map_val", "array_start",
              "in_array", "complete", "error"}
GenOptions == {"beautify", "validate_utf8", "escape_solidus"}
GenStatuses == {"ok", "keys_must_be_strings", "max_depth_exceeded",
                "in_error_state", "generation_complete", "invalid_number",
                "no_buf", "invalid_string"}
Levels == 0..MaxDepth - 1

-----------------------------------------------------------------------------
\* What a call returns; "ok" for the calls that return nothing.
Answer(s) == genStatus' = s

\* yajl_gen_alloc
GenInit ==
    /\ depth = 0 /\ state = [i \in Levels |-> "start"]
    /\ genFlags = {} /\ indentString = <<" ", " ", " ", " ">>
    /\ out = <<>> /\ sink = "buf" /\ genStatus = "ok"

InArray == depth < MaxDepth

\* yajl_gen_config of a flag
GenConfig(o, on) ==
    /\ genFlags' = IF on THEN genFlags \cup {o} ELSE genFlags \ {o}
    /\ Answer("ok")
    /\ UNCHANGED <<depth, state, indentString, out, sink>>

\* yajl_gen_config of the indent: white space only.  A wrong one leaves a
\* null pointer, which the next line of beautified output reads.
ConfigIndent(indent) ==
    /\ indentString' = indent
    /\ Answer("ok")
    /\ UNCHANGED <<depth, state, genFlags, out, sink>>

\* yajl_gen_config of the print callback: the buffer is freed, with what is
\* in it.  (A second such call would free the client's context.)
ConfigPrint ==
    /\ sink = "buf"
    /\ sink' = "callback" /\ out' = <<>>
    /\ Answer("ok")
    /\ UNCHANGED <<depth, state, genFlags, indentString>>

-----------------------------------------------------------------------------
here == state[depth]
Beautify == "beautify" \in genFlags
Newline == IF Beautify THEN <<"\n">> ELSE <<>>

\* ENSURE_VALID_STATE, ENSURE_NOT_KEY
Valid == here \notin {"error", "complete"}
Invalid == IF here = "error" THEN "in_error_state" ELSE "generation_complete"

\* NeedsKey that forgets the first key of a map.
MutNeedsKey == here = "map_key"

NeedsKey == here \in {"map_key", "map_start"}

\* INSERT_SEP with no comma behind an element of an array.
MutSeparator ==
    CASE here = "map_key" -> <<",">> \o Newline
      [] here = "map_val" -> <<":">> \o (IF Beautify THEN <<" ">> ELSE <<>>)
      [] OTHER -> <<>>

\* INSERT_SEP
Separator ==
    CASE here \in {"map_key", "in_array"} -> <<",">> \o Newline
      [] here = "map_val" -> <<":">> \o (IF Beautify THEN <<" ">> ELSE <<>>)
      [] OTHER -> <<>>

\* INSERT_WHITESPACE, at depth d in state s
Indent(d, s) ==
    IF Beautify /\ s # "map_val"
    THEN [i \in 1..d * Len(indentString) |->
             indentString[((i - 1) % Len(indentString)) + 1]]
    ELSE <<>>
Lead == Separator \o Indent(depth, here)

\* APPENDED_ATOM that does not know the first key of a map for a key.
MutAfterAtom ==
    [s \in GenStates |->
        CASE s = "start" -> "complete"
          [] s = "map_key" -> "map_val"
          [] s = "array_start" -> "in_array"
          [] s = "map_val" -> "map_key"
          [] OTHER -> s]

\* APPENDED_ATOM
AfterAtom ==
    [s \in GenStates |->
        CASE s = "start" -> "complete"
          [] s \in {"map_start", "map_key"} -> "map_val"
          [] s = "array_start" -> "in_array"
          [] s = "map_val" -> "map_key"
          [] OTHER -> s]

\* FINAL_NEWLINE, once the state is s
Final(s) == IF s = "complete" THEN Newline ELSE <<>>

Refuse(s) == Answer(s) /\ UNCHANGED <<depth, state, out, outputForm>>

EnsureValidState(call) ==
    /\ InArray
    /\ \/ ~Valid /\ Refuse(Invalid)
       \/ Valid /\ call
EnsureValue(call) ==
    EnsureValidState(\/ NeedsKey /\ Refuse("keys_must_be_strings")
                     \/ ~NeedsKey /\ call)

\* The atom is printed, and the container is one further.
Emit(text) ==
    /\ state' = [state EXCEPT ![depth] = AfterAtom[@]]
    /\ out' = out \o Lead \o text \o Final(AfterAtom[here])
    /\ Answer("ok")
    /\ UNCHANGED <<depth, outputForm>>

-----------------------------------------------------------------------------
\* yajl_gen_integer, yajl_gen_null, yajl_gen_bool with what they print, and
\* yajl_gen_number, which prints what the client gives it.
gen_atom(text) == EnsureValue(Emit(text))

\* yajl_gen_double.  digits: what sprintf makes of the number.  The ".0" is
\* put behind them, but not printed: their length was taken before.
DoubleText(digits) ==
    LET whole == \A i \in 1..Len(digits) :
                    digits[i] \in {"-", "0", "1", "2", "3", "4", "5", "6", "7", "8", "9"}
        text  == IF whole THEN digits \o <<".", "0">> ELSE digits
    IN  SubSeq(text, 1, Len(digits))

\* gen_double that prints the separator before it looks at the number.
Mutgen_double(digits, finite) ==
    EnsureValue(\/ ~finite /\ Answer("invalid_number") /\ out' = out \o Lead
                           /\ UNCHANGED <<depth, state, outputForm>>
                \/ finite /\ Emit(DoubleText(digits)))

gen_double(digits, finite) ==
    EnsureValue(\/ ~finite /\ Refuse("invalid_number")
                \/ finite /\ Emit(DoubleText(digits)))

\* yajl_string_encode: what stands for a character between the quotes.
\* "nul", "bs" and "vt" are '\0', '\b' and '\v', "ctl" any other control
\* character, 0x1f say.
Escape(c) ==
    CASE c = "\r" -> <<"\\", "r">>  [] c = "\n" -> <<"\\", "n">>
      [] c = "\f" -> <<"\\", "f">>  [] c = "\t" -> <<"\\", "t">>
      [] c = "\\" -> <<"\\", "\\">> [] c = "\"" -> <<"\\", "\"">>
      [] c = "bs" -> <<"\\", "b">>
      [] c = "/" /\ "escape_solidus" \in genFlags -> <<"\\", "/">>
      [] c = "nul" -> <<"\\", "u", "0", "0", "0", "0">>
      [] c = "vt"  -> <<"\\", "u", "0", "0", "0", "B">>
      [] c = "ctl" -> <<"\\", "u", "0", "0", "1", "F">>
      [] OTHER -> <<c>>
Encoded(str) == Seqs!FlattenSeq([i \in 1..Len(str) |-> Escape(str[i])])

\* yajl_gen_string.  Its UTF-8 is looked at before anything else.
gen_string(str, valid) ==
    \/ ~valid /\ "validate_utf8" \in genFlags /\ InArray /\ Refuse("invalid_string")
    \/ /\ valid \/ "validate_utf8" \notin genFlags
       /\ EnsureValidState(Emit(<<"\"">> \o Encoded(str) \o <<"\"">>))

\* gen_open that lets depth reach the end of the array.
Mutgen_open(opened, bracket) ==
    EnsureValue(
        /\ depth' = depth + 1
        /\ Answer("ok")
        /\ state' = [state EXCEPT ![depth + 1] = opened]
        /\ out' = out \o Lead \o <<bracket>> \o Newline
        /\ UNCHANGED outputForm)

\* yajl_gen_map_open, yajl_gen_array_open.  The separator is printed before
\* the depth is looked at, and a depth that is too much stays.
gen_open(opened, bracket) ==
    EnsureValue(
        /\ depth' = depth + 1
        /\ IF depth' >= MaxDepth
           THEN Answer("max_depth_exceeded") /\ out' = out \o Lead /\ UNCHANGED state
           ELSE /\ Answer("ok")
                /\ state' = [state EXCEPT ![depth'] = opened]
                /\ out' = out \o Lead \o <<bracket>> \o Newline
        /\ UNCHANGED outputForm)

map_open == gen_open("map_start", "{")
array_open == gen_open("array_start", "[")

\* yajl_gen_map_close, yajl_gen_array_close.  What is open is not looked at;
\* at depth 0 the unsigned depth becomes UINT_MAX, and stays that.
gen_close(bracket) ==
    EnsureValidState(
        /\ depth' = IF depth = 0 THEN UIntMax ELSE depth - 1
        /\ IF depth' >= MaxDepth
           THEN Answer("generation_complete") /\ UNCHANGED <<state, out>>
           ELSE LET closed == AfterAtom[state[depth']]
                IN  /\ Answer("ok")
                    /\ state' = [state EXCEPT ![depth'] = closed]
                    /\ out' = out \o Newline \o Indent(depth', closed)
                                  \o <<bracket>> \o Final(closed)
        /\ UNCHANGED outputForm)

map_close == gen_close("}")
array_close == gen_close("]")

-----------------------------------------------------------------------------
\* yajl_gen_reset; sep is printed, <<>> for the null pointer.
gen_reset(sep) ==
    /\ depth' = 0 /\ state' = [i \in Levels |-> "start"]
    /\ out' = out \o sep
    /\ Answer("ok")
    /\ UNCHANGED outputForm

\* yajl_gen_get_buf
get_buf ==
    /\ Answer(IF sink = "buf" THEN "ok" ELSE "no_buf")
    /\ UNCHANGED <<depth, state, out, outputForm>>

\* yajl_gen_clear
gen_clear ==
    /\ out' = IF sink = "buf" THEN <<>> ELSE out
    /\ Answer("ok")
    /\ UNCHANGED <<depth, state, outputForm>>

-----------------------------------------------------------------------------
\* Out of the array depth is only where one opening too many, or a closing
\* too many, has left it.
GenTypeOK ==
    /\ depth \in Levels \cup {MaxDepth, UIntMax}
    /\ state \in [Levels -> GenStates]
    /\ genFlags \subseteq GenOptions
    /\ sink \in {"buf", "callback"} /\ genStatus \in GenStatuses

\* The states of the innermost open container, by what it expects next (see
\* EventContract), and those of a container around it, for which the one in
\* it stands in: in a map that is the value of a key.
StateOf == [key |-> {"map_start", "map_key"}, value |-> {"map_val"},
            elem |-> {"array_start", "in_array"}]
WaitingOf == [key |-> {"map_val"}, value |-> {}, elem |-> {"array_start", "in_array"}]
=============================================================================
