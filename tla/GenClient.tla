------------------------------ MODULE GenClient ------------------------------
(***************************************************************************)
(* A client of the generator of YajlGen that knows what it has opened, and *)
(* closes nothing else: it may ask for any value at any time, and for a    *)
(* closing where a container of that kind can end; what is refused it      *)
(* takes for not said.  After yajl_max_depth_exceeded it starts anew.      *)
(***************************************************************************)
EXTENDS YajlGen, JsonGrammar, FiniteSets

CONSTANTS
    DoubleTexts,    \* what sprintf makes of the doubles clients generate
    Strings,        \* the strings they generate, valid UTF-8
    IndentStrings,  \* the indents they set
    MaxText         \* bound: the characters of a document, less white space

\* A string of bytes is UTF-8 when it can be cut into characters, as in
\* IsStringBody.
ClientChar == Char \cup {"bs", "nul"}
IsUtf8Character(u) ==
    \/ Len(u) = 1 /\ u[1] \notin HighByte
    \/ /\ u # <<>>
       /\ Len(u) = CASE u[1] = "lead2" -> 2 [] u[1] = "lead3" -> 3
                     [] u[1] = "lead4" -> 4 [] OTHER -> 0
       /\ AllIn(From(u, 2), {"cont"})
IsUtf8(str) ==
    \E inner \in SUBSET (2..Len(str)) :
        LET starts == inner \cup {1, Len(str) + 1}
        IN  \A i \in starts \ {Len(str) + 1} :
               \E j \in starts : i < j /\ IsUtf8Character(SubSeq(str, i, j - 1))

\* What sprintf makes of a finite double (in the locale "C") is a number, and
\* a wrong indent leaves a null pointer, so that clients set none.
ASSUME DoublesAssumption ==
    \A digits \in DoubleTexts : digits \in Seq(Char) /\ IsNumber(digits)
ASSUME StringsAssumption ==
    \A str \in Strings : str \in Seq(ClientChar) /\ IsUtf8(str)
ASSUME IndentsAssumption == IndentStrings \subseteq Seq(White)

VARIABLES
    frames,   \* the containers the client has open, as in EventContract
    phase,    \* "fresh", "open" and "done" as there; "lost": too deep
    doc       \* history: what was printed of this document

vars == <<genVars, frames, phase, doc>>

Init ==
    /\ GenInit
    /\ frames = <<>> /\ phase = "fresh" /\ doc = <<>>

Top == frames[Len(frames)]
SetTop(f) == [frames EXCEPT ![Len(frames)] = f]
PastValue == IF frames # <<>> /\ Top = "value" THEN SetTop("key") ELSE frames
Outer == SubSeq(frames, 1, Len(frames) - 1)

\* The client's view after a call that would leave fs open.
Follow(fs) ==
    /\ IF genStatus' = "ok"
       THEN frames' = fs /\ phase' = IF fs = <<>> THEN "done" ELSE "open"
       ELSE /\ UNCHANGED frames
            /\ phase' = IF genStatus' = "max_depth_exceeded" THEN "lost" ELSE phase
    /\ doc' = doc \o SubSeq(out', Len(out) + 1, Len(out'))

Asks == /\ phase # "lost"
        /\ Cardinality({i \in 1..Len(doc) : doc[i] \notin White}) < MaxText

\* Before a document: the bound on what TLC explores, the code takes options
\* at any time.
Configure ==
    /\ phase = "fresh"
    /\ \/ \E o \in GenOptions, on \in BOOLEAN : GenConfig(o, on)
       \/ \E indent \in IndentStrings : ConfigIndent(indent)
       \/ ConfigPrint
    /\ UNCHANGED <<frames, phase, doc>>

Atom ==
    /\ Asks
    /\ \/ \E text \in {<<"7">>, <<"n", "u", "l", "l">>} : gen_atom(text)
       \/ \E digits \in DoubleTexts, finite \in BOOLEAN : gen_double(digits, finite)
    /\ Follow(PastValue)

String ==
    /\ Asks
    /\ \E str \in Strings, valid \in BOOLEAN :
          /\ valid \/ "validate_utf8" \in genFlags
          /\ gen_string(str, valid)
    /\ Follow(IF frames # <<>> /\ Top = "key" THEN SetTop("value") ELSE PastValue)

Open ==
    /\ Asks
    /\ \/ map_open /\ Follow(Append(PastValue, "key"))
       \/ array_open /\ Follow(Append(PastValue, "elem"))

MayClose(f) == phase = "done" \/ (frames # <<>> /\ Top = f)
Close ==
    /\ phase # "lost"
    /\ \/ MayClose("key") /\ map_close
       \/ MayClose("elem") /\ array_close
    /\ Follow(Outer)

Reset ==
    /\ phase \in {"done", "lost"} /\ out = <<>>
    /\ \E sep \in {<<>>, <<"\n">>} : gen_reset(sep)
    /\ frames' = <<>> /\ phase' = "fresh" /\ doc' = <<>>

\* The client takes what is in the buffer.
Take ==
    /\ get_buf \/ gen_clear
    /\ UNCHANGED <<frames, phase, doc>>

Next == Configure \/ Atom \/ String \/ Open \/ Close \/ Reset \/ Take

Spec == Init /\ [][Next]_vars

-----------------------------------------------------------------------------
TypeOK ==
    /\ GenTypeOK
    /\ phase \in {"fresh", "open", "done", "lost"}
    /\ frames \in Seq({"key", "value", "elem"})
    /\ (phase = "lost") <=> ~InArray

\* The generator's states are the client's open containers: a client that
\* closes only what it has open never moves depth out of the array, apart
\* from the one opening it is told about (yajl_max_depth_exceeded).
Nesting ==
    phase # "lost" =>
        /\ depth = Len(frames)
        /\ (phase = "open") <=> (frames # <<>>)
        /\ state[0] = IF phase = "done" THEN "complete" ELSE "start"
        /\ \A d \in 1..depth :
              state[d] \in IF d = depth THEN StateOf[frames[d]] ELSE WaitingOf[frames[d]]

\* What was printed is the beginning of a JSON text: with each open
\* container ended at once it is a JSON text, and it is one by itself when
\* the generator says that it is complete.  (A refused call printed nothing,
\* or the client is lost: RefusedLeavesNoTrace.)
Ending == [key |-> <<"}">>, value |-> <<":", "7", "}">>, elem |-> <<"]">>]
Completion ==
    LET ended[n \in 0..Len(frames)] ==
            IF n = 0 THEN <<>> ELSE Ending[frames[n]] \o ended[n - 1]
    IN  IF phase = "fresh" THEN <<"7">> ELSE ended[Len(frames)]
AlwaysJson ==
    phase # "lost" /\ genStatus = "ok" =>
        IsDocument(doc \o Completion, [allowComments |-> FALSE, validateUTF8 |-> TRUE])

\* A call that is refused leaves no trace: the client may go on as if it had
\* not made it (yajl_gen_status).  Unless it was one level too many: that has
\* printed what comes before the bracket, and has left depth one too high, so
\* that only yajl_gen_reset leads on.
RefusedLeavesNoTrace ==
    [][/\ genStatus' \notin {"ok", "max_depth_exceeded"} => UNCHANGED <<depth, state, out>>
       /\ genStatus' = "max_depth_exceeded" =>
             depth' = MaxDepth /\ out' = out \o Lead /\ UNCHANGED state]_vars

\* What is refused is what the contract says (yajl_gen.h, yajl_gen_status):
\* anything once there is a value, what is no string where a key has to be,
\* an opening when YAJL_MAX_DEPTH - 1 containers are open, and no other, what
\* is no number and no UTF-8.
WantsKey == frames # <<>> /\ Top = "key"
Roomy == Len(frames) + 1 < MaxDepth
ValueAnswers(answers) ==
    CASE phase = "done" -> {"generation_complete"}
      [] WantsKey -> {"keys_must_be_strings"}
      [] OTHER -> answers
RefusalsRight ==
    [][/\ Atom => genStatus' \in ValueAnswers({"ok", "invalid_number"})
       /\ Open => genStatus' \in ValueAnswers({IF Roomy THEN "ok" ELSE "max_depth_exceeded"})
       /\ String => genStatus' \in {IF phase = "done" THEN "generation_complete" ELSE "ok",
                                    "invalid_string"}
       /\ Close => genStatus' = IF phase = "done" THEN "generation_complete" ELSE "ok"]_vars

-----------------------------------------------------------------------------
\* A client that closes what it never opened.
CloseNothing == phase = "fresh" /\ (map_close \/ array_close) /\ Follow(frames)
CarelessSpec == Init /\ [][Next \/ CloseNothing]_vars

\* yajl_gen.h:42-43 of yajl_gen_generation_complete: "A complete JSON document
\* has already been generated".
CompleteMeansGenerated == genStatus = "generation_complete" => phase = "done"
=============================================================================
