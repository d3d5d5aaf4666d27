---------------------------- MODULE EventContract ----------------------------
(***************************************************************************)
(* What the parser promises its client (src/src/yajl/yajl_parse.h): the    *)
(* callbacks tell the nesting of a document, each container opened is the  *)
(* one closed, a map is a sequence of keys each followed by one value, and *)
(* nothing is told after an error; a finished parse is ok when exactly a   *)
(* whole document was told (or several, or part of one, if the client      *)
(* allows it) and no error is ever taken back.                             *)
(*                                                                         *)
(* There are no tokens here, no parser states: only open containers.       *)
(***************************************************************************)
EXTENDS Naturals, Sequences

CONSTANTS Tables, Settable

VARIABLES
    frames,     \* the open containers, each with what it expects next:
                \* "key" and "value" are maps, "elem" is an array
    phase,      \* "fresh": no value yet; "open": in a container;
                \* "done": a value told; "more": another may follow; "dead"
    flags, callbacks,
    call,       \* the client's call that runs, "none" if none does
    status,     \* what the last call returned
    event, beat \* the last callback, and a bit that flips with each

vars == <<frames, phase, flags, callbacks, call, status, event, beat>>

Init ==
    /\ frames = <<>> /\ phase = "fresh"
    /\ flags = {} /\ callbacks \in Tables
    /\ call = "none" /\ status = "ok"
    /\ event = "none" /\ beat = FALSE

Configure ==
    /\ call = "none"
    /\ \E o \in Settable : flags' \in {flags \cup {o}, flags \ {o}}
    /\ UNCHANGED <<frames, phase, callbacks, call, status, event, beat>>

Begin ==
    /\ call = "none"
    /\ call' \in {"parse", "finish"}
    /\ UNCHANGED <<frames, phase, flags, callbacks, status, event, beat>>

-----------------------------------------------------------------------------
Within == call # "none" /\ phase # "dead" /\ UNCHANGED <<flags, callbacks>>
Top == frames[Len(frames)]
SetTop(f) == [frames EXCEPT ![Len(frames)] = f]

\* A value may be told now; this is what is expected behind it.
ExpectsValue ==
    \/ frames = <<>> /\ phase \in {"fresh", "more"}
    \/ frames # <<>> /\ Top \in {"value", "elem"}
PastValue ==
    IF frames # <<>> /\ Top = "value" THEN SetTop("key") ELSE frames

Told(cb) == cb \in callbacks

Die == frames' = <<>> /\ phase' = "dead"

\* The client is told cb, if it asked for it.  It may end the parse; if not
\* the document goes on with the containers fs open.
Tell(cb, fs) ==
    LET goOn == /\ frames' = fs
                /\ phase' = IF fs = <<>> THEN "done" ELSE "open"
                /\ UNCHANGED <<call, status>>
    IN  \/ ~Told(cb) /\ goOn /\ UNCHANGED <<event, beat>>
        \/ /\ Told(cb) /\ event' = cb /\ beat' = ~beat
           /\ \/ goOn
              \/ Die /\ call' = "none" /\ status' = "client_canceled"

\* yajl_number "will be used for all numbers when present".
ScalarEvents ==
    {"yajl_null", "yajl_boolean", "yajl_string"}
    \cup IF Told("yajl_number") THEN {"yajl_number"} ELSE {"yajl_integer", "yajl_double"}

TellScalar == Within /\ ExpectsValue /\ \E cb \in ScalarEvents : Tell(cb, PastValue)

TellOpen ==
    /\ Within /\ ExpectsValue
    /\ \/ Tell("yajl_start_map", Append(PastValue, "key"))
       \/ Tell("yajl_start_array", Append(PastValue, "elem"))

TellKey == Within /\ frames # <<>> /\ Top = "key" /\ Tell("yajl_map_key", SetTop("value"))

TellClose ==
    /\ Within /\ frames # <<>>
    /\ LET outer == SubSeq(frames, 1, Len(frames) - 1)
       IN  \/ Top = "key" /\ Tell("yajl_end_map", outer)
           \/ Top = "elem" /\ Tell("yajl_end_array", outer)

\* The next document of a stream of documents.
Another ==
    /\ Within /\ phase = "done" /\ "allow_multiple_values" \in flags
    /\ phase' = "more"
    /\ UNCHANGED <<frames, call, status, event, beat>>

GiveUp == Within /\ Die /\ UNCHANGED <<call, status, event, beat>>

\* A call returns: the end of the input is ok if it ends a document.
Complete == phase \in {"done", "more"}
Finish ==
    /\ call # "none"
    /\ call' = "none"
    /\ \/ /\ phase # "dead" /\ status' = "ok"
          /\ call = "finish" => Complete \/ "allow_partial_values" \in flags
          /\ UNCHANGED <<frames, phase>>
       \/ phase = "dead" /\ status' = "error" /\ UNCHANGED <<frames, phase>>
       \/ /\ call = "finish" /\ phase # "dead" /\ ~Complete
          /\ "allow_partial_values" \notin flags
          /\ Die /\ status' = "error"
    /\ UNCHANGED <<flags, callbacks, event, beat>>

Next ==
    \/ Configure \/ Begin
    \/ TellScalar \/ TellOpen \/ TellKey \/ TellClose
    \/ Another \/ GiveUp \/ Finish

Spec == Init /\ [][Next]_vars
=============================================================================
