--------------------------- MODULE ParserContract ---------------------------
(***************************************************************************)
(* The parser implements the contract with its client: what it keeps on    *)
(* its stack of states, read as the containers it has opened.              *)
(***************************************************************************)
EXTENDS YajlParser

\* What a level of the stack stands for, seen from outside.
FrameOf ==
    [s \in {"map_start", "map_need_key", "map_got_val", "map_sep", "map_need_val",
            "array_start", "array_need_val", "array_got_val"} |->
        CASE s \in {"map_start", "map_need_key", "map_got_val"} -> "key"
          [] s \in {"map_sep", "map_need_val"} -> "value"
          [] s \in {"array_start", "array_need_val", "array_got_val"} -> "elem"]

Dead == current \in ErrorStates

\* The containers that are open, and how far the document is; nothing of a
\* dead parse is left.
FramesOf(stack) ==
    IF stack[Len(stack)] \in ErrorStates THEN <<>>
    ELSE [i \in 1..Len(stack) - 1 |-> FrameOf[stack[i + 1]]]
PhaseOf(stack) ==
    LET top == stack[Len(stack)] IN
    CASE top \in ErrorStates -> "dead"
      [] top = "start" -> "fresh"
      [] top = "parse_complete" -> "done"
      [] top = "got_value" -> "more"
      [] OTHER -> "open"
Asked == IF pc = "client" THEN "none" ELSE call

Contract == INSTANCE EventContract WITH
    frames <- FramesOf(stateStack), phase <- PhaseOf(stateStack), call <- Asked

-----------------------------------------------------------------------------
TypeOK ==
    /\ stateStack \in Seq(States)
    /\ parseError \in Complaints
    /\ flags \subseteq ParserOptions /\ callbacks \in Tables
    /\ pc \in {"client", "loop", "lex", "got", "finish"}
    /\ call \in {"none", "parse", "finish"}
    /\ status \in Statuses /\ tok \in ParserTokens
    /\ event \in CallbackNames \cup {"none"} /\ beat \in BOOLEAN

\* The stack is never empty (yajl_bs_current's assert), and its levels fit
\* together: below the top, the document is complete and every container
\* has its value, which is the one being read; a state of the document is
\* nowhere but at the bottom, and one of a container never there.
DocumentStates == {"start", "got_value", "parse_complete"}
WellFormed(stack) ==
    LET top == stack[Len(stack)] IN
    /\ Len(stack) >= 1
    /\ Len(stack) > 1 => stack[1] = "parse_complete"
    /\ \A i \in 2..Len(stack) - 1 : stack[i] \in {"map_got_val", "array_got_val"}
    /\ IF Len(stack) = 1
       THEN top \in DocumentStates \cup ErrorStates
       ELSE top \notin DocumentStates
StackShape == WellFormed(stateStack)

\* Where in its loop the parser is, against what is on the stack: it asks
\* for a token only in a state that takes one; a parse error always has its
\* message, and a message stays; an ok that yajl_do_finish has yet to judge
\* is that of a live parse, and a live parse has had no other answer.
ControlOK ==
    /\ pc \in {"lex", "got", "finish"} => ~Dead
    /\ pc # "client" => call # "none"
    /\ pc = "finish" => call = "finish" /\ status = "ok"
    /\ ~Dead => status = "ok"
    /\ (current = "parse_error") <=> (parseError # "none")

\* What the client is told is the nesting of a document, and the answers it
\* gets are those of the contract (yajl_parse.h: callbacks, yajl_status,
\* yajl_complete_parse).
ImplementsContract == Contract!Spec

\* An error or a cancellation, once met, is the answer to every later call
\* (yajl_parser.c:370-372), whatever options are changed meanwhile: the stack,
\* the message and the events stay what they were.
ErrorsStay ==
    [][Dead => /\ UNCHANGED <<stateStack, parseError, event, beat>>
               /\ status' # status => status' = "error"]_vars
=============================================================================
