---------------------------- MODULE ParserProofs ----------------------------
(***************************************************************************)
(* Proofs about YajlParser, for every callback table, every set of options *)
(* and every depth of nesting: type correctness, the shape of the stack,   *)
(* and that the parser implements its contract with the client.            *)
(***************************************************************************)
EXTENDS ParserContract, SequenceTheorems, TLAPS

-----------------------------------------------------------------------------
(* Lemmas about the stack of states.                                       *)

\* A length is this bound or above it.
LEMMA OneOrMore == \A n \in Nat : n >= 1 => n = 1 \/ n > 1
  OBVIOUS
LEMMA TwoOrMore == \A n \in Nat : n > 1 => n = 2 \/ n > 2
  OBVIOUS

TopOf(stack) == stack[Len(stack)]
SetTop(stack, s) == [stack EXCEPT ![Len(stack)] = s]
PopOf(stack) == SubSeq(stack, 1, Len(stack) - 1)

\* yajl_bs_set replaces the top and nothing else.
LEMMA SetLemma ==
  ASSUME NEW stack \in Seq(States), NEW s \in States, Len(stack) >= 1
  PROVE  /\ SetTop(stack, s) \in Seq(States)
         /\ Len(SetTop(stack, s)) = Len(stack)
         /\ SetTop(stack, s)[Len(stack)] = s
         /\ TopOf(SetTop(stack, s)) = s
         /\ \A i \in 1..Len(stack) - 1 : SetTop(stack, s)[i] = stack[i]
  BY DEF SetTop, TopOf

\* yajl_bs_push adds a level and leaves the others.
LEMMA PushLemma ==
  ASSUME NEW stack \in Seq(States), NEW s \in States
  PROVE  /\ Append(stack, s) \in Seq(States)
         /\ Len(Append(stack, s)) = Len(stack) + 1
         /\ TopOf(Append(stack, s)) = s
         /\ \A i \in 1..Len(stack) : Append(stack, s)[i] = stack[i]
  BY DEF TopOf

\* yajl_bs_pop takes the top off and leaves the others.
LEMMA PopLemma ==
  ASSUME NEW stack \in Seq(States), Len(stack) >= 1
  PROVE  /\ PopOf(stack) \in Seq(States)
         /\ Len(PopOf(stack)) = Len(stack) - 1
         /\ \A i \in 1..Len(stack) - 1 : PopOf(stack)[i] = stack[i]
  <1>1. Len(stack) \in Nat
    OBVIOUS
  <1>2. PICK n \in Nat : n = Len(stack) - 1
    BY <1>1
  <1>3. SubSeq(stack, 1, n) \in Seq(States)
    BY <1>1, <1>2
  <1>4. Len(SubSeq(stack, 1, n)) = n
    BY <1>1, <1>2
  <1>5. \A i \in 1..n : SubSeq(stack, 1, n)[i] = stack[i]
    BY <1>1, <1>2
  <1> QED
    BY <1>2, <1>3, <1>4, <1>5 DEF PopOf

-----------------------------------------------------------------------------
(* Well-formed stacks, and what the parser makes of one.                   *)

\* The top may become any state that stands where it stands.
LEMMA SetShape ==
  ASSUME NEW stack \in Seq(States), WellFormed(stack), NEW s \in States,
         Len(stack) = 1 => s \in DocumentStates \cup ErrorStates,
         Len(stack) > 1 => s \notin DocumentStates
  PROVE  WellFormed(SetTop(stack, s))
  <1>1. /\ Len(SetTop(stack, s)) = Len(stack)
        /\ SetTop(stack, s)[Len(stack)] = s
        /\ \A i \in 1..Len(stack) - 1 : SetTop(stack, s)[i] = stack[i]
    BY SetLemma DEF WellFormed, TopOf
  <1>2. Len(stack) \in Nat /\ Len(stack) >= 1
    BY DEF WellFormed
  <1>3. CASE Len(stack) = 1
    BY <1>1, <1>3 DEF WellFormed
  <1>4. CASE Len(stack) > 1
    <2>1. stack[1] = "parse_complete"
          /\ \A i \in 2..Len(stack) - 1 : stack[i] \in {"map_got_val", "array_got_val"}
      BY <1>4 DEF WellFormed
    <2>2. SetTop(stack, s)[1] = stack[1]
      BY <1>1, <1>2, <1>4
    <2>3. \A i \in 2..Len(stack) - 1 : SetTop(stack, s)[i] = stack[i]
      BY <1>1, <1>2
    <2> QED
      BY <1>1, <1>2, <1>4, <2>1, <2>2, <2>3 DEF WellFormed
  <1> QED
    <2>1. Len(stack) = 1 \/ Len(stack) > 1
      BY <1>2, OneOrMore, Zenon
    <2> QED
      BY <2>1, <1>3, <1>4

\* On a level that has its value, a state of a container can be pushed.
LEMMA PushShape ==
  ASSUME NEW stack \in Seq(States), WellFormed(stack), NEW s \in States,
         TopOf(stack) \in {"parse_complete", "map_got_val", "array_got_val"},
         s \notin DocumentStates
  PROVE  WellFormed(Append(stack, s))
  <1>1. Len(stack) \in Nat /\ Len(stack) >= 1
    BY DEF WellFormed
  <1> DEFINE t == Append(stack, s)
  <1>2. /\ Len(t) = Len(stack) + 1
        /\ t[Len(stack) + 1] = s
        /\ \A i \in 1..Len(stack) : t[i] = stack[i]
    OBVIOUS
  <1>3. stack[1] = "parse_complete"
    <2>1. CASE Len(stack) = 1
      BY <2>1 DEF WellFormed, TopOf, DocumentStates, ErrorStates
    <2>2. CASE Len(stack) > 1
      BY <2>2 DEF WellFormed
    <2>3. Len(stack) = 1 \/ Len(stack) > 1
      BY <1>1, OneOrMore, Zenon
    <2> QED
      BY <2>1, <2>2, <2>3
  <1>4. \A i \in 2..Len(stack) : stack[i] \in {"map_got_val", "array_got_val"}
    <2>1. Len(stack) > 1 => stack[Len(stack)] \in {"map_got_val", "array_got_val"}
      BY <1>1 DEF WellFormed, TopOf, DocumentStates
    <2>2. \A i \in 2..Len(stack) - 1 : stack[i] \in {"map_got_val", "array_got_val"}
      BY DEF WellFormed
    <2> QED
      BY <1>1, <2>1, <2>2
  <1> HIDE DEF t
  <1>5. t[1] = "parse_complete"
    BY <1>1, <1>2, <1>3
  <1>6. \A i \in 2..Len(t) - 1 : t[i] \in {"map_got_val", "array_got_val"}
    BY <1>1, <1>2, <1>4
  <1>7. Len(t) > 1 /\ t[Len(t)] = s
    BY <1>1, <1>2
  <1>8. WellFormed(t)
    BY <1>5, <1>6, <1>7 DEF WellFormed
  <1> QED
    BY <1>8 DEF t

\* What is under a container has its value: popping leaves it on top.
LEMMA PopShape ==
  ASSUME NEW stack \in Seq(States), WellFormed(stack), Len(stack) > 1
  PROVE  /\ WellFormed(PopOf(stack))
         /\ TopOf(PopOf(stack)) \in {"parse_complete", "map_got_val", "array_got_val"}
  <1>1. Len(stack) \in Nat
    OBVIOUS
  <1>2. /\ Len(PopOf(stack)) = Len(stack) - 1
        /\ \A i \in 1..Len(stack) - 1 : PopOf(stack)[i] = stack[i]
    BY <1>1, PopLemma
  <1>3. CASE Len(stack) = 2
    BY <1>2, <1>3 DEF WellFormed, TopOf, DocumentStates
  <1>4. CASE Len(stack) > 2
    <2>1. stack[Len(stack) - 1] \in {"map_got_val", "array_got_val"}
      BY <1>1, <1>4 DEF WellFormed
    <2> QED
      BY <1>1, <1>2, <1>4, <2>1 DEF WellFormed, TopOf, DocumentStates
  <1> QED
    <2>1. Len(stack) = 2 \/ Len(stack) > 2
      BY <1>1, TwoOrMore, Zenon
    <2> QED
      BY <2>1, <1>3, <1>4

-----------------------------------------------------------------------------
(* The invariant of the parser, and its outcomes.                          *)

Inv == TypeOK /\ StackShape /\ ControlOK

Kept == flags' = flags /\ callbacks' = callbacks /\ call' = call

\* Where a value has been told its level has one.
LEMMA ValueDone ==
  \A s \in ValueStates :
     /\ AfterValue[s] \in {"parse_complete", "map_got_val", "array_got_val"}
     /\ s \in DocumentStates <=> AfterValue[s] = "parse_complete"
  BY DEF AfterValue, ValueStates, DocumentStates

\* The stack of a live parse, after the parser has set its top.
LEMMA TopSet ==
  ASSUME Inv, NEW s \in States,
         Depth = 1 => s \in DocumentStates \cup ErrorStates,
         Depth > 1 => s \notin DocumentStates
  PROVE  Set(s) \in Seq(States) /\ WellFormed(Set(s)) /\ TopOf(Set(s)) = s
  <1>1. stateStack \in Seq(States) /\ WellFormed(stateStack) /\ Depth >= 1
    BY DEF Inv, TypeOK, StackShape, WellFormed, Depth
  <1>2. Set(s) = SetTop(stateStack, s)
    BY DEF Set, SetTop, Depth
  <1>3. WellFormed(SetTop(stateStack, s))
    BY <1>1, SetShape DEF Depth
  <1> QED
    BY <1>1, <1>2, <1>3, SetLemma DEF Depth

\* A step that leaves a well-formed stack, its top no error of the parser.
LEMMA BecomeInv ==
  ASSUME Inv, pc # "client", ~Dead, Kept, tok' \in ParserTokens,
         event' \in CallbackNames \cup {"none"}, beat' \in BOOLEAN,
         NEW stack \in Seq(States), WellFormed(stack),
         TopOf(stack) # "parse_error", Become(stack)
  PROVE  Inv'
  <1>1. parseError = "none"
    BY DEF Inv, ControlOK, Dead, ErrorStates, TypeOK, Complaints
  <1>2. stateStack' = stack /\ pc' = "loop" /\ parseError' = "none" /\ status' = status
    BY <1>1 DEF Become
  <1>3. TypeOK'
    BY <1>2 DEF Inv, TypeOK, Kept, Complaints
  <1>4. StackShape'
    BY <1>2 DEF StackShape
  <1>5. current' = TopOf(stack)
    BY <1>2 DEF current, Depth, TopOf
  <1>6. ControlOK'
    BY <1>2, <1>5 DEF Inv, ControlOK, Kept
  <1> QED
    BY <1>3, <1>4, <1>6 DEF Inv

\* A step into parse_error, with its message.
LEMMA ErrorInv ==
  ASSUME Inv, pc # "client", Kept, tok' \in ParserTokens,
         event' \in CallbackNames \cup {"none"}, beat' \in BOOLEAN,
         stateStack' = Set("parse_error"), parseError' \in Complaints \ {"none"},
         status' \in Statuses, pc' \in {"loop", "client"}
  PROVE  Inv'
  <1>1. "parse_error" \in States /\ "parse_error" \in ErrorStates
        /\ "parse_error" \notin DocumentStates
    BY DEF States, ErrorStates, DocumentStates
  <1>2. stateStack' \in Seq(States) /\ WellFormed(stateStack')
        /\ TopOf(stateStack') = "parse_error"
    BY <1>1, TopSet
  <1>3. current' = "parse_error"
    BY <1>2 DEF current, Depth, TopOf
  <1>4. TypeOK'
    BY <1>2 DEF Inv, TypeOK, Kept
  <1>5. ControlOK'
    BY <1>1, <1>3 DEF Inv, ControlOK, Kept, Dead
  <1> QED
    BY <1>2, <1>4, <1>5 DEF Inv, StackShape

\* A callback: the client goes on, or ends the parse.
LEMMA CallbackInv ==
  ASSUME Inv, pc = "got", ~Dead, Kept, tok' \in ParserTokens,
         NEW cb \in CallbackNames,
         NEW stack \in Seq(States), WellFormed(stack),
         TopOf(stack) # "parse_error", Callback(cb, stack)
  PROVE  Inv'
  <1>1. event' \in CallbackNames \cup {"none"} /\ beat' \in BOOLEAN
    BY DEF Callback, Inv, TypeOK
  <1>2. CASE Become(stack)
    BY <1>1, <1>2, BecomeInv
  <1>3. CASE Cancelled
    <2>1. /\ stateStack' = Set("parse_error") /\ parseError' \in Complaints \ {"none"}
          /\ status' \in Statuses /\ pc' \in {"loop", "client"}
      BY <1>3 DEF Cancelled, Return, Complaints, Statuses
    <2> QED
      BY <1>1, <2>1, ErrorInv
  <1> QED
    BY <1>2, <1>3 DEF Callback

-----------------------------------------------------------------------------
(* The invariant is inductive.                                             *)

LEMMA InitInv == Init => Inv
  <1> SUFFICES ASSUME Init PROVE Inv
    OBVIOUS
  <1>1. stateStack = <<"start">> /\ Depth = 1 /\ current = "start"
    BY DEF Init, Depth, current
  <1>2. TypeOK
    <2>1. stateStack \in Seq(States)
      BY <1>1 DEF States, ValueStates
    <2> QED
      BY <2>1 DEF Init, TypeOK, Complaints, ParserOptions, Statuses, ParserTokens
  <1>3. StackShape
    BY <1>1 DEF StackShape, WellFormed, Depth, DocumentStates, ErrorStates
  <1>4. ControlOK
    BY <1>1 DEF Init, ControlOK, Dead, ErrorStates
  <1> QED
    BY <1>2, <1>3, <1>4 DEF Inv

\* What is known of a parser that has a token to handle.
LEMMA Live ==
  ASSUME Inv, ~Dead
  PROVE  /\ current \in States /\ current = TopOf(stateStack)
         /\ stateStack \in Seq(States) /\ WellFormed(stateStack) /\ Depth >= 1
         /\ Depth \in Nat
         /\ Depth = 1 => current \in DocumentStates
         /\ Depth > 1 => current \notin DocumentStates
         /\ parseError = "none"
         /\ event \in CallbackNames \cup {"none"} /\ beat \in BOOLEAN
         /\ event' = event => event' \in CallbackNames \cup {"none"}
         /\ beat' = beat => beat' \in BOOLEAN
  <1>1. /\ stateStack \in Seq(States) /\ WellFormed(stateStack)
        /\ event \in CallbackNames \cup {"none"} /\ beat \in BOOLEAN
        /\ parseError \in Complaints
    BY DEF Inv, TypeOK, StackShape
  <1>2. Depth >= 1 /\ Depth \in Nat
    BY <1>1 DEF WellFormed, Depth
  <1>3. current \in States
    BY <1>1, <1>2 DEF current, Depth
  <1>4. /\ Depth = 1 => current \in DocumentStates \cup ErrorStates
        /\ Depth # 1 => current \notin DocumentStates
    BY <1>1 DEF WellFormed, current, Depth
  <1>5. parseError = "none"
    BY DEF Inv, ControlOK, Dead, ErrorStates
  <1>6. Depth > 1 => current \notin DocumentStates
    BY <1>2, <1>4
  <1> QED
    BY <1>1, <1>2, <1>3, <1>4, <1>5, <1>6 DEF Dead, TopOf, current, Depth

\* The stack behind a value: the level it stands on has its value.
LEMMA ValueStack ==
  ASSUME Inv, ~Dead, current \in ValueStates
  PROVE  LET after == Set(AfterValue[current])
         IN  /\ after \in Seq(States) /\ WellFormed(after)
             /\ TopOf(after) \in {"parse_complete", "map_got_val", "array_got_val"}
  <1>1. /\ AfterValue[current] \in {"parse_complete", "map_got_val", "array_got_val"}
        /\ current \in DocumentStates <=> AfterValue[current] = "parse_complete"
    BY ValueDone
  <1>2. AfterValue[current] \in States
    BY <1>1 DEF States
  <1>3. /\ Depth = 1 => AfterValue[current] \in DocumentStates \cup ErrorStates
        /\ Depth > 1 => AfterValue[current] \notin DocumentStates
    BY <1>1, Live DEF DocumentStates
  <1> QED
    BY <1>1, <1>2, <1>3, TopSet

\* Inside a container the top may become another state of a container.
LEMMA InnerStack ==
  ASSUME Inv, ~Dead, current \notin DocumentStates,
         NEW s \in States \ (DocumentStates \cup ErrorStates)
  PROVE  /\ Set(s) \in Seq(States) /\ WellFormed(Set(s))
         /\ TopOf(Set(s)) # "parse_error"
  <1>1. Depth # 1
    BY Live
  <1> QED
    BY <1>1, TopSet DEF ErrorStates

\* A container that is closed uncovers a level that has its value.
LEMMA OuterStack ==
  ASSUME Inv, ~Dead, current \notin DocumentStates
  PROVE  /\ Pop \in Seq(States) /\ WellFormed(Pop)
         /\ TopOf(Pop) # "parse_error"
  <1>1. Depth > 1
    <2>1. Depth \in Nat /\ Depth >= 1 /\ Depth # 1
      BY Live
    <2> QED
      BY <2>1, OneOrMore, Zenon
  <1>2. Pop = PopOf(stateStack)
    BY DEF Pop, PopOf, Depth
  <1> QED
    BY <1>1, <1>2, PopLemma, PopShape, Live DEF Depth

\* Between the calls, and where the parser waits for the lexer, only the
\* place in the loop moves.
LEMMA QuietStep ==
  ASSUME Inv, UNCHANGED <<stateStack, parseError>>,
         flags' \subseteq ParserOptions, callbacks' \in Tables,
         pc' \in {"client", "loop", "lex", "got", "finish"},
         call' \in {"none", "parse", "finish"}, status' \in Statuses,
         tok' \in ParserTokens, event' = event, beat' = beat,
         pc' \in {"lex", "got", "finish"} => ~Dead,
         pc' # "client" => call' # "none",
         pc' = "finish" => call' = "finish" /\ status' = "ok",
         ~Dead => status' = "ok"
  PROVE  Inv'
  <1>1. current' = current /\ (Dead' <=> Dead)
    BY DEF current, Depth, Dead
  <1>2. TypeOK'
    BY DEF Inv, TypeOK
  <1>3. StackShape'
    BY DEF Inv, StackShape
  <1>4. ControlOK'
    BY <1>1 DEF Inv, ControlOK
  <1> QED
    BY <1>2, <1>3, <1>4 DEF Inv

LEMMA ConfigStep == \A o \in Settable, on \in BOOLEAN : Inv /\ Config(o, on) => Inv'
  <1> SUFFICES ASSUME NEW o \in Settable, NEW on \in BOOLEAN, Inv, Config(o, on)
               PROVE  Inv'
    OBVIOUS
  <1>1. flags' \subseteq ParserOptions
    BY SettableAssumption DEF Config, Inv, TypeOK
  <1> QED
    BY <1>1, QuietStep DEF Config, Inv, TypeOK, ControlOK

LEMMA CallStep == \A c \in {"parse", "finish"} : Inv /\ Call(c) => Inv'
  BY QuietStep DEF Call, Inv, TypeOK, ControlOK

LEMMA ReadTokenStep == Inv /\ ReadToken => Inv'
  BY QuietStep DEF ReadToken, parserVars, Inv, TypeOK, ControlOK

LEMMA TurnSteps ==
  ASSUME Inv, NEW drained \in BOOLEAN,
         NextDocument \/ Rest(drained) \/ StayDead \/ EnterLexer
  PROVE  Inv'
  <1>1. CASE NextDocument
    <2>1. "got_value" \in States /\ "got_value" \in DocumentStates
      BY DEF States, ValueStates, DocumentStates
    <2>2. ~Dead /\ current \in DocumentStates
      BY <1>1 DEF NextDocument, Dead, ErrorStates, DocumentStates
    <2>3. WellFormed(Set("got_value")) /\ TopOf(Set("got_value")) = "got_value"
          /\ Set("got_value") \in Seq(States)
      BY <2>1, <2>2, Live, TopSet
    <2>4. Kept /\ tok' \in ParserTokens /\ event' \in CallbackNames \cup {"none"}
          /\ beat' \in BOOLEAN /\ pc # "client"
      BY <1>1 DEF NextDocument, Turn, Kept, Inv, TypeOK
    <2>5. Become(Set("got_value"))
      BY <1>1 DEF NextDocument, Turn, Become
    <2> QED
      BY <2>2, <2>3, <2>4, <2>5, BecomeInv
  <1>2. CASE Rest(drained)
    <2>1. ~Dead
      BY <1>2 DEF Rest, Dead, ErrorStates
    <2> QED
      BY <1>2, <2>1, QuietStep DEF Rest, Turn, Return, Inv, TypeOK, ControlOK, Statuses
  <1>3. CASE StayDead
    <2>1. Dead
      BY <1>3 DEF StayDead, Dead
    <2> QED
      BY <1>3, <2>1, QuietStep DEF StayDead, Turn, Return, Inv, TypeOK, ControlOK, Statuses
  <1>4. CASE EnterLexer
    <2>1. ~Dead
      BY <1>4 DEF EnterLexer, Dead
    <2> QED
      BY <1>4, <2>1, QuietStep DEF EnterLexer, Turn, Inv, TypeOK, ControlOK
  <1> QED
    BY <1>1, <1>2, <1>3, <1>4

LEMMA FinishStep == Inv /\ FinishReturn => Inv'
  <1> SUFFICES ASSUME Inv, FinishReturn PROVE Inv'
    OBVIOUS
  <1>1. pc' = "client" /\ status' \in Statuses /\ Kept /\ tok' = tok
        /\ event' = event /\ beat' = beat /\ pc # "client"
    BY DEF FinishReturn, Kept, Statuses
  <1>2. CASE status' = "ok" /\ UNCHANGED <<stateStack, parseError>>
    BY <1>1, <1>2, QuietStep DEF Kept, Inv, TypeOK
  <1>3. CASE stateStack' = Set("parse_error") /\ parseError' = "premature EOF"
    <2>1. parseError' \in Complaints \ {"none"}
      BY <1>3 DEF Complaints
    <2> QED
      BY <1>1, <1>3, <2>1, ErrorInv DEF Inv, TypeOK
  <1> QED
    BY <1>2, <1>3 DEF FinishReturn, Inv, ControlOK, Dead

\* The outcomes of a token that tell the client nothing.
LEMMA SilentStep ==
  ASSUME Inv, pc = "got", ~Dead, Got(ParserTokens), Silent,
         NEW stack \in Seq(States), WellFormed(stack),
         TopOf(stack) # "parse_error", Become(stack)
  PROVE  Inv'
  <1>1. Kept /\ tok' \in ParserTokens /\ event' \in CallbackNames \cup {"none"}
        /\ beat' \in BOOLEAN
    BY DEF Got, Silent, Kept, Inv, TypeOK
  <1> QED
    BY <1>1, BecomeInv

LEMMA FailStep ==
  ASSUME Inv, Got(ParserTokens), Silent, NEW complaint \in Complaints \ {"none"},
         Fail(complaint)
  PROVE  Inv'
  <1>1. Kept /\ tok' \in ParserTokens /\ event' \in CallbackNames \cup {"none"}
        /\ beat' \in BOOLEAN /\ pc # "client" /\ pc' = "loop" /\ status' \in Statuses
    BY DEF Got, Silent, Kept, Inv, TypeOK, Fail
  <1> QED
    BY <1>1, ErrorInv DEF Fail

\* A callback behind which the stack is well formed.
LEMMA ToldStep ==
  ASSUME Inv, Got(ParserTokens), ~Dead, NEW cb \in CallbackNames,
         NEW stack \in Seq(States), WellFormed(stack),
         TopOf(stack) # "parse_error", Callback(cb, stack)
  PROVE  Inv'
  <1>1. Kept /\ tok' \in ParserTokens /\ pc = "got"
    BY DEF Got, Kept, Inv, TypeOK
  <1> QED
    BY <1>1, CallbackInv

\* A parser that has a token is alive, and has that token behind the step.
LEMMA GotLive ==
  ASSUME Inv, NEW tokens \in SUBSET ParserTokens, Got(tokens)
  PROVE  ~Dead /\ Got(ParserTokens) /\ pc = "got" /\ tok \in tokens
  BY DEF Got, Inv, ControlOK

LEMMA EofStep == Inv /\ Eof => Inv'
  <1> SUFFICES ASSUME Inv, Eof PROVE Inv'
    OBVIOUS
  <1>1. ~Dead /\ pc = "got"
    BY DEF Eof, Got, Inv, ControlOK
  <1>2. UNCHANGED <<stateStack, parseError, flags, callbacks, call, tok, event, beat>>
    BY DEF Eof, Got, Silent
  <1>3. (pc' = "loop" /\ status' = status) \/ Return("ok")
    BY DEF Eof
  <1> QED
    BY <1>1, <1>2, <1>3, QuietStep DEF Return, Inv, TypeOK, ControlOK, Statuses

LEMMA LexicalErrorStep == Inv /\ LexicalError => Inv'
  <1> SUFFICES ASSUME Inv, LexicalError PROVE Inv'
    OBVIOUS
  <1>1. ~Dead /\ Got(ParserTokens) /\ pc = "got" /\ Silent /\ Become(Set("lexical_error"))
    BY GotLive DEF LexicalError, ParserTokens
  <1>2. "lexical_error" \in States /\ "lexical_error" \in ErrorStates
        /\ "lexical_error" \notin DocumentStates
    BY DEF States, ErrorStates, DocumentStates
  <1>3. Set("lexical_error") \in Seq(States) /\ WellFormed(Set("lexical_error"))
        /\ TopOf(Set("lexical_error")) # "parse_error"
    BY <1>2, TopSet
  <1> QED
    BY <1>1, <1>3, SilentStep

LEMMA FailSteps == Inv /\ (Garbage \/ Unexpected) => Inv'
  <1>1. /\ "trailing garbage" \in Complaints \ {"none"}
        /\ {"unallowed token", "invalid object key", "missing colon",
            "after key and value", "after array element"} \subseteq Complaints \ {"none"}
    BY DEF Complaints
  <1>2. ASSUME Inv, Garbage PROVE Inv'
    <2>1. Got(ParserTokens) /\ Silent /\ Fail("trailing garbage")
      BY <1>2, GotLive DEF Garbage, ParserTokens
    <2> QED
      BY <1>1, <1>2, <2>1, FailStep
  <1>3. ASSUME Inv, Unexpected PROVE Inv'
    <2>1. Got(ParserTokens) /\ Silent
      BY <1>3, GotLive DEF Unexpected, ParserTokens
    <2>2. PICK c \in Complaints \ {"none"} : Fail(c)
      BY <1>1, <1>3 DEF Unexpected
    <2> QED
      BY <1>3, <2>1, <2>2, FailStep
  <1> QED
    BY <1>2, <1>3

\* A value: what the level it stands on becomes, and its callback.
LEMMA AfterStack ==
  ASSUME Inv, ~Dead, current \in ValueStates
  PROVE  /\ Set(AfterValue[current]) \in Seq(States)
         /\ WellFormed(Set(AfterValue[current]))
         /\ TopOf(Set(AfterValue[current])) # "parse_error"
  BY ValueStack

LEMMA ScalarStep == Inv /\ Scalar => Inv'
  <1> SUFFICES ASSUME Inv, Scalar PROVE Inv'
    OBVIOUS
  <1>1. ~Dead /\ Got(ParserTokens)
        /\ tok \in {"string", "string_with_escapes", "bool", "null"}
    BY GotLive DEF Scalar, ParserTokens
  <1>2. CallbackOf[tok] \in CallbackNames
    BY <1>1 DEF CallbackOf, CallbackNames
  <1> QED
    BY <1>1, <1>2, AfterStack, ToldStep DEF Scalar

LEMMA NumberStep == \A fits \in BOOLEAN : Inv /\ Number(fits) => Inv'
  <1> SUFFICES ASSUME NEW fits \in BOOLEAN, Inv, Number(fits) PROVE Inv'
    OBVIOUS
  <1>1. ~Dead /\ Got(ParserTokens) /\ tok \in {"integer", "double"}
        /\ current \in ValueStates
    BY GotLive DEF Number, ParserTokens
  <1>2. CallbackOf[tok] \in CallbackNames /\ "yajl_number" \in CallbackNames
    BY <1>1 DEF CallbackOf, CallbackNames
  <1>3. "out of range" \in Complaints \ {"none"}
    BY DEF Complaints
  <1>4. \/ Callback("yajl_number", Set(AfterValue[current]))
        \/ Callback(CallbackOf[tok], Set(AfterValue[current]))
        \/ Fail("out of range") /\ Silent
    BY DEF Number
  <1>5. CASE Callback("yajl_number", Set(AfterValue[current]))
    BY <1>1, <1>2, <1>5, AfterStack, ToldStep
  <1>6. CASE Callback(CallbackOf[tok], Set(AfterValue[current]))
    BY <1>1, <1>2, <1>6, AfterStack, ToldStep
  <1>7. CASE Fail("out of range") /\ Silent
    BY <1>1, <1>3, <1>7, FailStep
  <1> QED
    BY <1>4, <1>5, <1>6, <1>7

\* A container is opened above a level that has its value.
LEMMA OpenStep == Inv /\ (OpenMap \/ OpenArray) => Inv'
  <1> SUFFICES ASSUME Inv, OpenMap \/ OpenArray PROVE Inv'
    OBVIOUS
  <1>1. ~Dead /\ Got(ParserTokens) /\ current \in ValueStates
    BY GotLive DEF OpenMap, OpenArray, ParserTokens
  <1> DEFINE after == Set(AfterValue[current])
  <1>2. after \in Seq(States) /\ WellFormed(after)
        /\ TopOf(after) \in {"parse_complete", "map_got_val", "array_got_val"}
    BY <1>1, ValueStack
  <1>3. \E cb \in {"yajl_start_map", "yajl_start_array"}, s \in {"map_start", "array_start"} :
           Callback(cb, Append(after, s))
    BY DEF OpenMap, OpenArray
  <1> HIDE DEF after
  <1>4. PICK cb \in {"yajl_start_map", "yajl_start_array"}, s \in {"map_start", "array_start"} :
           Callback(cb, Append(after, s))
    BY <1>3
  <1>5. cb \in CallbackNames /\ s \in States /\ s \notin DocumentStates /\ s # "parse_error"
    BY DEF CallbackNames, States, ValueStates, KeyStates, DocumentStates
  <1>6. /\ Append(after, s) \in Seq(States) /\ TopOf(Append(after, s)) = s
    BY <1>2, <1>5, PushLemma
  <1>7. WellFormed(Append(after, s))
    BY <1>2, <1>5, PushShape
  <1> QED
    BY <1>1, <1>4, <1>5, <1>6, <1>7, ToldStep

\* A container is closed.
LEMMA CloseStep == Inv /\ (CloseMap \/ CloseArray) => Inv'
  <1> SUFFICES ASSUME Inv, CloseMap \/ CloseArray PROVE Inv'
    OBVIOUS
  <1>1. ~Dead /\ Got(ParserTokens) /\ current \notin DocumentStates
    <2>1. current \notin DocumentStates
      BY DEF CloseMap, CloseArray, DocumentStates
    <2> QED
      BY <2>1, GotLive DEF CloseMap, CloseArray, ParserTokens
  <1>2. PICK cb \in {"yajl_end_map", "yajl_end_array"} : Callback(cb, Pop)
    BY DEF CloseMap, CloseArray
  <1>3. cb \in CallbackNames
    BY DEF CallbackNames
  <1> QED
    BY <1>1, <1>2, <1>3, OuterStack, ToldStep

\* Within a container: a key, and the tokens between its parts.
LEMMA KeyStep == Inv /\ Key => Inv'
  <1> SUFFICES ASSUME Inv, Key PROVE Inv'
    OBVIOUS
  <1>1. ~Dead /\ Got(ParserTokens) /\ current \notin DocumentStates
    <2>1. current \notin DocumentStates
      BY DEF Key, KeyStates, DocumentStates
    <2> QED
      BY <2>1, GotLive DEF Key, ParserTokens
  <1>2. "map_sep" \in States \ (DocumentStates \cup ErrorStates)
    BY DEF States, DocumentStates, ErrorStates
  <1>3. "yajl_map_key" \in CallbackNames /\ Callback("yajl_map_key", Set("map_sep"))
    BY DEF CallbackNames, Key
  <1> QED
    BY <1>1, <1>2, <1>3, InnerStack, ToldStep

LEMMA PunctuationStep == Inv /\ (Colon \/ Comma) => Inv'
  <1> SUFFICES ASSUME Inv, Colon \/ Comma PROVE Inv'
    OBVIOUS
  <1>1. ~Dead /\ Got(ParserTokens) /\ pc = "got" /\ Silent
        /\ current \notin DocumentStates
    <2>1. current \notin DocumentStates
      BY DEF Colon, Comma, DocumentStates
    <2> QED
      BY <2>1, GotLive DEF Colon, Comma, ParserTokens
  <1>2. PICK s \in {"map_need_val", "map_need_key", "array_need_val"} : Become(Set(s))
    BY DEF Colon, Comma
  <1>3. s \in States \ (DocumentStates \cup ErrorStates)
    BY DEF States, ValueStates, KeyStates, DocumentStates, ErrorStates
  <1> QED
    BY <1>1, <1>2, <1>3, InnerStack, SilentStep

\* Every step keeps the invariant.
LEMMA StepInv == Inv /\ [Next]_vars => Inv'
  <1> SUFFICES ASSUME Inv, [Next]_vars PROVE Inv'
    OBVIOUS
  <1>1. CASE \E o \in Settable, on \in BOOLEAN : Config(o, on)
    BY <1>1, ConfigStep
  <1>2. CASE \E c \in {"parse", "finish"} : Call(c)
    BY <1>2, CallStep
  <1>3. CASE ReadToken
    BY <1>3, ReadTokenStep
  <1>4. ASSUME NEW fits \in BOOLEAN, NEW drained \in BOOLEAN, ParserStep(fits, drained)
        PROVE  Inv'
    <2>1. CASE NextDocument \/ Rest(drained) \/ StayDead \/ EnterLexer
      BY <2>1, TurnSteps
    <2>2. CASE HandleToken(fits)
      BY <2>2, EofStep, LexicalErrorStep, FailSteps, ScalarStep, NumberStep, OpenStep,
         CloseStep, KeyStep, PunctuationStep DEF HandleToken
    <2>3. CASE FinishReturn
      BY <2>3, FinishStep
    <2> QED
      BY <1>4, <2>1, <2>2, <2>3 DEF ParserStep
  <1>5. CASE UNCHANGED vars
    <2>1. /\ stateStack' = stateStack /\ parseError' = parseError /\ flags' = flags
          /\ callbacks' = callbacks /\ pc' = pc /\ call' = call /\ status' = status
          /\ tok' = tok /\ event' = event /\ beat' = beat
      BY <1>5 DEF vars, parserVars
    <2> QED
      BY <2>1 DEF Inv, TypeOK, StackShape, ControlOK, WellFormed, Dead, current, Depth
  <1> QED
    BY <1>1, <1>2, <1>3, <1>4, <1>5 DEF Next

\* Inv is an invariant of the parser.
THEOREM Invariance == Spec => []Inv
  BY InitInv, StepInv, PTL DEF Spec

\* yajl_do_parse keeps every variable of its automaton in its type.
THEOREM TypeCorrect == Spec => []TypeOK
  <1>1. Inv => TypeOK
    BY DEF Inv
  <1> QED
    BY <1>1, Invariance, PTL

\* The stack of states is never empty, so yajl_bs_current's assert holds,
\* and its levels always fit together: yajl_bs_pop never uncovers a level
\* that still waits for its value.
THEOREM StackWellFormed == Spec => []StackShape
  <1>1. Inv => StackShape
    BY DEF Inv
  <1> QED
    BY <1>1, Invariance, PTL

\* The parser reads tokens only in a live state, and it is in parse_error
\* exactly when hand->parseError is set.
THEOREM ControlCorrect == Spec => []ControlOK
  <1>1. Inv => ControlOK
    BY DEF Inv
  <1> QED
    BY <1>1, Invariance, PTL

\* An error is final: no later call makes a callback, replaces the message
\* or answers anything but an error.
THEOREM ErrorIsFinal == Spec => ErrorsStay
  <1>1. Inv /\ [Next]_vars =>
          [Dead => /\ UNCHANGED <<stateStack, parseError, event, beat>>
                   /\ status' # status => status' = "error"]_vars
    <2> SUFFICES ASSUME Inv, Next, Dead
                 PROVE  /\ UNCHANGED <<stateStack, parseError, event, beat>>
                        /\ status' # status => status' = "error"
      OBVIOUS
    <2>1. pc \in {"client", "loop"} /\ current \in ErrorStates
      BY DEF Inv, TypeOK, ControlOK, Dead
    <2>2. current # "parse_complete"
      BY <2>1 DEF ErrorStates
    <2>3. ~HandleToken(TRUE) /\ ~HandleToken(FALSE)
      BY <2>1 DEF HandleToken, Eof, LexicalError, Garbage, Scalar, Number, OpenMap,
         OpenArray, CloseMap, CloseArray, Key, Colon, Comma, Unexpected, Got
    <2>4. ASSUME NEW fits \in BOOLEAN, NEW drained \in BOOLEAN, ParserStep(fits, drained)
          PROVE  StayDead
      BY <2>1, <2>2, <2>3, <2>4 DEF ParserStep, NextDocument, Rest, EnterLexer, FinishReturn
    <2>5. CASE \E o \in Settable, on \in BOOLEAN : Config(o, on)
      BY <2>5 DEF Config
    <2>6. CASE \E c \in {"parse", "finish"} : Call(c)
      BY <2>6 DEF Call
    <2>7. CASE StayDead
      BY <2>7 DEF StayDead, Turn, Return
    <2> QED
      BY <2>1, <2>4, <2>5, <2>6, <2>7 DEF Next, ReadToken
  <1> QED
    BY <1>1, Invariance, PTL DEF Spec, ErrorsStay

-----------------------------------------------------------------------------
(* The parser implements EventContract: each of its steps is a step of the *)
(* contract, or none, when the stack is read as FramesOf and PhaseOf read  *)
(* it.                                                                     *)

Kinds == {"key", "value", "elem"}

\* The stack of a parse that goes on.
Alive(stack) ==
    stack \in Seq(States) /\ WellFormed(stack) /\ TopOf(stack) \notin ErrorStates

LEMMA FrameKinds ==
  \A s \in States \ (DocumentStates \cup ErrorStates) : FrameOf[s] \in Kinds
  BY DEF States, ValueStates, KeyStates, DocumentStates, ErrorStates, FrameOf, Kinds

\* The containers of a live stack, level by level.
LEMMA FramesAlive ==
  ASSUME NEW stack, Alive(stack)
  PROVE  /\ Len(stack) \in Nat /\ Len(stack) >= 1
         /\ FramesOf(stack) = [i \in 1..Len(stack) - 1 |-> FrameOf[stack[i + 1]]]
         /\ FramesOf(stack) \in Seq(Kinds)
         /\ Len(FramesOf(stack)) = Len(stack) - 1
         /\ \A i \in 1..Len(stack) - 1 : FramesOf(stack)[i] = FrameOf[stack[i + 1]]
         /\ Len(stack) > 1 => FramesOf(stack)[Len(stack) - 1] = FrameOf[TopOf(stack)]
         /\ FramesOf(stack) = <<>> <=> Len(stack) = 1
  <1>1. stack \in Seq(States) /\ Len(stack) \in Nat /\ Len(stack) >= 1
    BY DEF Alive, WellFormed
  <1> DEFINE fs == [i \in 1..Len(stack) - 1 |-> FrameOf[stack[i + 1]]]
  <1>2. FramesOf(stack) = fs
    BY DEF FramesOf, Alive, TopOf
  <1>3. \A i \in 1..Len(stack) - 1 : stack[i + 1] \in States \ (DocumentStates \cup ErrorStates)
    <2> SUFFICES ASSUME NEW i \in 1..Len(stack) - 1
                 PROVE  stack[i + 1] \in States \ (DocumentStates \cup ErrorStates)
      OBVIOUS
    <2>1. CASE i + 1 = Len(stack)
      BY <1>1, <2>1 DEF Alive, WellFormed, TopOf
    <2>2. CASE i + 1 # Len(stack)
      <3>1. i + 1 \in 2..Len(stack) - 1
        BY <1>1, <2>2
      <3>2. stack[i + 1] \in {"map_got_val", "array_got_val"}
        BY <3>1 DEF Alive, WellFormed
      <3> QED
        BY <3>2 DEF States, DocumentStates, ErrorStates
    <2> QED
      BY <2>1, <2>2
  <1>4. \A i \in 1..Len(stack) - 1 : fs[i] = FrameOf[stack[i + 1]] /\ fs[i] \in Kinds
    BY <1>3, FrameKinds
  <1>5. fs \in Seq(Kinds) /\ Len(fs) = Len(stack) - 1
    <2>1. Len(stack) - 1 \in Nat
      BY <1>1
    <2>2. fs \in [1..Len(stack) - 1 -> Kinds]
      BY <1>4
    <2> HIDE DEF fs
    <2> QED
      BY <2>1, <2>2
  <1>6. Len(stack) > 1 => fs[Len(stack) - 1] = FrameOf[TopOf(stack)]
    BY <1>1, <1>4 DEF TopOf
  <1>7. fs = <<>> <=> Len(stack) = 1
    <2> HIDE DEF fs
    <2> QED
      BY <1>1, <1>5
  <1> QED
    BY <1>1, <1>2, <1>4, <1>5, <1>6, <1>7

LEMMA AboveOne == \A n \in Nat : n > 1 => ~(n = 1)
  OBVIOUS

\* Two sequences of kinds that agree everywhere.
LEMMA SameFrames ==
  ASSUME NEW fs \in Seq(Kinds), NEW gs \in Seq(Kinds), Len(fs) = Len(gs),
         \A i \in 1..Len(fs) : fs[i] = gs[i]
  PROVE  fs = gs
  OBVIOUS

\* yajl_bs_set changes the innermost container.
LEMMA SetFrames ==
  ASSUME NEW stack, Alive(stack), NEW s \in States, Alive(SetTop(stack, s))
  PROVE  /\ Len(stack) = 1 => FramesOf(SetTop(stack, s)) = <<>>
         /\ Len(stack) > 1 =>
              FramesOf(SetTop(stack, s)) =
                [FramesOf(stack) EXCEPT ![Len(FramesOf(stack))] = FrameOf[s]]
  <1> DEFINE t == SetTop(stack, s)
  <1>1. stack \in Seq(States) /\ Len(stack) \in Nat /\ Len(stack) >= 1
    BY FramesAlive DEF Alive
  <1>2. Len(t) = Len(stack) /\ TopOf(t) = s
        /\ \A i \in 1..Len(stack) - 1 : t[i] = stack[i]
    BY <1>1, SetLemma
  <1>3. Alive(t)
    OBVIOUS
  <1> HIDE DEF t
  <1>4. CASE Len(stack) = 1
    BY <1>2, <1>3, <1>4, FramesAlive DEF t
  <1>5. CASE Len(stack) > 1
    <2> DEFINE fs == FramesOf(stack)
               gs == FramesOf(t)
               n  == Len(stack) - 1
    <2>1. fs \in Seq(Kinds) /\ Len(fs) = n /\ n \in Nat /\ n >= 1
          /\ \A i \in 1..n : fs[i] = FrameOf[stack[i + 1]]
      BY <1>1, <1>5, FramesAlive
    <2>2. gs \in Seq(Kinds) /\ Len(gs) = n
          /\ (\A i \in 1..n : gs[i] = FrameOf[t[i + 1]]) /\ gs[n] = FrameOf[s]
      BY <1>2, <1>3, <1>5, FramesAlive
    <2>3. \A i \in 1..n - 1 : gs[i] = fs[i]
      <3> SUFFICES ASSUME NEW i \in 1..n - 1 PROVE gs[i] = fs[i]
        OBVIOUS
      <3>1. i \in 1..n /\ i + 1 \in 1..Len(stack) - 1
        BY <1>1
      <3> HIDE DEF n
      <3>2. t[i + 1] = stack[i + 1]
        BY <3>1, <1>2
      <3> QED
        BY <3>1, <3>2, <2>1, <2>2
    <2> HIDE DEF fs, gs, n
    <2> DEFINE hs == [fs EXCEPT ![Len(fs)] = FrameOf[s]]
    <2>4. hs \in Seq(Kinds) /\ Len(hs) = n /\ hs[n] = FrameOf[s]
          /\ \A i \in 1..n - 1 : hs[i] = fs[i]
      <3>1. FrameOf[s] \in Kinds
        BY <2>1, <2>2
      <3> QED
        BY <2>1, <3>1
    <2> HIDE DEF hs
    <2>5. \A i \in 1..n : gs[i] = hs[i]
      BY <2>1, <2>2, <2>3, <2>4
    <2>6. gs = hs
      BY <2>2, <2>4, <2>5, SameFrames
    <2>7. ~(Len(stack) = 1)
      BY <1>1, <1>5, AboveOne, Zenon
    <2> QED
      BY <2>6, <2>7, Zenon DEF gs, hs, fs, t
  <1> QED
    BY <1>1, <1>4, <1>5, OneOrMore, Zenon DEF t

\* yajl_bs_push opens a container in the innermost one.
LEMMA PushFrames ==
  ASSUME NEW stack, Alive(stack), NEW s \in States, Alive(Append(stack, s))
  PROVE  FramesOf(Append(stack, s)) = Append(FramesOf(stack), FrameOf[s])
  <1> DEFINE t == Append(stack, s)
             n == Len(stack)
             fs == FramesOf(stack)
             gs == FramesOf(t)
  <1>1. stack \in Seq(States) /\ n \in Nat /\ n >= 1
    BY FramesAlive DEF Alive
  <1>2. Len(t) = n + 1 /\ TopOf(t) = s /\ \A i \in 1..n : t[i] = stack[i]
    BY <1>1, PushLemma
  <1>3. fs \in Seq(Kinds) /\ Len(fs) = n - 1
        /\ \A i \in 1..n - 1 : fs[i] = FrameOf[stack[i + 1]]
    BY FramesAlive
  <1>4. Alive(t)
    OBVIOUS
  <1> HIDE DEF t
  <1>5. gs \in Seq(Kinds) /\ Len(gs) = n
        /\ (\A i \in 1..n : gs[i] = FrameOf[t[i + 1]]) /\ gs[n] = FrameOf[s]
    <2>1. Len(t) > 1 /\ Len(t) - 1 = n
      BY <1>1, <1>2
    <2> HIDE DEF n
    <2>2. gs[Len(t) - 1] = FrameOf[TopOf(t)]
      BY <1>4, <2>1, FramesAlive
    <2>3. gs \in Seq(Kinds) /\ Len(gs) = Len(t) - 1
          /\ \A i \in 1..Len(t) - 1 : gs[i] = FrameOf[t[i + 1]]
      BY <1>4, FramesAlive
    <2> QED
      BY <1>2, <2>1, <2>2, <2>3
  <1>6. \A i \in 1..n - 1 : gs[i] = fs[i]
    <2> SUFFICES ASSUME NEW i \in 1..n - 1 PROVE gs[i] = fs[i]
      OBVIOUS
    <2> HIDE DEF fs, gs
    <2>1. i \in 1..n /\ i + 1 \in 1..n
      BY <1>1
    <2>2. t[i + 1] = stack[i + 1]
      BY <2>1, <1>2
    <2> QED
      BY <2>1, <2>2, <1>3, <1>5
  <1> HIDE DEF fs, gs, n
  <1> DEFINE hs == Append(fs, FrameOf[s])
  <1>7. hs \in Seq(Kinds) /\ Len(hs) = n /\ hs[n] = FrameOf[s]
        /\ \A i \in 1..n - 1 : hs[i] = fs[i]
    <2>1. FrameOf[s] \in Kinds
      BY <1>1, <1>5
    <2> QED
      BY <1>1, <1>3, <2>1
  <1> HIDE DEF hs
  <1>8. \A i \in 1..n : gs[i] = hs[i]
    BY <1>1, <1>5, <1>6, <1>7
  <1>9. gs = hs
    BY <1>5, <1>7, <1>8, SameFrames
  <1> QED
    BY <1>9 DEF gs, hs, fs, t

\* yajl_bs_pop closes the innermost container.
LEMMA PopFrames ==
  ASSUME NEW stack, Alive(stack), Len(stack) > 1, Alive(PopOf(stack))
  PROVE  FramesOf(PopOf(stack)) = SubSeq(FramesOf(stack), 1, Len(FramesOf(stack)) - 1)
  <1> DEFINE t == PopOf(stack)
             fs == FramesOf(stack)
             gs == FramesOf(t)
  <1>1. stack \in Seq(States) /\ Len(stack) \in Nat
    BY FramesAlive DEF Alive
  <1>2. PICK n \in Nat : n = Len(stack) - 2
    BY <1>1
  <1>3. Len(t) = n + 1 /\ \A i \in 1..n + 1 : t[i] = stack[i]
    BY <1>1, <1>2, PopLemma
  <1>4. fs \in Seq(Kinds) /\ Len(fs) = n + 1
        /\ \A i \in 1..n + 1 : fs[i] = FrameOf[stack[i + 1]]
    <2>1. Len(stack) - 1 = n + 1
      BY <1>1, <1>2
    <2>2. fs \in Seq(Kinds) /\ Len(fs) = Len(stack) - 1
          /\ \A i \in 1..Len(stack) - 1 : fs[i] = FrameOf[stack[i + 1]]
      BY FramesAlive
    <2> QED
      BY <2>1, <2>2, Zenon
  <1>5. Alive(t)
    OBVIOUS
  <1> HIDE DEF t
  <1>6. gs \in Seq(Kinds) /\ Len(gs) = n /\ \A i \in 1..n : gs[i] = FrameOf[t[i + 1]]
    <2>1. Len(t) - 1 = n
      BY <1>2, <1>3
    <2> QED
      BY <1>5, <2>1, FramesAlive
  <1> HIDE DEF fs, gs
  <1> DEFINE hs == SubSeq(fs, 1, n)
  <1>7. hs \in Seq(Kinds) /\ Len(hs) = n /\ \A i \in 1..n : hs[i] = fs[i]
    BY <1>2, <1>4
  <1> HIDE DEF hs
  <1>8. \A i \in 1..n : gs[i] = hs[i]
    <2> SUFFICES ASSUME NEW i \in 1..n PROVE gs[i] = hs[i]
      OBVIOUS
    <2>1. i \in 1..n + 1 /\ i + 1 \in 1..n + 1
      BY <1>2
    <2>2. t[i + 1] = stack[i + 1]
      BY <2>1, <1>3
    <2> QED
      BY <2>1, <2>2, <1>4, <1>6, <1>7
  <1>9. gs = hs
    BY <1>6, <1>7, <1>8, SameFrames
  <1>10. Len(fs) - 1 = n
    BY <1>2, <1>4
  <1> QED
    BY <1>9, <1>10 DEF gs, hs, fs, t

-----------------------------------------------------------------------------
(* What the client sees of a step.                                         *)

\* The stack of a parser that is not dead.
LEMMA LiveStack ==
  ASSUME Inv, ~Dead
  PROVE  Alive(stateStack) /\ current = TopOf(stateStack) /\ Depth = Len(stateStack)
  BY Live DEF Alive, Dead, Depth

\* The phase of a live document is told by the bottom of its stack.
LEMMA PhaseAlive ==
  ASSUME NEW stack, Alive(stack)
  PROVE  /\ FramesOf(stack) # <<>> <=> TopOf(stack) \notin DocumentStates
         /\ FramesOf(stack) # <<>> => PhaseOf(stack) = "open"
         /\ TopOf(stack) = "start" => PhaseOf(stack) = "fresh"
         /\ TopOf(stack) = "parse_complete" => PhaseOf(stack) = "done"
         /\ TopOf(stack) = "got_value" => PhaseOf(stack) = "more"
         /\ PhaseOf(stack) # "dead"
  <1>1. FramesOf(stack) = <<>> <=> Len(stack) = 1
    BY FramesAlive
  <1>2. Len(stack) = 1 <=> TopOf(stack) \in DocumentStates
    BY DEF Alive, WellFormed, TopOf
  <1>3. TopOf(stack) \notin ErrorStates
    BY DEF Alive
  <1> QED
    BY <1>1, <1>2, <1>3 DEF PhaseOf, TopOf, DocumentStates

LEMMA DeadSeen ==
  ASSUME NEW stack, TopOf(stack) \in ErrorStates
  PROVE  FramesOf(stack) = <<>> /\ PhaseOf(stack) = "dead"
  <1>1. FramesOf(stack) = <<>>
    BY Zenon DEF FramesOf, TopOf
  <1>2. PhaseOf(stack) = "dead"
    <2>1. PICK s \in ErrorStates : TopOf(stack) = s
      OBVIOUS
    <2>2. s \notin {"start", "parse_complete", "got_value"}
      BY DEF ErrorStates
    <2> QED
      BY <2>1, <2>2 DEF PhaseOf, TopOf
  <1> QED
    BY <1>1, <1>2

\* A step while a call runs, that leaves the options alone.
LEMMA WithinStep ==
  ASSUME Inv, ~Dead, pc # "client", UNCHANGED <<flags, callbacks>>
  PROVE  Contract!Within
  <1>1. Asked # "none"
    BY DEF Asked, Inv, ControlOK
  <1>2. PhaseOf(stateStack) # "dead"
    BY LiveStack, PhaseAlive
  <1> QED
    BY <1>1, <1>2 DEF Contract!Within

\* A step the client does not see.
LEMMA Unseen ==
  ASSUME UNCHANGED <<stateStack, flags, callbacks, status, event, beat>>, Asked' = Asked
  PROVE  UNCHANGED Contract!vars
  BY DEF Contract!vars

\* A parse that ends in an error nobody is told of yet.
LEMMA GiveUpStep ==
  ASSUME Inv, Got(ParserTokens), Silent, NEW s \in ErrorStates,
         stateStack' = Set(s), pc' = "loop", status' = status
  PROVE  Contract!GiveUp
  <1>1. ~Dead /\ pc = "got"
    BY GotLive
  <1>2. TopOf(stateStack') = s
    <2>1. s \in States /\ s \notin DocumentStates
      BY DEF States, ErrorStates, DocumentStates
    <2> QED
      BY <2>1, TopSet
  <1>3. FramesOf(stateStack') = <<>> /\ PhaseOf(stateStack') = "dead"
    BY <1>2, DeadSeen
  <1>4. Asked' = Asked
    BY <1>1 DEF Asked, Got
  <1>5. Contract!Within
    BY <1>1, WithinStep DEF Got
  <1> QED
    BY <1>3, <1>4, <1>5 DEF Contract!GiveUp, Contract!Die, Silent

\* A callback, behind which the document goes on or the parse is over.
LEMMA TellStep ==
  ASSUME Inv, Got(ParserTokens), NEW cb, NEW stack, Alive(stack),
         TopOf(stack) \notin {"start", "got_value"}, Callback(cb, stack)
  PROVE  Contract!Tell(cb, FramesOf(stack))
  <1>1. ~Dead /\ pc = "got"
    BY GotLive
  <1>2. PhaseOf(stack) = IF FramesOf(stack) = <<>> THEN "done" ELSE "open"
    BY PhaseAlive DEF DocumentStates
  <1>3. CASE Become(stack)
    <2>1. stateStack' = stack /\ status' = status
      BY <1>3 DEF Become
    <2>2. Asked' = Asked
      BY <1>1, <1>3 DEF Asked, Got, Become
    <2>3. FramesOf(stateStack') = FramesOf(stack) /\ PhaseOf(stateStack') = PhaseOf(stack)
      BY <2>1
    <2>4. \/ ~Wants(cb) /\ UNCHANGED <<event, beat>>
          \/ Wants(cb) /\ event' = cb /\ beat' = ~beat
      BY DEF Callback
    <2> QED
      BY <1>2, <2>1, <2>2, <2>3, <2>4 DEF Contract!Tell, Contract!Told, Wants
  <1>4. CASE Cancelled /\ Wants(cb) /\ event' = cb /\ beat' = ~beat
    <2>1. "parse_error" \in States /\ "parse_error" \in ErrorStates
          /\ "parse_error" \notin DocumentStates
      BY DEF States, ErrorStates, DocumentStates
    <2>2. TopOf(stateStack') = "parse_error"
      BY <1>4, <2>1, TopSet DEF Cancelled
    <2>3. FramesOf(stateStack') = <<>> /\ PhaseOf(stateStack') = "dead"
      BY <2>1, <2>2, DeadSeen
    <2>4. Asked' = "none" /\ status' = "client_canceled"
      BY <1>4 DEF Cancelled, Return, Asked
    <2> QED
      BY <1>4, <2>3, <2>4 DEF Contract!Tell, Contract!Told, Contract!Die, Wants
  <1> QED
    BY <1>3, <1>4 DEF Callback

-----------------------------------------------------------------------------
(* Each step of the parser is a step of the contract, or none.             *)

\* Where a value stands the contract expects one, and its stack is the
\* contract's behind the value.
LEMMA ValueSeen ==
  ASSUME Inv, ~Dead, current \in ValueStates
  PROVE  /\ Contract!ExpectsValue
         /\ Alive(Set(AfterValue[current]))
         /\ FramesOf(Set(AfterValue[current])) = Contract!PastValue
         /\ TopOf(Set(AfterValue[current])) \in {"parse_complete", "map_got_val", "array_got_val"}
  <1> DEFINE s == AfterValue[current]
             fs == FramesOf(stateStack)
  <1>1. Alive(stateStack) /\ current = TopOf(stateStack) /\ Depth = Len(stateStack)
    BY LiveStack
  <1>2. Set(s) = SetTop(stateStack, s)
    BY <1>1 DEF Set, SetTop
  <1>3. Set(s) \in Seq(States) /\ WellFormed(Set(s))
        /\ TopOf(Set(s)) \in {"parse_complete", "map_got_val", "array_got_val"}
    BY ValueStack
  <1>4. Alive(Set(s))
    BY <1>3 DEF Alive, ErrorStates
  <1>5. s \in States
    BY ValueDone DEF States
  <1>6. /\ Len(stateStack) \in Nat /\ Len(stateStack) >= 1
        /\ fs \in Seq(Kinds) /\ Len(fs) = Len(stateStack) - 1
        /\ fs = <<>> <=> Len(stateStack) = 1
        /\ Len(stateStack) > 1 => fs[Len(fs)] = FrameOf[current]
    <2>1. Len(fs) = Len(stateStack) - 1
      BY <1>1, FramesAlive
    <2> QED
      BY <1>1, <2>1, FramesAlive
  <1>7. Len(stateStack) = 1 \/ Len(stateStack) > 1
    BY <1>6, OneOrMore, Zenon
  <1>8. CASE Len(stateStack) = 1
    <2>1. fs = <<>> /\ FramesOf(Set(s)) = <<>>
      <3>1. fs = <<>>
        BY <1>6, <1>8, Zenon
      <3>2. FramesOf(SetTop(stateStack, s)) = <<>>
        BY <1>1, <1>2, <1>4, <1>5, <1>8, SetFrames
      <3> QED
        BY <1>2, <3>1, <3>2
    <2>2. current \in {"start", "got_value"}
      BY <1>1, <2>1, PhaseAlive DEF ValueStates, DocumentStates
    <2>3. PhaseOf(stateStack) \in {"fresh", "more"}
      BY <1>1, <2>2, PhaseAlive
    <2> QED
      BY <1>3, <1>4, <2>1, <2>3 DEF Contract!ExpectsValue, Contract!PastValue
  <1>9. CASE Len(stateStack) > 1
    <2>1. fs # <<>> /\ fs[Len(fs)] = FrameOf[current]
      BY <1>6, <1>9, AboveOne, Zenon
    <2>2. FramesOf(Set(s)) = [fs EXCEPT ![Len(fs)] = FrameOf[s]]
      BY <1>1, <1>2, <1>4, <1>5, <1>9, SetFrames, ZenonT(30)
    <2>3. current \in {"map_need_val", "array_need_val", "array_start"}
      BY <1>1, <2>1, PhaseAlive DEF ValueStates, DocumentStates
    <2>4. CASE current = "map_need_val"
      <3>1. FrameOf[current] = "value" /\ FrameOf[s] = "key"
        BY <2>4 DEF FrameOf, AfterValue, ValueStates
      <3> QED
        BY <1>3, <1>4, <2>1, <2>2, <3>1
        DEF Contract!ExpectsValue, Contract!PastValue, Contract!Top, Contract!SetTop
    <2>5. CASE current \in {"array_need_val", "array_start"}
      <3>1. FrameOf[current] = "elem" /\ FrameOf[s] = "elem"
        BY <2>5 DEF FrameOf, AfterValue, ValueStates
      <3>2. [fs EXCEPT ![Len(fs)] = "elem"] = fs
        BY <1>6, <2>1, <3>1
      <3> QED
        BY <1>3, <1>4, <2>1, <2>2, <3>1, <3>2
        DEF Contract!ExpectsValue, Contract!PastValue, Contract!Top
    <2> QED
      BY <2>3, <2>4, <2>5
  <1> QED
    BY <1>7, <1>8, <1>9

LEMMA ScalarSeen ==
  ASSUME Inv, NEW tokens \in SUBSET ParserTokens, Got(tokens), current \in ValueStates,
         NEW cb \in Contract!ScalarEvents, Callback(cb, Set(AfterValue[current]))
  PROVE  Contract!TellScalar
  <1>1. ~Dead /\ Got(ParserTokens) /\ pc = "got"
    BY GotLive
  <1>2. Contract!Within
    BY <1>1, WithinStep DEF Got
  <1>3. Contract!ExpectsValue /\ Contract!Tell(cb, Contract!PastValue)
    BY <1>1, ValueSeen, TellStep
  <1> QED
    BY <1>2, <1>3 DEF Contract!TellScalar

\* A value without parts.
LEMMA ScalarTold ==
  ASSUME Inv, NEW fits \in BOOLEAN, Scalar \/ Number(fits)
  PROVE  Contract!TellScalar \/ Contract!GiveUp
  <1>1. CASE Scalar
    <2>1. CallbackOf[tok] \in Contract!ScalarEvents
          /\ Got({"string", "string_with_escapes", "bool", "null"})
      BY <1>1 DEF Scalar, Got, CallbackOf, Contract!ScalarEvents
    <2>2. {"string", "string_with_escapes", "bool", "null"} \in SUBSET ParserTokens
      BY DEF ParserTokens
    <2> QED
      BY <1>1, <2>1, <2>2, ScalarSeen DEF Scalar
  <1>2. CASE Number(fits)
    <2>1. Got({"integer", "double"}) /\ current \in ValueStates
      BY <1>2 DEF Number
    <2>2. tok \in {"integer", "double"}
      BY <2>1 DEF Got
    <2>3. CallbackOf[tok] \in {"yajl_integer", "yajl_double"}
      BY <2>2 DEF CallbackOf
    <2>4. IF Wants("yajl_number") THEN "yajl_number" \in Contract!ScalarEvents
                                  ELSE CallbackOf[tok] \in Contract!ScalarEvents
      BY <2>3 DEF Wants, Contract!ScalarEvents, Contract!Told
    <2>5. {"integer", "double"} \in SUBSET ParserTokens
      BY DEF ParserTokens
    \* A number nobody asked for is not told to yajl_number, nor to the other.
    <2>6. \/ Wants("yajl_number") /\ Callback("yajl_number", Set(AfterValue[current]))
          \/ ~Wants("yajl_number") /\ Callback(CallbackOf[tok], Set(AfterValue[current]))
          \/ Fail("out of range") /\ Silent
      BY <1>2 DEF Number, Callback
    <2>7. CASE Fail("out of range") /\ Silent
      <3>1. Got(ParserTokens) /\ "parse_error" \in ErrorStates
        BY <2>1, <2>5, GotLive DEF ErrorStates
      <3> QED
        BY <2>7, <3>1, GiveUpStep DEF Fail
    <2> QED
      BY <2>1, <2>5, <2>6, <2>7, <2>4, ScalarSeen
  <1> QED
    BY <1>1, <1>2

LEMMA OpenSeen ==
  ASSUME Inv, NEW tokens \in SUBSET ParserTokens, Got(tokens), current \in ValueStates,
         NEW cb, NEW s \in {"map_start", "array_start"},
         Callback(cb, Append(Set(AfterValue[current]), s))
  PROVE  /\ Contract!Within /\ Contract!ExpectsValue
         /\ Contract!Tell(cb, Append(Contract!PastValue, FrameOf[s]))
  <1> DEFINE after == Set(AfterValue[current])
  <1>1. ~Dead /\ Got(ParserTokens) /\ pc = "got"
    BY GotLive
  <1>2. Contract!Within
    BY <1>1, WithinStep DEF Got
  <1>3. Contract!ExpectsValue /\ Alive(after) /\ FramesOf(after) = Contract!PastValue
        /\ TopOf(after) \in {"parse_complete", "map_got_val", "array_got_val"}
    BY <1>1, ValueSeen
  <1>4. s \in States /\ s \notin DocumentStates /\ s \notin ErrorStates
    BY DEF States, ValueStates, KeyStates, DocumentStates, ErrorStates
  <1> HIDE DEF after
  <1>5. Alive(Append(after, s)) /\ TopOf(Append(after, s)) = s
    BY <1>3, <1>4, PushLemma, PushShape DEF Alive
  <1>6. FramesOf(Append(after, s)) = Append(Contract!PastValue, FrameOf[s])
    BY <1>3, <1>4, <1>5, PushFrames
  <1>7. Contract!Tell(cb, FramesOf(Append(after, s)))
    BY <1>1, <1>5, TellStep DEF after
  <1> QED
    BY <1>2, <1>3, <1>6, <1>7

LEMMA OpenTold == ASSUME Inv, OpenMap \/ OpenArray PROVE Contract!TellOpen
  <1>1. FrameOf["map_start"] = "key" /\ FrameOf["array_start"] = "elem"
    BY DEF FrameOf
  <1>2. {"left_bracket"} \in SUBSET ParserTokens /\ {"left_brace"} \in SUBSET ParserTokens
    BY DEF ParserTokens
  <1>3. CASE OpenMap
    <2>1. Got({"left_bracket"}) /\ current \in ValueStates
          /\ Callback("yajl_start_map", Append(Set(AfterValue[current]), "map_start"))
      BY <1>3 DEF OpenMap
    <2> QED
      BY <1>1, <1>2, <2>1, OpenSeen DEF Contract!TellOpen
  <1>4. CASE OpenArray
    <2>1. Got({"left_brace"}) /\ current \in ValueStates
          /\ Callback("yajl_start_array", Append(Set(AfterValue[current]), "array_start"))
      BY <1>4 DEF OpenArray
    <2> QED
      BY <1>1, <1>2, <2>1, OpenSeen DEF Contract!TellOpen
  <1> QED
    BY <1>3, <1>4

\* Inside a container: its frame is the contract's top.
LEMMA InnerSeen ==
  ASSUME Inv, ~Dead, current \notin DocumentStates
  PROVE  /\ FramesOf(stateStack) # <<>> /\ Len(stateStack) > 1
         /\ Contract!Top = FrameOf[current]
  <1>1. Alive(stateStack) /\ current = TopOf(stateStack) /\ Depth = Len(stateStack)
    BY LiveStack
  <1>2. FramesOf(stateStack) # <<>>
    BY <1>1, PhaseAlive
  <1>3. Len(stateStack) > 1
    <2>1. Len(stateStack) \in Nat /\ Len(stateStack) >= 1 /\ ~(Len(stateStack) = 1)
      BY <1>1, <1>2, FramesAlive
    <2> QED
      BY <2>1, OneOrMore, Zenon
  <1>4. Len(FramesOf(stateStack)) = Len(stateStack) - 1
    BY <1>1, FramesAlive
  <1>5. FramesOf(stateStack)[Len(stateStack) - 1] = FrameOf[current]
    BY <1>1, <1>3, FramesAlive
  <1> QED
    BY <1>2, <1>3, <1>4, <1>5 DEF Contract!Top

LEMMA CloseSeen ==
  ASSUME Inv, NEW tokens \in SUBSET ParserTokens, Got(tokens),
         current \notin DocumentStates, NEW cb, Callback(cb, Pop)
  PROVE  /\ Contract!Within /\ FramesOf(stateStack) # <<>>
         /\ Contract!Top = FrameOf[current]
         /\ Contract!Tell(cb, SubSeq(FramesOf(stateStack), 1, Len(FramesOf(stateStack)) - 1))
  <1>1. ~Dead /\ Got(ParserTokens) /\ pc = "got"
    BY GotLive
  <1>2. Contract!Within
    BY <1>1, WithinStep DEF Got
  <1>3. FramesOf(stateStack) # <<>> /\ Len(stateStack) > 1 /\ Contract!Top = FrameOf[current]
    BY <1>1, InnerSeen
  <1>4. Pop = PopOf(stateStack) /\ Alive(stateStack)
    BY <1>1, LiveStack DEF Pop, PopOf
  <1>5. TopOf(Pop) \in {"parse_complete", "map_got_val", "array_got_val"}
        /\ Pop \in Seq(States) /\ WellFormed(Pop)
    <2>1. stateStack \in Seq(States) /\ WellFormed(stateStack)
      BY <1>4 DEF Alive
    <2> QED
      BY <1>1, <1>3, <1>4, <2>1, OuterStack, PopShape
  <1>6. Alive(Pop)
    BY <1>5 DEF Alive, ErrorStates
  <1>7. FramesOf(Pop) = SubSeq(FramesOf(stateStack), 1, Len(FramesOf(stateStack)) - 1)
    BY <1>3, <1>4, <1>6, PopFrames
  <1>8. Contract!Tell(cb, FramesOf(Pop))
    BY <1>1, <1>5, <1>6, TellStep
  <1> QED
    BY <1>2, <1>3, <1>7, <1>8

LEMMA CloseTold == ASSUME Inv, CloseMap \/ CloseArray PROVE Contract!TellClose
  <1>1. {"right_bracket"} \in SUBSET ParserTokens /\ {"right_brace"} \in SUBSET ParserTokens
    BY DEF ParserTokens
  <1>2. CASE CloseMap
    <2>1. Got({"right_bracket"}) /\ current \notin DocumentStates
          /\ FrameOf[current] = "key" /\ Callback("yajl_end_map", Pop)
      BY <1>2 DEF CloseMap, DocumentStates, FrameOf
    <2> QED
      BY <1>1, <2>1, CloseSeen DEF Contract!TellClose
  <1>3. CASE CloseArray
    <2>1. Got({"right_brace"}) /\ current \notin DocumentStates
          /\ FrameOf[current] = "elem" /\ Callback("yajl_end_array", Pop)
      BY <1>3 DEF CloseArray, DocumentStates, FrameOf
    <2> QED
      BY <1>1, <2>1, CloseSeen DEF Contract!TellClose
  <1> QED
    BY <1>2, <1>3

\* The top of a live container becomes another of its states.
LEMMA InnerSet ==
  ASSUME Inv, ~Dead, current \notin DocumentStates,
         NEW s \in States \ (DocumentStates \cup ErrorStates)
  PROVE  /\ Alive(Set(s)) /\ TopOf(Set(s)) = s
         /\ FramesOf(Set(s)) = Contract!SetTop(FrameOf[s])
  <1>1. Alive(stateStack) /\ Depth = Len(stateStack)
    BY LiveStack
  <1>2. Set(s) = SetTop(stateStack, s)
    BY <1>1 DEF Set, SetTop
  <1>3. Depth # 1
    BY Live
  <1>4. Set(s) \in Seq(States) /\ WellFormed(Set(s)) /\ TopOf(Set(s)) = s
    BY <1>3, TopSet
  <1>5. Alive(Set(s))
    BY <1>4 DEF Alive
  <1>6. Len(stateStack) > 1
    BY InnerSeen
  <1>7. FramesOf(SetTop(stateStack, s)) =
          [FramesOf(stateStack) EXCEPT ![Len(FramesOf(stateStack))] = FrameOf[s]]
    BY <1>1, <1>2, <1>5, <1>6, SetFrames
  <1> QED
    BY <1>2, <1>4, <1>5, <1>7 DEF Contract!SetTop

LEMMA KeyTold == ASSUME Inv, Key PROVE Contract!TellKey
  <1>1. Got({"string", "string_with_escapes"}) /\ current \notin DocumentStates
        /\ FrameOf[current] = "key" /\ Callback("yajl_map_key", Set("map_sep"))
    BY DEF Key, KeyStates, DocumentStates, FrameOf
  <1>2. ~Dead /\ Got(ParserTokens) /\ pc = "got"
    BY <1>1, GotLive DEF ParserTokens
  <1>3. "map_sep" \in States \ (DocumentStates \cup ErrorStates) /\ FrameOf["map_sep"] = "value"
    BY DEF States, DocumentStates, ErrorStates, FrameOf
  <1>4. Alive(Set("map_sep")) /\ TopOf(Set("map_sep")) = "map_sep"
        /\ FramesOf(Set("map_sep")) = Contract!SetTop("value")
    BY <1>1, <1>2, <1>3, InnerSet
  <1>5. Contract!Tell("yajl_map_key", Contract!SetTop("value"))
    BY <1>1, <1>2, <1>4, TellStep
  <1>6. Contract!Within
    BY <1>2, WithinStep DEF Got
  <1>7. FramesOf(stateStack) # <<>> /\ Contract!Top = "key"
    BY <1>1, <1>2, InnerSeen
  <1> QED
    BY <1>5, <1>6, <1>7 DEF Contract!TellKey

\* A colon and a comma change nothing the client can see.
LEMMA PunctuationUnseen == ASSUME Inv, Colon \/ Comma PROVE UNCHANGED Contract!vars
  <1>1. PICK s \in {"map_need_val", "map_need_key", "array_need_val"} :
           Become(Set(s)) /\ FrameOf[s] = FrameOf[current]
    BY DEF Colon, Comma, FrameOf
  <1>2. s \in States \ (DocumentStates \cup ErrorStates)
    BY DEF States, ValueStates, KeyStates, DocumentStates, ErrorStates
  <1>3. ~Dead /\ Got(ParserTokens) /\ pc = "got" /\ Silent
    BY GotLive DEF Colon, Comma, ParserTokens
  <1>4. current \notin DocumentStates
    BY DEF Colon, Comma, DocumentStates
  <1>5. stateStack' = Set(s) /\ status' = status /\ pc' = "loop"
    BY <1>1 DEF Become
  <1>6. FramesOf(Set(s)) = FramesOf(stateStack)
    <2>1. FramesOf(Set(s)) = Contract!SetTop(FrameOf[current])
      BY <1>1, <1>2, <1>3, <1>4, InnerSet
    <2>2. FramesOf(stateStack) \in Seq(Kinds) /\ FramesOf(stateStack) # <<>>
      BY <1>3, <1>4, LiveStack, FramesAlive, InnerSeen
    <2>3. FrameOf[current] = FramesOf(stateStack)[Len(FramesOf(stateStack))]
      BY <1>3, <1>4, InnerSeen DEF Contract!Top
    <2> DEFINE fs == FramesOf(stateStack)
    <2>4. [fs EXCEPT ![Len(fs)] = fs[Len(fs)]] = fs
      <3> HIDE DEF fs
      <3>1. fs \in Seq(Kinds)
        BY <2>2 DEF fs
      <3> QED
        BY <3>1
    <2> QED
      BY <2>1, <2>3, <2>4 DEF Contract!SetTop
  <1>7. PhaseOf(Set(s)) = "open" /\ PhaseOf(stateStack) = "open"
    <2>1. FramesOf(stateStack) # <<>> /\ Alive(stateStack) /\ Alive(Set(s))
      BY <1>2, <1>3, <1>4, InnerSeen, InnerSet, LiveStack
    <2> QED
      BY <1>6, <2>1, PhaseAlive
  <1>8. Asked' = Asked
    BY <1>3, <1>5 DEF Asked, Got
  <1> QED
    BY <1>3, <1>5, <1>6, <1>7, <1>8 DEF Contract!vars, Got, Silent

LEMMA ErrorsSeen ==
  ASSUME Inv, LexicalError \/ Garbage \/ Unexpected PROVE Contract!GiveUp
  <1>1. Got(ParserTokens) /\ Silent
    BY GotLive DEF LexicalError, Garbage, Unexpected, ParserTokens
  <1>2. PICK s \in ErrorStates : stateStack' = Set(s) /\ pc' = "loop" /\ status' = status
    BY DEF LexicalError, Garbage, Unexpected, Become, Fail, ErrorStates
  <1> QED
    BY <1>1, <1>2, GiveUpStep

\* A call of yajl_parse returns ok, or yajl_do_parse to yajl_do_finish.
LEMMA ReturnOk ==
  ASSUME Inv, ~Dead, pc # "client", Return("ok"),
         UNCHANGED <<stateStack, flags, callbacks, call, event, beat>>
  PROVE  Contract!Finish \/ UNCHANGED Contract!vars
  <1>1. status = "ok" /\ call # "none" /\ call \in {"parse", "finish"}
    BY DEF Inv, ControlOK, TypeOK
  <1>2. PhaseOf(stateStack) # "dead"
    BY LiveStack, PhaseAlive
  <1>3. CASE call = "finish"
    <2>1. Asked' = Asked /\ status' = status
      BY <1>1, <1>3 DEF Return, Asked
    <2> QED
      BY <2>1, Unseen
  <1>4. CASE call = "parse"
    <2>1. Asked = "parse" /\ Asked' = "none" /\ status' = "ok"
      BY <1>4 DEF Return, Asked
    <2> QED
      BY <1>2, <2>1 DEF Contract!Finish
  <1> QED
    BY <1>1, <1>3, <1>4

LEMMA EofSeen == ASSUME Inv, Eof PROVE Contract!Finish \/ UNCHANGED Contract!vars
  <1>1. ~Dead /\ pc = "got"
    BY GotLive DEF Eof, ParserTokens
  <1>2. UNCHANGED <<stateStack, flags, callbacks, call, event, beat>>
    BY DEF Eof, Got, Silent
  <1>3. CASE pc' = "loop" /\ status' = status
    BY <1>1, <1>2, <1>3, Unseen DEF Asked
  <1>4. CASE Return("ok")
    BY <1>1, <1>2, <1>4, ReturnOk
  <1> QED
    BY <1>3, <1>4 DEF Eof

LEMMA TurnSeen ==
  ASSUME Inv, NEW drained \in BOOLEAN,
         NextDocument \/ Rest(drained) \/ StayDead \/ EnterLexer
  PROVE  Contract!Another \/ Contract!Finish \/ UNCHANGED Contract!vars
  <1>1. CASE NextDocument
    <2>1. ~Dead /\ pc = "loop" /\ current = "parse_complete"
          /\ "allow_multiple_values" \in flags
      BY <1>1 DEF NextDocument, Turn, Flag, Dead, ErrorStates
    <2>2. Alive(stateStack) /\ current = TopOf(stateStack) /\ Depth = Len(stateStack)
      BY <2>1, LiveStack
    <2>3. FramesOf(stateStack) = <<>> /\ PhaseOf(stateStack) = "done"
      BY <2>1, <2>2, PhaseAlive DEF DocumentStates
    <2>4. "got_value" \in States /\ "got_value" \in DocumentStates
          /\ "got_value" \notin ErrorStates /\ current \in DocumentStates
      BY <2>1 DEF States, ValueStates, DocumentStates, ErrorStates
    <2>5. Set("got_value") \in Seq(States) /\ WellFormed(Set("got_value"))
          /\ TopOf(Set("got_value")) = "got_value"
      BY <2>1, <2>4, Live, TopSet
    <2>6. Alive(Set("got_value"))
      BY <2>4, <2>5 DEF Alive
    <2>7. FramesOf(Set("got_value")) = <<>> /\ PhaseOf(Set("got_value")) = "more"
      BY <2>4, <2>5, <2>6, PhaseAlive
    <2>8. Contract!Within
      BY <1>1, <2>1, WithinStep DEF NextDocument, Turn
    <2>9. stateStack' = Set("got_value") /\ Asked' = Asked
          /\ UNCHANGED <<status, event, beat>>
      BY <1>1 DEF NextDocument, Turn, Asked
    <2>10. FramesOf(stateStack') = FramesOf(stateStack) /\ PhaseOf(stateStack') = "more"
      BY <2>3, <2>7, <2>9
    <2> QED
      BY <2>1, <2>3, <2>8, <2>9, <2>10 DEF Contract!Another
  <1>2. CASE Rest(drained)
    <2>1. ~Dead /\ pc = "loop"
          /\ UNCHANGED <<stateStack, flags, callbacks, call, event, beat>>
      BY <1>2 DEF Rest, Turn, Dead, ErrorStates
    <2>2. Return("ok") \/ (pc' = "lex" /\ status' = status)
      BY <1>2 DEF Rest
    <2>3. CASE pc' = "lex" /\ status' = status
      BY <2>1, <2>3, Unseen DEF Asked
    <2> QED
      BY <2>1, <2>2, <2>3, ReturnOk
  <1>3. CASE StayDead
    <2>1. Dead /\ pc = "loop" /\ status' = "error" /\ pc' = "client"
          /\ UNCHANGED <<stateStack, flags, callbacks, call, event, beat>>
      BY <1>3 DEF StayDead, Turn, Dead, Return
    <2>2. PhaseOf(stateStack) = "dead"
      BY <2>1, DeadSeen DEF Dead, current, TopOf, Depth
    <2>3. Asked # "none" /\ Asked' = "none"
      BY <2>1 DEF Asked, Inv, ControlOK
    <2> QED
      BY <2>1, <2>2, <2>3 DEF Contract!Finish
  <1>4. CASE EnterLexer
    BY <1>4, Unseen DEF EnterLexer, Turn, Asked
  <1> QED
    BY <1>1, <1>2, <1>3, <1>4

\* yajl_complete_parse is ok behind a whole document, or if part of one will do.
LEMMA FinishSeen == ASSUME Inv, FinishReturn PROVE Contract!Finish
  <1>1. ~Dead /\ pc = "finish" /\ call = "finish" /\ pc' = "client"
        /\ UNCHANGED <<flags, callbacks, event, beat>>
    BY DEF FinishReturn, Inv, ControlOK
  <1>2. Asked = "finish" /\ Asked' = "none"
    BY <1>1 DEF Asked
  <1>3. Alive(stateStack) /\ current = TopOf(stateStack)
    BY <1>1, LiveStack
  <1>4. PhaseOf(stateStack) # "dead"
    BY <1>3, PhaseAlive
  <1>5. Contract!Complete <=> Whole
    BY <1>3 DEF Contract!Complete, Whole, PhaseOf, Alive, TopOf
  <1>6. CASE Whole \/ Flag("allow_partial_values")
    <2>1. status' = "ok" /\ stateStack' = stateStack
      BY <1>1, <1>6 DEF FinishReturn, Dead
    <2> QED
      BY <1>1, <1>2, <1>4, <1>5, <1>6, <2>1 DEF Contract!Finish, Flag
  <1>7. CASE ~Whole /\ ~Flag("allow_partial_values")
    <2>1. status' = "error" /\ stateStack' = Set("parse_error")
      BY <1>1, <1>7 DEF FinishReturn, Dead
    <2>2. "parse_error" \in States /\ "parse_error" \in ErrorStates
          /\ "parse_error" \notin DocumentStates
      BY DEF States, ErrorStates, DocumentStates
    <2>3. TopOf(stateStack') \in ErrorStates
      BY <2>1, <2>2, TopSet
    <2>4. FramesOf(stateStack') = <<>> /\ PhaseOf(stateStack') = "dead"
      BY <2>3, DeadSeen
    <2> QED
      BY <1>1, <1>2, <1>4, <1>5, <1>7, <2>1, <2>4 DEF Contract!Finish, Contract!Die, Flag
  <1> QED
    BY <1>6, <1>7

-----------------------------------------------------------------------------
(* The refinement.                                                         *)

LEMMA InitSeen == Init => Contract!Init
  <1> SUFFICES ASSUME Init PROVE Contract!Init
    OBVIOUS
  <1>1. stateStack = <<"start">> /\ current = "start"
    BY DEF Init, Depth, current
  <1>2. Inv /\ ~Dead
    BY <1>1, InitInv DEF Dead, ErrorStates
  <1>3. FramesOf(stateStack) = <<>> /\ PhaseOf(stateStack) = "fresh"
    BY <1>1, <1>2, LiveStack, PhaseAlive DEF DocumentStates
  <1> QED
    BY <1>3 DEF Init, Contract!Init, Asked

LEMMA StepSeen == Inv /\ [Next]_vars => [Contract!Next]_(Contract!vars)
  <1> SUFFICES ASSUME Inv, [Next]_vars
               PROVE  Contract!Next \/ UNCHANGED Contract!vars
    OBVIOUS
  <1>1. ASSUME NEW o \in Settable, NEW on \in BOOLEAN, Config(o, on)
        PROVE  Contract!Configure
    <2>1. Asked = "none" /\ Asked' = "none"
      BY <1>1 DEF Config, Asked
    <2> QED
      BY <1>1, <2>1 DEF Config, Contract!Configure
  <1>2. ASSUME NEW c \in {"parse", "finish"}, Call(c) PROVE Contract!Begin
    <2>1. Asked = "none" /\ Asked' = c
      BY <1>2 DEF Call, Asked
    <2> QED
      BY <1>2, <2>1 DEF Call, Contract!Begin
  <1>3. CASE ReadToken
    BY <1>3, Unseen DEF ReadToken, parserVars, Asked
  <1>4. ASSUME NEW fits \in BOOLEAN, NEW drained \in BOOLEAN, ParserStep(fits, drained)
        PROVE  Contract!Next \/ UNCHANGED Contract!vars
    <2>1. CASE NextDocument \/ Rest(drained) \/ StayDead \/ EnterLexer
      BY <2>1, TurnSeen DEF Contract!Next
    <2>2. CASE HandleToken(fits)
      BY <2>2, EofSeen, ErrorsSeen, ScalarTold, OpenTold, CloseTold, KeyTold,
         PunctuationUnseen DEF HandleToken, Contract!Next
    <2>3. CASE FinishReturn
      BY <2>3, FinishSeen DEF Contract!Next
    <2> QED
      BY <1>4, <2>1, <2>2, <2>3 DEF ParserStep
  <1>5. CASE UNCHANGED vars
    BY <1>5, Unseen DEF vars, parserVars, Asked
  <1> QED
    BY <1>1, <1>2, <1>3, <1>4, <1>5 DEF Next, Contract!Next

\* What a client of the parser is told, and answered, is what the contract
\* allows, however deep its text is nested.
THEOREM ParserImplementsContract == Spec => ImplementsContract
  <1>1. Spec => Contract!Init /\ [][Contract!Next]_(Contract!vars)
    BY InitSeen, StepSeen, Invariance, PTL DEF Spec
  <1> QED
    BY <1>1 DEF ImplementsContract, Contract!Spec
=============================================================================
