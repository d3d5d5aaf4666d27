------------------------------ MODULE GenProofs ------------------------------
(***************************************************************************)
(* What the generator keeps is what its client has open, for every         *)
(* YAJL_MAX_DEPTH and whatever is generated: the invariants of GenClient   *)
(* and, from them, that depth stays in the array and what is refused.      *)
(* Then, from the rules of JsonGrammar, that what is printed is JSON.      *)
(***************************************************************************)
EXTENDS GenClient, GenCallProofs, SequenceTheorems

Inv == TypeOK /\ Nesting

\* What a call does that is not the opening of a level too many, by what it
\* changes: nothing (Stays), one atom (Atoms), a level more, a level less.
Stays == UNCHANGED <<depth, state, frames, phase>>
Typed == genFlags' \subseteq GenOptions /\ sink' \in {"buf", "callback"}
            /\ genStatus' \in GenStatuses

-----------------------------------------------------------------------------
LEMMA StaysInv ==
  ASSUME Inv, Stays, Typed
  PROVE  Inv'
BY DEF Inv, TypeOK, GenTypeOK, Nesting, Stays, Typed, InArray, Levels, StateOf, WaitingOf

LEMMA InitInv == Init => Inv
<1> SUFFICES ASSUME Init PROVE Inv
  OBVIOUS
<1> USE GenMaxDepthAssumption, UIntMaxAssumption
<1>1. depth = 0 /\ frames = <<>> /\ Len(frames) = 0 /\ phase = "fresh"
  BY DEF Init, GenInit
<1>2. 0 \in Levels
  BY DEF Levels
<1>3. state = [i \in Levels |-> "start"]
  BY Zenon DEF Init, GenInit
<1>4. state[0] = "start" /\ state \in [Levels -> GenStates]
  BY <1>2, <1>3 DEF GenStates
<1>5. genFlags = {} /\ sink = "buf" /\ genStatus = "ok"
  BY Zenon DEF Init, GenInit
<1>7. TypeOK
  BY <1>1, <1>2, <1>4, <1>5 DEF TypeOK, GenTypeOK, InArray, GenStatuses
<1>6. Nesting
  BY <1>1, <1>4 DEF Nesting
<1> QED BY <1>6, <1>7 DEF Inv

-----------------------------------------------------------------------------
\* Where the generator is, in the client's terms.
LEMMA Place ==
  ASSUME Inv, phase # "lost"
  PROVE  /\ InArray /\ depth \in Levels /\ depth = Len(frames)
         /\ frames = <<>> => depth = 0 /\ phase # "open" 
                               /\ here = IF phase = "done" THEN "complete" ELSE "start"
         /\ frames # <<>> => depth >= 1 /\ phase = "open" /\ state[0] = "start"
                               /\ Top \in Kinds /\ here \in StateOf[Top]
         /\ Valid <=> phase # "done"
         /\ NeedsKey <=> WantsKey
<1> USE GenMaxDepthAssumption, UIntMaxAssumption
<1>1. InArray /\ depth \in Levels /\ depth = Len(frames)
  BY DEF Inv, TypeOK, GenTypeOK, Nesting, InArray, Levels
<1>2. frames \in Seq(Kinds) /\ phase \in {"fresh", "open", "done"}
  BY DEF Inv, TypeOK, Kinds
<1>3. ASSUME frames = <<>>
      PROVE  depth = 0 /\ phase # "open" /\ here = IF phase = "done" THEN "complete" ELSE "start"
  BY <1>1, <1>3 DEF Inv, Nesting, here
<1>4. ASSUME frames # <<>>
      PROVE  /\ depth >= 1 /\ phase = "open" /\ state[0] = "start"
             /\ Top \in Kinds /\ here \in StateOf[Top]
  BY <1>1, <1>2, <1>4 DEF Inv, Nesting, here, Top
<1>5. frames # <<>> => Valid /\ (NeedsKey <=> Top = "key")
  BY <1>4 DEF Valid, NeedsKey, StateOf, Kinds
<1>6. frames = <<>> => (Valid <=> phase # "done") /\ ~NeedsKey
  BY <1>3 DEF Valid, NeedsKey
<1> QED BY <1>1, <1>3, <1>4, <1>5, <1>6 DEF WantsKey

\* The kind of the innermost container is changed, not what is around it.
LEMMA SetTopLemma ==
  ASSUME frames \in Seq(Kinds), frames # <<>>, NEW k \in Kinds
  PROVE  /\ SetTop(k) \in Seq(Kinds) /\ SetTop(k) # <<>>
         /\ Len(SetTop(k)) = Len(frames) /\ SetTop(k)[Len(frames)] = k
         /\ \A i \in 1..Len(frames) - 1 : SetTop(k)[i] = frames[i]
BY DEF SetTop

LEMMA PastValueLemma ==
  ASSUME frames \in Seq(Kinds)
  PROVE  /\ PastValue \in Seq(Kinds) /\ Len(PastValue) = Len(frames)
         /\ PastValue = <<>> <=> frames = <<>>
         /\ \A i \in 1..Len(frames) - 1 : PastValue[i] = frames[i]
         /\ frames # <<>> => PastValue[Len(frames)] = IF Top = "value" THEN "key" ELSE Top
<1>1. CASE frames # <<>> /\ Top = "value"
  BY <1>1, SetTopLemma, "key" \in Kinds DEF PastValue, Kinds
<1>2. CASE ~(frames # <<>> /\ Top = "value")
  BY <1>2 DEF PastValue, Top
<1> QED BY <1>1, <1>2

-----------------------------------------------------------------------------
\* The client follows a call that was ok to the containers fs.
FollowedTo(fs) ==
    /\ frames' = fs /\ phase' = IF fs = <<>> THEN "done" ELSE "open"
    /\ Typed

\* The invariant in the terms of NestingProofs.
LEMMA InvNested ==
  ASSUME Inv, phase # "lost"
  PROVE  Nested(frames, phase = "done")
<1>1. depth \in Levels /\ depth = Len(frames) /\ (frames = <<>> <=> phase # "open")
  BY Place
<1> QED BY <1>1 DEF Inv, TypeOK, GenTypeOK, Nesting, Nested, Kinds

LEMMA NestedInv ==
  ASSUME NEW fs, FollowedTo(fs), Nested(fs, fs = <<>>)'
  PROVE  Inv'
<1> USE GenMaxDepthAssumption, UIntMaxAssumption
<1>1. /\ fs \in Seq(Kinds) /\ depth' = Len(fs) /\ depth' \in Levels
      /\ state' \in [Levels -> GenStates]
      /\ state'[0] = IF fs = <<>> THEN "complete" ELSE "start"
      /\ \A d \in 1..depth' :
            state'[d] \in IF d = depth' THEN StateOf[fs[d]] ELSE WaitingOf[fs[d]]
  BY DEF Nested
<1>2. frames' = fs /\ phase' = (IF fs = <<>> THEN "done" ELSE "open") /\ Typed
  BY DEF FollowedTo
<1>3. TypeOK'
  BY <1>1, <1>2 DEF TypeOK, GenTypeOK, Typed, InArray, Kinds, Levels
<1>4. Nesting'
  BY <1>1, <1>2 DEF Nesting
<1> QED BY <1>3, <1>4 DEF Inv

\* Behind an atom where a value may be, and a string where a key has to be.
LEMMA PastAdvanced ==
  ASSUME Inv, ~WantsKey
  PROVE  Advanced(frames, PastValue)
<1>1. frames \in Seq(Kinds) /\ (frames # <<>> => Top \in Kinds)
  BY DEF Inv, TypeOK, Kinds, Top
<1> QED BY <1>1, PastValueLemma DEF Advanced, NextKind, WantsKey, Kinds, Top

LEMMA KeyAdvanced ==
  ASSUME Inv, WantsKey
  PROVE  Advanced(frames, SetTop("value"))
<1>1. frames \in Seq(Kinds) /\ "value" \in Kinds
  BY DEF Inv, TypeOK, Kinds
<1> QED BY <1>1, SetTopLemma DEF Advanced, NextKind, WantsKey, Top

LEMMA AtomInv ==
  ASSUME Inv, phase # "lost", Valid,
         NEW fs, FollowedTo(fs),
         \/ fs = PastValue /\ ~NeedsKey
         \/ fs = SetTop("value") /\ WantsKey,
         depth' = depth, state' = [state EXCEPT ![depth] = AfterAtom[@]]
  PROVE  Inv'
<1>1. Nested(frames, FALSE)
  BY InvNested, Place
<1>2. Advanced(frames, fs)
  BY PastAdvanced, KeyAdvanced, Place
<1> QED BY <1>1, <1>2, EmitNested, NestedInv

\* One level more.
LEMMA OpenInv ==
  ASSUME Inv, phase # "lost", Valid, ~NeedsKey,
         NEW k \in {"key", "elem"}, NEW s \in StateOf[k],
         FollowedTo(Append(PastValue, k)),
         depth' = depth + 1, depth' < MaxDepth,
         state' = [state EXCEPT ![depth'] = s]
  PROVE  Inv'
<1>1. Nested(frames, FALSE)
  BY InvNested, Place
<1>2. PICK fs : fs = frames
  OBVIOUS
<1>3. PICK past : past = PastValue
  OBVIOUS
<1>4. Nested(fs, FALSE) /\ Advanced(fs, past)
  BY <1>1, <1>2, <1>3, PastAdvanced, Place
<1>5. Nested(Append(past, k), FALSE)'
  BY <1>4, OpenNested
<1>6. PICK gs : gs = Append(past, k)
  OBVIOUS
<1>7. gs # <<>>
  <2>1. past \in Seq(Kinds) /\ k \in Kinds
    BY <1>4 DEF Advanced, Kinds
  <2> QED BY <2>1, <1>6
<1>8. Nested(gs, gs = <<>>)'
  BY <1>5, <1>6, <1>7
<1>9. FollowedTo(gs)
  BY <1>3, <1>6
<1> QED BY <1>8, <1>9, NestedInv

\* One level less.
LEMMA CloseInv ==
  ASSUME Inv, phase # "lost", frames # <<>>, Top \in {"key", "elem"},
         FollowedTo(Outer),
         depth' = depth - 1,
         state' = [state EXCEPT ![depth'] = AfterAtom[state[depth']]]
  PROVE  Inv'
<1>1. PICK fs : fs = frames
  OBVIOUS
<1>2. PICK outer : outer = Outer
  OBVIOUS
<1>3. Nested(fs, FALSE)
  BY <1>1, InvNested, Place
<1>4. outer = SubSeq(fs, 1, Len(fs) - 1) /\ fs # <<>> /\ fs[Len(fs)] \in {"key", "elem"}
  BY <1>1, <1>2 DEF Outer, Top
<1>5. Nested(outer, outer = <<>>)'
  BY <1>3, <1>4, CloseNested
<1>6. FollowedTo(outer)
  BY <1>2
<1> QED BY <1>5, <1>6, NestedInv

-----------------------------------------------------------------------------
\* The outcomes of a call.
LEMMA TypedLemma ==
  ASSUME Inv, UNCHANGED outputForm, genStatus' \in GenStatuses
  PROVE  Typed
BY DEF Typed, outputForm, Inv, TypeOK, GenTypeOK

LEMMA RefuseInv ==
  ASSUME Inv, NEW s \in GenStatuses \ {"ok", "max_depth_exceeded"}, Refuse(s),
         NEW fs, Follow(fs)
  PROVE  Inv'
<1>1. Typed
  BY TypedLemma DEF Refuse, Answer
<1>2. Stays
  BY DEF Stays, Refuse, Answer, Follow
<1> QED BY <1>1, <1>2, StaysInv

LEMMA FollowOk ==
  ASSUME Inv, Answer("ok"), UNCHANGED outputForm, NEW fs, Follow(fs)
  PROVE  FollowedTo(fs)
<1>1. Typed
  BY TypedLemma DEF Answer, GenStatuses
<1> QED BY <1>1 DEF FollowedTo, Follow, Answer

LEMMA EmitInv ==
  ASSUME Inv, phase # "lost", Valid, NEW text, Emit(text),
         NEW fs, Follow(fs),
         \/ fs = PastValue /\ ~NeedsKey
         \/ fs = SetTop("value") /\ WantsKey
  PROVE  Inv'
<1>1. FollowedTo(fs)
  BY FollowOk DEF Emit
<1>2. depth' = depth /\ state' = [state EXCEPT ![depth] = AfterAtom[@]]
  BY DEF Emit
<1> QED BY <1>1, <1>2, AtomInv

\* A level too many: depth is out of the array, and the client knows.
LEMMA TooDeepInv ==
  ASSUME Inv, phase # "lost", UNCHANGED <<state, outputForm>>,
         Answer("max_depth_exceeded"), depth' = depth + 1, depth' >= MaxDepth,
         NEW fs, Follow(fs)
  PROVE  Inv'
<1> USE GenMaxDepthAssumption, UIntMaxAssumption
<1>1. depth \in Levels /\ depth' = MaxDepth
  BY Place DEF Levels
<1>2. Typed
  BY TypedLemma DEF Answer, GenStatuses
<1>3. phase' = "lost" /\ frames' = frames /\ state' = state
  BY DEF Follow, Answer
<1> QED BY <1>1, <1>2, <1>3
        DEF Inv, TypeOK, GenTypeOK, Nesting, Typed, InArray

LEMMA RefusalStatuses ==
  /\ Invalid \in GenStatuses \ {"ok", "max_depth_exceeded"}
  /\ {"keys_must_be_strings", "invalid_number", "invalid_string"}
        \subseteq GenStatuses \ {"ok", "max_depth_exceeded"}
BY DEF Invalid, GenStatuses

-----------------------------------------------------------------------------
LEMMA ConfigureInv == ASSUME Inv, Configure PROVE Inv'
<1>1. Stays
  BY DEF Configure, GenConfig, ConfigIndent, ConfigPrint, Stays
<1>2. Typed
  <2>1. ASSUME NEW o \in GenOptions, NEW on \in BOOLEAN, GenConfig(o, on) PROVE Typed
    BY <2>1 DEF GenConfig, Answer, Typed, Inv, TypeOK, GenTypeOK, GenStatuses
  <2>2. ASSUME NEW i \in IndentStrings, ConfigIndent(i) PROVE Typed
    BY <2>2 DEF ConfigIndent, Answer, Typed, Inv, TypeOK, GenTypeOK, GenStatuses
  <2>3. ASSUME ConfigPrint PROVE Typed
    BY <2>3 DEF ConfigPrint, Answer, Typed, Inv, TypeOK, GenTypeOK, GenStatuses
  <2> QED BY <2>1, <2>2, <2>3 DEF Configure
<1> QED BY <1>1, <1>2, StaysInv

LEMMA AtomStepInv == ASSUME Inv, Atom PROVE Inv'
<1>1. phase # "lost" /\ Follow(PastValue)
  BY DEF Atom, Asks
<1>2. ASSUME NEW s \in GenStatuses \ {"ok", "max_depth_exceeded"}, Refuse(s) PROVE Inv'
  BY <1>1, <1>2, RefuseInv
<1>3. ASSUME NEW text, Valid, ~NeedsKey, Emit(text) PROVE Inv'
  BY <1>1, <1>3, EmitInv
<1>4. ASSUME NEW text, gen_atom(text) PROVE Inv'
  BY <1>2, <1>3, <1>4, RefusalStatuses DEF gen_atom, EnsureValue, EnsureValidState
<1>5. ASSUME NEW digits, NEW finite, gen_double(digits, finite) PROVE Inv'
  BY <1>2, <1>3, <1>5, RefusalStatuses DEF gen_double, EnsureValue, EnsureValidState
<1> QED BY <1>4, <1>5 DEF Atom

LEMMA StringInv == ASSUME Inv, String PROVE Inv'
<1> DEFINE fs == IF frames # <<>> /\ Top = "key" THEN SetTop("value") ELSE PastValue
<1>1. phase # "lost" /\ Follow(fs)
  BY DEF String, Asks
<1>2. (fs = PastValue /\ ~NeedsKey) \/ (fs = SetTop("value") /\ WantsKey)
  BY <1>1, Place DEF WantsKey
<1> HIDE DEF fs
<1>3. ASSUME NEW s \in GenStatuses \ {"ok", "max_depth_exceeded"}, Refuse(s) PROVE Inv'
  BY <1>1, <1>3, RefuseInv
<1>4. ASSUME NEW text, Valid, Emit(text) PROVE Inv'
  BY <1>1, <1>2, <1>4, EmitInv
<1>5. ASSUME NEW str, NEW valid, gen_string(str, valid) PROVE Inv'
  BY <1>3, <1>4, <1>5, RefusalStatuses DEF gen_string, EnsureValidState
<1> QED BY <1>5 DEF String

\* gen_open with the container it opens.
LEMMA OpenStepInv ==
  ASSUME Inv, phase # "lost", NEW k \in {"key", "elem"}, NEW s \in StateOf[k],
         NEW bracket, gen_open(s, bracket), Follow(Append(PastValue, k))
  PROVE  Inv'
<1>1. ASSUME NEW t \in GenStatuses \ {"ok", "max_depth_exceeded"}, Refuse(t) PROVE Inv'
  BY <1>1, RefuseInv
<1>2. ASSUME Valid, ~NeedsKey, depth' = depth + 1, UNCHANGED outputForm, ~(depth' >= MaxDepth),
             Answer("ok"), state' = [state EXCEPT ![depth'] = s]
      PROVE  Inv'
  <2>1. FollowedTo(Append(PastValue, k))
    BY <1>2, FollowOk
  <2>2. depth' < MaxDepth
    BY <1>2, Place, GenMaxDepthAssumption DEF Levels
  <2> QED BY <1>2, <2>1, <2>2, OpenInv
<1>3. ASSUME depth' = depth + 1, UNCHANGED <<state, outputForm>>, depth' >= MaxDepth,
             Answer("max_depth_exceeded")
      PROVE  Inv'
  BY <1>3, TooDeepInv
<1>4. \/ ~Valid /\ Refuse(Invalid)
      \/ Refuse("keys_must_be_strings")
      \/ Valid /\ ~NeedsKey /\ depth' = depth + 1 /\ UNCHANGED outputForm
            /\ ~(depth' >= MaxDepth) /\ Answer("ok") /\ state' = [state EXCEPT ![depth'] = s]
      \/ depth' = depth + 1 /\ UNCHANGED <<state, outputForm>> /\ depth' >= MaxDepth
            /\ Answer("max_depth_exceeded")
  BY DEF gen_open, EnsureValue, EnsureValidState
<1> QED BY <1>1, <1>2, <1>3, <1>4, RefusalStatuses

LEMMA OpenActionInv == ASSUME Inv, Open PROVE Inv'
<1>1. "map_start" \in StateOf["key"] /\ "array_start" \in StateOf["elem"]
  BY DEF StateOf
<1> QED BY <1>1, OpenStepInv DEF Open, Asks, map_open, array_open

LEMMA CloseStepInv ==
  ASSUME Inv, phase # "lost", NEW f \in {"key", "elem"}, MayClose(f),
         NEW bracket, gen_close(bracket), Follow(Outer)
  PROVE  Inv'
<1> USE GenMaxDepthAssumption, UIntMaxAssumption
<1>1. CASE Refuse(Invalid)
  BY <1>1, RefuseInv, RefusalStatuses
<1>2. CASE Valid /\ ~Refuse(Invalid)
  <2>1. frames # <<>> /\ Top = f
    BY <1>2, Place DEF MayClose
  <2>2. depth \in Nat /\ depth >= 1 /\ depth < MaxDepth
    BY <2>1, Place DEF Levels
  <2>3. /\ depth' = depth - 1 /\ ~(depth' >= MaxDepth)
        /\ Answer("ok") /\ UNCHANGED outputForm
        /\ state' = [state EXCEPT ![depth'] = AfterAtom[state[depth']]]
    BY <1>2, <2>2 DEF gen_close, EnsureValidState
  <2>4. FollowedTo(Outer)
    BY <2>3, FollowOk
  <2> QED BY <2>1, <2>3, <2>4, CloseInv
<1> QED BY <1>1, <1>2 DEF gen_close, EnsureValidState

LEMMA CloseActionInv == ASSUME Inv, Close PROVE Inv'
BY CloseStepInv DEF Close, map_close, array_close

LEMMA ResetInv == ASSUME Inv, Reset PROVE Inv'
<1> USE GenMaxDepthAssumption, UIntMaxAssumption
<1>1. depth' = 0 /\ frames' = <<>> /\ Len(frames') = 0 /\ phase' = "fresh" /\ 0 \in Levels
  BY DEF Reset, gen_reset, Levels
<1>2. state' = [i \in Levels |-> "start"]
  BY Zenon DEF Reset, gen_reset
<1>3. state'[0] = "start" /\ state' \in [Levels -> GenStates]
  BY <1>1, <1>2 DEF GenStates
<1>4. Typed
  BY TypedLemma DEF Reset, gen_reset, Answer, GenStatuses
<1>5. TypeOK'
  BY <1>1, <1>3, <1>4 DEF TypeOK, GenTypeOK, Typed, InArray
<1>6. Nesting'
  BY <1>1, <1>3 DEF Nesting
<1> QED BY <1>5, <1>6 DEF Inv

LEMMA TakeInv == ASSUME Inv, Take PROVE Inv'
<1>1. Stays
  BY DEF Take, get_buf, gen_clear, Stays
<1>2. Typed
  BY TypedLemma DEF Take, get_buf, gen_clear, Answer, GenStatuses
<1> QED BY <1>1, <1>2, StaysInv

LEMMA StepInv == ASSUME Inv, [Next]_vars PROVE Inv'
<1>1. CASE UNCHANGED vars
  BY <1>1 DEF vars, genVars, Inv, TypeOK, GenTypeOK, Nesting, InArray, Levels
<1> QED BY <1>1, ConfigureInv, AtomStepInv, StringInv, OpenActionInv, CloseActionInv,
           ResetInv, TakeInv DEF Next

\* The generator's stack of states is the client's open containers.
THEOREM GenInvariance == Spec => []Inv
<1> QED BY InitInv, StepInv, PTL DEF Spec

\* depth is in the array whenever a client that closes only what it opened
\* makes a call, whatever YAJL_MAX_DEPTH is.
THEOREM GenTypeCorrect == Spec => []TypeOK
<1>1. Inv => TypeOK
  BY DEF Inv
<1> QED BY <1>1, GenInvariance, PTL

\* Every open container is in the state that its last call left it in.
THEOREM GenNesting == Spec => []Nesting
<1>1. Inv => Nesting
  BY DEF Inv
<1> QED BY <1>1, GenInvariance, PTL

-----------------------------------------------------------------------------
\* Where a call finds the generator: behind the value, at a key, elsewhere.
LEMMA Refusing ==
  ASSUME Inv, phase # "lost"
  PROVE  /\ phase = "done" => ~Valid /\ Invalid = "generation_complete"
         /\ phase # "done" => Valid /\ (WantsKey <=> NeedsKey)
         /\ phase = "done" => ~WantsKey
<1>1. phase = "done" => frames = <<>> /\ here = "complete"
  BY Place
<1> QED BY <1>1, Place DEF Invalid, WantsKey

LEMMA ValueRefusals ==
  ASSUME Inv, phase # "lost", NEW answers \in SUBSET {"ok", "invalid_number", "max_depth_exceeded"},
         \/ ~Valid /\ Refuse(Invalid)
         \/ Valid /\ NeedsKey /\ Refuse("keys_must_be_strings")
         \/ Valid /\ ~NeedsKey /\ genStatus' \in answers
  PROVE  genStatus' \in ValueAnswers(answers)
<1>1. CASE phase = "done"
  <2>1. genStatus' = "generation_complete"
    BY <1>1, Refusing DEF Refuse, Answer
  <2>2. ValueAnswers(answers) = {"generation_complete"}
    BY <1>1, Refusing DEF ValueAnswers
  <2> QED BY <2>1, <2>2
<1>2. CASE phase # "done" /\ WantsKey
  BY <1>2, Refusing DEF ValueAnswers, Refuse, Answer
<1>3. CASE phase # "done" /\ ~WantsKey
  BY <1>3, Refusing DEF ValueAnswers
<1> QED BY <1>1, <1>2, <1>3

LEMMA AtomRefusals ==
  ASSUME Inv, Atom
  PROVE  genStatus' \in ValueAnswers({"ok", "invalid_number"})
<1> DEFINE answers == {"ok", "invalid_number"}
<1>1. phase # "lost"
  BY DEF Atom, Asks
<1>2. ASSUME NEW text, gen_atom(text)
      PROVE  \/ ~Valid /\ Refuse(Invalid)
             \/ Valid /\ NeedsKey /\ Refuse("keys_must_be_strings")
             \/ Valid /\ ~NeedsKey /\ genStatus' \in answers
  BY <1>2 DEF gen_atom, EnsureValue, EnsureValidState, Emit, Answer
<1>3. ASSUME NEW digits, NEW finite, gen_double(digits, finite)
      PROVE  \/ ~Valid /\ Refuse(Invalid)
             \/ Valid /\ NeedsKey /\ Refuse("keys_must_be_strings")
             \/ Valid /\ ~NeedsKey /\ genStatus' \in answers
  BY <1>3 DEF gen_double, EnsureValue, EnsureValidState, Emit, Answer, Refuse
<1>4. answers \in SUBSET {"ok", "invalid_number", "max_depth_exceeded"}
  OBVIOUS
<1> HIDE DEF answers
<1>5. \/ ~Valid /\ Refuse(Invalid)
      \/ Valid /\ NeedsKey /\ Refuse("keys_must_be_strings")
      \/ Valid /\ ~NeedsKey /\ genStatus' \in answers
  BY <1>2, <1>3 DEF Atom
<1>6. genStatus' \in ValueAnswers(answers)
  BY <1>1, <1>4, <1>5, ValueRefusals
<1> QED BY <1>6 DEF answers

LEMMA OpenRefusals ==
  ASSUME Inv, Open
  PROVE  genStatus' \in ValueAnswers({IF Roomy THEN "ok" ELSE "max_depth_exceeded"})
<1> DEFINE answers == {IF Roomy THEN "ok" ELSE "max_depth_exceeded"}
<1>1. phase # "lost"
  BY DEF Open, Asks
<1>2. depth = Len(frames)
  BY <1>1, Place
<1>3. ASSUME NEW opened, NEW bracket, gen_open(opened, bracket)
      PROVE  \/ ~Valid /\ Refuse(Invalid)
             \/ Valid /\ NeedsKey /\ Refuse("keys_must_be_strings")
             \/ Valid /\ ~NeedsKey /\ genStatus' \in answers
  <2>1. depth + 1 >= MaxDepth <=> ~Roomy
    BY <1>1, <1>2, Place, GenMaxDepthAssumption DEF Roomy, Levels
  <2> QED BY <1>3, <2>1 DEF gen_open, EnsureValue, EnsureValidState, Answer
<1>4. answers \in SUBSET {"ok", "invalid_number", "max_depth_exceeded"}
  OBVIOUS
<1> HIDE DEF answers
<1>5. \/ ~Valid /\ Refuse(Invalid)
      \/ Valid /\ NeedsKey /\ Refuse("keys_must_be_strings")
      \/ Valid /\ ~NeedsKey /\ genStatus' \in answers
  BY <1>3 DEF Open, map_open, array_open
<1>6. genStatus' \in ValueAnswers(answers)
  BY <1>1, <1>4, <1>5, ValueRefusals
<1> QED BY <1>6 DEF answers

LEMMA StringRefusals ==
  ASSUME Inv, String
  PROVE  genStatus' \in {IF phase = "done" THEN "generation_complete" ELSE "ok",
                         "invalid_string"}
<1>1. phase # "lost"
  BY DEF String, Asks
<1>2. ASSUME NEW str, NEW valid, gen_string(str, valid)
      PROVE  \/ genStatus' = "invalid_string"
             \/ ~Valid /\ genStatus' = Invalid
             \/ Valid /\ genStatus' = "ok"
  BY <1>2 DEF gen_string, EnsureValidState, Emit, Refuse, Answer
<1> QED BY <1>1, <1>2, Refusing DEF String

LEMMA CloseRefusals ==
  ASSUME Inv, Close
  PROVE  genStatus' = IF phase = "done" THEN "generation_complete" ELSE "ok"
<1>1. phase # "lost"
  BY DEF Close
<1>2. ASSUME NEW f, MayClose(f), NEW bracket, gen_close(bracket)
      PROVE  genStatus' = IF phase = "done" THEN "generation_complete" ELSE "ok"
  <2>1. CASE phase = "done"
    BY <1>1, <1>2, <2>1, Refusing DEF gen_close, EnsureValidState, Refuse, Answer
  <2>2. CASE phase # "done"
    <3>1. depth \in Nat /\ depth >= 1 /\ depth < MaxDepth
      BY <1>1, <1>2, <2>2, Place, GenMaxDepthAssumption DEF MayClose, Levels
    <3>2. MaxDepth \in Nat
      BY GenMaxDepthAssumption
    <3>3. Valid
      BY <1>1, <2>2, Refusing
    <3> QED BY <1>2, <2>2, <3>1, <3>2, <3>3
            DEF gen_close, EnsureValidState, Answer
  <2> QED BY <2>1, <2>2
<1> QED BY <1>2 DEF Close, map_close, array_close

\* What the generator refuses is what the contract says, and nothing else.
THEOREM GenRefusals == Spec => RefusalsRight
<1>1. ASSUME Inv
      PROVE  /\ Atom => genStatus' \in ValueAnswers({"ok", "invalid_number"})
             /\ Open => genStatus' \in ValueAnswers({IF Roomy THEN "ok" ELSE "max_depth_exceeded"})
             /\ String => genStatus' \in {IF phase = "done" THEN "generation_complete"
                                          ELSE "ok", "invalid_string"}
             /\ Close => genStatus' = IF phase = "done" THEN "generation_complete" ELSE "ok"
  BY <1>1, AtomRefusals, OpenRefusals, StringRefusals, CloseRefusals
<1> QED BY <1>1, GenInvariance, PTL DEF RefusalsRight

-----------------------------------------------------------------------------
\* The parts of a generator that a refused call may not touch.
Traces == <<depth, state, out>>
Refused == genStatus' \notin {"ok", "max_depth_exceeded"}

LEMMA AtomRefused == ASSUME Atom, Refused PROVE UNCHANGED Traces
<1>1. ASSUME NEW text, gen_atom(text) PROVE UNCHANGED Traces
  BY <1>1 DEF gen_atom, EnsureValue, EnsureValidState, Emit, Answer, Refuse, Refused, Traces
<1>2. ASSUME NEW digits, NEW finite, gen_double(digits, finite) PROVE UNCHANGED Traces
  BY <1>2 DEF gen_double, EnsureValue, EnsureValidState, Emit, Answer, Refuse, Refused, Traces
<1> QED BY <1>1, <1>2 DEF Atom

LEMMA StringRefused == ASSUME String, Refused PROVE UNCHANGED Traces
<1>1. ASSUME NEW str, NEW valid, gen_string(str, valid) PROVE UNCHANGED Traces
  BY <1>1 DEF gen_string, EnsureValidState, Emit, Answer, Refuse, Refused, Traces
<1> QED BY <1>1 DEF String

LEMMA OpenRefused == ASSUME Open, Refused PROVE UNCHANGED Traces
<1>1. ASSUME NEW opened, NEW bracket, gen_open(opened, bracket) PROVE UNCHANGED Traces
  BY <1>1 DEF gen_open, EnsureValue, EnsureValidState, Answer, Refuse, Refused, Traces
<1> QED BY <1>1 DEF Open, map_open, array_open

\* A closing is refused only behind a whole document: with a container
\* open depth is not 0, and does not wrap.
LEMMA CloseRefused == ASSUME Inv, Close, Refused PROVE UNCHANGED Traces
<1>1. phase # "lost" /\ phase = "done"
  BY CloseRefusals DEF Close, Refused
<1>2. ~Valid
  BY <1>1, Refusing
<1>3. ASSUME NEW bracket, gen_close(bracket) PROVE UNCHANGED Traces
  BY <1>2, <1>3 DEF gen_close, EnsureValidState, Refuse, Traces
<1> QED BY <1>3 DEF Close, map_close, array_close

LEMMA OtherRefused ==
  ASSUME Configure \/ Reset \/ Take, Refused PROVE UNCHANGED Traces
BY DEF Configure, GenConfig, ConfigIndent, ConfigPrint, Reset, gen_reset, Take, get_buf,
       gen_clear, Answer, Refused, Traces

\* One level too many: no other call is answered so.
TooDeep == genStatus' = "max_depth_exceeded"
Overrun == depth' = MaxDepth /\ out' = out \o Lead /\ UNCHANGED state

LEMMA OpenTooDeep == ASSUME Inv, Open, TooDeep PROVE Overrun
<1>1. phase # "lost"
  BY DEF Open, Asks
<1>2. depth \in Nat /\ depth < MaxDepth /\ MaxDepth \in Nat
  BY <1>1, Place, GenMaxDepthAssumption DEF Levels
<1>3. Invalid # "max_depth_exceeded"
  BY DEF Invalid
<1>4. ASSUME NEW opened, NEW bracket, gen_open(opened, bracket) PROVE Overrun
  <2>1. /\ depth' = depth + 1 /\ depth + 1 >= MaxDepth
        /\ out' = out \o Lead /\ UNCHANGED state
    BY <1>3, <1>4 DEF gen_open, EnsureValue, EnsureValidState, Refuse, Answer, TooDeep
  <2> QED BY <1>2, <2>1 DEF Overrun
<1> QED BY <1>4 DEF Open, map_open, array_open

LEMMA OthersNotTooDeep ==
  ASSUME Inv, Configure \/ Atom \/ String \/ Close \/ Reset \/ Take
  PROVE  ~TooDeep
<1>1. CASE Configure \/ Reset \/ Take
  BY <1>1 DEF Configure, GenConfig, ConfigIndent, ConfigPrint, Reset, gen_reset, Take,
              get_buf, gen_clear, Answer, TooDeep
<1>2. CASE Atom
  <2>1. genStatus' \in ValueAnswers({"ok", "invalid_number"})
    BY <1>2, AtomRefusals
  <2> QED BY <2>1, Zenon DEF ValueAnswers, TooDeep
<1>3. CASE String
  BY <1>3, StringRefusals DEF TooDeep
<1>4. CASE Close
  BY <1>4, CloseRefusals DEF TooDeep
<1> QED BY <1>1, <1>2, <1>3, <1>4

\* A refused call has changed no state and printed nothing; an opening that is
\* one level too many has printed what comes before it, and moved depth.
THEOREM GenNoTrace == Spec => RefusedLeavesNoTrace
<1>1. ASSUME Inv, Next, Refused PROVE UNCHANGED Traces
  BY <1>1, AtomRefused, StringRefused, OpenRefused, CloseRefused, OtherRefused DEF Next
<1>2. ASSUME Inv, Next, TooDeep PROVE Overrun
  BY <1>2, OpenTooDeep, OthersNotTooDeep DEF Next
<1>3. Inv /\ [Next]_vars =>
        [/\ genStatus' \notin {"ok", "max_depth_exceeded"} => UNCHANGED <<depth, state, out>>
         /\ genStatus' = "max_depth_exceeded" =>
               depth' = MaxDepth /\ out' = out \o Lead /\ UNCHANGED state]_vars
  BY <1>1, <1>2 DEF Refused, Traces, TooDeep, Overrun
<1> QED BY <1>3, GenInvariance, PTL DEF Spec, RefusedLeavesNoTrace

-----------------------------------------------------------------------------
\* What the phrases that start behind i may be: sets of ends behind i.
Phrases(s, i) == LET ends == SUBSET (i + 1..Len(s) + 1)
                 IN  [value : ends, elements : ends, members : ends]
PhraseNames == {"value", "elements", "members"}
\* later has those of every place behind i.
Later(s, i, later) == later \in Seq(Phrases(s, i)) /\ Len(later) = Len(s) + 1 - i

\* Phrases end behind where they start, and inside of the text or at its end.
LEMMA SpaceRange ==
  ASSUME NEW s \in Seq(Char), NEW i
  PROVE  SpaceEnds(s, i) \subseteq i..Len(s) + 1
BY DEF SpaceEnds

LEMMA SpacedRange ==
  ASSUME NEW s \in Seq(Char), NEW a \in Nat, NEW P, P \subseteq a..Len(s) + 1
  PROVE  Spaced(s, P) \subseteq a..Len(s) + 1
<1> SUFFICES ASSUME NEW j \in P, NEW k \in SpaceEnds(s, j) PROVE k \in a..Len(s) + 1
  BY Zenon DEF Spaced
<1>1. Len(s) \in Nat /\ j \in a..Len(s) + 1 /\ k \in j..Len(s) + 1
  BY SpaceRange
<1> QED BY <1>1

LEMMA PastRange ==
  ASSUME NEW s \in Seq(Char), NEW a \in Nat, NEW P, P \subseteq a..Len(s) + 1, NEW ch
  PROVE  Past(s, P, ch) \subseteq a + 1..Len(s) + 1
BY DEF Past

\* A phrase that starts further on ends behind i all the more.
LEMMA Nearer ==
  ASSUME NEW n \in Nat, NEW i \in Nat, NEW Q, Q \subseteq (i + 1) + 1..n
  PROVE  Q \subseteq i + 1..n
<1>1. (i + 1) + 1..n \subseteq i + 1..n
  OBVIOUS
<1> QED BY <1>1, Zenon

LEMMA RestsRange ==
  ASSUME NEW s \in Seq(Char), NEW i \in 1..Len(s) + 1, NEW later, Later(s, i, later),
         NEW P, P \subseteq i + 1..Len(s) + 1, NEW phrase \in PhraseNames
  PROVE  Rests(later, i, P, phrase) \subseteq i + 1..Len(s) + 1
<1> SUFFICES ASSUME NEW j \in P, NEW k \in later[j - i][phrase] PROVE k \in i + 1..Len(s) + 1
  BY Zenon DEF Rests
<1>1. j - i \in 1..Len(later)
  BY DEF Later
<1>2. later[j - i] \in Phrases(s, i)
  BY <1>1 DEF Later
<1>3. later[j - i][phrase] \in SUBSET (i + 1..Len(s) + 1)
  BY <1>2 DEF Phrases, PhraseNames
<1> QED BY <1>3

LEMMA ValueRange ==
  ASSUME NEW s \in Seq(Char), NEW o, NEW i \in 1..Len(s) + 1, NEW later, Later(s, i, later)
  PROVE  /\ ValueEnds(s, o, i, later) \subseteq i + 1..Len(s) + 1
         /\ \A ch : Spaced(s, Past(s, {i}, ch)) \subseteq i + 1..Len(s) + 1
<1>0. i \in Nat /\ i + 1 \in Nat /\ Len(s) + 1 \in Nat /\ {i} \subseteq i..Len(s) + 1
  OBVIOUS
<1>1. \A ch : Past(s, {i}, ch) \subseteq i + 1..Len(s) + 1
  BY <1>0, PastRange, Zenon
<1>2. \A ch : Spaced(s, Past(s, {i}, ch)) \subseteq i + 1..Len(s) + 1
  BY <1>0, <1>1, SpacedRange, Zenon
<1>3. \A ch, end : Past(s, Spaced(s, Past(s, {i}, ch)), end) \subseteq i + 1..Len(s) + 1
  <2> TAKE ch, end
  <2>1. Past(s, Spaced(s, Past(s, {i}, ch)), end) \subseteq (i + 1) + 1..Len(s) + 1
    BY <1>0, <1>2, PastRange, Zenon
  <2> QED BY <1>0, <2>1, Nearer, Zenon
<1>4. \A ch : \A phrase \in PhraseNames :
        Rests(later, i, Spaced(s, Past(s, {i}, ch)), phrase) \subseteq i + 1..Len(s) + 1
  BY <1>2, RestsRange
<1>5. ScalarEnds(s, i, o) \subseteq i + 1..Len(s) + 1
  BY Zenon DEF ScalarEnds
<1>6. "elements" \in PhraseNames /\ "members" \in PhraseNames
  BY DEF PhraseNames
<1>7. ValueEnds(s, o, i, later) \subseteq i + 1..Len(s) + 1
  BY <1>3, <1>4, <1>5, <1>6, Zenon DEF ValueEnds
<1> QED BY <1>2, <1>7

LEMMA ItemsRange ==
  ASSUME NEW s \in Seq(Char), NEW i \in 1..Len(s) + 1, NEW later, Later(s, i, later),
         NEW P, P \subseteq i + 1..Len(s) + 1, NEW closing, NEW phrase \in PhraseNames
  PROVE  /\ ItemsBehind(s, i, later, P, closing, phrase) \subseteq i + 1..Len(s) + 1
         /\ Spaced(s, Past(s, Spaced(s, P), ",")) \subseteq i + 1..Len(s) + 1
<1>0. i \in Nat /\ i + 1 \in Nat /\ Len(s) + 1 \in Nat
  OBVIOUS
<1>1. Spaced(s, P) \subseteq i + 1..Len(s) + 1
  BY <1>0, SpacedRange, Zenon
<1>2. \A ch : Past(s, Spaced(s, P), ch) \subseteq (i + 1) + 1..Len(s) + 1
  BY <1>0, <1>1, PastRange, Zenon
<1>3. \A ch : Past(s, Spaced(s, P), ch) \subseteq i + 1..Len(s) + 1
  <2> TAKE ch
  <2>1. Past(s, Spaced(s, P), ch) \subseteq (i + 1) + 1..Len(s) + 1
    BY <1>2, Zenon
  <2> QED BY <1>0, <2>1, Nearer, Zenon
<1>4. Spaced(s, Past(s, Spaced(s, P), ",")) \subseteq i + 1..Len(s) + 1
  BY <1>0, <1>3, SpacedRange, Zenon
<1>5. Rests(later, i, Spaced(s, Past(s, Spaced(s, P), ",")), phrase) \subseteq i + 1..Len(s) + 1
  BY <1>4, RestsRange
<1> QED BY <1>3, <1>4, <1>5, Zenon DEF ItemsBehind

\* Where a value that starts at a place of P ends.
ValuesFrom(s, o, i, later, P) == Rests(later, i, P \ {i}, "value")
                                 \cup IF i \in P THEN ValueEnds(s, o, i, later) ELSE {}
KeyEnds(s, o, i) == Spaced(s, Past(s, Spaced(s, StringEnds(s, i, o)), ":"))

\* PhrasesAt, with its local definitions written out.
LEMMA PhrasesAtIs ==
  ASSUME NEW s, NEW o, NEW i, NEW later
  PROVE  PhrasesAt(s, o, i, later) =
           [value    |-> ValueEnds(s, o, i, later),
            elements |-> ItemsBehind(s, i, later, ValuesFrom(s, o, i, later, SpaceEnds(s, i)),
                                     "]", "elements"),
            members  |-> ItemsBehind(s, i, later, ValuesFrom(s, o, i, later, KeyEnds(s, o, i)),
                                     "}", "members")]
BY Zenon DEF PhrasesAt, ValuesFrom, KeyEnds

LEMMA PhrasesAre ==
  ASSUME NEW s, NEW o, NEW i, NEW later
  PROVE  /\ PhrasesAt(s, o, i, later)["value"] = ValueEnds(s, o, i, later)
         /\ PhrasesAt(s, o, i, later)["elements"] =
              ItemsBehind(s, i, later, ValuesFrom(s, o, i, later, SpaceEnds(s, i)), "]", "elements")
         /\ PhrasesAt(s, o, i, later)["members"] =
              ItemsBehind(s, i, later, ValuesFrom(s, o, i, later, KeyEnds(s, o, i)), "}", "members")
BY PhrasesAtIs

LEMMA ValuesRange ==
  ASSUME NEW s \in Seq(Char), NEW o, NEW i \in 1..Len(s) + 1, NEW later, Later(s, i, later),
         NEW P, P \subseteq i..Len(s) + 1
  PROVE  ValuesFrom(s, o, i, later, P) \subseteq i + 1..Len(s) + 1
<1>1. P \ {i} \subseteq i + 1..Len(s) + 1
  OBVIOUS
<1>2. "value" \in PhraseNames
  BY DEF PhraseNames
<1>3. Rests(later, i, P \ {i}, "value") \subseteq i + 1..Len(s) + 1
  BY <1>1, <1>2, RestsRange, Zenon
<1>4. ValueEnds(s, o, i, later) \subseteq i + 1..Len(s) + 1
  BY ValueRange, Zenon
<1> QED BY <1>3, <1>4, Zenon DEF ValuesFrom

LEMMA KeyRange ==
  ASSUME NEW s \in Seq(Char), NEW o, NEW i \in 1..Len(s) + 1
  PROVE  KeyEnds(s, o, i) \subseteq i + 1..Len(s) + 1
<1>0. i \in Nat /\ i + 1 \in Nat /\ Len(s) + 1 \in Nat
  OBVIOUS
<1>1. StringEnds(s, i, o) \subseteq i + 1..Len(s) + 1
  BY Zenon DEF StringEnds
<1>2. Spaced(s, StringEnds(s, i, o)) \subseteq i + 1..Len(s) + 1
  BY <1>0, <1>1, SpacedRange, Zenon
<1>3. Past(s, Spaced(s, StringEnds(s, i, o)), ":") \subseteq (i + 1) + 1..Len(s) + 1
  BY <1>0, <1>2, PastRange, Zenon
<1>4. Past(s, Spaced(s, StringEnds(s, i, o)), ":") \subseteq i + 1..Len(s) + 1
  BY <1>0, <1>3, Nearer, Zenon
<1> QED BY <1>0, <1>4, SpacedRange, Zenon DEF KeyEnds

LEMMA PhrasesRange ==
  ASSUME NEW s \in Seq(Char), NEW o, NEW i \in 1..Len(s) + 1, NEW later, Later(s, i, later)
  PROVE  PhrasesAt(s, o, i, later) \in Phrases(s, i)
<1>1. ValueEnds(s, o, i, later) \subseteq i + 1..Len(s) + 1
  BY ValueRange, Zenon
<1>2. SpaceEnds(s, i) \subseteq i..Len(s) + 1
  BY SpaceRange, Zenon
<1>3. KeyEnds(s, o, i) \subseteq i..Len(s) + 1
  <2>1. KeyEnds(s, o, i) \subseteq i + 1..Len(s) + 1
    BY KeyRange, Zenon
  <2>2. i + 1..Len(s) + 1 \subseteq i..Len(s) + 1
    OBVIOUS
  <2> QED BY <2>1, <2>2, Zenon
<1>4. "elements" \in PhraseNames /\ "members" \in PhraseNames
  BY DEF PhraseNames
<1>5. ItemsBehind(s, i, later, ValuesFrom(s, o, i, later, SpaceEnds(s, i)), "]", "elements")
        \subseteq i + 1..Len(s) + 1
  <2>1. ValuesFrom(s, o, i, later, SpaceEnds(s, i)) \subseteq i + 1..Len(s) + 1
    BY <1>2, ValuesRange, Zenon
  <2> QED BY <1>4, <2>1, ItemsRange, Zenon
<1>6. ItemsBehind(s, i, later, ValuesFrom(s, o, i, later, KeyEnds(s, o, i)), "}", "members")
        \subseteq i + 1..Len(s) + 1
  <2>1. ValuesFrom(s, o, i, later, KeyEnds(s, o, i)) \subseteq i + 1..Len(s) + 1
    BY <1>3, ValuesRange, Zenon
  <2> QED BY <1>4, <2>1, ItemsRange, Zenon
<1> QED BY <1>1, <1>5, <1>6, PhrasesAtIs, Zenon DEF Phrases

-----------------------------------------------------------------------------
\* f has the tables of the places from k on, each made from the next one.
NoPhrases == [value |-> {}, elements |-> {}, members |-> {}]
TablesFrom(f, s, o, k) ==
    f = [i \in k..Len(s) + 1 |->
            IF i = Len(s) + 1 THEN <<NoPhrases>>
            ELSE <<PhrasesAt(s, o, i, f[i + 1])>> \o f[i + 1]]

\* There is such a table for every text: it is made from the end of the text.
LEMMA TablesExist ==
  ASSUME NEW s \in Seq(Char), NEW o
  PROVE  \E f : TablesFrom(f, s, o, 1)
<1> DEFINE n == Len(s) + 1
           T == {k \in Nat : k < n => \E f : TablesFrom(f, s, o, n - k)}
<1>1. n \in Nat /\ n >= 1
  OBVIOUS
<1>2. 0 \in T
  <2> DEFINE f == [i \in n..n |-> <<NoPhrases>>]
  <2>1. TablesFrom(f, s, o, n)
    <3>1. \A i \in n..n : f[i] = IF i = n THEN <<NoPhrases>>
                                 ELSE <<PhrasesAt(s, o, i, f[i + 1])>> \o f[i + 1]
      OBVIOUS
    <3>2. f = [i \in n..n |-> f[i]]
      OBVIOUS
    <3> HIDE DEF f
    <3> QED BY <3>1, <3>2 DEF TablesFrom
  <2> HIDE DEF f
  <2>2. n - 0 = n
    BY <1>1
  <2> QED BY <2>1, <2>2
<1>3. ASSUME NEW k \in Nat, k \in T PROVE k + 1 \in T
  <2> SUFFICES ASSUME k + 1 < n PROVE \E f : TablesFrom(f, s, o, n - (k + 1))
    OBVIOUS
  <2> DEFINE m == n - (k + 1)
  <2>1. m \in Nat /\ m + 1 = n - k /\ m < n /\ k < n
    BY <1>1
  <2>2. PICK f : TablesFrom(f, s, o, m + 1)
    BY <1>3, <2>1
  <2> HIDE DEF m
  <2> DEFINE g == [i \in m..n |-> IF i = m THEN <<PhrasesAt(s, o, m, f[m + 1])>> \o f[m + 1] ELSE f[i]]
  <2>3. \A i \in m + 1..n : g[i] = f[i]
    BY <2>1
  <2>4. \A i \in m..n : g[i] = IF i = n THEN <<NoPhrases>>
                               ELSE <<PhrasesAt(s, o, i, g[i + 1])>> \o g[i + 1]
    <3> TAKE i \in m..n
    <3>1. CASE i = m
      <4>1. g[m + 1] = f[m + 1] /\ i # n /\ i + 1 = m + 1
        BY <1>1, <2>1, <2>3, <3>1
      <4>2. g[i] = <<PhrasesAt(s, o, m, f[m + 1])>> \o f[m + 1]
        BY <3>1
      <4> HIDE DEF g
      <4> QED BY <3>1, <4>1, <4>2, Zenon
    <3>2. CASE i # m
      <4>1. i \in m + 1..n
        BY <1>1, <2>1, <3>2
      <4>2. f[i] = IF i = n THEN <<NoPhrases>>
                   ELSE <<PhrasesAt(s, o, i, f[i + 1])>> \o f[i + 1]
        BY <2>2, <4>1, Zenon DEF TablesFrom
      <4>3. i # n => i + 1 \in m + 1..n
        BY <1>1, <2>1, <4>1
      <4> HIDE DEF g
      <4>4. g[i] = f[i] /\ (i # n => g[i + 1] = f[i + 1])
        BY <2>3, <4>1, <4>3, Zenon
      <4> QED BY <4>2, <4>4, Zenon
    <3> QED BY <3>1, <3>2
  <2>5. g = [i \in m..n |-> g[i]]
    OBVIOUS
  <2> HIDE DEF g
  <2>6. TablesFrom(g, s, o, m)
    BY <2>4, <2>5, Zenon DEF TablesFrom
  <2> QED BY <2>6 DEF m
<1> HIDE DEF T
<1>4. Nat \subseteq T
  BY <1>2, <1>3, Induction
<1>5. Len(s) \in T /\ Len(s) < n /\ n - Len(s) = 1
  BY <1>1, <1>4
<1> QED BY <1>5 DEF T

\* PhraseEnds is the last of those tables.
LEMMA Tables ==
  ASSUME NEW s \in Seq(Char), NEW o
  PROVE  \E f : TablesFrom(f, s, o, 1) /\ PhraseEnds(s, o) = f[1]
<1> DEFINE F == CHOOSE f : f = [i \in 1..Len(s) + 1 |->
                                   IF i = Len(s) + 1 THEN <<[value |-> {}, elements |-> {}, members |-> {}]>>
                                   ELSE <<PhrasesAt(s, o, i, f[i + 1])>> \o f[i + 1]]
<1>1. \E f : f = [i \in 1..Len(s) + 1 |->
                     IF i = Len(s) + 1 THEN <<[value |-> {}, elements |-> {}, members |-> {}]>>
                     ELSE <<PhrasesAt(s, o, i, f[i + 1])>> \o f[i + 1]]
  BY TablesExist, ZenonT(40) DEF TablesFrom, NoPhrases
<1>2. F = [i \in 1..Len(s) + 1 |->
              IF i = Len(s) + 1 THEN <<[value |-> {}, elements |-> {}, members |-> {}]>>
              ELSE <<PhrasesAt(s, o, i, F[i + 1])>> \o F[i + 1]]
  BY <1>1
<1>3. PhraseEnds(s, o) = F[1]
  BY Zenon DEF PhraseEnds
<1> HIDE DEF F
<1>4. TablesFrom(F, s, o, 1)
  BY <1>2, Zenon DEF TablesFrom, NoPhrases
<1> QED BY <1>3, <1>4, Zenon

\* Each table is the phrases of its place before the table of the next one.
LEMMA TableStep ==
  ASSUME NEW s \in Seq(Char), NEW o, NEW f, TablesFrom(f, s, o, 1), NEW i \in 1..Len(s)
  PROVE  f[i] = <<PhrasesAt(s, o, i, f[i + 1])>> \o f[i + 1]
<1>1. i \in 1..Len(s) + 1 /\ i # Len(s) + 1
  OBVIOUS
<1> QED BY <1>1, Zenon DEF TablesFrom

\* Phrases behind i + 1 are phrases behind i.
LEMMA PhrasesCloser ==
  ASSUME NEW s \in Seq(Char), NEW i \in Nat
  PROVE  Seq(Phrases(s, i + 1)) \subseteq Seq(Phrases(s, i))
<1>1. SUBSET ((i + 1) + 1..Len(s) + 1) \subseteq SUBSET (i + 1..Len(s) + 1)
  <2>1. (i + 1) + 1..Len(s) + 1 \subseteq i + 1..Len(s) + 1
    OBVIOUS
  <2> QED BY <2>1, Zenon
<1>2. Phrases(s, i + 1) \subseteq Phrases(s, i)
  BY <1>1 DEF Phrases
<1> QED BY <1>2

\* The table of a place has the phrases of every place from there on.
LEMMA TablesTyped ==
  ASSUME NEW s \in Seq(Char), NEW o, NEW f, TablesFrom(f, s, o, 1)
  PROVE  \A i \in 1..Len(s) + 1 : f[i] \in Seq(Phrases(s, i)) /\ Len(f[i]) = Len(s) + 2 - i
<1> DEFINE n == Len(s) + 1
           T == {k \in Nat : k < n => /\ f[n - k] \in Seq(Phrases(s, n - k))
                                      /\ Len(f[n - k]) = k + 1}
<1>1. n \in Nat /\ n >= 1
  OBVIOUS
<1>2. 0 \in T
  <2>1. f[n] = <<NoPhrases>>
    BY <1>1 DEF TablesFrom
  <2>2. NoPhrases \in Phrases(s, n)
    BY DEF NoPhrases, Phrases
  <2>3. n - 0 = n /\ 0 + 1 = 1
    BY <1>1
  <2>4. f[n] \in Seq(Phrases(s, n)) /\ Len(f[n]) = 1
    BY <2>1, <2>2
  <2> HIDE DEF n
  <2>5. f[n - 0] \in Seq(Phrases(s, n - 0)) /\ Len(f[n - 0]) = 0 + 1
    BY <2>3, <2>4, Zenon
  <2> QED BY <2>5
<1>3. ASSUME NEW k \in Nat, k \in T PROVE k + 1 \in T
  <2> SUFFICES ASSUME k + 1 < n
               PROVE  /\ f[n - (k + 1)] \in Seq(Phrases(s, n - (k + 1)))
                      /\ Len(f[n - (k + 1)]) = (k + 1) + 1
    OBVIOUS
  <2> DEFINE m == n - (k + 1)
  <2>1. /\ m \in Nat /\ m \in 1..Len(s) /\ m + 1 = n - k /\ k < n /\ k + 1 = Len(s) + 1 - m
        /\ m \in 1..Len(s) + 1
    BY <1>1
  <2>2. f[m + 1] \in Seq(Phrases(s, m + 1)) /\ Len(f[m + 1]) = k + 1
    BY <1>3, <2>1
  <2> HIDE DEF m, T
  <2>3. Later(s, m, f[m + 1])
    BY <2>1, <2>2, PhrasesCloser, Zenon DEF Later
  <2>4. PhrasesAt(s, o, m, f[m + 1]) \in Phrases(s, m)
    BY <2>1, <2>3, PhrasesRange, Zenon
  <2>5. f[m] = <<PhrasesAt(s, o, m, f[m + 1])>> \o f[m + 1]
    BY <2>1, TableStep, Zenon
  <2>6. f[m + 1] \in Seq(Phrases(s, m))
    BY <2>3, Zenon DEF Later
  <2>7. f[m] \in Seq(Phrases(s, m)) /\ Len(f[m]) = (k + 1) + 1
    BY <2>2, <2>4, <2>5, <2>6
  <2> QED BY <2>7 DEF m
<1> HIDE DEF T
<1>4. Nat \subseteq T
  BY <1>2, <1>3, Induction
<1> TAKE i \in 1..Len(s) + 1
<1>5. n - i \in T /\ n - i < n /\ n - (n - i) = i /\ (n - i) + 1 = Len(s) + 2 - i
  BY <1>1, <1>4
<1> QED BY <1>5, Zenon DEF T

\* What is put before a sequence moves it one on.
LEMMA MovedOn ==
  ASSUME NEW S, NEW x, NEW u \in Seq(S), NEW q \in 2..Len(u) + 1
  PROVE  (<<x>> \o u)[q] = u[q - 1]
OBVIOUS

\* It is the end of the table of the whole text.
LEMMA TablesShift ==
  ASSUME NEW s \in Seq(Char), NEW o, NEW f, TablesFrom(f, s, o, 1)
  PROVE  \A i \in 1..Len(s) + 1 : \A j \in i..Len(s) + 1 : f[i][j - i + 1] = f[1][j]
<1> DEFINE n == Len(s) + 1
           T == {k \in Nat : k + 1 <= n => \A j \in k + 1..n : f[k + 1][j - k] = f[1][j]}
<1>1. n \in Nat /\ n >= 1
  OBVIOUS
<1>2. 0 \in T
  OBVIOUS
<1>3. ASSUME NEW k \in Nat, k \in T PROVE k + 1 \in T
  <2> SUFFICES ASSUME (k + 1) + 1 <= n, NEW j \in (k + 1) + 1..n
               PROVE  f[(k + 1) + 1][j - (k + 1)] = f[1][j]
    OBVIOUS
  <2> DEFINE i == k + 1
  <2>1. i \in 1..Len(s) /\ i + 1 \in 1..Len(s) + 1 /\ j \in k + 1..n /\ k + 1 <= n /\ i \in Nat
    BY <1>1
  <2>2. f[i][j - k] = f[1][j]
    BY <1>3, <2>1
  <2> HIDE DEF T
  <2>3. f[i] = <<PhrasesAt(s, o, i, f[i + 1])>> \o f[i + 1]
    BY <2>1, TableStep, Zenon
  <2>4. f[i + 1] \in Seq(Phrases(s, i + 1)) /\ Len(f[i + 1]) = Len(s) + 2 - (i + 1)
    BY <2>1, TablesTyped, Zenon
  <2>5. j - k \in 2..Len(f[i + 1]) + 1 /\ (j - k) - 1 = j - (k + 1)
    BY <1>1, <2>4
  <2> HIDE DEF i
  <2>6. f[i][j - k] = f[i + 1][(j - k) - 1]
    <3>1. (<<PhrasesAt(s, o, i, f[i + 1])>> \o f[i + 1])[j - k] = f[i + 1][(j - k) - 1]
      BY <2>4, <2>5, MovedOn
    <3> QED BY <2>3, <3>1, Zenon
  <2> QED BY <2>2, <2>5, <2>6 DEF i
<1> HIDE DEF T
<1>4. Nat \subseteq T
  BY <1>2, <1>3, Induction
<1> TAKE i \in 1..Len(s) + 1
<1>5. i - 1 \in T /\ (i - 1) + 1 = i /\ i <= n
  BY <1>1, <1>4
<1>6. \A j \in i..n : f[i][j - (i - 1)] = f[1][j]
  BY <1>5, Zenon DEF T
<1> TAKE j \in i..Len(s) + 1
<1>7. j - (i - 1) = j - i + 1
  OBVIOUS
<1> QED BY <1>6, <1>7

\* later has the phrases of t that start behind i.
BehindIn(s, t, i, later) == /\ Later(s, i, later)
                            /\ \A j \in i + 1..Len(s) + 1 : later[j - i] = t[j]

\* So each place has its phrases by those of the places behind it.
LEMMA Table ==
  ASSUME NEW s \in Seq(Char), NEW o
  PROVE  \A i \in 1..Len(s) : \E later :
           /\ BehindIn(s, PhraseEnds(s, o), i, later)
           /\ PhraseEnds(s, o)[i] = PhrasesAt(s, o, i, later)
<1>1. PICK f : TablesFrom(f, s, o, 1) /\ PhraseEnds(s, o) = f[1]
  BY Tables, Zenon
<1>0. TablesFrom(f, s, o, 1)
  BY <1>1
<1> TAKE i \in 1..Len(s)
<1>2. i \in 1..Len(s) + 1 /\ i + 1 \in 1..Len(s) + 1 /\ i \in Nat /\ i \in i..Len(s) + 1
      /\ i - i + 1 = 1 /\ Len(s) + 2 - (i + 1) = Len(s) + 1 - i
  OBVIOUS
<1>3. f[i + 1] \in Seq(Phrases(s, i + 1)) /\ Len(f[i + 1]) = Len(s) + 1 - i
  BY <1>0, <1>2, TablesTyped, Zenon
<1>4. Later(s, i, f[i + 1])
  BY <1>2, <1>3, PhrasesCloser, Zenon DEF Later
<1>5. ASSUME NEW j \in i + 1..Len(s) + 1 PROVE f[i + 1][j - i] = f[1][j]
  <2>1. j - (i + 1) + 1 = j - i
    OBVIOUS
  <2>2. f[i + 1][j - (i + 1) + 1] = f[1][j]
    BY <1>0, <1>2, TablesShift
  <2> QED BY <2>1, <2>2
<1>6. f[i][1] = f[1][i]
  <2>1. f[i][i - i + 1] = f[1][i]
    BY <1>0, <1>2, TablesShift
  <2> QED BY <1>2, <2>1, Zenon
<1>7. f[i] = <<PhrasesAt(s, o, i, f[i + 1])>> \o f[i + 1]
  BY <1>0, TableStep, Zenon
<1>8. f[i][1] = PhrasesAt(s, o, i, f[i + 1])
  BY <1>3, <1>7
<1> QED BY <1>1, <1>4, <1>5, <1>6, <1>8, Zenon DEF BehindIn

-----------------------------------------------------------------------------
\* White space, by the characters.
LEMMA SpaceIs ==
  ASSUME NEW s \in Seq(Char), NEW i \in 1..Len(s) + 1, NEW j \in i..Len(s) + 1
  PROVE  j \in SpaceEnds(s, i) <=> \A k \in i..j - 1 : s[k] \in White
<1>1. Len(s) \in Nat /\ i \in Int /\ j \in Int /\ j - 1 \in Int
  BY LenProperties
<1>2. \A k \in i..j - 1 : s[k] \in Char
  BY <1>1, ElementOfSeq
<1>3. /\ Len(SubSeq(s, i, j - 1)) = IF i <= j - 1 THEN (j - 1) - i + 1 ELSE 0
      /\ \A k \in 1..(j - 1) - i + 1 : SubSeq(s, i, j - 1)[k] = s[i + k - 1]
  BY <1>1, <1>2, SubSeqProperties
<1>4. Len(SubSeq(s, i, j - 1)) = j - i /\ (j - 1) - i + 1 = j - i
  BY <1>1, <1>3
<1>5. AllIn(SubSeq(s, i, j - 1), White) <=> \A k \in 1..j - i : s[i + k - 1] \in White
  BY <1>3, <1>4 DEF AllIn
<1>6. (\A k \in 1..j - i : s[i + k - 1] \in White) <=> \A k \in i..j - 1 : s[k] \in White
  <2>1. ASSUME \A k \in 1..j - i : s[i + k - 1] \in White, NEW k \in i..j - 1
        PROVE  s[k] \in White
    <3>1. k - i + 1 \in 1..j - i /\ i + (k - i + 1) - 1 = k
      BY <1>1
    <3>2. s[i + (k - i + 1) - 1] \in White
      BY <2>1, <3>1, Zenon
    <3> QED BY <3>1, <3>2, Zenon
  <2>2. ASSUME \A k \in i..j - 1 : s[k] \in White, NEW k \in 1..j - i
        PROVE  s[i + k - 1] \in White
    <3>1. i + k - 1 \in i..j - 1
      BY <1>1
    <3> QED BY <2>2, <3>1, Zenon
  <2> QED BY <2>1, <2>2
<1> QED BY <1>5, <1>6, Zenon DEF SpaceEnds

\* There may be no white space at all.
LEMMA SpaceHere ==
  ASSUME NEW s \in Seq(Char), NEW i \in 1..Len(s) + 1
  PROVE  i \in SpaceEnds(s, i)
<1>1. i \in i..Len(s) + 1 /\ i..i - 1 = {}
  OBVIOUS
<1> QED BY <1>1, SpaceIs, Zenon

\* White space behind white space is white space.
LEMMA SpaceJoins ==
  ASSUME NEW s \in Seq(Char), NEW i \in 1..Len(s) + 1, NEW j \in SpaceEnds(s, i),
         NEW k \in SpaceEnds(s, j)
  PROVE  k \in SpaceEnds(s, i)
<1>1. j \in i..Len(s) + 1 /\ k \in j..Len(s) + 1
  BY SpaceRange, Zenon
<1>2. j \in 1..Len(s) + 1 /\ k \in i..Len(s) + 1
  BY <1>1
<1>3. (\A l \in i..j - 1 : s[l] \in White) /\ (\A l \in j..k - 1 : s[l] \in White)
  BY <1>1, <1>2, SpaceIs, Zenon
<1>4. \A l \in i..k - 1 : l \in i..j - 1 \/ l \in j..k - 1
  BY <1>1
<1>5. \A l \in i..k - 1 : s[l] \in White
  BY <1>3, <1>4, Zenon
<1> QED BY <1>2, <1>5, SpaceIs, Zenon

-----------------------------------------------------------------------------
\* What the grammar says of a phrase, one rule after the other.
Rfc == [allowComments |-> FALSE, validateUTF8 |-> TRUE]
Ends(s, i, phrase) == IF i \in 1..Len(s) THEN PhraseEnds(s, Rfc)[i][phrase] ELSE {}
Stands(s, i, ch) == i \in 1..Len(s) /\ s[i] = ch

\* At i, behind an item or the bracket, what is left of a container may end
\* at e.
LeftBehind(s, i, e, closing, phrase) ==
    \E k \in SpaceEnds(s, i) :
       \/ Stands(s, k, closing) /\ e = k + 1
       \/ Stands(s, k, ",") /\ \E m \in SpaceEnds(s, k + 1) : e \in Ends(s, m, phrase)
First(s, i, e, closing, phrase) ==
    \E k \in SpaceEnds(s, i) :
       \/ Stands(s, k, closing) /\ e = k + 1
       \/ e \in Ends(s, k, phrase)

\* What a place behind i has, the rules find in the table.
LEMMA Found ==
  ASSUME NEW s \in Seq(Char), NEW i \in 1..Len(s),
         NEW later, BehindIn(s, PhraseEnds(s, Rfc), i, later)
  PROVE  /\ Later(s, i, later)
         /\ \A P, p, phrase, e : p \in P /\ p \in i + 1..Len(s) + 1 /\ e \in Ends(s, p, phrase)
              => e \in Rests(later, i, P, phrase)
<1>1. ASSUME NEW P, NEW p, NEW phrase, NEW e,
             p \in P, p \in i + 1..Len(s) + 1, e \in Ends(s, p, phrase)
      PROVE  e \in Rests(later, i, P, phrase)
  <2>1. e \in PhraseEnds(s, Rfc)[p][phrase]
    BY <1>1, Zenon DEF Ends
  <2>2. later[p - i] = PhraseEnds(s, Rfc)[p]
    BY <1>1, Zenon DEF BehindIn
  <2> QED BY <1>1, <2>1, <2>2, Zenon DEF Rests
<1> QED BY <1>1, Zenon DEF BehindIn

\* Phrases have an end behind their beginning.
LEMMA EndsRange ==
  ASSUME NEW s \in Seq(Char), NEW i, NEW phrase \in PhraseNames, NEW e \in Ends(s, i, phrase)
  PROVE  i \in 1..Len(s) /\ e \in i + 1..Len(s) + 1
<1>1. i \in 1..Len(s)
  BY Zenon DEF Ends
<1>2. PICK later : /\ BehindIn(s, PhraseEnds(s, Rfc), i, later)
                   /\ PhraseEnds(s, Rfc)[i] = PhrasesAt(s, Rfc, i, later)
  BY <1>1, Table, Zenon
<1>3. i \in 1..Len(s) + 1 /\ Later(s, i, later)
  BY <1>1, <1>2 DEF BehindIn
<1>4. PhraseEnds(s, Rfc)[i] \in Phrases(s, i)
  BY <1>2, <1>3, PhrasesRange, Zenon
<1>5. PhraseEnds(s, Rfc)[i][phrase] \subseteq i + 1..Len(s) + 1
  BY <1>4 DEF Phrases, PhraseNames
<1> QED BY <1>1, <1>5, Zenon DEF Ends

\* The members of Spaced and Past, one by one.
LEMMA SpacedHas ==
  ASSUME NEW s, NEW P, NEW p \in P, NEW k \in SpaceEnds(s, p)
  PROVE  k \in Spaced(s, P)
BY Zenon DEF Spaced

LEMMA PastHas ==
  ASSUME NEW s \in Seq(Char), NEW P, NEW p \in P, NEW ch, Stands(s, p, ch)
  PROVE  p + 1 \in Past(s, P, ch)
<1>1. p <= Len(s) /\ s[p] = ch
  BY DEF Stands
<1> QED BY <1>1, Zenon DEF Past

\* A scalar is a value.
LEMMA ScalarRule ==
  ASSUME NEW s \in Seq(Char), NEW i \in 1..Len(s), NEW e \in ScalarEnds(s, i, Rfc)
  PROVE  e \in Ends(s, i, "value")
<1>1. PICK later : PhraseEnds(s, Rfc)[i] = PhrasesAt(s, Rfc, i, later)
  BY Table, Zenon
<1>2. e \in ValueEnds(s, Rfc, i, later)
  BY Zenon DEF ValueEnds
<1>3. PhraseEnds(s, Rfc)[i]["value"] = ValueEnds(s, Rfc, i, later)
  BY <1>1, PhrasesAre, Zenon
<1> QED BY <1>2, <1>3, Zenon DEF Ends

\* A character stands before the end of the text.
LEMMA Within ==
  ASSUME NEW s \in Seq(Char), NEW i \in 1..Len(s)
  PROVE  i \in 1..Len(s) + 1 /\ i + 1 \in 1..Len(s) + 1
OBVIOUS

\* A container, of either kind.
LEMMA ContainerRule ==
  ASSUME NEW s \in Seq(Char), NEW i, NEW e,
         NEW opening, NEW closing, NEW phrase, Stands(s, i, opening),
         \/ opening = "[" /\ closing = "]" /\ phrase = "elements"
         \/ opening = "{" /\ closing = "}" /\ phrase = "members",
         First(s, i + 1, e, closing, phrase)
  PROVE  e \in Ends(s, i, "value")
<1>0. i \in 1..Len(s)
  BY Zenon DEF Stands
<1>1. i \in 1..Len(s) /\ i \in 1..Len(s) + 1
  BY <1>0, Within, Zenon
<1>2. PICK later : /\ BehindIn(s, PhraseEnds(s, Rfc), i, later)
                   /\ PhraseEnds(s, Rfc)[i] = PhrasesAt(s, Rfc, i, later)
  BY <1>1, Table, Zenon
<1>3. PhraseEnds(s, Rfc)[i]["value"] = ValueEnds(s, Rfc, i, later)
  BY <1>2, PhrasesAre, Zenon
<1>4. PICK k \in SpaceEnds(s, i + 1) : \/ Stands(s, k, closing) /\ e = k + 1
                                       \/ e \in Ends(s, k, phrase)
  BY Zenon DEF First
<1>5. k \in Spaced(s, Past(s, {i}, opening))
  <2>1. i + 1 \in Past(s, {i}, opening)
    BY PastHas, Zenon
  <2> QED BY <2>1, SpacedHas, Zenon
<1>6. k \in i + 1..Len(s) + 1
  BY <1>1, <1>2, <1>5, ValueRange, Zenon DEF BehindIn
<1>7. \/ e \in Past(s, Spaced(s, Past(s, {i}, opening)), closing)
      \/ e \in Rests(later, i, Spaced(s, Past(s, {i}, opening)), phrase)
  <2>1. CASE Stands(s, k, closing) /\ e = k + 1
    BY <1>5, <2>1, PastHas, Zenon
  <2>2. CASE e \in Ends(s, k, phrase)
    BY <1>1, <1>2, <1>5, <1>6, <2>2, Found, Zenon
  <2> QED BY <1>4, <2>1, <2>2, Zenon
<1>8. e \in ValueEnds(s, Rfc, i, later)
  BY <1>7, Zenon DEF ValueEnds
<1> QED BY <1>1, <1>3, <1>8, Zenon DEF Ends

\* An item and what is left behind it.
LEMMA ItemsRule ==
  ASSUME NEW s \in Seq(Char), NEW i \in 1..Len(s),
         NEW later, BehindIn(s, PhraseEnds(s, Rfc), i, later),
         NEW P, P \subseteq i + 1..Len(s) + 1, NEW p \in P,
         NEW closing, NEW phrase \in PhraseNames, NEW e, LeftBehind(s, p, e, closing, phrase)
  PROVE  e \in ItemsBehind(s, i, later, P, closing, phrase)
<1>1. PICK k \in SpaceEnds(s, p) :
           \/ Stands(s, k, closing) /\ e = k + 1
           \/ Stands(s, k, ",") /\ \E m \in SpaceEnds(s, k + 1) : e \in Ends(s, m, phrase)
  BY Zenon DEF LeftBehind
<1>2. k \in Spaced(s, P)
  BY SpacedHas, Zenon
<1>3. CASE Stands(s, k, closing) /\ e = k + 1
  <2>1. e \in Past(s, Spaced(s, P), closing)
    BY <1>2, <1>3, PastHas, Zenon
  <2> QED BY <2>1, Zenon DEF ItemsBehind
<1>4. CASE Stands(s, k, ",") /\ \E m \in SpaceEnds(s, k + 1) : e \in Ends(s, m, phrase)
  <2>1. PICK m \in SpaceEnds(s, k + 1) : e \in Ends(s, m, phrase)
    BY <1>4
  <2>2. k + 1 \in Past(s, Spaced(s, P), ",")
    BY <1>2, <1>4, PastHas, Zenon
  <2>3. m \in Spaced(s, Past(s, Spaced(s, P), ","))
    BY <2>1, <2>2, SpacedHas, Zenon
  <2>4. i \in 1..Len(s) + 1 /\ Later(s, i, later)
    BY DEF BehindIn
  <2>5. m \in i + 1..Len(s) + 1
    BY <2>3, <2>4, ItemsRange, Zenon
  <2>6. e \in Rests(later, i, Spaced(s, Past(s, Spaced(s, P), ",")), phrase)
    BY <2>1, <2>3, <2>5, Found, Zenon
  <2> QED BY <2>6, Zenon DEF ItemsBehind
<1> QED BY <1>1, <1>3, <1>4, Zenon

\* A value that starts at a place of P.
LEMMA ValuesHave ==
  ASSUME NEW s \in Seq(Char), NEW i \in 1..Len(s),
         NEW later, BehindIn(s, PhraseEnds(s, Rfc), i, later),
         PhraseEnds(s, Rfc)[i] = PhrasesAt(s, Rfc, i, later),
         NEW P, P \subseteq i..Len(s) + 1, NEW p \in P, NEW l \in Ends(s, p, "value")
  PROVE  l \in ValuesFrom(s, Rfc, i, later, P)
<1>1. CASE p = i
  <2>1. l \in PhraseEnds(s, Rfc)[i]["value"]
    BY <1>1, Zenon DEF Ends
  <2>2. PhraseEnds(s, Rfc)[i]["value"] = ValueEnds(s, Rfc, i, later)
    BY PhrasesAre, Zenon
  <2> QED BY <1>1, <2>1, <2>2, Zenon DEF ValuesFrom
<1>2. CASE p # i
  <2>1. p \in P \ {i} /\ p \in i + 1..Len(s) + 1
    BY <1>2
  <2>2. l \in Rests(later, i, P \ {i}, "value")
    BY <2>1, Found, Zenon
  <2> QED BY <2>2, Zenon DEF ValuesFrom
<1> QED BY <1>1, <1>2

\* An element, behind white space, and what is left behind it.
LEMMA ElementRule ==
  ASSUME NEW s \in Seq(Char), NEW i \in 1..Len(s) + 1, NEW k \in SpaceEnds(s, i),
         NEW l \in Ends(s, k, "value"), NEW e, LeftBehind(s, l, e, "]", "elements")
  PROVE  e \in Ends(s, i, "elements")
<1>0. "value" \in PhraseNames /\ "elements" \in PhraseNames
  BY DEF PhraseNames
<1>1. i \in 1..Len(s) /\ SpaceEnds(s, i) \subseteq i..Len(s) + 1
  <2>1. k \in 1..Len(s) /\ k \in i..Len(s) + 1
    BY <1>0, EndsRange, SpaceRange, Zenon
  <2> QED BY <2>1, SpaceRange
<1>2. PICK later : /\ BehindIn(s, PhraseEnds(s, Rfc), i, later)
                   /\ PhraseEnds(s, Rfc)[i] = PhrasesAt(s, Rfc, i, later)
  BY <1>1, Table, Zenon
<1> DEFINE P == ValuesFrom(s, Rfc, i, later, SpaceEnds(s, i))
<1>3. l \in P
  BY <1>1, <1>2, ValuesHave, Zenon
<1>4. P \subseteq i + 1..Len(s) + 1
  BY <1>1, <1>2, ValuesRange, Zenon DEF BehindIn
<1>5. PhraseEnds(s, Rfc)[i]["elements"] = ItemsBehind(s, i, later, P, "]", "elements")
  BY <1>2, PhrasesAre, Zenon
<1> HIDE DEF P
<1>6. e \in ItemsBehind(s, i, later, P, "]", "elements")
  BY <1>0, <1>1, <1>2, <1>3, <1>4, ItemsRule, Zenon
<1> QED BY <1>1, <1>5, <1>6, Zenon DEF Ends

\* What is left of a member behind its key: a colon, a value and what follows.
ValueRest(s, i, e) ==
    \E k \in SpaceEnds(s, i) :
       Stands(s, k, ":") /\ \E m \in SpaceEnds(s, k + 1) : \E l \in Ends(s, m, "value") :
                               LeftBehind(s, l, e, "}", "members")

\* A member: its key and what is left behind that.
LEMMA MemberRule ==
  ASSUME NEW s \in Seq(Char), NEW i \in 1..Len(s), NEW c \in StringEnds(s, i, Rfc),
         NEW e, ValueRest(s, c, e)
  PROVE  e \in Ends(s, i, "members")
<1>0. "value" \in PhraseNames /\ "members" \in PhraseNames /\ i \in 1..Len(s) + 1
  BY DEF PhraseNames
<1>9. PICK k \in SpaceEnds(s, c) :
           Stands(s, k, ":") /\ \E m \in SpaceEnds(s, k + 1) : \E l \in Ends(s, m, "value") :
                                   LeftBehind(s, l, e, "}", "members")
  BY Zenon DEF ValueRest
<1>10. PICK m \in SpaceEnds(s, k + 1) :
           \E l \in Ends(s, m, "value") : LeftBehind(s, l, e, "}", "members")
  BY <1>9
<1>11. PICK l \in Ends(s, m, "value") : LeftBehind(s, l, e, "}", "members")
  BY <1>10
<1>1. Stands(s, k, ":") /\ LeftBehind(s, l, e, "}", "members")
  BY <1>9, <1>11
<1>2. PICK later : /\ BehindIn(s, PhraseEnds(s, Rfc), i, later)
                   /\ PhraseEnds(s, Rfc)[i] = PhrasesAt(s, Rfc, i, later)
  BY Table, Zenon
<1>3. m \in KeyEnds(s, Rfc, i)
  <2>1. k \in Spaced(s, StringEnds(s, i, Rfc))
    BY SpacedHas, Zenon
  <2>2. k + 1 \in Past(s, Spaced(s, StringEnds(s, i, Rfc)), ":")
    BY <1>1, <2>1, PastHas, Zenon
  <2> QED BY <2>2, SpacedHas, Zenon DEF KeyEnds
<1> DEFINE P == ValuesFrom(s, Rfc, i, later, KeyEnds(s, Rfc, i))
<1>4. KeyEnds(s, Rfc, i) \subseteq i..Len(s) + 1
  <2>1. KeyEnds(s, Rfc, i) \subseteq i + 1..Len(s) + 1
    BY <1>0, KeyRange, Zenon
  <2>2. i + 1..Len(s) + 1 \subseteq i..Len(s) + 1
    OBVIOUS
  <2> QED BY <2>1, <2>2, Zenon
<1>5. l \in P
  BY <1>2, <1>3, <1>4, ValuesHave, Zenon
<1>6. P \subseteq i + 1..Len(s) + 1
  BY <1>0, <1>2, <1>4, ValuesRange, Zenon DEF BehindIn
<1>7. PhraseEnds(s, Rfc)[i]["members"] = ItemsBehind(s, i, later, P, "}", "members")
  BY <1>2, PhrasesAre, Zenon
<1> HIDE DEF P
<1>8. e \in ItemsBehind(s, i, later, P, "}", "members")
  BY <1>0, <1>1, <1>2, <1>5, <1>6, ItemsRule, Zenon
<1> QED BY <1>7, <1>8, Zenon DEF Ends

-----------------------------------------------------------------------------
\* What is left of the container that the generator is in the state st of, or
\* of the whole text, may stand from i to e.
Rest(s, st, i, e) ==
    CASE st = "start"       -> \E k \in SpaceEnds(s, i) : \E l \in Ends(s, k, "value") : e \in SpaceEnds(s, l)
      [] st = "complete"    -> e \in SpaceEnds(s, i)
      [] st = "map_start"   -> First(s, i, e, "}", "members")
      [] st = "map_key"     -> LeftBehind(s, i, e, "}", "members")
      [] st = "map_val"     -> ValueRest(s, i, e)
      [] st = "array_start" -> First(s, i, e, "]", "elements")
      [] st = "in_array"    -> LeftBehind(s, i, e, "]", "elements")
      [] OTHER              -> FALSE
Places == {"start", "complete", "map_start", "map_key", "map_val", "array_start", "in_array"}

\* The cases of Rest, one by one.
LEMMA RestIs ==
  ASSUME NEW s, NEW i, NEW e
  PROVE  /\ Rest(s, "start", i, e) <=>
              \E k \in SpaceEnds(s, i) : \E l \in Ends(s, k, "value") : e \in SpaceEnds(s, l)
         /\ Rest(s, "complete", i, e) <=> e \in SpaceEnds(s, i)
         /\ Rest(s, "map_start", i, e) <=> First(s, i, e, "}", "members")
         /\ Rest(s, "map_key", i, e) <=> LeftBehind(s, i, e, "}", "members")
         /\ Rest(s, "map_val", i, e) <=> ValueRest(s, i, e)
         /\ Rest(s, "array_start", i, e) <=> First(s, i, e, "]", "elements")
         /\ Rest(s, "in_array", i, e) <=> LeftBehind(s, i, e, "]", "elements")
<1>1. /\ "complete" # "start" /\ "map_start" \notin {"start", "complete"}
      /\ "map_key" \notin {"start", "complete", "map_start"}
      /\ "map_val" \notin {"start", "complete", "map_start", "map_key"}
      /\ "array_start" \notin {"start", "complete", "map_start", "map_key", "map_val"}
      /\ "in_array" \notin {"start", "complete", "map_start", "map_key", "map_val", "array_start"}
  OBVIOUS
<1> QED BY Zenon DEF Rest

\* White space before what is left belongs to it.
LEMMA RestSpaced ==
  ASSUME NEW s \in Seq(Char), NEW i \in 1..Len(s) + 1, NEW j \in SpaceEnds(s, i),
         NEW st \in Places, NEW e, Rest(s, st, j, e)
  PROVE  Rest(s, st, i, e)
<1>1. \A k \in SpaceEnds(s, j) : k \in SpaceEnds(s, i)
  BY SpaceJoins, Zenon
<1>2. \A closing, phrase : LeftBehind(s, j, e, closing, phrase) => LeftBehind(s, i, e, closing, phrase)
  BY <1>1, Zenon DEF LeftBehind
<1>3. \A closing, phrase : First(s, j, e, closing, phrase) => First(s, i, e, closing, phrase)
  BY <1>1, Zenon DEF First
<1>4. ValueRest(s, j, e) => ValueRest(s, i, e)
  BY <1>1, Zenon DEF ValueRest
<1>5. st \in {"start", "complete", "map_start", "map_key", "map_val", "array_start", "in_array"}
  BY DEF Places
<1>6. CASE st = "start"
  BY <1>1, <1>6, RestIs, Zenon
<1>7. CASE st = "complete"
  BY <1>1, <1>7, RestIs, Zenon
<1>8. CASE st = "map_val"
  BY <1>4, <1>8, RestIs, Zenon
<1>9. CASE st \in {"map_start", "array_start"}
  BY <1>3, <1>9, RestIs, Zenon
<1>10. CASE st \in {"map_key", "in_array"}
  BY <1>2, <1>10, RestIs, Zenon
<1> QED BY <1>5, <1>6, <1>7, <1>8, <1>9, <1>10, Zenon

\* From i to k stands what the generator puts before an item in the state st.
LeadTo(s, st, i, k) ==
    CASE st \in {"map_key", "in_array"} -> Stands(s, i, ",") /\ k \in SpaceEnds(s, i + 1)
      [] st = "map_val"                 -> Stands(s, i, ":") /\ k \in SpaceEnds(s, i + 1)
      [] OTHER                          -> k \in SpaceEnds(s, i)
\* From k to l stands such an item: a key, or a value.
Item(s, st, k, l) ==
    IF st \in {"map_start", "map_key"} THEN l \in StringEnds(s, k, Rfc) ELSE l \in Ends(s, k, "value")

\* The cases of LeadTo, one by one.
LEMMA LeadIs ==
  ASSUME NEW s, NEW i, NEW k
  PROVE  /\ \A st \in {"map_key", "in_array"} :
              LeadTo(s, st, i, k) <=> Stands(s, i, ",") /\ k \in SpaceEnds(s, i + 1)
         /\ LeadTo(s, "map_val", i, k) <=> Stands(s, i, ":") /\ k \in SpaceEnds(s, i + 1)
         /\ \A st \in {"start", "map_start", "array_start"} : LeadTo(s, st, i, k) <=> k \in SpaceEnds(s, i)
<1>1. /\ "map_val" \notin {"map_key", "in_array"}
      /\ \A st \in {"start", "map_start", "array_start"} : st \notin {"map_key", "in_array", "map_val"}
  OBVIOUS
<1> QED BY <1>1, Zenon DEF LeadTo

\* APPENDED_ATOM, state by state.
LEMMA AfterAtomIs ==
  /\ AfterAtom["start"] = "complete" /\ AfterAtom["map_start"] = "map_val"
  /\ AfterAtom["map_key"] = "map_val" /\ AfterAtom["array_start"] = "in_array"
  /\ AfterAtom["in_array"] = "in_array" /\ AfterAtom["map_val"] = "map_key"
BY DEF AfterAtom, GenStates

\* An item, and what may stand behind it, are what may stand before it.
LEMMA ItemStep ==
  ASSUME NEW s \in Seq(Char), NEW st \in Places \ {"complete"}, NEW i \in 1..Len(s) + 1, NEW k, NEW l,
         NEW e, LeadTo(s, st, i, k), Item(s, st, k, l), Rest(s, AfterAtom[st], l, e)
  PROVE  Rest(s, st, i, e)
<1>1. st \in {"start", "map_start", "map_key", "map_val", "array_start", "in_array"}
  BY DEF Places
<1>2. i \in SpaceEnds(s, i)
  BY SpaceHere, Zenon
<1>3. ASSUME NEW a \in 1..Len(s) + 1, k \in SpaceEnds(s, a), l \in StringEnds(s, k, Rfc)
      PROVE  k \in 1..Len(s)
  <2>1. k \in a..Len(s) + 1
    BY <1>3, SpaceRange, Zenon
  <2>2. l \in k + 1..Len(s) + 1
    BY <1>3, Zenon DEF StringEnds
  <2> QED BY <2>1, <2>2
<1>4. \A ch : Stands(s, i, ch) => i + 1 \in 1..Len(s) + 1
  BY Within, Zenon DEF Stands
<1>5. CASE st = "start"
  <2>1. k \in SpaceEnds(s, i) /\ l \in Ends(s, k, "value") /\ e \in SpaceEnds(s, l)
    <3>1. st \notin {"map_start", "map_key"} /\ st \in {"start", "map_start", "array_start"}
      BY <1>5
    <3> QED BY <1>5, <3>1, AfterAtomIs, LeadIs, RestIs, Zenon DEF Item
  <2> QED BY <1>5, <2>1, RestIs, Zenon
<1>6. CASE st = "map_start"
  <2>1. k \in SpaceEnds(s, i) /\ l \in StringEnds(s, k, Rfc) /\ ValueRest(s, l, e)
    BY <1>6, AfterAtomIs, LeadIs, RestIs, Zenon DEF Item
  <2>2. e \in Ends(s, k, "members")
    BY <1>3, <2>1, MemberRule, Zenon
  <2>3. First(s, i, e, "}", "members")
    BY <2>1, <2>2, Zenon DEF First
  <2> QED BY <1>6, <2>3, RestIs, Zenon
<1>7. CASE st = "map_key"
  <2>1. Stands(s, i, ",") /\ k \in SpaceEnds(s, i + 1) /\ l \in StringEnds(s, k, Rfc) /\ ValueRest(s, l, e)
    BY <1>7, AfterAtomIs, LeadIs, RestIs, Zenon DEF Item
  <2>2. e \in Ends(s, k, "members")
    BY <1>3, <1>4, <2>1, MemberRule, Zenon
  <2>3. LeftBehind(s, i, e, "}", "members")
    BY <1>2, <2>1, <2>2, Zenon DEF LeftBehind
  <2> QED BY <1>7, <2>3, RestIs, Zenon
<1>8. CASE st = "map_val"
  <2>1. Stands(s, i, ":") /\ k \in SpaceEnds(s, i + 1) /\ l \in Ends(s, k, "value")
        /\ LeftBehind(s, l, e, "}", "members")
    <3>1. st \notin {"map_start", "map_key"}
      BY <1>8
    <3> QED BY <1>8, <3>1, AfterAtomIs, LeadIs, RestIs, Zenon DEF Item
  <2>2. ValueRest(s, i, e)
    BY <1>2, <2>1, Zenon DEF ValueRest
  <2> QED BY <1>8, <2>2, RestIs, Zenon
<1>9. CASE st = "array_start"
  <2>1. k \in SpaceEnds(s, i) /\ l \in Ends(s, k, "value") /\ LeftBehind(s, l, e, "]", "elements")
    <3>1. st \notin {"map_start", "map_key"}
      BY <1>9
    <3> QED BY <1>9, <3>1, AfterAtomIs, LeadIs, RestIs, Zenon DEF Item
  <2>2. e \in Ends(s, i, "elements")
    BY <2>1, ElementRule, Zenon
  <2>3. First(s, i, e, "]", "elements")
    BY <1>2, <2>2, Zenon DEF First
  <2> QED BY <1>9, <2>3, RestIs, Zenon
<1>10. CASE st = "in_array"
  <2>1. Stands(s, i, ",") /\ k \in SpaceEnds(s, i + 1) /\ l \in Ends(s, k, "value")
        /\ LeftBehind(s, l, e, "]", "elements")
    <3>1. st \notin {"map_start", "map_key"}
      BY <1>10
    <3> QED BY <1>10, <3>1, AfterAtomIs, LeadIs, RestIs, Zenon DEF Item
  <2>2. e \in Ends(s, i + 1, "elements") /\ i + 1 \in SpaceEnds(s, i + 1)
    BY <1>4, <2>1, ElementRule, SpaceHere, Zenon
  <2>3. LeftBehind(s, i, e, "]", "elements")
    BY <1>2, <2>1, <2>2, Zenon DEF LeftBehind
  <2> QED BY <1>10, <2>3, RestIs, Zenon
<1> QED BY <1>1, <1>5, <1>6, <1>7, <1>8, <1>9, <1>10, Zenon

\* A container that is open may end.
Brackets == [key |-> "}", value |-> "}", elem |-> "]"]
Openings == [key |-> "{", value |-> "{", elem |-> "["]

LEMMA CloseRule ==
  ASSUME NEW s \in Seq(Char), NEW f \in {"key", "elem"}, NEW st \in StateOf[f],
         NEW i, NEW k \in SpaceEnds(s, i), Stands(s, k, Brackets[f])
  PROVE  Rest(s, st, i, k + 1)
<1>1. CASE f = "key"
  <2>1. st \in {"map_start", "map_key"} /\ Stands(s, k, "}")
    BY <1>1 DEF StateOf, Brackets
  <2>2. First(s, i, k + 1, "}", "members") /\ LeftBehind(s, i, k + 1, "}", "members")
    BY <2>1, Zenon DEF First, LeftBehind
  <2> QED BY <2>1, <2>2, RestIs, Zenon
<1>2. CASE f = "elem"
  <2>1. st \in {"array_start", "in_array"} /\ Stands(s, k, "]")
    BY <1>2 DEF StateOf, Brackets
  <2>2. First(s, i, k + 1, "]", "elements") /\ LeftBehind(s, i, k + 1, "]", "elements")
    BY <2>1, Zenon DEF First, LeftBehind
  <2> QED BY <2>1, <2>2, RestIs, Zenon
<1> QED BY <1>1, <1>2, Zenon

\* A container that is opened is a value.
LEMMA OpenRule ==
  ASSUME NEW s \in Seq(Char), NEW i, NEW j \in SpaceEnds(s, i + 1), NEW e,
         \/ Stands(s, i, "{") /\ Rest(s, "map_start", j, e)
         \/ Stands(s, i, "[") /\ Rest(s, "array_start", j, e)
  PROVE  e \in Ends(s, i, "value")
<1>0. i \in 1..Len(s)
  BY Zenon DEF Stands
<1>1. i + 1 \in 1..Len(s) + 1
  BY <1>0, Within, Zenon
<1>2. "map_start" \in Places /\ "array_start" \in Places
  BY DEF Places
<1>3. CASE Stands(s, i, "{") /\ Rest(s, "map_start", j, e)
  <2>1. First(s, i + 1, e, "}", "members")
    BY <1>1, <1>2, <1>3, RestSpaced, RestIs, Zenon
  <2> QED BY <1>3, <2>1, ContainerRule, Zenon
<1>4. CASE Stands(s, i, "[") /\ Rest(s, "array_start", j, e)
  <2>1. First(s, i + 1, e, "]", "elements")
    BY <1>1, <1>2, <1>4, RestSpaced, RestIs, Zenon
  <2> QED BY <1>4, <2>1, ContainerRule, Zenon
<1> QED BY <1>3, <1>4, Zenon

\* A text with nothing printed yet.
LEMMA WholeRule ==
  ASSUME NEW s \in Seq(Char), Rest(s, "start", 1, Len(s) + 1)
  PROVE  IsDocument(s, Rfc)
<1>1. PICK k \in SpaceEnds(s, 1) : \E l \in Ends(s, k, "value") : Len(s) + 1 \in SpaceEnds(s, l)
  BY RestIs, Zenon
<1>2. PICK l \in Ends(s, k, "value") : Len(s) + 1 \in SpaceEnds(s, l)
  BY <1>1
<1>3. l \in PhraseEnds(s, Rfc)[k].value
  BY Zenon DEF Ends
<1>4. l \in DocumentEnds(s, Rfc)
  BY <1>3, Zenon DEF DocumentEnds
<1> QED BY <1>2, <1>4, SpacedHas, Zenon DEF IsDocument

-----------------------------------------------------------------------------
\* From place i of s stands w.
Has(s, i, w) == /\ i \in 1..Len(s) + 1 /\ i + Len(w) \in 1..Len(s) + 1
                /\ \A m \in 1..Len(w) : s[i + m - 1] = w[m]

\* Texts behind each other, by their characters.
LEMMA TextJoins ==
  ASSUME NEW v \in Seq(Char), NEW w \in Seq(Char)
  PROVE  /\ v \o w \in Seq(Char) /\ Len(v \o w) = Len(v) + Len(w)
         /\ \A k \in 1..Len(v) + Len(w) : (v \o w)[k] = IF k <= Len(v) THEN v[k] ELSE w[k - Len(v)]
BY ConcatProperties

LEMMA TextShifts ==
  ASSUME NEW a \in Seq(Char), NEW w \in Seq(Char), NEW u \in Seq(Char)
  PROVE  (a \o w) \o u = a \o (w \o u)
BY ConcatAssociative

\* A text between two others stands behind the first.
LEMMA HasWhole ==
  ASSUME NEW a \in Seq(Char), NEW w \in Seq(Char), NEW u \in Seq(Char)
  PROVE  /\ (a \o w) \o u = a \o (w \o u) /\ (a \o w) \o u \in Seq(Char)
         /\ Has((a \o w) \o u, Len(a) + 1, w)
         /\ Len(a \o w) + 1 = Len(a) + 1 + Len(w)
<1>1. Len(a) \in Nat /\ Len(w) \in Nat /\ Len(u) \in Nat
  BY LenProperties
<1>2. /\ a \o w \in Seq(Char) /\ Len(a \o w) = Len(a) + Len(w)
      /\ \A k \in 1..Len(a) + Len(w) : (a \o w)[k] = IF k <= Len(a) THEN a[k] ELSE w[k - Len(a)]
  BY TextJoins, Zenon
<1>3. /\ (a \o w) \o u \in Seq(Char) /\ Len((a \o w) \o u) = Len(a) + Len(w) + Len(u)
      /\ \A k \in 1..Len(a) + Len(w) : ((a \o w) \o u)[k] = (a \o w)[k]
  <2> DEFINE b == a \o w
  <2>1. b \in Seq(Char) /\ Len(b) = Len(a) + Len(w)
    BY <1>2
  <2> HIDE DEF b
  <2>2. /\ b \o u \in Seq(Char) /\ Len(b \o u) = Len(b) + Len(u)
        /\ \A k \in 1..Len(b) + Len(u) : (b \o u)[k] = IF k <= Len(b) THEN b[k] ELSE u[k - Len(b)]
    <3>1. b \in Seq(Char)
      BY <2>1
    <3> QED BY <3>1, TextJoins, Zenon
  <2>3. \A k \in 1..Len(b) : (b \o u)[k] = b[k]
    BY <1>1, <2>1, <2>2
  <2> QED BY <2>1, <2>2, <2>3 DEF b
<1>4. (a \o w) \o u = a \o (w \o u)
  BY TextShifts, Zenon
<1>5. \A m \in 1..Len(w) : ((a \o w) \o u)[Len(a) + 1 + m - 1] = w[m]
  <2> TAKE m \in 1..Len(w)
  <2>1. /\ Len(a) + 1 + m - 1 = Len(a) + m /\ Len(a) + m \in 1..Len(a) + Len(w)
        /\ ~(Len(a) + m <= Len(a)) /\ (Len(a) + m) - Len(a) = m
    BY <1>1
  <2>2. ((a \o w) \o u)[Len(a) + m] = (a \o w)[Len(a) + m]
    BY <1>3, <2>1, Zenon
  <2>3. (a \o w)[Len(a) + m] = w[(Len(a) + m) - Len(a)]
    BY <1>2, <2>1, Zenon
  <2> QED BY <2>1, <2>2, <2>3, Zenon
<1>6. Len(a) + 1 \in 1..Len((a \o w) \o u) + 1 /\ Len(a) + 1 + Len(w) \in 1..Len((a \o w) \o u) + 1
      /\ Len(a \o w) + 1 = Len(a) + 1 + Len(w)
  <2>1. Len((a \o w) \o u) = Len(a) + Len(w) + Len(u) /\ Len(a \o w) = Len(a) + Len(w)
    BY <1>2, <1>3, Zenon
  <2> HIDE <1>2, <1>3, <1>4
  <2> QED BY <1>1, <2>1
<1> QED BY <1>3, <1>4, <1>5, <1>6, Zenon DEF Has

\* v stands at i, and w behind it.
Parted(s, i, v, w) == /\ Has(s, i, v) /\ Has(s, i + Len(v), w)
                      /\ i + Len(v \o w) = i + Len(v) + Len(w)

\* Of two texts that stand behind each other each stands in its place.
LEMMA HasBoth ==
  ASSUME NEW s \in Seq(Char), NEW i, NEW v \in Seq(Char), NEW w \in Seq(Char), Has(s, i, v \o w)
  PROVE  Parted(s, i, v, w)
<1>1. Len(v) \in Nat /\ Len(w) \in Nat /\ Len(s) \in Nat /\ i \in 1..Len(s) + 1
  BY LenProperties DEF Has
<1>2. /\ Len(v \o w) = Len(v) + Len(w)
      /\ \A k \in 1..Len(v) + Len(w) : (v \o w)[k] = IF k <= Len(v) THEN v[k] ELSE w[k - Len(v)]
  BY TextJoins, Zenon
<1>3. /\ i + (Len(v) + Len(w)) \in 1..Len(s) + 1
      /\ \A m \in 1..Len(v) + Len(w) : s[i + m - 1] = (v \o w)[m]
  BY <1>2, Zenon DEF Has
<1>4. Has(s, i, v)
  <2>1. ASSUME NEW m \in 1..Len(v) PROVE s[i + m - 1] = v[m]
    <3>1. m \in 1..Len(v) + Len(w) /\ m <= Len(v)
      BY <1>1
    <3> QED BY <1>2, <1>3, <3>1, Zenon
  <2>2. i + Len(v) \in 1..Len(s) + 1
    BY <1>1, <1>3
  <2> QED BY <1>1, <2>1, <2>2, Zenon DEF Has
<1>5. Has(s, i + Len(v), w)
  <2>1. ASSUME NEW m \in 1..Len(w) PROVE s[i + Len(v) + m - 1] = w[m]
    <3>1. /\ Len(v) + m \in 1..Len(v) + Len(w) /\ ~(Len(v) + m <= Len(v)) /\ (Len(v) + m) - Len(v) = m
          /\ i + (Len(v) + m) - 1 = i + Len(v) + m - 1
      BY <1>1
    <3>2. s[i + (Len(v) + m) - 1] = (v \o w)[Len(v) + m]
      BY <1>3, <3>1, Zenon
    <3>3. (v \o w)[Len(v) + m] = w[(Len(v) + m) - Len(v)]
      BY <1>2, <3>1, Zenon
    <3> QED BY <3>1, <3>2, <3>3, Zenon
  <2>2. i + Len(v) \in 1..Len(s) + 1 /\ i + Len(v) + Len(w) \in 1..Len(s) + 1
    BY <1>1, <1>3
  <2> QED BY <2>1, <2>2, Zenon DEF Has
<1>6. i + Len(v \o w) = i + Len(v) + Len(w)
  <2>1. i + (Len(v) + Len(w)) = i + Len(v) + Len(w)
    BY <1>1
  <2>2. Len(v \o w) = Len(v) + Len(w)
    BY <1>2
  <2> QED BY <2>1, <2>2, Zenon
<1> QED BY <1>4, <1>5, <1>6, Zenon DEF Parted

\* White space that stands at i, one character, a part of the text, a scalar, a string.
LEMMA HasWhite ==
  ASSUME NEW s \in Seq(Char), NEW i, NEW w \in Seq(White), Has(s, i, w)
  PROVE  i + Len(w) \in SpaceEnds(s, i)
<1>1. Len(w) \in Nat /\ i \in 1..Len(s) + 1 /\ Len(s) \in Nat /\ i + Len(w) \in 1..Len(s) + 1
  BY LenProperties DEF Has
<1>2. i + Len(w) \in i..Len(s) + 1
  BY <1>1
<1>3. ASSUME NEW k \in i..i + Len(w) - 1 PROVE s[k] \in White
  <2>1. k - i + 1 \in 1..Len(w) /\ i + (k - i + 1) - 1 = k
    BY <1>1
  <2>2. s[i + (k - i + 1) - 1] = w[k - i + 1]
    BY <2>1, Zenon DEF Has
  <2>3. w[k - i + 1] \in White
    BY <2>1, ElementOfSeq, Zenon
  <2> QED BY <2>1, <2>2, <2>3, Zenon
<1>4. i \in 1..Len(s) + 1
  BY <1>1
<1>5. \A k \in i..i + Len(w) - 1 : s[k] \in White
  BY <1>3
<1>6. i + Len(w) \in SpaceEnds(s, i) <=> \A k \in i..i + Len(w) - 1 : s[k] \in White
  BY <1>2, <1>4, SpaceIs
<1> QED BY <1>5, <1>6

LEMMA HasOne ==
  ASSUME NEW s \in Seq(Char), NEW i, NEW c, Has(s, i, <<c>>)
  PROVE  Stands(s, i, c) /\ i + Len(<<c>>) = i + 1
<1>1. Len(<<c>>) = 1 /\ <<c>>[1] = c /\ 1 \in 1..1
  OBVIOUS
<1>2. i \in 1..Len(s) + 1 /\ i + 1 \in 1..Len(s) + 1 /\ s[i + 1 - 1] = c
  BY <1>1, Zenon DEF Has
<1>3. i \in 1..Len(s) /\ i + 1 - 1 = i
  BY <1>2, LenProperties
<1> QED BY <1>1, <1>2, <1>3, Zenon DEF Stands

LEMMA HasPart ==
  ASSUME NEW s \in Seq(Char), NEW i, NEW w \in Seq(Char), Has(s, i, w), w # <<>>
  PROVE  /\ i \in 1..Len(s) /\ i + Len(w) \in i + 1..Len(s) + 1
         /\ SubSeq(s, i, (i + Len(w)) - 1) = w
<1>1. Len(w) \in Nat /\ Len(w) > 0 /\ Len(s) \in Nat
  BY LenProperties, EmptySeq
<1>2. i \in 1..Len(s) + 1 /\ i + Len(w) \in 1..Len(s) + 1
  BY Zenon DEF Has
<1>3. /\ i \in 1..Len(s) /\ i + Len(w) \in i + 1..Len(s) + 1
      /\ i \in Int /\ (i + Len(w)) - 1 \in Int /\ ((i + Len(w)) - 1) - i + 1 = Len(w) /\ i <= (i + Len(w)) - 1
      /\ i..(i + Len(w)) - 1 \subseteq 1..Len(s)
  BY <1>1, <1>2
<1>4. \A k \in i..(i + Len(w)) - 1 : s[k] \in Char
  BY <1>3, ElementOfSeq
<1>5. /\ SubSeq(s, i, (i + Len(w)) - 1) \in Seq(Char)
      /\ Len(SubSeq(s, i, (i + Len(w)) - 1)) = Len(w)
      /\ \A k \in 1..Len(w) : SubSeq(s, i, (i + Len(w)) - 1)[k] = s[i + k - 1]
  BY <1>3, <1>4, SubSeqProperties
<1>6. \A k \in 1..Len(w) : SubSeq(s, i, (i + Len(w)) - 1)[k] = w[k]
  BY <1>5, Zenon DEF Has
<1>7. SubSeq(s, i, (i + Len(w)) - 1) = w
  <2> DEFINE p == SubSeq(s, i, (i + Len(w)) - 1)
  <2>1. p \in Seq(Char) /\ Len(p) = Len(w) /\ \A k \in 1..Len(w) : p[k] = w[k]
    BY <1>5, <1>6
  <2> HIDE DEF p
  <2>2. p = w
    BY <2>1, SeqEqual
  <2> QED BY <2>2 DEF p
<1> QED BY <1>3, <1>7

LEMMA HasScalar ==
  ASSUME NEW s \in Seq(Char), NEW i, NEW w \in Seq(Char), w # <<>>, Has(s, i, w), IsScalar(w, Rfc)
  PROVE  i + Len(w) \in Ends(s, i, "value")
<1>1. /\ i \in 1..Len(s) /\ i + Len(w) \in i + 1..Len(s) + 1
      /\ SubSeq(s, i, (i + Len(w)) - 1) = w
  BY HasPart, Zenon
<1>3. IsScalar(SubSeq(s, i, (i + Len(w)) - 1), Rfc)
  BY <1>1
<1>2. i + Len(w) \in ScalarEnds(s, i, Rfc)
  BY <1>1, <1>3 DEF ScalarEnds
<1> QED BY <1>1, <1>2, ScalarRule, Zenon

LEMMA HasString ==
  ASSUME NEW s \in Seq(Char), NEW i, NEW w \in Seq(Char), w # <<>>, Has(s, i, w), IsString(w, Rfc)
  PROVE  i + Len(w) \in StringEnds(s, i, Rfc)
<1> DEFINE e == i + Len(w)
<1>1. e \in i + 1..Len(s) + 1 /\ SubSeq(s, i, e - 1) = w
  BY HasPart, Zenon
<1> HIDE DEF e
<1>2. IsString(SubSeq(s, i, e - 1), Rfc)
  BY <1>1
<1>3. e \in StringEnds(s, i, Rfc)
  BY <1>1, <1>2, Zenon DEF StringEnds
<1> QED BY <1>3 DEF e

-----------------------------------------------------------------------------
\* Behind i stand the rests of the n outermost containers, which are in the
\* states h, and nothing else.
Chain(s, h, n, i) ==
    \E x : /\ x[0] = Len(s) + 1 /\ x[n] = i
           /\ \A k \in 0..n - 1 : Rest(s, AfterAtom[h[k]], x[k + 1], x[k])
\* At i a generator of d open containers, in the states h, has printed what
\* can be completed to s.
Accepted(s, h, d, i) == \E e : Rest(s, h[d], i, e) /\ Chain(s, h, d, e)

\* Behind a document nothing is left.
LEMMA ChainEnd ==
  ASSUME NEW s \in Seq(Char), NEW h
  PROVE  Chain(s, h, 0, Len(s) + 1)
<1> DEFINE x == [k \in {0} |-> Len(s) + 1]
<1>1. x[0] = Len(s) + 1 /\ 0..0 - 1 = {}
  OBVIOUS
<1> HIDE DEF x
<1> QED BY <1>1, Zenon DEF Chain

\* One container more is open, or one less.
LEMMA ChainGrows ==
  ASSUME NEW s \in Seq(Char), NEW h, NEW n \in Nat, NEW i, NEW e,
         Rest(s, AfterAtom[h[n]], i, e), Chain(s, h, n, e)
  PROVE  Chain(s, h, n + 1, i)
<1>1. PICK x : /\ x[0] = Len(s) + 1 /\ x[n] = e
               /\ \A k \in 0..n - 1 : Rest(s, AfterAtom[h[k]], x[k + 1], x[k])
  BY Zenon DEF Chain
<1> DEFINE y == [k \in 0..n + 1 |-> IF k = n + 1 THEN i ELSE x[k]]
<1>2. y[n + 1] = i /\ \A k \in 0..n : y[k] = x[k]
  OBVIOUS
<1>3. 0 \in 0..n /\ n \in 0..n /\ (n + 1) - 1 = n
  OBVIOUS
<1> HIDE DEF y
<1>4. y[0] = Len(s) + 1 /\ y[n] = e
  BY <1>1, <1>2, <1>3, Zenon
<1>5. ASSUME NEW k \in 0..n PROVE Rest(s, AfterAtom[h[k]], y[k + 1], y[k])
  <2>1. CASE k = n
    BY <1>2, <1>4, <2>1, Zenon
  <2>2. CASE k # n
    <3>1. k \in 0..n - 1 /\ k + 1 \in 0..n
      BY <2>2
    <3> QED BY <1>1, <1>2, <3>1, Zenon
  <2> QED BY <2>1, <2>2
<1> QED BY <1>2, <1>3, <1>4, <1>5, Zenon DEF Chain

LEMMA ChainShrinks ==
  ASSUME NEW s, NEW h, NEW n \in Nat, NEW i, Chain(s, h, n + 1, i)
  PROVE  \E e : Rest(s, AfterAtom[h[n]], i, e) /\ Chain(s, h, n, e)
<1>1. PICK x : /\ x[0] = Len(s) + 1 /\ x[n + 1] = i
               /\ \A k \in 0..(n + 1) - 1 : Rest(s, AfterAtom[h[k]], x[k + 1], x[k])
  BY Zenon DEF Chain
<1>2. n \in 0..(n + 1) - 1 /\ \A k \in 0..n - 1 : k \in 0..(n + 1) - 1
  OBVIOUS
<1>3. Rest(s, AfterAtom[h[n]], i, x[n])
  BY <1>1, <1>2, Zenon
<1>4. Chain(s, h, n, x[n])
  BY <1>1, <1>2, Zenon DEF Chain
<1> QED BY <1>3, <1>4, Zenon

\* A chain depends on the states of its containers only.
LEMMA ChainSame ==
  ASSUME NEW s, NEW h, NEW g, NEW n, NEW i, Chain(s, h, n, i),
         \A k \in 0..n - 1 : g[k] = h[k]
  PROVE  Chain(s, g, n, i)
BY Zenon DEF Chain

-----------------------------------------------------------------------------
\* What a generator prints between the items.
LEMMA WhiteText == Seq(White) \subseteq Seq(Char)
<1>1. White \subseteq Char
  BY Zenon DEF Char
<1> QED BY <1>1

\* Newlines and indents are white space.
LEMMA NewlineWhite == Newline \in Seq(White) /\ \A st : Final(st) \in Seq(White)
<1>1. "\n" \in White
  BY DEF White
<1>2. <<"\n">> \in Seq(White) /\ <<>> \in Seq(White)
  BY <1>1
<1> QED BY <1>2, Zenon DEF Newline, Final

LEMMA IndentWhite ==
  ASSUME indentString \in Seq(White), NEW d \in Nat, NEW st
  PROVE  Indent(d, st) \in Seq(White)
<1> DEFINE n == Len(indentString)
           w == [i \in 1..d * n |-> indentString[((i - 1) % n) + 1]]
<1>1. n \in Nat /\ d * n \in Nat
  OBVIOUS
<1>2. \A i \in 1..n : indentString[i] \in White
  OBVIOUS
<1>3. ASSUME NEW i \in 1..d * n PROVE indentString[((i - 1) % n) + 1] \in White
  <2>1. n > 0
    <3>1. n = 0 => d * n = 0
      BY <1>1
    <3> HIDE DEF n
    <3> QED BY <1>1, <1>3, <3>1
  <2> DEFINE m == i - 1
  <2>2. m \in Nat
    BY <1>1
  <2> HIDE DEF n, m
  <2>3. m % n \in 0..n - 1
    BY <1>1, <2>1, <2>2
  <2>4. (m % n) + 1 \in 1..n
    BY <1>1, <2>3
  <2> QED BY <1>2, <2>4 DEF m
<1>4. w \in [1..d * n -> White]
  BY <1>3
<1>5. w \in Seq(White)
  <2> HIDE DEF w
  <2> DEFINE k == d * n
  <2>1. k \in Nat /\ w \in [1..k -> White]
    BY <1>1, <1>4
  <2> HIDE DEF k
  <2> QED BY <2>1, SeqDef
<1>6. <<>> \in Seq(White)
  OBVIOUS
<1> QED BY <1>5, <1>6, Zenon DEF Indent

LEMMA WhiteJoins ==
  ASSUME NEW v \in Seq(White), NEW w \in Seq(White)
  PROVE  v \o w \in Seq(White)
OBVIOUS

\* A sequence of one.
LEMMA Single ==
  ASSUME NEW S, NEW c \in S
  PROVE  <<c>> \in Seq(S) /\ <<>> \in Seq(S)
OBVIOUS

\* A separator with white space behind it.
LEMMA HasLead ==
  ASSUME NEW s \in Seq(Char), NEW i, NEW c \in Char, NEW w \in Seq(White), NEW t, t = <<c>> \o w,
         Has(s, i, t)
  PROVE  t \in Seq(Char) /\ Stands(s, i, c) /\ i + Len(t) \in SpaceEnds(s, i + 1)
<1> DEFINE v == <<c>>
<1>1. v \in Seq(Char) /\ w \in Seq(Char)
  BY WhiteText
<1>2. Has(s, i, v \o w)
  OBVIOUS
<1>3. Has(s, i, v) => Stands(s, i, c) /\ i + Len(v) = i + 1
  BY HasOne
<1> HIDE DEF v
<1>4. /\ Has(s, i, v) /\ Has(s, i + Len(v), w)
      /\ i + Len(v \o w) = i + Len(v) + Len(w)
  <2>1. Parted(s, i, v, w)
    BY <1>1, <1>2, HasBoth, Zenon
  <2> QED BY <2>1, Zenon DEF Parted
<1>5. i + Len(v) + Len(w) \in SpaceEnds(s, i + Len(v))
  BY <1>4, HasWhite, Zenon
<1>6. v \o w \in Seq(Char)
  BY <1>1, TextJoins, Zenon
<1> QED BY <1>3, <1>4, <1>5, <1>6 DEF v

\* The text of Lead.
LEMMA LeadIsText ==
  ASSUME indentString \in Seq(White), depth \in Nat
  PROVE  /\ Lead \in Seq(Char)
         /\ \A s \in Seq(Char) : \A i :
               Has(s, i, Lead) => LeadTo(s, here, i, i + Len(Lead)) /\ i \in 1..Len(s) + 1
<1>1. Newline \in Seq(White) /\ Indent(depth, here) \in Seq(White)
  BY NewlineWhite, IndentWhite
<1> DEFINE white == Newline \o Indent(depth, here)
           spaced == (IF Beautify THEN <<" ">> ELSE <<>>) \o Indent(depth, here)
<1>2. white \in Seq(White) /\ white \in Seq(Char)
  BY <1>1, WhiteJoins, WhiteText
<1>3. spaced \in Seq(White) /\ spaced \in Seq(Char)
  <2>1. " " \in White
    BY DEF White
  <2>2. <<" ">> \in Seq(White) /\ <<>> \in Seq(White)
    BY <2>1, Single, Zenon
  <2>3. (IF Beautify THEN <<" ">> ELSE <<>>) \in Seq(White)
    BY <2>2, Zenon
  <2> QED BY <1>1, <2>3, WhiteJoins, WhiteText
<1>4. "," \in Char /\ ":" \in Char /\ <<",">> \in Seq(Char) /\ <<":">> \in Seq(Char)
  <2>1. "," \in Char /\ ":" \in Char
    BY DEF Char, Punctuation
  <2> QED BY <2>1, Single, Zenon
<1>5. CASE here \in {"map_key", "in_array"}
  <2>1. Lead = (<<",">> \o Newline) \o Indent(depth, here)
    BY <1>5, Zenon DEF Lead, Separator
  <2>2. Lead = <<",">> \o white
    BY <1>1, <1>4, <2>1, WhiteText, TextShifts
  <2> HIDE DEF white, spaced
  <2>3. Lead \in Seq(Char)
    BY <1>2, <1>4, <2>2, TextJoins
  <2>4. ASSUME NEW s \in Seq(Char), NEW i, Has(s, i, Lead)
        PROVE  LeadTo(s, here, i, i + Len(Lead))
    <3>1. Stands(s, i, ",") /\ i + Len(Lead) \in SpaceEnds(s, i + 1)
      BY <1>2, <1>4, <2>2, <2>4, HasLead, Zenon
    <3> QED BY <1>5, <3>1, LeadIs, Zenon
  <2> QED BY <2>3, <2>4, Zenon DEF Has
<1>6. CASE here = "map_val"
  <2>1. Lead = (<<":">> \o (IF Beautify THEN <<" ">> ELSE <<>>)) \o Indent(depth, here)
    <3>1. here \notin {"map_key", "in_array"}
      BY <1>6
    <3> QED BY <1>6, <3>1, Zenon DEF Lead, Separator
  <2>2. Lead = <<":">> \o spaced
    <3> DEFINE blank == IF Beautify THEN <<" ">> ELSE <<>>
    <3>1. blank \in Seq(Char) /\ Indent(depth, here) \in Seq(Char)
      <4>1. " " \in Char
        BY DEF Char, White
      <4>2. <<" ">> \in Seq(Char) /\ <<>> \in Seq(Char)
        BY <4>1, Single, Zenon
      <4> QED BY <1>1, <4>2, WhiteText, Zenon
    <3> HIDE DEF blank
    <3>2. (<<":">> \o blank) \o Indent(depth, here) = <<":">> \o (blank \o Indent(depth, here))
      BY <1>4, <3>1, TextShifts
    <3> QED BY <2>1, <3>2, Zenon DEF blank
  <2> HIDE DEF white, spaced
  <2>3. Lead \in Seq(Char)
    BY <1>3, <1>4, <2>2, TextJoins
  <2>4. ASSUME NEW s \in Seq(Char), NEW i, Has(s, i, Lead)
        PROVE  LeadTo(s, here, i, i + Len(Lead))
    <3>1. Stands(s, i, ":") /\ i + Len(Lead) \in SpaceEnds(s, i + 1)
      BY <1>3, <1>4, <2>2, <2>4, HasLead, Zenon
    <3> QED BY <1>6, <3>1, LeadIs, Zenon
  <2> QED BY <2>3, <2>4, Zenon DEF Has
<1>7. CASE here \notin {"map_key", "in_array", "map_val"}
  <2>1. Lead = <<>> \o Indent(depth, here)
    BY <1>7, Zenon DEF Lead, Separator
  <2>2. Lead = Indent(depth, here)
    BY <1>1, <2>1
  <2>3. Lead \in Seq(White) /\ Lead \in Seq(Char)
    BY <1>1, <2>2, WhiteText
  <2>4. ASSUME NEW s \in Seq(Char), NEW i, Has(s, i, Lead)
        PROVE  LeadTo(s, here, i, i + Len(Lead))
    <3>1. i + Len(Lead) \in SpaceEnds(s, i)
      BY <2>3, <2>4, HasWhite, Zenon
    <3> QED BY <1>7, <3>1, Zenon DEF LeadTo
  <2> QED BY <2>3, <2>4, Zenon DEF Has
<1> QED BY <1>5, <1>6, <1>7, Zenon

-----------------------------------------------------------------------------
\* The containers that are open can be gone on with.
LEMMA NestedPlaces ==
  ASSUME NEW fs, NEW whole \in BOOLEAN, Nested(fs, whole)
  PROVE  /\ \A k \in 0..depth : state[k] \in Places /\ AfterAtom[state[k]] \in Places
         /\ ~whole => here \in Places \ {"complete"}
         /\ depth \in Nat
<1>1. /\ depth \in Levels /\ depth \in Nat /\ here \in GenStates /\ depth = Len(fs)
      /\ here = "complete" <=> whole
  BY Placed
<1>2. \A st \in Places : AfterAtom[st] \in Places
  BY DEF AfterAtom, Places, GenStates
<1>3. ASSUME NEW k \in 0..depth PROVE state[k] \in Places
  <2>1. CASE k = 0
    <3>1. state[0] = IF whole THEN "complete" ELSE "start"
      BY DEF Nested
    <3> QED BY <2>1, <3>1 DEF Places
  <2>2. CASE k \in 1..depth
    <3>1. fs[k] \in Kinds /\ state[k] \in IF k = depth THEN StateOf[fs[k]] ELSE WaitingOf[fs[k]]
      BY <1>1, <2>2 DEF Nested
    <3> QED BY <3>1 DEF Kinds, StateOf, WaitingOf, Places
  <2> QED BY <1>1, <2>1, <2>2
<1>4. here \in Places
  <2>1. depth \in 0..depth
    BY <1>1
  <2> QED BY <1>3, <2>1, Zenon DEF here
<1> QED BY <1>1, <1>2, <1>3, <1>4, Zenon

\* The state of one container changes, that of those around it does not.
LEMMA ChainKept ==
  ASSUME NEW s, NEW n \in Nat, NEW m \in Nat, n <= m, NEW v, NEW i,
         state \in [Levels -> GenStates], MaxDepth \in Nat, n <= MaxDepth,
         state' = [state EXCEPT ![m] = v]
  PROVE  Chain(s, state', n, i) <=> Chain(s, state, n, i)
<1>1. \A k \in 0..n - 1 : state'[k] = state[k]
  BY DEF Levels
<1>2. \A k \in 0..n - 1 : state[k] = state'[k]
  BY <1>1
<1> QED BY <1>1, <1>2, ChainSame, Zenon

\* A scalar, or a string where there has to be a key.
ItemText(text) == /\ text \in Seq(Char) /\ text # <<>>
                  /\ IF NeedsKey THEN IsString(text, Rfc) ELSE IsScalar(text, Rfc)

\* Such a text is the item that the generator's state wants.
LEMMA HasItem ==
  ASSUME NEW fs, Nested(fs, FALSE), NEW text, ItemText(text),
         NEW s \in Seq(Char), NEW i, Has(s, i, text)
  PROVE  Item(s, here, i, i + Len(text))
<1>1. text \in Seq(Char) /\ text # <<>>
  BY DEF ItemText
<1>2. CASE NeedsKey
  <2>1. IsString(text, Rfc) /\ here \in {"map_start", "map_key"}
    BY <1>2, Zenon DEF ItemText, NeedsKey
  <2>2. i + Len(text) \in StringEnds(s, i, Rfc)
    BY <1>1, <2>1, HasString, Zenon
  <2> QED BY <2>1, <2>2, Zenon DEF Item
<1>3. CASE ~NeedsKey
  <2>1. IsScalar(text, Rfc) /\ here \notin {"map_start", "map_key"}
    BY <1>3, Zenon DEF ItemText, NeedsKey
  <2>2. i + Len(text) \in Ends(s, i, "value")
    BY <1>1, <2>1, HasScalar, Zenon
  <2> QED BY <2>1, <2>2, Zenon DEF Item
<1> QED BY <1>2, <1>3

Spacing == indentString \in Seq(White)

\* Emit: what can stand behind the item can stand behind what was before.
LEMMA EmitAccepts ==
  ASSUME NEW fs, Nested(fs, FALSE), Spacing, NEW text, ItemText(text),
         depth' = depth, state' = [state EXCEPT ![depth] = AfterAtom[@]],
         NEW s \in Seq(Char), NEW i, NEW w, w = Lead \o text \o Final(AfterAtom[here]),
         Has(s, i, w), Accepted(s, state', depth', i + Len(w))
  PROVE  w \in Seq(Char) /\ Accepted(s, state, depth, i)
<1> USE GenMaxDepthAssumption
<1>1. /\ depth \in Levels /\ depth \in Nat /\ here \in Places \ {"complete"}
      /\ AfterAtom[here] \in Places /\ state \in [Levels -> GenStates]
  <2>1. depth \in Levels /\ depth \in Nat
    BY Placed, Zenon
  <2>2. depth \in 0..depth
    BY <2>1
  <2> QED BY <2>1, <2>2, NestedPlaces, Zenon DEF here, Nested
<1>2. Lead \in Seq(Char) /\ text \in Seq(Char) /\ Final(AfterAtom[here]) \in Seq(White)
      /\ Final(AfterAtom[here]) \in Seq(Char)
  BY <1>1, LeadIsText, NewlineWhite, WhiteText, Zenon DEF ItemText, Spacing
<1> DEFINE final == Final(AfterAtom[here])
           before == Lead \o text
           k == i + Len(Lead)
           l == k + Len(text)
<1>3. before \in Seq(Char) /\ w = before \o final /\ w \in Seq(Char)
  BY <1>2, TextJoins
<1> HIDE DEF final, before
<1>4. Parted(s, i, before, final)
  BY <1>2, <1>3, HasBoth, Zenon DEF final
<1>5. Has(s, i, before) /\ Has(s, i + Len(before), final) /\ i + Len(w) = i + Len(before) + Len(final)
  BY <1>3, <1>4, Zenon DEF Parted
<1>6. Parted(s, i, Lead, text)
  BY <1>2, <1>5, HasBoth, Zenon DEF before
<1>7. Has(s, i, Lead) /\ Has(s, k, text) /\ i + Len(before) = l
  BY <1>6, Zenon DEF Parted, before
<1> HIDE DEF k, l
<1>8. LeadTo(s, here, i, k) /\ i \in 1..Len(s) + 1
  BY <1>1, <1>7, LeadIsText, Zenon DEF k, Spacing
<1>9. Item(s, here, k, l)
  BY <1>7, HasItem, Zenon DEF l
<1>10. Has(s, l, final) /\ i + Len(w) = l + Len(final)
  BY <1>5, <1>7
<1>11. l + Len(final) \in SpaceEnds(s, l) /\ l \in 1..Len(s) + 1
  BY <1>2, <1>10, HasWhite, Zenon DEF final, Has
<1>12. PICK e : Rest(s, state'[depth'], i + Len(w), e) /\ Chain(s, state', depth', e)
  BY Zenon DEF Accepted
<1>13. state'[depth'] = AfterAtom[here]
  BY <1>1 DEF here
<1>14. Rest(s, AfterAtom[here], l + Len(final), e)
  BY <1>10, <1>12, <1>13
<1>15. Rest(s, AfterAtom[here], l, e)
  BY <1>1, <1>11, <1>14, RestSpaced, Zenon
<1>16. Rest(s, here, i, e)
  BY <1>1, <1>8, <1>9, <1>15, ItemStep, Zenon
<1>17. Chain(s, state, depth, e)
  <2>1. Chain(s, state', depth, e) /\ depth <= depth /\ depth <= MaxDepth
    BY <1>1, <1>12 DEF Levels
  <2> QED BY <1>1, <2>1, ChainKept, Zenon
<1> QED BY <1>3, <1>16, <1>17, Zenon DEF Accepted, here

\* One level more, in the array.
LEMMA OneDeeper ==
  ASSUME NEW d \in Levels, d + 1 < MaxDepth
  PROVE  /\ d + 1 \in Levels /\ d # d + 1 /\ d <= d + 1 /\ d + 1 \in Nat /\ d <= MaxDepth
BY GenMaxDepthAssumption DEF Levels

\* gen_open: the container is a value, of which nothing is printed yet.
LEMMA OpenAccepts ==
  ASSUME NEW fs, Nested(fs, FALSE), Spacing, ~NeedsKey, NEW bracket, NEW opened,
         \/ bracket = "{" /\ opened = "map_start"
         \/ bracket = "[" /\ opened = "array_start",
         depth' = depth + 1, depth' < MaxDepth, state' = [state EXCEPT ![depth'] = opened],
         NEW s \in Seq(Char), NEW i, NEW w, w = Lead \o <<bracket>> \o Newline,
         Has(s, i, w), Accepted(s, state', depth', i + Len(w))
  PROVE  w \in Seq(Char) /\ Accepted(s, state, depth, i)
<1> USE GenMaxDepthAssumption
<1>1. /\ depth \in Levels /\ depth \in Nat /\ here \in Places \ {"complete"}
      /\ here \notin {"map_start", "map_key"} /\ state \in [Levels -> GenStates]
  BY Placed, NestedPlaces, Zenon DEF Nested, NeedsKey
<1>2. Lead \in Seq(Char) /\ Newline \in Seq(White) /\ Newline \in Seq(Char) /\ <<bracket>> \in Seq(Char)
  <2>1. bracket \in Char
    BY Zenon DEF Char, Punctuation
  <2> QED BY <1>1, <2>1, Single, LeadIsText, NewlineWhite, WhiteText, Zenon DEF Spacing
<1> DEFINE before == Lead \o <<bracket>>
           k == i + Len(Lead)
<1>3. before \in Seq(Char) /\ w = before \o Newline /\ w \in Seq(Char)
  BY <1>2, TextJoins
<1> HIDE DEF before
<1>4. Parted(s, i, before, Newline)
  BY <1>2, <1>3, HasBoth, Zenon
<1>5. Has(s, i, before) /\ Has(s, i + Len(before), Newline) /\ i + Len(w) = i + Len(before) + Len(Newline)
  BY <1>3, <1>4, Zenon DEF Parted
<1>6. Parted(s, i, Lead, <<bracket>>)
  BY <1>2, <1>5, HasBoth, Zenon DEF before
<1>7. Has(s, i, Lead) /\ Has(s, k, <<bracket>>) /\ i + Len(before) = k + Len(<<bracket>>)
  BY <1>6, Zenon DEF Parted, before
<1> HIDE DEF k
<1>8. LeadTo(s, here, i, k) /\ i \in 1..Len(s) + 1
  BY <1>1, <1>7, LeadIsText, Zenon DEF k, Spacing
<1>9. Stands(s, k, bracket) /\ k + Len(<<bracket>>) = k + 1
  BY <1>7, HasOne, Zenon
<1>10. Has(s, k + 1, Newline) /\ i + Len(w) = k + 1 + Len(Newline)
  BY <1>5, <1>7, <1>9
<1>11. k + 1 + Len(Newline) \in SpaceEnds(s, k + 1)
  BY <1>2, <1>10, HasWhite, Zenon
<1>12. PICK c : Rest(s, state'[depth'], i + Len(w), c) /\ Chain(s, state', depth', c)
  BY Zenon DEF Accepted
<1>13. state'[depth'] = opened /\ state'[depth] = here
  <2>1. depth' \in Levels /\ depth # depth'
    BY <1>1, OneDeeper, Zenon
  <2> QED BY <1>1, <2>1, Zenon DEF here
<1>14. Rest(s, opened, k + 1 + Len(Newline), c)
  BY <1>10, <1>12, <1>13
<1>15. c \in Ends(s, k, "value")
  BY <1>9, <1>11, <1>14, OpenRule, Zenon
<1>16. PICK e : Rest(s, AfterAtom[state'[depth]], c, e) /\ Chain(s, state', depth, e)
  BY <1>1, <1>12, ChainShrinks, Zenon
<1>17. Rest(s, here, i, e)
  <2>1. Item(s, here, k, c)
    BY <1>1, <1>15, Zenon DEF Item
  <2>2. Rest(s, AfterAtom[here], c, e)
    BY <1>13, <1>16
  <2> QED BY <1>1, <1>8, <2>1, <2>2, ItemStep, Zenon
<1>18. Chain(s, state, depth, e)
  <2>1. depth <= depth' /\ depth' \in Nat /\ depth <= MaxDepth
    BY <1>1, OneDeeper, Zenon
  <2> QED BY <1>1, <1>16, <2>1, ChainKept, Zenon
<1> QED BY <1>3, <1>17, <1>18, Zenon DEF Accepted, here

\* Brackets are punctuation.
LEMMA BracketsAre == \A f \in {"key", "elem"} : Brackets[f] \in Punctuation
<1>1. Brackets["key"] = "}" /\ Brackets["elem"] = "]"
  BY DEF Brackets
<1> QED BY <1>1, Zenon DEF Punctuation

\* gen_close: the container ends, and those around it go on.
LEMMA CloseAccepts ==
  ASSUME NEW fs, Nested(fs, FALSE), Spacing, NEW f \in {"key", "elem"}, fs # <<>>, fs[Len(fs)] = f,
         depth' = depth - 1, NEW closed, closed = AfterAtom[state[depth']],
         state' = [state EXCEPT ![depth'] = closed],
         NEW s \in Seq(Char), NEW i, NEW w,
         w = Newline \o Indent(depth', closed) \o <<Brackets[f]>> \o Final(closed),
         Has(s, i, w), Accepted(s, state', depth', i + Len(w))
  PROVE  w \in Seq(Char) /\ Accepted(s, state, depth, i)
<1> USE GenMaxDepthAssumption
<1>1. /\ depth \in Levels /\ depth \in Nat /\ depth >= 1 /\ depth' \in Nat /\ depth' \in Levels
      /\ depth' \in 0..depth /\ depth = depth' + 1
      /\ here \in StateOf[f] /\ state \in [Levels -> GenStates]
  <2>1. depth \in Levels /\ depth \in Nat /\ depth >= 1 /\ depth = Len(fs) /\ here \in StateOf[fs[depth]]
    BY Placed, Zenon
  <2>2. depth' \in Nat /\ depth' \in Levels /\ depth' \in 0..depth /\ depth = depth' + 1
    BY <2>1 DEF Levels
  <2> QED BY <2>1, <2>2, Zenon DEF Nested
<1>2. closed \in Places
  BY <1>1, NestedPlaces, Zenon
<1> DEFINE white == Newline \o Indent(depth', closed)
           final == Final(closed)
           bracket == Brackets[f]
           before == white \o <<bracket>>
           k == i + Len(white)
<1>3. /\ white \in Seq(White) /\ white \in Seq(Char) /\ final \in Seq(White) /\ final \in Seq(Char)
      /\ <<bracket>> \in Seq(Char)
  <2>1. bracket \in Char
    <3> QED BY BracketsAre, Zenon DEF Char
  <2>2. Newline \in Seq(White) /\ Indent(depth', closed) \in Seq(White)
    BY <1>1, NewlineWhite, IndentWhite, Zenon DEF Spacing
  <2> QED BY <2>1, <2>2, Single, NewlineWhite, WhiteJoins, WhiteText, Zenon
<1>4. before \in Seq(Char) /\ w = before \o final /\ w \in Seq(Char)
  BY <1>3, TextJoins
<1> HIDE DEF before, white, final, bracket
<1>5. Parted(s, i, before, final)
  BY <1>3, <1>4, HasBoth, Zenon
<1>6. Has(s, i, before) /\ Has(s, i + Len(before), final) /\ i + Len(w) = i + Len(before) + Len(final)
  BY <1>4, <1>5, Zenon DEF Parted
<1>7. Parted(s, i, white, <<bracket>>)
  BY <1>3, <1>6, HasBoth, Zenon DEF before
<1>8. Has(s, i, white) /\ Has(s, k, <<bracket>>) /\ i + Len(before) = k + Len(<<bracket>>)
  BY <1>7, Zenon DEF Parted, before
<1>9. k \in SpaceEnds(s, i)
  BY <1>3, <1>8, HasWhite, Zenon
<1> HIDE DEF k
<1>10. Stands(s, k, bracket) /\ k + Len(<<bracket>>) = k + 1
  BY <1>8, HasOne, Zenon
<1>11. Has(s, k + 1, final) /\ i + Len(w) = k + 1 + Len(final)
  BY <1>6, <1>8, <1>10
<1>12. k + 1 + Len(final) \in SpaceEnds(s, k + 1) /\ k + 1 \in 1..Len(s) + 1
  BY <1>3, <1>11, HasWhite, Zenon DEF Has
<1>13. PICK e : Rest(s, state'[depth'], i + Len(w), e) /\ Chain(s, state', depth', e)
  BY Zenon DEF Accepted
<1>14. state'[depth'] = closed
  BY <1>1
<1>15. Rest(s, closed, k + 1 + Len(final), e)
  BY <1>11, <1>13, <1>14
<1>16. Rest(s, closed, k + 1, e)
  BY <1>2, <1>12, <1>15, RestSpaced, Zenon
<1>17. Chain(s, state, depth', e)
  <2>1. depth' <= depth' /\ depth' <= MaxDepth
    BY <1>1 DEF Levels
  <2> QED BY <1>1, <1>13, <2>1, ChainKept, Zenon
<1>18. Chain(s, state, depth, k + 1)
  <2>1. Rest(s, AfterAtom[state[depth']], k + 1, e)
    BY <1>16
  <2>2. Chain(s, state, depth' + 1, k + 1)
    BY <1>1, <1>17, <2>1, ChainGrows, Zenon
  <2> QED BY <1>1, <2>2
<1>19. Rest(s, here, i, k + 1)
  BY <1>1, <1>9, <1>10, CloseRule, Zenon DEF bracket
<1> QED BY <1>4, <1>18, <1>19, Zenon DEF Accepted, here

-----------------------------------------------------------------------------
\* F has the texts of the first sequences behind each other.
Prefixes(F, seqs) ==
    /\ F[0] = <<>>
    /\ \A k \in 1..Len(seqs) : F[k] = F[k - 1] \o seqs[k]

\* FlattenSeq joins the sequences one after the other.
LEMMA FlatTable ==
  ASSUME NEW S, NEW seqs \in Seq(Seq(S))
  PROVE  \E F : /\ Prefixes(F, seqs) /\ F[Len(seqs)] = Seqs!FlattenSeq(seqs)
                /\ \A k \in 0..Len(seqs) : F[k] \in Seq(S)
<1> DEFINE n == Len(seqs)
           IsFlat(f, k) ==
              f = [i \in 1..k |-> IF i = 1 THEN seqs[i] ELSE f[i-1] \o seqs[i]]
           Flat == CHOOSE f : IsFlat(f, n)
           F == [k \in 0..n |-> IF k = 0 THEN <<>> ELSE Flat[k]]
<1>1. n \in Nat /\ \A i \in 1..n : seqs[i] \in Seq(S)
  OBVIOUS
<1>2. n # 0 => Seqs!FlattenSeq(seqs) = Flat[n]
  BY DEF Seqs!FlattenSeq
<1>3. n = 0 => Seqs!FlattenSeq(seqs) = <<>>
  BY DEF Seqs!FlattenSeq
<1> HIDE DEF n
<1>4. \E f : IsFlat(f, n)
  <3> DEFINE T == {k \in Nat : \E f : IsFlat(f, k)}
  <3>1. 0 \in T
    <4>1. IsFlat([i \in 1..0 |-> 0], 0)
      OBVIOUS
    <4> QED BY <4>1
  <3>2. ASSUME NEW k \in Nat, k \in T PROVE k + 1 \in T
    <4>1. PICK f : IsFlat(f, k)
      BY <3>2
    <4> DEFINE g == [i \in 1..k + 1 |-> IF i = k + 1
                                        THEN IF i = 1 THEN seqs[i] ELSE f[i-1] \o seqs[i]
                                        ELSE f[i]]
    <4>2. \A i \in 1..k : g[i] = f[i]
      OBVIOUS
    <4>3. \A i \in 1..k + 1 :
             g[i] = IF i = 1 THEN seqs[i] ELSE g[i-1] \o seqs[i]
      <5> TAKE i \in 1..k + 1
      <5>1. CASE i = k + 1
        <6>1. i # 1 => g[i-1] = f[i-1]
          BY <5>1, <4>2
        <6> QED BY <5>1, <6>1
      <5>2. CASE i # k + 1
        <6>1. i \in 1..k /\ g[i] = f[i]
          BY <5>2, <4>2
        <6>2. f[i] = IF i = 1 THEN seqs[i] ELSE f[i-1] \o seqs[i]
          BY <6>1, <4>1
        <6>3. i # 1 => g[i-1] = f[i-1]
          BY <6>1, <4>2
        <6> QED BY <6>1, <6>2, <6>3
      <5> QED BY <5>1, <5>2
    <4>4. DOMAIN g = 1..k + 1 /\ g = [i \in 1..k + 1 |-> g[i]]
      OBVIOUS
    <4> HIDE DEF g
    <4>5. IsFlat(g, k + 1)
      BY <4>3, <4>4
    <4> HIDE DEF IsFlat
    <4>6. k + 1 \in Nat /\ \E f2 : IsFlat(f2, k + 1)
      BY <4>5
    <4> QED BY <4>6
  <3> HIDE DEF T
  <3>3. Nat \subseteq T
    BY <3>1, <3>2, Induction
  <3> QED BY <1>1, <3>3 DEF T
<1>5. IsFlat(Flat, n)
  BY <1>4
<1> HIDE DEF Flat
<1>6. F[0] = <<>> /\ \A k \in 1..n : F[k] = F[k - 1] \o seqs[k]
  <2>1. F[0] = <<>>
    BY <1>1
  <2> SUFFICES ASSUME NEW k \in 1..n PROVE F[k] = F[k - 1] \o seqs[k]
    BY <2>1
  <2>2. F[k] = Flat[k] /\ Flat[k] = IF k = 1 THEN seqs[k] ELSE Flat[k - 1] \o seqs[k]
    <3>1. k \in 0..n /\ k # 0
      BY <1>1
    <3>2. F[k] = Flat[k]
      BY <3>1
    <3> QED BY <1>1, <1>5, <3>2
  <2>3. CASE k = 1
    <3>1. F[k - 1] = <<>> /\ seqs[k] \in Seq(S)
      BY <1>1, <2>1, <2>3
    <3>2. <<>> \o seqs[k] = seqs[k]
      BY <3>1
    <3> QED BY <2>2, <2>3, <3>1, <3>2
  <2>4. CASE k # 1
    <3>1. F[k - 1] = Flat[k - 1]
      BY <1>1, <2>4
    <3> QED BY <2>2, <2>4, <3>1
  <2> QED BY <2>3, <2>4
<1>7. F[n] = Seqs!FlattenSeq(seqs)
  BY <1>1, <1>2, <1>3
<1> HIDE DEF F
<1>8. \A k \in 0..n : F[k] \in Seq(S)
  <2> DEFINE T == {k \in Nat : k \in 0..n => F[k] \in Seq(S)}
  <2>1. 0 \in T
    <3>1. <<>> \in Seq(S)
      OBVIOUS
    <3>2. F[0] \in Seq(S)
      BY <1>6, <3>1, Zenon
    <3> QED BY <3>2
  <2>2. ASSUME NEW k \in Nat, k \in T PROVE k + 1 \in T
    <3> SUFFICES ASSUME k + 1 \in 0..n PROVE F[k + 1] \in Seq(S)
      OBVIOUS
    <3>1. k + 1 \in 1..n /\ k \in 0..n /\ (k + 1) - 1 = k
      BY <1>1
    <3>2. F[k + 1] = F[k] \o seqs[k + 1] /\ F[k] \in Seq(S) /\ seqs[k + 1] \in Seq(S)
      BY <1>1, <1>6, <2>2, <3>1
    <3> QED BY <3>2
  <2> HIDE DEF T
  <2>3. Nat \subseteq T
    BY <2>1, <2>2, Induction
  <2> QED BY <1>1, <2>3 DEF T
<1> QED BY <1>6, <1>7, <1>8 DEF Prefixes, n

-----------------------------------------------------------------------------
\* What the generator prints for a character of a string.
Backslash == "\\"
IsQuote(c) == c = "\""
EscapedPair(u) == \E b \in Escapable : u = <<Backslash, b>>
EscapedUnit(u) == \E a \in Hex, b \in Hex : u = <<Backslash, "u", "0", "0", a, b>>
Unescaped(u) == \E c \in Char : u = <<c>> /\ c \notin Control /\ ~IsQuote(c) /\ c # Backslash

\* Escape prints a pair, a unit of four digits, or the character itself.
LEMMA EscapeKinds ==
  ASSUME NEW c \in ClientChar
  PROVE  /\ EscapedPair(Escape(c)) \/ EscapedUnit(Escape(c)) \/ (Unescaped(Escape(c)) /\ Escape(c) = <<c>>)
         /\ c \in HighByte => Escape(c) = <<c>>
<1> USE DEF Backslash, IsQuote
<1>1. CASE c = "\r"
  <2>1. Escape(c) = <<"\\", "r">> /\ "r" \in Escapable /\ c \notin HighByte
    BY <1>1, Zenon DEF Escape, Escapable, HighByte
  <2> QED BY <2>1, Zenon DEF EscapedPair
<1>2. CASE c = "\n"
  <2>1. Escape(c) = <<"\\", "n">> /\ "n" \in Escapable /\ c \notin HighByte
    BY <1>2, Zenon DEF Escape, Escapable, HighByte
  <2> QED BY <2>1, Zenon DEF EscapedPair
<1>3. CASE c = "\f"
  <2>1. Escape(c) = <<"\\", "f">> /\ "f" \in Escapable /\ c \notin HighByte
    BY <1>3, Zenon DEF Escape, Escapable, HighByte
  <2> QED BY <2>1, Zenon DEF EscapedPair
<1>4. CASE c = "\t"
  <2>1. Escape(c) = <<"\\", "t">> /\ "t" \in Escapable /\ c \notin HighByte
    BY <1>4, Zenon DEF Escape, Escapable, HighByte
  <2> QED BY <2>1, Zenon DEF EscapedPair
<1>5. CASE c = "\\"
  <2>1. Escape(c) = <<"\\", "\\">> /\ "\\" \in Escapable /\ c \notin HighByte
    BY <1>5, Zenon DEF Escape, Escapable, HighByte
  <2> QED BY <2>1, Zenon DEF EscapedPair
<1>6. CASE c = "\""
  <2>1. Escape(c) = <<"\\", "\"">> /\ "\"" \in Escapable /\ c \notin HighByte
    BY <1>6, Zenon DEF Escape, Escapable, HighByte
  <2> QED BY <2>1, Zenon DEF EscapedPair
<1>7. CASE c = "bs"
  <2>1. Escape(c) = <<"\\", "b">> /\ "b" \in Escapable /\ c \notin HighByte
    BY <1>7, Zenon DEF Escape, Escapable, HighByte
  <2> QED BY <2>1, Zenon DEF EscapedPair
<1>8. CASE c = "/" /\ "escape_solidus" \in genFlags
  <2>1. Escape(c) = <<"\\", "/">> /\ "/" \in Escapable /\ c \notin HighByte
    BY <1>8, Zenon DEF Escape, Escapable, HighByte
  <2> QED BY <2>1, Zenon DEF EscapedPair
<1>9. "0" \in Hex /\ "1" \in Hex /\ "B" \in Hex /\ "F" \in Hex
  BY Zenon DEF Hex, Digit
<1>10. CASE c = "nul"
  <2>1. Escape(c) = <<"\\", "u", "0", "0", "0", "0">> /\ c \notin HighByte
    BY <1>10, Zenon DEF Escape, HighByte
  <2> QED BY <1>9, <2>1, Zenon DEF EscapedUnit
<1>11. CASE c = "vt"
  <2>1. Escape(c) = <<"\\", "u", "0", "0", "0", "B">> /\ c \notin HighByte
    BY <1>11, Zenon DEF Escape, HighByte
  <2> QED BY <1>9, <2>1, Zenon DEF EscapedUnit
<1>12. CASE c = "ctl"
  <2>1. Escape(c) = <<"\\", "u", "0", "0", "1", "F">> /\ c \notin HighByte
    BY <1>12, Zenon DEF Escape, HighByte
  <2> QED BY <1>9, <2>1, Zenon DEF EscapedUnit
<1>13. CASE /\ c \notin {"\r", "\n", "\f", "\t", "\\", "\"", "bs", "nul", "vt", "ctl"}
            /\ ~(c = "/" /\ "escape_solidus" \in genFlags)
  <2>1. Escape(c) = <<c>>
    BY <1>13, Zenon DEF Escape
  <2>2. c \in Char /\ c \notin Control /\ c # "\"" /\ c # "\\"
    BY <1>13, Zenon DEF ClientChar, Control
  <2> QED BY <2>1, <2>2, Zenon DEF Unescaped
<1> QED BY <1>1, <1>2, <1>3, <1>4, <1>5, <1>6, <1>7, <1>8, <1>10, <1>11, <1>12, <1>13, Zenon

\* Sequences of one, two and six characters.
OneOf(u, a) == Len(u) = 1 /\ u # <<>> /\ u[1] = a /\ \A m \in 1..Len(u) : m = 1
TwoOf(u, a, b) == /\ Len(u) = 2 /\ u # <<>> /\ u[1] = a /\ u[2] = b
                  /\ \A m \in 1..Len(u) : m = 1 \/ m = 2
SixOf(u, x, y, S) == /\ Len(u) = 6 /\ u # <<>> /\ u[1] = x /\ u[2] = y /\ AllIn(From(u, 3), S)
                     /\ \A m \in 1..Len(u) : u[m] \in {x, y} \cup S

\* Sequences of one, two and six characters, by what they are.
LEMMA OneIs ==
  ASSUME NEW S, NEW a \in S, NEW u, u = <<a>>
  PROVE  OneOf(u, a) /\ u \in Seq(S)
BY DEF OneOf

LEMMA TwoIs ==
  ASSUME NEW S, NEW a \in S, NEW b \in S, NEW u, u = <<a, b>>
  PROVE  TwoOf(u, a, b) /\ u \in Seq(S)
BY DEF TwoOf

LEMMA SixIs ==
  ASSUME NEW S, NEW x \in S, NEW y \in S, NEW D, D \subseteq S,
         NEW a \in D, NEW b \in D, NEW c \in D, NEW d \in D, NEW u, u = <<x, y, a, b, c, d>>
  PROVE  SixOf(u, x, y, D) /\ u \in Seq(S)
<1>1. Len(u) = 6 /\ u # <<>> /\ u[1] = x /\ u[2] = y /\ u[3] = a /\ u[4] = b /\ u[5] = c /\ u[6] = d
  OBVIOUS
<1>2. \A m \in 1..Len(u) : m \in {1, 2, 3, 4, 5, 6}
  BY <1>1
<1>3. \A m \in 1..Len(u) : u[m] \in {x, y} \cup D
  BY <1>1, <1>2
<1>4. u \in Seq(S)
  OBVIOUS
<1>5. AllIn(From(u, 3), D)
  <2>1. Len(From(u, 3)) = 4 /\ \A i \in 1..4 : From(u, 3)[i] = u[i + 2]
    BY <1>1, <1>4 DEF From
  <2>2. \A i \in 1..4 : i + 2 \in {3, 4, 5, 6}
    OBVIOUS
  <2> QED BY <1>1, <2>1, <2>2 DEF AllIn
<1> QED BY <1>1, <1>3, <1>4, <1>5 DEF SixOf

\* The strings of the grammar are UTF-8.
LEMMA RfcUtf8 == Rfc.validateUTF8
BY DEF Rfc

\* What is printed for a character is one of a string, and a quote in it is
\* escaped.
QuotesEscaped(u) == \A m \in 1..Len(u) : IsQuote(u[m]) => m = 2 /\ u[1] = Backslash

\* What is printed for a character of one byte is one character of a string; the
\* bytes of the others are printed as they are.
LEMMA EscapeIs ==
  ASSUME NEW c \in ClientChar, NEW u, u = Escape(c)
  PROVE  /\ u \in Seq(Char) /\ u # <<>> /\ QuotesEscaped(u)
         /\ c \notin HighByte => IsCharacter(u, Rfc)
         /\ c \in HighByte => u = <<c>>
<1>1. EscapedPair(u) \/ EscapedUnit(u) \/ (Unescaped(u) /\ u = <<c>>)
  BY EscapeKinds, Zenon
<1>2. c \in HighByte => u = <<c>>
  BY EscapeKinds, Zenon
<1>3. Backslash \in Char /\ "u" \in Char /\ Hex \subseteq Char /\ Escapable \subseteq Char
  BY Zenon DEF Backslash, Char, Escapable, OtherChar
<1>4. ~IsQuote(Backslash) /\ ~IsQuote("u") /\ \A h \in Hex : ~IsQuote(h)
  BY Zenon DEF IsQuote, Backslash, Hex, Digit
<1>5. CASE EscapedPair(u)
  <2>1. PICK b \in Escapable : u = <<Backslash, b>>
    BY <1>5, Zenon DEF EscapedPair
  <2>0. TwoOf(u, Backslash, b) /\ u \in Seq(Char)
    BY <1>3, <2>1, TwoIs, Zenon
  <2>2. u \in Seq(Char) /\ u # <<>> /\ Len(u) = 2 /\ u[1] = Backslash /\ u[2] = b
        /\ \A m \in 1..Len(u) : m = 1 \/ m = 2
    BY <2>0, Zenon DEF TwoOf
  <2>3. QuotesEscaped(u)
    BY <1>4, <2>2, Zenon DEF QuotesEscaped
  <2>4. IsCharacter(u, Rfc)
    BY <2>2, Zenon DEF IsCharacter, Backslash
  <2> QED BY <1>2, <2>2, <2>3, <2>4, Zenon
<1>6. CASE EscapedUnit(u)
  <2>1. PICK a \in Hex, b \in Hex : u = <<Backslash, "u", "0", "0", a, b>>
    BY <1>6, Zenon DEF EscapedUnit
  <2>2. "0" \in Hex
    BY Zenon DEF Hex, Digit
  <2>5. SixOf(u, Backslash, "u", Hex) /\ u \in Seq(Char)
    BY <1>3, <2>1, <2>2, SixIs, Zenon
  <2>4. /\ Len(u) = 6 /\ u # <<>> /\ u[1] = Backslash /\ u[2] = "u" /\ AllIn(From(u, 3), Hex)
        /\ \A m \in 1..Len(u) : u[m] \in {Backslash, "u"} \cup Hex
    BY <2>5, Zenon DEF SixOf
  <2>6. QuotesEscaped(u)
    BY <1>4, <2>2, <2>4, Zenon DEF QuotesEscaped
  <2>7. IsCharacter(u, Rfc)
    BY <2>4, Zenon DEF IsCharacter, Backslash
  <2> QED BY <1>2, <2>4, <2>5, <2>6, <2>7, Zenon
<1>7. CASE Unescaped(u) /\ u = <<c>>
  <2>1. PICK d \in Char : u = <<d>> /\ d \notin Control /\ ~IsQuote(d) /\ d # Backslash
    BY <1>7, Zenon DEF Unescaped
  <2>2. u \in Seq(Char) /\ u # <<>> /\ Len(u) = 1 /\ u[1] = d /\ u[1] = c /\ \A m \in 1..Len(u) : m = 1
    <3>1. OneOf(u, d) /\ u \in Seq(Char) /\ d = c
      <4>1. OneOf(u, d) /\ u \in Seq(Char)
        BY <2>1, OneIs, Zenon
      <4>2. \A x, y : <<x>> = <<y>> => x = y
        OBVIOUS
      <4> QED BY <1>7, <2>1, <4>1, <4>2, Zenon
    <3> QED BY <3>1, Zenon DEF OneOf
  <2>3. QuotesEscaped(u)
    BY <2>1, <2>2, Zenon DEF QuotesEscaped
  <2>4. c \notin HighByte => IsCharacter(u, Rfc)
    BY <2>1, <2>2, Zenon DEF IsCharacter, Backslash, IsQuote
  <2> QED BY <1>2, <2>2, <2>3, <2>4, Zenon
<1> QED BY <1>1, <1>5, <1>6, <1>7, Zenon

\* Where each of the first j sequences stands among them.
RowsTo(F, seqs, j) ==
    /\ \A i \in 0..j : i < j => Len(F[i]) < Len(F[j])
    /\ \A k \in 1..j : Len(F[k - 1]) + Len(seqs[k]) <= Len(F[j])
    /\ \A k \in 1..j : \A m \in 1..Len(seqs[k]) : F[j][Len(F[k - 1]) + m] = seqs[k][m]
    /\ \A p \in 1..Len(F[j]) :
          \E k \in 1..j : \E m \in 1..Len(seqs[k]) : p = Len(F[k - 1]) + m

\* u is v with w behind it.
JoinedAt(u, v, w) ==
    /\ Len(v) \in Nat /\ Len(w) \in Nat /\ Len(w) >= 1
    /\ Len(u) = Len(v) + Len(w)
    /\ \A p \in 1..Len(v) : u[p] = v[p]
    /\ \A m \in 1..Len(w) : u[Len(v) + m] = w[m]
RowsJoin(F, seqs, k) == JoinedAt(F[k], F[k - 1], seqs[k])

\* \o, by what it does.
LEMMA JoinedIs ==
  ASSUME NEW S, NEW v \in Seq(S), NEW w \in Seq(S), w # <<>>, NEW u, u = v \o w
  PROVE  JoinedAt(u, v, w)
BY DEF JoinedAt

LEMMA RowsJoined ==
  ASSUME NEW S, NEW seqs \in Seq(Seq(S)), NEW F, Prefixes(F, seqs),
         \A k \in 0..Len(seqs) : F[k] \in Seq(S),
         \A k \in 1..Len(seqs) : seqs[k] # <<>>
  PROVE  \A k \in 1..Len(seqs) : RowsJoin(F, seqs, k)
<1> SUFFICES ASSUME NEW k \in 1..Len(seqs) PROVE RowsJoin(F, seqs, k)
  OBVIOUS
<1>1. k - 1 \in 0..Len(seqs)
  OBVIOUS
<1>2. F[k - 1] \in Seq(S) /\ seqs[k] \in Seq(S) /\ seqs[k] # <<>> /\ F[k] = F[k - 1] \o seqs[k]
  <2>1. F[k] = F[k - 1] \o seqs[k]
    BY Zenon DEF Prefixes
  <2>2. F[k - 1] \in Seq(S) /\ seqs[k] # <<>>
    BY <1>1, Zenon
  <2>3. seqs[k] \in Seq(S)
    OBVIOUS
  <2> QED BY <2>1, <2>2, <2>3
<1> QED BY <1>2, JoinedIs, Zenon DEF RowsJoin

\* One sequence more, and then all of them.
LEMMA RowsStep ==
  ASSUME NEW F, NEW seqs, NEW j \in Nat, RowsTo(F, seqs, j), Len(F[j]) \in Nat,
         \A k \in 1..j + 1 : RowsJoin(F, seqs, k)
  PROVE  RowsTo(F, seqs, j + 1)
<1>1. j + 1 \in 1..j + 1 /\ (j + 1) - 1 = j /\ j + 1 \in Nat
      /\ (\A k \in 1..j + 1 : k \in 1..j \/ k = j + 1) /\ (\A k \in 1..j : k \in 1..j + 1)
      /\ (\A i \in 0..j + 1 : i < j + 1 => i \in 0..j /\ (i < j \/ i = j))
  OBVIOUS
<1>2. F[(j + 1) - 1] = F[j]
  BY <1>1
<1>0. Len(F[j]) \in Nat
  OBVIOUS
<1> DEFINE a == Len(F[j])
           b == Len(seqs[j + 1])
           c == Len(F[j + 1])
<1>3. /\ b \in Nat /\ b >= 1 /\ c = a + b
      /\ \A p \in 1..a : F[j + 1][p] = F[j][p]
      /\ \A m \in 1..b : F[j + 1][a + m] = seqs[j + 1][m]
  <2>1. JoinedAt(F[j + 1], F[j], seqs[j + 1])
    BY <1>1, <1>2, Zenon DEF RowsJoin
  <2> QED BY <2>1, Zenon DEF JoinedAt
<1>4. /\ \A i \in 0..j : i < j => Len(F[i]) < a
      /\ \A k \in 1..j : Len(F[k - 1]) + Len(seqs[k]) <= a
      /\ \A k \in 1..j : \A m \in 1..Len(seqs[k]) : F[j][Len(F[k - 1]) + m] = seqs[k][m]
      /\ \A p \in 1..a :
            \E k \in 1..j : \E m \in 1..Len(seqs[k]) : p = Len(F[k - 1]) + m
  BY Zenon DEF RowsTo
<1>5. \A k \in 1..j + 1 : Len(F[k - 1]) \in Nat /\ Len(seqs[k]) \in Nat
  BY Zenon DEF RowsJoin, JoinedAt
<1>6. a \in Nat /\ a < c /\ c \in Nat
  <2> HIDE DEF a, b, c
  <2>1. a \in Nat
    BY <1>0, Zenon DEF a
  <2> QED BY <1>3, <2>1
<1> HIDE DEF a, b, c
<1>7. \A i \in 0..j + 1 : i < j + 1 => Len(F[i]) < c
  <2> SUFFICES ASSUME NEW i \in 0..j + 1, i < j + 1 PROVE Len(F[i]) < c
    OBVIOUS
  <2>1. CASE i = j
    BY <1>6, <2>1, Zenon DEF a
  <2>2. CASE i < j
    <3>1. Len(F[i]) < a /\ Len(F[(i + 1) - 1]) \in Nat
      <4>1. i + 1 \in 1..j + 1 /\ i \in 0..j
        BY <2>2
      <4> QED BY <1>4, <1>5, <2>2, <4>1, Zenon
    <3>2. Len(F[i]) \in Nat
      <4>1. (i + 1) - 1 = i
        OBVIOUS
      <4> QED BY <3>1, <4>1
    <3> QED BY <1>6, <3>1, <3>2
  <2> QED BY <1>1, <2>1, <2>2, Zenon
<1>8. \A k \in 1..j + 1 : Len(F[k - 1]) + Len(seqs[k]) <= c
  <2> SUFFICES ASSUME NEW k \in 1..j + 1 PROVE Len(F[k - 1]) + Len(seqs[k]) <= c
    OBVIOUS
  <2>1. CASE k = j + 1
    <3>1. Len(F[k - 1]) = a /\ Len(seqs[k]) = b
      BY <1>2, <2>1 DEF a, b
    <3> QED BY <1>3, <1>6, <3>1
  <2>2. CASE k \in 1..j
    <3>1. Len(F[k - 1]) + Len(seqs[k]) <= a /\ Len(F[k - 1]) \in Nat /\ Len(seqs[k]) \in Nat
      BY <1>4, <1>5, <2>2, Zenon
    <3>2. \A x, y \in Nat : x + y <= a => x + y <= c
      BY <1>6
    <3> QED BY <3>1, <3>2, Zenon
  <2> QED BY <1>1, <2>1, <2>2, Zenon
<1>9. \A k \in 1..j + 1 : \A m \in 1..Len(seqs[k]) : F[j + 1][Len(F[k - 1]) + m] = seqs[k][m]
  <2> SUFFICES ASSUME NEW k \in 1..j + 1, NEW m \in 1..Len(seqs[k])
               PROVE  F[j + 1][Len(F[k - 1]) + m] = seqs[k][m]
    OBVIOUS
  <2>1. CASE k = j + 1
    BY <1>2, <1>3, <2>1, Zenon DEF a, b
  <2>2. CASE k \in 1..j
    <3>1. Len(F[k - 1]) + Len(seqs[k]) <= a /\ Len(F[k - 1]) \in Nat /\ Len(seqs[k]) \in Nat
      BY <1>4, <1>5, <2>2, Zenon
    <3>2. \A x, y, z \in Nat : \A q \in 1..y : x + y <= z => x + q \in 1..z
      OBVIOUS
    <3>3. Len(F[k - 1]) + m \in 1..a
      BY <1>6, <3>1, <3>2, Zenon
    <3> QED BY <1>3, <1>4, <2>2, <3>3, Zenon
  <2> QED BY <1>1, <2>1, <2>2, Zenon
<1>10. \A p \in 1..c : \E k \in 1..j + 1 : \E m \in 1..Len(seqs[k]) : p = Len(F[k - 1]) + m
  <2> SUFFICES ASSUME NEW p \in 1..c
               PROVE  \E k \in 1..j + 1 : \E m \in 1..Len(seqs[k]) : p = Len(F[k - 1]) + m
    OBVIOUS
  <2>1. CASE p \in 1..a
    BY <1>1, <1>4, <2>1, Zenon
  <2>2. CASE p \notin 1..a
    <3>1. \E m \in 1..b : p = a + m
      <4>1. p - a \in 1..b /\ p = a + (p - a)
        BY <1>3, <1>6, <2>2
      <4> QED BY <4>1
    <3>2. \E m \in 1..Len(seqs[j + 1]) : p = Len(F[(j + 1) - 1]) + m
      BY <1>2, <3>1, Zenon DEF a, b
    <3> QED BY <1>1, <3>2, Zenon
  <2> QED BY <2>1, <2>2
<1> QED BY <1>7, <1>8, <1>9, <1>10, Zenon DEF RowsTo, c

LEMMA RowsAre ==
  ASSUME NEW S, NEW seqs \in Seq(Seq(S)), NEW F, Prefixes(F, seqs),
         \A k \in 0..Len(seqs) : F[k] \in Seq(S),
         \A k \in 1..Len(seqs) : seqs[k] # <<>>
  PROVE  \A j \in 0..Len(seqs) : RowsTo(F, seqs, j)
<1> DEFINE n == Len(seqs)
           T == {j \in Nat : j \in 0..n => RowsTo(F, seqs, j)}
<1>1. n \in Nat
  OBVIOUS
<1>2. \A k \in 1..n : RowsJoin(F, seqs, k)
  BY RowsJoined, Zenon
<1> HIDE DEF n
<1>3. 0 \in T
  <2>1. \A i \in 0..0 : ~(i < 0)
    OBVIOUS
  <2>2. F[0] = <<>>
    BY DEF Prefixes
  <2>3. 1..0 = {} /\ 1..Len(F[0]) = {}
    BY <2>2
  <2>4. RowsTo(F, seqs, 0)
    BY <2>1, <2>3, Zenon DEF RowsTo
  <2> QED BY <2>4
<1>4. ASSUME NEW j \in Nat, j \in T PROVE j + 1 \in T
  <2> SUFFICES ASSUME j + 1 \in 0..n PROVE RowsTo(F, seqs, j + 1)
    OBVIOUS
  <2>1. j \in 0..n /\ \A k \in 1..j + 1 : k \in 1..n
    BY <1>1
  <2>2. RowsTo(F, seqs, j)
    BY <1>4, <2>1
  <2>3. \A k \in 1..j + 1 : RowsJoin(F, seqs, k)
    BY <1>2, <2>1, Zenon
  <2>4. Len(F[j]) \in Nat
    BY <2>1 DEF n
  <2> HIDE DEF T
  <2> QED BY <2>2, <2>3, <2>4, RowsStep, Zenon
<1> HIDE DEF T
<1>5. Nat \subseteq T
  BY <1>3, <1>4, Induction
<1>6. \A j \in 0..n : j \in T
  BY <1>1, <1>5
<1> QED BY <1>6 DEF T, n

\* A part of a sequence, by its elements.
LEMMA PartIs ==
  ASSUME NEW S, NEW s \in Seq(S), NEW a \in Nat, NEW v \in Seq(S), a + Len(v) <= Len(s),
         \A m \in 1..Len(v) : s[a + m] = v[m]
  PROVE  SubSeq(s, a + 1, a + Len(v)) = v
<1>1. Len(v) \in Nat /\ Len(s) \in Nat
  OBVIOUS
<1>2. \A m \in 1..Len(v) : a + m \in 1..Len(s) /\ s[a + m] \in S
  BY <1>1
<1> DEFINE w == [m \in 1..Len(v) |-> s[a + m]]
<1>3. SubSeq(s, a + 1, a + Len(v)) = [m \in 1..Len(v) |-> s[(a + 1) + m - 1]]
  BY <1>1
<1>4. \A m \in 1..Len(v) : s[(a + 1) + m - 1] = v[m]
  <2>1. \A m \in 1..Len(v) : (a + 1) + m - 1 = a + m
    BY <1>1
  <2> QED BY <2>1
<1>5. v = [m \in 1..Len(v) |-> v[m]]
  OBVIOUS
<1> QED BY <1>3, <1>4, <1>5

\* All but the first, by the elements.
LEMMA RestOf ==
  ASSUME NEW S, NEW u \in Seq(S), Len(u) >= 1
  PROVE  Len(From(u, 2)) = Len(u) - 1 /\ \A m \in 1..Len(u) - 1 : From(u, 2)[m] = u[m + 1]
<1>1. From(u, 2) = SubSeq(u, 2, Len(u)) /\ Len(u) \in Nat
  BY DEF From
<1> QED BY <1>1

\* A sequence of members of T is a sequence over T.
LEMMA OverSet ==
  ASSUME NEW S, NEW T, NEW u \in Seq(S), \A m \in 1..Len(u) : u[m] \in T
  PROVE  u \in Seq(T)
<1>1. u = [m \in 1..Len(u) |-> u[m]] /\ Len(u) \in Nat
  OBVIOUS
<1> QED BY <1>1

\* What is printed for one character of the client's string, of one byte or of
\* several, is one character of the string that is printed.
LEMMA CharacterCut ==
  ASSUME NEW str \in Seq(ClientChar), NEW seqs, seqs \in Seq(Seq(Char)), Len(seqs) = Len(str),
         \A k \in 1..Len(str) : seqs[k] = Escape(str[k]),
         NEW F, NEW s \in Seq(Char), s = F[Len(seqs)],
         \A k \in 1..Len(seqs) : RowsJoin(F, seqs, k),
         RowsTo(F, seqs, Len(seqs)),
         NEW i \in 1..Len(str), NEW j \in i + 1..Len(str) + 1,
         IsUtf8Character(SubSeq(str, i, j - 1))
  PROVE  IsCharacter(SubSeq(s, Len(F[i - 1]) + 1, Len(F[j - 1])), Rfc)
<1> DEFINE n == Len(str)
           u == SubSeq(str, i, j - 1)
           a == Len(F[i - 1])
<1>1. n \in Nat /\ Len(seqs) = n /\ i \in 1..n /\ j \in i + 1..n + 1
  OBVIOUS
<1>2. Len(u) = j - i /\ \A m \in 1..j - i : u[m] = str[i + m - 1] /\ i + m - 1 \in 1..n
  OBVIOUS
<1>3. a \in Nat /\ Len(F[i]) = a + Len(seqs[i]) /\ Len(seqs[i]) \in Nat
  BY <1>1, Zenon DEF RowsJoin, JoinedAt
<1>4. \A k \in 1..n : Len(F[k - 1]) + Len(seqs[k]) <= Len(s)
  BY <1>1, Zenon DEF RowsTo
<1>5. \A k \in 1..n : \A m \in 1..Len(seqs[k]) : s[Len(F[k - 1]) + m] = seqs[k][m]
  BY <1>1, Zenon DEF RowsTo
<1>6. \A k \in 1..n : str[k] \in ClientChar
  OBVIOUS
<1> HIDE DEF n, u, a
<1>7. CASE Len(u) = 1 /\ u[1] \notin HighByte
  <2>1. j = i + 1 /\ j - 1 = i /\ 1 \in 1..j - i /\ i + 1 - 1 = i
    <3>1. j - i = 1
      BY <1>2, <1>7, Zenon
    <3> QED BY <1>1, <3>1
  <2>2. u[1] = str[i]
    BY <1>2, <2>1
  <2>3. seqs[i] \in Seq(Char) /\ IsCharacter(seqs[i], Rfc)
    <3>1. seqs[i] = Escape(str[i]) /\ str[i] \in ClientChar /\ str[i] \notin HighByte
      BY <1>1, <1>6, <1>7, <2>2, Zenon DEF n
    <3> QED BY <3>1, EscapeIs, Zenon
  <2>4. SubSeq(s, a + 1, a + Len(seqs[i])) = seqs[i]
    <3>1. a + Len(seqs[i]) <= Len(s) /\ \A m \in 1..Len(seqs[i]) : s[a + m] = seqs[i][m]
      BY <1>1, <1>4, <1>5, Zenon DEF a
    <3> QED BY <1>3, <2>3, <3>1, PartIs, Zenon
  <2>5. Len(F[j - 1]) = a + Len(seqs[i])
    BY <1>3, <2>1
  <2> QED BY <2>3, <2>4, <2>5, Zenon DEF a
<1>8. CASE /\ u # <<>>
           /\ Len(u) = CASE u[1] = "lead2" -> 2 [] u[1] = "lead3" -> 3
                         [] u[1] = "lead4" -> 4 [] OTHER -> 0
           /\ AllIn(From(u, 2), {"cont"})
  <2>1. IsCharacter(u, Rfc)
    BY <1>8, RfcUtf8, Zenon DEF IsCharacter
  <2>2. u \in Seq(ClientChar) /\ Len(u) >= 1
    BY <1>1, <1>2 DEF u, n
  <2>3. u[1] \in HighByte
    <3>1. u[1] \in {"lead2", "lead3", "lead4"}
      BY <1>8, <2>2
    <3> QED BY <3>1, Zenon DEF HighByte
  <2>4. \A m \in 2..Len(u) : u[m] = "cont"
    <3>1. Len(From(u, 2)) = Len(u) - 1 /\ \A m \in 1..Len(u) - 1 : From(u, 2)[m] = u[m + 1]
      BY <2>2, RestOf, Zenon
    <3>2. \A m \in 2..Len(u) : m - 1 \in 1..Len(u) - 1 /\ (m - 1) + 1 = m
      BY <2>2
    <3> QED BY <1>8, <3>1, <3>2 DEF AllIn
  <2>5. \A m \in 1..j - i : u[m] \in HighByte
    <3>1. "cont" \in HighByte
      BY Zenon DEF HighByte
    <3>2. \A m \in 1..j - i : m = 1 \/ m \in 2..Len(u)
      BY <1>1, <1>2
    <3> QED BY <2>3, <2>4, <3>1, <3>2, Zenon
  <2>6. \A m \in 1..j - i : /\ Len(seqs[i + m - 1]) = 1 /\ seqs[i + m - 1][1] = u[m]
                            /\ i + m - 1 \in 1..n
    <3> SUFFICES ASSUME NEW m \in 1..j - i
                 PROVE  /\ Len(seqs[i + m - 1]) = 1 /\ seqs[i + m - 1][1] = u[m]
                        /\ i + m - 1 \in 1..n
      OBVIOUS
    <3>1. u[m] = str[i + m - 1] /\ i + m - 1 \in 1..n
      BY <1>2, Zenon
    <3>2. str[i + m - 1] \in ClientChar /\ str[i + m - 1] \in HighByte
      BY <1>6, <2>5, <3>1, Zenon
    <3>3. seqs[i + m - 1] = Escape(str[i + m - 1])
      BY <3>1, Zenon DEF n
    <3>4. seqs[i + m - 1] = <<str[i + m - 1]>>
      BY <3>2, <3>3, EscapeIs, Zenon
    <3> QED BY <3>1, <3>4
  <2> DEFINE T == {m \in Nat : m \in 0..j - i => Len(F[i + m - 1]) = a + m}
  <2>7. 0 \in T
    <3>1. i + 0 - 1 = i - 1
      BY <1>1
    <3> QED BY <1>3, <3>1 DEF a
  <2>8. ASSUME NEW m \in Nat, m \in T PROVE m + 1 \in T
    <3> SUFFICES ASSUME m + 1 \in 0..j - i PROVE Len(F[i + (m + 1) - 1]) = a + (m + 1)
      OBVIOUS
    <3>1. m \in 0..j - i /\ m + 1 \in 1..j - i /\ i + (m + 1) - 1 = i + m /\ (i + m) - 1 = i + m - 1
      BY <1>1
    <3>2. Len(F[i + m - 1]) = a + m
      BY <2>8, <3>1
    <3>3. Len(seqs[i + m]) = 1 /\ i + m \in 1..n
      BY <2>6, <3>1
    <3>4. Len(F[i + m]) = Len(F[(i + m) - 1]) + Len(seqs[i + m])
      BY <1>1, <3>3, Zenon DEF RowsJoin, JoinedAt
    <3> HIDE DEF T
    <3>5. Len(F[i + m]) = (a + m) + 1
      BY <3>1, <3>2, <3>3, <3>4
    <3> QED BY <1>3, <3>1, <3>5
  <2> HIDE DEF T
  <2>9. Nat \subseteq T
    BY <2>7, <2>8, Induction
  <2>10. \A m \in 0..j - i : Len(F[i + m - 1]) = a + m
    <3>1. \A m \in 0..j - i : m \in T
      BY <1>1, <2>9
    <3> QED BY <3>1 DEF T
  <2>11. \A m \in 1..j - i : s[a + m] = u[m]
    <3> SUFFICES ASSUME NEW m \in 1..j - i PROVE s[a + m] = u[m]
      OBVIOUS
    <3>1. m - 1 \in 0..j - i /\ i + (m - 1) - 1 = (i + m - 1) - 1 /\ a + (m - 1) + 1 = a + m
      BY <1>1, <1>3
    <3>2. Len(F[(i + m - 1) - 1]) = a + (m - 1)
      BY <2>10, <3>1
    <3>3. s[Len(F[(i + m - 1) - 1]) + 1] = seqs[i + m - 1][1]
      <4>1. Len(seqs[i + m - 1]) = 1 /\ i + m - 1 \in 1..n
        BY <2>6, Zenon
      <4>0. 1 \in 1..1
        OBVIOUS
      <4> QED BY <1>5, <4>0, <4>1, Zenon
    <3> QED BY <2>6, <3>1, <3>2, <3>3
  <2>12. a + (j - i) <= Len(s) /\ Len(F[j - 1]) = a + (j - i)
    <3>1. j - i \in 0..j - i /\ i + (j - i) - 1 = j - 1 /\ j - 1 \in 1..n /\ j - i \in 1..j - i
      BY <1>1
    <3>2. Len(F[j - 1]) = a + (j - i)
      BY <2>10, <3>1
    <3>3. Len(F[j - 1]) = Len(F[(j - 1) - 1]) + Len(seqs[j - 1])
      BY <1>1, <3>1, Zenon DEF RowsJoin, JoinedAt
    <3>4. Len(F[(j - 1) - 1]) + Len(seqs[j - 1]) <= Len(s)
      BY <1>4, <3>1, Zenon
    <3> QED BY <3>2, <3>3, <3>4
  <2>13. u \in Seq(Char)
    <3>1. HighByte \subseteq Char
      BY Zenon DEF Char
    <3>2. \A m \in 1..Len(u) : u[m] \in Char
      BY <1>2, <2>5, <3>1, Zenon
    <3> QED BY <2>2, <3>2, OverSet, Zenon
  <2>14. SubSeq(s, a + 1, a + Len(u)) = u
    <3>1. a + Len(u) <= Len(s) /\ \A m \in 1..Len(u) : s[a + m] = u[m]
      BY <1>2, <2>11, <2>12, Zenon
    <3> QED BY <1>3, <2>13, <3>1, PartIs, Zenon
  <2> QED BY <1>2, <2>1, <2>12, <2>14, Zenon DEF a
<1> QED BY <1>7, <1>8, Zenon DEF IsUtf8Character, u

QuotesInside(s) == \A p \in 1..Len(s) : IsQuote(s[p]) => p - 1 \in 1..Len(s) /\ s[p - 1] = Backslash

\* The characters of a client's string, escaped, are those of a string.
LEMMA EncodedIs ==
  ASSUME NEW str \in Seq(ClientChar), IsUtf8(str)
  PROVE  Encoded(str) \in Seq(Char) /\ IsStringBody(Encoded(str), Rfc) /\ QuotesInside(Encoded(str))
<1> DEFINE n == Len(str)
           seqs == [i \in 1..Len(str) |-> Escape(str[i])]
<1>1. n \in Nat /\ \A k \in 1..n : str[k] \in ClientChar
  OBVIOUS
<1>2. \A k \in 1..n : Escape(str[k]) \in Seq(Char) /\ Escape(str[k]) # <<>> /\ QuotesEscaped(Escape(str[k]))
  BY <1>1, EscapeIs, Zenon
<1>3. seqs \in Seq(Seq(Char)) /\ Len(seqs) = n /\ \A k \in 1..n : seqs[k] = Escape(str[k])
  <2>1. seqs \in [1..n -> Seq(Char)]
    BY <1>2
  <2> QED BY <1>1, <2>1
<1>4. Encoded(str) = Seqs!FlattenSeq(seqs)
  BY Zenon DEF Encoded
<1> HIDE DEF seqs, n
<1>5. PICK F : /\ Prefixes(F, seqs) /\ F[n] = Encoded(str)
               /\ \A k \in 0..n : F[k] \in Seq(Char)
  <2>1. \E F : /\ Prefixes(F, seqs) /\ F[Len(seqs)] = Seqs!FlattenSeq(seqs)
               /\ \A k \in 0..Len(seqs) : F[k] \in Seq(Char)
    BY <1>3, FlatTable, Zenon
  <2> QED BY <1>3, <1>4, <2>1, Zenon
<1>6. \A k \in 1..Len(seqs) : seqs[k] # <<>>
  BY <1>2, <1>3, Zenon
<1>7. \A k \in 0..Len(seqs) : F[k] \in Seq(Char)
  BY <1>3, <1>5, Zenon
<1>8. \A k \in 1..Len(seqs) : RowsJoin(F, seqs, k)
  BY <1>3, <1>5, <1>6, <1>7, RowsJoined, Zenon
<1>9. \A j \in 0..n : RowsTo(F, seqs, j)
  BY <1>3, <1>5, <1>6, <1>7, RowsAre, Zenon
<1>10. PICK s : s = Encoded(str)
  OBVIOUS
<1>11. s \in Seq(Char) /\ s = F[n] /\ n \in 0..n /\ RowsTo(F, seqs, n) /\ Len(s) \in Nat
  <2>1. n \in 0..n
    BY <1>1
  <2>2. s \in Seq(Char) /\ s = F[n]
    BY <1>5, <1>10, <2>1, Zenon
  <2> QED BY <1>9, <2>1, <2>2
<1>12. \A p \in 1..Len(s) : \E k \in 1..n : \E m \in 1..Len(seqs[k]) : p = Len(F[k - 1]) + m
  BY <1>11, Zenon DEF RowsTo
<1>13. \A k \in 1..n : \A m \in 1..Len(seqs[k]) : s[Len(F[k - 1]) + m] = seqs[k][m]
  BY <1>11, Zenon DEF RowsTo
<1>14. QuotesInside(s)
  <2> SUFFICES ASSUME NEW p \in 1..Len(s), IsQuote(s[p])
               PROVE  p - 1 \in 1..Len(s) /\ s[p - 1] = Backslash
    BY Zenon DEF QuotesInside
  <2>1. PICK k \in 1..n : \E m \in 1..Len(seqs[k]) : p = Len(F[k - 1]) + m
    BY <1>12, Zenon
  <2>2. PICK m \in 1..Len(seqs[k]) : p = Len(F[k - 1]) + m
    BY <2>1, Zenon
  <2>3. IsQuote(seqs[k][m])
    BY <1>13, <2>2, Zenon
  <2>4. m = 2 /\ seqs[k][1] = Backslash
    BY <1>2, <1>3, <2>3, Zenon DEF QuotesEscaped
  <2>5. Len(F[k - 1]) \in Nat /\ Len(seqs[k]) \in Nat
    BY <1>3, <1>8, Zenon DEF RowsJoin, JoinedAt
  <2>6. 1 \in 1..Len(seqs[k]) /\ p - 1 = Len(F[k - 1]) + 1 /\ p - 1 \in 1..Len(s)
    BY <1>11, <2>2, <2>4, <2>5, SMTT(30)
  <2>7. s[Len(F[k - 1]) + 1] = seqs[k][1]
    BY <1>13, <2>6, Zenon
  <2> QED BY <2>4, <2>6, <2>7
<1>15. IsStringBody(s, Rfc)
  <2>1. PICK inner \in SUBSET (2..n) :
          \A i \in (inner \cup {1, n + 1}) \ {n + 1} :
             \E j \in inner \cup {1, n + 1} : i < j /\ IsUtf8Character(SubSeq(str, i, j - 1))
    BY Zenon DEF IsUtf8, n
  <2> DEFINE starts == inner \cup {1, n + 1}
             at(i) == Len(F[i - 1]) + 1
             images == {at(i) : i \in starts}
             inside == images \ {1, Len(s) + 1}
  <2>2. starts \subseteq 1..n + 1 /\ 1 \in starts /\ n + 1 \in starts
    BY <1>1
  <2>3. at(1) = 1 /\ at(n + 1) = Len(s) + 1
    <3>1. 1 - 1 = 0 /\ (n + 1) - 1 = n
      BY <1>1
    <3>2. F[0] = <<>>
      BY <1>5, Zenon DEF Prefixes
    <3>3. Len(F[0]) = 0
      BY <3>2
    <3>4. F[1 - 1] = F[0] /\ F[(n + 1) - 1] = s
      BY <1>11, <3>1
    <3> QED BY <3>3, <3>4
  <2>4. \A i \in 1..n + 1 : \A j \in 1..n + 1 : i < j => at(i) < at(j)
    <3> SUFFICES ASSUME NEW i \in 1..n + 1, NEW j \in 1..n + 1, i < j PROVE at(i) < at(j)
      OBVIOUS
    <3>1. i - 1 \in 0..j - 1 /\ i - 1 < j - 1 /\ j - 1 \in 0..n /\ i - 1 \in 0..n
      BY <1>1
    <3>2. Len(F[i - 1]) < Len(F[j - 1])
      BY <1>9, <3>1, Zenon DEF RowsTo
    <3>3. Len(F[i - 1]) \in Nat /\ Len(F[j - 1]) \in Nat
      <4>1. F[i - 1] \in Seq(Char) /\ F[j - 1] \in Seq(Char)
        BY <1>5, <3>1, Zenon
      <4> QED BY <4>1
    <3> QED BY <3>2, <3>3
  <2>5. \A i \in 1..n + 1 : at(i) \in 1..Len(s) + 1
    <3> SUFFICES ASSUME NEW i \in 1..n + 1 PROVE at(i) \in 1..Len(s) + 1
      OBVIOUS
    <3>1. at(i) \in Nat /\ at(i) >= 1
      <4>1. F[i - 1] \in Seq(Char)
        BY <1>1, <1>5
      <4>2. Len(F[i - 1]) \in Nat
        BY <4>1
      <4> QED BY <4>2
    <3>2. at(i) <= Len(s) + 1
      <4>1. i = n + 1 \/ i < n + 1
        BY <1>1
      <4>2. n + 1 \in 1..n + 1
        BY <1>1
      <4>3. at(i) = Len(s) + 1 \/ at(i) < Len(s) + 1
        BY <2>3, <2>4, <4>1, <4>2, Zenon
      <4> HIDE DEF at
      <4> QED BY <1>11, <3>1, <4>3
    <3> HIDE DEF at
    <3> QED BY <1>11, <3>1, <3>2
  <2> HIDE DEF at
  <2>6. \A p \in images : p \in 1..Len(s) + 1
    BY <2>2, <2>5, Zenon
  <2>7. 1 \in images /\ Len(s) + 1 \in images
    BY <2>2, <2>3, Zenon
  <2>8. \A p \in images \ {Len(s) + 1} :
           \E q \in images : p < q /\ IsCharacter(SubSeq(s, p, q - 1), Rfc)
    <3> SUFFICES ASSUME NEW i \in starts, at(i) # Len(s) + 1
                 PROVE  \E q \in images : at(i) < q /\ IsCharacter(SubSeq(s, at(i), q - 1), Rfc)
      BY Zenon
    <3>1. i # n + 1
      BY <2>3
    <3>2. PICK j \in starts : i < j /\ IsUtf8Character(SubSeq(str, i, j - 1))
      BY <2>1, <3>1, Zenon
    <3>3. i \in 1..n /\ j \in i + 1..n + 1 /\ i \in 1..n + 1 /\ j \in 1..n + 1
      <4>1. i \in 1..n + 1 /\ j \in 1..n + 1
        BY <2>2, Zenon
      <4> QED BY <1>1, <3>1, <3>2, <4>1
    <3>4. IsCharacter(SubSeq(s, Len(F[i - 1]) + 1, Len(F[j - 1])), Rfc)
      <4>1. Len(seqs) = Len(str) /\ s = F[Len(seqs)] /\ RowsTo(F, seqs, Len(seqs))
            /\ \A k \in 1..Len(str) : seqs[k] = Escape(str[k])
        BY <1>3, <1>11, Zenon DEF n
      <4> QED BY <1>3, <1>8, <1>11, <3>2, <3>3, <4>1, CharacterCut, Zenon DEF n
    <3>5. at(j) \in images /\ at(i) < at(j)
      BY <2>4, <3>2, <3>3, Zenon
    <3>6. at(j) - 1 = Len(F[j - 1]) /\ at(i) = Len(F[i - 1]) + 1
      <4>1. F[j - 1] \in Seq(Char)
        BY <1>1, <1>5, <3>3
      <4>2. Len(F[j - 1]) \in Nat
        BY <4>1
      <4> QED BY <4>2 DEF at
    <3>7. IsCharacter(SubSeq(s, at(i), at(j) - 1), Rfc)
      BY <3>4, <3>6
    <3> QED BY <3>5, <3>7, Zenon
  <2> HIDE DEF images
  <2>9. inside \in SUBSET (2..Len(s)) /\ inside \cup {1, Len(s) + 1} = images
    <3>1. \A p \in inside : p \in 2..Len(s)
      <4> SUFFICES ASSUME NEW p \in images, p # 1, p # Len(s) + 1 PROVE p \in 2..Len(s)
        OBVIOUS
      <4>1. p \in 1..Len(s) + 1
        BY <2>6
      <4> QED BY <1>11, <4>1
    <3>2. inside \cup {1, Len(s) + 1} = images
      BY <2>7
    <3> QED BY <3>1, <3>2
  <2> HIDE DEF inside
  <2> QED BY <2>8, <2>9, Zenon DEF IsStringBody
<1> QED BY <1>10, <1>11, <1>14, <1>15

\* s is e in quotes.
QuotedOf(s, e, q) ==
    /\ s \in Seq(Char) /\ Len(s) = Len(e) + 2 /\ s # <<>> /\ s[1] = q /\ s[Len(s)] = q
    /\ SubSeq(s, 2, Len(s) - 1) = e
    /\ \A i \in 2..Len(s) - 1 : s[i] = e[i - 1] /\ i - 1 \in 1..Len(e)

\* Quotes around e.
LEMMA Quoted ==
  ASSUME NEW e \in Seq(Char), NEW q \in Char, NEW s, s = <<q>> \o e \o <<q>>
  PROVE  QuotedOf(s, e, q)
<1>1. s \in Seq(Char) /\ Len(s) = Len(e) + 2 /\ Len(e) \in Nat /\ s # <<>>
  OBVIOUS
<1>2. s[1] = q /\ s[Len(s)] = q /\ \A m \in 1..Len(e) : s[1 + m] = e[m]
  OBVIOUS
<1>3. SubSeq(s, 1 + 1, 1 + Len(e)) = e
  <2>1. 1 + Len(e) <= Len(s) /\ 1 \in Nat
    BY <1>1
  <2> QED BY <1>1, <1>2, <2>1, PartIs, Zenon
<1>4. 1 + 1 = 2 /\ 1 + Len(e) = Len(s) - 1
  BY <1>1
<1>5. \A i \in 2..Len(s) - 1 : i - 1 \in 1..Len(e) /\ 1 + (i - 1) = i
  BY <1>1
<1> QED BY <1>1, <1>2, <1>3, <1>4, <1>5 DEF QuotedOf

\* The quote is a character.
LEMMA QuoteText == "\"" \in Char /\ IsQuote("\"") /\ \A c : IsQuote(c) => c = "\""
BY Zenon DEF Char, Escapable, IsQuote

\* Quotes around what is a string's inside make a string of it.
LEMMA QuotedString ==
  ASSUME NEW e \in Seq(Char), IsStringBody(e, Rfc), QuotesInside(e),
         NEW q \in Char, IsQuote(q), NEW s, s = <<q>> \o e \o <<q>>
  PROVE  s \in Seq(Char) /\ s # <<>> /\ IsString(s, Rfc)
<1>1. /\ s \in Seq(Char) /\ Len(s) = Len(e) + 2 /\ s # <<>> /\ s[1] = q /\ s[Len(s)] = q
      /\ SubSeq(s, 2, Len(s) - 1) = e
      /\ \A i \in 2..Len(s) - 1 : s[i] = e[i - 1] /\ i - 1 \in 1..Len(e)
  <2>1. QuotedOf(s, e, q)
    BY Quoted, Zenon
  <2> QED BY <2>1, Zenon DEF QuotedOf
<1>2. Len(e) \in Nat /\ Len(s) >= 2
  BY <1>1
<1>3. \A i \in 2..Len(s) - 1 : IsQuote(s[i]) => s[i - 1] = Backslash
  <2> SUFFICES ASSUME NEW i \in 2..Len(s) - 1, IsQuote(s[i]) PROVE s[i - 1] = Backslash
    OBVIOUS
  <2>1. s[i] = e[i - 1] /\ i - 1 \in 1..Len(e)
    BY <1>1, Zenon
  <2>2. (i - 1) - 1 \in 1..Len(e) /\ e[(i - 1) - 1] = Backslash
    BY <2>1, Zenon DEF QuotesInside
  <2>3. i - 1 \in 2..Len(s) - 1
    BY <1>1, <1>2, <2>2
  <2> QED BY <1>1, <2>2, <2>3, Zenon
<1>4. IsString(s, Rfc)
  BY <1>1, <1>2, <1>3, QuoteText, Zenon DEF IsString, Backslash
<1> QED BY <1>1, <1>4

\* What is printed for a string is a string.
LEMMA StringText ==
  ASSUME NEW str \in Seq(ClientChar), IsUtf8(str), NEW s, s = <<"\"">> \o Encoded(str) \o <<"\"">>
  PROVE  s \in Seq(Char) /\ s # <<>> /\ IsString(s, Rfc)
<1>1. Encoded(str) \in Seq(Char) /\ IsStringBody(Encoded(str), Rfc) /\ QuotesInside(Encoded(str))
  BY EncodedIs, Zenon
<1> QED BY <1>1, QuotedString, QuoteText, Zenon

\* What is printed for the other atoms is a scalar.
LEMMA SevenText == <<"7">> \in Seq(Char) /\ <<"7">> # <<>> /\ IsScalar(<<"7">>, Rfc)
<1>1. PICK s : s = <<"7">>
  OBVIOUS
<1>2. "7" \in Digit /\ "7" \in Char /\ "7" # "-" /\ "7" # "0"
  BY Zenon DEF Digit, Char, Hex
<1>3. OneOf(s, "7") /\ s \in Seq(Char)
  BY <1>1, <1>2, OneIs, Zenon
<1>4. Unsigned(s, {"-"}) = s
  BY <1>2, <1>3, Zenon DEF Unsigned, OneOf
<1>5. IsDigits(s)
  BY <1>2, <1>3, Zenon DEF IsDigits, AllIn, OneOf
<1>6. IsInt(s)
  BY <1>2, <1>3, <1>4, <1>5, Zenon DEF IsInt, OneOf
<1>7. IsNumber(s)
  BY <1>2, <1>3, <1>6, Zenon DEF IsNumber, OneOf
<1> QED BY <1>1, <1>3, <1>7, Zenon DEF IsScalar, OneOf

\* null.
LEMMA NullText ==
  LET null == <<"n", "u", "l", "l">>
  IN  null \in Seq(Char) /\ null # <<>> /\ IsScalar(null, Rfc)
<1>1. "n" \in Char /\ "u" \in Char /\ "l" \in Char
  BY Zenon DEF Char, Escapable, OtherChar
<1>2. <<"n", "u", "l", "l">> \in Seq(Char) /\ <<"n", "u", "l", "l">> # <<>>
  BY <1>1
<1>3. <<"n", "u", "l", "l">> \in Words.null
  BY DEF Words
<1> QED BY <1>2, <1>3, Zenon DEF IsScalar

\* yajl_gen_double prints what sprintf gave it, and no ".0".
LEMMA DoubleTextIs ==
  ASSUME NEW digits \in Seq(Char)
  PROVE  DoubleText(digits) = digits
<1> DEFINE text == IF \A i \in 1..Len(digits) :
                        digits[i] \in {"-", "0", "1", "2", "3", "4", "5", "6", "7", "8", "9"}
                   THEN digits \o <<".", "0">> ELSE digits
<1>1. DoubleText(digits) = SubSeq(text, 1, Len(digits))
  BY Zenon DEF DoubleText
<1>2. text = digits \o <<".", "0">> \/ text = digits
  OBVIOUS
<1>3. "." \in Char /\ "0" \in Char
  BY Zenon DEF Char, OtherChar, Hex, Digit
<1> HIDE DEF text
<1>4. text \in Seq(Char) /\ Len(digits) <= Len(text) /\ \A m \in 1..Len(digits) : text[0 + m] = digits[m]
  <2>1. CASE text = digits
    BY <2>1
  <2>2. CASE text = digits \o <<".", "0">>
    <3>1. <<".", "0">> \in Seq(Char)
      BY <1>3, TwoIs, Zenon
    <3>2. \A w \in Seq(Char) : /\ digits \o w \in Seq(Char) /\ Len(digits) <= Len(digits \o w)
                              /\ \A m \in 1..Len(digits) : (digits \o w)[0 + m] = digits[m]
      OBVIOUS
    <3> QED BY <2>2, <3>1, <3>2, Zenon
  <2> QED BY <1>2, <2>1, <2>2
<1>5. SubSeq(text, 0 + 1, 0 + Len(digits)) = digits
  <2>1. 0 \in Nat /\ 0 + Len(digits) <= Len(text)
    BY <1>4
  <2> QED BY <1>4, <2>1, PartIs, Zenon
<1>6. 0 + 1 = 1 /\ 0 + Len(digits) = Len(digits)
  OBVIOUS
<1> QED BY <1>1, <1>5, <1>6

\* So what it prints is a number.
LEMMA DoubleIs ==
  ASSUME NEW digits \in DoubleTexts
  PROVE  LET text == DoubleText(digits)
         IN  text \in Seq(Char) /\ text # <<>> /\ IsScalar(text, Rfc)
<1>1. digits \in Seq(Char) /\ IsNumber(digits)
  BY DoublesAssumption, Zenon
<1>2. DoubleText(digits) = digits
  BY <1>1, DoubleTextIs, Zenon
<1>3. digits # <<>>
  <2> SUFFICES ASSUME digits = <<>> PROVE FALSE
    OBVIOUS
  <2>1. 1..Len(digits) = {}
    OBVIOUS
  <2>2. ~IsReal(digits)
    BY <2>1, Zenon DEF IsReal
  <2>3. ~IsInt(digits)
    BY Zenon DEF IsInt, Unsigned, IsDigits
  <2> QED BY <1>1, <2>2, <2>3, Zenon DEF IsNumber
<1> QED BY <1>1, <1>2, <1>3, Zenon DEF IsScalar

-----------------------------------------------------------------------------
\* What is printed of the document can be gone on with: it is a JSON text
\* with every text that may stand behind it, by the generator's states.
BegunWith(text, st, d) ==
    /\ text \in Seq(Char)
    /\ \A u \in Seq(Char) : Accepted(text \o u, st, d, Len(text) + 1) => IsDocument(text \o u, Rfc)
Begun == BegunWith(doc, state, depth)
JsonInv == out \in Seq(Char) /\ Spacing /\ (phase # "lost" => Begun)

\* To print w is right when what may stand behind it may, with it, stand
\* where it is printed.
Fits(w) == /\ w \in Seq(Char)
           /\ \A s \in Seq(Char) : \A i :
                 Has(s, i, w) /\ Accepted(s, state', depth', i + Len(w)) => Accepted(s, state, depth, i)

\* After such a text the document can be gone on with.
LEMMA FitsBegun ==
  ASSUME Begun, NEW w, Fits(w), doc' = doc \o w
  PROVE  Begun'
<1>1. doc \in Seq(Char) /\ w \in Seq(Char)
  BY Zenon DEF Begun, BegunWith, Fits
<1>2. doc' \in Seq(Char)
  BY <1>1, TextJoins
<1>3. ASSUME NEW u \in Seq(Char), Accepted(doc' \o u, state', depth', Len(doc') + 1)
      PROVE  IsDocument(doc' \o u, Rfc)
  <2>1. PICK s : s = (doc \o w) \o u
    OBVIOUS
  <2>2. PICK i : i = Len(doc) + 1
    OBVIOUS
  <2>3. /\ s = doc \o (w \o u) /\ s \in Seq(Char) /\ Has(s, i, w)
        /\ Len(doc \o w) + 1 = Len(doc) + 1 + Len(w)
    BY <1>1, <2>1, <2>2, HasWhole, Zenon
  <2>4. w \o u \in Seq(Char)
    BY <1>1, TextJoins
  <2>5. Len(doc') + 1 = i + Len(w)
    BY <2>2, <2>3
  <2>6. Accepted(s, state', depth', i + Len(w))
    BY <1>3, <2>1, <2>5, Zenon
  <2>7. Accepted(s, state, depth, i)
    BY <2>3, <2>6, Zenon DEF Fits
  <2>8. Accepted(doc \o (w \o u), state, depth, Len(doc) + 1)
    BY <2>2, <2>3, <2>7, Zenon
  <2>9. IsDocument(doc \o (w \o u), Rfc)
    BY <2>4, <2>8, Zenon DEF Begun, BegunWith
  <2> QED BY <2>1, <2>3, <2>9, Zenon
<1> QED BY <1>2, <1>3, Zenon DEF Begun, BegunWith

\* What was printed last is what is behind what was there.
LEMMA PrintedBehind ==
  ASSUME NEW v \in Seq(Char), NEW w \in Seq(Char)
  PROVE  v \o w \in Seq(Char) /\ SubSeq(v \o w, Len(v) + 1, Len(v \o w)) = w
<1>1. /\ v \o w \in Seq(Char) /\ Len(v \o w) = Len(v) + Len(w) /\ Len(v) \in Nat
      /\ \A m \in 1..Len(w) : (v \o w)[Len(v) + m] = w[m]
  OBVIOUS
<1>2. Len(v) + Len(w) <= Len(v \o w)
  BY <1>1
<1>3. SubSeq(v \o w, Len(v) + 1, Len(v) + Len(w)) = w
  BY <1>1, <1>2, PartIs, Zenon
<1> QED BY <1>1, <1>3

\* A call that prints w.
LEMMA PrintsJson ==
  ASSUME JsonInv, phase # "lost", NEW w, Fits(w), out' = out \o w, UNCHANGED outputForm,
         NEW fs, Follow(fs)
  PROVE  JsonInv'
<1>1. out \in Seq(Char) /\ w \in Seq(Char) /\ Begun
  BY Zenon DEF JsonInv, Fits
<1>2. out' \in Seq(Char) /\ SubSeq(out', Len(out) + 1, Len(out')) = w
  BY <1>1, PrintedBehind
<1>3. doc' = doc \o w
  BY <1>2 DEF Follow
<1>4. Begun'
  BY <1>1, <1>3, FitsBegun
<1>5. Spacing'
  BY DEF JsonInv, Spacing, outputForm
<1> QED BY <1>2, <1>4, <1>5 DEF JsonInv

\* A call that prints nothing and leaves the states as they are.
LEMMA NothingFits ==
  ASSUME UNCHANGED <<state, depth>>
  PROVE  Fits(<<>>)
<1>1. <<>> \in Seq(Char) /\ Len(<<>>) = 0
  OBVIOUS
<1>2. ASSUME NEW s \in Seq(Char), NEW i, Has(s, i, <<>>), Accepted(s, state', depth', i + Len(<<>>))
      PROVE  Accepted(s, state, depth, i)
  <2>1. i \in 1..Len(s) + 1
    BY <1>2, Zenon DEF Has
  <2>2. i + Len(<<>>) = i
    BY <2>1
  <2> QED BY <1>2, <2>2
<1> QED BY <1>1, <1>2, Zenon DEF Fits

\* A call that is refused.
LEMMA RefuseJson ==
  ASSUME JsonInv, phase # "lost", NEW r, Refuse(r), NEW fs, Follow(fs)
  PROVE  JsonInv'
<1>1. UNCHANGED <<state, depth>> /\ UNCHANGED outputForm /\ out' = out
  BY DEF Refuse
<1>2. Fits(<<>>)
  BY <1>1, NothingFits
<1>3. out' = out \o <<>>
  BY <1>1 DEF JsonInv
<1> QED BY <1>1, <1>2, <1>3, PrintsJson

FourText(o, a, b, c) ==
    /\ ((o \o a) \o b) \o c = o \o ((a \o b) \o c)
    /\ (a \o b) \o c \in Seq(Char) /\ o \o a \in Seq(Char)

\* Four texts behind each other, however they are put together.
LEMMA ShiftFour ==
  ASSUME NEW o \in Seq(Char), NEW a \in Seq(Char), NEW b \in Seq(Char), NEW c \in Seq(Char)
  PROVE  FourText(o, a, b, c)
<1>1. a \o b \in Seq(Char) /\ o \o a \in Seq(Char) /\ (a \o b) \o c \in Seq(Char)
  BY TextJoins
<1>2. (o \o a) \o b = o \o (a \o b)
  BY TextShifts
<1>3. (o \o (a \o b)) \o c = o \o ((a \o b) \o c)
  <2>1. \A x \in Seq(Char) : (o \o x) \o c = o \o (x \o c)
    BY TextShifts
  <2> QED BY <1>1, <2>1, Zenon
<1>4. ((o \o a) \o b) \o c = o \o ((a \o b) \o c)
  BY <1>2, <1>3, Zenon
<1> QED BY <1>1, <1>4, Zenon DEF FourText

\* What a call prints is text.
OnlyText == Lead \in Seq(Char) /\ Newline \in Seq(Char) /\ \A st : Final(st) \in Seq(Char)
\* What stands between the items is text.
LEMMA SpacingText ==
  ASSUME Spacing, depth \in Nat
  PROVE  OnlyText
<1>1. Lead \in Seq(Char)
  BY LeadIsText, Zenon DEF Spacing
<1>2. Newline \in Seq(White) /\ \A st : Final(st) \in Seq(White)
  BY NewlineWhite
<1>3. \A w \in Seq(White) : w \in Seq(Char)
  BY WhiteText, Zenon
<1> QED BY <1>1, <1>2, <1>3, Zenon DEF OnlyText

\* The containers of a client that may make a call.
LEMMA NestedHere ==
  ASSUME Inv, phase # "lost", Valid
  PROVE  Nested(frames, FALSE) /\ depth \in Nat
<1>1. Nested(frames, phase = "done") /\ phase # "done" /\ depth \in Levels
  BY InvNested, Place, Zenon
<1>2. (phase = "done") = FALSE
  BY <1>1
<1>3. depth \in Nat
  BY <1>1 DEF Levels
<1> QED BY <1>1, <1>2, <1>3

\* A call that prints an item.
LEMMA EmitJson ==
  ASSUME Inv, JsonInv, phase # "lost", Valid, NEW text, ItemText(text), Emit(text),
         NEW fs, Follow(fs)
  PROVE  JsonInv'
<1>1. Nested(frames, FALSE) /\ depth \in Nat
  BY NestedHere, Zenon
<1>2. Spacing /\ out \in Seq(Char) /\ text \in Seq(Char)
  BY DEF JsonInv, ItemText
<1> DEFINE w == Lead \o text \o Final(AfterAtom[here])
<1>3. out' = out \o Lead \o text \o Final(AfterAtom[here])
  BY Zenon DEF Emit
<1>4. Lead \in Seq(Char) /\ Final(AfterAtom[here]) \in Seq(Char)
  <2>1. OnlyText
    BY <1>1, <1>2, SpacingText, Zenon
  <2> QED BY <2>1, Zenon DEF OnlyText
<1>5. out' = out \o w /\ w \in Seq(Char)
  <2>1. FourText(out, Lead, text, Final(AfterAtom[here]))
    BY <1>2, <1>3, <1>4, ShiftFour, Zenon
  <2> QED BY <1>3, <2>1, Zenon DEF FourText
<1>6. PICK v : v = w
  OBVIOUS
<1>7. depth' = depth /\ state' = [state EXCEPT ![depth] = AfterAtom[@]]
  BY Zenon DEF Emit
<1>8. \A s \in Seq(Char) : \A i :
         Has(s, i, v) /\ Accepted(s, state', depth', i + Len(v)) => Accepted(s, state, depth, i)
  BY <1>1, <1>2, <1>6, <1>7, EmitAccepts, Zenon
<1>9. Fits(v)
  BY <1>5, <1>6, <1>8, Zenon DEF Fits
<1>10. UNCHANGED outputForm
  BY Zenon DEF Emit
<1> QED BY <1>5, <1>6, <1>9, <1>10, PrintsJson, Zenon

\* A call that opens a container, in the array.
LEMMA OpenedJson ==
  ASSUME Inv, JsonInv, phase # "lost", Valid, ~NeedsKey, NEW opened, NEW bracket,
         \/ bracket = "{" /\ opened = "map_start"
         \/ bracket = "[" /\ opened = "array_start",
         depth' = depth + 1, depth' < MaxDepth, state' = [state EXCEPT ![depth'] = opened],
         out' = out \o Lead \o <<bracket>> \o Newline, UNCHANGED outputForm,
         NEW fs, Follow(fs)
  PROVE  JsonInv'
<1>1. Nested(frames, FALSE) /\ depth \in Nat
  BY NestedHere, Zenon
<1>2. Spacing /\ out \in Seq(Char)
  BY Zenon DEF JsonInv
<1> DEFINE w == Lead \o <<bracket>> \o Newline
<1>3. <<bracket>> \in Seq(Char)
  <2>1. bracket \in Char
    BY Zenon DEF Char, Punctuation
  <2> QED BY <2>1, Single, Zenon
<1>4. Lead \in Seq(Char) /\ Newline \in Seq(Char)
  <2>1. OnlyText
    BY <1>1, <1>2, SpacingText, Zenon
  <2> QED BY <2>1, Zenon DEF OnlyText
<1>5. out' = out \o w /\ w \in Seq(Char)
  <2>1. FourText(out, Lead, <<bracket>>, Newline)
    BY <1>2, <1>3, <1>4, ShiftFour, Zenon
  <2> QED BY <2>1, Zenon DEF FourText
<1>6. PICK v : v = w
  OBVIOUS
<1>7. \A s \in Seq(Char) : \A i :
         Has(s, i, v) /\ Accepted(s, state', depth', i + Len(v)) => Accepted(s, state, depth, i)
  BY <1>1, <1>2, <1>6, OpenAccepts, Zenon
<1>8. Fits(v)
  BY <1>5, <1>6, <1>7, Zenon DEF Fits
<1> QED BY <1>5, <1>6, <1>8, PrintsJson, Zenon

\* The separator that is printed before the depth is found to be too much is
\* text, and the client starts anew.
LEMMA TooDeepJson ==
  ASSUME Inv, JsonInv, phase # "lost", Answer("max_depth_exceeded"), out' = out \o Lead,
         UNCHANGED outputForm, NEW fs, Follow(fs)
  PROVE  JsonInv'
<1>1. depth \in Nat
  BY Place DEF Levels
<1>2. Spacing /\ out \in Seq(Char)
  BY DEF JsonInv
<1>3. Lead \in Seq(Char)
  <2>1. OnlyText
    BY <1>1, <1>2, SpacingText, Zenon
  <2> QED BY <2>1, Zenon DEF OnlyText
<1>4. out' \in Seq(Char)
  <2>1. out \o Lead \in Seq(Char)
    BY <1>2, <1>3, TextJoins, Zenon
  <2> QED BY <2>1, Zenon
<1>5. phase' = "lost"
  BY DEF Answer, Follow
<1>6. Spacing'
  BY <1>2 DEF Spacing, outputForm
<1> QED BY <1>4, <1>5, <1>6 DEF JsonInv

\* A call that closes one.
LEMMA ClosedJson ==
  ASSUME Inv, JsonInv, phase # "lost", NEW f \in {"key", "elem"}, frames # <<>>, Top = f,
         depth' = depth - 1,
         NEW closed, closed = AfterAtom[state[depth']],
         state' = [state EXCEPT ![depth'] = closed],
         out' = out \o Newline \o Indent(depth', closed) \o <<Brackets[f]>> \o Final(closed),
         UNCHANGED outputForm, NEW fs, Follow(fs)
  PROVE  JsonInv'
<1>1. Nested(frames, FALSE) /\ depth \in Nat /\ depth' \in Nat
  <2>1. depth \in Levels /\ depth >= 1 /\ phase = "open"
    BY Place, Zenon
  <2>2. depth \in Nat /\ depth' \in Nat
    BY <2>1 DEF Levels
  <2> QED BY <2>1, <2>2, InvNested
<1>2. Spacing /\ out \in Seq(Char)
  BY Zenon DEF JsonInv
<1> DEFINE w == Newline \o Indent(depth', closed) \o <<Brackets[f]>> \o Final(closed)
<1>3. <<Brackets[f]>> \in Seq(Char)
  <2>1. Brackets[f] \in Char
    BY BracketsAre, Zenon DEF Char
  <2> QED BY <2>1, Single, Zenon
<1>4. Newline \in Seq(Char) /\ Indent(depth', closed) \in Seq(Char) /\ Final(closed) \in Seq(Char)
  <2>1. OnlyText
    BY <1>1, <1>2, SpacingText, Zenon
  <2>2. Indent(depth', closed) \in Seq(White)
    BY <1>1, <1>2, IndentWhite, Zenon DEF Spacing
  <2>3. Indent(depth', closed) \in Seq(Char)
    BY <2>2, WhiteText, Zenon
  <2> QED BY <2>1, <2>3, Zenon DEF OnlyText
<1>5. out' = out \o w /\ w \in Seq(Char)
  <2>1. PICK a : a = Newline \o Indent(depth', closed)
    OBVIOUS
  <2>0. (out \o Newline) \o Indent(depth', closed) = out \o (Newline \o Indent(depth', closed))
    <3>1. \A x, y \in Seq(Char) : (out \o x) \o y = out \o (x \o y)
      BY <1>2, TextShifts
    <3> QED BY <1>4, <3>1, Zenon
  <2>2. (out \o Newline) \o Indent(depth', closed) = out \o a /\ a \in Seq(Char)
    <3>1. Newline \o Indent(depth', closed) \in Seq(Char)
      BY <1>4, TextJoins, Zenon
    <3>2. a \in Seq(Char)
      BY <2>1, <3>1, Zenon
    <3>3. (out \o Newline) \o Indent(depth', closed) = out \o a
      BY <2>0, <2>1, Zenon
    <3> QED BY <3>2, <3>3, Zenon
  <2>3. FourText(out, a, <<Brackets[f]>>, Final(closed))
    BY <1>2, <1>3, <1>4, <2>2, ShiftFour, Zenon
  <2> QED BY <2>1, <2>2, <2>3, Zenon DEF FourText
<1>6. PICK v : v = w
  OBVIOUS
<1>7. frames[Len(frames)] = f
  BY Zenon DEF Top
<1>8. \A s \in Seq(Char) : \A i :
         Has(s, i, v) /\ Accepted(s, state', depth', i + Len(v)) => Accepted(s, state, depth, i)
  BY <1>1, <1>2, <1>6, <1>7, CloseAccepts, Zenon
<1>9. Fits(v)
  BY <1>5, <1>6, <1>8, Zenon DEF Fits
<1> QED BY <1>5, <1>6, <1>9, PrintsJson, Zenon

\* The actions, one by one: yajl_gen_null and the like.
LEMMA AtomJson ==
  ASSUME Inv, JsonInv, phase # "lost", NEW fs, Follow(fs), NEW text, gen_atom(text),
         text \in Seq(Char), text # <<>>, IsScalar(text, Rfc)
  PROVE  JsonInv'
<1>1. \/ \E r : Refuse(r)
      \/ Valid /\ ~NeedsKey /\ Emit(text)
  BY Zenon DEF gen_atom, EnsureValue, EnsureValidState
<1>2. ASSUME NEW r, Refuse(r) PROVE JsonInv'
  BY <1>2, RefuseJson, Zenon
<1>3. ASSUME Valid, ~NeedsKey, Emit(text) PROVE JsonInv'
  <2>1. ItemText(text)
    BY <1>3, Zenon DEF ItemText
  <2> QED BY <1>3, <2>1, EmitJson, Zenon
<1> QED BY <1>1, <1>2, <1>3, Zenon

\* yajl_gen_double.
LEMMA DoubleJson ==
  ASSUME Inv, JsonInv, phase # "lost", NEW fs, Follow(fs), NEW digits \in DoubleTexts, NEW finite,
         gen_double(digits, finite)
  PROVE  JsonInv'
<1> DEFINE text == DoubleText(digits)
<1>0. text \in Seq(Char) /\ text # <<>> /\ IsScalar(text, Rfc)
  BY DoubleIs, Zenon
<1> HIDE DEF text
<1>1. \/ \E r : Refuse(r)
      \/ Valid /\ ~NeedsKey /\ Emit(text)
  BY Zenon DEF gen_double, EnsureValue, EnsureValidState, text
<1>2. ASSUME NEW r, Refuse(r) PROVE JsonInv'
  BY <1>2, RefuseJson, Zenon
<1>3. ASSUME Valid, ~NeedsKey, Emit(text) PROVE JsonInv'
  <2>1. ItemText(text)
    BY <1>0, <1>3, Zenon DEF ItemText
  <2> QED BY <1>3, <2>1, EmitJson, Zenon
<1> QED BY <1>1, <1>2, <1>3, Zenon

\* Any of them.
LEMMA AtomActionJson == ASSUME Inv, JsonInv, Atom PROVE JsonInv'
<1>1. phase # "lost" /\ Follow(PastValue)
  BY Zenon DEF Atom, Asks
<1>2. \/ gen_atom(<<"7">>) \/ gen_atom(<<"n", "u", "l", "l">>)
      \/ \E digits \in DoubleTexts, finite \in BOOLEAN : gen_double(digits, finite)
  BY Zenon DEF Atom
<1>3. CASE gen_atom(<<"7">>)
  BY <1>1, <1>3, SevenText, AtomJson, Zenon
<1>4. CASE gen_atom(<<"n", "u", "l", "l">>)
  BY <1>1, <1>4, NullText, AtomJson, Zenon
<1>5. CASE \E digits \in DoubleTexts, finite \in BOOLEAN : gen_double(digits, finite)
  BY <1>1, <1>5, DoubleJson, Zenon
<1> QED BY <1>2, <1>3, <1>4, <1>5, Zenon

\* What yajl_gen_string prints is a key or a value.
LEMMA StringItem ==
  ASSUME NEW str \in Strings, NEW text, text = <<"\"">> \o Encoded(str) \o <<"\"">>
  PROVE  ItemText(text)
<1>1. str \in Seq(ClientChar) /\ IsUtf8(str)
  BY StringsAssumption, Zenon
<1>2. text \in Seq(Char) /\ text # <<>> /\ IsString(text, Rfc)
  BY <1>1, StringText, Zenon
<1> QED BY <1>2, Zenon DEF ItemText, IsScalar

\* yajl_gen_string.
LEMMA StringJson == ASSUME Inv, JsonInv, String PROVE JsonInv'
<1>1. PICK fs : Follow(fs)
  BY Zenon DEF String
<1>2. phase # "lost"
  BY Zenon DEF String, Asks
<1>3. PICK str \in Strings : \E valid \in BOOLEAN : gen_string(str, valid)
  BY Zenon DEF String
<1>4. PICK text : text = <<"\"">> \o Encoded(str) \o <<"\"">>
  OBVIOUS
<1>5. \/ \E r : Refuse(r)
      \/ Valid /\ Emit(text)
  BY <1>3, <1>4, Zenon DEF gen_string, EnsureValidState
<1>6. ASSUME NEW r, Refuse(r) PROVE JsonInv'
  BY <1>1, <1>2, <1>6, RefuseJson, Zenon
<1>7. ASSUME Valid, Emit(text) PROVE JsonInv'
  <2>1. ItemText(text)
    BY <1>4, StringItem, Zenon
  <2> QED BY <1>1, <1>2, <1>7, <2>1, EmitJson, Zenon
<1> QED BY <1>5, <1>6, <1>7, Zenon

\* The deepest level there is.
LEMMA LastLevel == \A d \in Levels : ~(d + 1 >= MaxDepth) => d + 1 < MaxDepth
BY GenMaxDepthAssumption DEF Levels

\* yajl_gen_map_open and yajl_gen_array_open.
LEMMA OpenJson ==
  ASSUME Inv, JsonInv, phase # "lost", NEW opened, NEW bracket, gen_open(opened, bracket),
         \/ bracket = "{" /\ opened = "map_start"
         \/ bracket = "[" /\ opened = "array_start",
         NEW fs, Follow(fs)
  PROVE  JsonInv'
<1>1. \/ \E r : Refuse(r)
      \/ /\ Valid /\ ~NeedsKey /\ depth' = depth + 1 /\ ~(depth' >= MaxDepth) /\ UNCHANGED outputForm
         /\ state' = [state EXCEPT ![depth'] = opened] /\ out' = out \o Lead \o <<bracket>> \o Newline
      \/ Answer("max_depth_exceeded") /\ out' = out \o Lead /\ UNCHANGED outputForm
  BY Zenon DEF gen_open, EnsureValue, EnsureValidState
<1>2. ASSUME NEW r, Refuse(r) PROVE JsonInv'
  BY <1>2, RefuseJson, Zenon
<1>3. ASSUME Valid, ~NeedsKey, depth' = depth + 1, ~(depth' >= MaxDepth), UNCHANGED outputForm,
             state' = [state EXCEPT ![depth'] = opened], out' = out \o Lead \o <<bracket>> \o Newline
      PROVE  JsonInv'
  <2>1. depth \in Levels
    BY Place, Zenon
  <2>3. depth' < MaxDepth
    BY <1>3, <2>1, LastLevel, Zenon
  <2> QED BY <1>3, <2>3, OpenedJson, Zenon
<1>4. ASSUME Answer("max_depth_exceeded"), out' = out \o Lead, UNCHANGED outputForm PROVE JsonInv'
  BY <1>4, TooDeepJson, Zenon
<1> QED BY <1>1, <1>2, <1>3, <1>4, Zenon

LEMMA OpenActionJson == ASSUME Inv, JsonInv, Open PROVE JsonInv'
<1>1. phase # "lost"
  BY Zenon DEF Open, Asks
<1>2. \/ gen_open("map_start", "{") /\ \E fs : Follow(fs)
      \/ gen_open("array_start", "[") /\ \E fs : Follow(fs)
  BY Zenon DEF Open, map_open, array_open
<1> QED BY <1>1, <1>2, OpenJson, Zenon

\* yajl_gen_map_close and yajl_gen_array_close.
LEMMA CloseJson ==
  ASSUME Inv, JsonInv, phase # "lost", NEW f \in {"key", "elem"}, MayClose(f),
         NEW bracket, bracket = Brackets[f], gen_close(bracket), NEW fs, Follow(fs)
  PROVE  JsonInv'
<1>1. CASE Refuse(Invalid)
  BY <1>1, RefuseJson, Zenon
<1>2. CASE Valid /\ ~Refuse(Invalid)
  <2>1. frames # <<>> /\ Top = f
    BY <1>2, Place DEF MayClose
  <2>2. depth \in Levels /\ depth >= 1
    BY <2>1, Place, Zenon
  <2>3. \A d \in Levels : d >= 1 => d # 0 /\ ~(d - 1 >= MaxDepth)
    BY GenMaxDepthAssumption DEF Levels
  <2>4. /\ depth' = depth - 1 /\ UNCHANGED outputForm
        /\ state' = [state EXCEPT ![depth'] = AfterAtom[state[depth']]]
        /\ out' = out \o Newline \o Indent(depth', AfterAtom[state[depth']])
                      \o <<bracket>> \o Final(AfterAtom[state[depth']])
    <3>1. depth # 0 /\ ~(depth - 1 >= MaxDepth)
      BY <2>2, <2>3, Zenon
    <3> QED BY <1>2, <3>1, Zenon DEF gen_close, EnsureValidState
  <2>5. PICK closed : closed = AfterAtom[state[depth']]
    OBVIOUS
  <2>6. /\ state' = [state EXCEPT ![depth'] = closed]
        /\ out' = out \o Newline \o Indent(depth', closed) \o <<Brackets[f]>> \o Final(closed)
    BY <2>4, <2>5, Zenon
  <2> QED BY <2>1, <2>4, <2>5, <2>6, ClosedJson, Zenon
<1> QED BY <1>1, <1>2, Zenon DEF gen_close, EnsureValidState

LEMMA CloseActionJson == ASSUME Inv, JsonInv, Close PROVE JsonInv'
<1>1. phase # "lost" /\ \E fs : Follow(fs)
  BY Zenon DEF Close
<1>2. \/ MayClose("key") /\ gen_close("}")
      \/ MayClose("elem") /\ gen_close("]")
  BY Zenon DEF Close, map_close, array_close
<1>3. Brackets["key"] = "}" /\ Brackets["elem"] = "]"
  BY DEF Brackets
<1> QED BY <1>1, <1>2, <1>3, CloseJson, Zenon

\* Of a new document everything is still to be printed.
LEMMA NewBegun ==
  ASSUME NEW st, st[0] = "start"
  PROVE  BegunWith(<<>>, st, 0)
<1>1. \A u \in Seq(Char) : <<>> \o u = u
  OBVIOUS
<1>2. Len(<<>>) + 1 = 1 /\ <<>> \in Seq(Char)
  OBVIOUS
<1>3. ASSUME NEW u \in Seq(Char), Accepted(u, st, 0, 1)
      PROVE  IsDocument(u, Rfc)
  <2>1. PICK e : Rest(u, "start", 1, e) /\ Chain(u, st, 0, e)
    BY <1>3, Zenon DEF Accepted
  <2>2. e = Len(u) + 1
    BY <2>1 DEF Chain
  <2> QED BY <2>1, <2>2, WholeRule, Zenon
<1> QED BY <1>1, <1>2, <1>3, Zenon DEF BegunWith

\* No text is a text.
LEMMA NoText == <<>> \in Seq(Char)
OBVIOUS

\* yajl_gen_alloc.
LEMMA InitJson == Init => JsonInv
<1> SUFFICES ASSUME Init PROVE JsonInv
  OBVIOUS
<1>1. /\ depth = 0 /\ state = [i \in Levels |-> "start"] /\ doc = <<>> /\ out = <<>>
      /\ indentString = <<" ", " ", " ", " ">>
  BY Zenon DEF Init, GenInit
<1>2. 0 \in Levels
  BY GenMaxDepthAssumption DEF Levels
<1>3. state[0] = "start"
  BY <1>1, <1>2, Zenon
<1>4. " " \in White /\ \A c \in White : <<c, c, c, c>> \in Seq(White)
  BY DEF White
<1>5. indentString \in Seq(White) /\ out \in Seq(Char)
  BY <1>1, <1>4, NoText, Zenon
<1> QED BY <1>1, <1>3, <1>5, NewBegun, Zenon DEF JsonInv, Spacing, Begun

\* yajl_gen_config.
LEMMA ConfigureJson == ASSUME JsonInv, Configure PROVE JsonInv'
<1>1. phase' = phase /\ doc' = doc /\ state' = state /\ depth' = depth
  BY DEF Configure, GenConfig, ConfigIndent, ConfigPrint
<1>2. indentString' = indentString \/ indentString' \in IndentStrings
  BY Zenon DEF Configure, GenConfig, ConfigIndent, ConfigPrint
<1>3. out' = out \/ out' = <<>>
  BY Zenon DEF Configure, GenConfig, ConfigIndent, ConfigPrint
<1>4. Spacing'
  BY <1>2, IndentsAssumption DEF JsonInv, Spacing
<1>5. out' \in Seq(Char)
  BY <1>3, NoText, Zenon DEF JsonInv
<1>6. Begun => Begun'
  BY <1>1, Zenon DEF Begun
<1> QED BY <1>1, <1>4, <1>5, <1>6, Zenon DEF JsonInv

\* yajl_gen_reset.
LEMMA ResetJson == ASSUME JsonInv, Reset PROVE JsonInv'
<1>1. /\ depth' = 0 /\ state' = [i \in Levels |-> "start"] /\ doc' = <<>>
      /\ indentString' = indentString
  BY Zenon DEF Reset, gen_reset, outputForm
<1>2. out' = out \o <<>> \/ out' = out \o <<"\n">>
  BY Zenon DEF Reset, gen_reset
<1>3. 0 \in Levels
  BY GenMaxDepthAssumption DEF Levels
<1>4. state'[0] = "start"
  BY <1>1, <1>3, Zenon
<1>5. "\n" \in Char
  BY DEF Char, White
<1>6. <<>> \in Seq(Char) /\ <<"\n">> \in Seq(Char)
  BY <1>5, Single, Zenon
<1>7. out' \in Seq(Char)
  BY <1>2, <1>6, TextJoins, Zenon DEF JsonInv
<1> QED BY <1>1, <1>4, <1>7, NewBegun, Zenon DEF JsonInv, Spacing, Begun

\* yajl_gen_get_buf and yajl_gen_clear.
LEMMA TakeJson == ASSUME JsonInv, Take PROVE JsonInv'
<1>1. /\ phase' = phase /\ doc' = doc /\ state' = state /\ depth' = depth
      /\ indentString' = indentString
  BY Zenon DEF Take, get_buf, gen_clear, outputForm
<1>2. out' = out \/ out' = <<>>
  BY Zenon DEF Take, get_buf, gen_clear
<1>3. out' \in Seq(Char)
  BY <1>2, NoText, Zenon DEF JsonInv
<1>4. Begun => Begun'
  BY <1>1, Zenon DEF Begun
<1> QED BY <1>1, <1>3, <1>4, Zenon DEF JsonInv, Spacing

LEMMA StillJson == ASSUME JsonInv, UNCHANGED vars PROVE JsonInv'
<1>1. /\ phase' = phase /\ doc' = doc /\ state' = state /\ depth' = depth
      /\ indentString' = indentString /\ out' = out
  BY DEF vars, genVars
<1>2. Begun => Begun'
  BY <1>1, Zenon DEF Begun
<1> QED BY <1>1, <1>2, Zenon DEF JsonInv, Spacing

\* Every step keeps it.
LEMMA StepJson == ASSUME Inv, JsonInv, [Next]_vars PROVE JsonInv'
BY ConfigureJson, AtomActionJson, StringJson, OpenActionJson, CloseActionJson, ResetJson, TakeJson,
   StillJson, Zenon DEF Next

\* What was printed of the document can always be gone on with.
THEOREM GenBegun == Spec => []JsonInv
<1> QED BY InitJson, StepJson, GenInvariance, PTL DEF Spec

-----------------------------------------------------------------------------
\* The endings of the containers fs: f[n] ends the n outermost ones.
Endings(f, fs, n) ==
    f = [k \in 0..n |-> IF k = 0 THEN <<>> ELSE Ending[fs[k]] \o f[k - 1]]

\* There are such endings for any containers.
LEMMA EndingsExist ==
  ASSUME NEW fs, NEW n \in Nat
  PROVE  \E f : Endings(f, fs, n)
<1> DEFINE T == {k \in Nat : \E f : Endings(f, fs, k)}
<1>1. 0 \in T
  <2> DEFINE f == [k \in 0..0 |-> <<>>]
  <2>1. \A k \in 0..0 : f[k] = IF k = 0 THEN <<>> ELSE Ending[fs[k]] \o f[k - 1]
    OBVIOUS
  <2>2. f = [k \in 0..0 |-> f[k]]
    OBVIOUS
  <2> HIDE DEF f
  <2>3. Endings(f, fs, 0)
    BY <2>1, <2>2 DEF Endings
  <2> QED BY <2>3
<1>2. ASSUME NEW k \in Nat, k \in T PROVE k + 1 \in T
  <2>1. PICK f : Endings(f, fs, k)
    BY <1>2
  <2> DEFINE g == [i \in 0..k + 1 |-> IF i = k + 1 THEN Ending[fs[i]] \o f[k] ELSE f[i]]
  <2>2. \A i \in 0..k : g[i] = f[i]
    OBVIOUS
  <2>3. \A i \in 0..k + 1 : g[i] = IF i = 0 THEN <<>> ELSE Ending[fs[i]] \o g[i - 1]
    <3> TAKE i \in 0..k + 1
    <3>1. CASE i = k + 1
      <4>0. g[i] = Ending[fs[i]] \o f[k]
        BY <3>1, Zenon
      <4> HIDE DEF g
      <4>1. i # 0 /\ i - 1 = k /\ k \in 0..k
        BY <3>1
      <4>2. g[i - 1] = f[k]
        BY <2>2, <4>1, Zenon
      <4> QED BY <4>0, <4>1, <4>2, Zenon
    <3>2. CASE i # k + 1
      <4>1. i \in 0..k /\ (i # 0 => i - 1 \in 0..k)
        BY <3>2
      <4>2. f[i] = IF i = 0 THEN <<>> ELSE Ending[fs[i]] \o f[i - 1]
        BY <2>1, <4>1, Zenon DEF Endings
      <4> HIDE DEF g
      <4>3. g[i] = f[i] /\ (i # 0 => g[i - 1] = f[i - 1])
        BY <2>2, <4>1, Zenon
      <4> QED BY <4>2, <4>3, Zenon
    <3> QED BY <3>1, <3>2
  <2>4. g = [i \in 0..k + 1 |-> g[i]]
    OBVIOUS
  <2> HIDE DEF g
  <2>5. Endings(g, fs, k + 1)
    BY <2>3, <2>4, Zenon DEF Endings
  <2> QED BY <2>5
<1> HIDE DEF T
<1>3. Nat \subseteq T
  BY <1>1, <1>2, Induction
<1> QED BY <1>3 DEF T

\* Completion is made of them.
LEMMA CompletionIs ==
  ASSUME Len(frames) \in Nat
  PROVE  \E f : Endings(f, frames, Len(frames))
                 /\ Completion = IF phase = "fresh" THEN <<"7">> ELSE f[Len(frames)]
<1> DEFINE F == CHOOSE f : f = [n \in 0..Len(frames) |->
                                   IF n = 0 THEN <<>> ELSE Ending[frames[n]] \o f[n - 1]]
<1>1. \E f : f = [n \in 0..Len(frames) |-> IF n = 0 THEN <<>> ELSE Ending[frames[n]] \o f[n - 1]]
  BY EndingsExist, Zenon DEF Endings
<1>2. F = [n \in 0..Len(frames) |-> IF n = 0 THEN <<>> ELSE Ending[frames[n]] \o F[n - 1]]
  BY <1>1
<1>3. Completion = IF phase = "fresh" THEN <<"7">> ELSE F[Len(frames)]
  BY Zenon DEF Completion
<1> HIDE DEF F
<1>4. Endings(F, frames, Len(frames))
  BY <1>2, Zenon DEF Endings
<1> QED BY <1>3, <1>4, Zenon

-----------------------------------------------------------------------------
\* The text t ends the n outermost containers, and all of it does.
Closes(t, h, n) == /\ t \in Seq(Char)
                   /\ \A pre \in Seq(Char) : Chain(pre \o t, h, n, Len(pre) + 1)
\* It ends the document behind what the generator has printed.
Finishes(t, h, d) == /\ t \in Seq(Char)
                     /\ \A pre \in Seq(Char) : Accepted(pre \o t, h, d, Len(pre) + 1)

\* A place and the end of a text, as the rules want them.
LEMMA EndHere ==
  ASSUME NEW s \in Seq(Char)
  PROVE  Len(s) + 1 \in 1..Len(s) + 1 /\ Rest(s, "complete", Len(s) + 1, Len(s) + 1)
<1>1. Len(s) + 1 \in 1..Len(s) + 1
  OBVIOUS
<1> QED BY <1>1, SpaceHere, RestIs, Zenon

\* Nothing, behind a text.
LEMMA NothingBehind == \A pre \in Seq(Char) : pre \o <<>> = pre
OBVIOUS

\* Nothing ends the document that is complete, and no container in it.
LEMMA ClosesNone ==
  ASSUME NEW h, AfterAtom[h[0]] = "complete"
  PROVE  Closes(<<>>, h, 1)
<1>1. ASSUME NEW pre \in Seq(Char) PROVE Chain(pre, h, 1, Len(pre) + 1)
  <2>1. Rest(pre, AfterAtom[h[0]], Len(pre) + 1, Len(pre) + 1)
    BY EndHere, Zenon
  <2>2. Chain(pre, h, 0, Len(pre) + 1) /\ 0 \in Nat /\ 0 + 1 = 1
    BY ChainEnd
  <2> QED BY <2>1, <2>2, ChainGrows, Zenon
<1> QED BY <1>1, NothingBehind, NoText, Zenon DEF Closes

\* Nothing ends the document that is complete.
LEMMA FinishesComplete ==
  ASSUME NEW h, h[0] = "complete"
  PROVE  Finishes(<<>>, h, 0)
<1>1. ASSUME NEW pre \in Seq(Char) PROVE Accepted(pre, h, 0, Len(pre) + 1)
  <2>1. Rest(pre, h[0], Len(pre) + 1, Len(pre) + 1)
    BY EndHere, Zenon
  <2>2. Chain(pre, h, 0, Len(pre) + 1)
    BY ChainEnd
  <2> QED BY <2>1, <2>2, Zenon DEF Accepted
<1> QED BY <1>1, NothingBehind, NoText, Zenon DEF Finishes

\* s is pre, the bracket or the like w, and the text t behind it.
Thirds(s, pre, w, t) ==
    /\ s \in Seq(Char) /\ s = (pre \o w) \o t /\ s = pre \o (w \o t)
    /\ pre \o w \in Seq(Char) /\ w \o t \in Seq(Char)
    /\ Has(s, Len(pre) + 1, w) /\ Len(pre \o w) + 1 = Len(pre) + 1 + Len(w)

\* Three texts behind each other.
LEMMA ThirdsAre ==
  ASSUME NEW pre \in Seq(Char), NEW w \in Seq(Char), NEW t \in Seq(Char)
  PROVE  Thirds((pre \o w) \o t, pre, w, t)
<1>1. pre \o w \in Seq(Char) /\ w \o t \in Seq(Char)
  BY TextJoins, Zenon
<1>2. /\ (pre \o w) \o t = pre \o (w \o t) /\ (pre \o w) \o t \in Seq(Char)
      /\ Has((pre \o w) \o t, Len(pre) + 1, w) /\ Len(pre \o w) + 1 = Len(pre) + 1 + Len(w)
  BY HasWhole, Zenon
<1> QED BY <1>1, <1>2, Zenon DEF Thirds

\* The container f in the state st ends with its bracket.
LEMMA BracketEnds ==
  ASSUME NEW f \in {"key", "elem"}, NEW st \in StateOf[f], NEW s \in Seq(Char), NEW i,
         Stands(s, i, Brackets[f])
  PROVE  Rest(s, st, i, i + 1)
<1>1. i \in 1..Len(s) + 1
  BY DEF Stands
<1> QED BY <1>1, SpaceHere, CloseRule, Zenon

\* A bracket is a text.
LEMMA BracketText == \A f \in {"key", "elem"} : <<Brackets[f]>> \in Seq(Char)
<1>1. \A f \in {"key", "elem"} : Brackets[f] \in Char
  BY BracketsAre, Zenon DEF Char
<1> QED BY <1>1, Single, Zenon

\* A bracket and what closes those around it.
LEMMA ClosesOne ==
  ASSUME NEW h, NEW n \in Nat, NEW t, Closes(t, h, n), NEW f \in {"key", "elem"},
         AfterAtom[h[n]] \in StateOf[f]
  PROVE  Closes(<<Brackets[f]>> \o t, h, n + 1)
<1>1. PICK w : w = <<Brackets[f]>>
  OBVIOUS
<1>2. w \in Seq(Char) /\ t \in Seq(Char)
  BY <1>1, BracketText, Zenon DEF Closes
<1>3. ASSUME NEW pre \in Seq(Char) PROVE Chain(pre \o (w \o t), h, n + 1, Len(pre) + 1)
  <2>1. PICK s : s = (pre \o w) \o t
    OBVIOUS
  <2>2. Thirds(s, pre, w, t)
    BY <1>2, <2>1, ThirdsAre, Zenon
  <2>3. PICK i : i = Len(pre) + 1
    OBVIOUS
  <2>4. /\ s \in Seq(Char) /\ pre \o w \in Seq(Char) /\ s = (pre \o w) \o t
        /\ Has(s, i, w) /\ Len(pre \o w) + 1 = i + Len(w)
    BY <2>2, <2>3, Zenon DEF Thirds
  <2>5. Stands(s, i, Brackets[f]) /\ i + Len(w) = i + 1
    BY <1>1, <2>4, HasOne, Zenon
  <2>6. Rest(s, AfterAtom[h[n]], i, i + 1)
    BY <2>4, <2>5, BracketEnds, Zenon
  <2>7. Chain(s, h, n, i + 1)
    BY <2>4, <2>5, Zenon DEF Closes
  <2>8. Chain(s, h, n + 1, i)
    BY <2>4, <2>6, <2>7, ChainGrows, Zenon
  <2> QED BY <2>2, <2>3, <2>8, Zenon DEF Thirds
<1>4. w \o t \in Seq(Char)
  BY <1>2, TextJoins, Zenon
<1> QED BY <1>1, <1>3, <1>4, Zenon DEF Closes

\* The innermost container, behind an element or a whole member.
LEMMA FinishesOne ==
  ASSUME NEW h, NEW d \in Nat, NEW t, Closes(t, h, d), NEW f \in {"key", "elem"},
         h[d] \in StateOf[f]
  PROVE  Finishes(<<Brackets[f]>> \o t, h, d)
<1>1. PICK w : w = <<Brackets[f]>>
  OBVIOUS
<1>2. w \in Seq(Char) /\ t \in Seq(Char)
  BY <1>1, BracketText, Zenon DEF Closes
<1>3. ASSUME NEW pre \in Seq(Char) PROVE Accepted(pre \o (w \o t), h, d, Len(pre) + 1)
  <2>1. PICK s : s = (pre \o w) \o t
    OBVIOUS
  <2>2. Thirds(s, pre, w, t)
    BY <1>2, <2>1, ThirdsAre, Zenon
  <2>3. PICK i : i = Len(pre) + 1
    OBVIOUS
  <2>4. /\ s \in Seq(Char) /\ pre \o w \in Seq(Char) /\ s = (pre \o w) \o t
        /\ Has(s, i, w) /\ Len(pre \o w) + 1 = i + Len(w)
    BY <2>2, <2>3, Zenon DEF Thirds
  <2>5. Stands(s, i, Brackets[f]) /\ i + Len(w) = i + 1
    BY <1>1, <2>4, HasOne, Zenon
  <2>6. Rest(s, h[d], i, i + 1)
    BY <2>4, <2>5, BracketEnds, Zenon
  <2>7. Chain(s, h, d, i + 1)
    BY <2>4, <2>5, Zenon DEF Closes
  <2>8. Accepted(s, h, d, i)
    BY <2>6, <2>7, Zenon DEF Accepted
  <2> QED BY <2>2, <2>3, <2>8, Zenon DEF Thirds
<1>4. w \o t \in Seq(Char)
  BY <1>2, TextJoins, Zenon
<1> QED BY <1>1, <1>3, <1>4, Zenon DEF Finishes

\* Three characters at i.
LEMMA HasThree ==
  ASSUME NEW s \in Seq(Char), NEW i, NEW w, NEW a, NEW b, NEW c, w = <<a, b, c>>, Has(s, i, w)
  PROVE  /\ i + Len(w) = (i + 1) + 1 + 1 /\ i \in Nat
         /\ Stands(s, i, a) /\ Stands(s, i + 1, b) /\ Stands(s, (i + 1) + 1, c)
<1>1. Len(w) = 3 /\ w[1] = a /\ w[2] = b /\ w[3] = c
  OBVIOUS
<1>2. i \in 1..Len(s) + 1 /\ i + 3 \in 1..Len(s) + 1 /\ \A m \in 1..3 : s[i + m - 1] = w[m]
  BY <1>1 DEF Has
<1>3. i + 1 - 1 = i /\ i + 2 - 1 = i + 1 /\ i + 3 - 1 = (i + 1) + 1
  BY <1>2
<1>4. s[i] = a /\ s[i + 1] = b /\ s[(i + 1) + 1] = c
  <2>1. 1 \in 1..3 /\ 2 \in 1..3 /\ 3 \in 1..3
    OBVIOUS
  <2> QED BY <1>1, <1>2, <1>3, <2>1, Zenon
<1>5. i \in 1..Len(s) /\ i + 1 \in 1..Len(s) /\ (i + 1) + 1 \in 1..Len(s)
  BY <1>2
<1> QED BY <1>1, <1>2, <1>4, <1>5 DEF Stands

\* A 7 is a value.
LEMMA HasSeven ==
  ASSUME NEW s \in Seq(Char), NEW i, Stands(s, i, "7")
  PROVE  i + 1 \in Ends(s, i, "value") /\ i \in SpaceEnds(s, i)
<1>1. i \in 1..Len(s) /\ s[i] = "7"
  BY DEF Stands
<1>2. Has(s, i, <<"7">>) /\ i + Len(<<"7">>) = i + 1 /\ i \in 1..Len(s) + 1
  <2>1. \A c : s[i] = c => Has(s, i, <<c>>) /\ i + Len(<<c>>) = i + 1 /\ i \in 1..Len(s) + 1
    BY <1>1 DEF Has
  <2> QED BY <1>1, <2>1, Zenon
<1>3. i + Len(<<"7">>) \in Ends(s, i, "value")
  BY <1>2, SevenText, HasScalar, Zenon
<1> QED BY <1>2, <1>3, SpaceHere, Zenon

\* A key without its value.
LEMMA ValueEnded ==
  ASSUME NEW s \in Seq(Char), NEW i \in Nat,
         Stands(s, i, ":"), Stands(s, i + 1, "7"), Stands(s, (i + 1) + 1, "}")
  PROVE  Rest(s, "map_val", i, ((i + 1) + 1) + 1)
<1>1. (i + 1) + 1 \in Ends(s, i + 1, "value") /\ i + 1 \in SpaceEnds(s, i + 1)
  BY HasSeven, Zenon
<1>2. i \in 1..Len(s) + 1
  BY Within, Zenon DEF Stands
<1>3. LeadTo(s, "map_val", i, i + 1)
  BY <1>1, LeadIs, Zenon
<1>4. Item(s, "map_val", i + 1, (i + 1) + 1)
  BY <1>1, Zenon DEF Item
<1>5. "key" \in {"key", "elem"} /\ "map_key" \in StateOf["key"] /\ Brackets["key"] = "}"
  BY DEF StateOf, Brackets
<1>6. Rest(s, "map_key", (i + 1) + 1, ((i + 1) + 1) + 1)
  BY <1>5, BracketEnds, Zenon
<1>7. "map_val" \in Places \ {"complete"} /\ AfterAtom["map_val"] = "map_key"
  BY AfterAtomIs DEF Places
<1> QED BY <1>2, <1>3, <1>4, <1>6, <1>7, ItemStep, Zenon

\* The value that is missing, and the bracket.
LEMMA ValueText == <<":", "7", "}">> \in Seq(Char)
<1>1. ":" \in Char /\ "7" \in Char /\ "}" \in Char
  <2>1. ":" \in Punctuation /\ "}" \in Punctuation /\ "7" \in Digit
    BY Zenon DEF Punctuation, Digit
  <2> QED BY <2>1, Zenon DEF Char, Hex
<1>2. \A a, b, c \in Char : <<a, b, c>> \in Seq(Char)
  OBVIOUS
<1> QED BY <1>1, <1>2, Zenon

\* The innermost container, behind a key.
LEMMA FinishesValue ==
  ASSUME NEW h, NEW d \in Nat, NEW t, Closes(t, h, d), h[d] = "map_val"
  PROVE  Finishes(<<":", "7", "}">> \o t, h, d)
<1>1. PICK w : w = <<":", "7", "}">>
  OBVIOUS
<1>2. w \in Seq(Char) /\ t \in Seq(Char)
  BY <1>1, ValueText, Zenon DEF Closes
<1>3. ASSUME NEW pre \in Seq(Char) PROVE Accepted(pre \o (w \o t), h, d, Len(pre) + 1)
  <2>1. PICK s : s = (pre \o w) \o t
    OBVIOUS
  <2>2. Thirds(s, pre, w, t)
    BY <1>2, <2>1, ThirdsAre, Zenon
  <2>3. PICK i : i = Len(pre) + 1
    OBVIOUS
  <2>4. /\ s \in Seq(Char) /\ pre \o w \in Seq(Char) /\ s = (pre \o w) \o t
        /\ Has(s, i, w) /\ Len(pre \o w) + 1 = i + Len(w)
    BY <2>2, <2>3, Zenon DEF Thirds
  <2>5. /\ i + Len(w) = (i + 1) + 1 + 1 /\ i \in Nat
        /\ Stands(s, i, ":") /\ Stands(s, i + 1, "7") /\ Stands(s, (i + 1) + 1, "}")
    BY <1>1, <2>4, HasThree, Zenon
  <2>6. Rest(s, h[d], i, ((i + 1) + 1) + 1)
    BY <2>4, <2>5, ValueEnded, Zenon
  <2>7. Chain(s, h, d, ((i + 1) + 1) + 1)
    BY <2>4, <2>5, Zenon DEF Closes
  <2>8. Accepted(s, h, d, i)
    BY <2>6, <2>7, Zenon DEF Accepted
  <2> QED BY <2>2, <2>3, <2>8, Zenon DEF Thirds
<1>4. w \o t \in Seq(Char)
  BY <1>2, TextJoins, Zenon
<1> QED BY <1>1, <1>3, <1>4, Zenon DEF Finishes

\* A 7 is a whole document.
LEMMA FinishesStart ==
  ASSUME NEW h, h[0] = "start"
  PROVE  Finishes(<<"7">>, h, 0)
<1>1. <<"7">> \in Seq(Char)
  BY SevenText, Zenon
<1>2. ASSUME NEW pre \in Seq(Char) PROVE Accepted(pre \o <<"7">>, h, 0, Len(pre) + 1)
  <2>1. PICK w : w = <<"7">>
    OBVIOUS
  <2>2. PICK s : s = (pre \o w) \o <<>>
    OBVIOUS
  <2>3. Thirds(s, pre, w, <<>>)
    BY <1>1, <2>1, <2>2, NoText, ThirdsAre, Zenon
  <2>4. PICK i : i = Len(pre) + 1
    OBVIOUS
  <2>5. s \in Seq(Char) /\ s = pre \o w /\ Has(s, i, w) /\ Len(s) + 1 = i + Len(w)
    BY <2>3, <2>4, NothingBehind, Zenon DEF Thirds
  <2>6. Stands(s, i, "7") /\ i + Len(w) = i + 1
    BY <2>1, <2>5, HasOne, Zenon
  <2>7. i \in 1..Len(s) + 1
    BY <2>5, Zenon DEF Has
  <2>8. i + 1 \in Ends(s, i, "value") /\ i \in SpaceEnds(s, i)
    BY <2>5, <2>6, HasSeven, Zenon
  <2>9. Rest(s, "complete", i + 1, Len(s) + 1)
    BY <2>5, <2>6, EndHere, Zenon
  <2>10. "start" \in Places \ {"complete"} /\ AfterAtom["start"] = "complete"
    BY AfterAtomIs DEF Places
  <2>11. LeadTo(s, "start", i, i) /\ Item(s, "start", i, i + 1)
    BY <2>8, LeadIs, Zenon DEF Item
  <2>12. Rest(s, h[0], i, Len(s) + 1)
    BY <2>5, <2>7, <2>9, <2>10, <2>11, ItemStep, Zenon
  <2>13. Chain(s, h, 0, Len(s) + 1)
    BY <2>5, ChainEnd, Zenon
  <2> QED BY <2>1, <2>4, <2>5, <2>12, <2>13, Zenon DEF Accepted
<1> QED BY <1>1, <1>2, Zenon DEF Finishes

-----------------------------------------------------------------------------
\* The endings of the containers.
LEMMA EndingIs ==
  /\ \A f \in {"key", "elem"} : Ending[f] = <<Brackets[f]>>
  /\ Ending["value"] = <<":", "7", "}">>
<1>1. Ending["key"] = <<"}">> /\ Ending["elem"] = <<"]">> /\ Ending["value"] = <<":", "7", "}">>
  BY DEF Ending
<1>2. Brackets["key"] = "}" /\ Brackets["elem"] = "]"
  BY DEF Brackets
<1> QED BY <1>1, <1>2, Zenon

\* A container around another one waits for its end, and can then end too.
LEMMA WaitingEnds ==
  ASSUME NEW f \in Kinds, NEW st \in WaitingOf[f]
  PROVE  f \in {"key", "elem"} /\ AfterAtom[st] \in StateOf[f]
<1>1. CASE f = "key"
  <2>1. st = "map_val"
    BY <1>1 DEF WaitingOf
  <2> QED BY <1>1, <2>1, AfterAtomIs DEF StateOf
<1>2. CASE f = "value"
  BY <1>2 DEF WaitingOf
<1>3. CASE f = "elem"
  <2>1. st \in {"array_start", "in_array"}
    BY <1>3 DEF WaitingOf
  <2> QED BY <1>3, <2>1, AfterAtomIs DEF StateOf
<1> QED BY <1>1, <1>2, <1>3 DEF Kinds

\* The endings of the containers around the innermost one close them.
LEMMA EndingsClose ==
  ASSUME NEW h, NEW fs, NEW n \in Nat, NEW f, Endings(f, fs, n), AfterAtom[h[0]] = "complete",
         \A k \in 1..n - 1 : fs[k] \in Kinds /\ h[k] \in WaitingOf[fs[k]]
  PROVE  \A k \in 0..n - 1 : Closes(f[k], h, k + 1)
<1> DEFINE T == {k \in Nat : k \in 0..n - 1 => Closes(f[k], h, k + 1)}
<1>0. \A k \in 0..n : f[k] = IF k = 0 THEN <<>> ELSE Ending[fs[k]] \o f[k - 1]
  BY Zenon DEF Endings
<1>1. 0 \in T
  <2>1. 0 \in 0..n /\ 0 + 1 = 1
    OBVIOUS
  <2>2. f[0] = <<>>
    BY <1>0, <2>1, Zenon
  <2> QED BY <2>1, <2>2, ClosesNone
<1>2. ASSUME NEW k \in Nat, k \in T PROVE k + 1 \in T
  <2> SUFFICES ASSUME k + 1 \in 0..n - 1 PROVE Closes(f[k + 1], h, (k + 1) + 1)
    OBVIOUS
  <2>1. k \in 0..n - 1 /\ k + 1 \in 0..n /\ k + 1 \in 1..n - 1 /\ k + 1 # 0 /\ (k + 1) - 1 = k
        /\ k + 1 \in Nat
    OBVIOUS
  <2>2. Closes(f[k], h, k + 1)
    BY <1>2, <2>1
  <2>3. f[k + 1] = Ending[fs[k + 1]] \o f[k]
    BY <1>0, <2>1, Zenon
  <2>4. fs[k + 1] \in {"key", "elem"} /\ AfterAtom[h[k + 1]] \in StateOf[fs[k + 1]]
    BY <2>1, WaitingEnds, Zenon
  <2>5. Ending[fs[k + 1]] = <<Brackets[fs[k + 1]]>>
    BY <2>4, EndingIs, Zenon
  <2> QED BY <2>1, <2>2, <2>3, <2>4, <2>5, ClosesOne, Zenon
<1> HIDE DEF T
<1>3. Nat \subseteq T
  BY <1>1, <1>2, Induction
<1>4. \A k \in 0..n - 1 : k \in Nat
  OBVIOUS
<1> QED BY <1>3, <1>4 DEF T

\* What ends the open containers ends the document that was begun.
LEMMA CompletionFinishes ==
  ASSUME Inv, phase # "lost"
  PROVE  Finishes(Completion, state, depth)
<1>1. /\ depth \in Levels /\ depth = Len(frames)
      /\ frames = <<>> => depth = 0 /\ phase # "open"
                            /\ here = IF phase = "done" THEN "complete" ELSE "start"
      /\ frames # <<>> => depth >= 1 /\ phase = "open" /\ state[0] = "start"
  BY Place, Zenon
<1>2. depth \in Nat /\ Len(frames) \in Nat
  BY <1>1 DEF Levels
<1>3. PICK f : /\ Endings(f, frames, Len(frames))
               /\ Completion = IF phase = "fresh" THEN <<"7">> ELSE f[Len(frames)]
  BY <1>2, CompletionIs, Zenon
<1>4. \A k \in 0..depth : f[k] = IF k = 0 THEN <<>> ELSE Ending[frames[k]] \o f[k - 1]
  BY <1>1, <1>3, Zenon DEF Endings
<1>5. phase \in {"fresh", "open", "done"}
  BY DEF Inv, TypeOK
<1>6. CASE frames = <<>>
  <2>1. 0 \in 0..depth /\ f[0] = <<>>
    <3>1. 0 \in 0..depth
      BY <1>2
    <3> QED BY <1>4, <3>1, Zenon
  <2>2. CASE phase = "fresh"
    <3>1. state[0] = "start" /\ Completion = <<"7">> /\ depth = 0
      BY <1>1, <1>3, <1>6, <2>2 DEF here
    <3> QED BY <3>1, FinishesStart, Zenon
  <2>3. CASE phase = "done"
    <3>1. phase # "fresh"
      BY <2>3
    <3>2. state[0] = "complete" /\ Completion = <<>> /\ depth = 0
      BY <1>1, <1>3, <1>6, <2>1, <2>3, <3>1, Zenon DEF here
    <3> QED BY <3>2, FinishesComplete, Zenon
  <2> QED BY <1>1, <1>5, <1>6, <2>2, <2>3
<1>7. CASE frames # <<>>
  <2>1. /\ depth >= 1 /\ state[0] = "start" /\ Completion = f[depth]
        /\ depth \in 0..depth /\ depth # 0 /\ depth - 1 \in 0..depth - 1 /\ (depth - 1) + 1 = depth
    <3>1. phase # "fresh" /\ depth >= 1 /\ state[0] = "start"
      BY <1>1, <1>7
    <3>2. Completion = f[depth]
      BY <1>1, <1>3, <3>1, Zenon
    <3> QED BY <1>2, <3>1, <3>2
  <2>2. \A d \in 1..depth :
           /\ frames[d] \in Kinds
           /\ state[d] \in IF d = depth THEN StateOf[frames[d]] ELSE WaitingOf[frames[d]]
    BY <1>1 DEF Inv, TypeOK, Nesting, Kinds
  <2>3. Completion = Ending[frames[depth]] \o f[depth - 1]
    BY <1>4, <2>1, Zenon
  <2>4. \A k \in 0..depth - 1 : Closes(f[k], state, k + 1)
    <3>1. AfterAtom[state[0]] = "complete"
      BY <2>1, AfterAtomIs, Zenon
    <3>2. \A k \in 1..depth - 1 : frames[k] \in Kinds /\ state[k] \in WaitingOf[frames[k]]
      <4>1. \A k \in 1..depth - 1 : k \in 1..depth /\ k # depth
        BY <1>2
      <4> QED BY <2>2, <4>1
    <3>3. Endings(f, frames, depth)
      BY <1>1, <1>3, Zenon
    <3> QED BY <1>2, <3>1, <3>2, <3>3, EndingsClose, Zenon
  <2>5. Closes(f[depth - 1], state, depth)
    BY <2>1, <2>4, Zenon
  <2>6. frames[depth] \in Kinds /\ state[depth] \in StateOf[frames[depth]]
    <3>1. depth \in 1..depth
      BY <1>2, <2>1
    <3> QED BY <2>2, <3>1, Zenon
  <2>7. CASE frames[depth] = "value"
    <3>1. state[depth] = "map_val"
      BY <2>6, <2>7 DEF StateOf
    <3> QED BY <1>2, <2>3, <2>5, <2>7, <3>1, EndingIs, FinishesValue, Zenon
  <2>8. CASE frames[depth] \in {"key", "elem"}
    <3>1. Ending[frames[depth]] = <<Brackets[frames[depth]]>>
      BY <2>8, EndingIs, Zenon
    <3> QED BY <1>2, <2>3, <2>5, <2>6, <2>8, <3>1, FinishesOne, Zenon
  <2> QED BY <2>6, <2>7, <2>8, Zenon DEF Kinds
<1> QED BY <1>6, <1>7

\* What was printed of a document, with what ends its open containers, is a
\* JSON text of the grammar of RFC 8259: for every YAJL_MAX_DEPTH, every
\* sequence of calls and whatever strings, numbers and indents they give.
THEOREM GenAlwaysJson == Spec => []AlwaysJson
<1>1. Inv /\ JsonInv => AlwaysJson
  <2> SUFFICES ASSUME Inv, JsonInv, phase # "lost"
               PROVE  IsDocument(doc \o Completion, Rfc)
    BY Zenon DEF AlwaysJson, Rfc
  <2>1. Finishes(Completion, state, depth)
    BY CompletionFinishes
  <2>2. BegunWith(doc, state, depth)
    BY Zenon DEF JsonInv, Begun
  <2> QED BY <2>1, <2>2, Zenon DEF Finishes, BegunWith
<1> QED BY <1>1, GenInvariance, GenBegun, PTL
=============================================================================
