---------------------------- MODULE GenCallProofs ----------------------------
(***************************************************************************)
(* What the calls of the generator do, for every caller: to its stack of   *)
(* states, in terms of the containers the caller has open, and to what was *)
(* printed.  The client of GenClient and the callbacks of json_reformat    *)
(* are two such callers.                                                   *)
(***************************************************************************)
EXTENDS YajlGen, WellFoundedInduction, TLAPS

\* A set of numbers has a least one, and a set with 0 that has with each number
\* the next one has them all: induction, said of sets.
LEMMA Least ==
  ASSUME NEW T, T \subseteq Nat, T # {}
  PROVE  \E m \in T : \A k \in T : m <= k
<1>0. PICK R : R = OpToRel(<, Nat)
  OBVIOUS
<1>1. PICK m \in T : \A k \in T : ~(<<k, m>> \in R)
  <2>1. IsWellFoundedOn(R, Nat)
    BY <1>0, NatLessThanWellFounded, Zenon
  <2> QED BY <2>1, WFMin
<1>2. \A k \in T : k < m => <<k, m>> \in R
  BY <1>0, Zenon DEF OpToRel
<1>3. \A k \in T : ~(k < m)
  BY <1>1, <1>2
<1> QED BY <1>3

LEMMA Induction ==
  ASSUME NEW T, 0 \in T, \A n \in Nat : n \in T => n + 1 \in T
  PROVE  Nat \subseteq T
<1> SUFFICES ASSUME NEW n \in Nat, n \notin T PROVE FALSE
  OBVIOUS
<1> DEFINE Out == {k \in Nat : k \notin T}
<1>1. Out \subseteq Nat /\ Out # {}
  OBVIOUS
<1>2. PICK m \in Out : \A k \in Out : m <= k
  <2> HIDE DEF Out
  <2> QED BY <1>1, Least
<1>3. m \in Nat /\ m # 0 /\ m - 1 \in Nat
  OBVIOUS
<1>4. m - 1 \in T
  BY <1>2, <1>3
<1>5. (m - 1) + 1 \in T
  BY <1>3, <1>4
<1> QED BY <1>3, <1>5

\* Sequences behind each other are a sequence.
LEMMA Flattened ==
  ASSUME NEW S, NEW seqs \in Seq(Seq(S))
  PROVE  Seqs!FlattenSeq(seqs) \in Seq(S)
<1> DEFINE n == Len(seqs)
           IsFlat(f, k) ==
              f = [i \in 1..k |-> IF i = 1 THEN seqs[i] ELSE f[i-1] \o seqs[i]]
           Flat == CHOOSE f : IsFlat(f, n)
<1>1. n \in Nat /\ \A i \in 1..n : seqs[i] \in Seq(S)
  OBVIOUS
<1>2. CASE n = 0
  BY <1>2 DEF Seqs!FlattenSeq
<1>3. CASE n # 0
  <2>1. Seqs!FlattenSeq(seqs) = Flat[n]
    BY <1>3 DEF Seqs!FlattenSeq
  <2> HIDE DEF n
  <2>2. \E f : IsFlat(f, n)
    <3> DEFINE T == {k \in Nat : \E f : IsFlat(f, k)}
    <3>1. 0 \in T
      <4>1. IsFlat([i \in 1..0 |-> 0], 0)
        OBVIOUS
      <4> QED BY <4>1
    <3>2. ASSUME NEW k \in Nat, k \in T PROVE k + 1 \in T
      <4>1. PICK f : IsFlat(f, k)
        BY <3>2
      <4> DEFINE g == [i \in 1..k + 1 |-> IF i = k + 1
                                          THEN IF i = 1 THEN seqs[i] ELSE f[i-1] \o seqs[i]
                                          ELSE f[i]]
      <4>2. \A i \in 1..k : g[i] = f[i]
        OBVIOUS
      <4>3. \A i \in 1..k + 1 :
               g[i] = IF i = 1 THEN seqs[i] ELSE g[i-1] \o seqs[i]
        <5> TAKE i \in 1..k + 1
        <5>1. CASE i = k + 1
          <6>1. i # 1 => g[i-1] = f[i-1]
            BY <5>1, <4>2
          <6> QED BY <5>1, <6>1
        <5>2. CASE i # k + 1
          <6>1. i \in 1..k /\ g[i] = f[i]
            BY <5>2, <4>2
          <6>2. f[i] = IF i = 1 THEN seqs[i] ELSE f[i-1] \o seqs[i]
            BY <6>1, <4>1
          <6>3. i # 1 => g[i-1] = f[i-1]
            BY <6>1, <4>2
          <6> QED BY <6>1, <6>2, <6>3
        <5> QED BY <5>1, <5>2
      <4>4. DOMAIN g = 1..k + 1 /\ g = [i \in 1..k + 1 |-> g[i]]
        OBVIOUS
      <4> HIDE DEF g
      <4>5. IsFlat(g, k + 1)
        BY <4>3, <4>4
      <4> HIDE DEF IsFlat
      <4>6. k + 1 \in Nat /\ \E f2 : IsFlat(f2, k + 1)
        BY <4>5
      <4> QED BY <4>6
    <3> HIDE DEF T
    <3>3. Nat \subseteq T
      BY <3>1, <3>2, Induction
    <3> QED BY <1>1, <3>3 DEF T
  <2>3. IsFlat(Flat, n)
    BY <2>2
  <2> HIDE DEF Flat
  <2> DEFINE T == {k \in Nat : k \in 1..n => Flat[k] \in Seq(S)}
  <2>4. 0 \in T
    OBVIOUS
  <2>5. ASSUME NEW k \in Nat, k \in T PROVE k + 1 \in T
    <3> SUFFICES ASSUME k + 1 \in 1..n PROVE Flat[k + 1] \in Seq(S)
      OBVIOUS
    <3>1. Flat[k + 1] = IF k + 1 = 1 THEN seqs[k + 1] ELSE Flat[(k + 1) - 1] \o seqs[k + 1]
      BY <2>3
    <3>2. seqs[k + 1] \in Seq(S) /\ (k # 0 => Flat[k] \in Seq(S) /\ (k + 1) - 1 = k /\ k + 1 # 1)
      BY <1>1, <2>5
    <3> QED BY <3>1, <3>2
  <2> HIDE DEF T
  <2>6. n \in T
    BY <1>1, <2>4, <2>5, Induction
  <2> QED BY <1>1, <1>3, <2>1, <2>6 DEF T
<1> QED BY <1>2, <1>3

-----------------------------------------------------------------------------
Kinds == {"key", "value", "elem"}

\* The containers fs are open; whole: none is, and there is a value.
Nested(fs, whole) ==
    /\ fs \in Seq(Kinds) /\ depth = Len(fs) /\ depth \in Levels
    /\ state \in [Levels -> GenStates]
    /\ whole => fs = <<>>
    /\ state[0] = IF whole THEN "complete" ELSE "start"
    /\ \A d \in 1..depth :
          state[d] \in IF d = depth THEN StateOf[fs[d]] ELSE WaitingOf[fs[d]]

\* gs is fs with the innermost container one further.
NextKind == [key |-> "value", value |-> "key", elem |-> "elem"]
Advanced(fs, gs) ==
    /\ gs \in Seq(Kinds) /\ Len(gs) = Len(fs)
    /\ \A i \in 1..Len(fs) - 1 : gs[i] = fs[i]
    /\ fs # <<>> => gs[Len(fs)] = NextKind[fs[Len(fs)]]

-----------------------------------------------------------------------------
\* Where a call finds the generator: behind the value, at a key, elsewhere.
LEMMA Placed ==
  ASSUME NEW fs, NEW whole \in BOOLEAN, Nested(fs, whole)
  PROVE  /\ InArray /\ depth \in Levels /\ depth \in Nat /\ depth = Len(fs) /\ here \in GenStates
         /\ fs = <<>> => depth = 0 /\ here = IF whole THEN "complete" ELSE "start"
         /\ fs # <<>> => /\ ~whole /\ depth >= 1 /\ fs[depth] \in Kinds
                         /\ here \in StateOf[fs[depth]] /\ state[0] = "start"
         /\ Valid <=> ~whole
         /\ here = "complete" <=> whole
         /\ whole => Invalid = "generation_complete"
         /\ NeedsKey <=> (fs # <<>> /\ fs[depth] = "key")
<1>1. /\ depth \in Levels /\ depth = Len(fs) /\ fs \in Seq(Kinds)
      /\ whole => fs = <<>>
      /\ state \in [Levels -> GenStates]
  BY DEF Nested
<1>2. depth \in Nat /\ InArray
  BY <1>1, GenMaxDepthAssumption DEF Levels, InArray
<1>3. here \in GenStates
  BY <1>1 DEF here
<1>4. ASSUME fs = <<>>
      PROVE  depth = 0 /\ here = IF whole THEN "complete" ELSE "start"
  BY <1>1, <1>4 DEF Nested, here
<1>5. ASSUME fs # <<>>
      PROVE  /\ ~whole /\ depth >= 1 /\ fs[depth] \in Kinds
             /\ here \in StateOf[fs[depth]] /\ state[0] = "start"
  BY <1>1, <1>5 DEF Nested, here
<1>6. fs # <<>> => Valid /\ here # "complete" /\ (NeedsKey <=> fs[depth] = "key")
  BY <1>5 DEF Valid, NeedsKey, StateOf, Kinds
<1>7. fs = <<>> => (Valid <=> ~whole) /\ ~NeedsKey /\ (here = "complete" <=> whole)
  BY <1>4 DEF Valid, NeedsKey
<1>8. whole => Invalid = "generation_complete"
  BY <1>1, <1>4 DEF Invalid
<1> QED BY <1>1, <1>2, <1>3, <1>4, <1>5, <1>6, <1>7, <1>8

\* An atom where a value may be, or a string where a key has to be.
LEMMA EmitNested ==
  ASSUME NEW fs, Nested(fs, FALSE), NEW gs, Advanced(fs, gs),
         depth' = depth, state' = [state EXCEPT ![depth] = AfterAtom[@]]
  PROVE  Nested(gs, gs = <<>>)'
<1> USE GenMaxDepthAssumption
<1>1. depth \in Levels /\ depth \in Nat /\ state \in [Levels -> GenStates] /\ fs \in Seq(Kinds)
      /\ depth = Len(fs)
  BY Placed DEF Nested
<1>2. AfterAtom[here] \in GenStates /\ here \in GenStates
  BY <1>1 DEF AfterAtom, GenStates, here
<1>3. /\ state' \in [Levels -> GenStates] /\ state'[depth] = AfterAtom[here]
      /\ \A d \in Levels \ {depth} : state'[d] = state[d]
  BY <1>1, <1>2 DEF here
<1>4. /\ gs \in Seq(Kinds) /\ Len(gs) = depth /\ (gs = <<>> <=> fs = <<>>)
      /\ \A i \in 1..depth - 1 : gs[i] = fs[i]
  BY <1>1 DEF Advanced
<1>7. CASE fs = <<>>
  <2>1. here = "start" /\ depth = 0
    BY <1>7, Placed
  <2>2. AfterAtom[here] = "complete"
    BY <2>1 DEF AfterAtom, GenStates
  <2> QED BY <1>1, <1>3, <1>4, <1>7, <2>1, <2>2 DEF Nested
<1>8. CASE fs # <<>>
  <2>1. /\ depth >= 1 /\ here \in StateOf[fs[depth]] /\ fs[depth] \in Kinds /\ state[0] = "start"
    <3>1. depth >= 1 /\ state[0] = "start"
      BY <1>1, <1>8 DEF Nested
    <3>2. here \in StateOf[fs[depth]] /\ fs[depth] \in Kinds
      BY <1>1, <1>8 DEF Nested, here
    <3> QED BY <3>1, <3>2
  <2>2. gs[depth] = NextKind[fs[depth]]
    BY <1>1, <1>8 DEF Advanced
  <2>3. AfterAtom[here] \in StateOf[gs[depth]]
    BY <2>1, <2>2 DEF StateOf, Kinds, AfterAtom, GenStates, NextKind
  <2>4. \A d \in 1..depth - 1 : state[d] \in WaitingOf[fs[d]]
    BY <1>1 DEF Nested
  <2>5. \A d \in 1..depth - 1 : state'[d] = state[d] /\ gs[d] = fs[d]
    BY <1>1, <1>3, <1>4 DEF Levels
  <2>6. state'[0] = "start"
    BY <1>1, <1>3, <2>1 DEF Levels
  <2>7. \A d \in 1..depth :
          state'[d] \in IF d = depth THEN StateOf[gs[d]] ELSE WaitingOf[gs[d]]
    BY <1>1, <1>3, <2>3, <2>4, <2>5
  <2> QED BY <1>1, <1>3, <1>4, <1>8, <2>6, <2>7 DEF Nested
<1> QED BY <1>7, <1>8

\* One level more.
LEMMA OpenNested ==
  ASSUME NEW fs, Nested(fs, FALSE), ~NeedsKey, NEW past, Advanced(fs, past),
         NEW k \in {"key", "elem"}, NEW s \in StateOf[k],
         depth' = depth + 1, depth' < MaxDepth, state' = [state EXCEPT ![depth'] = s]
  PROVE  Nested(Append(past, k), FALSE)'
<1> USE GenMaxDepthAssumption
<1> DEFINE gs == Append(past, k)
<1>1. depth \in Levels /\ depth \in Nat /\ depth' \in Levels /\ state \in [Levels -> GenStates]
      /\ fs \in Seq(Kinds) /\ depth = Len(fs)
  BY Placed DEF Nested, Levels
<1>2. s \in GenStates
  BY DEF StateOf, GenStates
<1>3. /\ state' \in [Levels -> GenStates] /\ state'[depth'] = s
      /\ \A d \in Levels \ {depth'} : state'[d] = state[d]
  BY <1>1, <1>2
<1>4. past \in Seq(Kinds) /\ Len(past) = depth
  BY <1>1 DEF Advanced
<1>5. k \in Kinds
  BY DEF Kinds
<1>6. gs \in Seq(Kinds) /\ Len(gs) = depth' /\ gs[depth'] = k
      /\ \A i \in 1..depth : gs[i] = past[i]
  BY <1>1, <1>4, <1>5
<1> SUFFICES Nested(gs, FALSE)'
  OBVIOUS
<1> HIDE DEF gs
<1>7. state'[0] = "start"
  <2>1. state[0] = "start"
    BY DEF Nested
  <2> QED BY <1>1, <1>3, <2>1 DEF Levels
<1>8. \A d \in 1..depth : state'[d] \in WaitingOf[gs[d]]
  <2>1. ASSUME NEW d \in 1..depth - 1 PROVE state'[d] \in WaitingOf[gs[d]]
    <3>1. state[d] \in WaitingOf[fs[d]]
      BY <1>1, <2>1 DEF Nested
    <3>2. gs[d] = fs[d] /\ state'[d] = state[d]
      BY <1>1, <1>3, <1>6, <2>1 DEF Advanced, Levels
    <3> QED BY <3>1, <3>2
  <2>2. ASSUME depth >= 1 PROVE state'[depth] \in WaitingOf[gs[depth]]
    <3>1. fs # <<>>
      BY <1>1, <2>2
    <3>2. here \in StateOf[fs[depth]] /\ fs[depth] \in {"value", "elem"}
      BY <3>1, Placed DEF Kinds
    <3>3. gs[depth] = NextKind[fs[depth]]
      BY <1>1, <1>6, <2>2, <3>1 DEF Advanced
    <3>4. state'[depth] = here
      BY <1>1, <1>3 DEF here, Levels
    <3> QED BY <3>2, <3>3, <3>4 DEF StateOf, WaitingOf, NextKind
  <2>3. \A d \in 1..depth : d \in 1..depth - 1 \/ (d = depth /\ depth >= 1)
    BY <1>1
  <2> QED BY <2>1, <2>2, <2>3
<1>9. depth' = Len(gs) /\ \A d \in 1..depth' :
        state'[d] \in IF d = depth' THEN StateOf[gs[d]] ELSE WaitingOf[gs[d]]
  BY <1>1, <1>3, <1>6, <1>8 DEF Levels
<1> QED BY <1>1, <1>3, <1>6, <1>7, <1>9, Zenon DEF Nested

\* One level less.
LEMMA CloseNested ==
  ASSUME NEW fs, Nested(fs, FALSE), fs # <<>>, fs[Len(fs)] \in {"key", "elem"},
         depth' = depth - 1, state' = [state EXCEPT ![depth'] = AfterAtom[state[depth']]]
  PROVE  LET outer == SubSeq(fs, 1, Len(fs) - 1) IN Nested(outer, outer = <<>>)'
<1> USE GenMaxDepthAssumption
<1> DEFINE outer == SubSeq(fs, 1, Len(fs) - 1)
<1>1. depth \in Levels /\ depth \in Nat /\ depth >= 1 /\ depth' \in Levels /\ depth' \in Nat
      /\ state \in [Levels -> GenStates]
      /\ fs \in Seq(Kinds) /\ depth = Len(fs) /\ state[0] = "start"
  BY Placed DEF Nested, Levels
<1>2. AfterAtom[state[depth']] \in GenStates
  BY <1>1 DEF AfterAtom, GenStates
<1>3. /\ state' \in [Levels -> GenStates] /\ state'[depth'] = AfterAtom[state[depth']]
      /\ \A d \in Levels \ {depth'} : state'[d] = state[d]
  BY <1>1, <1>2
<1>4. /\ outer \in Seq(Kinds) /\ Len(outer) = depth'
      /\ \A i \in 1..depth' : outer[i] = fs[i]
  BY <1>1
<1> SUFFICES Nested(outer, outer = <<>>)'
  OBVIOUS
<1> HIDE DEF outer
<1>5. (outer = <<>>) <=> depth' = 0
  BY <1>1, <1>4
<1>8. CASE depth' = 0
  <2>1. state'[0] = "complete"
    BY <1>1, <1>3, <1>8 DEF AfterAtom, GenStates
  <2> QED BY <1>1, <1>3, <1>4, <1>5, <1>8, <2>1 DEF Nested
<1>9. CASE depth' # 0
  <2>1. state'[0] = "start"
    BY <1>1, <1>3, <1>9 DEF Levels
  <2>2. \A d \in 1..depth' : state[d] \in WaitingOf[fs[d]] /\ fs[d] \in Kinds
    BY <1>1 DEF Nested, Levels
  <2>3. state'[depth'] \in StateOf[outer[depth']]
    <3>1. depth' \in 1..depth'
      BY <1>1, <1>9 DEF Levels
    <3>2. outer[depth'] \in Kinds /\ state[depth'] \in WaitingOf[outer[depth']]
      BY <3>1, <1>4, <2>2
    <3>3. AfterAtom[state[depth']] \in StateOf[outer[depth']]
      BY <3>2 DEF WaitingOf, StateOf, AfterAtom, GenStates, Kinds
    <3> QED BY <3>3, <1>3
  <2>4. \A d \in 1..depth' - 1 : state'[d] \in WaitingOf[outer[d]]
    BY <1>1, <1>3, <1>4, <2>2 DEF Levels
  <2>5. \A d \in 1..depth' :
          state'[d] \in IF d = depth' THEN StateOf[outer[d]] ELSE WaitingOf[outer[d]]
    BY <1>1, <2>3, <2>4
  <2> QED BY <1>1, <1>3, <1>4, <1>5, <1>9, <2>1, <2>5 DEF Nested
<1> QED BY <1>8, <1>9

-----------------------------------------------------------------------------
\* What a call may come to, in a generator that is Nested: it is refused, or
\* does all that it does.
LEMMA AtomCall ==
  ASSUME NEW fs, NEW whole \in BOOLEAN, Nested(fs, whole), fs = <<>> \/ fs[Len(fs)] # "key",
         NEW text, gen_atom(text)
  PROVE  \/ whole /\ Refuse("generation_complete")
         \/ ~whole /\ Emit(text)
<1>1. ~NeedsKey /\ (Valid <=> ~whole) /\ (whole => Invalid = "generation_complete")
  BY Placed
<1> QED BY <1>1, Zenon DEF gen_atom, EnsureValue, EnsureValidState

LEMMA StringCall ==
  ASSUME NEW fs, NEW whole \in BOOLEAN, Nested(fs, whole),
         NEW str, NEW valid, gen_string(str, valid)
  PROVE  \/ ~valid /\ "validate_utf8" \in genFlags /\ Refuse("invalid_string")
         \/ /\ valid \/ "validate_utf8" \notin genFlags
            /\ \/ whole /\ Refuse("generation_complete")
               \/ ~whole /\ Emit(<<"\"">> \o Encoded(str) \o <<"\"">>)
<1>1. (Valid <=> ~whole) /\ (whole => Invalid = "generation_complete")
  BY Placed
<1> QED BY <1>1, Zenon DEF gen_string, EnsureValidState

LEMMA OpenCall ==
  ASSUME NEW fs, NEW whole \in BOOLEAN, Nested(fs, whole), fs = <<>> \/ fs[Len(fs)] # "key",
         NEW opened, NEW bracket, gen_open(opened, bracket)
  PROVE  \/ whole /\ Refuse("generation_complete")
         \/ /\ ~whole /\ depth' = depth + 1 /\ UNCHANGED outputForm
            /\ \/ /\ depth' >= MaxDepth /\ Answer("max_depth_exceeded")
                  /\ out' = out \o Lead /\ UNCHANGED state
               \/ /\ ~(depth' >= MaxDepth) /\ Answer("ok")
                  /\ out' = out \o Lead \o <<bracket>> \o Newline
                  /\ state' = [state EXCEPT ![depth'] = opened]
<1>1. ~NeedsKey /\ (Valid <=> ~whole) /\ (whole => Invalid = "generation_complete")
  BY Placed
<1> QED BY <1>1, Zenon DEF gen_open, EnsureValue, EnsureValidState

LEMMA CloseCall ==
  ASSUME NEW fs, Nested(fs, FALSE), fs # <<>>, NEW bracket, gen_close(bracket)
  PROVE  /\ depth' = depth - 1 /\ Answer("ok") /\ UNCHANGED outputForm
         /\ state' = [state EXCEPT ![depth'] = AfterAtom[state[depth']]]
         /\ LET closed == AfterAtom[state[depth']]
            IN  out' = out \o Newline \o Indent(depth', closed) \o <<bracket>> \o Final(closed)
<1>1. /\ fs[depth] \in Kinds /\ here \in StateOf[fs[depth]]
      /\ depth \in Levels /\ depth \in Nat /\ depth >= 1
  BY GenMaxDepthAssumption DEF Nested, here, Levels
<1>2. Valid /\ InArray /\ depth \in Nat /\ depth >= 1 /\ depth \in Levels
  BY <1>1, GenMaxDepthAssumption DEF Valid, StateOf, Kinds, InArray, Levels
<1>3. depth # 0 /\ ~(depth - 1 >= MaxDepth)
  BY <1>2, GenMaxDepthAssumption DEF Levels
<1> QED BY <1>2, <1>3, Zenon DEF gen_close, EnsureValidState

-----------------------------------------------------------------------------
\* What is printed is text, and it is behind what was printed before.
\* (No prover knows that a literal is a string: those that are printed are
\* named.)
Symbols == STRING \cup {"\\", "\"", "/", "\n", " ", ",", ":", "{", "}", "[", "]", "0", "1",
                       "7", "B", "F", "b", "e", "f", "l", "n", "r", "t", "u"}
Text == Seq(Symbols)
GrowsTo(x) == x \in Text /\ Len(out) <= Len(x)

LEMMA TextJoined ==
  \A x, y \in Text : /\ x \o y \in Text /\ Len(x \o y) = Len(x) + Len(y)
                    /\ Len(x) \in Nat /\ Len(y) \in Nat
BY DEF Text

LEMMA Behind ==
  ASSUME out \in Text
  PROVE  /\ GrowsTo(out)
         /\ \A x : \A y \in Text : GrowsTo(x) => GrowsTo(x \o y)
<1>1. GrowsTo(out)
  BY TextJoined DEF GrowsTo
<1>2. ASSUME NEW x, NEW y \in Text, GrowsTo(x)
      PROVE  GrowsTo(x \o y)
  <2>1. x \in Text /\ Len(out) <= Len(x) /\ Len(out) \in Nat
    BY <1>2, TextJoined DEF GrowsTo
  <2> QED BY <1>2, <2>1, TextJoined DEF GrowsTo
<1> QED BY <1>1, <1>2

LEMMA Printed ==
  /\ <<>> \in Text
  /\ \A a \in Symbols : <<a>> \in Text
  /\ \A a, b \in Symbols : <<a, b>> \in Text
  /\ \A a, b, c, d \in Symbols : <<a, b, c, d>> \in Text
  /\ \A a, b, c, d, e, f \in Symbols : <<a, b, c, d, e, f>> \in Text
BY DEF Text

LEMMA Signs ==
  /\ "\\" \in Symbols /\ "\"" \in Symbols /\ "/" \in Symbols /\ "\n" \in Symbols
  /\ "r" \in Symbols /\ "n" \in Symbols /\ "f" \in Symbols /\ "t" \in Symbols
  /\ "b" \in Symbols /\ "u" \in Symbols
  /\ "0" \in Symbols /\ "1" \in Symbols /\ "B" \in Symbols /\ "F" \in Symbols
  /\ "," \in Symbols /\ ":" \in Symbols /\ " " \in Symbols
  /\ "{" \in Symbols /\ "}" \in Symbols /\ "[" \in Symbols /\ "]" \in Symbols
  /\ "7" \in Symbols /\ "e" \in Symbols /\ "l" \in Symbols
BY DEF Symbols

LEMMA EscapeText ==
  ASSUME NEW ch \in Symbols
  PROVE  Escape(ch) \in Text
<1>1. /\ <<"\\", "r">> \in Text /\ <<"\\", "n">> \in Text /\ <<"\\", "f">> \in Text
      /\ <<"\\", "t">> \in Text /\ <<"\\", "\\">> \in Text /\ <<"\\", "\"">> \in Text
      /\ <<"\\", "b">> \in Text /\ <<"\\", "/">> \in Text
  BY Printed, Signs
<1>2. /\ <<"\\", "u", "0", "0", "0", "0">> \in Text
      /\ <<"\\", "u", "0", "0", "0", "B">> \in Text
      /\ <<"\\", "u", "0", "0", "1", "F">> \in Text
  BY Printed, Signs
<1>3. <<ch>> \in Text
  BY Printed
<1> QED BY <1>1, <1>2, <1>3, Zenon DEF Escape

LEMMA EncodedText ==
  ASSUME NEW str \in Text
  PROVE  Encoded(str) \in Text
<1> DEFINE seqs == [i \in 1..Len(str) |-> Escape(str[i])]
<1>1. \A i \in 1..Len(str) : str[i] \in Symbols
  BY DEF Text
<1>2. \A i \in 1..Len(str) : Escape(str[i]) \in Text
  BY <1>1, EscapeText
<1>3. Len(str) \in Nat
  BY DEF Text
<1>4. seqs \in Seq(Text)
  BY <1>2, <1>3
<1> QED BY <1>4, Flattened DEF Encoded, Text

LEMMA IndentText ==
  ASSUME indentString \in Text, NEW d \in Nat, NEW s
  PROVE  Indent(d, s) \in Text
<1> DEFINE n == Len(indentString)
<1>1. n \in Nat /\ \A j \in 1..n : indentString[j] \in Symbols
  BY DEF Text
<1>2. d * n \in Nat /\ (n = 0 => d * n = 0)
  BY <1>1
<1>3. \A i \in 1..d * n : ((i - 1) % n) + 1 \in 1..n
  <2> TAKE i \in 1..d * n
  <2>1. n # 0
    BY <1>2
  <2> HIDE DEF n
  <2>2. n > 0 /\ i - 1 \in Nat
    BY <1>1, <1>2, <2>1
  <2> QED BY <1>1, <2>2
<1>4. [i \in 1..d * n |-> indentString[((i - 1) % n) + 1]] \in [1..d * n -> Symbols]
  BY <1>1, <1>3
<1>5. [i \in 1..d * n |-> indentString[((i - 1) % n) + 1]] \in Text
  <2> DEFINE f == [i \in 1..d * n |-> indentString[((i - 1) % n) + 1]]
  <2>1. f \in [1..d * n -> Symbols]
    BY <1>4
  <2> HIDE DEF f
  <2> QED BY <1>2, <2>1 DEF Text
<1> QED BY <1>5, Printed DEF Indent

LEMMA PiecesText ==
  /\ Newline \in Text /\ Separator \in Text /\ <<"\"">> \in Text
  /\ \A s : Final(s) \in Text
<1>1. Newline \in Text /\ <<>> \in Text
  BY Printed, Signs, Zenon DEF Newline
<1>2. <<"\"">> \in Text /\ <<",">> \in Text /\ <<":">> \in Text /\ <<" ">> \in Text
  BY Printed, Signs, Zenon
<1>3. <<",">> \o Newline \in Text /\ <<":">> \o <<" ">> \in Text /\ <<":">> \o <<>> \in Text
  BY <1>1, <1>2, TextJoined, Zenon
<1>4. Separator \in Text
  BY <1>1, <1>3, Zenon DEF Separator
<1>5. \A s : Final(s) \in Text
  BY <1>1 DEF Final
<1> QED BY <1>1, <1>2, <1>4, <1>5

LEMMA LeadText ==
  ASSUME indentString \in Text, depth \in Nat
  PROVE  Lead \in Text
BY IndentText, PiecesText, TextJoined DEF Lead

LEMMA EmitGrows ==
  ASSUME out \in Text, indentString \in Text, depth \in Nat,
         NEW text \in Text, Emit(text)
  PROVE  GrowsTo(out')
<1>1. Lead \in Text /\ Final(AfterAtom[here]) \in Text
  BY LeadText, PiecesText
<1>2. out' = out \o Lead \o text \o Final(AfterAtom[here])
  BY DEF Emit
<1> QED BY <1>1, <1>2, Behind, Zenon

LEMMA OpenGrows ==
  ASSUME out \in Text, indentString \in Text, depth \in Nat, NEW bracket \in Symbols,
         out' = out \o Lead \/ out' = out \o Lead \o <<bracket>> \o Newline
  PROVE  GrowsTo(out')
<1>1. Lead \in Text /\ Newline \in Text /\ <<bracket>> \in Text
  BY LeadText, PiecesText, Printed
<1> QED BY <1>1, Behind, Zenon

LEMMA CloseGrows ==
  ASSUME out \in Text, indentString \in Text, NEW d \in Nat, NEW s, NEW bracket \in Symbols,
         out' = out \o Newline \o Indent(d, s) \o <<bracket>> \o Final(s)
  PROVE  GrowsTo(out')
<1>1. Newline \in Text /\ Indent(d, s) \in Text /\ <<bracket>> \in Text /\ Final(s) \in Text
  BY IndentText, PiecesText, Printed
<1> QED BY <1>1, Behind, Zenon
=============================================================================
