---------------------------- MODULE TreeHeapProofs ----------------------------
(***************************************************************************)
(* What the operations of YajlTree do to a heap: who points to what        *)
(* (Edges, Owned), and of which kind the blocks are (Shape).               *)
(***************************************************************************)
EXTENDS YajlTree, FiniteSetTheorems, TLAPS

-----------------------------------------------------------------------------
(* Ownership of blocks as a set of triples: place i of block a points to p. *)

\* No blocks hold each other in a ring: of any blocks one is held from outside.
Grounded(D, E) ==
    \A S : S \subseteq D \ {NULL} /\ S # {} =>
        \E a, i, p : <<a, i, p>> \in E /\ p \in S /\ a \notin S

Owned(D, E) ==
    /\ \A a, i, p : <<a, i, p>> \in E => a \in D \cup {NULL} /\ p \in D
    /\ \A a, i, b, j, p : <<a, i, p>> \in E /\ <<b, j, p>> \in E => a = b /\ i = j
    /\ \A p \in D : \E a, i : <<a, i, p>> \in E
    /\ Grounded(D, E)

\* A new block with a pointer to it.
LEMMA OwnedNew ==
  ASSUME NEW D, NEW E, Owned(D, E), NEW a \in D \cup {NULL}, NEW i, NEW p, p \notin D
  PROVE  Owned(D \cup {p}, E \cup {<<a, i, p>>})
<1> DEFINE D2 == D \cup {p}
           E2 == E \cup {<<a, i, p>>}
<1>1. /\ \A b, j, q : <<b, j, q>> \in E2 => b \in D2 \cup {NULL} /\ q \in D2
      /\ \A b, j, c, k, q : <<b, j, q>> \in E2 /\ <<c, k, q>> \in E2 => b = c /\ j = k
      /\ \A q \in D2 : \E b, j : <<b, j, q>> \in E2
  BY DEF Owned
<1>2. ASSUME NEW S, S \subseteq D2 \ {NULL}, S # {}
      PROVE  \E b, j, q : <<b, j, q>> \in E2 /\ q \in S /\ b \notin S
  <2>1. CASE S \ {p} = {}
    <3>1. p \in S /\ a \notin S /\ <<a, i, p>> \in E2
      BY <1>2, <2>1
    <3> QED BY <3>1
  <2>2. CASE S \ {p} # {}
    <3> DEFINE T == S \ {p}
    <3>1. T \subseteq D \ {NULL} /\ T # {}
      BY <1>2, <2>2
    <3> HIDE DEF T
    <3>2. PICK b, j, q : <<b, j, q>> \in E /\ q \in T /\ b \notin T
      BY <3>1 DEF Owned, Grounded
    <3>3. b # p \/ b = NULL
      BY <3>2 DEF Owned
    <3>4. b \notin S
      BY <1>2, <3>2, <3>3 DEF T
    <3> QED BY <3>2, <3>4 DEF T
  <2> QED BY <2>1, <2>2
<1>3. Grounded(D2, E2)
  BY <1>2 DEF Grounded
<1> QED BY <1>1, <1>3 DEF Owned

\* Block b is not below p: of any blocks around b one is held from outside of
\* them, and is not p.
Clear(D, E, p, b) ==
    \A S : S \subseteq D \ {NULL} /\ b \in S =>
        \E c, j, q : <<c, j, q>> \in E /\ q \in S /\ c \notin S /\ q # p

LEMMA ClearNull ==
  ASSUME NEW D, NEW E, NEW p
  PROVE  Clear(D, E, p, NULL)
BY DEF Clear

LEMMA ClearTop ==
  ASSUME NEW D, NEW E, NEW p, NEW i, NEW b, b # p, <<NULL, i, b>> \in E
  PROVE  Clear(D, E, p, b)
BY DEF Clear

LEMMA ClearUnder ==
  ASSUME NEW D, NEW E, NEW p, NEW a, Clear(D, E, p, a), NEW i, NEW b, b # p, <<a, i, b>> \in E
  PROVE  Clear(D, E, p, b)
<1> SUFFICES ASSUME NEW S, S \subseteq D \ {NULL}, b \in S
             PROVE  \E c, j, q : <<c, j, q>> \in E /\ q \in S /\ c \notin S /\ q # p
  BY DEF Clear
<1>1. CASE a \in S
  BY <1>1 DEF Clear
<1>2. CASE a \notin S
  BY <1>2
<1> QED BY <1>1, <1>2

LEMMA ClearChain ==
  ASSUME NEW D, NEW E, NEW p, NEW i, NEW e, NEW j, NEW o, NEW k, NEW t, p \notin {e, o, t},
         <<NULL, i, e>> \in E, <<e, j, o>> \in E, <<o, k, t>> \in E
  PROVE  Clear(D, E, p, t)
<1>1. Clear(D, E, p, e)
  BY ClearTop
<1>2. Clear(D, E, p, o)
  BY <1>1, ClearUnder
<1> QED BY <1>2, ClearUnder

\* A pointer, unless it is NULL, is passed on.
Pointer(a, i, p) == IF p = NULL THEN {} ELSE {<<a, i, p>>}

LEMMA OwnedMove ==
  ASSUME NEW D, NEW E, Owned(D, E), NEW a, NEW i, NEW p, p # NULL => <<a, i, p>> \in E,
         NEW b \in D \cup {NULL}, Clear(D, E, p, b), NEW j
  PROVE  Owned(D, (E \ Pointer(a, i, p)) \cup Pointer(b, j, p))
<1>1. CASE p = NULL
  BY <1>1 DEF Pointer
<1>2. CASE p # NULL
  <2> DEFINE E2 == (E \ {<<a, i, p>>}) \cup {<<b, j, p>>}
  <2>1. Pointer(a, i, p) = {<<a, i, p>>} /\ Pointer(b, j, p) = {<<b, j, p>>}
    BY <1>2 DEF Pointer
  <2>2. /\ \A c, k, q : <<c, k, q>> \in E2 => c \in D \cup {NULL} /\ q \in D
        /\ \A c, k, d, l, q : <<c, k, q>> \in E2 /\ <<d, l, q>> \in E2 => c = d /\ k = l
        /\ \A q \in D : \E c, k : <<c, k, q>> \in E2
    <3>1. <<a, i, p>> \in E
      BY <1>2
    <3>2. \A c, k, q : <<c, k, q>> \in E2 <=> (<<c, k, q>> \in E /\ ~(c = a /\ k = i /\ q = p))
                                               \/ (c = b /\ k = j /\ q = p)
      OBVIOUS
    <3> HIDE DEF E2
    <3>3. \A c, k, q : <<c, k, q>> \in E2 => c \in D \cup {NULL} /\ q \in D
      BY <3>1, <3>2 DEF Owned
    <3>4. \A c, k, d, l, q : <<c, k, q>> \in E2 /\ <<d, l, q>> \in E2 => c = d /\ k = l
      BY <3>1, <3>2 DEF Owned
    <3>5. ASSUME NEW q \in D PROVE \E c, k : <<c, k, q>> \in E2
      <4>1. CASE q = p
        BY <3>2, <4>1
      <4>2. CASE q # p
        <5>1. PICK c, k : <<c, k, q>> \in E
          BY DEF Owned
        <5> QED BY <3>2, <4>2, <5>1
      <4> QED BY <4>1, <4>2
    <3> QED BY <3>3, <3>4, <3>5
  <2>3. ASSUME NEW S, S \subseteq D \ {NULL}, S # {}
        PROVE  \E c, k, q : <<c, k, q>> \in E2 /\ q \in S /\ c \notin S
    <3>1. CASE b \in S
      <4>1. PICK c, k, q : <<c, k, q>> \in E /\ q \in S /\ c \notin S /\ q # p
        BY <2>3, <3>1 DEF Clear
      <4>2. <<c, k, q>> \in E2
        BY <4>1
      <4> QED BY <4>1, <4>2
    <3>2. CASE b \notin S
      <4>1. PICK c, k, q : <<c, k, q>> \in E /\ q \in S /\ c \notin S
        BY <2>3 DEF Owned, Grounded
      <4>2. CASE q = p
        <5>1. <<b, j, p>> \in E2
          OBVIOUS
        <5> QED BY <3>2, <4>1, <4>2, <5>1
      <4>3. CASE q # p
        <5>1. <<c, k, q>> \in E2
          BY <4>1, <4>3
        <5> QED BY <4>1, <5>1
      <4> QED BY <4>2, <4>3
    <3> QED BY <3>1, <3>2
  <2>4. Grounded(D, E2)
    BY <2>3 DEF Grounded
  <2> HIDE DEF E2
  <2>5. Owned(D, E2)
    BY <2>2, <2>4 DEF Owned
  <2> QED BY <2>1, <2>5 DEF E2
<1> QED BY <1>1, <1>2

\* A block without pointers goes, and the pointer to it.
LEMMA OwnedDrop ==
  ASSUME NEW D, NEW E, Owned(D, E), NULL \notin D, NEW a, NEW i, NEW p, p # NULL => <<a, i, p>> \in E,
         \A j, q : p # NULL => <<p, j, q>> \notin E
  PROVE  Owned(D \ {p}, E \ Pointer(a, i, p))
<1> DEFINE D2 == D \ {p}
           E2 == E \ Pointer(a, i, p)
<1>1. /\ \A b, j, q : <<b, j, q>> \in E2 => b \in D2 \cup {NULL} /\ q \in D2
      /\ \A b, j, c, k, q : <<b, j, q>> \in E2 /\ <<c, k, q>> \in E2 => b = c /\ j = k
      /\ \A q \in D2 : \E b, j : <<b, j, q>> \in E2
  BY DEF Owned, Pointer
<1>2. ASSUME NEW S, S \subseteq D2 \ {NULL}, S # {}
      PROVE  \E b, j, q : <<b, j, q>> \in E2 /\ q \in S /\ b \notin S
  <2>1. S \subseteq D \ {NULL}
    BY <1>2
  <2>2. PICK b, j, q : <<b, j, q>> \in E /\ q \in S /\ b \notin S
    BY <1>2, <2>1 DEF Owned, Grounded
  <2>3. q # p
    BY <1>2, <2>2
  <2>4. <<b, j, q>> \in E2
    BY <2>2, <2>3 DEF Pointer
  <2> QED BY <2>2, <2>4
<1>3. Grounded(D2, E2)
  BY <1>2 DEF Grounded
<1> QED BY <1>1, <1>3 DEF Owned

-----------------------------------------------------------------------------
(* The blocks. *)

Containers == {"object", "array"}
Scalars == {"string", "number", "true", "false", "null"}
Element == [key : Nat, value : Nat, next : Nat]
Val == [type : Containers \cup Scalars, text : Nat, keys : Nat, values : Nat,
        len : Nat, number : SUBSET {"int", "double"}]
Table_ == [cells : Seq(Nat)]
Text == [chars : KeyTexts \cup StringTexts \cup NumberTexts]
Blocks == Element \cup Val \cup Table_ \cup Text

\* Place i of block b points to p.
Points(b, i, p) ==
    \/ /\ b \in Element
       /\ (i = 1 /\ p = b.key) \/ (i = 2 /\ p = b.value) \/ (i = 3 /\ p = b.next)
    \/ /\ b \in Val
       /\ (i = 1 /\ p = b.text) \/ (i = 2 /\ p = b.keys) \/ (i = 3 /\ p = b.values)
    \/ b \in Table_ /\ i \in 1..Len(b.cells) /\ p = b.cells[i]

Edge(heap, held, a, i, p) ==
    /\ p # NULL
    /\ \/ a = NULL /\ i \in 1..5 /\ p = held[i]
       \/ a \in DOMAIN heap /\ Points(heap[a], i, p)

Edges(heap, held) ==
    {e \in Nat \X Nat \X Nat : Edge(heap, held, e[1], e[2], e[3])}

Five == [1..5 -> Nat]

HeapOK(heap) ==
    /\ DOMAIN heap \subseteq Nat \ {NULL} /\ IsFiniteSet(DOMAIN heap)
    /\ heap = [a \in DOMAIN heap |-> heap[a]]
    /\ \A a \in DOMAIN heap : heap[a] \in Blocks

\* The four kinds of blocks are apart.
LEMMA KindsApart ==
  ASSUME NEW b
  PROVE  /\ b \in Element => b \notin Val /\ b \notin Table_ /\ b \notin Text
         /\ b \in Val => b \notin Element /\ b \notin Table_ /\ b \notin Text
         /\ b \in Table_ => b \notin Element /\ b \notin Val /\ b \notin Text
         /\ b \in Text => b \notin Element /\ b \notin Val /\ b \notin Table_
<1>1. b \in Element => DOMAIN b = {"key", "value", "next"}
  BY DEF Element
<1>2. b \in Val => DOMAIN b = {"type", "text", "keys", "values", "len", "number"}
  BY DEF Val
<1>3. b \in Table_ => DOMAIN b = {"cells"}
  BY DEF Table_
<1>4. b \in Text => DOMAIN b = {"chars"}
  BY DEF Text
<1>5. /\ "key" \notin {"type", "text", "keys", "values", "len", "number"}
      /\ "key" \notin {"cells"} /\ "key" \notin {"chars"}
      /\ "type" \notin {"cells"} /\ "type" \notin {"chars"} /\ "cells" \notin {"chars"}
  OBVIOUS
<1> QED BY <1>1, <1>2, <1>3, <1>4, <1>5

LEMMA PointsElement ==
  ASSUME NEW b, b \in Element, NEW i, NEW p
  PROVE  Points(b, i, p) <=>
           (i = 1 /\ p = b.key) \/ (i = 2 /\ p = b.value) \/ (i = 3 /\ p = b.next)
BY KindsApart, Zenon DEF Points

LEMMA PointsVal ==
  ASSUME NEW b, b \in Val, NEW i, NEW p
  PROVE  Points(b, i, p) <=>
           (i = 1 /\ p = b.text) \/ (i = 2 /\ p = b.keys) \/ (i = 3 /\ p = b.values)
BY KindsApart, Zenon DEF Points

LEMMA PointsTable ==
  ASSUME NEW b, b \in Table_, NEW i, NEW p
  PROVE  Points(b, i, p) <=> i \in 1..Len(b.cells) /\ p = b.cells[i]
BY KindsApart, Zenon DEF Points

LEMMA PointsText ==
  ASSUME NEW b, b \in Text, NEW i, NEW p
  PROVE  ~Points(b, i, p)
BY KindsApart, Zenon DEF Points

LEMMA PointsNat ==
  ASSUME NEW b, NEW i, NEW p, Points(b, i, p)
  PROVE  i \in Nat /\ p \in Nat
<1>1. CASE b \in Element
  BY <1>1, KindsApart DEF Points, Element
<1>2. CASE b \in Val
  BY <1>2, KindsApart DEF Points, Val
<1>3. CASE b \in Table_
  BY <1>3, KindsApart DEF Points, Table_
<1> QED BY <1>1, <1>2, <1>3 DEF Points

LEMMA EdgeIs ==
  ASSUME NEW heap, HeapOK(heap), NEW held \in Five, NEW a, NEW i, NEW p
  PROVE  <<a, i, p>> \in Edges(heap, held) <=> Edge(heap, held, a, i, p)
<1>1. ASSUME Edge(heap, held, a, i, p) PROVE a \in Nat /\ i \in Nat /\ p \in Nat
  <2>1. CASE a = NULL /\ i \in 1..5 /\ p = held[i]
    BY <2>1 DEF Five, NULL
  <2>2. CASE a \in DOMAIN heap /\ Points(heap[a], i, p)
    BY <2>2, PointsNat DEF HeapOK
  <2> QED BY <1>1, <2>1, <2>2 DEF Edge
<1> QED BY <1>1 DEF Edges

\* malloc gives an address that is not in use.
LEMMA FreshIs ==
  ASSUME NEW heap, HeapOK(heap)
  PROVE  Fresh(heap) \in Nat \ {NULL} /\ Fresh(heap) \notin DOMAIN heap
<1> DEFINE D == DOMAIN heap
           n == Cardinality(D)
<1>1. IsFiniteSet(D) /\ n \in Nat
  BY FS_CardinalityType DEF HeapOK
<1>2. \E a \in 1..n + 1 : a \notin D
  <2> SUFFICES ASSUME 1..n + 1 \subseteq D PROVE FALSE
    OBVIOUS
  <2>1. Cardinality(1..n + 1) <= n
    BY <1>1, FS_Subset
  <2>2. Cardinality(1..n + 1) = n + 1
    <3> HIDE DEF n
    <3>1. n + 1 \in Int /\ 1 \in Int
      BY <1>1
    <3>2. Cardinality(1..(n + 1)) = IF 1 > n + 1 THEN 0 ELSE (n + 1) - 1 + 1
      BY <3>1, FS_Interval
    <3> QED BY <3>2, <1>1
  <2> QED BY <1>1, <2>1, <2>2
<1>3. Fresh(heap) \in 1..n + 1 /\ Fresh(heap) \notin D
  BY <1>2 DEF Fresh
<1> QED BY <1>1, <1>3 DEF NULL

LEMMA FiveIs ==
  ASSUME NEW x1 \in Nat, NEW x2 \in Nat, NEW x3 \in Nat, NEW x4 \in Nat, NEW x5 \in Nat
  PROVE  <<x1, x2, x3, x4, x5>> \in Five
BY DEF Five

\* Writing and freeing a block.
Stored(heap, a, b, h) ==
    /\ HeapOK(h) /\ DOMAIN h = DOMAIN heap \cup {a} /\ h[a] = b
    /\ \A x \in DOMAIN heap : x # a => h[x] = heap[x]

Freed(heap, a, h) ==
    /\ HeapOK(h) /\ DOMAIN h = DOMAIN heap \ {a}
    /\ \A x \in DOMAIN heap : x # a => h[x] = heap[x]

LEMMA StoreIs ==
  ASSUME NEW heap, HeapOK(heap), NEW a, a \in Nat \ {NULL}, NEW b, b \in Blocks
  PROVE  Stored(heap, a, b, Store(heap, a, b))
<1> DEFINE h == Store(heap, a, b)
<1>1. DOMAIN h = DOMAIN heap \cup {a} /\ h[a] = b
  BY DEF Store
<1>2. \A x \in DOMAIN heap : x # a => h[x] = heap[x]
  BY DEF Store
<1>3. IsFiniteSet(DOMAIN h)
  <2>1. IsFiniteSet(DOMAIN heap \cup {a})
    BY FS_AddElement DEF HeapOK
  <2> QED BY <1>1, <2>1, Zenon
<1>4. h = [x \in DOMAIN h |-> h[x]]
  BY DEF Store
<1>5. \A x \in DOMAIN h : h[x] \in Blocks
  BY <1>1, <1>2 DEF HeapOK
<1>6. HeapOK(h)
  BY <1>1, <1>3, <1>4, <1>5 DEF HeapOK
<1> QED BY <1>1, <1>2, <1>6 DEF Stored

LEMMA FreeIs ==
  ASSUME NEW heap, HeapOK(heap), NEW a, a \in DOMAIN heap
  PROVE  Freed(heap, a, Free(heap, a))
<1> DEFINE h == Free(heap, a)
<1>1. h = [x \in DOMAIN heap \ {a} |-> heap[x]]
  BY DEF Free, HeapOK
<1> HIDE DEF h
<1>2. IsFiniteSet(DOMAIN h)
  <2>1. IsFiniteSet(DOMAIN heap \ {a})
    BY FS_RemoveElement DEF HeapOK
  <2>2. DOMAIN h = DOMAIN heap \ {a}
    BY <1>1
  <2> QED BY <2>1, <2>2, Zenon
<1>3. HeapOK(h)
  BY <1>1, <1>2 DEF HeapOK
<1>4. Freed(heap, a, h)
  BY <1>1, <1>3 DEF Freed
<1> QED BY <1>4 DEF h

\* A change of a block that is there.
LEMMA ExceptIs ==
  ASSUME NEW heap, HeapOK(heap), NEW a \in DOMAIN heap, NEW b
  PROVE  [heap EXCEPT ![a] = b] = Store(heap, a, b)
<1>1. DOMAIN heap \cup {a} = DOMAIN heap
  OBVIOUS
<1>2. [heap EXCEPT ![a] = b] = [x \in DOMAIN heap |-> IF x = a THEN b ELSE heap[x]]
  OBVIOUS
<1> QED BY <1>1, <1>2 DEF Store

-----------------------------------------------------------------------------
(* What the heap looks like. *)

ValShape(b) ==
    IF b.type \in Containers
    THEN /\ b.text = NULL
         /\ b.values = NULL <=> b.len = 0
         /\ b.keys = NULL <=> b.type = "array" \/ b.len = 0
    ELSE b.keys = NULL /\ b.values = NULL /\ b.len = 0

\* What place i of block a may point to.
Fits_(heap, a, i, p) ==
    /\ a = NULL /\ i = 1 => heap[p] \in Element
    /\ a = NULL /\ i # 1 => heap[p] \in Val
    /\ a # NULL /\ heap[a] \in Element =>
          /\ i = 1 => heap[p] \in Text
          /\ i = 2 => heap[p] \in Val /\ heap[p].type \in Containers
          /\ i = 3 => heap[p] \in Element
    /\ a # NULL /\ heap[a] \in Val =>
          /\ i = 1 => heap[p] \in Text
          /\ i # 1 => heap[p] \in Table_ /\ Len(heap[p].cells) = heap[a].len

Member_(i) == IF i = 2 THEN Text ELSE Val

Shape(heap, held) ==
    /\ HeapOK(heap) /\ held \in Five
    /\ Owned(DOMAIN heap, Edges(heap, held))
    /\ \A a \in DOMAIN heap : /\ heap[a] \in Val => ValShape(heap[a])
                              /\ heap[a] \in Element => heap[a].value # NULL
    /\ \A a, i, p : <<a, i, p>> \in Edges(heap, held) => Fits_(heap, a, i, p)
    /\ \A v, i, t, j, p :
          (/\ <<v, i, t>> \in Edges(heap, held) /\ <<t, j, p>> \in Edges(heap, held)
           /\ v # NULL /\ heap[v] \in Val /\ i \in {2, 3}) => heap[p] \in Member_(i)

\* Blocks that differ in nothing their holders look at.
Alike(b, c) ==
    /\ b \in Element <=> c \in Element
    /\ b \in Val <=> c \in Val
    /\ b \in Table_ <=> c \in Table_
    /\ b \in Text <=> c \in Text
    /\ b \in Val => b.type = c.type

\* A step that keeps the kinds of the blocks has to be looked at where it
\* makes new pointers and where it changes the length of a table.
ShapeChange(heap, held, heap2, held2) ==
    /\ HeapOK(heap2) /\ held2 \in Five
    /\ Owned(DOMAIN heap2, Edges(heap2, held2))
    /\ \A a \in DOMAIN heap \cap DOMAIN heap2 : Alike(heap[a], heap2[a])
    /\ \A a \in DOMAIN heap2 :
          \/ a \in DOMAIN heap /\ heap2[a] = heap[a]
          \/ /\ heap2[a] \in Val => ValShape(heap2[a])
             /\ heap2[a] \in Element => heap2[a].value # NULL
    /\ \A a, i, p : <<a, i, p>> \in Edges(heap2, held2) =>
          \/ /\ <<a, i, p>> \in Edges(heap, held)
             /\ a # NULL /\ heap[a] \in Val /\ i # 1 =>
                   heap2[a].len = heap[a].len /\ Len(heap2[p].cells) = Len(heap[p].cells)
          \/ Fits_(heap2, a, i, p)
    /\ \A v, i, t, j, p :
          (/\ <<v, i, t>> \in Edges(heap2, held2) /\ <<t, j, p>> \in Edges(heap2, held2)
           /\ v # NULL /\ heap2[v] \in Val /\ i \in {2, 3}) =>
             \/ <<v, i, t>> \in Edges(heap, held) /\ <<t, j, p>> \in Edges(heap, held)
             \/ heap2[p] \in Member_(i)

LEMMA ShapeStep ==
  ASSUME NEW heap, NEW held, NEW heap2, NEW held2, Shape(heap, held),
         ShapeChange(heap, held, heap2, held2)
  PROVE  Shape(heap2, held2)
<1> DEFINE E == Edges(heap, held)
           E2 == Edges(heap2, held2)
<1>0. /\ HeapOK(heap2) /\ held2 \in Five /\ Owned(DOMAIN heap2, E2)
      /\ \A a \in DOMAIN heap \cap DOMAIN heap2 : Alike(heap[a], heap2[a])
  BY DEF ShapeChange
<1> HIDE DEF E, E2
<1>1. \A a, i, p : <<a, i, p>> \in E =>
          /\ a \in DOMAIN heap \cup {NULL} /\ p \in DOMAIN heap /\ Fits_(heap, a, i, p)
  BY DEF E, Shape, Owned
<1>2. \A a, i, p : <<a, i, p>> \in E2 => a \in DOMAIN heap2 \cup {NULL} /\ p \in DOMAIN heap2
  BY <1>0 DEF Owned
<1>3. \A a \in DOMAIN heap2 :
         /\ heap2[a] \in Val => ValShape(heap2[a])
         /\ heap2[a] \in Element => heap2[a].value # NULL
  BY DEF Shape, ShapeChange
<1>4. ASSUME NEW a, NEW i, NEW p, <<a, i, p>> \in E2
      PROVE  Fits_(heap2, a, i, p)
  <2>1. \/ /\ <<a, i, p>> \in E
           /\ a # NULL /\ heap[a] \in Val /\ i # 1 =>
                 heap2[a].len = heap[a].len /\ Len(heap2[p].cells) = Len(heap[p].cells)
        \/ Fits_(heap2, a, i, p)
    BY <1>4 DEF E, E2, ShapeChange
  <2> SUFFICES ASSUME <<a, i, p>> \in E,
                      a # NULL /\ heap[a] \in Val /\ i # 1 =>
                         heap2[a].len = heap[a].len /\ Len(heap2[p].cells) = Len(heap[p].cells)
               PROVE  Fits_(heap2, a, i, p)
    BY <2>1
  <2>2. Alike(heap[p], heap2[p]) /\ (a # NULL => Alike(heap[a], heap2[a]))
    BY <1>0, <1>1, <1>2, <1>4
  <2>3. Fits_(heap, a, i, p)
    BY <1>1
  <2>4. CASE a = NULL
    BY <2>2, <2>3, <2>4 DEF Fits_, Alike
  <2>5. CASE a # NULL /\ heap[a] \in Element
    <3>1. /\ heap2[a] \in Element /\ heap2[a] \notin Val
          /\ heap[a] \in Element /\ heap[a] \notin Val
      BY <2>2, <2>5, KindsApart DEF Alike
    <3>2. CASE i = 1
      BY <2>2, <2>3, <2>5, <3>1, <3>2 DEF Fits_, Alike
    <3>3. CASE i = 2
      BY <2>2, <2>3, <2>5, <3>1, <3>3 DEF Fits_, Alike
    <3>4. CASE i = 3
      BY <2>2, <2>3, <2>5, <3>1, <3>4 DEF Fits_, Alike
    <3>5. i \in {1, 2, 3}
      <4>1. HeapOK(heap) /\ held \in Five
        BY DEF Shape
      <4>2. Edge(heap, held, a, i, p)
        BY <4>1, EdgeIs DEF E
      <4> QED BY <4>2, <3>1, <2>5, KindsApart DEF Edge, Points
    <3> QED BY <3>2, <3>3, <3>4, <3>5
  <2>6. CASE a # NULL /\ heap[a] \in Val
    <3>1. heap2[a] \in Val /\ heap2[a] \notin Element
      BY <2>2, <2>6, KindsApart DEF Alike
    <3>2. CASE i = 1
      BY <2>2, <2>3, <2>6, <3>1, <3>2 DEF Fits_, Alike
    <3>3. CASE i # 1
      <4>1. heap[p] \in Table_ /\ Len(heap[p].cells) = heap[a].len /\ heap2[p] \in Table_
        BY <2>2, <2>3, <2>6, <3>3 DEF Fits_, Alike
      <4>4. Len(heap2[p].cells) = heap2[a].len
        BY <4>1, <2>6, <3>3
      <4> QED BY <2>6, <3>1, <3>3, <4>1, <4>4 DEF Fits_
    <3> QED BY <3>2, <3>3
  <2>7. CASE a # NULL /\ heap[a] \notin Element /\ heap[a] \notin Val
    BY <2>2, <2>7 DEF Fits_, Alike
  <2> QED BY <2>4, <2>5, <2>6, <2>7
<1>5. ASSUME NEW v, NEW i, NEW t, NEW j, NEW p, <<v, i, t>> \in E2, <<t, j, p>> \in E2,
             v # NULL, heap2[v] \in Val, i \in {2, 3}
      PROVE  heap2[p] \in Member_(i)
  <2>1. \/ <<v, i, t>> \in E /\ <<t, j, p>> \in E
        \/ heap2[p] \in Member_(i)
    BY <1>5 DEF E, E2, ShapeChange
  <2> SUFFICES ASSUME <<v, i, t>> \in E, <<t, j, p>> \in E PROVE heap2[p] \in Member_(i)
    BY <2>1
  <2>2. Alike(heap[p], heap2[p]) /\ Alike(heap[v], heap2[v])
    BY <1>0, <1>1, <1>2, <1>5
  <2>3. heap[v] \in Val
    BY <1>5, <2>2 DEF Alike
  <2>4. heap[p] \in Member_(i)
    BY <1>5, <2>3 DEF E, Shape
  <2> QED BY <2>2, <2>4 DEF Alike, Member_
<1>6. \A a, i, p : <<a, i, p>> \in E2 => Fits_(heap2, a, i, p)
  BY <1>4
<1>7. \A v, i, t, j, p :
         (/\ <<v, i, t>> \in E2 /\ <<t, j, p>> \in E2
          /\ v # NULL /\ heap2[v] \in Val /\ i \in {2, 3}) => heap2[p] \in Member_(i)
  BY <1>5
<1> QED BY <1>0, <1>3, <1>6, <1>7, Zenon DEF E2, Shape

-----------------------------------------------------------------------------
(* What the operations do to the shape of the heap.  The fifth place of     *)
(* held is a local variable of the callbacks.                               *)

LEMMA SameOwned ==
  ASSUME NEW D, NEW E, NEW F, Owned(D, E), \A a, i, p : <<a, i, p>> \in F <=> <<a, i, p>> \in E
  PROVE  Owned(D, F)
<1>1. \A a, i, p : <<a, i, p>> \in F => a \in D \cup {NULL} /\ p \in D
  BY Zenon DEF Owned
<1>2. ASSUME NEW a, NEW i, NEW b, NEW j, NEW p, <<a, i, p>> \in F, <<b, j, p>> \in F
      PROVE  a = b /\ i = j
  <2>1. <<a, i, p>> \in E /\ <<b, j, p>> \in E
    BY <1>2, Zenon
  <2> QED BY <2>1, Zenon DEF Owned
<1>3. \A p \in D : \E a, i : <<a, i, p>> \in F
  BY Zenon DEF Owned
<1>4. Grounded(D, F)
  <2>1. Grounded(D, E)
    BY Zenon DEF Owned
  <2> SUFFICES ASSUME NEW S, S \subseteq D \ {NULL}, S # {}
               PROVE  \E a, i, p : <<a, i, p>> \in F /\ p \in S /\ a \notin S
    BY Zenon DEF Grounded
  <2>2. PICK a, i, p : <<a, i, p>> \in E /\ p \in S /\ a \notin S
    BY <2>1, Zenon DEF Grounded
  <2>3. <<a, i, p>> \in F
    BY <2>2, Zenon
  <2> QED BY <2>2, <2>3, Zenon
<1> QED BY <1>1, <1>2, <1>3, <1>4, Zenon DEF Owned

LEMMA AlikeSame == ASSUME NEW b PROVE Alike(b, b)
BY DEF Alike

\* Of the elements of the stack only the key of e is changed.
Kept(heap, h, e, freed) ==
    \A x \in DOMAIN heap \ freed :
        /\ x \in DOMAIN h /\ Alike(heap[x], h[x])
        /\ heap[x] \in Element => h[x].value = heap[x].value /\ h[x].next = heap[x].next
        /\ heap[x] \in Element /\ x # e => h[x].key = heap[x].key

\* No table has a hole.
Full(heap) ==
    \A t \in DOMAIN heap : heap[t] \in Table_ => \A j : ~Points(heap[t], j, NULL)

LEMMA FullKept ==
  ASSUME NEW heap, NEW h,
         \A x \in DOMAIN h : h[x] \in Table_ => x \in DOMAIN heap /\ h[x] = heap[x]
  PROVE  Full(heap) => Full(h)
BY DEF Full

\* Pointers of one place to another, in the places of held.
LEMMA HeldStep ==
  ASSUME NEW heap, NEW held, Shape(heap, held), NEW held2 \in Five,
         NEW i \in 2..5, NEW j \in 2..5, i # j, held[j] = NULL,
         held2[i] = NULL, held2[j] = held[i],
         \A k \in 1..5 : k # i /\ k # j => held2[k] = held[k]
  PROVE  Shape(heap, held2)
<1> DEFINE E == Edges(heap, held)
           E2 == Edges(heap, held2)
           p == held[i]
<1>1. HeapOK(heap) /\ held \in Five /\ Owned(DOMAIN heap, E)
  BY DEF Shape
<1>2. ASSUME NEW a, NEW k, NEW q
      PROVE  /\ <<a, k, q>> \in E <=> Edge(heap, held, a, k, q)
             /\ <<a, k, q>> \in E2 <=> Edge(heap, held2, a, k, q)
  BY <1>1, EdgeIs
<1> HIDE DEF E, E2
<1>3. Owned(DOMAIN heap, E2)
  <2> DEFINE X == (E \ Pointer(NULL, i, p)) \cup Pointer(NULL, j, p)
  <2>1. p # NULL => <<NULL, i, p>> \in E
    BY <1>2 DEF Edge
  <2>2. Owned(DOMAIN heap, X)
    <3>1. Clear(DOMAIN heap, E, p, NULL) /\ NULL \in DOMAIN heap \cup {NULL}
      BY ClearNull
    <3> QED BY <1>1, <2>1, <3>1, OwnedMove
  <2>3. ASSUME NEW a, NEW k, NEW q
        PROVE  <<a, k, q>> \in E2 <=> <<a, k, q>> \in X
    <3>1. <<a, k, q>> \in E <=> Edge(heap, held, a, k, q)
      BY <1>2
    <3>2. <<a, k, q>> \in E2 <=> Edge(heap, held2, a, k, q)
      BY <1>2
    <3>3. CASE a # NULL
      BY <3>1, <3>2, <3>3 DEF Edge, Pointer
    <3>4. CASE a = NULL
      BY <1>1, <3>1, <3>2, <3>4 DEF Edge, HeapOK, Pointer
    <3> QED BY <3>3, <3>4
  <2> HIDE DEF X
  <2> QED BY <2>2, <2>3, SameOwned
<1>4. \A a, k, q : <<a, k, q>> \in E2 => <<a, k, q>> \in E \/ Fits_(heap, a, k, q)
  <2> SUFFICES ASSUME NEW a, NEW k, NEW q, <<a, k, q>> \in E2, <<a, k, q>> \notin E
               PROVE  Fits_(heap, a, k, q)
    OBVIOUS
  <2>1. a = NULL /\ k = j /\ q = p /\ p # NULL
    BY <1>2 DEF Edge
  <2>2. <<NULL, i, p>> \in E
    BY <1>2, <2>1 DEF Edge
  <2>3. Fits_(heap, NULL, i, p)
    BY <2>2 DEF E, Shape
  <2> QED BY <2>1, <2>3 DEF Fits_
<1>5. \A a, k, q : a # NULL => (<<a, k, q>> \in E2 <=> <<a, k, q>> \in E)
  BY <1>2 DEF Edge
<1>6. \A a \in DOMAIN heap : Alike(heap[a], heap[a])
  BY AlikeSame
<1>7. \A t, k, q, v, n : <<v, n, t>> \in E2 /\ <<t, k, q>> \in E2 /\ v # NULL =>
         <<v, n, t>> \in E /\ <<t, k, q>> \in E
  BY <1>1, <1>5 DEF Owned, HeapOK, E
<1>8. ShapeChange(heap, held, heap, held2)
  BY <1>1, <1>3, <1>4, <1>6, <1>7 DEF E, E2, ShapeChange
<1> QED BY <1>8, ShapeStep

\* value_alloc: v is a local variable.
LEMMA AllocShape ==
  ASSUME NEW heap, NEW held, Shape(heap, held), held[5] = NULL,
         NEW b \in Val, ValShape(b), b.text = NULL, b.keys = NULL, b.values = NULL,
         NEW p \in Nat \ {NULL}, p \notin DOMAIN heap,
         NEW held2 \in Five, held2[5] = p, \A k \in 1..4 : held2[k] = held[k]
  PROVE  /\ Shape(Store(heap, p, b), held2) /\ Kept(heap, Store(heap, p, b), NULL, {})
         /\ Full(heap) => Full(Store(heap, p, b))
<1> DEFINE h == Store(heap, p, b)
           E == Edges(heap, held)
           E2 == Edges(h, held2)
           X == E \cup {<<NULL, 5, p>>}
<1>1. HeapOK(heap) /\ held \in Five /\ Owned(DOMAIN heap, E)
  BY DEF Shape
<1>2. /\ HeapOK(h) /\ DOMAIN h = DOMAIN heap \cup {p} /\ h[p] = b
      /\ \A x \in DOMAIN heap : x # p => h[x] = heap[x]
  <2>1. b \in Blocks
    BY DEF Blocks
  <2>2. Stored(heap, p, b, h)
    BY <1>1, <2>1, StoreIs
  <2> QED BY <2>2 DEF Stored
<1> HIDE DEF h
<1>3. ASSUME NEW a, NEW k, NEW q
      PROVE  /\ <<a, k, q>> \in E <=> Edge(heap, held, a, k, q)
             /\ <<a, k, q>> \in E2 <=> Edge(h, held2, a, k, q)
  BY <1>1, <1>2, EdgeIs
<1>4. Owned(DOMAIN h, X)
  <2>1. Owned(DOMAIN heap \cup {p}, X)
    BY <1>1, OwnedNew
  <2> QED BY <1>2, <2>1
<1> HIDE DEF E, E2
<1>5. \A k, q : q # NULL => ~Points(b, k, q)
  BY KindsApart DEF Points
<1>6. ASSUME NEW a, NEW k, NEW q
      PROVE  <<a, k, q>> \in E2 <=> <<a, k, q>> \in X
  <2>1. <<a, k, q>> \in E <=> Edge(heap, held, a, k, q)
    BY <1>3
  <2>2. <<a, k, q>> \in E2 <=> Edge(h, held2, a, k, q)
    BY <1>3
  <2>3. CASE a = NULL
    BY <1>1, <1>2, <2>1, <2>2, <2>3 DEF Edge, HeapOK
  <2>4. CASE a # NULL
    BY <1>1, <1>2, <1>5, <2>1, <2>2, <2>4 DEF Edge
  <2> QED BY <2>3, <2>4
<1>7. Owned(DOMAIN h, E2)
  BY <1>4, <1>6, SameOwned
<1>8. \A a \in DOMAIN heap \cap DOMAIN h : h[a] = heap[a] /\ Alike(heap[a], h[a])
  BY <1>2, AlikeSame
<1>9. b \notin Element /\ Fits_(h, NULL, 5, p)
  BY <1>2, KindsApart DEF Fits_
<1>10. \A a, k, q : <<a, k, q>> \in E => a \in DOMAIN heap \cup {NULL} /\ q \in DOMAIN heap
  BY <1>1 DEF Owned
<1>11. \A a, k, q : <<a, k, q>> \in E2 =>
         \/ /\ <<a, k, q>> \in E
            /\ a # NULL /\ heap[a] \in Val /\ k # 1 =>
                  h[a].len = heap[a].len /\ Len(h[q].cells) = Len(heap[q].cells)
         \/ Fits_(h, a, k, q)
  BY <1>2, <1>6, <1>8, <1>9, <1>10
<1>12. \A v, n, t, k, q : <<v, n, t>> \in E2 /\ <<t, k, q>> \in E2 /\ v # NULL =>
         <<v, n, t>> \in E /\ <<t, k, q>> \in E
  BY <1>1, <1>6, <1>10 DEF HeapOK
<1>13. \A a \in DOMAIN h :
          \/ a \in DOMAIN heap /\ h[a] = heap[a]
          \/ /\ h[a] \in Val => ValShape(h[a])
             /\ h[a] \in Element => h[a].value # NULL
  BY <1>2, <1>8, <1>9
<1>14. ShapeChange(heap, held, h, held2)
  BY <1>2, <1>7, <1>8, <1>11, <1>12, <1>13 DEF E, E2, ShapeChange
<1>15. Kept(heap, h, NULL, {}) /\ (Full(heap) => Full(h))
  BY <1>2, <1>8, FullKept, KindsApart DEF Kept
<1> QED BY <1>14, <1>15, ShapeStep DEF h
\* Its text.
LEMMA TextShape ==
  ASSUME NEW heap, NEW held, Shape(heap, held),
         NEW v \in DOMAIN heap, heap[v] \in Val, heap[v].type \notin Containers, heap[v].text = NULL,
         NEW t \in Nat \ {NULL}, t \notin DOMAIN heap,
         NEW text \in KeyTexts \cup StringTexts \cup NumberTexts,
         NEW b \in Val, b.text = t, b.keys = heap[v].keys, b.values = heap[v].values,
         b.type = heap[v].type, b.len = heap[v].len,
         NEW h, h = Store(Store(heap, t, [chars |-> text]), v, b)
  PROVE  /\ Shape(h, held) /\ h[v] = b /\ Kept(heap, h, NULL, {})
         /\ Full(heap) => Full(h)
<1> DEFINE tb == [chars |-> text]
           E == Edges(heap, held)
           E2 == Edges(h, held)
           X == E \cup {<<v, 1, t>>}
<1>1. HeapOK(heap) /\ held \in Five /\ Owned(DOMAIN heap, E)
  BY DEF Shape
<1>2. /\ b \in Val /\ b.text = t /\ b.keys = heap[v].keys /\ b.values = heap[v].values
      /\ b.type = heap[v].type /\ b.len = heap[v].len
  OBVIOUS
<1>3. /\ HeapOK(h) /\ DOMAIN h = DOMAIN heap \cup {t} /\ h[v] = b /\ h[t] = tb /\ tb \in Text
      /\ \A x \in DOMAIN heap : x # v => h[x] = heap[x]
  <2>1. tb \in Text /\ tb \in Blocks /\ b \in Blocks
    BY <1>2 DEF Blocks, Text
  <2>2. Stored(heap, t, tb, Store(heap, t, tb))
    BY <1>1, <2>1, StoreIs
  <2>3. v \in Nat \ {NULL}
    BY <1>1 DEF HeapOK
  <2>4. Stored(Store(heap, t, tb), v, b, h)
    <3> DEFINE h1 == Store(heap, t, tb)
    <3>1. HeapOK(h1)
      BY <2>2, Zenon DEF Stored
    <3>2. h = Store(h1, v, b)
      OBVIOUS
    <3> HIDE DEF h1
    <3>3. Stored(h1, v, b, Store(h1, v, b))
      BY <2>1, <2>3, <3>1, StoreIs, Zenon
    <3>4. Stored(h1, v, b, h)
      BY <3>2, <3>3, Zenon
    <3> QED BY <3>4 DEF h1
  <2> QED BY <2>1, <2>2, <2>4 DEF Stored
<1> HIDE DEF tb, E, E2
<1>4. ASSUME NEW a, NEW k, NEW q
      PROVE  /\ <<a, k, q>> \in E <=> Edge(heap, held, a, k, q)
             /\ <<a, k, q>> \in E2 <=> Edge(h, held, a, k, q)
  BY <1>1, <1>3, EdgeIs DEF E, E2
<1>5. Owned(DOMAIN h, X)
  <2>1. Owned(DOMAIN heap \cup {t}, X)
    BY <1>1, OwnedNew
  <2> QED BY <1>3, <2>1
<1>6. ASSUME NEW a, NEW k, NEW q
      PROVE  <<a, k, q>> \in E2 <=> <<a, k, q>> \in X
  <2>1. <<a, k, q>> \in E <=> Edge(heap, held, a, k, q)
    BY <1>4
  <2>2. <<a, k, q>> \in E2 <=> Edge(h, held, a, k, q)
    BY <1>4
  <2>3. CASE a = NULL
    BY <1>1, <1>3, <2>1, <2>2, <2>3 DEF Edge, HeapOK
  <2>4. CASE a = v
    <3>1. Points(b, k, q) <=> (k = 1 /\ q = t) \/ (k = 2 /\ q = b.keys) \/ (k = 3 /\ q = b.values)
      <4>1. Points(b, k, q) <=> (k = 1 /\ q = b.text) \/ (k = 2 /\ q = b.keys) \/ (k = 3 /\ q = b.values)
        BY <1>2, PointsVal
      <4> QED BY <1>2, <4>1
    <3>3. Points(heap[v], k, q) <=>
             (k = 1 /\ q = NULL) \/ (k = 2 /\ q = b.keys) \/ (k = 3 /\ q = b.values)
      <4>1. Points(heap[v], k, q) <=>
              (k = 1 /\ q = heap[v].text) \/ (k = 2 /\ q = heap[v].keys) \/ (k = 3 /\ q = heap[v].values)
        BY PointsVal, ZenonT(30)
      <4> QED BY <1>2, <4>1
    <3>2. v \in DOMAIN h /\ v # NULL
      BY <1>1, <1>3 DEF HeapOK
    <3> QED BY <1>3, <2>1, <2>2, <2>4, <3>1, <3>2, <3>3 DEF Edge
  <2>5. CASE a = t
    BY <1>1, <1>3, <2>1, <2>2, <2>5, PointsText DEF Edge, HeapOK
  <2>6. CASE a \notin {NULL, v, t}
    BY <1>3, <2>1, <2>2, <2>6 DEF Edge
  <2> QED BY <2>3, <2>4, <2>5, <2>6
<1>7. Owned(DOMAIN h, E2)
  BY <1>5, <1>6, SameOwned
<1>8. \A a \in DOMAIN heap \cap DOMAIN h : Alike(heap[a], h[a])
  <2>1. Alike(heap[v], b)
    BY <1>2, KindsApart DEF Alike
  <2> QED BY <1>3, <2>1, AlikeSame
<1>9. Fits_(h, v, 1, t)
  BY <1>1, <1>2, <1>3, KindsApart DEF Fits_, HeapOK
<1>10. \A a, k, q : <<a, k, q>> \in E => a \in DOMAIN heap \cup {NULL} /\ q \in DOMAIN heap
  BY <1>1 DEF Owned
<1>11. \A a, k, q : <<a, k, q>> \in E2 =>
         \/ /\ <<a, k, q>> \in E
            /\ a # NULL /\ heap[a] \in Val /\ k # 1 =>
                  h[a].len = heap[a].len /\ Len(h[q].cells) = Len(heap[q].cells)
         \/ Fits_(h, a, k, q)
  <2> SUFFICES ASSUME NEW a, NEW k, NEW q, <<a, k, q>> \in E,
                      a # NULL, heap[a] \in Val, k # 1
               PROVE  h[a].len = heap[a].len /\ Len(h[q].cells) = Len(heap[q].cells)
    BY <1>6, <1>9
  <2>1. Fits_(heap, a, k, q) /\ a \in DOMAIN heap /\ q \in DOMAIN heap
    BY <1>10 DEF Shape, E
  <2>2. q # v
    BY <2>1, KindsApart DEF Fits_
  <2> QED BY <1>2, <1>3, <2>1, <2>2
<1>12. \A a, n, x, k, q :
         (/\ <<a, n, x>> \in E2 /\ <<x, k, q>> \in E2
          /\ a # NULL /\ h[a] \in Val /\ n \in {2, 3}) => <<a, n, x>> \in E /\ <<x, k, q>> \in E
  <2> SUFFICES ASSUME NEW a, NEW n, NEW x, NEW k, NEW q, <<a, n, x>> \in E2, <<x, k, q>> \in E2,
                      a # NULL, h[a] \in Val, n \in {2, 3}, x = v
               PROVE  FALSE
    BY <1>6
  <2>1. <<a, n, v>> \in E /\ a \in DOMAIN heap
    BY <1>1, <1>6, <1>10 DEF HeapOK
  <2>2. heap[a] \in Val
    BY <1>8, <1>3, <2>1 DEF Alike
  <2>3. Fits_(heap, a, n, v)
    BY <2>1 DEF Shape, E
  <2> QED BY <2>2, <2>3, KindsApart DEF Fits_
<1>13. \A a \in DOMAIN h :
          \/ a \in DOMAIN heap /\ h[a] = heap[a]
          \/ /\ h[a] \in Val => ValShape(h[a])
             /\ h[a] \in Element => h[a].value # NULL
  <2>1. ValShape(b) /\ b \notin Element
    <3>1. ValShape(heap[v])
      BY DEF Shape
    <3> QED BY <1>2, <3>1, KindsApart DEF ValShape
  <2>2. tb \notin Val /\ tb \notin Element
    BY <1>3, KindsApart
  <2> QED BY <1>3, <2>1, <2>2
<1>14. ShapeChange(heap, held, h, held)
  BY <1>1, <1>3, <1>7, <1>8, <1>11, <1>12, <1>13 DEF E, E2, ShapeChange
<1>15. Kept(heap, h, NULL, {}) /\ (Full(heap) => Full(h))
  BY <1>2, <1>3, <1>8, FullKept, KindsApart DEF Kept
<1> QED BY <1>3, <1>14, <1>15, ShapeStep
\* context_push: the value is that of a new top of the stack.
Pushes(heap, held, v, s, e, b, h, held2) ==
    /\ Shape(heap, held) /\ v = held[5] /\ v # NULL /\ heap[v].type \in Containers /\ s = held[1]
    /\ e \in Nat \ {NULL} /\ e \notin DOMAIN heap
    /\ b = [key |-> NULL, value |-> v, next |-> s] /\ h = Store(heap, e, b)
    /\ held2 \in Five /\ held2[1] = e /\ held2[5] = NULL /\ \A k \in 2..4 : held2[k] = held[k]

LEMMA PushShape ==
  ASSUME NEW heap, NEW held, NEW v, NEW s, NEW e, NEW b, NEW h, NEW held2,
         Pushes(heap, held, v, s, e, b, h, held2)
  PROVE  /\ Shape(h, held2) /\ h[e] = b /\ Kept(heap, h, NULL, {})
         /\ Full(heap) => Full(h)
<1> SUFFICES ASSUME Shape(heap, held), v = held[5], v # NULL, heap[v].type \in Containers, s = held[1],
                    e \in Nat \ {NULL}, e \notin DOMAIN heap,
                    b = [key |-> NULL, value |-> v, next |-> s], h = Store(heap, e, b),
                    held2 \in Five, held2[1] = e, held2[5] = NULL,
                    \A k \in 2..4 : held2[k] = held[k]
             PROVE  /\ Shape(h, held2) /\ h[e] = b /\ Kept(heap, h, NULL, {})
                    /\ Full(heap) => Full(h)
  BY DEF Pushes
<1> DEFINE E == Edges(heap, held)
           E2 == Edges(h, held2)
           X0 == E \cup {<<NULL, 1, e>>}
           X1 == (X0 \ Pointer(NULL, 5, v)) \cup Pointer(e, 2, v)
           X == (X1 \ Pointer(NULL, 1, s)) \cup Pointer(e, 3, s)
<1>1. HeapOK(heap) /\ held \in Five /\ Owned(DOMAIN heap, E)
  BY DEF Shape
<1>2. /\ b \in Element /\ b.key = NULL /\ b.value = v /\ b.next = s
      /\ b \notin Val /\ b \notin Table_
  <2>1. v \in Nat /\ s \in Nat
    BY <1>1 DEF Five
  <2>2. b \in Element /\ b.key = NULL /\ b.value = v /\ b.next = s
    BY <2>1 DEF Element, NULL
  <2> QED BY <2>2, KindsApart
<1>3. /\ HeapOK(h) /\ DOMAIN h = DOMAIN heap \cup {e} /\ h[e] = b
      /\ \A x \in DOMAIN heap : x # e => h[x] = heap[x]
  <2>1. b \in Blocks
    BY <1>2 DEF Blocks
  <2>2. Stored(heap, e, b, h)
    BY <1>1, <2>1, StoreIs
  <2> QED BY <2>2 DEF Stored
<1> HIDE DEF E, E2
<1>4. ASSUME NEW a, NEW k, NEW q
      PROVE  /\ <<a, k, q>> \in E <=> Edge(heap, held, a, k, q)
             /\ <<a, k, q>> \in E2 <=> Edge(h, held2, a, k, q)
  BY <1>1, <1>3, EdgeIs DEF E, E2
<1>5. \A a, k, q : <<a, k, q>> \in E =>
         a \in DOMAIN heap \cup {NULL} /\ q \in DOMAIN heap /\ Fits_(heap, a, k, q)
  BY <1>1 DEF Owned, Shape, E
<1>6. <<NULL, 5, v>> \in E /\ (s # NULL => <<NULL, 1, s>> \in E)
  BY <1>4 DEF Edge
<1>7. Owned(DOMAIN h, X)
  <2>1. Owned(DOMAIN h, X0)
    <3>1. Owned(DOMAIN heap \cup {e}, X0)
      BY <1>1, OwnedNew
    <3> QED BY <1>3, <3>1
  <2>2. <<NULL, 5, v>> \in X0 /\ e \in DOMAIN h
    BY <1>3, <1>6
  <2>7. <<NULL, 1, e>> \in X0 /\ e # v /\ e # s
    BY <1>5, <1>6
  <2> HIDE DEF X0
  <2>3. Owned(DOMAIN h, X1)
    <3>1. Clear(DOMAIN h, X0, v, e)
      BY <2>7, ClearTop
    <3> QED BY <2>1, <2>2, <3>1, OwnedMove
  <2>4. s # NULL => <<NULL, 1, s>> \in X1
    BY <1>6 DEF X0, Pointer
  <2>5. <<NULL, 1, e>> \in X1
    BY <2>7 DEF Pointer
  <2> HIDE DEF X1
  <2>6. Clear(DOMAIN h, X1, s, e)
    BY <2>5, <2>7, ClearTop
  <2> QED BY <2>2, <2>3, <2>4, <2>6, OwnedMove
<1>8. ASSUME NEW a, NEW k, NEW q
      PROVE  <<a, k, q>> \in E2 <=> <<a, k, q>> \in X
  <2>1. <<a, k, q>> \in E <=> Edge(heap, held, a, k, q)
    BY <1>4
  <2>2. <<a, k, q>> \in E2 <=> Edge(h, held2, a, k, q)
    BY <1>4
  <2>3. CASE a = NULL
    <3>1. Edge(heap, held, a, k, q) <=> q # NULL /\ k \in 1..5 /\ q = held[k]
      BY <1>1, <2>3 DEF Edge, HeapOK
    <3>2. Edge(h, held2, a, k, q) <=> q # NULL /\ k \in 1..5 /\ q = held2[k]
      BY <1>3, <2>3 DEF Edge, HeapOK
    <3>3. CASE k = 1
      <4>1. s # e
        BY <1>5, <1>6
      <4>2. <<a, k, q>> \in X <=> q = e
        <5>1. <<a, k, q>> \in X0 <=> q = e \/ (q # NULL /\ q = s)
          BY <2>1, <2>3, <3>1, <3>3
        <5> HIDE DEF X0
        <5> QED BY <2>3, <3>3, <4>1, <5>1 DEF Pointer
      <4> QED BY <2>2, <3>2, <3>3, <4>2
    <3>4. CASE k = 5
      <4>1. <<a, k, q>> \notin X
        <5>1. <<a, k, q>> \in X0 => q = v
          BY <2>1, <2>3, <3>1, <3>4
        <5> HIDE DEF X0
        <5> QED BY <2>3, <3>4, <5>1 DEF Pointer
      <4> QED BY <2>2, <3>2, <3>4, <4>1
    <3>5. CASE k \notin {1, 5}
      BY <2>1, <2>2, <2>3, <3>1, <3>2, <3>5 DEF Pointer
    <3> QED BY <3>3, <3>4, <3>5
  <2>4. CASE a = e
    <3>1. Points(b, k, q) <=> (k = 1 /\ q = b.key) \/ (k = 2 /\ q = b.value) \/ (k = 3 /\ q = b.next)
      BY <1>2, PointsElement
    <3>2. ~Edge(heap, held, a, k, q)
      BY <2>4 DEF Edge
    <3>3. Edge(h, held2, a, k, q) <=> q # NULL /\ ((k = 2 /\ q = v) \/ (k = 3 /\ q = s))
      BY <1>2, <1>3, <2>4, <3>1 DEF Edge
    <3> QED BY <2>1, <2>2, <2>4, <3>2, <3>3 DEF Pointer
  <2>5. CASE a \notin {NULL, e}
    BY <1>3, <2>1, <2>2, <2>5 DEF Edge, Pointer
  <2> QED BY <2>3, <2>4, <2>5
<1>9. Owned(DOMAIN h, E2)
  BY <1>7, <1>8, SameOwned
<1>10. \A a \in DOMAIN heap : h[a] = heap[a] /\ Alike(heap[a], h[a])
  BY <1>3, AlikeSame
<1>11. \A a, k, q : <<a, k, q>> \in E2 =>
         \/ /\ <<a, k, q>> \in E
            /\ a # NULL /\ heap[a] \in Val /\ k # 1 =>
                  h[a].len = heap[a].len /\ Len(h[q].cells) = Len(heap[q].cells)
         \/ Fits_(h, a, k, q)
  <2> SUFFICES ASSUME NEW a, NEW k, NEW q, <<a, k, q>> \in X, <<a, k, q>> \notin E
               PROVE  Fits_(h, a, k, q)
    BY <1>5, <1>8, <1>10
  <2>1. CASE a = NULL
    BY <1>2, <1>3, <2>1 DEF Fits_, Pointer
  <2>2. CASE a = e /\ k = 2 /\ q = v
    <3>1. Fits_(heap, NULL, 5, v) /\ v \in DOMAIN heap
      BY <1>5, <1>6
    <3>2. h[v] \in Val /\ h[v].type \in Containers
      BY <1>10, <3>1 DEF Fits_
    <3> QED BY <1>2, <1>3, <2>2, <3>2 DEF Fits_
  <2>3. CASE a = e /\ k = 3 /\ q = s /\ s # NULL
    <3>1. Fits_(heap, NULL, 1, s) /\ s \in DOMAIN heap
      BY <1>5, <1>6, <2>3
    <3>2. h[s] \in Element
      BY <1>10, <3>1 DEF Fits_
    <3> QED BY <1>2, <1>3, <2>3, <3>2 DEF Fits_
  <2> QED BY <2>1, <2>2, <2>3 DEF Pointer
<1>12. \A a, n, x, k, q :
         (/\ <<a, n, x>> \in E2 /\ <<x, k, q>> \in E2
          /\ a # NULL /\ h[a] \in Val /\ n \in {2, 3}) => <<a, n, x>> \in E /\ <<x, k, q>> \in E
  <2> SUFFICES ASSUME NEW a, NEW n, NEW x, NEW k, NEW q, <<a, n, x>> \in E2, <<x, k, q>> \in E2,
                      a # NULL, h[a] \in Val
               PROVE  <<a, n, x>> \in E /\ <<x, k, q>> \in E
    BY Zenon
  <2>1. a # e
    BY <1>2, <1>3
  <2>2. <<a, n, x>> \in E
    BY <1>8, <2>1 DEF Pointer
  <2>3. x \notin {e, NULL}
    BY <1>1, <1>5, <2>2 DEF HeapOK
  <2> QED BY <1>8, <2>2, <2>3 DEF Pointer
<1>13. \A a \in DOMAIN h :
          \/ a \in DOMAIN heap /\ h[a] = heap[a]
          \/ /\ h[a] \in Val => ValShape(h[a])
             /\ h[a] \in Element => h[a].value # NULL
  BY <1>2, <1>3
<1>14. ShapeChange(heap, held, h, held2)
  BY <1>1, <1>3, <1>9, <1>10, <1>11, <1>12, <1>13 DEF E, E2, ShapeChange
<1>15. Kept(heap, h, NULL, {}) /\ (Full(heap) => Full(h))
  BY <1>2, <1>3, <1>10, FullKept DEF Kept
<1> QED BY <1>3, <1>14, <1>15, ShapeStep
\* context_pop: the value of the top goes to a local variable, its key, if it
\* has one, is freed.
Pops(heap, held, e, key, v, s, h, held2) ==
    /\ Shape(heap, held) /\ held[5] = NULL /\ e = held[1] /\ e # NULL
    /\ key = heap[e].key /\ v = heap[e].value /\ s = heap[e].next
    /\ h = Free(FreeIf(heap, key), e)
    /\ held2 \in Five /\ held2[1] = s /\ held2[5] = v /\ \A k \in 2..4 : held2[k] = held[k]

LEMMA PopShape ==
  ASSUME NEW heap, NEW held, NEW e, NEW key, NEW v, NEW s, NEW h, NEW held2,
         Pops(heap, held, e, key, v, s, h, held2)
  PROVE  /\ Shape(h, held2)
         /\ e \in DOMAIN heap /\ heap[e] \in Element /\ key # e
         /\ Kept(heap, h, NULL, {e, key}) /\ (Full(heap) => Full(h))
         /\ v \in DOMAIN h /\ h[v] \in Val /\ h[v].type \in Containers
<1> SUFFICES ASSUME Shape(heap, held), held[5] = NULL, e = held[1], e # NULL,
                    key = heap[e].key, v = heap[e].value, s = heap[e].next,
                    h = Free(FreeIf(heap, key), e),
                    held2 \in Five, held2[1] = s, held2[5] = v, \A k \in 2..4 : held2[k] = held[k]
             PROVE  /\ Shape(h, held2)
                    /\ e \in DOMAIN heap /\ heap[e] \in Element /\ key # e
                    /\ Kept(heap, h, NULL, {e, key}) /\ (Full(heap) => Full(h))
                    /\ v \in DOMAIN h /\ h[v] \in Val /\ h[v].type \in Containers
  BY DEF Pops
<1> DEFINE E == Edges(heap, held)
           E2 == Edges(h, held2)
           X1 == E \ Pointer(e, 1, key)
           X2 == (X1 \ Pointer(e, 2, v)) \cup Pointer(NULL, 5, v)
           X3 == (X2 \ Pointer(e, 3, s)) \cup Pointer(NULL, 1, s)
           X == X3 \ Pointer(NULL, 1, e)
<1>1. HeapOK(heap) /\ held \in Five /\ Owned(DOMAIN heap, E)
  BY DEF Shape
<1>2. ASSUME NEW a, NEW k, NEW q
      PROVE  <<a, k, q>> \in E <=> Edge(heap, held, a, k, q)
  BY <1>1, EdgeIs
<1>3. \A a, k, q : <<a, k, q>> \in E =>
         a \in DOMAIN heap \cup {NULL} /\ q \in DOMAIN heap /\ Fits_(heap, a, k, q)
  BY <1>1 DEF Owned, Shape
<1> HIDE DEF E
<1>4. <<NULL, 1, e>> \in E
  BY <1>2 DEF Edge
<1>5. e \in DOMAIN heap /\ heap[e] \in Element /\ heap[e] \notin Val /\ NULL \notin DOMAIN heap
  <2>1. e \in DOMAIN heap /\ Fits_(heap, NULL, 1, e)
    BY <1>3, <1>4
  <2>2. heap[e] \in Element
    BY <2>1 DEF Fits_
  <2> QED BY <1>1, <2>1, <2>2, KindsApart DEF HeapOK
<1>6. v # NULL
  BY <1>5 DEF Shape
<1>7. ASSUME NEW k, NEW q
      PROVE  <<e, k, q>> \in E <=>
               q # NULL /\ ((k = 1 /\ q = key) \/ (k = 2 /\ q = v) \/ (k = 3 /\ q = s))
  <2>1. Points(heap[e], k, q) <=> (k = 1 /\ q = key) \/ (k = 2 /\ q = v) \/ (k = 3 /\ q = s)
    BY <1>5, PointsElement
  <2> QED BY <1>2, <1>5, <2>1 DEF Edge
<1>8. key # NULL => key \in DOMAIN heap /\ heap[key] \in Text /\ key # e
  <2> SUFFICES ASSUME key # NULL PROVE key \in DOMAIN heap /\ heap[key] \in Text /\ key # e
    OBVIOUS
  <2>1. <<e, 1, key>> \in E
    BY <1>7
  <2>2. heap[key] \in Text /\ key \in DOMAIN heap
    <3>1. key \in DOMAIN heap /\ Fits_(heap, e, 1, key)
      BY <1>3, <2>1
    <3> QED BY <1>5, <3>1 DEF Fits_
  <2> QED BY <1>5, <2>2, KindsApart
<1>9. /\ <<e, 2, v>> \in E /\ v \in DOMAIN heap /\ heap[v] \in Val /\ heap[v].type \in Containers
      /\ v # e /\ v # key
  <2>1. <<e, 2, v>> \in E
    BY <1>6, <1>7
  <2>2. v \in DOMAIN heap /\ heap[v] \in Val /\ heap[v].type \in Containers
    <3>1. v \in DOMAIN heap /\ Fits_(heap, e, 2, v)
      BY <1>3, <2>1
    <3> QED BY <1>5, <3>1 DEF Fits_
  <2> QED BY <1>5, <1>6, <1>8, <2>1, <2>2, KindsApart
<1>10. s # NULL => <<e, 3, s>> \in E /\ s \in DOMAIN heap /\ heap[s] \in Element /\ s # e
  <2> SUFFICES ASSUME s # NULL
               PROVE  <<e, 3, s>> \in E /\ s \in DOMAIN heap /\ heap[s] \in Element /\ s # e
    OBVIOUS
  <2>1. <<e, 3, s>> \in E
    BY <1>7
  <2>2. s \in DOMAIN heap /\ heap[s] \in Element
    <3>1. s \in DOMAIN heap /\ Fits_(heap, e, 3, s)
      BY <1>3, <2>1
    <3> QED BY <1>5, <3>1 DEF Fits_
  <2>3. s # e
    BY <1>1, <1>4, <1>5, <2>1 DEF Owned
  <2> QED BY <2>1, <2>2, <2>3
<1>11. /\ HeapOK(h) /\ DOMAIN h = DOMAIN heap \ {e, key}
       /\ \A x \in DOMAIN h : h[x] = heap[x]
  <2>1. CASE key = NULL
    <3>1. h = Free(heap, e)
      BY <2>1 DEF FreeIf
    <3>2. Freed(heap, e, h)
      BY <1>1, <1>5, <3>1, FreeIs
    <3> QED BY <1>5, <2>1, <3>2 DEF Freed
  <2>2. CASE key # NULL
    <3>1. Freed(heap, key, Free(heap, key)) /\ h = Free(Free(heap, key), e)
      BY <1>1, <1>8, <2>2, FreeIs DEF FreeIf
    <3>2. e \in DOMAIN Free(heap, key)
      BY <1>5, <1>8, <2>2, <3>1 DEF Freed
    <3>3. HeapOK(Free(heap, key))
      BY <3>1 DEF Freed
    <3>4. Freed(Free(heap, key), e, h)
      BY <3>1, <3>2, <3>3, FreeIs
    <3> QED BY <3>1, <3>4 DEF Freed
  <2> QED BY <2>1, <2>2
<1> HIDE DEF E2
<1>12. ASSUME NEW a, NEW k, NEW q
       PROVE  <<a, k, q>> \in E2 <=> Edge(h, held2, a, k, q)
  BY <1>11, EdgeIs DEF E2
<1>13. Owned(DOMAIN heap \ {key}, X1)
  <2>1. \A j, q : key # NULL => <<key, j, q>> \notin E
    BY <1>2, <1>5, <1>8, PointsText DEF Edge
  <2>2. key # NULL => <<e, 1, key>> \in E
    BY <1>7
  <2> QED BY <1>1, <1>5, <2>1, <2>2, OwnedDrop
<1>14. ASSUME NEW a, NEW k, NEW q
       PROVE  <<a, k, q>> \in X1 <=> <<a, k, q>> \in E /\ ~(a = e /\ k = 1)
  BY <1>7 DEF Pointer
<1> HIDE DEF X1
<1>15. Owned(DOMAIN heap \ {key}, X2)
  <2>1. <<e, 2, v>> \in X1 /\ v \in DOMAIN heap \ {key}
    BY <1>9, <1>14
  <2>2. NULL \in (DOMAIN heap \ {key}) \cup {NULL}
    OBVIOUS
  <2> QED BY <1>13, <2>1, <2>2, ClearNull, OwnedMove
<1>16. ASSUME NEW a, NEW k, NEW q
       PROVE  <<a, k, q>> \in X2 <=> \/ <<a, k, q>> \in E /\ ~(a = e /\ k \in {1, 2})
                                     \/ a = NULL /\ k = 5 /\ q = v
  BY <1>6, <1>7, <1>14 DEF Pointer
<1> HIDE DEF X2
<1>17. Owned(DOMAIN heap \ {key}, X3)
  <2>1. s # NULL => <<e, 3, s>> \in X2
    BY <1>10, <1>16
  <2>2. NULL \in (DOMAIN heap \ {key}) \cup {NULL}
    OBVIOUS
  <2> QED BY <1>15, <2>1, <2>2, ClearNull, OwnedMove
<1>18. ASSUME NEW a, NEW k, NEW q
       PROVE  <<a, k, q>> \in X3 <=> \/ <<a, k, q>> \in E /\ a # e
                                     \/ a = NULL /\ k = 5 /\ q = v
                                     \/ a = NULL /\ k = 1 /\ q = s /\ s # NULL
  BY <1>5, <1>7, <1>16 DEF Pointer
<1> HIDE DEF X3
<1>19. Owned(DOMAIN h, X)
  <2>1. NULL \notin DOMAIN heap \ {key} /\ <<NULL, 1, e>> \in X3
    BY <1>4, <1>5, <1>18
  <2>2. \A j, q : <<e, j, q>> \notin X3
    BY <1>5, <1>18
  <2>3. Owned((DOMAIN heap \ {key}) \ {e}, X)
    BY <1>17, <2>1, <2>2, OwnedDrop
  <2>4. (DOMAIN heap \ {key}) \ {e} = DOMAIN h
    BY <1>11
  <2> QED BY <2>3, <2>4
<1>20. ASSUME NEW a, NEW k, NEW q
       PROVE  <<a, k, q>> \in X <=> \/ <<a, k, q>> \in E /\ a # e /\ ~(a = NULL /\ k = 1)
                                    \/ a = NULL /\ k = 5 /\ q = v
                                    \/ a = NULL /\ k = 1 /\ q = s /\ s # NULL
  <2>1. <<NULL, 1, q>> \in E => q = e
    BY <1>2, <1>5 DEF Edge
  <2> QED BY <1>5, <1>10, <1>18, <2>1 DEF Pointer
<1> HIDE DEF X
<1>21. ASSUME NEW a, NEW k, NEW q
       PROVE  <<a, k, q>> \in E2 <=> <<a, k, q>> \in X
  <2>1. <<a, k, q>> \in E <=> Edge(heap, held, a, k, q)
    BY <1>2
  <2>2. <<a, k, q>> \in E2 <=> Edge(h, held2, a, k, q)
    BY <1>12
  <2>3. CASE a = NULL
    <3>1. Edge(heap, held, a, k, q) <=> q # NULL /\ k \in 1..5 /\ q = held[k]
      BY <1>5, <2>3 DEF Edge
    <3>2. Edge(h, held2, a, k, q) <=> q # NULL /\ k \in 1..5 /\ q = held2[k]
      BY <1>5, <1>11, <2>3 DEF Edge
    <3> QED BY <1>5, <1>6, <1>20, <2>1, <2>2, <2>3, <3>1, <3>2
  <2>4. CASE a # NULL
    <3>1. a = key => ~Edge(heap, held, a, k, q)
      BY <1>8, <2>4, PointsText DEF Edge
    <3>2. Edge(h, held2, a, k, q) <=> Edge(heap, held, a, k, q) /\ a # e
      BY <1>11, <2>4, <3>1 DEF Edge
    <3> QED BY <1>20, <2>1, <2>2, <2>4, <3>2
  <2> QED BY <2>3, <2>4
<1>22. Owned(DOMAIN h, E2)
  BY <1>19, <1>21, SameOwned
<1>23. \A a \in DOMAIN h : a \in DOMAIN heap /\ h[a] = heap[a] /\ Alike(heap[a], h[a])
  BY <1>11, AlikeSame
<1>24. \A a, k, q : <<a, k, q>> \in E2 => a \in DOMAIN h \cup {NULL} /\ q \in DOMAIN h
  BY <1>22 DEF Owned
<1>25. \A a, k, q : <<a, k, q>> \in E2 =>
         \/ /\ <<a, k, q>> \in E
            /\ a # NULL /\ heap[a] \in Val /\ k # 1 =>
                  h[a].len = heap[a].len /\ Len(h[q].cells) = Len(heap[q].cells)
         \/ Fits_(h, a, k, q)
  <2> SUFFICES ASSUME NEW a, NEW k, NEW q, <<a, k, q>> \in X, <<a, k, q>> \notin E
               PROVE  Fits_(h, a, k, q)
    BY <1>21, <1>23, <1>24
  <2>1. a = NULL /\ ((k = 5 /\ q = v) \/ (k = 1 /\ q = s /\ s # NULL))
    BY <1>20
  <2>2. h[q] = heap[q]
    BY <1>21, <1>23, <1>24
  <2> QED BY <1>9, <1>10, <2>1, <2>2 DEF Fits_
<1>26. \A a, n, x, k, q :
         (/\ <<a, n, x>> \in E2 /\ <<x, k, q>> \in E2
          /\ a # NULL /\ h[a] \in Val /\ n \in {2, 3}) => <<a, n, x>> \in E /\ <<x, k, q>> \in E
  <2>1. \A a, k, q : <<a, k, q>> \in E2 /\ a # NULL => <<a, k, q>> \in E
    BY <1>20, <1>21
  <2>2. \A a, n, x : <<a, n, x>> \in E2 => x # NULL
    BY <1>5, <1>11, <1>24
  <2> QED BY <2>1, <2>2
<1>27. ShapeChange(heap, held, h, held2)
  BY <1>11, <1>22, <1>23, <1>25, <1>26, Zenon DEF E, E2, ShapeChange
<1>28. Kept(heap, h, NULL, {e, key}) /\ (Full(heap) => Full(h))
  BY <1>11, <1>23, FullKept DEF Kept
<1> QED BY <1>5, <1>8, <1>9, <1>11, <1>27, <1>28, ShapeStep
LEMMA EditIs ==
  ASSUME NEW heap, HeapOK(heap), NEW a, a \in DOMAIN heap, NEW b, b \in Blocks
  PROVE  Stored(heap, a, b, [heap EXCEPT ![a] = b])
<1>1. a \in Nat \ {NULL}
  BY DEF HeapOK
<1>2. [heap EXCEPT ![a] = b] = Store(heap, a, b)
  BY ExceptIs
<1>3. Stored(heap, a, b, Store(heap, a, b))
  BY <1>1, StoreIs
<1> QED BY <1>2, <1>3

LEMMA CellsIs ==
  ASSUME NEW b \in Table_, NEW s \in Seq(Nat)
  PROVE  [b EXCEPT !.cells = s] \in Table_ /\ [b EXCEPT !.cells = s].cells = s
BY DEF Table_

\* realloc: x becomes the last pointer of the table t, which is new or o's.
Rest(b, c, table) ==
    /\ b \in Val /\ b.type = c.type /\ b.text = c.text /\ b.len = c.len
    /\ table = "keys" => b.values = c.values
    /\ table = "values" => b.keys = c.keys

Joined(heap, o, table, x, t, h) ==
    /\ HeapOK(h) /\ DOMAIN h = DOMAIN heap \cup {t} /\ t \in Nat \ {NULL} /\ t # o
    /\ h[o][table] = t /\ Rest(h[o], heap[o], table)
    /\ h[t] \in Table_ /\ Points(h[t], Len(h[t].cells), x)
    /\ t \in DOMAIN heap =>
          /\ heap[o][table] = t
          /\ heap[t] \in Table_ /\ Len(h[t].cells) = Len(heap[t].cells) + 1
          /\ \A k, q : Points(h[t], k, q) <=> Points(heap[t], k, q) \/ (k = Len(h[t].cells) /\ q = x)
    /\ t \notin DOMAIN heap =>
          /\ heap[o][table] = NULL
          /\ Len(h[t].cells) = 1
          /\ \A k, q : Points(h[t], k, q) <=> k = 1 /\ q = x
    /\ \A y \in DOMAIN heap : y \notin {o, t} => h[y] = heap[y]

LEMMA RestIs ==
  ASSUME NEW b \in Val, NEW table \in {"keys", "values"}, NEW t \in Nat
  PROVE  [b EXCEPT ![table] = t][table] = t /\ Rest([b EXCEPT ![table] = t], b, table)
<1>1. CASE table = "keys"
  BY <1>1 DEF Val, Rest
<1>2. CASE table = "values"
  BY <1>2 DEF Val, Rest
<1> QED BY <1>1, <1>2

LEMMA JoinIs ==
  ASSUME NEW heap, HeapOK(heap), NEW o \in DOMAIN heap, heap[o] \in Val,
         NEW table \in {"keys", "values"}, NEW x \in Nat,
         heap[o][table] # NULL => heap[o][table] \in DOMAIN heap /\ heap[heap[o][table]] \in Table_
  PROVE  \E t : Joined(heap, o, table, x, t, Join(heap, o, table, x))
<1>1. CASE heap[o][table] = NULL
  <2> DEFINE t == Fresh(heap)
             tb == [cells |-> <<x>>]
             b == [heap[o] EXCEPT ![table] = t]
             h1 == Store(heap, t, tb)
             h == Store(h1, o, b)
  <2>1. t \in Nat \ {NULL} /\ t \notin DOMAIN heap /\ t # o
    BY FreshIs
  <2> HIDE DEF t
  <2>2. b[table] = t /\ Rest(b, heap[o], table)
    BY <2>1, RestIs
  <2>3. tb \in Table_ /\ Len(tb.cells) = 1 /\ tb.cells[1] = x
    BY DEF Table_
  <2>4. h = Join(heap, o, table, x)
    BY <1>1 DEF Join, t
  <2> HIDE DEF b, tb
  <2>5. b \in Blocks /\ tb \in Blocks /\ o \in Nat \ {NULL}
    BY <2>2, <2>3 DEF Rest, Blocks, HeapOK
  <2>6. Stored(heap, t, tb, h1)
    BY <2>1, <2>5, StoreIs
  <2> HIDE DEF h1
  <2>7. Stored(h1, o, b, h)
    <3>1. HeapOK(h1)
      BY <2>6 DEF Stored
    <3> QED BY <2>5, <3>1, StoreIs
  <2> HIDE DEF h
  <2>8. /\ HeapOK(h) /\ DOMAIN h = DOMAIN heap \cup {t} /\ h[o] = b /\ h[t] = tb
        /\ \A y \in DOMAIN heap : y \notin {o, t} => h[y] = heap[y]
    BY <2>1, <2>6, <2>7 DEF Stored
  <2>9. \A k, q : Points(tb, k, q) <=> k = 1 /\ q = x
    BY <2>3, PointsTable
  <2>10. Joined(heap, o, table, x, t, h)
    BY <1>1, <2>1, <2>2, <2>3, <2>8, <2>9 DEF Joined
  <2> QED BY <2>4, <2>10
<1>2. CASE heap[o][table] # NULL
  <2> DEFINE t == heap[o][table]
             tb == [heap[t] EXCEPT !.cells = Append(heap[t].cells, x)]
             h == [heap EXCEPT ![t] = tb]
             n == Len(heap[t].cells)
  <2>1. t \in DOMAIN heap /\ heap[t] \in Table_ /\ t # o /\ t \in Nat \ {NULL}
    BY <1>2, KindsApart DEF HeapOK
  <2>2. h = Join(heap, o, table, x)
    BY <1>2 DEF Join
  <2>3. Rest(heap[o], heap[o], table)
    BY DEF Rest
  <2> HIDE DEF t
  <2>4. heap[t].cells \in Seq(Nat) /\ heap[t].cells = heap[t].cells
    BY <2>1 DEF Table_
  <2>5. /\ tb \in Table_ /\ tb.cells = Append(heap[t].cells, x)
    <3>1. Append(heap[t].cells, x) \in Seq(Nat)
      BY <2>4
    <3>2. heap[t] \in Table_
      BY <2>1
    <3> QED BY <3>1, <3>2, CellsIs, Zenon
  <2>6. /\ n \in Nat /\ Len(tb.cells) = n + 1 /\ tb.cells[n + 1] = x
        /\ \A k \in 1..n : tb.cells[k] = heap[t].cells[k]
    BY <2>4, <2>5
  <2> HIDE DEF tb
  <2>7. Stored(heap, t, tb, h)
    <3>1. tb \in Blocks
      BY <2>5 DEF Blocks
    <3> QED BY <2>1, <3>1, EditIs
  <2> HIDE DEF h, n
  <2>8. /\ HeapOK(h) /\ DOMAIN h = DOMAIN heap \cup {t} /\ h[t] = tb /\ h[o] = heap[o]
        /\ \A y \in DOMAIN heap : y \notin {o, t} => h[y] = heap[y]
    BY <2>1, <2>7 DEF Stored
  <2>9. ASSUME NEW k, NEW q
        PROVE  Points(tb, k, q) <=> Points(heap[t], k, q) \/ (k = n + 1 /\ q = x)
    <3>1. Points(tb, k, q) <=> k \in 1..(n + 1) /\ q = tb.cells[k]
      BY <2>5, <2>6, PointsTable
    <3>2. Points(heap[t], k, q) <=> k \in 1..n /\ q = heap[t].cells[k]
      BY <2>1, PointsTable DEF n
    <3>3. k \in 1..(n + 1) <=> k \in 1..n \/ k = n + 1
      BY <2>6
    <3> QED BY <2>6, <3>1, <3>2, <3>3
  <2>10. Joined(heap, o, table, x, t, h)
    <3>1. h[o][table] = t /\ heap[o][table] = t
      BY <2>8 DEF t
    <3>2. Points(h[t], Len(h[t].cells), x)
      BY <2>6, <2>8, <2>9
    <3> QED BY <2>1, <2>3, <2>5, <2>6, <2>8, <2>9, <3>1, <3>2 DEF Joined, n
  <2> QED BY <2>2, <2>10
<1> QED BY <1>1, <1>2
\* The count of members.
Counted(heap, o) == [heap EXCEPT ![o].len = @ + 1]

LEMMA CountIs ==
  ASSUME NEW heap, HeapOK(heap), NEW o \in DOMAIN heap, heap[o] \in Val
  PROVE  /\ [heap[o] EXCEPT !.len = @ + 1] \in Val
         /\ [heap[o] EXCEPT !.len = @ + 1].len = heap[o].len + 1
         /\ [heap[o] EXCEPT !.len = @ + 1].type = heap[o].type
         /\ [heap[o] EXCEPT !.len = @ + 1].text = heap[o].text
         /\ [heap[o] EXCEPT !.len = @ + 1].keys = heap[o].keys
         /\ [heap[o] EXCEPT !.len = @ + 1].values = heap[o].values
         /\ Stored(heap, o, [heap[o] EXCEPT !.len = @ + 1], Counted(heap, o))
<1> DEFINE b == [heap[o] EXCEPT !.len = @ + 1]
<1>1. /\ b \in Val /\ b.len = heap[o].len + 1 /\ b.type = heap[o].type
      /\ b.text = heap[o].text /\ b.keys = heap[o].keys /\ b.values = heap[o].values
  BY DEF Val
<1>2. Counted(heap, o) = [heap EXCEPT ![o] = b]
  BY DEF Counted
<1> HIDE DEF b
<1>3. Stored(heap, o, b, [heap EXCEPT ![o] = b])
  BY <1>1, EditIs DEF Blocks
<1>4. Stored(heap, o, b, Counted(heap, o))
  BY <1>2, <1>3
<1> QED BY <1>1, <1>4 DEF b

\* The table of a value.
LEMMA TableIs ==
  ASSUME NEW heap, NEW held, Shape(heap, held), NEW o \in DOMAIN heap, heap[o] \in Val,
         heap[o].type \in Containers
  PROVE  /\ heap[o].keys # NULL =>
               /\ <<o, 2, heap[o].keys>> \in Edges(heap, held)
               /\ heap[o].keys \in DOMAIN heap /\ heap[heap[o].keys] \in Table_
               /\ Len(heap[heap[o].keys].cells) = heap[o].len
         /\ heap[o].values # NULL =>
               /\ <<o, 3, heap[o].values>> \in Edges(heap, held)
               /\ heap[o].values \in DOMAIN heap /\ heap[heap[o].values] \in Table_
               /\ Len(heap[heap[o].values].cells) = heap[o].len
         /\ heap[o].text = NULL /\ heap[o].len \in Nat
         /\ heap[o].values = NULL <=> heap[o].len = 0
         /\ heap[o].keys = NULL <=> heap[o].type = "array" \/ heap[o].len = 0
<1>1. HeapOK(heap) /\ held \in Five /\ o # NULL
  BY DEF Shape, HeapOK
<1>2. ASSUME NEW i \in {2, 3}, NEW t, t # NULL, Points(heap[o], i, t)
      PROVE  /\ <<o, i, t>> \in Edges(heap, held)
             /\ t \in DOMAIN heap /\ heap[t] \in Table_ /\ Len(heap[t].cells) = heap[o].len
  <2>1. <<o, i, t>> \in Edges(heap, held)
    BY <1>1, <1>2, EdgeIs DEF Edge
  <2>2. t \in DOMAIN heap /\ Fits_(heap, o, i, t)
    BY <2>1 DEF Shape, Owned
  <2> QED BY <1>1, <2>1, <2>2 DEF Fits_
<1>3. Points(heap[o], 2, heap[o].keys) /\ Points(heap[o], 3, heap[o].values)
  BY PointsVal
<1>4. ValShape(heap[o]) /\ heap[o].len \in Nat
  BY DEF Shape, Val
<1> QED BY <1>2, <1>3, <1>4 DEF ValShape
\* array_add_value
LEMMA ArrayAddShape ==
  ASSUME NEW heap, NEW held, Shape(heap, held), held[1] # NULL,
         NEW o \in DOMAIN heap, heap[o] \in Val, heap[o].type = "array", o = heap[held[1]].value,
         NEW v, v = held[5], v # NULL,
         NEW h, h = Counted(Join(heap, o, "values", v), o),
         NEW held2 \in Five, held2[5] = NULL, \A k \in 1..4 : held2[k] = held[k]
  PROVE  /\ Shape(h, held2) /\ Kept(heap, h, NULL, {})
         /\ Full(heap) => Full(h)
<1> DEFINE E == Edges(heap, held)
           E2 == Edges(h, held2)
           h1 == Join(heap, o, "values", v)
           b == [h1[o] EXCEPT !.len = @ + 1]
<1>1. HeapOK(heap) /\ held \in Five /\ Owned(DOMAIN heap, E) /\ v \in Nat /\ NULL \notin DOMAIN heap
  BY DEF Shape, Five, HeapOK
<1>2. /\ heap[o].keys = NULL /\ heap[o].text = NULL /\ heap[o].len \in Nat
      /\ heap[o].values = NULL => heap[o].len = 0
      /\ heap[o].values # NULL =>
            /\ <<o, 3, heap[o].values>> \in E
            /\ heap[o].values \in DOMAIN heap /\ heap[heap[o].values] \in Table_
            /\ Len(heap[heap[o].values].cells) = heap[o].len
  BY TableIs, ZenonT(30) DEF Containers
<1>3. PICK t : Joined(heap, o, "values", v, t, h1)
  <2>1. "values" \in {"keys", "values"} /\ heap[o]["values"] = heap[o].values
    OBVIOUS
  <2> QED BY <1>1, <1>2, <2>1, JoinIs
<1> DEFINE X0 == E \cup {<<o, 3, t>>}
           X == (X0 \ Pointer(NULL, 5, v)) \cup Pointer(t, heap[o].len + 1, v)
<1> HIDE DEF h1
<1>4. /\ b \in Val /\ b.len = heap[o].len + 1 /\ b.type = "array"
      /\ b.text = NULL /\ b.keys = NULL /\ b.values = t
      /\ Stored(h1, o, b, h)
  <2>1. HeapOK(h1) /\ o \in DOMAIN h1 /\ h1[o] \in Val
    BY <1>3 DEF Joined, Rest
  <2>2. h = Counted(h1, o)
    BY DEF h1
  <2>3. /\ h1[o].type = "array" /\ h1[o].text = NULL /\ h1[o].keys = NULL
        /\ h1[o].values = t /\ h1[o].len = heap[o].len
    BY <1>2, <1>3 DEF Joined, Rest
  <2> QED BY <2>1, <2>2, <2>3, CountIs
<1> HIDE DEF b
<1>5. /\ HeapOK(h) /\ DOMAIN h = DOMAIN heap \cup {t} /\ t # NULL /\ t # o /\ h[o] = b
      /\ \A y \in DOMAIN heap : y \notin {o, t} => h[y] = heap[y]
      /\ h[t] \in Table_ /\ Len(h[t].cells) = heap[o].len + 1
      /\ t \in DOMAIN heap => heap[t] \in Table_ /\ heap[o].values = t
      /\ t \notin DOMAIN heap => heap[o].values = NULL
  <2>1. DOMAIN h1 = DOMAIN heap \cup {t} /\ h[o] = b /\ HeapOK(h) /\ DOMAIN h = DOMAIN h1
    <3>1. DOMAIN h1 = DOMAIN heap \cup {t}
      BY <1>3 DEF Joined
    <3>2. HeapOK(h) /\ h[o] = b /\ DOMAIN h = DOMAIN h1 \cup {o}
      BY <1>4 DEF Stored
    <3> QED BY <3>1, <3>2
  <2>2. \A y \in DOMAIN h : y # o => h[y] = h1[y]
    BY <1>4, <2>1 DEF Stored
  <2>3. t \in DOMAIN h /\ t # o /\ t # NULL /\ h[t] = h1[t]
    BY <1>3, <2>1, <2>2 DEF Joined
  <2>4. /\ h1[t] \in Table_
        /\ t \in DOMAIN heap => heap[t] \in Table_ /\ heap[o].values = t
        /\ t \notin DOMAIN heap => heap[o].values = NULL
    BY <1>3 DEF Joined
  <2>5. Len(h1[t].cells) = heap[o].len + 1
    <3>1. CASE t \in DOMAIN heap
      <4>1. heap[o].values = t /\ Len(h1[t].cells) = Len(heap[t].cells) + 1
        BY <1>3, <3>1 DEF Joined
      <4>2. Len(heap[t].cells) = heap[o].len
        BY <1>2, <2>3, <4>1
      <4> QED BY <4>1, <4>2
    <3>2. CASE t \notin DOMAIN heap
      <4>1. Len(h1[t].cells) = 1 /\ heap[o].values = NULL
        BY <1>3, <3>2 DEF Joined
      <4> QED BY <1>2, <4>1
    <3> QED BY <3>1, <3>2
  <2>6. \A y \in DOMAIN heap : y \notin {o, t} => h1[y] = heap[y]
    BY <1>3 DEF Joined
  <2> QED BY <2>1, <2>2, <2>3, <2>4, <2>5, <2>6
<1>6. ASSUME NEW k, NEW q
      PROVE  Points(h[t], k, q) <=> \/ t \in DOMAIN heap /\ Points(heap[t], k, q)
                                    \/ k = heap[o].len + 1 /\ q = v
  <2>1. h[t] = h1[t]
    BY <1>3, <1>4, <1>5 DEF Stored
  <2> QED BY <1>3, <1>5, <2>1, SMTT(40) DEF Joined
<1> HIDE DEF E, E2
<1>7. ASSUME NEW a, NEW k, NEW q
      PROVE  /\ <<a, k, q>> \in E <=> Edge(heap, held, a, k, q)
             /\ <<a, k, q>> \in E2 <=> Edge(h, held2, a, k, q)
  BY <1>1, <1>5, EdgeIs DEF E, E2
<1>8. \A a, k, q : <<a, k, q>> \in E =>
         a \in DOMAIN heap \cup {NULL} /\ q \in DOMAIN heap /\ Fits_(heap, a, k, q)
  BY <1>1 DEF Owned, Shape, E
<1>9. <<NULL, 5, v>> \in E /\ v \in DOMAIN heap /\ heap[v] \in Val
  <2>1. <<NULL, 5, v>> \in E
    BY <1>7 DEF Edge
  <2>2. v \in DOMAIN heap /\ Fits_(heap, NULL, 5, v)
    BY <1>8, <2>1
  <2> QED BY <2>1, <2>2 DEF Fits_
<1> DEFINE e == held[1]
<1>31. <<NULL, 1, e>> \in E /\ <<e, 2, o>> \in E /\ v \notin {e, o, t}
  <2>1. <<NULL, 1, e>> \in E
    BY <1>7 DEF Edge
  <2>2. e \in DOMAIN heap /\ Fits_(heap, NULL, 1, e)
    BY <1>8, <2>1
  <2>3. heap[e] \in Element /\ heap[e] \notin Val
    BY <2>2, KindsApart DEF Fits_
  <2>4. Points(heap[e], 2, o)
    BY <2>3, PointsElement
  <2>5. o # NULL /\ e # NULL
    BY <1>1
  <2>6. <<e, 2, o>> \in E
    BY <1>7, <2>2, <2>4, <2>5 DEF Edge
  <2>7. v # o
    BY <1>1, <1>9, <2>5, <2>6 DEF Owned
  <2>8. v # t
    BY <1>5, <1>9, KindsApart
  <2> QED BY <1>9, <2>1, <2>3, <2>6, <2>7, <2>8
<1> HIDE DEF e
<1>10. Owned(DOMAIN h, X)
  <2>1. Owned(DOMAIN heap \cup {t}, X0)
    <3>1. CASE t \in DOMAIN heap
      <4>1. <<o, 3, t>> \in E
        BY <1>2, <1>5, <3>1
      <4>2. X0 = E /\ DOMAIN heap \cup {t} = DOMAIN heap
        BY <3>1, <4>1
      <4> QED BY <1>1, <4>2
    <3>2. CASE t \notin DOMAIN heap
      BY <1>1, <3>2, OwnedNew
    <3> QED BY <3>1, <3>2
  <2>2. <<NULL, 5, v>> \in X0 /\ t \in DOMAIN h /\ Owned(DOMAIN h, X0)
    BY <1>5, <1>9, <2>1
  <2>3. <<NULL, 1, e>> \in X0 /\ <<e, 2, o>> \in X0 /\ <<o, 3, t>> \in X0
    BY <1>31
  <2> HIDE DEF X0
  <2>4. Clear(DOMAIN h, X0, v, t)
    BY <1>31, <2>3, ClearChain
  <2> QED BY <2>2, <2>4, OwnedMove
<1>11. ASSUME NEW a, NEW k, NEW q
       PROVE  <<a, k, q>> \in X <=> \/ <<a, k, q>> \in E /\ ~(a = NULL /\ k = 5)
                                    \/ a = o /\ k = 3 /\ q = t
                                    \/ a = t /\ k = heap[o].len + 1 /\ q = v
  <2>1. <<NULL, 5, q>> \in E => q = v
    BY <1>1, <1>7 DEF Edge
  <2> QED BY <1>1, <1>5, <2>1 DEF Pointer
<1> HIDE DEF X
<1>12. ASSUME NEW a, NEW k, NEW q
       PROVE  <<a, k, q>> \in E2 <=> <<a, k, q>> \in X
  <2>1. <<a, k, q>> \in E <=> Edge(heap, held, a, k, q)
    BY <1>7
  <2>2. <<a, k, q>> \in E2 <=> Edge(h, held2, a, k, q)
    BY <1>7
  <2>3. CASE a = NULL
    <3>1. Edge(heap, held, a, k, q) <=> q # NULL /\ k \in 1..5 /\ q = held[k]
      BY <1>1, <2>3 DEF Edge
    <3>2. Edge(h, held2, a, k, q) <=> q # NULL /\ k \in 1..5 /\ q = held2[k]
      BY <1>1, <1>5, <2>3 DEF Edge
    <3> QED BY <1>1, <1>5, <1>11, <2>1, <2>2, <2>3, <3>1, <3>2
  <2>4. CASE a = o
    <3>1. Points(b, k, q) <=> (k = 1 /\ q = b.text) \/ (k = 2 /\ q = b.keys) \/ (k = 3 /\ q = b.values)
      BY <1>4, PointsVal
    <3>2. Points(heap[o], k, q) <=>
            (k = 1 /\ q = heap[o].text) \/ (k = 2 /\ q = heap[o].keys) \/ (k = 3 /\ q = heap[o].values)
      BY PointsVal
    <3>3. Edge(h, held2, a, k, q) <=> k = 3 /\ q = t
      BY <1>1, <1>4, <1>5, <2>4, <3>1 DEF Edge
    <3>4. Edge(heap, held, a, k, q) <=> k = 3 /\ q = heap[o].values /\ q # NULL
      BY <1>1, <1>2, <2>4, <3>2 DEF Edge
    <3>5. Edge(heap, held, a, k, q) => q = t
      BY <1>5, <3>4
    <3> QED BY <1>1, <1>5, <1>11, <2>1, <2>2, <2>4, <3>3, <3>4, <3>5
  <2>5. CASE a = t
    <3>1. Edge(h, held2, a, k, q) <=> q # NULL /\ Points(h[t], k, q)
      BY <1>5, <2>5 DEF Edge
    <3>2. Edge(heap, held, a, k, q) <=> q # NULL /\ t \in DOMAIN heap /\ Points(heap[t], k, q)
      BY <1>5, <2>5 DEF Edge
    <3> QED BY <1>5, <1>6, <1>11, <2>1, <2>2, <2>5, <3>1, <3>2, SMTT(20)
  <2>6. CASE a \notin {NULL, o, t}
    <3>1. Edge(h, held2, a, k, q) <=> Edge(heap, held, a, k, q)
      BY <1>5, <2>6 DEF Edge
    <3> QED BY <1>11, <2>1, <2>2, <2>6, <3>1
  <2> QED BY <2>3, <2>4, <2>5, <2>6
<1>13. Owned(DOMAIN h, E2)
  BY <1>10, <1>12, SameOwned
<1>14. \A a \in DOMAIN heap : a \in DOMAIN h /\ Alike(heap[a], h[a])
  <2>1. Alike(heap[o], b)
    BY <1>4, KindsApart DEF Alike
  <2>2. t \in DOMAIN heap => Alike(heap[t], h[t])
    BY <1>5, KindsApart DEF Alike
  <2> QED BY <1>5, <2>1, <2>2, AlikeSame
<1>15. Kept(heap, h, NULL, {})
  BY <1>5, <1>14, KindsApart DEF Kept
<1>16. Fits_(h, o, 3, t)
  <2>1. h[o] \in Val /\ h[o] \notin Element /\ o # NULL /\ h[o].len = heap[o].len + 1
    BY <1>1, <1>4, <1>5, KindsApart
  <2> QED BY <1>5, <2>1, SMTT(20) DEF Fits_
<1>17. \A a, k, q : <<a, k, q>> \in E2 =>
         \/ /\ <<a, k, q>> \in E
            /\ a # NULL /\ heap[a] \in Val /\ k # 1 =>
                  h[a].len = heap[a].len /\ Len(h[q].cells) = Len(heap[q].cells)
         \/ Fits_(h, a, k, q)
  <2> SUFFICES ASSUME NEW a, NEW k, NEW q, <<a, k, q>> \in E2
               PROVE  \/ /\ <<a, k, q>> \in E
                         /\ a # NULL /\ heap[a] \in Val /\ k # 1 =>
                               h[a].len = heap[a].len /\ Len(h[q].cells) = Len(heap[q].cells)
                      \/ Fits_(h, a, k, q)
    OBVIOUS
  <2>1. CASE a = t
    <3>1. a # NULL /\ h[a] \notin Val /\ h[a] \notin Element
      BY <1>5, <2>1, KindsApart
    <3> QED BY <3>1 DEF Fits_
  <2>2. CASE a = o /\ k = 3 /\ q = t
    BY <1>16, <2>2
  <2>3. CASE a # t /\ ~(a = o /\ k = 3 /\ q = t)
    <3>1. <<a, k, q>> \in E /\ a \in DOMAIN heap \cup {NULL} /\ q \in DOMAIN heap /\ Fits_(heap, a, k, q)
      BY <1>8, <1>11, <1>12, <2>3
    <3> SUFFICES ASSUME a # NULL, heap[a] \in Val, k # 1
                 PROVE  h[a].len = heap[a].len /\ Len(h[q].cells) = Len(heap[q].cells)
      BY <3>1
    <3>2. heap[q] \in Table_
      BY <3>1 DEF Fits_
    <3>3. q # o
      BY <3>2, KindsApart
    <3>4. q # t
      <4> SUFFICES ASSUME q = t PROVE FALSE
        OBVIOUS
      <4>1. <<o, 3, t>> \in E
        BY <1>2, <1>5, <3>1
      <4> QED BY <1>1, <2>3, <3>1, <4>1 DEF Owned
    <3>5. a # o
      <4> SUFFICES ASSUME a = o PROVE FALSE
        OBVIOUS
      <4>1. Points(heap[o], k, q) /\ q # NULL
        BY <1>1, <1>7, <3>1 DEF Edge
      <4>2. k = 3 /\ q = heap[o].values
        BY <1>2, <3>1, <4>1, PointsVal
      <4> QED BY <1>5, <3>4, <4>1, <4>2
    <3> QED BY <1>5, <2>3, <3>1, <3>3, <3>4, <3>5
  <2> QED BY <2>1, <2>2, <2>3
<1>18. \A a, n, x, k, q :
         (/\ <<a, n, x>> \in E2 /\ <<x, k, q>> \in E2
          /\ a # NULL /\ h[a] \in Val /\ n \in {2, 3}) =>
            \/ <<a, n, x>> \in E /\ <<x, k, q>> \in E
            \/ h[q] \in Member_(n)
  <2> SUFFICES ASSUME NEW a, NEW n, NEW x, NEW k, NEW q, <<a, n, x>> \in E2, <<x, k, q>> \in E2,
                      a # NULL, h[a] \in Val, n \in {2, 3}
               PROVE  \/ <<a, n, x>> \in E /\ <<x, k, q>> \in E
                      \/ h[q] \in Member_(n)
    OBVIOUS
  <2>1. a # t /\ x # NULL
    BY <1>1, <1>5, <1>13, KindsApart, SMTT(40) DEF Owned
  <2>2. <<o, 3, t>> \in E2
    BY <1>11, <1>12
  <2>3. CASE x = t
    <3>1. a = o /\ n = 3
      BY <1>13, <2>2, <2>3 DEF Owned
    <3>2. CASE <<t, k, q>> \in E
      BY <1>2, <1>5, <1>8, <2>3, <3>1, <3>2
    <3>3. CASE <<t, k, q>> \notin E
      <4>1. q = v
        BY <1>5, <1>11, <1>12, <2>3, <3>3
      <4>2. h[q] \in Val
        BY <1>9, <1>14, <4>1 DEF Alike
      <4> QED BY <3>1, <4>2 DEF Member_
    <3> QED BY <3>2, <3>3
  <2>4. CASE x # t
    <3>1. <<a, n, x>> \in E
      BY <1>11, <1>12, <2>1, <2>4
    <3>2. x # o
      <4>1. a \in DOMAIN heap /\ heap[a] \in Val /\ Fits_(heap, a, n, x)
        BY <1>8, <1>14, <2>1, <3>1 DEF Alike
      <4> QED BY <2>1, <4>1, KindsApart DEF Fits_
    <3> QED BY <1>11, <1>12, <2>1, <2>4, <3>1, <3>2
  <2> QED BY <2>3, <2>4
<1>19. \A a \in DOMAIN h :
          \/ a \in DOMAIN heap /\ h[a] = heap[a]
          \/ /\ h[a] \in Val => ValShape(h[a])
             /\ h[a] \in Element => h[a].value # NULL
  <2>1. ValShape(b) /\ b \notin Element
    BY <1>2, <1>4, <1>5, KindsApart, SMTT(40) DEF ValShape, Containers
  <2>2. h[t] \notin Val /\ h[t] \notin Element
    BY <1>5, KindsApart
  <2> QED BY <1>5, <2>1, <2>2
<1>20. ShapeChange(heap, held, h, held2)
  BY <1>5, <1>13, <1>14, <1>17, <1>18, <1>19, Zenon DEF E, E2, ShapeChange
<1>21. Full(heap) => Full(h)
  <2>1. \A x \in DOMAIN h : h[x] \in Table_ => x = t \/ (x \in DOMAIN heap /\ h[x] = heap[x])
    BY <1>4, <1>5, KindsApart
  <2> QED BY <1>5, <1>6, <2>1 DEF Full
<1> QED BY <1>15, <1>20, <1>21, ShapeStep
\* The two tables of an object after both of its reallocs.
Both(heap, o, key, v, kt, vt, h) ==
    /\ HeapOK(h) /\ DOMAIN h = DOMAIN heap \cup {kt, vt}
    /\ kt # vt /\ o \notin {kt, vt} /\ NULL \notin {kt, vt}
    /\ h[o] \in Val /\ h[o].type = "object" /\ h[o].text = NULL /\ h[o].len = heap[o].len
    /\ h[o].keys = kt /\ h[o].values = vt
    /\ h[kt] \in Table_ /\ Len(h[kt].cells) = heap[o].len + 1
    /\ h[vt] \in Table_ /\ Len(h[vt].cells) = heap[o].len + 1
    /\ \A k, q : Points(h[kt], k, q) <=> \/ kt \in DOMAIN heap /\ Points(heap[kt], k, q)
                                         \/ k = heap[o].len + 1 /\ q = key
    /\ \A k, q : Points(h[vt], k, q) <=> \/ vt \in DOMAIN heap /\ Points(heap[vt], k, q)
                                         \/ k = heap[o].len + 1 /\ q = v
    /\ kt \in DOMAIN heap => heap[kt] \in Table_ /\ heap[o].keys = kt
    /\ kt \notin DOMAIN heap => heap[o].keys = NULL
    /\ vt \in DOMAIN heap => heap[vt] \in Table_ /\ heap[o].values = vt
    /\ vt \notin DOMAIN heap => heap[o].values = NULL
    /\ \A y \in DOMAIN heap : y \notin {o, kt, vt} => h[y] = heap[y]

LEMMA JoinBoth ==
  ASSUME NEW heap, NEW held, Shape(heap, held),
         NEW o \in DOMAIN heap, heap[o] \in Val, heap[o].type = "object",
         NEW key \in Nat, NEW v \in Nat,
         NEW h1, h1 = Join(heap, o, "keys", key), NEW h2, h2 = Join(h1, o, "values", v)
  PROVE  \E kt, vt : Both(heap, o, key, v, kt, vt, h2)
<1> DEFINE E == Edges(heap, held)
           n == heap[o].len
<1>1. HeapOK(heap) /\ Owned(DOMAIN heap, E)
  BY DEF Shape
<1>2. /\ heap[o].text = NULL /\ n \in Nat
      /\ heap[o].keys = NULL <=> n = 0
      /\ heap[o].values = NULL <=> n = 0
      /\ heap[o].keys # NULL =>
            /\ <<o, 2, heap[o].keys>> \in E
            /\ heap[o].keys \in DOMAIN heap /\ heap[heap[o].keys] \in Table_
            /\ Len(heap[heap[o].keys].cells) = n
      /\ heap[o].values # NULL =>
            /\ <<o, 3, heap[o].values>> \in E
            /\ heap[o].values \in DOMAIN heap /\ heap[heap[o].values] \in Table_
            /\ Len(heap[heap[o].values].cells) = n
  BY TableIs DEF Containers
<1>3. heap[o].keys = heap[o].values => heap[o].keys = NULL
  BY <1>1, <1>2 DEF Owned
<1>4. PICK kt : Joined(heap, o, "keys", key, kt, h1)
  <2>1. "keys" \in {"keys", "values"} /\ heap[o]["keys"] = heap[o].keys
    OBVIOUS
  <2> QED BY <1>1, <1>2, <2>1, JoinIs
<1> HIDE DEF E, n
<1>5. /\ HeapOK(h1) /\ DOMAIN h1 = DOMAIN heap \cup {kt} /\ kt # NULL /\ kt # o
      /\ h1[o] \in Val /\ h1[o].type = "object" /\ h1[o].text = NULL /\ h1[o].len = n
      /\ h1[o].keys = kt /\ h1[o].values = heap[o].values
      /\ h1[kt] \in Table_ /\ Len(h1[kt].cells) = n + 1
      /\ \A k, q : Points(h1[kt], k, q) <=> \/ kt \in DOMAIN heap /\ Points(heap[kt], k, q)
                                            \/ k = n + 1 /\ q = key
      /\ kt \in DOMAIN heap => heap[kt] \in Table_ /\ heap[o].keys = kt
      /\ kt \notin DOMAIN heap => heap[o].keys = NULL
      /\ \A y \in DOMAIN heap : y \notin {o, kt} => h1[y] = heap[y]
  <2>1. /\ HeapOK(h1) /\ DOMAIN h1 = DOMAIN heap \cup {kt} /\ kt # NULL /\ kt # o
        /\ h1[o] \in Val /\ h1[o].type = "object" /\ h1[o].text = NULL /\ h1[o].len = n
        /\ h1[o].keys = kt /\ h1[o].values = heap[o].values
        /\ h1[kt] \in Table_
        /\ \A y \in DOMAIN heap : y \notin {o, kt} => h1[y] = heap[y]
    BY <1>2, <1>4 DEF Joined, Rest, n
  <2>2. CASE kt \in DOMAIN heap
    <3>1. /\ heap[kt] \in Table_ /\ heap[o].keys = kt /\ Len(h1[kt].cells) = Len(heap[kt].cells) + 1
          /\ \A k, q : Points(h1[kt], k, q) <=> Points(heap[kt], k, q) \/ (k = Len(h1[kt].cells) /\ q = key)
      BY <1>4, <2>2 DEF Joined
    <3>2. Len(h1[kt].cells) = n + 1
      BY <1>2, <2>1, <3>1
    <3> QED BY <2>1, <2>2, <3>1, <3>2
  <2>3. CASE kt \notin DOMAIN heap
    <3>1. /\ heap[o].keys = NULL /\ Len(h1[kt].cells) = 1
          /\ \A k, q : Points(h1[kt], k, q) <=> k = 1 /\ q = key
      BY <1>4, <2>3 DEF Joined
    <3>2. n = 0
      BY <1>2, <3>1
    <3> QED BY <2>1, <2>3, <3>1, <3>2
  <2> QED BY <2>2, <2>3
<1>6. h1[o].values # NULL =>
         /\ h1[o].values \in DOMAIN heap /\ h1[o].values \notin {o, kt}
         /\ h1[h1[o].values] = heap[heap[o].values] /\ h1[h1[o].values] \in Table_
  <2> SUFFICES ASSUME heap[o].values # NULL
               PROVE  /\ heap[o].values \in DOMAIN heap /\ heap[o].values \notin {o, kt}
                      /\ h1[heap[o].values] = heap[heap[o].values] /\ h1[heap[o].values] \in Table_
    BY <1>5
  <2>1. heap[o].values \in DOMAIN heap /\ heap[heap[o].values] \in Table_
    BY <1>2
  <2>2. heap[o].values \notin {o, kt}
    BY <1>3, <1>5, <2>1, KindsApart
  <2> QED BY <1>5, <2>1, <2>2
<1>7. PICK vt : Joined(h1, o, "values", v, vt, h2)
  <2>1. "values" \in {"keys", "values"} /\ h1[o]["values"] = h1[o].values /\ o \in DOMAIN h1
    BY <1>5
  <2> QED BY <1>5, <1>6, <2>1, JoinIs
<1>8. /\ HeapOK(h2) /\ DOMAIN h2 = DOMAIN h1 \cup {vt} /\ vt # NULL /\ vt # o
      /\ h2[o] \in Val /\ h2[o].type = "object" /\ h2[o].text = NULL /\ h2[o].len = n
      /\ h2[o].keys = kt /\ h2[o].values = vt
      /\ h2[vt] \in Table_
      /\ \A y \in DOMAIN h1 : y \notin {o, vt} => h2[y] = h1[y]
  BY <1>5, <1>7 DEF Joined, Rest
<1>9. /\ kt # vt
      /\ vt \in DOMAIN heap => heap[vt] \in Table_ /\ heap[o].values = vt
      /\ vt \notin DOMAIN heap => heap[o].values = NULL
      /\ Len(h2[vt].cells) = n + 1
      /\ \A k, q : Points(h2[vt], k, q) <=> \/ vt \in DOMAIN heap /\ Points(heap[vt], k, q)
                                            \/ k = n + 1 /\ q = v
  <2>1. CASE vt \in DOMAIN h1
    <3>1. /\ h1[o].values = vt /\ Len(h2[vt].cells) = Len(h1[vt].cells) + 1
          /\ \A k, q : Points(h2[vt], k, q) <=> Points(h1[vt], k, q) \/ (k = Len(h2[vt].cells) /\ q = v)
      BY <1>7, <2>1 DEF Joined
    <3>2. vt \in DOMAIN heap /\ vt # kt /\ h1[vt] = heap[vt] /\ heap[vt] \in Table_ /\ heap[o].values = vt
      BY <1>5, <1>6, <1>8, <3>1
    <3>3. Len(heap[vt].cells) = n
      BY <1>2, <1>8, <3>2
    <3>4. Len(h2[vt].cells) = n + 1
      BY <3>1, <3>2, <3>3
    <3> QED BY <3>1, <3>2, <3>4
  <2>2. CASE vt \notin DOMAIN h1
    <3>1. /\ h1[o].values = NULL /\ Len(h2[vt].cells) = 1
          /\ \A k, q : Points(h2[vt], k, q) <=> k = 1 /\ q = v
      BY <1>7, <2>2 DEF Joined
    <3>2. n = 0 /\ heap[o].values = NULL
      BY <1>2, <1>5, <3>1
    <3>3. vt \notin DOMAIN heap /\ vt # kt
      BY <1>5, <2>2
    <3> QED BY <3>1, <3>2, <3>3
  <2> QED BY <2>1, <2>2
<1>10. h2[kt] = h1[kt] /\ DOMAIN h2 = DOMAIN heap \cup {kt, vt}
       /\ \A y \in DOMAIN heap : y \notin {o, kt, vt} => h2[y] = heap[y]
  <2>1. /\ DOMAIN h1 = DOMAIN heap \cup {kt} /\ kt # o
        /\ \A y \in DOMAIN heap : y \notin {o, kt} => h1[y] = heap[y]
    BY <1>5, Zenon
  <2>2. /\ DOMAIN h2 = DOMAIN h1 \cup {vt} /\ kt # vt
        /\ \A y \in DOMAIN h1 : y \notin {o, vt} => h2[y] = h1[y]
    BY <1>8, <1>9, Zenon
  <2>3. h2[kt] = h1[kt]
    BY <2>1, <2>2, Zenon
  <2>4. DOMAIN h2 = DOMAIN heap \cup {kt, vt}
    BY <2>1, <2>2, Zenon
  <2>5. ASSUME NEW y \in DOMAIN heap, y \notin {o, kt, vt}
        PROVE  h2[y] = heap[y]
    BY <2>1, <2>2, <2>5, Zenon
  <2> QED BY <2>3, <2>4, <2>5, Zenon
<1>11. Both(heap, o, key, v, kt, vt, h2)
  BY <1>5, <1>8, <1>9, <1>10 DEF n, Both
<1> QED BY <1>11
Unkeyed(heap, o, e) == [heap EXCEPT ![o].len = @ + 1, ![e].key = NULL]

\* object_add_keyval: the key of the top of the stack and the value.
ObjectAdds(heap, held, e, o, key, v, h2, kt, vt, h, held2) ==
    /\ Shape(heap, held) /\ e = held[1] /\ e # NULL
    /\ o = heap[e].value /\ heap[o].type = "object"
    /\ key = heap[e].key /\ key # NULL /\ v = held[5] /\ v # NULL
    /\ Both(heap, o, key, v, kt, vt, h2) /\ h = Unkeyed(h2, o, e)
    /\ held2 \in Five /\ held2[5] = NULL /\ \A k \in 1..4 : held2[k] = held[k]

LEMMA ObjectAddShape ==
  ASSUME NEW heap, NEW held, NEW e, NEW o, NEW key, NEW v, NEW h2, NEW kt, NEW vt, NEW h, NEW held2,
         ObjectAdds(heap, held, e, o, key, v, h2, kt, vt, h, held2)
  PROVE  /\ Shape(h, held2) /\ Kept(heap, h, e, {}) /\ h[e].key = NULL
         /\ Full(heap) => Full(h)
<1> SUFFICES ASSUME Shape(heap, held), e = held[1], e # NULL, o = heap[e].value, heap[o].type = "object",
                    key = heap[e].key, key # NULL, v = held[5], v # NULL,
                    Both(heap, o, key, v, kt, vt, h2), h = Unkeyed(h2, o, e),
                    held2 \in Five, held2[5] = NULL, \A k \in 1..4 : held2[k] = held[k]
             PROVE  /\ Shape(h, held2) /\ Kept(heap, h, e, {}) /\ h[e].key = NULL
                    /\ Full(heap) => Full(h)
  BY DEF ObjectAdds
<1> DEFINE E == Edges(heap, held)
           E2 == Edges(h, held2)
           n == heap[o].len + 1
           b == [h2[o] EXCEPT !.len = @ + 1]
           h3 == Counted(h2, o)
           eb == [h3[e] EXCEPT !.key = NULL]
<1>1. /\ HeapOK(heap) /\ held \in Five /\ Owned(DOMAIN heap, E) /\ v \in Nat /\ NULL \notin DOMAIN heap
  BY DEF Shape, Five, HeapOK
<1>2. ASSUME NEW a, NEW k, NEW q
      PROVE  <<a, k, q>> \in E <=> Edge(heap, held, a, k, q)
  BY <1>1, EdgeIs
<1>3. \A a, k, q : <<a, k, q>> \in E =>
         a \in DOMAIN heap \cup {NULL} /\ q \in DOMAIN heap /\ Fits_(heap, a, k, q)
  BY <1>1 DEF Owned, Shape
<1> HIDE DEF E
<1>4. e \in DOMAIN heap /\ heap[e] \in Element /\ heap[e] \notin Val /\ heap[e] \notin Table_
  <2>1. <<NULL, 1, e>> \in E
    BY <1>2 DEF Edge
  <2>2. e \in DOMAIN heap /\ Fits_(heap, NULL, 1, e)
    BY <1>3, <2>1
  <2>3. heap[e] \in Element
    BY <2>2 DEF Fits_
  <2> QED BY <2>2, <2>3, KindsApart
<1>5. ASSUME NEW k, NEW q
      PROVE  Points(heap[e], k, q) <=>
               (k = 1 /\ q = key) \/ (k = 2 /\ q = o) \/ (k = 3 /\ q = heap[e].next)
  BY <1>4, PointsElement
<1>6. <<e, 1, key>> \in E /\ key \in DOMAIN heap /\ heap[key] \in Text /\ key \in Nat
  <2>1. <<e, 1, key>> \in E
    BY <1>1, <1>2, <1>4, <1>5 DEF Edge
  <2>2. key \in DOMAIN heap /\ Fits_(heap, e, 1, key)
    BY <1>3, <2>1
  <2> QED BY <1>1, <1>4, <2>1, <2>2 DEF Fits_, HeapOK
<1>7. o \in DOMAIN heap /\ heap[o] \in Val /\ o # e
  <2>1. o # NULL
    BY <1>4 DEF Shape
  <2>2. <<e, 2, o>> \in E
    BY <1>1, <1>2, <1>4, <1>5, <2>1 DEF Edge
  <2>3. o \in DOMAIN heap /\ Fits_(heap, e, 2, o)
    BY <1>3, <2>2
  <2>4. heap[o] \in Val
    BY <1>1, <1>4, <2>3 DEF Fits_
  <2> QED BY <1>4, <2>3, <2>4
<1>8. <<NULL, 5, v>> \in E /\ v \in DOMAIN heap /\ heap[v] \in Val
  <2>1. <<NULL, 5, v>> \in E
    BY <1>2 DEF Edge
  <2>2. v \in DOMAIN heap /\ Fits_(heap, NULL, 5, v)
    BY <1>3, <2>1
  <2> QED BY <2>1, <2>2 DEF Fits_
<1>9. /\ heap[o].text = NULL /\ heap[o].len \in Nat
      /\ heap[o].keys # NULL =>
            /\ <<o, 2, heap[o].keys>> \in E
            /\ heap[o].keys \in DOMAIN heap /\ heap[heap[o].keys] \in Table_
      /\ heap[o].values # NULL =>
            /\ <<o, 3, heap[o].values>> \in E
            /\ heap[o].values \in DOMAIN heap /\ heap[heap[o].values] \in Table_
  BY <1>7, TableIs DEF Containers, E
<1>10. n \in Nat
  BY <1>9
<1> DEFINE X0 == E \cup {<<o, 2, kt>>}
           X1 == X0 \cup {<<o, 3, vt>>}
           X2 == (X1 \ Pointer(e, 1, key)) \cup Pointer(kt, n, key)
           X == (X2 \ Pointer(NULL, 5, v)) \cup Pointer(vt, n, v)
<1>11. /\ b \in Val /\ b.len = n /\ b.type = "object"
       /\ b.text = NULL /\ b.keys = kt /\ b.values = vt
       /\ Stored(h2, o, b, h3)
  <2>1. HeapOK(h2) /\ o \in DOMAIN h2 /\ h2[o] \in Val
    BY <1>7, <1>10 DEF Both
  <2>2. /\ h2[o].type = "object" /\ h2[o].text = NULL /\ h2[o].len + 1 = n
        /\ h2[o].keys = kt /\ h2[o].values = vt
    BY <1>10 DEF Both
  <2> QED BY <2>1, <2>2, CountIs
<1>12. h = [h3 EXCEPT ![e].key = NULL]
  BY DEF Unkeyed, Counted
<1> HIDE DEF b, h3, n
<1>13. h3[e] = heap[e] /\ e \in DOMAIN h3 /\ HeapOK(h3) /\ e \notin {kt, vt}
  <2>1. e \notin {kt, vt}
    BY <1>4, <1>10 DEF Both
  <2>2. e \in DOMAIN h2 /\ h2[e] = heap[e]
    BY <1>4, <1>7, <1>10, <2>1 DEF Both
  <2> QED BY <1>7, <1>11, <2>1, <2>2 DEF Stored
<1>14. /\ eb \in Element /\ eb.key = NULL /\ eb.value = o /\ eb.next = heap[e].next
       /\ eb \notin Val /\ eb \notin Table_
       /\ Stored(h3, e, eb, h)
  <2>1. eb \in Element /\ eb.key = NULL /\ eb.value = o /\ eb.next = heap[e].next
    BY <1>4, <1>13 DEF Element, NULL
  <2>2. h = [h3 EXCEPT ![e] = eb]
    BY <1>12
  <2> HIDE DEF eb
  <2>3. eb \in Blocks
    BY <2>1 DEF Blocks
  <2>4. Stored(h3, e, eb, h)
    <3>1. Stored(h3, e, eb, [h3 EXCEPT ![e] = eb])
      BY <1>13, <2>3, EditIs
    <3> QED BY <2>2, <3>1
  <2> QED BY <2>1, <2>4, KindsApart
<1> HIDE DEF eb
<1>15. /\ HeapOK(h) /\ DOMAIN h = DOMAIN heap \cup {kt, vt}
       /\ h[o] = b /\ h[e] = eb /\ h[kt] = h2[kt] /\ h[vt] = h2[vt]
       /\ \A y \in DOMAIN heap : y \notin {o, e, kt, vt} => h[y] = heap[y]
  <2>1. HeapOK(h) /\ h[e] = eb /\ DOMAIN h = DOMAIN h3 \cup {e} /\ \A y \in DOMAIN h3 : y # e => h[y] = h3[y]
    BY <1>14 DEF Stored
  <2>2. h3[o] = b /\ DOMAIN h3 = DOMAIN h2 \cup {o} /\ \A y \in DOMAIN h2 : y # o => h3[y] = h2[y]
    BY <1>11 DEF Stored
  <2>3. /\ DOMAIN h2 = DOMAIN heap \cup {kt, vt} /\ o \notin {kt, vt}
        /\ \A y \in DOMAIN heap : y \notin {o, kt, vt} => h2[y] = heap[y]
    BY <1>10 DEF Both
  <2> QED BY <1>4, <1>7, <1>13, <2>1, <2>2, <2>3
<1>16. /\ kt # vt /\ kt # NULL /\ vt # NULL /\ kt # o /\ vt # o /\ kt # e /\ vt # e
       /\ h[kt] \in Table_ /\ Len(h[kt].cells) = n
       /\ h[vt] \in Table_ /\ Len(h[vt].cells) = n
       /\ kt \in DOMAIN heap => heap[kt] \in Table_ /\ heap[o].keys = kt
       /\ kt \notin DOMAIN heap => heap[o].keys = NULL
       /\ vt \in DOMAIN heap => heap[vt] \in Table_ /\ heap[o].values = vt
       /\ vt \notin DOMAIN heap => heap[o].values = NULL
  <2>1. o \notin {kt, vt} /\ NULL \notin {kt, vt} /\ kt # vt
    BY DEF Both
  <2>2. /\ h[kt] \in Table_ /\ Len(h[kt].cells) = n
        /\ h[vt] \in Table_ /\ Len(h[vt].cells) = n
    BY <1>15 DEF Both, n
  <2> QED BY <1>13, <2>1, <2>2 DEF Both
<1>17. ASSUME NEW k, NEW q
       PROVE  /\ Points(h[kt], k, q) <=> (kt \in DOMAIN heap /\ Points(heap[kt], k, q)) \/ (k = n /\ q = key)
              /\ Points(h[vt], k, q) <=> (vt \in DOMAIN heap /\ Points(heap[vt], k, q)) \/ (k = n /\ q = v)
  <2>1. Points(h2[kt], k, q) <=> (kt \in DOMAIN heap /\ Points(heap[kt], k, q)) \/ (k = n /\ q = key)
    BY Zenon DEF Both, n
  <2>2. Points(h2[vt], k, q) <=> (vt \in DOMAIN heap /\ Points(heap[vt], k, q)) \/ (k = n /\ q = v)
    BY Zenon DEF Both, n
  <2> QED BY <1>15, <2>1, <2>2
<1>18. /\ kt \in DOMAIN heap => <<o, 2, kt>> \in E
       /\ vt \in DOMAIN heap => <<o, 3, vt>> \in E
  BY <1>9, <1>16
<1> HIDE DEF E2
<1>19. ASSUME NEW a, NEW k, NEW q
       PROVE  <<a, k, q>> \in E2 <=> Edge(h, held2, a, k, q)
  BY <1>15, EdgeIs DEF E2
<1>50. /\ <<NULL, 1, e>> \in E /\ <<e, 2, o>> \in E
       /\ key \notin {e, o, kt} /\ v \notin {e, o, vt}
  <2>1. <<NULL, 1, e>> \in E
    BY <1>2 DEF Edge
  <2>2. <<e, 2, o>> \in E
    BY <1>1, <1>2, <1>4, <1>5, <1>7 DEF Edge
  <2>3. key \notin {e, o, kt}
    BY <1>4, <1>6, <1>7, <1>16, KindsApart
  <2>4. v # o
    BY <1>1, <1>4, <1>8, <2>2 DEF Owned
  <2>5. v \notin {e, vt}
    BY <1>4, <1>8, <1>16, KindsApart
  <2> QED BY <2>1, <2>2, <2>3, <2>4, <2>5
<1>20. Owned(DOMAIN h, X)
  <2>1. Owned(DOMAIN heap \cup {kt}, X0)
    <3>1. CASE kt \in DOMAIN heap
      <4>1. X0 = E /\ DOMAIN heap \cup {kt} = DOMAIN heap
        BY <1>18, <3>1
      <4> QED BY <1>1, <4>1
    <3>2. CASE kt \notin DOMAIN heap
      BY <1>1, <1>7, <3>2, OwnedNew
    <3> QED BY <3>1, <3>2
  <2>2. Owned((DOMAIN heap \cup {kt}) \cup {vt}, X1)
    <3>1. CASE vt \in DOMAIN heap
      <4>1. <<o, 3, vt>> \in X0
        BY <1>18, <3>1
      <4>2. X1 = X0 /\ (DOMAIN heap \cup {kt}) \cup {vt} = DOMAIN heap \cup {kt}
        BY <3>1, <4>1
      <4> QED BY <2>1, <4>2
    <3>2. CASE vt \notin DOMAIN heap
      <4>1. vt \notin DOMAIN heap \cup {kt} /\ o \in (DOMAIN heap \cup {kt}) \cup {NULL}
        BY <1>7, <1>16, <3>2
      <4> HIDE DEF X0
      <4> QED BY <2>1, <4>1, OwnedNew
    <3> QED BY <3>1, <3>2
  <2>3. Owned(DOMAIN h, X1)
    <3>1. (DOMAIN heap \cup {kt}) \cup {vt} = DOMAIN h
      BY <1>15
    <3> QED BY <2>2, <3>1
  <2>4. <<e, 1, key>> \in X1 /\ <<NULL, 5, v>> \in X1 /\ kt \in DOMAIN h /\ vt \in DOMAIN h
    BY <1>6, <1>8, <1>15
  <2>7. <<NULL, 1, e>> \in X1 /\ <<e, 2, o>> \in X1 /\ <<o, 2, kt>> \in X1 /\ <<o, 3, vt>> \in X1
    BY <1>50
  <2> HIDE DEF X0, X1
  <2>5. Owned(DOMAIN h, X2)
    <3>1. Clear(DOMAIN h, X1, key, kt)
      BY <1>50, <2>7, ClearChain
    <3> QED BY <2>3, <2>4, <3>1, OwnedMove
  <2>6. <<NULL, 5, v>> \in X2
    BY <1>1, <1>4, <2>4 DEF Pointer
  <2>8. <<NULL, 1, e>> \in X2 /\ <<e, 2, o>> \in X2 /\ <<o, 3, vt>> \in X2
    BY <1>1, <1>4, <1>7, <1>16, <2>7 DEF Pointer
  <2> HIDE DEF X2
  <2>9. Clear(DOMAIN h, X2, v, vt)
    BY <1>50, <2>8, ClearChain
  <2> QED BY <2>4, <2>5, <2>6, <2>9, OwnedMove
<1>21. ASSUME NEW a, NEW k, NEW q
       PROVE  <<a, k, q>> \in X <=> \/ <<a, k, q>> \in E /\ ~(a = NULL /\ k = 5) /\ ~(a = e /\ k = 1)
                                    \/ a = o /\ k = 2 /\ q = kt
                                    \/ a = o /\ k = 3 /\ q = vt
                                    \/ a = kt /\ k = n /\ q = key
                                    \/ a = vt /\ k = n /\ q = v
  <2>1. <<NULL, 5, q>> \in E => q = v
    BY <1>1, <1>2 DEF Edge
  <2>2. <<e, 1, q>> \in E => q = key
    BY <1>1, <1>2, <1>4, <1>5 DEF Edge
  <2>3. <<a, k, q>> \in X2 <=>
           \/ <<a, k, q>> \in E /\ ~(a = e /\ k = 1)
           \/ a = o /\ k = 2 /\ q = kt
           \/ a = o /\ k = 3 /\ q = vt
           \/ a = kt /\ k = n /\ q = key
    BY <1>7, <2>2 DEF Pointer
  <2> HIDE DEF X2
  <2> QED BY <1>1, <1>4, <1>7, <1>16, <2>1, <2>3 DEF Pointer
<1> HIDE DEF X
<1>22. ASSUME NEW a, NEW k, NEW q
       PROVE  <<a, k, q>> \in E2 <=> <<a, k, q>> \in X
  <2>1. <<a, k, q>> \in E <=> Edge(heap, held, a, k, q)
    BY <1>2
  <2>2. <<a, k, q>> \in E2 <=> Edge(h, held2, a, k, q)
    BY <1>19
  <2>3. CASE a = NULL
    <3>1. Edge(heap, held, a, k, q) <=> q # NULL /\ k \in 1..5 /\ q = held[k]
      BY <1>1, <2>3 DEF Edge
    <3>2. Edge(h, held2, a, k, q) <=> q # NULL /\ k \in 1..5 /\ q = held2[k]
      BY <1>1, <1>15, <1>16, <2>3 DEF Edge
    <3> QED BY <1>1, <1>4, <1>7, <1>16, <1>21, <2>1, <2>2, <2>3, <3>1, <3>2
  <2>4. CASE a = o
    <3>1. Points(b, k, q) <=> (k = 1 /\ q = b.text) \/ (k = 2 /\ q = b.keys) \/ (k = 3 /\ q = b.values)
      BY <1>11, PointsVal
    <3>2. Points(heap[o], k, q) <=>
            (k = 1 /\ q = heap[o].text) \/ (k = 2 /\ q = heap[o].keys) \/ (k = 3 /\ q = heap[o].values)
      BY <1>7, PointsVal
    <3>3. Edge(h, held2, a, k, q) <=> (k = 2 /\ q = kt) \/ (k = 3 /\ q = vt)
      BY <1>1, <1>7, <1>11, <1>15, <1>16, <2>4, <3>1 DEF Edge
    <3>4. Edge(heap, held, a, k, q) => (k = 2 /\ q = heap[o].keys) \/ (k = 3 /\ q = heap[o].values)
      BY <1>1, <1>7, <1>9, <2>4, <3>2 DEF Edge
    <3>5. Edge(heap, held, a, k, q) => (k = 2 /\ q = kt) \/ (k = 3 /\ q = vt)
      <4>1. Edge(heap, held, a, k, q) => q # NULL
        BY DEF Edge
      <4> QED BY <1>16, <3>4, <4>1
    <3>6. <<a, k, q>> \in X <=> <<a, k, q>> \in E \/ (k = 2 /\ q = kt) \/ (k = 3 /\ q = vt)
      BY <1>1, <1>7, <1>16, <1>21, <2>4
    <3> QED BY <2>1, <2>2, <3>3, <3>5, <3>6
  <2>5. CASE a = e
    <3>1. Points(eb, k, q) <=> (k = 1 /\ q = NULL) \/ (k = 2 /\ q = o) \/ (k = 3 /\ q = heap[e].next)
      <4>1. Points(eb, k, q) <=> (k = 1 /\ q = eb.key) \/ (k = 2 /\ q = eb.value) \/ (k = 3 /\ q = eb.next)
        BY <1>14, PointsElement
      <4> QED BY <1>14, <4>1
    <3>2. Edge(h, held2, a, k, q) <=> q # NULL /\ ((k = 2 /\ q = o) \/ (k = 3 /\ q = heap[e].next))
      BY <1>1, <1>4, <1>15, <2>5, <3>1 DEF Edge
    <3>3. Edge(heap, held, a, k, q) <=>
            q # NULL /\ ((k = 1 /\ q = key) \/ (k = 2 /\ q = o) \/ (k = 3 /\ q = heap[e].next))
      BY <1>1, <1>4, <1>5, <2>5 DEF Edge
    <3> QED BY <1>1, <1>4, <1>7, <1>16, <1>21, <2>1, <2>2, <2>5, <3>2, <3>3
  <2>6. CASE a = kt
    <3>1. Edge(h, held2, a, k, q) <=> q # NULL /\ Points(h[kt], k, q)
      BY <1>15, <1>16, <2>6 DEF Edge
    <3>2. Edge(heap, held, a, k, q) <=> q # NULL /\ kt \in DOMAIN heap /\ Points(heap[kt], k, q)
      BY <1>16, <2>6 DEF Edge
    <3>3. Edge(h, held2, a, k, q) <=> Edge(heap, held, a, k, q) \/ (k = n /\ q = key)
      BY <1>17, <3>1, <3>2
    <3>4. <<a, k, q>> \in X <=> <<a, k, q>> \in E \/ (k = n /\ q = key)
      BY <1>16, <1>21, <2>6
    <3> QED BY <2>1, <2>2, <3>3, <3>4
  <2>7. CASE a = vt
    <3>1. Edge(h, held2, a, k, q) <=> q # NULL /\ Points(h[vt], k, q)
      BY <1>15, <1>16, <2>7 DEF Edge
    <3>2. Edge(heap, held, a, k, q) <=> q # NULL /\ vt \in DOMAIN heap /\ Points(heap[vt], k, q)
      BY <1>16, <2>7 DEF Edge
    <3>3. Edge(h, held2, a, k, q) <=> Edge(heap, held, a, k, q) \/ (k = n /\ q = v)
      BY <1>17, <3>1, <3>2
    <3>4. <<a, k, q>> \in X <=> <<a, k, q>> \in E \/ (k = n /\ q = v)
      BY <1>16, <1>21, <2>7
    <3> QED BY <2>1, <2>2, <3>3, <3>4
  <2>8. CASE a \notin {NULL, o, e, kt, vt}
    <3>1. Edge(h, held2, a, k, q) <=> Edge(heap, held, a, k, q)
      BY <1>15, <2>8 DEF Edge
    <3> QED BY <1>21, <2>1, <2>2, <2>8, <3>1
  <2> QED BY <2>3, <2>4, <2>5, <2>6, <2>7, <2>8
<1>23. Owned(DOMAIN h, E2)
  BY <1>20, <1>22, SameOwned
<1>24. \A a \in DOMAIN heap : a \in DOMAIN h /\ Alike(heap[a], h[a])
  <2>1. Alike(heap[o], b)
    BY <1>7, <1>11, KindsApart DEF Alike
  <2>2. Alike(heap[e], eb)
    BY <1>4, <1>14, KindsApart DEF Alike
  <2>3. /\ kt \in DOMAIN heap => Alike(heap[kt], h[kt])
        /\ vt \in DOMAIN heap => Alike(heap[vt], h[vt])
    BY <1>16, KindsApart DEF Alike
  <2> QED BY <1>15, <2>1, <2>2, <2>3, AlikeSame
<1>25. Kept(heap, h, e, {}) /\ h[e].key = NULL
  <2>1. \A x \in {o, kt, vt} : x \in DOMAIN heap => heap[x] \notin Element
    BY <1>7, <1>16, KindsApart
  <2>2. \A x \in DOMAIN heap : heap[x] \in Element /\ x # e => h[x] = heap[x]
    BY <1>15, <2>1
  <2>3. h[e].value = heap[e].value /\ h[e].next = heap[e].next /\ h[e].key = NULL
    BY <1>14, <1>15
  <2> QED BY <1>24, <2>2, <2>3 DEF Kept
<1>26. Fits_(h, o, 2, kt) /\ Fits_(h, o, 3, vt)
  <2>1. h[o] \in Val /\ h[o] \notin Element /\ o # NULL /\ h[o].len = n
    BY <1>1, <1>7, <1>11, <1>15, KindsApart
  <2> QED BY <1>16, <2>1 DEF Fits_
<1>27. ASSUME NEW a, NEW k, NEW q, <<a, k, q>> \in E2
       PROVE  \/ /\ <<a, k, q>> \in E
                 /\ a # NULL /\ heap[a] \in Val /\ k # 1 =>
                       h[a].len = heap[a].len /\ Len(h[q].cells) = Len(heap[q].cells)
              \/ Fits_(h, a, k, q)
  <2>1. CASE a \in {kt, vt}
    <3>1. a # NULL /\ h[a] \notin Val /\ h[a] \notin Element
      BY <1>16, <2>1, KindsApart
    <3> QED BY <3>1 DEF Fits_
  <2>2. CASE (a = o /\ k = 2 /\ q = kt) \/ (a = o /\ k = 3 /\ q = vt)
    BY <1>26, <2>2
  <2>3. CASE a \notin {kt, vt} /\ ~((a = o /\ k = 2 /\ q = kt) \/ (a = o /\ k = 3 /\ q = vt))
    <3>1. <<a, k, q>> \in E /\ a \in DOMAIN heap \cup {NULL} /\ q \in DOMAIN heap /\ Fits_(heap, a, k, q)
      BY <1>3, <1>21, <1>22, <1>27, <2>3
    <3> SUFFICES ASSUME a # NULL, heap[a] \in Val, k # 1
                 PROVE  h[a].len = heap[a].len /\ Len(h[q].cells) = Len(heap[q].cells)
      BY <3>1
    <3>2. heap[q] \in Table_
      BY <3>1 DEF Fits_
    <3>3. q # o /\ q # e /\ a # e
      BY <1>4, <1>7, <3>2, KindsApart
    <3>4. q # kt /\ q # vt
      BY <1>1, <1>18, <2>3, <3>1 DEF Owned
    <3>5. a # o
      <4> SUFFICES ASSUME a = o PROVE FALSE
        OBVIOUS
      <4>1. Points(heap[o], k, q) /\ q # NULL
        BY <1>1, <1>2, <3>1 DEF Edge
      <4>2. (k = 2 /\ q = heap[o].keys) \/ (k = 3 /\ q = heap[o].values)
        BY <1>7, <3>1, <4>1, PointsVal
      <4> QED BY <1>16, <3>4, <4>1, <4>2
    <3> QED BY <1>15, <2>3, <3>1, <3>3, <3>4, <3>5
  <2> QED BY <2>1, <2>2, <2>3
<1>28. ASSUME NEW a, NEW j, NEW x, NEW k, NEW q, <<a, j, x>> \in E2, <<x, k, q>> \in E2,
              a # NULL, h[a] \in Val, j \in {2, 3}
       PROVE  \/ <<a, j, x>> \in E /\ <<x, k, q>> \in E
              \/ h[q] \in Member_(j)
  <2>1. a \notin {kt, vt} /\ x # NULL
    BY <1>1, <1>15, <1>16, <1>23, <1>28, KindsApart DEF Owned
  <2>2. <<o, 2, kt>> \in E2 /\ <<o, 3, vt>> \in E2
    BY <1>21, <1>22
  <2>3. CASE x = kt
    <3>1. a = o /\ j = 2
      BY <1>23, <1>28, <2>2, <2>3 DEF Owned
    <3>2. CASE <<kt, k, q>> \in E
      BY <1>3, <1>16, <1>18, <2>1, <2>3, <3>1, <3>2
    <3>3. CASE <<kt, k, q>> \notin E
      <4>1. q = key
        BY <1>16, <1>21, <1>22, <1>28, <2>3, <3>3
      <4>2. h[q] \in Text
        BY <1>6, <1>24, <4>1 DEF Alike
      <4> QED BY <3>1, <4>2 DEF Member_
    <3> QED BY <3>2, <3>3
  <2>4. CASE x = vt
    <3>1. a = o /\ j = 3
      BY <1>23, <1>28, <2>2, <2>4 DEF Owned
    <3>2. CASE <<vt, k, q>> \in E
      BY <1>3, <1>16, <1>18, <2>1, <2>4, <3>1, <3>2
    <3>3. CASE <<vt, k, q>> \notin E
      <4>1. q = v
        BY <1>16, <1>21, <1>22, <1>28, <2>4, <3>3
      <4>2. h[q] \in Val
        BY <1>8, <1>24, <4>1 DEF Alike
      <4> QED BY <3>1, <4>2 DEF Member_
    <3> QED BY <3>2, <3>3
  <2>5. CASE x \notin {kt, vt}
    <3>1. <<a, j, x>> \in E
      BY <1>21, <1>22, <1>28, <2>1, <2>5
    <3>2. x # o
      <4>1. a \in DOMAIN heap /\ heap[a] \in Val /\ Fits_(heap, a, j, x)
        BY <1>3, <1>24, <1>28, <3>1 DEF Alike
      <4> QED BY <1>7, <1>28, <4>1, KindsApart DEF Fits_
    <3> QED BY <1>21, <1>22, <1>28, <2>5, <3>1, <3>2
  <2> QED BY <2>3, <2>4, <2>5
<1>29. \A a \in DOMAIN h :
          \/ a \in DOMAIN heap /\ h[a] = heap[a]
          \/ /\ h[a] \in Val => ValShape(h[a])
             /\ h[a] \in Element => h[a].value # NULL
  <2>1. ValShape(b) /\ b \notin Element
    BY <1>9, <1>11, <1>16, KindsApart, SMTT(40) DEF ValShape, Containers, n
  <2>2. \A a \in {kt, vt} : h[a] \notin Val /\ h[a] \notin Element
    BY <1>16, KindsApart
  <2>3. eb \notin Val /\ eb.value # NULL
    BY <1>1, <1>7, <1>14
  <2> QED BY <1>15, <2>1, <2>2, <2>3
<1>30. ShapeChange(heap, held, h, held2)
  BY <1>15, <1>23, <1>24, <1>27, <1>28, <1>29, Zenon DEF E, E2, ShapeChange
<1>31. Full(heap) => Full(h)
  <2>1. \A x \in DOMAIN h : h[x] \in Table_ => x \in {kt, vt} \/ (x \in DOMAIN heap /\ h[x] = heap[x])
    BY <1>11, <1>14, <1>15, KindsApart
  <2> QED BY <1>16, <1>17, <2>1 DEF Full
<1> QED BY <1>25, <1>30, <1>31, ShapeStep
\* The text of a string becomes the key of the top of the stack.
TakesKey(heap, held, e, v, text, h, held2) ==
    /\ Shape(heap, held) /\ e = held[1] /\ e # NULL /\ heap[e].key = NULL
    /\ v = held[5] /\ v # NULL /\ heap[v].type \notin Containers
    /\ text = heap[v].text /\ text # NULL
    /\ h = Free(Store(heap, e, [heap[e] EXCEPT !.key = text]), v)
    /\ held2 \in Five /\ held2[5] = NULL /\ \A k \in 1..4 : held2[k] = held[k]

LEMMA TakeKeyShape ==
  ASSUME NEW heap, NEW held, NEW e, NEW v, NEW text, NEW h, NEW held2,
         TakesKey(heap, held, e, v, text, h, held2)
  PROVE  /\ Shape(h, held2) /\ Kept(heap, h, e, {v}) /\ h[e].key = text
         /\ Full(heap) => Full(h)
<1> SUFFICES ASSUME Shape(heap, held), e = held[1], e # NULL, heap[e].key = NULL,
                    v = held[5], v # NULL, heap[v].type \notin Containers,
                    text = heap[v].text, text # NULL,
                    h = Free(Store(heap, e, [heap[e] EXCEPT !.key = text]), v),
                    held2 \in Five, held2[5] = NULL, \A k \in 1..4 : held2[k] = held[k]
             PROVE  /\ Shape(h, held2) /\ Kept(heap, h, e, {v}) /\ h[e].key = text
                    /\ Full(heap) => Full(h)
  BY DEF TakesKey
<1> DEFINE E == Edges(heap, held)
           E2 == Edges(h, held2)
           eb == [heap[e] EXCEPT !.key = text]
           X1 == (E \ Pointer(v, 1, text)) \cup Pointer(e, 1, text)
           X == X1 \ Pointer(NULL, 5, v)
<1>1. /\ HeapOK(heap) /\ held \in Five /\ Owned(DOMAIN heap, E) /\ NULL \notin DOMAIN heap
  BY DEF Shape, HeapOK
<1>2. ASSUME NEW a, NEW k, NEW q
      PROVE  <<a, k, q>> \in E <=> Edge(heap, held, a, k, q)
  BY <1>1, EdgeIs
<1>3. \A a, k, q : <<a, k, q>> \in E =>
         a \in DOMAIN heap \cup {NULL} /\ q \in DOMAIN heap /\ Fits_(heap, a, k, q)
  BY <1>1 DEF Owned, Shape
<1> HIDE DEF E
<1>4. e \in DOMAIN heap /\ heap[e] \in Element /\ heap[e] \notin Val /\ heap[e] \notin Table_
  <2>1. <<NULL, 1, e>> \in E
    BY <1>2 DEF Edge
  <2>2. e \in DOMAIN heap /\ Fits_(heap, NULL, 1, e)
    BY <1>3, <2>1
  <2>3. heap[e] \in Element
    BY <2>2 DEF Fits_
  <2> QED BY <2>2, <2>3, KindsApart
<1>5. <<NULL, 5, v>> \in E /\ v \in DOMAIN heap /\ heap[v] \in Val /\ v # e
  <2>1. <<NULL, 5, v>> \in E
    BY <1>2 DEF Edge
  <2>2. v \in DOMAIN heap /\ Fits_(heap, NULL, 5, v)
    BY <1>3, <2>1
  <2>3. heap[v] \in Val
    BY <2>2 DEF Fits_
  <2> QED BY <1>4, <2>1, <2>2, <2>3
<1>6. heap[v].keys = NULL /\ heap[v].values = NULL
  BY <1>5 DEF Shape, ValShape
<1>7. ASSUME NEW k, NEW q
      PROVE  <<v, k, q>> \in E <=> k = 1 /\ q = text
  <2>1. Points(heap[v], k, q) <=>
          (k = 1 /\ q = heap[v].text) \/ (k = 2 /\ q = heap[v].keys) \/ (k = 3 /\ q = heap[v].values)
    BY <1>5, PointsVal
  <2> QED BY <1>1, <1>2, <1>5, <1>6, <2>1 DEF Edge
<1>8. text \in DOMAIN heap /\ heap[text] \in Text /\ text # v /\ text # e /\ text \in Nat
  <2>1. text \in DOMAIN heap /\ Fits_(heap, v, 1, text)
    BY <1>3, <1>7
  <2>2. heap[text] \in Text
    BY <1>1, <1>5, <2>1 DEF Fits_
  <2> QED BY <1>1, <1>4, <1>5, <2>1, <2>2, KindsApart DEF HeapOK
<1>9. /\ eb \in Element /\ eb.key = text /\ eb.value = heap[e].value /\ eb.next = heap[e].next
      /\ eb \notin Val /\ eb \notin Table_
  <2>1. eb \in Element /\ eb.key = text /\ eb.value = heap[e].value /\ eb.next = heap[e].next
    BY <1>4, <1>8 DEF Element
  <2> QED BY <2>1, KindsApart
<1> HIDE DEF eb
<1>10. /\ HeapOK(h) /\ DOMAIN h = DOMAIN heap \ {v} /\ h[e] = eb
       /\ \A x \in DOMAIN h : x # e => h[x] = heap[x]
  <2> DEFINE h1 == Store(heap, e, eb)
  <2>1. Stored(heap, e, eb, h1)
    <3>1. eb \in Blocks /\ e \in Nat \ {NULL}
      BY <1>1, <1>4, <1>9 DEF Blocks, HeapOK
    <3> QED BY <1>1, <3>1, StoreIs
  <2>2. h = Free(h1, v)
    BY DEF eb
  <2> HIDE DEF h1
  <2>3. HeapOK(h1) /\ DOMAIN h1 = DOMAIN heap
    BY <1>4, <2>1 DEF Stored
  <2>4. Freed(h1, v, h)
    BY <1>5, <2>2, <2>3, FreeIs
  <2>5. HeapOK(h) /\ DOMAIN h = DOMAIN heap \ {v} /\ \A x \in DOMAIN h : h[x] = h1[x]
    BY <2>3, <2>4 DEF Freed
  <2> QED BY <1>4, <1>5, <2>1, <2>5 DEF Stored
<1> HIDE DEF E2
<1>11. ASSUME NEW a, NEW k, NEW q
       PROVE  <<a, k, q>> \in E2 <=> Edge(h, held2, a, k, q)
  BY <1>10, EdgeIs DEF E2
<1>12. Owned(DOMAIN heap, X1)
  <2>1. <<v, 1, text>> \in E
    BY <1>7
  <2>2. Clear(DOMAIN heap, E, text, e)
    <3>1. <<NULL, 1, e>> \in E
      BY <1>2, <1>4 DEF Edge
    <3> QED BY <1>8, <3>1, ClearTop
  <2> QED BY <1>1, <1>4, <2>1, <2>2, OwnedMove
<1>13. ASSUME NEW a, NEW k, NEW q
       PROVE  <<a, k, q>> \in X1 <=> \/ <<a, k, q>> \in E /\ a # v
                                     \/ a = e /\ k = 1 /\ q = text
  BY <1>5, <1>7 DEF Pointer
<1> HIDE DEF X1
<1>14. Owned(DOMAIN h, X)
  <2>1. <<NULL, 5, v>> \in X1 /\ \A j, q : <<v, j, q>> \notin X1
    BY <1>1, <1>5, <1>13
  <2>2. Owned(DOMAIN heap \ {v}, X)
    BY <1>1, <1>12, <2>1, OwnedDrop
  <2> QED BY <1>10, <2>2
<1>15. ASSUME NEW a, NEW k, NEW q
       PROVE  <<a, k, q>> \in X <=> \/ <<a, k, q>> \in E /\ a # v /\ ~(a = NULL /\ k = 5)
                                    \/ a = e /\ k = 1 /\ q = text
  <2>1. <<NULL, 5, q>> \in E => q = v
    BY <1>1, <1>2 DEF Edge
  <2> QED BY <1>1, <1>4, <1>13, <2>1 DEF Pointer
<1> HIDE DEF X
<1>16. ASSUME NEW a, NEW k, NEW q
       PROVE  <<a, k, q>> \in E2 <=> <<a, k, q>> \in X
  <2>1. <<a, k, q>> \in E <=> Edge(heap, held, a, k, q)
    BY <1>2
  <2>2. <<a, k, q>> \in E2 <=> Edge(h, held2, a, k, q)
    BY <1>11
  <2>3. CASE a = NULL
    <3>1. Edge(heap, held, a, k, q) <=> q # NULL /\ k \in 1..5 /\ q = held[k]
      BY <1>1, <2>3 DEF Edge
    <3>2. Edge(h, held2, a, k, q) <=> q # NULL /\ k \in 1..5 /\ q = held2[k]
      BY <1>1, <1>10, <2>3 DEF Edge
    <3> QED BY <1>1, <1>4, <1>5, <1>15, <2>1, <2>2, <2>3, <3>1, <3>2
  <2>4. CASE a = e
    <3>1. Points(eb, k, q) <=> (k = 1 /\ q = text) \/ (k = 2 /\ q = heap[e].value) \/ (k = 3 /\ q = heap[e].next)
      <4>1. Points(eb, k, q) <=> (k = 1 /\ q = eb.key) \/ (k = 2 /\ q = eb.value) \/ (k = 3 /\ q = eb.next)
        BY <1>9, PointsElement
      <4> QED BY <1>9, <4>1
    <3>2. Points(heap[e], k, q) <=>
            (k = 1 /\ q = heap[e].key) \/ (k = 2 /\ q = heap[e].value) \/ (k = 3 /\ q = heap[e].next)
      BY <1>4, PointsElement
    <3>3. Edge(h, held2, a, k, q) <=> \/ k = 1 /\ q = text
                                      \/ k = 2 /\ q = heap[e].value /\ q # NULL
                                      \/ k = 3 /\ q = heap[e].next /\ q # NULL
      BY <1>1, <1>4, <1>5, <1>8, <1>10, <2>4, <3>1 DEF Edge
    <3>4. Edge(heap, held, a, k, q) <=> \/ k = 2 /\ q = heap[e].value /\ q # NULL
                                        \/ k = 3 /\ q = heap[e].next /\ q # NULL
      BY <1>1, <1>4, <2>4, <3>2 DEF Edge
    <3> QED BY <1>1, <1>4, <1>5, <1>15, <2>1, <2>2, <2>4, <3>3, <3>4
  <2>5. CASE a = v
    BY <1>5, <1>10, <1>15, <2>2, <2>5 DEF Edge, HeapOK
  <2>6. CASE a \notin {NULL, e, v}
    <3>1. Edge(h, held2, a, k, q) <=> Edge(heap, held, a, k, q)
      BY <1>10, <2>6 DEF Edge
    <3> QED BY <1>15, <2>1, <2>2, <2>6, <3>1
  <2> QED BY <2>3, <2>4, <2>5, <2>6
<1>17. Owned(DOMAIN h, E2)
  BY <1>14, <1>16, SameOwned
<1>18. \A a \in DOMAIN h : a \in DOMAIN heap /\ Alike(heap[a], h[a])
  <2>1. Alike(heap[e], eb)
    BY <1>4, <1>9, KindsApart DEF Alike
  <2> QED BY <1>10, <2>1, AlikeSame
<1>19. Kept(heap, h, e, {v}) /\ h[e].key = text
  BY <1>9, <1>10, <1>18 DEF Kept
<1>20. \A a, k, q : <<a, k, q>> \in E2 => a \in DOMAIN h \cup {NULL} /\ q \in DOMAIN h
  BY <1>17 DEF Owned
<1>21. ASSUME NEW a, NEW k, NEW q, <<a, k, q>> \in E2
       PROVE  \/ /\ <<a, k, q>> \in E
                 /\ a # NULL /\ heap[a] \in Val /\ k # 1 =>
                       h[a].len = heap[a].len /\ Len(h[q].cells) = Len(heap[q].cells)
              \/ Fits_(h, a, k, q)
  <2>1. CASE a = e /\ k = 1 /\ q = text
    <3>1. h[text] \in Text
      BY <1>8, <1>10
    <3> QED BY <1>1, <1>4, <1>9, <1>10, <2>1, <3>1 DEF Fits_
  <2>2. CASE ~(a = e /\ k = 1 /\ q = text)
    <3>1. <<a, k, q>> \in E
      BY <1>15, <1>16, <1>21, <2>2
    <3> SUFFICES ASSUME a # NULL, heap[a] \in Val, k # 1
                 PROVE  h[a].len = heap[a].len /\ Len(h[q].cells) = Len(heap[q].cells)
      BY <3>1
    <3>2. heap[q] \in Table_
      BY <1>3, <3>1 DEF Fits_
    <3>3. a # e /\ q # e
      BY <1>4, <3>2
    <3> QED BY <1>10, <1>20, <1>21, <3>3
  <2> QED BY <2>1, <2>2
<1>22. ASSUME NEW a, NEW j, NEW x, NEW k, NEW q, <<a, j, x>> \in E2, <<x, k, q>> \in E2,
              a # NULL, h[a] \in Val, j \in {2, 3}
       PROVE  <<a, j, x>> \in E /\ <<x, k, q>> \in E
  <2>1. a # e /\ x # NULL
    BY <1>1, <1>9, <1>10, <1>20, <1>22
  <2>2. <<a, j, x>> \in E
    BY <1>15, <1>16, <1>22, <2>1
  <2>3. x # e
    <3>1. heap[a] \in Val /\ Fits_(heap, a, j, x)
      BY <1>3, <1>10, <1>20, <1>22, <2>1, <2>2
    <3> QED BY <1>4, <1>22, <3>1 DEF Fits_
  <2> QED BY <1>15, <1>16, <1>22, <2>2, <2>3
<1>23. \A a \in DOMAIN h :
          \/ a \in DOMAIN heap /\ h[a] = heap[a]
          \/ /\ h[a] \in Val => ValShape(h[a])
             /\ h[a] \in Element => h[a].value # NULL
  <2>1. eb \notin Val /\ eb.value # NULL
    BY <1>4, <1>9 DEF Shape
  <2>2. \A a \in DOMAIN h : a # e => a \in DOMAIN heap /\ h[a] = heap[a]
    BY <1>10, <1>18
  <2> QED BY <2>1, <2>2, <1>10, <1>18
<1>24. ShapeChange(heap, held, h, held2)
  BY <1>10, <1>17, <1>18, <1>21, <1>22, <1>23, SMTT(40) DEF E, E2, ShapeChange
<1>25. Full(heap) => Full(h)
  BY <1>9, <1>10, <1>18, FullKept
<1> QED BY <1>19, <1>24, <1>25, ShapeStep
-----------------------------------------------------------------------------
(* Freeing. *)

Cleared(heap, t, n) == [heap EXCEPT ![t].cells[n] = NULL]

IsCleared(heap, t, n, h) ==
    /\ HeapOK(h) /\ DOMAIN h = DOMAIN heap
    /\ h[t] \in Table_ /\ Len(h[t].cells) = Len(heap[t].cells)
    /\ \A k, q : Points(h[t], k, q) <=> (k # n /\ Points(heap[t], k, q)) \/ (k = n /\ q = NULL)
    /\ \A x \in DOMAIN heap : x # t => h[x] = heap[x]

LEMMA ClearIs ==
  ASSUME NEW heap, HeapOK(heap), NEW t, t \in DOMAIN heap, heap[t] \in Table_,
         NEW n, n \in 1..Len(heap[t].cells), NEW h, h = Cleared(heap, t, n)
  PROVE  IsCleared(heap, t, n, h)
<1> DEFINE s == heap[t].cells
           s2 == [s EXCEPT ![n] = NULL]
           b == [heap[t] EXCEPT !.cells = s2]
<1>1. s \in Seq(Nat) /\ NULL \in Nat
  BY DEF Table_, NULL
<1>2. /\ s2 \in Seq(Nat) /\ Len(s2) = Len(s)
      /\ \A k \in 1..Len(s) : s2[k] = IF k = n THEN NULL ELSE s[k]
  BY <1>1
<1>3. b \in Table_ /\ b.cells = s2
  BY <1>2, CellsIs, Zenon
<1>4. h = [heap EXCEPT ![t] = b]
  BY DEF Cleared
<1> HIDE DEF b, s, s2
<1>5. Stored(heap, t, b, h)
  <2>1. b \in Blocks
    BY <1>3 DEF Blocks
  <2>2. Stored(heap, t, b, [heap EXCEPT ![t] = b])
    BY <2>1, EditIs
  <2> QED BY <1>4, <2>2
<1>6. HeapOK(h) /\ DOMAIN h = DOMAIN heap /\ h[t] = b /\ \A x \in DOMAIN heap : x # t => h[x] = heap[x]
  BY <1>5 DEF Stored
<1>7. ASSUME NEW k, NEW q
      PROVE  Points(b, k, q) <=> (k # n /\ Points(heap[t], k, q)) \/ (k = n /\ q = NULL)
  <2>1. Points(b, k, q) <=> k \in 1..Len(s) /\ q = s2[k]
    BY <1>2, <1>3, PointsTable
  <2>2. Points(heap[t], k, q) <=> k \in 1..Len(s) /\ q = s[k]
    BY PointsTable DEF s
  <2>3. n \in 1..Len(s)
    BY DEF s
  <2> QED BY <1>2, <2>1, <2>2, <2>3
<1>8. Len(b.cells) = Len(heap[t].cells)
  BY <1>2, <1>3 DEF s
<1> QED BY <1>3, <1>6, <1>7, <1>8 DEF IsCleared

\* A key is freed.
DropsKey(heap, held, t, n, key, h) ==
    /\ Shape(heap, held) /\ t \in DOMAIN heap /\ heap[t] \in Table_
    /\ n \in 1..Len(heap[t].cells)
    /\ key # NULL /\ Points(heap[t], n, key) /\ heap[key] \in Text
    /\ h = Cleared(Free(heap, key), t, n)

KeyDropped(heap, held, t, n, key, h) ==
    /\ Shape(h, held) /\ DOMAIN h = DOMAIN heap \ {key} /\ key # t
    /\ h[t] \in Table_ /\ Len(h[t].cells) = Len(heap[t].cells)
    /\ \A k, q : Points(h[t], k, q) <=> (k # n /\ Points(heap[t], k, q)) \/ (k = n /\ q = NULL)
    /\ \A x \in DOMAIN h : x # t => h[x] = heap[x]

LEMMA DropKeyShape ==
  ASSUME NEW heap, NEW held, NEW t, NEW n, NEW key, NEW h, DropsKey(heap, held, t, n, key, h)
  PROVE  KeyDropped(heap, held, t, n, key, h)
<1> SUFFICES ASSUME Shape(heap, held), t \in DOMAIN heap, heap[t] \in Table_,
                    n \in 1..Len(heap[t].cells),
                    key # NULL, Points(heap[t], n, key), heap[key] \in Text,
                    h = Cleared(Free(heap, key), t, n)
             PROVE  /\ Shape(h, held) /\ DOMAIN h = DOMAIN heap \ {key} /\ key # t
                    /\ h[t] \in Table_ /\ Len(h[t].cells) = Len(heap[t].cells)
                    /\ \A k, q : Points(h[t], k, q) <=> (k # n /\ Points(heap[t], k, q)) \/ (k = n /\ q = NULL)
                    /\ \A x \in DOMAIN h : x # t => h[x] = heap[x]
  BY DEF DropsKey, KeyDropped
<1> DEFINE E == Edges(heap, held)
           E2 == Edges(h, held)
           X == E \ Pointer(t, n, key)
<1>1. HeapOK(heap) /\ held \in Five /\ Owned(DOMAIN heap, E) /\ NULL \notin DOMAIN heap
  BY DEF Shape, HeapOK
<1>2. ASSUME NEW a, NEW k, NEW q
      PROVE  <<a, k, q>> \in E <=> Edge(heap, held, a, k, q)
  BY <1>1, EdgeIs
<1>3. \A a, k, q : <<a, k, q>> \in E =>
         a \in DOMAIN heap \cup {NULL} /\ q \in DOMAIN heap /\ Fits_(heap, a, k, q)
  BY <1>1 DEF Owned, Shape
<1> HIDE DEF E
<1>4. <<t, n, key>> \in E /\ key \in DOMAIN heap /\ key # t
  <2>1. <<t, n, key>> \in E
    BY <1>1, <1>2 DEF Edge
  <2> QED BY <1>3, <2>1, KindsApart
<1>5. /\ HeapOK(h) /\ DOMAIN h = DOMAIN heap \ {key}
      /\ h[t] \in Table_ /\ Len(h[t].cells) = Len(heap[t].cells)
      /\ \A k, q : Points(h[t], k, q) <=> (k # n /\ Points(heap[t], k, q)) \/ (k = n /\ q = NULL)
      /\ \A x \in DOMAIN h : x # t => h[x] = heap[x]
  <2> DEFINE h1 == Free(heap, key)
  <2>1. Freed(heap, key, h1)
    BY <1>1, <1>4, FreeIs
  <2> HIDE DEF h1
  <2>2. HeapOK(h1) /\ DOMAIN h1 = DOMAIN heap \ {key} /\ h1[t] = heap[t] /\ t \in DOMAIN h1
    BY <1>4, <2>1 DEF Freed
  <2>3. h = Cleared(h1, t, n) /\ h1[t] \in Table_ /\ n \in 1..Len(h1[t].cells)
    BY <2>2 DEF h1
  <2>4. /\ HeapOK(h) /\ DOMAIN h = DOMAIN h1
        /\ h[t] \in Table_ /\ Len(h[t].cells) = Len(h1[t].cells)
        /\ \A k, q : Points(h[t], k, q) <=> (k # n /\ Points(h1[t], k, q)) \/ (k = n /\ q = NULL)
        /\ \A x \in DOMAIN h1 : x # t => h[x] = h1[x]
    <3>1. IsCleared(h1, t, n, h)
      BY <2>2, <2>3, ClearIs
    <3> QED BY <3>1 DEF IsCleared
  <2>5. \A x \in DOMAIN h1 : h1[x] = heap[x]
    BY <2>1, <2>2 DEF Freed
  <2> QED BY <2>2, <2>4, <2>5
<1> HIDE DEF E2
<1>6. ASSUME NEW a, NEW k, NEW q
      PROVE  <<a, k, q>> \in E2 <=> Edge(h, held, a, k, q)
  BY <1>1, <1>5, EdgeIs DEF E2
<1>7. \A j, q : <<key, j, q>> \notin E
  BY <1>1, <1>2, <1>4, PointsText DEF Edge
<1>8. Owned(DOMAIN h, X)
  <2>1. Owned(DOMAIN heap \ {key}, X)
    BY <1>1, <1>4, <1>7, OwnedDrop
  <2> QED BY <1>5, <2>1
<1>9. ASSUME NEW a, NEW k, NEW q
      PROVE  <<a, k, q>> \in X <=> <<a, k, q>> \in E /\ ~(a = t /\ k = n)
  <2>1. <<t, n, q>> \in E => q = key
    <3>1. <<t, n, q>> \in E => Points(heap[t], n, q)
      BY <1>1, <1>2 DEF Edge
    <3> QED BY <3>1, PointsTable
  <2> QED BY <2>1 DEF Pointer
<1> HIDE DEF X
<1>10. ASSUME NEW a, NEW k, NEW q
       PROVE  <<a, k, q>> \in E2 <=> <<a, k, q>> \in X
  <2>1. <<a, k, q>> \in E <=> Edge(heap, held, a, k, q)
    BY <1>2
  <2>2. <<a, k, q>> \in E2 <=> Edge(h, held, a, k, q)
    BY <1>6
  <2>3. CASE a = NULL
    BY <1>1, <1>5, <1>9, <2>1, <2>2, <2>3 DEF Edge
  <2>4. CASE a = t
    <3>1. Edge(h, held, a, k, q) <=> q # NULL /\ Points(h[t], k, q)
      BY <1>1, <1>4, <1>5, <2>4 DEF Edge
    <3>2. Edge(heap, held, a, k, q) <=> q # NULL /\ Points(heap[t], k, q)
      BY <1>1, <2>4 DEF Edge
    <3>3. Points(h[t], k, q) <=> (k # n /\ Points(heap[t], k, q)) \/ (k = n /\ q = NULL)
      BY <1>5
    <3> QED BY <1>9, <2>1, <2>2, <2>4, <3>1, <3>2, <3>3
  <2>5. CASE a = key
    BY <1>1, <1>4, <1>5, <1>7, <1>9, <2>2, <2>5 DEF Edge
  <2>6. CASE a \notin {NULL, t, key}
    <3>1. Edge(h, held, a, k, q) <=> Edge(heap, held, a, k, q)
      BY <1>5, <2>6 DEF Edge
    <3> QED BY <1>9, <2>1, <2>2, <2>6, <3>1
  <2> QED BY <2>3, <2>4, <2>5, <2>6
<1>11. Owned(DOMAIN h, E2)
  BY <1>8, <1>10, SameOwned
<1>12. \A a \in DOMAIN h : a \in DOMAIN heap /\ Alike(heap[a], h[a])
  <2>1. Alike(heap[t], h[t])
    BY <1>5, KindsApart DEF Alike
  <2> QED BY <1>5, <2>1, AlikeSame
<1>13. \A a, k, q : <<a, k, q>> \in E2 =>
         <<a, k, q>> \in E /\ a \in DOMAIN h \cup {NULL} /\ q \in DOMAIN h
  BY <1>9, <1>10, <1>11 DEF Owned
<1>14. ASSUME NEW a, NEW k, NEW q, <<a, k, q>> \in E2
       PROVE  \/ /\ <<a, k, q>> \in E
                 /\ a # NULL /\ heap[a] \in Val /\ k # 1 =>
                       h[a].len = heap[a].len /\ Len(h[q].cells) = Len(heap[q].cells)
              \/ Fits_(h, a, k, q)
  <2>1. heap[a] \in Val => a # t
    BY KindsApart
  <2>2. Len(h[q].cells) = Len(heap[q].cells)
    BY <1>5, <1>13, <1>14
  <2> QED BY <1>5, <1>13, <1>14, <2>1, <2>2
<1>15. \A a \in DOMAIN h :
          \/ a \in DOMAIN heap /\ h[a] = heap[a]
          \/ /\ h[a] \in Val => ValShape(h[a])
             /\ h[a] \in Element => h[a].value # NULL
  BY <1>5, <1>12, KindsApart
<1>16. ShapeChange(heap, held, h, held)
  BY <1>1, <1>5, <1>11, <1>12, <1>13, <1>14, <1>15 DEF E, E2, ShapeChange
<1> QED BY <1>4, <1>5, <1>16, ShapeStep
\* A value is freed behind its loop: what is left, and its pointers.
Released(heap, v) ==
    Free(FreeIf(FreeIf(FreeIf(heap, heap[v].text), heap[v].keys), heap[v].values), v)

Empty(heap, t) == t # NULL => \A j, q : q # NULL => ~Points(heap[t], j, q)

LEMMA FreeIfIs ==
  ASSUME NEW heap, HeapOK(heap), NEW a, a = NULL \/ a \in DOMAIN heap
  PROVE  /\ HeapOK(FreeIf(heap, a)) /\ DOMAIN FreeIf(heap, a) = DOMAIN heap \ {a}
         /\ \A x \in DOMAIN FreeIf(heap, a) : FreeIf(heap, a)[x] = heap[x]
<1>1. CASE a = NULL
  BY <1>1 DEF FreeIf, HeapOK
<1>2. CASE a # NULL
  <2>1. Freed(heap, a, Free(heap, a))
    BY <1>2, FreeIs
  <2>2. FreeIf(heap, a) = Free(heap, a)
    BY <1>2 DEF FreeIf
  <2> QED BY <2>1, <2>2 DEF Freed
<1> QED BY <1>1, <1>2

Away(E, v) == {e \in E : e[1] # v /\ e[3] # v}

IsReleased(heap, held, v, left, X) ==
    /\ HeapOK(left) /\ DOMAIN left = DOMAIN heap \ {v, heap[v].text, heap[v].keys, heap[v].values}
    /\ \A x \in DOMAIN left : left[x] = heap[x]
    /\ \A a, k, q : <<a, k, q>> \in X <=> <<a, k, q>> \in Edges(heap, held) /\ a # v /\ q # v
    /\ Owned(DOMAIN left, X)

LEMMA ReleasedIs ==
  ASSUME NEW heap, NEW held, Shape(heap, held), NEW v, v \in DOMAIN heap, heap[v] \in Val,
         Empty(heap, heap[v].keys), Empty(heap, heap[v].values)
  PROVE  IsReleased(heap, held, v, Released(heap, v), Away(Edges(heap, held), v))
<1> DEFINE left == Released(heap, v)
           X == Away(Edges(heap, held), v)
           E == Edges(heap, held)
           s == heap[v].text
           ks == heap[v].keys
           vs == heap[v].values
<1>1. HeapOK(heap) /\ held \in Five /\ Owned(DOMAIN heap, E) /\ NULL \notin DOMAIN heap
  BY DEF Shape, HeapOK
<1>2. ASSUME NEW a, NEW k, NEW q
      PROVE  <<a, k, q>> \in E <=> Edge(heap, held, a, k, q)
  BY <1>1, EdgeIs
<1>3. \A a, k, q : <<a, k, q>> \in E =>
         a \in DOMAIN heap \cup {NULL} /\ q \in DOMAIN heap /\ Fits_(heap, a, k, q)
  BY <1>1 DEF Owned, Shape
<1>4. \A a, k, q : <<a, k, q>> \in X <=> <<a, k, q>> \in E /\ a # v /\ q # v
  BY Zenon DEF Away
<1> HIDE DEF E, X, left
<1>5. ASSUME NEW k, NEW q
      PROVE  <<v, k, q>> \in E <=> q # NULL /\ ((k = 1 /\ q = s) \/ (k = 2 /\ q = ks) \/ (k = 3 /\ q = vs))
  <2>1. Points(heap[v], k, q) <=> (k = 1 /\ q = s) \/ (k = 2 /\ q = ks) \/ (k = 3 /\ q = vs)
    BY PointsVal
  <2> QED BY <1>1, <1>2, <2>1 DEF Edge
<1> HIDE DEF s, ks, vs
<1>6. /\ s # NULL => s \in DOMAIN heap /\ heap[s] \in Text
      /\ ks # NULL => ks \in DOMAIN heap /\ heap[ks] \in Table_
      /\ vs # NULL => vs \in DOMAIN heap /\ heap[vs] \in Table_
  <2>1. ASSUME s # NULL PROVE s \in DOMAIN heap /\ heap[s] \in Text
    <3>1. s \in DOMAIN heap /\ Fits_(heap, v, 1, s)
      BY <1>3, <1>5, <2>1
    <3> QED BY <1>1, <3>1 DEF Fits_
  <2>2. ASSUME ks # NULL PROVE ks \in DOMAIN heap /\ heap[ks] \in Table_
    <3>1. ks \in DOMAIN heap /\ Fits_(heap, v, 2, ks)
      BY <1>3, <1>5, <2>2
    <3> QED BY <1>1, <3>1 DEF Fits_
  <2>3. ASSUME vs # NULL PROVE vs \in DOMAIN heap /\ heap[vs] \in Table_
    <3>1. vs \in DOMAIN heap /\ Fits_(heap, v, 3, vs)
      BY <1>3, <1>5, <2>3
    <3> QED BY <1>1, <3>1 DEF Fits_
  <2> QED BY <2>1, <2>2, <2>3
<1>7. s # v /\ ks # v /\ vs # v /\ (ks = vs => ks = NULL) /\ (s = ks => s = NULL) /\ (s = vs => s = NULL)
  <2>1. ks = vs => ks = NULL
    <3> SUFFICES ASSUME ks = vs, ks # NULL PROVE FALSE
      OBVIOUS
    <3>1. <<v, 2, ks>> \in E /\ <<v, 3, ks>> \in E
      BY <1>5
    <3> QED BY <1>1, <3>1 DEF Owned
  <2> QED BY <1>1, <1>6, <2>1, KindsApart
<1>8. /\ HeapOK(left) /\ DOMAIN left = DOMAIN heap \ {v, s, ks, vs}
      /\ \A x \in DOMAIN left : left[x] = heap[x]
  <2> DEFINE h1 == FreeIf(heap, s)
             h2 == FreeIf(h1, ks)
             h3 == FreeIf(h2, vs)
  <2>1. left = Free(h3, v)
    BY DEF Released, s, ks, vs, left
  <2>2. HeapOK(h1) /\ DOMAIN h1 = DOMAIN heap \ {s} /\ \A x \in DOMAIN h1 : h1[x] = heap[x]
    BY <1>1, <1>6, FreeIfIs
  <2> HIDE DEF h1
  <2>3. HeapOK(h2) /\ DOMAIN h2 = DOMAIN h1 \ {ks} /\ \A x \in DOMAIN h2 : h2[x] = h1[x]
    <3>1. ks = NULL \/ ks \in DOMAIN h1
      BY <1>6, <1>7, <2>2
    <3> QED BY <2>2, <3>1, FreeIfIs
  <2> HIDE DEF h2
  <2>4. HeapOK(h3) /\ DOMAIN h3 = DOMAIN h2 \ {vs} /\ \A x \in DOMAIN h3 : h3[x] = h2[x]
    <3>1. vs = NULL \/ vs \in DOMAIN h2
      BY <1>6, <1>7, <2>2, <2>3
    <3> QED BY <2>3, <3>1, FreeIfIs
  <2> HIDE DEF h3
  <2>5. Freed(h3, v, left)
    <3>1. v \in DOMAIN h3
      BY <1>7, <2>2, <2>3, <2>4
    <3> QED BY <2>1, <2>4, <3>1, FreeIs
  <2> QED BY <2>2, <2>3, <2>4, <2>5 DEF Freed
<1>9. \A x \in {s, ks, vs} : \A j, q : x # NULL => <<x, j, q>> \notin E
  <2>1. \A j, q : s # NULL => <<s, j, q>> \notin E
    BY <1>1, <1>2, <1>6, PointsText DEF Edge
  <2>2. \A j, q : ks # NULL => <<ks, j, q>> \notin E
    BY <1>1, <1>2, <1>6 DEF Edge, Empty, ks
  <2>3. \A j, q : vs # NULL => <<vs, j, q>> \notin E
    BY <1>1, <1>2, <1>6 DEF Edge, Empty, vs
  <2> QED BY <2>1, <2>2, <2>3
<1>10. Owned(DOMAIN left, X)
  <2>1. \A a, k, q : <<a, k, q>> \in X => a \in DOMAIN left \cup {NULL} /\ q \in DOMAIN left
    <3> SUFFICES ASSUME NEW a, NEW k, NEW q, <<a, k, q>> \in X
                 PROVE  a \in DOMAIN left \cup {NULL} /\ q \in DOMAIN left
      OBVIOUS
    <3>1. <<a, k, q>> \in E /\ a # v /\ q # v
      BY <1>4
    <3>2. a \in DOMAIN heap \cup {NULL} /\ q \in DOMAIN heap /\ q # NULL
      BY <1>1, <1>3, <3>1
    <3>3. a # NULL => a \notin {s, ks, vs}
      BY <1>9, <3>1
    <3>4. q # s
      <4> SUFFICES ASSUME q = s PROVE FALSE
        OBVIOUS
      <4>1. <<v, 1, q>> \in E
        BY <1>5, <3>2
      <4> QED BY <1>1, <3>1, <4>1 DEF Owned
    <3>5. q # ks
      <4> SUFFICES ASSUME q = ks PROVE FALSE
        OBVIOUS
      <4>1. <<v, 2, q>> \in E
        BY <1>5, <3>2
      <4> QED BY <1>1, <3>1, <4>1 DEF Owned
    <3>6. q # vs
      <4> SUFFICES ASSUME q = vs PROVE FALSE
        OBVIOUS
      <4>1. <<v, 3, q>> \in E
        BY <1>5, <3>2
      <4> QED BY <1>1, <3>1, <4>1 DEF Owned
    <3> QED BY <1>8, <3>1, <3>2, <3>3, <3>4, <3>5, <3>6
  <2>2. \A a, k, b, j, q : <<a, k, q>> \in X /\ <<b, j, q>> \in X => a = b /\ k = j
    BY <1>1, <1>4 DEF Owned
  <2>3. \A q \in DOMAIN left : \E a, k : <<a, k, q>> \in X
    <3> SUFFICES ASSUME NEW q \in DOMAIN left PROVE \E a, k : <<a, k, q>> \in X
      OBVIOUS
    <3>1. q \in DOMAIN heap /\ q \notin {v, s, ks, vs}
      BY <1>8
    <3>2. PICK a, k : <<a, k, q>> \in E
      BY <1>1, <3>1 DEF Owned
    <3>3. a # v
      BY <1>5, <3>1, <3>2
    <3> QED BY <1>4, <3>1, <3>2, <3>3
  <2>4. ASSUME NEW S, S \subseteq DOMAIN left \ {NULL}, S # {}
        PROVE  \E a, k, q : <<a, k, q>> \in X /\ q \in S /\ a \notin S
    <3>1. S \subseteq DOMAIN heap \ {NULL}
      BY <1>8, <2>4
    <3>2. PICK a, k, q : <<a, k, q>> \in E /\ q \in S /\ a \notin S
      BY <1>1, <2>4, <3>1 DEF Owned, Grounded
    <3>3. q \notin {v, s, ks, vs} /\ q # NULL
      BY <1>8, <2>4, <3>2
    <3>4. a # v
      BY <1>5, <3>2, <3>3
    <3>5. <<a, k, q>> \in X
      BY <1>4, <3>2, <3>3, <3>4
    <3> QED BY <3>2, <3>5
  <2>5. Grounded(DOMAIN left, X)
    BY <2>4 DEF Grounded
  <2> QED BY <2>1, <2>2, <2>3, <2>5 DEF Owned
<1> QED BY <1>4, <1>8, <1>10 DEF E, X, left, s, ks, vs, IsReleased

LEMMA DropShape ==
  ASSUME NEW heap, NEW held, Shape(heap, held), NEW h, NEW held2 \in Five,
         HeapOK(h), DOMAIN h \subseteq DOMAIN heap,
         NEW X, Owned(DOMAIN h, X),
         \A a, k, q : <<a, k, q>> \in X => <<a, k, q>> \in Edges(heap, held),
         \A a, k, q : <<a, k, q>> \in Edges(h, held2) <=> <<a, k, q>> \in X,
         \A x \in DOMAIN h :
            \/ h[x] = heap[x]
            \/ h[x] \in Table_ /\ heap[x] \in Table_ /\ Len(h[x].cells) = Len(heap[x].cells)
  PROVE  Shape(h, held2)
<1> DEFINE E == Edges(heap, held)
           E2 == Edges(h, held2)
<1>1. HeapOK(heap) /\ held \in Five /\ Owned(DOMAIN heap, E) /\ NULL \notin DOMAIN heap
  BY DEF Shape, HeapOK
<1>2. Owned(DOMAIN h, E2)
  BY SameOwned
<1>3. \A a, k, q : <<a, k, q>> \in E2 => <<a, k, q>> \in E
  OBVIOUS
<1> HIDE DEF E, E2
<1>4. \A a \in DOMAIN h : a \in DOMAIN heap /\ Alike(heap[a], h[a])
  <2> SUFFICES ASSUME NEW a \in DOMAIN h PROVE Alike(heap[a], h[a])
    OBVIOUS
  <2>1. CASE h[a] = heap[a]
    BY <2>1, AlikeSame
  <2>2. CASE h[a] \in Table_ /\ heap[a] \in Table_
    BY <2>2, KindsApart DEF Alike
  <2> QED BY <2>1, <2>2
<1>5. ASSUME NEW a, NEW k, NEW q, <<a, k, q>> \in E2
      PROVE  \/ /\ <<a, k, q>> \in E
                /\ a # NULL /\ heap[a] \in Val /\ k # 1 =>
                      h[a].len = heap[a].len /\ Len(h[q].cells) = Len(heap[q].cells)
             \/ Fits_(h, a, k, q)
  <2>1. a \in DOMAIN h \cup {NULL} /\ q \in DOMAIN h
    BY <1>2, <1>5 DEF Owned
  <2>2. a # NULL /\ heap[a] \in Val => h[a] = heap[a]
    BY <2>1, KindsApart
  <2>3. Len(h[q].cells) = Len(heap[q].cells)
    BY <2>1
  <2> QED BY <1>3, <1>5, <2>2, <2>3
<1>6. \A a \in DOMAIN h :
          \/ a \in DOMAIN heap /\ h[a] = heap[a]
          \/ /\ h[a] \in Val => ValShape(h[a])
             /\ h[a] \in Element => h[a].value # NULL
  BY KindsApart
<1>7. ShapeChange(heap, held, h, held2)
  BY <1>1, <1>2, <1>3, <1>4, <1>5, <1>6 DEF E, E2, ShapeChange
<1> QED BY <1>7, ShapeStep

\* The value that yajl_tree_free was called with by the parse or the client.
FreesOuter(heap, held, v, h, held2) ==
    /\ Shape(heap, held) /\ v = held[4] /\ v # NULL
    /\ Empty(heap, heap[v].keys) /\ Empty(heap, heap[v].values)
    /\ h = Released(heap, v)
    /\ held2 \in Five /\ held2[4] = NULL /\ \A k \in 1..5 : k # 4 => held2[k] = held[k]

OuterFreed(heap, v, h, held2) ==
    /\ Shape(h, held2) /\ DOMAIN h \subseteq DOMAIN heap /\ \A x \in DOMAIN h : h[x] = heap[x]
    /\ DOMAIN h = DOMAIN heap \ {v, heap[v].text, heap[v].keys, heap[v].values}

LEMMA FreeOuterShape ==
  ASSUME NEW heap, NEW held, NEW v, NEW h, NEW held2, FreesOuter(heap, held, v, h, held2)
  PROVE  OuterFreed(heap, v, h, held2)
<1> SUFFICES ASSUME Shape(heap, held), v = held[4], v # NULL,
                    Empty(heap, heap[v].keys), Empty(heap, heap[v].values),
                    h = Released(heap, v),
                    held2 \in Five, held2[4] = NULL,
                    \A k \in 1..5 : k # 4 => held2[k] = held[k]
             PROVE  /\ Shape(h, held2) /\ DOMAIN h \subseteq DOMAIN heap
                    /\ \A x \in DOMAIN h : h[x] = heap[x]
                    /\ DOMAIN h = DOMAIN heap \ {v, heap[v].text, heap[v].keys, heap[v].values}
  BY DEF FreesOuter, OuterFreed
<1> DEFINE E == Edges(heap, held)
           E2 == Edges(h, held2)
           X == Away(Edges(heap, held), v)
<1>1. HeapOK(heap) /\ held \in Five /\ Owned(DOMAIN heap, E) /\ NULL \notin DOMAIN heap
  BY DEF Shape, HeapOK
<1>2. ASSUME NEW a, NEW k, NEW q
      PROVE  <<a, k, q>> \in E <=> Edge(heap, held, a, k, q)
  BY <1>1, EdgeIs
<1>3. <<NULL, 4, v>> \in E /\ v \in DOMAIN heap /\ heap[v] \in Val
  <2>1. <<NULL, 4, v>> \in E
    BY <1>2 DEF Edge
  <2>2. Fits_(heap, NULL, 4, v)
    BY <2>1 DEF Shape
  <2> QED BY <1>1, <2>1, <2>2 DEF Owned, Fits_
<1>4. /\ HeapOK(h) /\ DOMAIN h = DOMAIN heap \ {v, heap[v].text, heap[v].keys, heap[v].values}
      /\ \A x \in DOMAIN h : h[x] = heap[x]
      /\ \A a, k, q : <<a, k, q>> \in X <=> <<a, k, q>> \in Edges(heap, held) /\ a # v /\ q # v
      /\ Owned(DOMAIN h, X)
  <2>1. IsReleased(heap, held, v, Released(heap, v), X)
    BY <1>3, ReleasedIs
  <2> QED BY <2>1 DEF IsReleased
<1> HIDE DEF X, E, E2
<1>5. ASSUME NEW a, NEW k, NEW q
      PROVE  <<a, k, q>> \in E2 <=> Edge(h, held2, a, k, q)
  BY <1>4, EdgeIs DEF E2
<1>6. \A a, k, q : <<a, k, q>> \in X <=> <<a, k, q>> \in E /\ a # v /\ q # v
  BY <1>4, Zenon DEF E
<1>7. \A a, k : <<a, k, v>> \in E => a = NULL /\ k = 4
  BY <1>1, <1>3 DEF Owned
<1>8. ASSUME NEW a, NEW k, NEW q
      PROVE  <<a, k, q>> \in E2 <=> <<a, k, q>> \in X
  <2>1. <<a, k, q>> \in E <=> Edge(heap, held, a, k, q)
    BY <1>2
  <2>2. <<a, k, q>> \in E2 <=> Edge(h, held2, a, k, q)
    BY <1>5
  <2>3. <<a, k, q>> \in X <=> <<a, k, q>> \in E /\ a # v /\ q # v
    BY <1>6
  <2>4. CASE a = NULL
    <3>1. Edge(h, held2, a, k, q) <=> q # NULL /\ k \in 1..5 /\ q = held2[k]
      BY <1>1, <1>4, <2>4 DEF Edge
    <3>2. Edge(heap, held, a, k, q) <=> q # NULL /\ k \in 1..5 /\ q = held[k]
      BY <1>1, <2>4 DEF Edge
    <3>3. CASE k = 4
      BY <2>1, <2>2, <2>3, <3>1, <3>2, <3>3
    <3>4. CASE k # 4
      BY <1>1, <1>3, <1>7, <2>1, <2>2, <2>3, <2>4, <3>1, <3>2, <3>4
    <3> QED BY <3>3, <3>4
  <2>5. CASE a # NULL
    <3>1. Edge(h, held2, a, k, q) <=> q # NULL /\ a \in DOMAIN h /\ Points(heap[a], k, q)
      BY <1>4, <2>5 DEF Edge
    <3>2. Edge(heap, held, a, k, q) <=> q # NULL /\ a \in DOMAIN heap /\ Points(heap[a], k, q)
      BY <2>5 DEF Edge
    <3>3. <<a, k, q>> \in X => a \in DOMAIN h
      BY <1>4, <2>5 DEF Owned
    <3>4. a \in DOMAIN h => a \in DOMAIN heap /\ a # v
      BY <1>4
    <3>5. <<a, k, q>> \in E => q # v
      BY <1>7, <2>5
    <3> QED BY <2>1, <2>2, <2>3, <3>1, <3>2, <3>3, <3>4, <3>5
  <2> QED BY <2>4, <2>5
<1>9. DOMAIN h \subseteq DOMAIN heap
  BY <1>4
<1>10. Shape(h, held2)
  <2>1. \A a, k, q : <<a, k, q>> \in X => <<a, k, q>> \in Edges(heap, held)
    BY <1>6 DEF E
  <2>2. \A a, k, q : <<a, k, q>> \in Edges(h, held2) <=> <<a, k, q>> \in X
    BY <1>8, Zenon DEF E2
  <2> QED BY <1>4, <1>9, <2>1, <2>2, DropShape
<1> QED BY <1>4, <1>9, <1>10

\* A value that the loop over the members of another freed.
FreesInner(heap, held, v, t, n, h) ==
    /\ Shape(heap, held) /\ v # NULL /\ v \in DOMAIN heap /\ heap[v] \in Val
    /\ Empty(heap, heap[v].keys) /\ Empty(heap, heap[v].values)
    /\ t \in DOMAIN heap /\ heap[t] \in Table_ /\ Points(heap[t], n, v)
    /\ h = Cleared(Released(heap, v), t, n)

InnerFreed(heap, held, v, t, n, h) ==
    /\ Shape(h, held) /\ DOMAIN h = DOMAIN heap \ {v, heap[v].text, heap[v].keys, heap[v].values}
    /\ t \in DOMAIN h /\ h[t] \in Table_ /\ Len(h[t].cells) = Len(heap[t].cells)
    /\ \A k, q : Points(h[t], k, q) <=> (k # n /\ Points(heap[t], k, q)) \/ (k = n /\ q = NULL)
    /\ \A x \in DOMAIN h : x # t => h[x] = heap[x]

LEMMA FreeInnerShape ==
  ASSUME NEW heap, NEW held, NEW v, NEW t, NEW n, NEW h, FreesInner(heap, held, v, t, n, h)
  PROVE  InnerFreed(heap, held, v, t, n, h)
<1> SUFFICES ASSUME Shape(heap, held), v # NULL, v \in DOMAIN heap, heap[v] \in Val,
                    Empty(heap, heap[v].keys), Empty(heap, heap[v].values),
                    t \in DOMAIN heap, heap[t] \in Table_, Points(heap[t], n, v),
                    h = Cleared(Released(heap, v), t, n)
             PROVE  /\ Shape(h, held)
                    /\ DOMAIN h = DOMAIN heap \ {v, heap[v].text, heap[v].keys, heap[v].values}
                    /\ t \in DOMAIN h /\ h[t] \in Table_ /\ Len(h[t].cells) = Len(heap[t].cells)
                    /\ \A k, q : Points(h[t], k, q) <=>
                                    (k # n /\ Points(heap[t], k, q)) \/ (k = n /\ q = NULL)
                    /\ \A x \in DOMAIN h : x # t => h[x] = heap[x]
  BY DEF FreesInner, InnerFreed
<1> DEFINE E == Edges(heap, held)
           E2 == Edges(h, held)
           X == Away(Edges(heap, held), v)
           left == Released(heap, v)
<1>1. HeapOK(heap) /\ held \in Five /\ Owned(DOMAIN heap, E) /\ NULL \notin DOMAIN heap
  BY DEF Shape, HeapOK
<1>2. ASSUME NEW a, NEW k, NEW q
      PROVE  <<a, k, q>> \in E <=> Edge(heap, held, a, k, q)
  BY <1>1, EdgeIs
<1>3. <<t, n, v>> \in E /\ n \in 1..Len(heap[t].cells)
  <2>1. <<t, n, v>> \in E
    BY <1>1, <1>2 DEF Edge
  <2> QED BY <2>1, PointsTable
<1>4. /\ HeapOK(left) /\ DOMAIN left = DOMAIN heap \ {v, heap[v].text, heap[v].keys, heap[v].values}
      /\ \A x \in DOMAIN left : left[x] = heap[x]
      /\ \A a, k, q : <<a, k, q>> \in X <=> <<a, k, q>> \in Edges(heap, held) /\ a # v /\ q # v
      /\ Owned(DOMAIN left, X)
  <2>1. IsReleased(heap, held, v, left, X)
    BY ReleasedIs
  <2> QED BY <2>1 DEF IsReleased
<1>5. h = Cleared(left, t, n)
  OBVIOUS
<1> HIDE DEF X, E, E2, left
<1>6. \A a, k, q : <<a, k, q>> \in X <=> <<a, k, q>> \in E /\ a # v /\ q # v
  BY <1>4, Zenon DEF E
<1>7. \A a, k : <<a, k, v>> \in E => a = t /\ k = n
  BY <1>1, <1>3 DEF Owned
\* The table is not one of v, which are empty.
<1>8. t \in DOMAIN left
  <2>1. t # v
    BY KindsApart
  <2>2. t # heap[v].text
    <3> SUFFICES ASSUME t = heap[v].text PROVE FALSE
      OBVIOUS
    <3>1. <<v, 1, t>> \in E
      <4>1. Points(heap[v], 1, t)
        BY PointsVal
      <4> QED BY <1>1, <1>2, <4>1 DEF Edge
    <3>2. heap[t] \in Text
      <4>1. Fits_(heap, v, 1, t)
        BY <3>1 DEF Shape, E
      <4> QED BY <1>1, <4>1 DEF Fits_
    <3> QED BY <3>2, KindsApart
  <2>3. t # heap[v].keys
    BY <1>1 DEF Empty
  <2>4. t # heap[v].values
    BY <1>1 DEF Empty
  <2> QED BY <1>4, <2>1, <2>2, <2>3, <2>4
<1>9. /\ HeapOK(h) /\ DOMAIN h = DOMAIN left
      /\ h[t] \in Table_ /\ Len(h[t].cells) = Len(heap[t].cells)
      /\ \A k, q : Points(h[t], k, q) <=> (k # n /\ Points(heap[t], k, q)) \/ (k = n /\ q = NULL)
      /\ \A x \in DOMAIN left : x # t => h[x] = heap[x]
  <2>1. left[t] = heap[t] /\ left[t] \in Table_ /\ n \in 1..Len(left[t].cells)
    BY <1>3, <1>4, <1>8
  <2>2. /\ HeapOK(h) /\ DOMAIN h = DOMAIN left
        /\ h[t] \in Table_ /\ Len(h[t].cells) = Len(left[t].cells)
        /\ \A k, q : Points(h[t], k, q) <=> (k # n /\ Points(left[t], k, q)) \/ (k = n /\ q = NULL)
        /\ \A x \in DOMAIN left : x # t => h[x] = left[x]
    <3>1. HeapOK(left) /\ t \in DOMAIN left /\ left[t] \in Table_ /\ n \in 1..Len(left[t].cells)
      BY <1>4, <1>8, <2>1
    <3>2. IsCleared(left, t, n, Cleared(left, t, n))
      BY <3>1, ClearIs
    <3>3. IsCleared(left, t, n, h)
      BY <1>5, <3>2
    <3> QED BY <3>3 DEF IsCleared
  <2> QED BY <1>4, <2>1, <2>2
<1>10. ASSUME NEW a, NEW k, NEW q
       PROVE  <<a, k, q>> \in E2 <=> Edge(h, held, a, k, q)
  BY <1>1, <1>9, EdgeIs DEF E2
<1>11. ASSUME NEW a, NEW k, NEW q
       PROVE  <<a, k, q>> \in E2 <=> <<a, k, q>> \in X
  <2>1. <<a, k, q>> \in E <=> Edge(heap, held, a, k, q)
    BY <1>2
  <2>2. <<a, k, q>> \in E2 <=> Edge(h, held, a, k, q)
    BY <1>10
  <2>3. <<a, k, q>> \in X <=> <<a, k, q>> \in E /\ a # v /\ q # v
    BY <1>6
  <2>4. <<a, k, q>> \in E /\ q = v => a = t /\ k = n
    BY <1>7
  <2>5. CASE a = NULL
    <3>1. Edge(h, held, a, k, q) <=> q # NULL /\ k \in 1..5 /\ q = held[k]
      BY <1>1, <1>4, <1>9, <2>5 DEF Edge
    <3>2. Edge(heap, held, a, k, q) <=> q # NULL /\ k \in 1..5 /\ q = held[k]
      BY <1>1, <2>5 DEF Edge
    <3>3. a # t /\ a # v
      BY <1>1, <2>5
    <3> QED BY <2>1, <2>2, <2>3, <2>4, <3>1, <3>2, <3>3
  <2>6. CASE a = t
    <3>1. Edge(h, held, a, k, q) <=> q # NULL /\ Points(h[t], k, q)
      BY <1>1, <1>8, <1>9, <2>6 DEF Edge
    <3>2. Edge(heap, held, a, k, q) <=> q # NULL /\ Points(heap[t], k, q)
      BY <1>1, <2>6 DEF Edge
    <3>3. Points(h[t], k, q) <=> (k # n /\ Points(heap[t], k, q)) \/ (k = n /\ q = NULL)
      BY <1>9
    <3>4. Points(heap[t], n, q) => q = v
      BY PointsTable
    <3>5. a # v
      BY <1>4, <1>8, <2>6
    <3> QED BY <2>1, <2>2, <2>3, <2>4, <3>1, <3>2, <3>3, <3>4, <3>5
  <2>7. CASE a \notin {NULL, t}
    <3>1. Edge(h, held, a, k, q) <=> q # NULL /\ a \in DOMAIN left /\ Points(heap[a], k, q)
      BY <1>9, <2>7 DEF Edge
    <3>2. Edge(heap, held, a, k, q) <=> q # NULL /\ a \in DOMAIN heap /\ Points(heap[a], k, q)
      BY <2>7 DEF Edge
    <3>3. <<a, k, q>> \in X => a \in DOMAIN left
      BY <1>4, <2>7 DEF Owned
    <3>4. a \in DOMAIN left => a \in DOMAIN heap /\ a # v
      BY <1>4
    <3> QED BY <2>1, <2>2, <2>3, <2>4, <2>7, <3>1, <3>2, <3>3, <3>4
  <2> QED BY <2>5, <2>6, <2>7
<1>12. Shape(h, held)
  <2>1. \A a, k, q : <<a, k, q>> \in X => <<a, k, q>> \in Edges(heap, held)
    BY <1>6 DEF E
  <2>2. \A a, k, q : <<a, k, q>> \in Edges(h, held) <=> <<a, k, q>> \in X
    BY <1>11, Zenon DEF E2
  <2>3. DOMAIN h \subseteq DOMAIN heap /\ Owned(DOMAIN h, X)
    BY <1>4, <1>9
  <2>4. \A x \in DOMAIN h :
            \/ h[x] = heap[x]
            \/ h[x] \in Table_ /\ heap[x] \in Table_ /\ Len(h[x].cells) = Len(heap[x].cells)
    BY <1>9
  <2> QED BY <1>1, <1>9, <2>1, <2>2, <2>3, <2>4, DropShape
<1> QED BY <1>4, <1>8, <1>9, <1>12

=============================================================================
