------------------------------ MODULE TreeProofs ------------------------------
(***************************************************************************)
(* The tree of YajlTree for every document: no block of the heap is leaked *)
(* or freed twice, at any step of building and freeing and however a parse *)
(* ends, and the errors the code calls impossible are.  Progress says where*)
(* the loops of yajl_tree_free are, Spine how the stack stands for the     *)
(* containers that are open.                                               *)
(*                                                                         *)
(* The global of TreeAfs, for any set of threads and either kind of client:*)
(* the functions behind it are those the blocks came from, and nothing is  *)
(* left of a call in it; they are alive when they are used, unless calls   *)
(* overlap under a global that the client has left null.                   *)
(***************************************************************************)
EXTENDS TreeHeapProofs

-----------------------------------------------------------------------------
(* The calls of yajl_tree_free.  A table has holes where a loop has freed   *)
(* its members, and nowhere else: a loop that is in a call is through with  *)
(* the key of its member, and not with the member.                          *)

Calls == [v : Nat, i : Nat]
KeysOf(heap, w, k) == heap[w[k].v].keys
ValuesOf(heap, w, k) == heap[w[k].v].values
KeysDone(w, k) == w[k].i + (IF k < Len(w) THEN 1 ELSE 0)

WorkOK(heap, w) ==
    /\ w \in Seq(Calls)
    /\ \A k \in 1..Len(w) : /\ w[k].v \in DOMAIN heap /\ heap[w[k].v] \in Val
                                /\ w[k].i <= heap[w[k].v].len
    /\ \A k, l \in 1..Len(w) : w[k].v = w[l].v => k = l
    /\ \A k \in 1..Len(w) : k < Len(w) =>
          /\ heap[w[k].v].type \in Containers /\ w[k].i < heap[w[k].v].len
          /\ Points(heap[ValuesOf(heap, w, k)], w[k].i + 1, w[k + 1].v)

InLoops(heap, w, t) ==
    \E k \in 1..Len(w) : t = KeysOf(heap, w, k) \/ t = ValuesOf(heap, w, k)

Holes(heap, w) ==
    /\ \A k \in 1..Len(w) : \A j :
          /\ KeysOf(heap, w, k) # NULL =>
                (Points(heap[KeysOf(heap, w, k)], j, NULL) <=> j \in 1..KeysDone(w, k))
          /\ ValuesOf(heap, w, k) # NULL =>
                (Points(heap[ValuesOf(heap, w, k)], j, NULL) <=> j \in 1..w[k].i)
    /\ \A t \in DOMAIN heap : heap[t] \in Table_ =>
          InLoops(heap, w, t) \/ (\A j : ~Points(heap[t], j, NULL))

Progress(heap, w) == WorkOK(heap, w) /\ Holes(heap, w)

LEMMA CallIs ==
  ASSUME NEW heap, NEW w, WorkOK(heap, w), NEW k \in 1..Len(w)
  PROVE  /\ w \in Seq(Calls) /\ w[k].i \in Nat
         /\ w[k].v \in DOMAIN heap /\ heap[w[k].v] \in Val /\ w[k].i <= heap[w[k].v].len
<1>1. w \in Seq(Calls)
  BY DEF WorkOK
<1>2. w[k] \in Calls
  BY <1>1
<1>3. w[k].i \in Nat
  BY <1>2 DEF Calls
<1> QED BY <1>1, <1>3 DEF WorkOK

LEMMA ProgressIdle ==
  ASSUME NEW heap
  PROVE  Progress(heap, <<>>) <=> Full(heap)
<1>1. 1..Len(<<>>) = {} /\ <<>> \in Seq(Calls)
  OBVIOUS
<1> QED BY <1>1, Zenon DEF Progress, WorkOK, Holes, InLoops, Full

\* The tables of a value.
LEMMA TablesIs ==
  ASSUME NEW heap, NEW held, Shape(heap, held), NEW v \in DOMAIN heap, heap[v] \in Val
  PROVE  /\ heap[v].keys # NULL =>
               /\ <<v, 2, heap[v].keys>> \in Edges(heap, held)
               /\ heap[v].keys \in DOMAIN heap /\ heap[heap[v].keys] \in Table_
               /\ Len(heap[heap[v].keys].cells) = heap[v].len
               /\ heap[v].type = "object"
         /\ heap[v].values # NULL =>
               /\ <<v, 3, heap[v].values>> \in Edges(heap, held)
               /\ heap[v].values \in DOMAIN heap /\ heap[heap[v].values] \in Table_
               /\ Len(heap[heap[v].values].cells) = heap[v].len
               /\ heap[v].type \in Containers
         /\ heap[v].len \in Nat
         /\ heap[v].type \notin Containers => heap[v].len = 0
         /\ heap[v].type \in Containers /\ heap[v].len # 0 =>
               heap[v].values # NULL /\ (heap[v].type = "object" <=> heap[v].keys # NULL)
<1>1. ValShape(heap[v]) /\ heap[v].len \in Nat
  BY DEF Shape, Val
<1>2. CASE heap[v].type \in Containers
  <2>1. "array" # "object"
    OBVIOUS
  <2> QED BY <1>2, <2>1, TableIs DEF Containers
<1>3. CASE heap[v].type \notin Containers
  BY <1>1, <1>3 DEF ValShape
<1> QED BY <1>2, <1>3

LEMMA ValuesThere ==
  ASSUME NEW heap, NEW held, Shape(heap, held), NEW v, v \in DOMAIN heap, heap[v] \in Val,
         heap[v].type \in Containers, heap[v].len # 0
  PROVE  heap[v].values # NULL
BY TablesIs

LEMMA WorkTables ==
  ASSUME NEW heap, NEW held, Shape(heap, held), NEW w, WorkOK(heap, w),
         NEW k \in 1..Len(w), NEW l \in 1..Len(w)
  PROVE  /\ KeysOf(heap, w, k) # NULL => KeysOf(heap, w, k) \in DOMAIN heap
         /\ ValuesOf(heap, w, k) # NULL => ValuesOf(heap, w, k) \in DOMAIN heap
         /\ KeysOf(heap, w, k) = KeysOf(heap, w, l) /\ KeysOf(heap, w, k) # NULL => k = l
         /\ ValuesOf(heap, w, k) = ValuesOf(heap, w, l) /\ ValuesOf(heap, w, k) # NULL => k = l
         /\ KeysOf(heap, w, k) = ValuesOf(heap, w, l) => KeysOf(heap, w, k) = NULL
<1> DEFINE E == Edges(heap, held)
           a == w[k].v
           b == w[l].v
<1>1. a \in DOMAIN heap /\ heap[a] \in Val /\ b \in DOMAIN heap /\ heap[b] \in Val /\ (a = b => k = l)
  BY DEF WorkOK
<1>2. Owned(DOMAIN heap, E)
  BY DEF Shape
<1>3. /\ heap[a].keys # NULL => <<a, 2, heap[a].keys>> \in E
      /\ heap[a].values # NULL => <<a, 3, heap[a].values>> \in E
      /\ heap[b].keys # NULL => <<b, 2, heap[b].keys>> \in E
      /\ heap[b].values # NULL => <<b, 3, heap[b].values>> \in E
  BY <1>1, TablesIs
<1> HIDE DEF E, a, b
<1>4. /\ heap[a].keys # NULL => heap[a].keys \in DOMAIN heap
      /\ heap[a].values # NULL => heap[a].values \in DOMAIN heap
  BY <1>2, <1>3 DEF Owned
<1>5. heap[a].keys = heap[b].keys /\ heap[a].keys # NULL => a = b
  BY <1>2, <1>3 DEF Owned
<1>6. heap[a].values = heap[b].values /\ heap[a].values # NULL => a = b
  BY <1>2, <1>3 DEF Owned
<1>7. heap[a].keys = heap[b].values => heap[a].keys = NULL
  <2> SUFFICES ASSUME heap[a].keys = heap[b].values, heap[a].keys # NULL PROVE FALSE
    OBVIOUS
  <2>1. <<a, 2, heap[a].keys>> \in E /\ <<b, 3, heap[a].keys>> \in E
    BY <1>3
  <2>2. 2 = 3
    BY <1>2, <2>1 DEF Owned
  <2> QED BY <2>2
<1> QED BY <1>1, <1>4, <1>5, <1>6, <1>7 DEF KeysOf, ValuesOf, a, b

\* The first call.
LEMMA ProgressStart ==
  ASSUME NEW heap, NEW held, Shape(heap, held), Full(heap), NEW v \in DOMAIN heap, heap[v] \in Val,
         NEW w, w \in Seq(Calls), Len(w) = 1, w[1].v = v, w[1].i = 0
  PROVE  Progress(heap, w)
<1>1. 1..Len(w) = {1} /\ 1..0 = {}
  OBVIOUS
<1>2. heap[v].len \in Nat
  BY TablesIs
<1>3. WorkOK(heap, w)
  BY <1>1, <1>2 DEF WorkOK
<1>4. KeysDone(w, 1) = 0
  BY DEF KeysDone
<1>5. KeysOf(heap, w, 1) = heap[v].keys /\ ValuesOf(heap, w, 1) = heap[v].values
  BY DEF KeysOf, ValuesOf
<1>6. ASSUME NEW j
      PROVE  /\ heap[v].keys # NULL => ~Points(heap[heap[v].keys], j, NULL)
             /\ heap[v].values # NULL => ~Points(heap[heap[v].values], j, NULL)
  BY TablesIs DEF Full
<1>7. ASSUME NEW k \in 1..Len(w), NEW j
      PROVE  /\ KeysOf(heap, w, k) # NULL =>
                   (Points(heap[KeysOf(heap, w, k)], j, NULL) <=> j \in 1..KeysDone(w, k))
             /\ ValuesOf(heap, w, k) # NULL =>
                   (Points(heap[ValuesOf(heap, w, k)], j, NULL) <=> j \in 1..w[k].i)
  BY <1>1, <1>4, <1>5, <1>6
<1>8. Holes(heap, w)
  BY <1>7 DEF Holes, Full
<1> QED BY <1>3, <1>8 DEF Progress

\* The member that the loop of the last call is at.
Loops(heap, held, w, L, v, n) ==
    /\ Shape(heap, held) /\ Progress(heap, w) /\ w[1].v = held[4]
    /\ L \in 1..Len(w) /\ L = Len(w)
    /\ v = w[L].v /\ heap[v].type \in Containers /\ n = w[L].i + 1 /\ n <= heap[v].len

LEMMA MemberIs ==
  ASSUME NEW heap, NEW held, NEW w, NEW L, NEW v, NEW n, Loops(heap, held, w, L, v, n)
  PROVE  /\ v \in DOMAIN heap /\ heap[v] \in Val /\ n \in 1..heap[v].len
         /\ heap[v].values # NULL /\ heap[v].values \in DOMAIN heap /\ heap[heap[v].values] \in Table_
         /\ Points(heap[heap[v].values], n, heap[heap[v].values].cells[n])
         /\ heap[heap[v].values].cells[n] \in DOMAIN heap /\ heap[heap[heap[v].values].cells[n]] \in Val
         /\ \A k \in 1..L : w[k].v # heap[heap[v].values].cells[n]
         /\ heap[v].type = "object" =>
               /\ heap[v].keys # NULL /\ heap[v].keys \in DOMAIN heap /\ heap[heap[v].keys] \in Table_
               /\ n \in 1..Len(heap[heap[v].keys].cells)
               /\ Points(heap[heap[v].keys], n, heap[heap[v].keys].cells[n])
               /\ heap[heap[v].keys].cells[n] # NULL /\ heap[heap[heap[v].keys].cells[n]] \in Text
<1> SUFFICES ASSUME Shape(heap, held), Progress(heap, w), w[1].v = held[4],
                    L \in 1..Len(w), L = Len(w),
                    v = w[L].v, heap[v].type \in Containers, n = w[L].i + 1, n <= heap[v].len
             PROVE  /\ v \in DOMAIN heap /\ heap[v] \in Val /\ n \in 1..heap[v].len
                    /\ heap[v].values # NULL /\ heap[v].values \in DOMAIN heap /\ heap[heap[v].values] \in Table_
                    /\ Points(heap[heap[v].values], n, heap[heap[v].values].cells[n])
                    /\ heap[heap[v].values].cells[n] \in DOMAIN heap /\ heap[heap[heap[v].values].cells[n]] \in Val
                    /\ \A k \in 1..L : w[k].v # heap[heap[v].values].cells[n]
                    /\ heap[v].type = "object" =>
                          /\ heap[v].keys # NULL /\ heap[v].keys \in DOMAIN heap /\ heap[heap[v].keys] \in Table_
                          /\ n \in 1..Len(heap[heap[v].keys].cells)
                          /\ Points(heap[heap[v].keys], n, heap[heap[v].keys].cells[n])
                          /\ heap[heap[v].keys].cells[n] # NULL /\ heap[heap[heap[v].keys].cells[n]] \in Text
  BY Zenon DEF Loops
<1> DEFINE E == Edges(heap, held)
           vt == heap[v].values
           c == heap[vt].cells[n]
           kt == heap[v].keys
           key == heap[kt].cells[n]
<1>1. HeapOK(heap) /\ held \in Five /\ Owned(DOMAIN heap, E) /\ NULL \notin DOMAIN heap
  BY DEF Shape, HeapOK
<1>2. ASSUME NEW a, NEW k, NEW q
      PROVE  <<a, k, q>> \in E <=> Edge(heap, held, a, k, q)
  BY <1>1, EdgeIs
<1>3. WorkOK(heap, w) /\ Holes(heap, w)
  BY DEF Progress
<1>4. v \in DOMAIN heap /\ heap[v] \in Val /\ w[L].i \in Nat /\ heap[v].len \in Nat
  <2>1. v \in DOMAIN heap /\ heap[v] \in Val /\ w[L].i \in Nat
    BY <1>3, CallIs
  <2> QED BY <2>1, TablesIs
<1>5. /\ n \in 1..heap[v].len /\ vt # NULL
      /\ <<v, 3, vt>> \in E /\ vt \in DOMAIN heap /\ heap[vt] \in Table_ /\ Len(heap[vt].cells) = heap[v].len
  <2>1. n \in 1..heap[v].len /\ heap[v].len # 0
    BY <1>4
  <2>2. heap[v].values # NULL
    BY <1>4, <2>1, TablesIs
  <2>3. /\ <<v, 3, heap[v].values>> \in Edges(heap, held)
        /\ heap[v].values \in DOMAIN heap /\ heap[heap[v].values] \in Table_
        /\ Len(heap[heap[v].values].cells) = heap[v].len
    BY <1>4, <2>2, TablesIs
  <2> QED BY <2>1, <2>2, <2>3
<1>6. KeysOf(heap, w, L) = kt /\ ValuesOf(heap, w, L) = vt /\ KeysDone(w, L) = w[L].i
  BY <1>4 DEF KeysOf, ValuesOf, KeysDone
<1> HIDE DEF E, vt, kt, c, key
<1>7. Points(heap[vt], n, c)
  BY <1>5, PointsTable DEF c
<1>8. c # NULL
  <2>1. ~Points(heap[vt], n, NULL)
    BY <1>3, <1>4, <1>5, <1>6 DEF Holes
  <2> QED BY <1>7, <2>1
<1>9. <<vt, n, c>> \in E
  BY <1>1, <1>2, <1>5, <1>7, <1>8 DEF Edge
<1>10. c \in DOMAIN heap /\ heap[c] \in Val
  <2>1. heap[c] \in Member_(3)
    BY <1>1, <1>4, <1>5, <1>9 DEF Shape, E
  <2> QED BY <1>1, <1>9, <2>1 DEF Owned, Member_
<1>11. ASSUME NEW k \in 1..L PROVE w[k].v # c
  <2> SUFFICES ASSUME w[k].v = c PROVE FALSE
    OBVIOUS
  <2>1. CASE k = 1
    <3>1. <<NULL, 4, c>> \in E
      BY <1>1, <1>2, <1>8, <2>1 DEF Edge
    <3> QED BY <1>1, <1>5, <1>9, <3>1 DEF Owned
  <2>2. CASE k # 1
    <3> DEFINE j == k - 1
               tj == ValuesOf(heap, w, j)
    <3>1. j \in 1..Len(w) /\ j < Len(w) /\ j + 1 = k /\ j # L
      BY <2>2
    <3> HIDE DEF j
    <3>2. Points(heap[tj], w[j].i + 1, c) /\ w[j].i < heap[w[j].v].len /\ heap[w[j].v].type \in Containers
      BY <1>3, <3>1 DEF WorkOK
    <3>3. w[j].v \in DOMAIN heap /\ heap[w[j].v] \in Val /\ w[j].i \in Nat
      BY <1>3, <3>1, CallIs
    <3>4. tj # NULL /\ tj \in DOMAIN heap
      <4>1. heap[w[j].v].len # 0
        BY <3>2, <3>3, TablesIs
      <4>2. heap[w[j].v].values # NULL
        BY <3>2, <3>3, <4>1, TablesIs
      <4>3. heap[w[j].v].values \in DOMAIN heap
        BY <3>3, <4>2, TablesIs
      <4> QED BY <4>2, <4>3 DEF ValuesOf
    <3>5. <<tj, w[j].i + 1, c>> \in E
      BY <1>1, <1>2, <1>8, <3>2, <3>4 DEF Edge
    <3>6. tj = vt
      BY <1>1, <1>9, <3>5 DEF Owned
    <3>7. j = L
      BY <1>3, <1>6, <3>1, <3>4, <3>6, WorkTables
    <3> QED BY <3>1, <3>7
  <2> QED BY <2>1, <2>2
<1>12. ASSUME heap[v].type = "object"
       PROVE  /\ kt # NULL /\ kt \in DOMAIN heap /\ heap[kt] \in Table_
              /\ n \in 1..Len(heap[kt].cells)
              /\ Points(heap[kt], n, key)
              /\ key # NULL /\ heap[key] \in Text
  <2>1. /\ kt # NULL /\ <<v, 2, kt>> \in E /\ kt \in DOMAIN heap /\ heap[kt] \in Table_
        /\ Len(heap[kt].cells) = heap[v].len
    <3>1. heap[v].len # 0
      BY <1>5
    <3>2. heap[v].keys # NULL
      BY <1>4, <1>12, <3>1, TablesIs
    <3>3. /\ <<v, 2, heap[v].keys>> \in Edges(heap, held)
          /\ heap[v].keys \in DOMAIN heap /\ heap[heap[v].keys] \in Table_
          /\ Len(heap[heap[v].keys].cells) = heap[v].len
      BY <1>4, <3>2, TablesIs
    <3> QED BY <3>2, <3>3 DEF E, kt
  <2>2. Points(heap[kt], n, key)
    BY <1>5, <2>1, PointsTable DEF key
  <2>3. key # NULL
    <3>1. Points(heap[kt], n, NULL) <=> n \in 1..w[L].i
      BY <1>3, <1>6, <2>1 DEF Holes
    <3> QED BY <1>4, <2>2, <3>1
  <2>4. <<kt, n, key>> \in E
    BY <1>1, <1>2, <2>1, <2>2, <2>3 DEF Edge
  <2>5. heap[key] \in Member_(2)
    BY <1>1, <1>4, <2>1, <2>4 DEF Shape, E
  <2> QED BY <1>5, <2>1, <2>2, <2>3, <2>5 DEF Member_
<1> QED BY <1>4, <1>5, <1>7, <1>10, <1>11, <1>12, Zenon DEF c, vt, kt, key

\* The loop frees the key of its next member and calls yajl_tree_free.
FreesKey(heap, h, v, n) ==
    /\ HeapOK(h)
    /\ \A x \in DOMAIN heap : heap[x] \in Val => x \in DOMAIN h /\ h[x] = heap[x]
    /\ \A x \in DOMAIN heap : heap[x] \in Table_ /\ x # heap[v].keys => x \in DOMAIN h /\ h[x] = heap[x]
    /\ heap[v].keys # NULL =>
           \A j : Points(h[heap[v].keys], j, NULL) <=> j = n \/ Points(heap[heap[v].keys], j, NULL)
    /\ \A x \in DOMAIN h : x \in DOMAIN heap /\ (h[x] \in Table_ => heap[x] \in Table_)

Calls_(heap, w, L, v, n, c, w2) ==
    /\ Points(heap[heap[v].values], n, c) /\ c \in DOMAIN heap /\ heap[c] \in Val
    /\ \A k \in 1..L : w[k].v # c
    /\ w2 \in Seq(Calls) /\ Len(w2) = L + 1
    /\ \A k \in 1..L : w2[k] = w[k]
    /\ w2[L + 1].v = c /\ w2[L + 1].i = 0

LEMMA ProgressMember ==
  ASSUME NEW heap, NEW held, NEW w, NEW L, NEW v, NEW n, Loops(heap, held, w, L, v, n),
         NEW h, FreesKey(heap, h, v, n), NEW c, NEW w2, Calls_(heap, w, L, v, n, c, w2)
  PROVE  Progress(h, w2)
<1> SUFFICES ASSUME Shape(heap, held), Progress(heap, w), L \in 1..Len(w), L = Len(w),
                    v = w[L].v, heap[v].type \in Containers, n = w[L].i + 1, n <= heap[v].len,
                    Points(heap[heap[v].values], n, c), c \in DOMAIN heap, heap[c] \in Val,
                    \A k \in 1..L : w[k].v # c,
                    HeapOK(h),
                    \A x \in DOMAIN heap : heap[x] \in Val => x \in DOMAIN h /\ h[x] = heap[x],
                    \A x \in DOMAIN heap :
                       heap[x] \in Table_ /\ x # heap[v].keys => x \in DOMAIN h /\ h[x] = heap[x],
                    heap[v].keys # NULL =>
                       \A j : Points(h[heap[v].keys], j, NULL) <=> j = n \/ Points(heap[heap[v].keys], j, NULL),
                    \A x \in DOMAIN h : x \in DOMAIN heap /\ (h[x] \in Table_ => heap[x] \in Table_),
                    w2 \in Seq(Calls), Len(w2) = L + 1,
                    \A k \in 1..L : w2[k] = w[k], w2[L + 1].v = c, w2[L + 1].i = 0
             PROVE  Progress(h, w2)
  BY DEF Loops, FreesKey, Calls_
<1> DEFINE kt == heap[v].keys
<1>1. WorkOK(heap, w) /\ Holes(heap, w) /\ NULL \notin DOMAIN heap
  BY DEF Progress, Shape, HeapOK
<1>2. w \in Seq(Calls) /\ L \in Nat /\ L + 1 \in 1..Len(w2)
  BY <1>1 DEF WorkOK
<1>3. ASSUME NEW k \in 1..L
      PROVE  /\ w[k].v \in DOMAIN heap /\ heap[w[k].v] \in Val /\ w[k].i \in Nat
             /\ w[k].v \in DOMAIN h /\ h[w[k].v] = heap[w[k].v] /\ w[k].i <= heap[w[k].v].len
             /\ KeysOf(h, w2, k) = KeysOf(heap, w, k) /\ ValuesOf(h, w2, k) = ValuesOf(heap, w, k)
  <2>1. /\ w[k].v \in DOMAIN heap /\ heap[w[k].v] \in Val /\ w[k].i \in Nat
        /\ w[k].i <= heap[w[k].v].len
    BY <1>1, CallIs
  <2> QED BY <2>1 DEF KeysOf, ValuesOf
<1>4. c \in DOMAIN h /\ h[c] = heap[c] /\ heap[c].len \in Nat
  BY TablesIs
<1>5. ASSUME NEW k \in 1..L, NEW j
      PROVE  KeysOf(heap, w, k) # NULL =>
                /\ KeysOf(heap, w, k) \in DOMAIN heap /\ heap[KeysOf(heap, w, k)] \in Table_
                /\ KeysOf(heap, w, k) = kt => k = L
  <2>1. kt = KeysOf(heap, w, L)
    BY DEF KeysOf
  <2>2. KeysOf(heap, w, k) # NULL => heap[KeysOf(heap, w, k)] \in Table_
    BY <1>3, TablesIs DEF KeysOf
  <2> QED BY <1>1, <2>1, <2>2, WorkTables
<1>6. ASSUME NEW k \in 1..L
      PROVE  ValuesOf(heap, w, k) # NULL =>
                /\ ValuesOf(heap, w, k) \in DOMAIN heap /\ heap[ValuesOf(heap, w, k)] \in Table_
                /\ ValuesOf(heap, w, k) \in DOMAIN h /\ h[ValuesOf(heap, w, k)] = heap[ValuesOf(heap, w, k)]
  <2>1. kt = KeysOf(heap, w, L)
    BY DEF KeysOf
  <2>2. ValuesOf(heap, w, k) # NULL => heap[ValuesOf(heap, w, k)] \in Table_
    BY <1>3, TablesIs DEF ValuesOf
  <2>3. ValuesOf(heap, w, k) # NULL => ValuesOf(heap, w, k) # kt
    BY <1>1, <2>1, WorkTables
  <2> QED BY <1>1, <2>2, <2>3, WorkTables
<1> HIDE DEF kt
<1>7. WorkOK(h, w2)
  <2>1. ASSUME NEW k \in 1..Len(w2)
        PROVE  /\ w2[k].v \in DOMAIN h /\ h[w2[k].v] \in Val
               /\ w2[k].i <= h[w2[k].v].len
    <3>1. CASE k = L + 1
      BY <1>4, <3>1
    <3>2. CASE k \in 1..L
      BY <1>3, <3>2
    <3> QED BY <1>2, <3>1, <3>2
  <2>2. ASSUME NEW k \in 1..Len(w2), NEW l \in 1..Len(w2), w2[k].v = w2[l].v
        PROVE  k = l
    <3>1. k = L + 1 \/ k \in 1..L
      BY <1>2
    <3>2. l = L + 1 \/ l \in 1..L
      BY <1>2
    <3>3. \A x, y \in 1..L : w[x].v = w[y].v => x = y
      BY <1>1 DEF WorkOK
    <3> QED BY <2>2, <3>1, <3>2, <3>3
  <2>3. ASSUME NEW k \in 1..Len(w2), k < Len(w2)
        PROVE  /\ h[w2[k].v].type \in Containers /\ w2[k].i < h[w2[k].v].len
               /\ Points(h[ValuesOf(h, w2, k)], w2[k].i + 1, w2[k + 1].v)
    <3>1. k \in 1..L
      BY <1>2, <2>3
    <3>2. CASE k = L
      <4>0. v \in DOMAIN heap /\ heap[v] \in Val /\ w[L].i \in Nat /\ heap[v].len \in Nat
        <5>1. v \in DOMAIN heap /\ heap[v] \in Val /\ w[L].i \in Nat
          BY <1>3
        <5> QED BY <5>1, TablesIs
      <4>1. ValuesOf(heap, w, L) = heap[v].values /\ heap[v].values # NULL
        <5>1. heap[v].len # 0
          BY <4>0
        <5>2. heap[v].values # NULL
          BY <4>0, <5>1, ValuesThere
        <5> QED BY <5>2 DEF ValuesOf
      <4>2. w[L].i < heap[v].len
        BY <4>0
      <4> QED BY <1>3, <1>6, <3>1, <3>2, <4>1, <4>2
    <3>3. CASE k # L
      <4>1. k < Len(w) /\ k + 1 \in 1..L
        BY <3>1, <3>3
      <4>2. /\ heap[w[k].v].type \in Containers /\ w[k].i < heap[w[k].v].len
            /\ Points(heap[ValuesOf(heap, w, k)], w[k].i + 1, w[k + 1].v)
        BY <1>1, <3>1, <4>1 DEF WorkOK
      <4>3. ValuesOf(heap, w, k) # NULL
        <5>0. w[k].v \in DOMAIN heap /\ heap[w[k].v] \in Val /\ w[k].i \in Nat
          BY <1>3, <3>1
        <5>1. heap[w[k].v].len \in Nat
          BY <5>0, TablesIs
        <5>2. heap[w[k].v].len # 0
          BY <4>2, <5>0, <5>1
        <5>3. heap[w[k].v].values # NULL
          BY <4>2, <5>0, <5>2, TablesIs
        <5> QED BY <5>3 DEF ValuesOf
      <4> QED BY <1>3, <1>6, <3>1, <4>1, <4>2, <4>3
    <3> QED BY <3>2, <3>3
  <2> QED BY <2>1, <2>2, <2>3 DEF WorkOK
<1>8. ASSUME NEW k \in 1..Len(w2), NEW j
      PROVE  /\ KeysOf(h, w2, k) # NULL =>
                   (Points(h[KeysOf(h, w2, k)], j, NULL) <=> j \in 1..KeysDone(w2, k))
             /\ ValuesOf(h, w2, k) # NULL =>
                   (Points(h[ValuesOf(h, w2, k)], j, NULL) <=> j \in 1..w2[k].i)
  <2>1. CASE k = L + 1
    <3>1. KeysOf(h, w2, k) = heap[c].keys /\ ValuesOf(h, w2, k) = heap[c].values
      BY <1>4, <2>1 DEF KeysOf, ValuesOf
    <3>2. KeysDone(w2, k) = 0 /\ w2[k].i = 0 /\ 1..0 = {}
      BY <2>1 DEF KeysDone
    <3>3. ASSUME NEW t, t # NULL, t = heap[c].keys \/ t = heap[c].values
          PROVE  ~Points(h[t], j, NULL)
      <4>1. /\ heap[c].keys # NULL => heap[c].keys \in DOMAIN heap /\ heap[heap[c].keys] \in Table_
            /\ heap[c].values # NULL => heap[c].values \in DOMAIN heap /\ heap[heap[c].values] \in Table_
        BY TablesIs
      <4>6. t \in DOMAIN heap /\ heap[t] \in Table_
        BY <3>3, <4>1
      <4>2. ~InLoops(heap, w, t)
        <5> SUFFICES ASSUME NEW l \in 1..Len(w), t = KeysOf(heap, w, l) \/ t = ValuesOf(heap, w, l)
                     PROVE  FALSE
          BY DEF InLoops
        <5>1. l \in 1..L /\ w[l].v # c
          OBVIOUS
        <5>2. /\ heap[c].keys # NULL => <<c, 2, heap[c].keys>> \in Edges(heap, held)
              /\ heap[c].values # NULL => <<c, 3, heap[c].values>> \in Edges(heap, held)
          BY TablesIs
        <5>3. /\ heap[w[l].v].keys # NULL => <<w[l].v, 2, heap[w[l].v].keys>> \in Edges(heap, held)
              /\ heap[w[l].v].values # NULL => <<w[l].v, 3, heap[w[l].v].values>> \in Edges(heap, held)
          BY <1>3, <5>1, TablesIs
        <5>6. Owned(DOMAIN heap, Edges(heap, held))
          BY DEF Shape
        <5> HIDE DEF kt
        <5>7. ASSUME NEW x, NEW y, <<c, x, t>> \in Edges(heap, held), <<w[l].v, y, t>> \in Edges(heap, held)
              PROVE  FALSE
          BY <5>1, <5>6, <5>7 DEF Owned
        <5>8. <<w[l].v, 2, t>> \in Edges(heap, held) \/ <<w[l].v, 3, t>> \in Edges(heap, held)
          <6>1. CASE t = KeysOf(heap, w, l)
            BY <3>3, <5>3, <6>1 DEF KeysOf
          <6>2. CASE t = ValuesOf(heap, w, l)
            BY <3>3, <5>3, <6>2 DEF ValuesOf
          <6> QED BY <6>1, <6>2
        <5>9. <<c, 2, t>> \in Edges(heap, held) \/ <<c, 3, t>> \in Edges(heap, held)
          <6>1. CASE t = heap[c].keys
            BY <3>3, <5>2, <6>1
          <6>2. CASE t = heap[c].values
            BY <3>3, <5>2, <6>2
          <6> QED BY <3>3, <6>1, <6>2
        <5> QED BY <5>7, <5>8, <5>9
      <4>3. t # kt
        <5>1. KeysOf(heap, w, L) = kt
          BY DEF KeysOf, kt
        <5> QED BY <4>2, <5>1 DEF InLoops
      <4>4. h[t] = heap[t]
        BY <4>3, <4>6 DEF kt
      <4>5. ~Points(heap[t], j, NULL)
        BY <1>1, <4>2, <4>6 DEF Holes
      <4> QED BY <4>4, <4>5
    <3> QED BY <3>1, <3>2, <3>3
  <2>2. CASE k \in 1..L
    <3>1. /\ KeysOf(heap, w, k) # NULL =>
                   (Points(heap[KeysOf(heap, w, k)], j, NULL) <=> j \in 1..KeysDone(w, k))
          /\ ValuesOf(heap, w, k) # NULL =>
                   (Points(heap[ValuesOf(heap, w, k)], j, NULL) <=> j \in 1..w[k].i)
      BY <1>1, <2>2 DEF Holes
    <3>2. ValuesOf(heap, w, k) # NULL => (Points(h[ValuesOf(heap, w, k)], j, NULL) <=> j \in 1..w[k].i)
      BY <1>6, <2>2, <3>1
    <3>3. ASSUME KeysOf(heap, w, k) # NULL
          PROVE  Points(h[KeysOf(heap, w, k)], j, NULL) <=> j \in 1..KeysDone(w2, k)
      <4>1. CASE k = L
        <5>1. KeysOf(heap, w, k) = kt /\ KeysDone(w, k) = w[L].i /\ KeysDone(w2, k) = n
          BY <1>2, <1>3, <4>1, SMTT(20) DEF KeysOf, KeysDone, kt
        <5>2. Points(h[kt], j, NULL) <=> j = n \/ Points(heap[kt], j, NULL)
          BY <3>3, <5>1 DEF kt
        <5>3. j \in 1..n <=> j = n \/ j \in 1..w[L].i
          BY <1>3, SMTT(20)
        <5> QED BY <3>1, <3>3, <5>1, <5>2, <5>3
      <4>2. CASE k # L
        <5>1. KeysDone(w2, k) = KeysDone(w, k)
          BY <1>2, <2>2, <4>2, SMTT(20) DEF KeysDone
        <5>2. h[KeysOf(heap, w, k)] = heap[KeysOf(heap, w, k)]
          BY <1>5, <2>2, <3>3, <4>2 DEF kt
        <5> QED BY <3>1, <3>3, <5>1, <5>2
      <4> QED BY <4>1, <4>2
    <3> QED BY <1>3, <2>2, <3>2, <3>3
  <2> QED BY <1>2, <2>1, <2>2
<1>9. ASSUME NEW t \in DOMAIN h, h[t] \in Table_, ~InLoops(h, w2, t), NEW j
      PROVE  ~Points(h[t], j, NULL)
  <2>1. t \in DOMAIN heap /\ heap[t] \in Table_
    BY <1>9
  <2>2. ~InLoops(heap, w, t)
    <3> SUFFICES ASSUME NEW l \in 1..Len(w), t = KeysOf(heap, w, l) \/ t = ValuesOf(heap, w, l)
                 PROVE  FALSE
      BY DEF InLoops
    <3>1. l \in 1..Len(w2)
      BY <1>2, SMTT(20)
    <3> QED BY <1>3, <1>9, <3>1 DEF InLoops
  <2>3. t # kt
    <3>1. KeysOf(heap, w, L) = kt
      BY DEF KeysOf, kt
    <3> QED BY <2>2, <3>1 DEF InLoops
  <2>4. h[t] = heap[t]
    BY <2>1, <2>3 DEF kt
  <2> QED BY <1>1, <2>1, <2>2, <2>4 DEF Holes
<1>10. Holes(h, w2)
  BY <1>8, <1>9 DEF Holes
<1> QED BY <1>7, <1>10 DEF Progress

\* Behind its loop a value has no pointers left.
Ends(heap, held, w, L, v) ==
    /\ Shape(heap, held) /\ Progress(heap, w) /\ L \in 1..Len(w) /\ L = Len(w)
    /\ v = w[L].v /\ ~(heap[v].type \in Containers /\ w[L].i < heap[v].len)

LEMMA ValueEmpty ==
  ASSUME NEW heap, NEW held, NEW w, NEW L, NEW v, Ends(heap, held, w, L, v)
  PROVE  /\ v \in DOMAIN heap /\ heap[v] \in Val
         /\ Empty(heap, heap[v].keys) /\ Empty(heap, heap[v].values)
<1> SUFFICES ASSUME Shape(heap, held), Progress(heap, w), L \in 1..Len(w), L = Len(w),
                    v = w[L].v, ~(heap[v].type \in Containers /\ w[L].i < heap[v].len)
             PROVE  /\ v \in DOMAIN heap /\ heap[v] \in Val
                    /\ Empty(heap, heap[v].keys) /\ Empty(heap, heap[v].values)
  BY DEF Ends
<1>1. WorkOK(heap, w) /\ Holes(heap, w)
  BY DEF Progress
<1>2. v \in DOMAIN heap /\ heap[v] \in Val /\ w[L].i \in Nat /\ w[L].i <= heap[v].len
  BY <1>1, CallIs
<1>3. heap[v].len \in Nat /\ w[L].i = heap[v].len
  <2>1. heap[v].len \in Nat /\ (heap[v].type \notin Containers => heap[v].len = 0)
    BY <1>2, TablesIs
  <2> QED BY <1>2, <2>1
<1>4. KeysDone(w, L) = w[L].i /\ KeysOf(heap, w, L) = heap[v].keys /\ ValuesOf(heap, w, L) = heap[v].values
  BY <1>2 DEF KeysDone, KeysOf, ValuesOf
<1>5. ASSUME NEW t, t \in DOMAIN heap, heap[t] \in Table_, Len(heap[t].cells) = heap[v].len,
             \A j : Points(heap[t], j, NULL) <=> j \in 1..heap[v].len
      PROVE  Empty(heap, t)
  <2> SUFFICES ASSUME NEW j, NEW q, Points(heap[t], j, q) PROVE q = NULL
    BY DEF Empty
  <2>1. j \in 1..heap[v].len /\ q = heap[t].cells[j]
    BY <1>5, PointsTable
  <2>2. NULL = heap[t].cells[j]
    BY <1>5, <2>1, PointsTable
  <2> QED BY <2>1, <2>2
<1>6. Empty(heap, heap[v].keys)
  <2>1. CASE heap[v].keys = NULL
    BY <2>1 DEF Empty
  <2>2. CASE heap[v].keys # NULL
    <3>1. \A j : Points(heap[heap[v].keys], j, NULL) <=> j \in 1..heap[v].len
      BY <1>1, <1>3, <1>4, <2>2 DEF Holes
    <3>2. /\ heap[v].keys \in DOMAIN heap /\ heap[heap[v].keys] \in Table_
          /\ Len(heap[heap[v].keys].cells) = heap[v].len
      BY <1>2, <2>2, TablesIs
    <3> QED BY <1>5, <3>1, <3>2
  <2> QED BY <2>1, <2>2
<1>7. Empty(heap, heap[v].values)
  <2>1. CASE heap[v].values = NULL
    BY <2>1 DEF Empty
  <2>2. CASE heap[v].values # NULL
    <3>1. \A j : Points(heap[heap[v].values], j, NULL) <=> j \in 1..heap[v].len
      BY <1>1, <1>3, <1>4, <2>2 DEF Holes
    <3>2. /\ heap[v].values \in DOMAIN heap /\ heap[heap[v].values] \in Table_
          /\ Len(heap[heap[v].values].cells) = heap[v].len
      BY <1>2, <2>2, TablesIs
    <3> QED BY <1>5, <3>1, <3>2
  <2> QED BY <2>1, <2>2
<1> QED BY <1>2, <1>6, <1>7

\* The outermost call returns.
LEMMA ProgressOuter ==
  ASSUME NEW heap, NEW held, Shape(heap, held), NEW w, Progress(heap, w), Len(w) = 1,
         NEW v, v = w[1].v, NEW h, NEW held2, OuterFreed(heap, v, h, held2)
  PROVE  Full(h)
<1> SUFFICES ASSUME NEW t \in DOMAIN h, h[t] \in Table_, NEW j PROVE ~Points(h[t], j, NULL)
  BY DEF Full
<1>1. t \in DOMAIN heap /\ h[t] = heap[t] /\ t # heap[v].keys /\ t # heap[v].values
  BY DEF OuterFreed
<1>2. 1..Len(w) = {1}
  OBVIOUS
<1>3. ~InLoops(heap, w, t)
  BY <1>1, <1>2 DEF InLoops, KeysOf, ValuesOf
<1> QED BY <1>1, <1>3 DEF Progress, Holes

\* A call returns to the loop that made it, which goes on with its next member.
Returns(w, L, w2) ==
    /\ w2 \in Seq(Calls) /\ Len(w2) = L - 1
    /\ \A k \in 1..L - 1 : w2[k].v = w[k].v /\ w2[k].i = IF k = L - 1 THEN w[k].i + 1 ELSE w[k].i

ReturnsTo(heap, w, L, t, n) == L > 1 /\ t = ValuesOf(heap, w, L - 1) /\ n = w[L - 1].i + 1

LEMMA ProgressInner ==
  ASSUME NEW heap, NEW held, NEW w, NEW L, NEW v, Ends(heap, held, w, L, v),
         NEW t, NEW n, ReturnsTo(heap, w, L, t, n),
         NEW h, InnerFreed(heap, held, v, t, n, h), NEW w2, Returns(w, L, w2)
  PROVE  Progress(h, w2)
<1> SUFFICES ASSUME Shape(heap, held), Progress(heap, w), L \in 1..Len(w), L = Len(w), v = w[L].v,
                    L > 1, t = ValuesOf(heap, w, L - 1), n = w[L - 1].i + 1,
                    DOMAIN h = DOMAIN heap \ {v, heap[v].text, heap[v].keys, heap[v].values},
                    h[t] \in Table_,
                    \A k, q : Points(h[t], k, q) <=>
                                (k # n /\ Points(heap[t], k, q)) \/ (k = n /\ q = NULL),
                    \A x \in DOMAIN h : x # t => h[x] = heap[x],
                    w2 \in Seq(Calls), Len(w2) = L - 1,
                    \A k \in 1..L - 1 :
                       w2[k].v = w[k].v /\ w2[k].i = IF k = L - 1 THEN w[k].i + 1 ELSE w[k].i
             PROVE  Progress(h, w2)
  BY DEF Ends, ReturnsTo, Returns, InnerFreed
<1>1. WorkOK(heap, w) /\ Holes(heap, w) /\ NULL \notin DOMAIN heap
  BY DEF Progress, Shape, HeapOK
<1>2. v \in DOMAIN heap /\ heap[v] \in Val /\ L \in Nat /\ L - 1 \in 1..L
  BY <1>1, CallIs, SMTT(20)
<1>3. heap[v].text # NULL => heap[heap[v].text] \in Text
  <2> SUFFICES ASSUME heap[v].text # NULL PROVE heap[heap[v].text] \in Text
    OBVIOUS
  <2>1. Points(heap[v], 1, heap[v].text)
    BY <1>2, PointsVal
  <2>2. Edge(heap, held, v, 1, heap[v].text)
    BY <1>2, <2>1 DEF Edge
  <2>3. <<v, 1, heap[v].text>> \in Edges(heap, held)
    BY <2>2, EdgeIs DEF Shape
  <2>4. Fits_(heap, v, 1, heap[v].text)
    BY <2>3 DEF Shape
  <2> QED BY <1>1, <1>2, <2>4 DEF Fits_
<1>4. /\ heap[v].keys # NULL => heap[heap[v].keys] \in Table_
      /\ heap[v].values # NULL => heap[heap[v].values] \in Table_
  BY <1>2, TablesIs
<1>5. ASSUME NEW k \in 1..L - 1
      PROVE  /\ w[k].v \in DOMAIN heap /\ heap[w[k].v] \in Val /\ w[k].i \in Nat
             /\ w[k].v \in DOMAIN h /\ h[w[k].v] = heap[w[k].v]
             /\ w[k].i < heap[w[k].v].len /\ heap[w[k].v].len \in Nat
             /\ heap[w[k].v].type \in Containers
             /\ Points(heap[ValuesOf(heap, w, k)], w[k].i + 1, w[k + 1].v)
             /\ KeysOf(h, w2, k) = KeysOf(heap, w, k) /\ ValuesOf(h, w2, k) = ValuesOf(heap, w, k)
  <2>1. k \in 1..Len(w) /\ k < Len(w) /\ k # L
    OBVIOUS
  <2>2. w[k].v \in DOMAIN heap /\ heap[w[k].v] \in Val /\ w[k].i \in Nat
    BY <1>1, <2>1, CallIs
  <2>3. w[k].v # v
    BY <1>1, <2>1 DEF WorkOK
  <2>4. w[k].v \in DOMAIN h
    BY <1>1, <1>3, <1>4, <2>2, <2>3, KindsApart, SMTT(20)
  <2>5. h[t] \notin Val /\ h[w[k].v] = heap[w[k].v]
    <3>1. w[k].v # t
      <4>1. t # NULL => heap[t] \in Table_
        <5>1. L - 1 \in 1..Len(w)
          BY SMTT(20)
        <5>2. w[L - 1].v \in DOMAIN heap /\ heap[w[L - 1].v] \in Val
          BY <1>1, <5>1, CallIs
        <5> QED BY <5>2, TablesIs DEF ValuesOf
      <4> QED BY <1>1, <2>2, <4>1, KindsApart, SMTT(20)
    <3> QED BY <2>4, <3>1, KindsApart
  <2>6. /\ w[k].i < heap[w[k].v].len /\ heap[w[k].v].type \in Containers
        /\ Points(heap[ValuesOf(heap, w, k)], w[k].i + 1, w[k + 1].v)
    BY <1>1, <2>1 DEF WorkOK
  <2>7. heap[w[k].v].len \in Nat
    BY <2>2, TablesIs
  <2>8. KeysOf(h, w2, k) = KeysOf(heap, w, k) /\ ValuesOf(h, w2, k) = ValuesOf(heap, w, k)
    BY <2>5 DEF KeysOf, ValuesOf
  <2> QED BY <2>2, <2>4, <2>5, <2>6, <2>7, <2>8
\* The tables of the loops that go on are not those of v, and only the last
\* table of members is written to.
<1>6. ASSUME NEW k \in 1..L - 1
      PROVE  /\ KeysOf(heap, w, k) # NULL =>
                   /\ KeysOf(heap, w, k) \in DOMAIN h
                   /\ h[KeysOf(heap, w, k)] = heap[KeysOf(heap, w, k)]
             /\ ValuesOf(heap, w, k) # NULL /\ ValuesOf(heap, w, k) \in DOMAIN h
             /\ k # L - 1 => h[ValuesOf(heap, w, k)] = heap[ValuesOf(heap, w, k)]
  <2>1. k \in 1..Len(w) /\ k # L /\ L - 1 \in 1..Len(w)
    BY SMTT(20)
  <2>2. KeysOf(heap, w, L) = heap[v].keys /\ ValuesOf(heap, w, L) = heap[v].values
    BY DEF KeysOf, ValuesOf
  <2>3. heap[w[k].v].values # NULL
    <3>1. /\ w[k].i \in Nat /\ w[k].i < heap[w[k].v].len /\ heap[w[k].v].len \in Nat
          /\ w[k].v \in DOMAIN heap /\ heap[w[k].v] \in Val /\ heap[w[k].v].type \in Containers
      BY <1>5
    <3>2. heap[w[k].v].len # 0
      BY <3>1, SMTT(20)
    <3> QED BY <3>1, <3>2, ValuesThere, SMTT(20)
  <2>4. ValuesOf(heap, w, k) # NULL
    BY <2>3 DEF ValuesOf
  <2>5. ValuesOf(heap, w, k) \in DOMAIN heap /\ heap[ValuesOf(heap, w, k)] \in Table_
    BY <1>5, <2>3, TablesIs DEF ValuesOf
  <2>6. KeysOf(heap, w, k) # NULL =>
           KeysOf(heap, w, k) \in DOMAIN heap /\ heap[KeysOf(heap, w, k)] \in Table_
    BY <1>5, TablesIs DEF KeysOf
  <2>7. ValuesOf(heap, w, k) # heap[v].keys /\ ValuesOf(heap, w, k) # heap[v].values
    <3>1. ValuesOf(heap, w, k) # KeysOf(heap, w, L)
      BY <1>1, <2>1, <2>4, WorkTables
    <3>2. ValuesOf(heap, w, k) # ValuesOf(heap, w, L)
      BY <1>1, <2>1, <2>4, WorkTables, SMTT(20)
    <3> QED BY <2>2, <3>1, <3>2
  <2>8. KeysOf(heap, w, k) # NULL => KeysOf(heap, w, k) # heap[v].keys /\ KeysOf(heap, w, k) # heap[v].values
    <3>1. KeysOf(heap, w, k) # NULL => KeysOf(heap, w, k) # KeysOf(heap, w, L)
      BY <1>1, <2>1, WorkTables
    <3>2. KeysOf(heap, w, k) # NULL => KeysOf(heap, w, k) # ValuesOf(heap, w, L)
      BY <1>1, <2>1, WorkTables
    <3> QED BY <2>2, <3>1, <3>2
  <2>9. ASSUME NEW x, x \in DOMAIN heap, heap[x] \in Table_, x # heap[v].keys, x # heap[v].values
        PROVE  x \in DOMAIN h
    BY <1>1, <1>2, <1>3, <2>9, KindsApart
  <2>10. KeysOf(heap, w, k) # NULL => KeysOf(heap, w, k) # t
    BY <1>1, <2>1, WorkTables
  <2>11. k # L - 1 => ValuesOf(heap, w, k) # t
    BY <1>1, <2>1, <2>4, WorkTables
  <2>12. ValuesOf(heap, w, k) \in DOMAIN h
    BY <2>5, <2>7, <2>9
  <2>13. KeysOf(heap, w, k) # NULL => KeysOf(heap, w, k) \in DOMAIN h
    BY <2>6, <2>8, <2>9
  <2> QED BY <2>4, <2>10, <2>11, <2>12, <2>13
<1>7. WorkOK(h, w2)
  <2>1. ASSUME NEW k \in 1..Len(w2)
        PROVE  /\ w2[k].v \in DOMAIN h /\ h[w2[k].v] \in Val
               /\ w2[k].i <= h[w2[k].v].len
    <3>1. k \in 1..L - 1
      OBVIOUS
    <3>2. /\ w[k].v \in DOMAIN heap /\ heap[w[k].v] \in Val /\ w[k].i \in Nat
          /\ w[k].v \in DOMAIN h /\ h[w[k].v] = heap[w[k].v]
          /\ w[k].i < heap[w[k].v].len /\ heap[w[k].v].len \in Nat
      BY <1>5, <3>1
    <3>3. w2[k].v = w[k].v /\ (w2[k].i = w[k].i \/ w2[k].i = w[k].i + 1)
      BY <3>1
    <3>4. w2[k].i <= heap[w[k].v].len
      <4>1. \A a, b \in Nat : a < b => a <= b /\ a + 1 <= b
        BY SMTT(20)
      <4>2. w[k].i <= heap[w[k].v].len /\ w[k].i + 1 <= heap[w[k].v].len
        BY <3>2, <4>1, Zenon
      <4> QED BY <3>3, <4>2, Zenon
    <3> QED BY <3>2, <3>3, <3>4, Zenon
  <2>2. ASSUME NEW k \in 1..Len(w2), NEW l \in 1..Len(w2), w2[k].v = w2[l].v
        PROVE  k = l
    <3>1. k \in 1..Len(w) /\ l \in 1..Len(w) /\ w[k].v = w[l].v
      BY <2>2
    <3> QED BY <1>1, <3>1 DEF WorkOK
  <2>3. ASSUME NEW k \in 1..Len(w2), k < Len(w2)
        PROVE  /\ h[w2[k].v].type \in Containers /\ w2[k].i < h[w2[k].v].len
               /\ Points(h[ValuesOf(h, w2, k)], w2[k].i + 1, w2[k + 1].v)
    <3>1. k \in 1..L - 1 /\ k + 1 \in 1..L - 1 /\ k # L - 1
      BY <2>3, SMTT(20)
    <3>2. w2[k].i = w[k].i /\ w2[k].v = w[k].v /\ w2[k + 1].v = w[k + 1].v
      BY <3>1
    <3>3. /\ h[w[k].v] = heap[w[k].v]
          /\ w[k].i < heap[w[k].v].len /\ heap[w[k].v].type \in Containers
          /\ Points(heap[ValuesOf(heap, w, k)], w[k].i + 1, w[k + 1].v)
          /\ ValuesOf(h, w2, k) = ValuesOf(heap, w, k)
      BY <1>5, <3>1
    <3>4. h[ValuesOf(heap, w, k)] = heap[ValuesOf(heap, w, k)]
      BY <1>6, <3>1
    <3> QED BY <3>2, <3>3, <3>4
  <2> QED BY <2>1, <2>2, <2>3 DEF WorkOK
<1>8. ASSUME NEW k \in 1..Len(w2), NEW j
      PROVE  /\ KeysOf(h, w2, k) # NULL =>
                   (Points(h[KeysOf(h, w2, k)], j, NULL) <=> j \in 1..KeysDone(w2, k))
             /\ ValuesOf(h, w2, k) # NULL =>
                   (Points(h[ValuesOf(h, w2, k)], j, NULL) <=> j \in 1..w2[k].i)
  <2>1. k \in 1..L - 1 /\ k \in 1..Len(w) /\ k < Len(w)
    BY SMTT(20)
  <2>2. /\ KeysOf(heap, w, k) # NULL =>
              (Points(heap[KeysOf(heap, w, k)], j, NULL) <=> j \in 1..KeysDone(w, k))
        /\ ValuesOf(heap, w, k) # NULL =>
              (Points(heap[ValuesOf(heap, w, k)], j, NULL) <=> j \in 1..w[k].i)
    BY <1>1, <2>1 DEF Holes
  <2>3. w[k].i \in Nat /\ KeysDone(w, k) = w[k].i + 1
    BY <1>5, <2>1 DEF KeysDone
  <2>4. KeysDone(w2, k) = w[k].i + 1
    <3>1. CASE k = L - 1
      BY <2>1, <2>3, <3>1 DEF KeysDone
    <3>2. CASE k # L - 1
      BY <2>1, <2>3, <3>2 DEF KeysDone
    <3> QED BY <3>1, <3>2
  <2>5. KeysOf(heap, w, k) # NULL => (Points(h[KeysOf(heap, w, k)], j, NULL) <=> j \in 1..KeysDone(w2, k))
    BY <1>6, <2>1, <2>2, <2>3, <2>4
  <2>6. Points(h[ValuesOf(heap, w, k)], j, NULL) <=> j \in 1..w2[k].i
    <3>1. CASE k = L - 1
      <4>1. ValuesOf(heap, w, k) = t /\ w2[k].i = n /\ n = w[k].i + 1
        BY <2>1, <3>1
      <4>2. Points(h[t], j, NULL) <=> (j # n /\ Points(heap[t], j, NULL)) \/ j = n
        OBVIOUS
      <4>3. Points(heap[t], j, NULL) <=> j \in 1..w[k].i
        BY <1>6, <2>1, <2>2, <4>1
      <4>4. j \in 1..n <=> j \in 1..w[k].i \/ j = n
        BY <2>3, <4>1, SMTT(20)
      <4> QED BY <2>3, <4>1, <4>2, <4>3, <4>4
    <3>2. CASE k # L - 1
      BY <1>6, <2>1, <2>2, <3>2
    <3> QED BY <3>1, <3>2
  <2> QED BY <1>5, <2>1, <2>5, <2>6
<1>9. ASSUME NEW x \in DOMAIN h, h[x] \in Table_, ~InLoops(h, w2, x), NEW j
      PROVE  ~Points(h[x], j, NULL)
  <2>1. L - 1 \in 1..Len(w2) /\ ValuesOf(h, w2, L - 1) = t
    <3>1. L - 1 \in 1..L - 1 /\ L - 1 \in 1..Len(w2)
      BY SMTT(20)
    <3> QED BY <1>5, <3>1
  <2>2. x # t /\ x \in DOMAIN heap /\ h[x] = heap[x]
    BY <1>9, <2>1 DEF InLoops
  <2>3. ~InLoops(heap, w, x)
    <3> SUFFICES ASSUME NEW l \in 1..Len(w), x = KeysOf(heap, w, l) \/ x = ValuesOf(heap, w, l)
                 PROVE  FALSE
      BY DEF InLoops
    <3>1. CASE l = L
      BY <3>1 DEF KeysOf, ValuesOf
    <3>2. CASE l # L
      <4>1. l \in 1..L - 1 /\ l \in 1..Len(w2)
        BY <3>2, SMTT(20)
      <4>2. KeysOf(h, w2, l) = KeysOf(heap, w, l) /\ ValuesOf(h, w2, l) = ValuesOf(heap, w, l)
        BY <1>5, <4>1
      <4> QED BY <1>9, <4>1, <4>2 DEF InLoops
    <3> QED BY <3>1, <3>2
  <2> QED BY <1>1, <1>9, <2>2, <2>3 DEF Holes
<1>10. Holes(h, w2)
  BY <1>8, <1>9 DEF Holes
<1> QED BY <1>7, <1>10 DEF Progress

-----------------------------------------------------------------------------
(* The stack of the context against the open containers of the parse.  A    *)
(* map that has a container open has its key still waiting for it.          *)

FrameKinds == {"key", "value", "elem"}

Link(heap, fr, sp, k) ==
    /\ sp[k] \in DOMAIN heap /\ heap[sp[k]] \in Element
    /\ heap[sp[k]].next = IF k = 1 THEN NULL ELSE sp[k - 1]
    /\ heap[heap[sp[k]].value].type = IF fr[k] = "elem" THEN "array" ELSE "object"

Waits(heap, fr, sp, k) ==
    CASE fr[k] = "key" -> heap[sp[k]].key = NULL <=> k = Len(fr)
      [] fr[k] = "value" -> heap[sp[k]].key # NULL /\ k = Len(fr)
      [] OTHER -> TRUE

Spine(heap, s, fr, sp) ==
    /\ fr \in Seq(FrameKinds) /\ sp \in Seq(Nat) /\ Len(sp) = Len(fr)
    /\ s = IF fr = <<>> THEN NULL ELSE sp[Len(fr)]
    /\ \A k \in 1..Len(fr) : Link(heap, fr, sp, k) /\ Waits(heap, fr, sp, k)

\* The elements below the top, and what they hold.
LEMMA SpineApart ==
  ASSUME NEW heap, NEW held, Shape(heap, held), NEW fr, NEW sp, Spine(heap, held[1], fr, sp),
         NEW k \in 1..Len(fr)
  PROVE  /\ sp[k] \in DOMAIN heap /\ heap[sp[k]] \in Element /\ sp[k] # NULL
         /\ sp[k] = held[1] <=> k = Len(fr)
         /\ heap[sp[k]].value \in DOMAIN heap /\ heap[heap[sp[k]].value] \in Val
         /\ heap[heap[sp[k]].value].type \in Containers
         /\ heap[sp[k]].value # held[5]
<1> DEFINE E == Edges(heap, held)
<1>1. HeapOK(heap) /\ held \in Five /\ Owned(DOMAIN heap, E) /\ NULL \notin DOMAIN heap
  BY DEF Shape, HeapOK
<1>2. ASSUME NEW a, NEW i, NEW q
      PROVE  <<a, i, q>> \in E <=> Edge(heap, held, a, i, q)
  BY <1>1, EdgeIs
<1>3. \A a, i, q : <<a, i, q>> \in E => q \in DOMAIN heap /\ Fits_(heap, a, i, q)
  BY <1>1 DEF Owned, Shape
<1> HIDE DEF E
<1>4. Len(fr) \in Nat /\ fr # <<>> /\ held[1] = sp[Len(fr)] /\ Len(fr) \in 1..Len(fr)
  BY DEF Spine
<1>5. \A l \in 1..Len(fr) : /\ sp[l] \in DOMAIN heap /\ heap[sp[l]] \in Element
                            /\ heap[sp[l]].next = IF l = 1 THEN NULL ELSE sp[l - 1]
  BY DEF Spine, Link
<1>6. sp[k] \in DOMAIN heap /\ heap[sp[k]] \in Element /\ sp[k] # NULL
  BY <1>1, <1>5
<1>7. sp[k] = held[1] <=> k = Len(fr)
  <2> SUFFICES ASSUME k < Len(fr), sp[k] = held[1] PROVE FALSE
    BY <1>4
  <2>1. <<NULL, 1, sp[k]>> \in E
    BY <1>2, <1>6 DEF Edge
  <2>2. k + 1 \in 1..Len(fr) /\ k + 1 # 1 /\ k + 1 - 1 = k
    BY <1>4
  <2>3. sp[k + 1] \in DOMAIN heap /\ heap[sp[k + 1]] \in Element /\ heap[sp[k + 1]].next = sp[k]
    BY <1>5, <2>2
  <2>4. Points(heap[sp[k + 1]], 3, sp[k])
    BY <2>3, PointsElement
  <2>5. <<sp[k + 1], 3, sp[k]>> \in E
    BY <1>2, <1>6, <2>3, <2>4 DEF Edge
  <2>6. sp[k + 1] = NULL
    BY <1>1, <2>1, <2>5 DEF Owned
  <2> QED BY <1>1, <2>3, <2>6
<1>8. <<sp[k], 2, heap[sp[k]].value>> \in E
  <2>1. heap[sp[k]].value # NULL
    BY <1>6 DEF Shape
  <2>2. Points(heap[sp[k]], 2, heap[sp[k]].value)
    BY <1>6, PointsElement
  <2> QED BY <1>2, <1>6, <2>1, <2>2 DEF Edge
<1>9. /\ heap[sp[k]].value \in DOMAIN heap /\ heap[heap[sp[k]].value] \in Val
      /\ heap[heap[sp[k]].value].type \in Containers
  <2>1. Fits_(heap, sp[k], 2, heap[sp[k]].value) /\ heap[sp[k]].value \in DOMAIN heap
    BY <1>3, <1>8
  <2> QED BY <1>6, <2>1 DEF Fits_
<1>10. heap[sp[k]].value # held[5]
  <2> SUFFICES ASSUME heap[sp[k]].value = held[5] PROVE FALSE
    OBVIOUS
  <2>1. <<NULL, 5, heap[sp[k]].value>> \in E
    BY <1>1, <1>2, <1>9 DEF Edge
  <2> QED BY <1>1, <1>6, <1>8, <2>1 DEF Owned
<1> QED BY <1>6, <1>7, <1>9, <1>10

\* What a step that keeps the blocks keeps of the stack.
LEMMA LinkKept ==
  ASSUME NEW heap, NEW held, Shape(heap, held), NEW fr, NEW sp, Spine(heap, held[1], fr, sp),
         NEW h, NEW e, NEW freed, Kept(heap, h, e, freed),
         NEW k \in 1..Len(fr), sp[k] \notin freed, heap[sp[k]].value \notin freed
  PROVE  /\ Link(h, fr, sp, k) /\ h[sp[k]].value = heap[sp[k]].value
         /\ sp[k] # e => h[sp[k]].key = heap[sp[k]].key
<1>1. /\ sp[k] \in DOMAIN heap /\ heap[sp[k]] \in Element
      /\ heap[sp[k]].value \in DOMAIN heap /\ heap[heap[sp[k]].value] \in Val
  BY SpineApart
<1>2. Link(heap, fr, sp, k)
  BY DEF Spine
<1>3. /\ sp[k] \in DOMAIN h /\ Alike(heap[sp[k]], h[sp[k]])
      /\ h[sp[k]].value = heap[sp[k]].value /\ h[sp[k]].next = heap[sp[k]].next
      /\ sp[k] # e => h[sp[k]].key = heap[sp[k]].key
  BY <1>1 DEF Kept
<1>4. Alike(heap[heap[sp[k]].value], h[heap[sp[k]].value])
  BY <1>1 DEF Kept
<1>5. h[sp[k]] \in Element
  BY <1>1, <1>3 DEF Alike
<1>6. h[heap[sp[k]].value].type = heap[heap[sp[k]].value].type
  BY <1>1, <1>4 DEF Alike
<1> QED BY <1>2, <1>3, <1>5, <1>6 DEF Link

LEMMA SpineKept ==
  ASSUME NEW heap, NEW held, Shape(heap, held), NEW fr, NEW sp, Spine(heap, held[1], fr, sp),
         NEW h, Kept(heap, h, NULL, {})
  PROVE  Spine(h, held[1], fr, sp)
<1>1. ASSUME NEW k \in 1..Len(fr)
      PROVE  Link(h, fr, sp, k) /\ Waits(h, fr, sp, k)
  <2>1. Link(h, fr, sp, k) /\ (sp[k] # NULL => h[sp[k]].key = heap[sp[k]].key)
    BY LinkKept
  <2>2. sp[k] # NULL
    BY SpineApart
  <2>3. Waits(heap, fr, sp, k)
    BY DEF Spine
  <2> QED BY <2>1, <2>2, <2>3 DEF Waits
<1> QED BY <1>1 DEF Spine

-----------------------------------------------------------------------------
(* The operators on contexts.  v is a local variable of the callback.       *)

Ctx(c, heap, s, r) ==
    /\ DOMAIN c = {"heap", "stack", "root", "fault"}
    /\ c.heap = heap /\ c.stack = s /\ c.root = r /\ c.fault = "none"

Places_(c, v) == <<c.stack, c.root, NULL, NULL, v>>

CtxOK(c, fr, v) ==
    /\ Ctx(c, c.heap, c.stack, c.root)
    /\ Shape(c.heap, Places_(c, v)) /\ Full(c.heap)
    /\ \E sp : Spine(c.heap, c.stack, fr, sp)

LEMMA PlacesIs ==
  ASSUME NEW c, NEW v
  PROVE  /\ Places_(c, v)[1] = c.stack /\ Places_(c, v)[2] = c.root /\ Places_(c, v)[3] = NULL
         /\ Places_(c, v)[4] = NULL /\ Places_(c, v)[5] = v
         /\ c.stack \in Nat /\ c.root \in Nat /\ v \in Nat => Places_(c, v) \in Five
BY FiveIs DEF Places_, NULL

LEMMA PlacesNat ==
  ASSUME NEW c, NEW v, Places_(c, v) \in Five
  PROVE  c.stack \in Nat /\ c.root \in Nat /\ v \in Nat
<1>1. \A k \in 1..5 : Places_(c, v)[k] \in Nat
  BY DEF Five
<1> QED BY <1>1, PlacesIs

\* What a value leaves behind among the open containers.
Past(fr) == IF fr # <<>> /\ fr[Len(fr)] = "value" THEN [fr EXCEPT ![Len(fr)] = "key"] ELSE fr

LEMMA AddRootIs ==
  ASSUME NEW c, NEW v, CtxOK(c, <<>>, v), v # NULL, c.root = NULL
  PROVE  CtxOK(context_add_value(c, v), <<>>, NULL) /\ context_add_value(c, v).root = v
<1> DEFINE d == context_add_value(c, v)
<1>1. PICK sp : Spine(c.heap, c.stack, <<>>, sp)
  BY DEF CtxOK
<1>2. c.stack = NULL
  BY <1>1 DEF Spine
<1>3. d = [c EXCEPT !.root = v]
  BY <1>2 DEF context_add_value
<1>4. Ctx(d, c.heap, NULL, v)
  BY <1>2, <1>3 DEF CtxOK, Ctx
<1> HIDE DEF d
<1>5. Shape(c.heap, Places_(c, v)) /\ Places_(c, v) \in Five /\ v \in Nat
  <2>1. Shape(c.heap, Places_(c, v)) /\ Places_(c, v) \in Five
    BY DEF CtxOK, Shape
  <2> QED BY <2>1, PlacesNat
<1>6. Shape(d.heap, Places_(d, NULL))
  <2> DEFINE p == Places_(c, v)
             q == Places_(d, NULL)
  <2>1. /\ p[1] = NULL /\ p[2] = NULL /\ p[3] = NULL /\ p[4] = NULL /\ p[5] = v
        /\ q[1] = NULL /\ q[2] = v /\ q[3] = NULL /\ q[4] = NULL /\ q[5] = NULL
    BY <1>2, <1>4, PlacesIs DEF Ctx
  <2>2. q \in Five
    BY <1>4, <1>5, PlacesIs DEF Ctx, NULL
  <2> HIDE DEF p, q
  <2>3. 5 \in 2..5 /\ 2 \in 2..5 /\ 5 # 2 /\ \A k \in 1..5 : k # 5 /\ k # 2 => q[k] = p[k]
    BY <2>1
  <2>4. Shape(c.heap, p)
    BY <1>5 DEF p
  <2>5. Shape(c.heap, q)
    BY <2>1, <2>2, <2>3, <2>4, HeldStep
  <2> QED BY <1>4, <2>5 DEF q, Ctx
<1>7. Full(d.heap) /\ Spine(d.heap, d.stack, <<>>, sp)
  BY <1>1, <1>2, <1>4 DEF CtxOK, Ctx
<1>8. Ctx(d, d.heap, d.stack, d.root) /\ d.root = v
  BY <1>4 DEF Ctx
<1> QED BY <1>6, <1>7, <1>8 DEF CtxOK, d

\* The step of the heap under an operator that makes d of c.
LEMMA CtxStep ==
  ASSUME NEW c, NEW v, NEW d, NEW h, NEW s, Ctx(d, h, s, c.root),
         NEW w \in Nat, s \in Nat, NEW fr, NEW fr2, NEW sp,
         CtxOK(c, fr, v), Shape(h, <<s, c.root, NULL, NULL, w>>), Full(h), Spine(h, s, fr2, sp)
  PROVE  CtxOK(d, fr2, w) /\ d.root = c.root
<1>1. d.heap = h /\ d.stack = s /\ d.root = c.root
  BY DEF Ctx
<1>2. Ctx(d, d.heap, d.stack, d.root)
  BY <1>1 DEF Ctx
<1>3. Places_(d, w) = <<s, c.root, NULL, NULL, w>>
  BY <1>1 DEF Places_
<1> QED BY <1>1, <1>2, <1>3, Zenon DEF CtxOK

LEMMA AddElementIs ==
  ASSUME NEW c, NEW fr, NEW v, CtxOK(c, fr, v), v # NULL, fr # <<>>, fr[Len(fr)] = "elem"
  PROVE  CtxOK(context_add_value(c, v), fr, NULL) /\ context_add_value(c, v).root = c.root
<1> DEFINE d == context_add_value(c, v)
           p == Places_(c, v)
           q == <<c.stack, c.root, NULL, NULL, NULL>>
           heap == c.heap
           o == Top(c).value
           h == Counted(Join(heap, o, "values", v), o)
<1>1. PICK sp : Spine(heap, c.stack, fr, sp)
  BY DEF CtxOK
<1>2. Shape(heap, p) /\ p \in Five /\ Full(heap) /\ p[1] = c.stack /\ p[5] = v
  BY PlacesIs DEF CtxOK, Shape
<1>3. c.stack \in Nat /\ c.root \in Nat /\ v \in Nat
  BY <1>2, PlacesNat
<1> HIDE DEF p
<1>4. Len(fr) \in 1..Len(fr) /\ c.stack = sp[Len(fr)]
  BY <1>1 DEF Spine
<1>5. Spine(heap, p[1], fr, sp)
  BY <1>1, <1>2
<1>6. /\ o = heap[sp[Len(fr)]].value /\ c.stack # NULL
      /\ o \in DOMAIN heap /\ heap[o] \in Val /\ heap[o].type = "array"
  <2>1. o = heap[sp[Len(fr)]].value
    BY <1>4 DEF Top
  <2>2. sp[Len(fr)] # NULL /\ heap[sp[Len(fr)]].value \in DOMAIN heap /\ heap[heap[sp[Len(fr)]].value] \in Val
    BY <1>2, <1>4, <1>5, SpineApart
  <2>3. Link(heap, fr, sp, Len(fr))
    BY <1>1, <1>4 DEF Spine
  <2> QED BY <1>4, <2>1, <2>2, <2>3 DEF Link
<1>7. d = array_add_value(c, v)
  <2>1. "array" # "object"
    OBVIOUS
  <2> QED BY <1>6, <2>1 DEF context_add_value
<1>8. Ctx(d, h, c.stack, c.root)
  <2> HIDE DEF d
  <2>1. d = [c EXCEPT !.heap = h]
    BY <1>7 DEF array_add_value, Counted
  <2> HIDE DEF h
  <2> QED BY <2>1 DEF CtxOK, Ctx
<1>20. p[1] # NULL /\ o = heap[p[1]].value
  BY <1>2, <1>6 DEF Top
<1> HIDE DEF d, o, heap
<1>9. q \in Five /\ q[5] = NULL /\ \A k \in 1..4 : q[k] = p[k]
  <2>1. q \in Five
    BY <1>3, FiveIs DEF NULL
  <2>2. p[1] = c.stack /\ p[2] = c.root /\ p[3] = NULL /\ p[4] = NULL
    BY PlacesIs DEF p
  <2>3. \A k \in 1..4 : k = 1 \/ k = 2 \/ k = 3 \/ k = 4
    OBVIOUS
  <2> QED BY <2>1, <2>2, <2>3
<1>10. Shape(h, q) /\ Kept(heap, h, NULL, {}) /\ (Full(heap) => Full(h))
  <2> HIDE DEF q
  <2>1. h = Counted(Join(heap, o, "values", v), o)
    OBVIOUS
  <2> HIDE DEF h
  <2> QED BY <1>2, <1>6, <1>9, <1>20, <2>1, ArrayAddShape
<1> HIDE DEF h
<1>11. Spine(h, c.stack, fr, sp)
  <2>1. Spine(h, p[1], fr, sp)
    BY <1>2, <1>5, <1>10, SpineKept
  <2> QED BY <1>2, <2>1
<1>12. NULL \in Nat
  BY DEF NULL
<1> QED BY <1>2, <1>3, <1>8, <1>10, <1>11, <1>12, CtxStep DEF d, heap

\* A place that is given away.
LEMMA PlacesGiven ==
  ASSUME NEW c, NEW v, Places_(c, v) \in Five,
         NEW q, q = <<c.stack, c.root, NULL, NULL, NULL>>
  PROVE  q \in Five /\ q[5] = NULL /\ \A k \in 1..4 : q[k] = Places_(c, v)[k]
<1>1. c.stack \in Nat /\ c.root \in Nat /\ v \in Nat
  BY PlacesNat
<1>2. q \in Five
  BY <1>1, FiveIs DEF NULL
<1>3. /\ Places_(c, v)[1] = c.stack /\ Places_(c, v)[2] = c.root
      /\ Places_(c, v)[3] = NULL /\ Places_(c, v)[4] = NULL
  BY PlacesIs
<1>4. \A k \in 1..4 : k = 1 \/ k = 2 \/ k = 3 \/ k = 4
  OBVIOUS
<1> QED BY <1>2, <1>3, <1>4

\* The top of the stack.
LEMMA TopIs ==
  ASSUME NEW c, NEW fr, NEW v, CtxOK(c, fr, v), fr # <<>>,
         NEW sp, Spine(c.heap, c.stack, fr, sp)
  PROVE  /\ Len(fr) \in 1..Len(fr) /\ c.stack = sp[Len(fr)] /\ c.stack # NULL
         /\ c.stack \in DOMAIN c.heap /\ Top(c) = c.heap[c.stack] /\ Top(c) \in Element
         /\ Top(c).value \in DOMAIN c.heap /\ c.heap[Top(c).value] \in Val
         /\ c.heap[Top(c).value].type = (IF fr[Len(fr)] = "elem" THEN "array" ELSE "object")
         /\ fr[Len(fr)] = "key" => Top(c).key = NULL
         /\ fr[Len(fr)] = "value" => Top(c).key # NULL
<1>1. Shape(c.heap, Places_(c, v)) /\ Places_(c, v)[1] = c.stack
  BY PlacesIs DEF CtxOK
<1>2. Len(fr) \in 1..Len(fr) /\ c.stack = sp[Len(fr)]
  BY DEF Spine
<1>3. Link(c.heap, fr, sp, Len(fr)) /\ Waits(c.heap, fr, sp, Len(fr))
  BY <1>2 DEF Spine
<1>4. Spine(c.heap, Places_(c, v)[1], fr, sp)
  BY <1>1
<1>5. /\ sp[Len(fr)] \in DOMAIN c.heap /\ c.heap[sp[Len(fr)]] \in Element /\ sp[Len(fr)] # NULL
      /\ c.heap[sp[Len(fr)]].value \in DOMAIN c.heap /\ c.heap[c.heap[sp[Len(fr)]].value] \in Val
  BY <1>1, <1>2, <1>4, SpineApart
<1>6. Top(c) = c.heap[sp[Len(fr)]]
  BY <1>2 DEF Top
<1>7. c.heap[c.heap[sp[Len(fr)]].value].type = IF fr[Len(fr)] = "elem" THEN "array" ELSE "object"
  BY <1>3, Zenon DEF Link
<1>8. fr[Len(fr)] = "key" => c.heap[sp[Len(fr)]].key = NULL
  BY <1>3 DEF Waits
<1>9. fr[Len(fr)] = "value" => c.heap[sp[Len(fr)]].key # NULL
  BY <1>3 DEF Waits
<1> QED BY <1>2, <1>5, <1>6, <1>7, <1>8, <1>9

\* Only the top of the stack has its key changed.
Keyed(heap, held, fr, sp, h, freed, fr2) ==
    /\ Shape(heap, held) /\ Spine(heap, held[1], fr, sp) /\ fr # <<>>
    /\ Kept(heap, h, held[1], freed)
    /\ \A k \in 1..Len(fr) : sp[k] \notin freed /\ heap[sp[k]].value \notin freed
    /\ fr2 \in Seq(FrameKinds) /\ Len(fr2) = Len(fr)
    /\ \A k \in 1..Len(fr) - 1 : fr2[k] = fr[k]
    /\ fr[Len(fr)] \in {"key", "value"} /\ fr2[Len(fr)] \in {"key", "value"}
    /\ fr2[Len(fr)] = "key" <=> h[held[1]].key = NULL

LEMMA SpineKeyed ==
  ASSUME NEW heap, NEW held, NEW fr, NEW sp, NEW h, NEW freed, NEW fr2,
         Keyed(heap, held, fr, sp, h, freed, fr2)
  PROVE  Spine(h, held[1], fr2, sp)
<1> SUFFICES ASSUME Shape(heap, held), Spine(heap, held[1], fr, sp), fr # <<>>,
                    Kept(heap, h, held[1], freed),
                    \A k \in 1..Len(fr) : sp[k] \notin freed /\ heap[sp[k]].value \notin freed,
                    fr2 \in Seq(FrameKinds), Len(fr2) = Len(fr),
                    \A k \in 1..Len(fr) - 1 : fr2[k] = fr[k],
                    fr[Len(fr)] \in {"key", "value"}, fr2[Len(fr)] \in {"key", "value"},
                    fr2[Len(fr)] = "key" <=> h[held[1]].key = NULL
             PROVE  Spine(h, held[1], fr2, sp)
  BY DEF Keyed
<1>1. Len(fr) \in 1..Len(fr) /\ held[1] = sp[Len(fr)] /\ fr2 # <<>>
  BY DEF Spine
<1>2. ASSUME NEW k \in 1..Len(fr)
      PROVE  Link(h, fr2, sp, k) /\ Waits(h, fr2, sp, k)
  <2>1. Link(h, fr, sp, k) /\ (sp[k] # held[1] => h[sp[k]].key = heap[sp[k]].key)
    BY LinkKept
  <2>2. sp[k] = held[1] <=> k = Len(fr)
    BY SpineApart
  <2>3. Waits(heap, fr, sp, k)
    BY DEF Spine
  <2>4. CASE k = Len(fr)
    <3>1. fr2[k] # "elem" /\ fr[k] # "elem"
      BY <2>4
    <3>2. Link(h, fr2, sp, k)
      BY <2>1, <3>1 DEF Link
    <3>3. Waits(h, fr2, sp, k)
      BY <1>1, <2>4 DEF Waits
    <3> QED BY <3>2, <3>3
  <2>5. CASE k # Len(fr)
    <3>1. fr2[k] = fr[k]
      BY <2>5
    <3>2. Link(h, fr2, sp, k)
      BY <2>1, <3>1 DEF Link
    <3>3. Waits(h, fr2, sp, k)
      BY <2>1, <2>2, <2>3, <2>5, <3>1 DEF Waits
    <3> QED BY <3>2, <3>3
  <2> QED BY <2>4, <2>5
<1> QED BY <1>1, <1>2 DEF Spine

LEMMA AddMemberIs ==
  ASSUME NEW c, NEW fr, NEW v, CtxOK(c, fr, v), v # NULL, fr # <<>>, fr[Len(fr)] = "value"
  PROVE  /\ CtxOK(context_add_value(c, v), [fr EXCEPT ![Len(fr)] = "key"], NULL)
         /\ context_add_value(c, v).root = c.root
<1> DEFINE d == context_add_value(c, v)
           p == Places_(c, v)
           q == <<c.stack, c.root, NULL, NULL, NULL>>
           heap == c.heap
           e == c.stack
           key == Top(c).key
           o == Top(c).value
           h1 == Join(heap, o, "keys", key)
           h2 == Join(h1, o, "values", v)
           h == Unkeyed(h2, o, e)
           fr2 == [fr EXCEPT ![Len(fr)] = "key"]
<1>1. PICK sp : Spine(heap, e, fr, sp)
  BY DEF CtxOK
<1>2. Shape(heap, p) /\ p \in Five /\ Full(heap) /\ p[1] = e /\ p[5] = v
  BY PlacesIs DEF CtxOK, Shape
<1>3. e \in Nat /\ c.root \in Nat /\ v \in Nat
  BY <1>2, PlacesNat
<1>4. q \in Five /\ q[5] = NULL /\ \A k \in 1..4 : q[k] = p[k]
  BY <1>2, PlacesGiven
<1> HIDE DEF p
<1>5. /\ Len(fr) \in 1..Len(fr) /\ e # NULL /\ e \in DOMAIN heap /\ Top(c) = heap[e]
      /\ Top(c) \in Element /\ o \in DOMAIN heap /\ heap[o] \in Val /\ heap[o].type = "object"
      /\ key # NULL
  <2>1. fr[Len(fr)] # "elem"
    OBVIOUS
  <2> QED BY <1>1, <2>1, TopIs
<1>6. key \in Nat /\ o = heap[e].value /\ key = heap[e].key
  BY <1>5 DEF Element
<1>7. d = object_add_keyval(c, v)
  BY <1>5 DEF context_add_value
<1>8. Ctx(d, h, e, c.root)
  <2> HIDE DEF d
  <2>1. d = [c EXCEPT !.heap = h]
    BY <1>7 DEF object_add_keyval, Unkeyed
  <2> HIDE DEF h
  <2> QED BY <2>1 DEF CtxOK, Ctx
<1> HIDE DEF d, o, key, heap, e, q
<1>9. PICK kt, vt : Both(heap, o, key, v, kt, vt, h2)
  <2>1. h1 = Join(heap, o, "keys", key) /\ h2 = Join(h1, o, "values", v)
    OBVIOUS
  <2> HIDE DEF h1, h2
  <2> QED BY <1>2, <1>3, <1>5, <1>6, <2>1, JoinBoth
<1> HIDE DEF h1, h2
<1>10. Shape(h, q) /\ Kept(heap, h, e, {}) /\ h[e].key = NULL /\ (Full(heap) => Full(h))
  <2>1. h = Unkeyed(h2, o, e)
    OBVIOUS
  <2> HIDE DEF h
  <2>2. ObjectAdds(heap, p, e, o, key, v, h2, kt, vt, h, q)
    BY <1>2, <1>4, <1>5, <1>6, <1>9, <2>1 DEF ObjectAdds
  <2> QED BY <2>2, ObjectAddShape
<1> HIDE DEF h
<1>11. Spine(h, e, fr2, sp)
  <2>1. fr \in Seq(FrameKinds)
    BY <1>1 DEF Spine
  <2>2. /\ fr2 \in Seq(FrameKinds) /\ Len(fr2) = Len(fr) /\ fr2[Len(fr)] = "key"
        /\ \A k \in 1..Len(fr) - 1 : fr2[k] = fr[k]
    BY <1>5, <2>1 DEF FrameKinds
  <2> HIDE DEF fr2
  <2>3. Spine(heap, p[1], fr, sp) /\ Kept(heap, h, p[1], {}) /\ h[p[1]].key = NULL
    BY <1>1, <1>2, <1>10
  <2>4. Spine(h, p[1], fr2, sp)
    <3>1. Keyed(heap, p, fr, sp, h, {}, fr2)
      BY <1>2, <2>2, <2>3 DEF Keyed
    <3> QED BY <3>1, SpineKeyed
  <2> QED BY <1>2, <2>4
<1> HIDE DEF fr2
<1>12. Shape(h, <<e, c.root, NULL, NULL, NULL>>)
  BY <1>10 DEF q, e
<1>13. CtxOK(d, fr2, NULL) /\ d.root = c.root
  <2>1. NULL \in Nat
    BY DEF NULL
  <2> QED BY <1>2, <1>3, <1>8, <1>10, <1>11, <1>12, <2>1, CtxStep, SMTT(20)
<1> QED BY <1>13 DEF d, fr2

\* A value, told where one is expected.
LEMMA AddValueIs ==
  ASSUME NEW c, NEW fr, NEW v, CtxOK(c, fr, v), v # NULL,
         fr = <<>> => c.root = NULL, fr # <<>> => fr[Len(fr)] \in {"value", "elem"}
  PROVE  /\ CtxOK(context_add_value(c, v), Past(fr), NULL)
         /\ context_add_value(c, v).root = IF fr = <<>> THEN v ELSE c.root
<1>1. CASE fr = <<>>
  BY <1>1, AddRootIs DEF Past
<1>2. CASE fr # <<>> /\ fr[Len(fr)] = "value"
  BY <1>2, AddMemberIs DEF Past
<1>3. CASE fr # <<>> /\ fr[Len(fr)] = "elem"
  <2>1. Past(fr) = fr
    BY <1>3 DEF Past
  <2> QED BY <1>3, <2>1, AddElementIs
<1> QED BY <1>1, <1>2, <1>3
\* The local variable of a callback.
LEMMA LocalIs ==
  ASSUME NEW c, NEW fr, NEW v, CtxOK(c, fr, v)
  PROVE  /\ Shape(c.heap, Places_(c, v)) /\ Places_(c, v) \in Five /\ HeapOK(c.heap)
         /\ Places_(c, v)[1] = c.stack /\ Places_(c, v)[5] = v
         /\ c.stack \in Nat /\ c.root \in Nat /\ v \in Nat
         /\ v # NULL => v \in DOMAIN c.heap /\ c.heap[v] \in Val
<1> DEFINE p == Places_(c, v)
           E == Edges(c.heap, p)
<1>1. Shape(c.heap, p) /\ p \in Five /\ HeapOK(c.heap) /\ Owned(DOMAIN c.heap, E)
  BY DEF CtxOK, Shape
<1>2. p[1] = c.stack /\ p[5] = v
  BY PlacesIs
<1>3. c.stack \in Nat /\ c.root \in Nat /\ v \in Nat
  BY <1>1, PlacesNat
<1>4. v # NULL => v \in DOMAIN c.heap /\ c.heap[v] \in Val
  <2> SUFFICES ASSUME v # NULL PROVE v \in DOMAIN c.heap /\ c.heap[v] \in Val
    OBVIOUS
  <2> HIDE DEF p
  <2>1. Edge(c.heap, p, NULL, 5, v)
    BY <1>2 DEF Edge
  <2>2. <<NULL, 5, v>> \in E
    BY <1>1, <2>1, EdgeIs
  <2>3. v \in DOMAIN c.heap
    BY <1>1, <2>2 DEF Owned
  <2>4. Fits_(c.heap, NULL, 5, v)
    BY <1>1, <2>2 DEF Shape
  <2> QED BY <2>3, <2>4 DEF Fits_
<1> QED BY <1>1, <1>2, <1>3, <1>4

\* A key, told where one is expected.
LEMMA TakeKeyIs ==
  ASSUME NEW c, NEW fr, NEW v, CtxOK(c, fr, v), v # NULL, fr # <<>>, fr[Len(fr)] = "key",
         c.heap[v].type = "string", c.heap[v].text # NULL
  PROVE  /\ CtxOK(context_add_value(c, v), [fr EXCEPT ![Len(fr)] = "value"], NULL)
         /\ context_add_value(c, v).root = c.root
<1> DEFINE d == context_add_value(c, v)
           p == Places_(c, v)
           q == <<c.stack, c.root, NULL, NULL, NULL>>
           heap == c.heap
           e == c.stack
           text == c.heap[v].text
           h == Free(Store(heap, e, [heap[e] EXCEPT !.key = text]), v)
           fr2 == [fr EXCEPT ![Len(fr)] = "value"]
<1>1. PICK sp : Spine(heap, e, fr, sp)
  BY DEF CtxOK
<1>2. Shape(heap, p) /\ p \in Five /\ Full(heap) /\ p[1] = e /\ p[5] = v /\ heap[v] \in Val
  <2>1. Full(heap)
    BY DEF CtxOK
  <2> QED BY <2>1, LocalIs
<1>3. e \in Nat /\ c.root \in Nat /\ v \in Nat
  BY LocalIs
<1>4. q \in Five /\ q[5] = NULL /\ \A k \in 1..4 : q[k] = p[k]
  BY <1>2, PlacesGiven
<1> HIDE DEF p
<1>5. /\ Len(fr) \in 1..Len(fr) /\ e # NULL /\ e \in DOMAIN heap /\ Top(c) = heap[e]
      /\ Top(c).key = NULL /\ heap[Top(c).value].type = "object"
  <2>1. fr[Len(fr)] # "elem"
    OBVIOUS
  <2> QED BY <1>1, <2>1, TopIs
<1>6. d = take_key(c, v)
  BY <1>5 DEF context_add_value
<1>7. Ctx(d, h, e, c.root)
  <2> HIDE DEF d
  <2>1. d = [c EXCEPT !.heap = h]
    BY <1>5, <1>6 DEF take_key
  <2> HIDE DEF h
  <2> QED BY <2>1 DEF CtxOK, Ctx
<1>8. text # NULL /\ text = heap[v].text /\ heap[e].key = NULL /\ heap[v].type \notin Containers
  <2>1. "string" \notin Containers
    BY DEF Containers
  <2> QED BY <1>5, <2>1
<1> HIDE DEF d, text, heap, e, q
<1>9. Shape(h, q) /\ Kept(heap, h, e, {v}) /\ h[e].key = text /\ (Full(heap) => Full(h))
  <2>1. h = Free(Store(heap, e, [heap[e] EXCEPT !.key = text]), v)
    OBVIOUS
  <2> HIDE DEF h
  <2>2. TakesKey(heap, p, e, v, text, h, q)
    BY <1>2, <1>4, <1>5, <1>8, <2>1 DEF TakesKey
  <2> QED BY <2>2, TakeKeyShape
<1> HIDE DEF h
<1>10. Spine(h, e, fr2, sp)
  <2>1. fr \in Seq(FrameKinds)
    BY <1>1 DEF Spine
  <2>2. /\ fr2 \in Seq(FrameKinds) /\ Len(fr2) = Len(fr) /\ fr2[Len(fr)] = "value"
        /\ \A k \in 1..Len(fr) - 1 : fr2[k] = fr[k]
    BY <1>5, <2>1 DEF FrameKinds
  <2> HIDE DEF fr2
  <2>3. Spine(heap, p[1], fr, sp) /\ Kept(heap, h, p[1], {v}) /\ h[p[1]].key # NULL
    BY <1>1, <1>2, <1>8, <1>9
  <2>4. ASSUME NEW k \in 1..Len(fr) PROVE sp[k] \notin {v} /\ heap[sp[k]].value \notin {v}
    <3>1. heap[sp[k]] \in Element /\ heap[sp[k]].value # p[5]
      BY <1>2, <2>3, SpineApart
    <3> QED BY <1>2, <3>1, KindsApart
  <2>5. Keyed(heap, p, fr, sp, h, {v}, fr2)
    BY <1>2, <2>2, <2>3, <2>4 DEF Keyed
  <2>6. Spine(h, p[1], fr2, sp)
    BY <2>5, SpineKeyed
  <2> QED BY <1>2, <2>6
<1> HIDE DEF fr2
<1>11. Shape(h, <<e, c.root, NULL, NULL, NULL>>)
  BY <1>9 DEF q, e
<1>12. CtxOK(d, fr2, NULL) /\ d.root = c.root
  <2>1. NULL \in Nat
    BY DEF NULL
  <2> QED BY <1>2, <1>3, <1>7, <1>9, <1>10, <1>11, <2>1, CtxStep
<1> QED BY <1>12 DEF d, fr2

\* value_alloc
LEMMA AllocIs ==
  ASSUME NEW c, NEW fr, CtxOK(c, fr, NULL), NEW b \in Val,
         ValShape(b), b.text = NULL, b.keys = NULL, b.values = NULL
  PROVE  /\ CtxOK(value_alloc(c, b), fr, Fresh(c.heap)) /\ value_alloc(c, b).root = c.root
         /\ Fresh(c.heap) # NULL /\ value_alloc(c, b).heap[Fresh(c.heap)] = b
<1> DEFINE d == value_alloc(c, b)
           p == Places_(c, NULL)
           a == Fresh(c.heap)
           q == <<c.stack, c.root, NULL, NULL, a>>
           heap == c.heap
           h == Store(heap, a, b)
<1>1. PICK sp : Spine(heap, c.stack, fr, sp)
  BY DEF CtxOK
<1>2. /\ Shape(heap, p) /\ p \in Five /\ Full(heap) /\ p[1] = c.stack /\ p[5] = NULL
      /\ HeapOK(heap) /\ c.stack \in Nat /\ c.root \in Nat
  <2>1. Full(heap)
    BY DEF CtxOK
  <2> QED BY <2>1, LocalIs
<1>3. a \in Nat \ {NULL} /\ a \notin DOMAIN heap
  BY <1>2, FreshIs
<1>4. Ctx(d, h, c.stack, c.root)
  <2>1. d = [c EXCEPT !.heap = h]
    BY DEF value_alloc
  <2> HIDE DEF d, h
  <2> QED BY <2>1 DEF CtxOK, Ctx
<1>5. q \in Five /\ q[5] = a /\ \A k \in 1..4 : q[k] = p[k]
  <2>1. q \in Five
    BY <1>2, <1>3, FiveIs DEF NULL
  <2>2. p[1] = c.stack /\ p[2] = c.root /\ p[3] = NULL /\ p[4] = NULL
    BY PlacesIs
  <2>3. \A k \in 1..4 : k = 1 \/ k = 2 \/ k = 3 \/ k = 4
    OBVIOUS
  <2> HIDE DEF p
  <2> QED BY <2>1, <2>2, <2>3
<1>6. h[a] = b
  BY DEF Store
<1> HIDE DEF d, p, a, heap
<1>7. Shape(h, q) /\ Kept(heap, h, NULL, {}) /\ (Full(heap) => Full(h))
  <2> HIDE DEF q
  <2> QED BY <1>2, <1>3, <1>5, AllocShape
<1> HIDE DEF h
<1>8. Spine(h, c.stack, fr, sp)
  <2>1. Spine(heap, p[1], fr, sp)
    BY <1>1, <1>2
  <2>2. Spine(h, p[1], fr, sp)
    BY <1>2, <1>7, <2>1, SpineKept
  <2> QED BY <1>2, <2>2
<1>9. CtxOK(d, fr, a) /\ d.root = c.root
  BY <1>2, <1>3, <1>4, <1>7, <1>8, CtxStep
<1>10. d.heap = h
  BY <1>4 DEF Ctx
<1> QED BY <1>3, <1>6, <1>9, <1>10 DEF d, a
\* A value and its text.
LEMMA TextedIs ==
  ASSUME NEW c, NEW fr, CtxOK(c, fr, NULL), NEW b \in Val,
         ValShape(b), b.text = NULL, b.keys = NULL, b.values = NULL, b.type \notin Containers,
         NEW text \in KeyTexts \cup StringTexts \cup NumberTexts
  PROVE  /\ CtxOK(Texted(c, b, text), fr, Fresh(c.heap)) /\ Texted(c, b, text).root = c.root
         /\ Fresh(c.heap) # NULL /\ Texted(c, b, text).heap[Fresh(c.heap)].type = b.type
         /\ Texted(c, b, text).heap[Fresh(c.heap)].text # NULL
<1> DEFINE a == Fresh(c.heap)
           c1 == value_alloc(c, b)
           heap == Store(c.heap, a, b)
           t == Fresh(heap)
           b2 == [b EXCEPT !.text = t]
           h == Store(Store(heap, t, [chars |-> text]), a, b2)
           d == Texted(c, b, text)
           p == Places_(c1, a)
<1>1. /\ CtxOK(c1, fr, a) /\ c1.root = c.root /\ a # NULL /\ c1.heap[a] = b
  BY AllocIs
<1>2. c1 = [c EXCEPT !.heap = heap] /\ Ctx(c, c.heap, c.stack, c.root)
  BY DEF value_alloc, CtxOK
<1>3. d = [c EXCEPT !.heap = h]
  BY DEF Texted
<1> HIDE DEF heap
<1>4. c1.heap = heap /\ c1.stack = c.stack
  BY <1>2 DEF Ctx
<1> HIDE DEF h, d, c1, a
<1>5. Ctx(d, h, c1.stack, c1.root)
  BY <1>1, <1>2, <1>3, <1>4 DEF Ctx
<1>6. /\ Shape(heap, p) /\ p \in Five /\ Full(heap) /\ p[1] = c1.stack /\ p[5] = a
      /\ HeapOK(heap) /\ c1.stack \in Nat /\ a \in Nat
      /\ a \in DOMAIN heap /\ heap[a] = b
  <2>1. Full(heap)
    BY <1>1, <1>4 DEF CtxOK
  <2> QED BY <1>1, <1>4, <2>1, LocalIs
<1>7. t \in Nat \ {NULL} /\ t \notin DOMAIN heap
  BY <1>6, FreshIs
<1>8. /\ b2 \in Val /\ b2.text = t /\ b2.keys = b.keys /\ b2.values = b.values
      /\ b2.type = b.type /\ b2.len = b.len
  <2> HIDE DEF t
  <2> QED BY <1>7 DEF Val
<1>9. PICK sp : Spine(heap, p[1], fr, sp)
  BY <1>1, <1>4, <1>6 DEF CtxOK
<1> HIDE DEF p, b2, t
<1>10. Shape(h, p) /\ h[a] = b2 /\ Kept(heap, h, NULL, {}) /\ (Full(heap) => Full(h))
  <2>1. h = Store(Store(heap, t, [chars |-> text]), a, b2)
    BY DEF h
  <2> QED BY <1>6, <1>7, <1>8, <2>1, TextShape
<1>11. Spine(h, c1.stack, fr, sp)
  <2>1. Spine(h, p[1], fr, sp)
    BY <1>6, <1>9, <1>10, SpineKept
  <2> QED BY <1>6, <2>1
<1>12. Shape(h, <<c1.stack, c1.root, NULL, NULL, a>>)
  BY <1>10 DEF p, Places_
<1>13. CtxOK(d, fr, a) /\ d.root = c1.root
  BY <1>1, <1>5, <1>6, <1>10, <1>11, <1>12, CtxStep
<1>14. d.heap = h /\ b2.text # NULL
  BY <1>5, <1>7, <1>8 DEF Ctx
<1> QED BY <1>1, <1>8, <1>10, <1>13, <1>14 DEF d, a

\* context_push: a container opens.
Opens(fr, kind) == Append(Past(fr), kind)

LEMMA PushIs ==
  ASSUME NEW c, NEW fr, NEW v, CtxOK(c, fr, v), v # NULL, c.heap[v].type \in Containers,
         fr # <<>> => fr[Len(fr)] \in {"value", "elem"},
         NEW kind, kind = IF c.heap[v].type = "object" THEN "key" ELSE "elem"
  PROVE  CtxOK(context_push(c, v), Opens(fr, kind), NULL) /\ context_push(c, v).root = c.root
<1> DEFINE d == context_push(c, v)
           p == Places_(c, v)
           heap == c.heap
           s == c.stack
           e == Fresh(heap)
           q == <<e, c.root, NULL, NULL, NULL>>
           b == [key |-> NULL, value |-> v, next |-> s]
           h == Store(heap, e, b)
           fr2 == Opens(fr, kind)
<1>1. PICK sp : Spine(heap, s, fr, sp)
  BY DEF CtxOK
<1> DEFINE sp2 == Append(sp, e)
<1>2. /\ Shape(heap, p) /\ p \in Five /\ Full(heap) /\ p[1] = s /\ p[5] = v
      /\ HeapOK(heap) /\ s \in Nat /\ c.root \in Nat /\ v \in Nat
      /\ v \in DOMAIN heap /\ heap[v] \in Val
  <2>1. Full(heap)
    BY DEF CtxOK
  <2> QED BY <2>1, LocalIs
<1>3. e \in Nat \ {NULL} /\ e \notin DOMAIN heap
  BY <1>2, FreshIs
<1>4. Ctx(d, h, e, c.root)
  <2>1. d = [c EXCEPT !.heap = h, !.stack = e]
    BY DEF context_push
  <2> HIDE DEF d, h, e
  <2> QED BY <2>1 DEF CtxOK, Ctx
<1>5. q \in Five /\ q[1] = e /\ q[5] = NULL /\ \A k \in 2..4 : q[k] = p[k]
  <2>1. q \in Five
    BY <1>2, <1>3, FiveIs DEF NULL
  <2>2. p[2] = c.root /\ p[3] = NULL /\ p[4] = NULL
    BY PlacesIs
  <2>3. \A k \in 2..4 : k = 2 \/ k = 3 \/ k = 4
    OBVIOUS
  <2> HIDE DEF p
  <2> QED BY <2>1, <2>2, <2>3
<1>6. v # NULL /\ heap[v].type \in Containers /\ kind = IF heap[v].type = "object" THEN "key" ELSE "elem"
  OBVIOUS
<1> HIDE DEF d, p, e, heap, s
<1>7. Shape(h, q) /\ h[e] = b /\ Kept(heap, h, NULL, {}) /\ (Full(heap) => Full(h))
  <2>1. b = [key |-> NULL, value |-> v, next |-> s] /\ h = Store(heap, e, b)
    OBVIOUS
  <2> HIDE DEF b, h, q
  <2>2. Pushes(heap, p, v, s, e, b, h, q)
    BY <1>2, <1>3, <1>5, <1>6, <2>1 DEF Pushes
  <2> QED BY <2>2, PushShape
<1>8. b.key = NULL /\ b.value = v /\ b.next = s
  OBVIOUS
<1>9. b \in Element
  BY <1>2 DEF Element, NULL
<1>10. e \in DOMAIN h
  BY DEF Store
<1> HIDE DEF h, b, q
<1>11. h[v].type = heap[v].type
  BY <1>2, <1>7 DEF Kept, Alike
<1>12. /\ fr \in Seq(FrameKinds) /\ sp \in Seq(Nat) /\ Len(sp) = Len(fr)
       /\ s = IF fr = <<>> THEN NULL ELSE sp[Len(fr)]
       /\ \A k \in 1..Len(fr) : Waits(heap, fr, sp, k)
  BY <1>1 DEF Spine
<1>13. Past(fr) \in Seq(FrameKinds) /\ Len(Past(fr)) = Len(fr)
  <2>1. fr # <<>> => Len(fr) \in 1..Len(fr)
    BY <1>12
  <2>2. "key" \in FrameKinds
    BY DEF FrameKinds
  <2>3. fr # <<>> => [fr EXCEPT ![Len(fr)] = "key"] \in Seq(FrameKinds)
    BY <1>12, <2>1, <2>2
  <2>4. fr # <<>> => Len([fr EXCEPT ![Len(fr)] = "key"]) = Len(fr)
    BY <1>12
  <2> QED BY <1>12, <2>3, <2>4 DEF Past
<1>14. \A k \in 1..Len(fr) :
          Past(fr)[k] = IF k = Len(fr) /\ fr[k] = "value" THEN "key" ELSE fr[k]
  BY <1>12 DEF Past
<1>15. kind \in FrameKinds
  BY <1>6 DEF FrameKinds
<1>16. /\ fr2 \in Seq(FrameKinds) /\ Len(fr2) = Len(fr) + 1 /\ fr2[Len(fr) + 1] = kind
       /\ \A k \in 1..Len(fr) : fr2[k] = Past(fr)[k]
  BY <1>13, <1>15 DEF Opens
<1>17. /\ sp2 \in Seq(Nat) /\ Len(sp2) = Len(fr) + 1 /\ sp2[Len(fr) + 1] = e
       /\ \A k \in 1..Len(fr) : sp2[k] = sp[k]
  BY <1>3, <1>12
<1> HIDE DEF fr2, sp2
<1>18. ASSUME NEW k \in 1..Len(fr)
       PROVE  Link(h, fr2, sp2, k) /\ Waits(h, fr2, sp2, k)
  <2>1. Spine(heap, p[1], fr, sp)
    BY <1>1, <1>2
  <2>2. Link(h, fr, sp, k) /\ (sp[k] # NULL => h[sp[k]].key = heap[sp[k]].key)
    <3>1. Spine(h, p[1], fr, sp)
      BY <1>2, <1>7, <2>1, SpineKept
    <3>2. sp[k] \in DOMAIN heap /\ heap[sp[k]] \in Element
      BY <1>2, <2>1, SpineApart
    <3>3. Link(h, fr, sp, k)
      BY <3>1 DEF Spine
    <3>4. sp[k] # NULL => h[sp[k]].key = heap[sp[k]].key
      BY <1>7, <3>2 DEF Kept
    <3> QED BY <3>3, <3>4
  <2>3. sp[k] # NULL
    BY <1>2, <2>1, SpineApart
  <2>4. sp2[k] = sp[k] /\ (k # 1 => sp2[k - 1] = sp[k - 1])
    <3>1. k # 1 => k - 1 \in 1..Len(fr)
      BY <1>12
    <3> QED BY <1>17, <3>1
  <2>6. fr2[k] = IF k = Len(fr) /\ fr[k] = "value" THEN "key" ELSE fr[k]
    BY <1>14, <1>16
  <2>7. Link(h, fr2, sp2, k)
    <3>1. fr2[k] = "elem" <=> fr[k] = "elem"
      BY <2>6
    <3> QED BY <2>2, <2>4, <3>1 DEF Link
  <2>8. Waits(heap, fr, sp, k) /\ k # Len(fr2) /\ fr # <<>>
    BY <1>12, <1>16
  <2>9. Waits(h, fr2, sp2, k)
    <3>1. CASE k = Len(fr) /\ fr[k] = "value"
      <4>1. fr2[k] = "key" /\ heap[sp[k]].key # NULL
        BY <2>6, <2>8, <3>1 DEF Waits
      <4> QED BY <2>2, <2>3, <2>4, <2>8, <4>1 DEF Waits
    <3>2. CASE k = Len(fr) /\ fr[k] # "value"
      <4>1. fr2[k] = "elem"
        BY <2>6, <2>8, <3>2
      <4> QED BY <4>1 DEF Waits
    <3>3. CASE k # Len(fr)
      <4>1. fr2[k] = fr[k]
        BY <2>6, <3>3
      <4> QED BY <2>2, <2>3, <2>4, <2>8, <3>3, <4>1 DEF Waits
    <3> QED BY <3>1, <3>2, <3>3
  <2> QED BY <2>7, <2>9
<1>19. Link(h, fr2, sp2, Len(fr) + 1) /\ Waits(h, fr2, sp2, Len(fr) + 1)
  <2> DEFINE k == Len(fr) + 1
  <2>1. sp2[k] = e /\ h[e] \in Element /\ h[e].key = NULL /\ h[e].value = v /\ h[e].next = s
    BY <1>7, <1>8, <1>9, <1>17
  <2>2. s = IF k = 1 THEN NULL ELSE sp2[k - 1]
    <3>1. CASE fr = <<>>
      BY <1>12, <3>1
    <3>2. CASE fr # <<>>
      <4>1. Len(fr) \in 1..Len(fr) /\ k # 1 /\ k - 1 = Len(fr)
        BY <1>12, <3>2
      <4> QED BY <1>12, <1>17, <3>2, <4>1
    <3> QED BY <3>1, <3>2
  <2>3. fr2[k] = kind /\ Len(fr2) = k
    BY <1>16
  <2> HIDE DEF k
  <2>4. h[v].type = IF kind = "elem" THEN "array" ELSE "object"
    BY <1>6, <1>11 DEF Containers
  <2>5. Link(h, fr2, sp2, k)
    BY <1>10, <2>1, <2>2, <2>3, <2>4 DEF Link
  <2>6. Waits(h, fr2, sp2, k)
    BY <1>6, <2>1, <2>3 DEF Waits
  <2> QED BY <2>5, <2>6 DEF k
<1>20. Spine(h, e, fr2, sp2)
  <2>1. fr2 # <<>> /\ sp2[Len(fr2)] = e /\ Len(sp2) = Len(fr2)
    BY <1>12, <1>16, <1>17
  <2>2. \A k \in 1..Len(fr2) : k \in 1..Len(fr) \/ k = Len(fr) + 1
    BY <1>12, <1>16
  <2> QED BY <1>16, <1>17, <1>18, <1>19, <2>1, <2>2 DEF Spine
<1>21. Shape(h, <<e, c.root, NULL, NULL, NULL>>)
  BY <1>7 DEF q
<1>22. NULL \in Nat
  BY DEF NULL
<1>23. CtxOK(d, fr2, NULL) /\ d.root = c.root
  BY <1>2, <1>3, <1>4, <1>7, <1>20, <1>21, <1>22, CtxStep
<1> QED BY <1>23 DEF d, fr2
LEMMA ValueIs ==
  ASSUME NEW type \in Containers \cup Scalars
  PROVE  /\ Value(type) \in Val /\ ValShape(Value(type)) /\ Value(type).type = type
         /\ Value(type).text = NULL /\ Value(type).keys = NULL /\ Value(type).values = NULL
<1> DEFINE b == Value(type)
<1>1. /\ b.text = NULL /\ b.keys = NULL /\ b.values = NULL /\ b.len = 0 /\ b.type = type
      /\ b.number = {}
  BY DEF Value
<1>2. b \in Val
  BY DEF Value, Val, NULL
<1> HIDE DEF b
<1>3. ValShape(b)
  BY <1>1 DEF ValShape
<1> QED BY <1>1, <1>2, <1>3 DEF b

LEMMA StartIs ==
  ASSUME NEW c, NEW fr, CtxOK(c, fr, NULL), NEW type \in Containers,
         fr # <<>> => fr[Len(fr)] \in {"value", "elem"},
         NEW kind, kind = IF type = "object" THEN "key" ELSE "elem"
  PROVE  CtxOK(handle_start(c, type), Opens(fr, kind), NULL) /\ handle_start(c, type).root = c.root
<1> DEFINE b == Value(type)
           c1 == value_alloc(c, b)
           a == Fresh(c.heap)
<1>1. b \in Val /\ ValShape(b) /\ b.text = NULL /\ b.keys = NULL /\ b.values = NULL /\ b.type = type
  BY ValueIs
<1>2. handle_start(c, type) = context_push(c1, a)
  BY DEF handle_start
<1> HIDE DEF b
<1>3. CtxOK(c1, fr, a) /\ c1.root = c.root /\ a # NULL /\ c1.heap[a] = b
  BY <1>1, AllocIs
<1> HIDE DEF c1, a
<1>4. c1.heap[a].type \in Containers /\ kind = IF c1.heap[a].type = "object" THEN "key" ELSE "elem"
  BY <1>1, <1>3
<1>5. CtxOK(context_push(c1, a), Opens(fr, kind), NULL) /\ context_push(c1, a).root = c1.root
  BY <1>3, <1>4, PushIs
<1> QED BY <1>2, <1>3, <1>5

\* The key of an element is a text.
LEMMA KeyIs ==
  ASSUME NEW heap, NEW held, Shape(heap, held), NEW e, e \in DOMAIN heap, heap[e] \in Element
  PROVE  heap[e].key = NULL \/ heap[heap[e].key] \in Text
<1> SUFFICES ASSUME heap[e].key # NULL PROVE heap[heap[e].key] \in Text
  OBVIOUS
<1>1. HeapOK(heap) /\ held \in Five /\ e # NULL
  BY DEF Shape, HeapOK
<1>2. Points(heap[e], 1, heap[e].key)
  BY PointsElement
<1>3. Edge(heap, held, e, 1, heap[e].key)
  BY <1>2 DEF Edge
<1>4. <<e, 1, heap[e].key>> \in Edges(heap, held)
  BY <1>1, <1>3, EdgeIs
<1>5. Fits_(heap, e, 1, heap[e].key)
  BY <1>4 DEF Shape
<1> QED BY <1>1, <1>5 DEF Fits_

\* context_pop: the container that closes is a value of the one around it.
Waiting(fr) == IF fr # <<>> /\ fr[Len(fr)] = "key" THEN [fr EXCEPT ![Len(fr)] = "value"] ELSE fr
Around(fr) == SubSeq(fr, 1, Len(fr) - 1)

LEMMA PopIs ==
  ASSUME NEW c, NEW fr, CtxOK(c, fr, NULL), fr # <<>>,
         NEW v, v = Top(c).value
  PROVE  /\ CtxOK(context_pop(c), Waiting(Around(fr)), v) /\ context_pop(c).root = c.root
         /\ v # NULL /\ c.stack # NULL
<1> DEFINE d == context_pop(c)
           p == Places_(c, NULL)
           heap == c.heap
           e == c.stack
           key == heap[e].key
           s == heap[e].next
           q == <<s, c.root, NULL, NULL, v>>
           h == Free(FreeIf(heap, key), e)
           n == Len(fr)
           fr2 == Waiting(Around(fr))
<1>1. PICK sp : Spine(heap, e, fr, sp)
  BY DEF CtxOK
<1> DEFINE sp2 == SubSeq(sp, 1, n - 1)
<1>2. /\ Shape(heap, p) /\ p \in Five /\ Full(heap) /\ p[1] = e /\ p[5] = NULL
      /\ HeapOK(heap) /\ e \in Nat /\ c.root \in Nat
  <2>1. Full(heap)
    BY DEF CtxOK
  <2> QED BY <2>1, LocalIs
<1>3. /\ n \in 1..n /\ e = sp[n] /\ e # NULL /\ e \in DOMAIN heap /\ Top(c) = heap[e]
      /\ Top(c) \in Element
  BY <1>1, TopIs
<1>4. /\ v = heap[e].value /\ key \in Nat /\ s \in Nat /\ v \in Nat /\ v # NULL
  <2>1. heap[e].value # NULL
    BY <1>2, <1>3 DEF Shape
  <2> QED BY <1>3, <2>1 DEF Element
<1>5. Ctx(d, h, s, c.root)
  <2>1. d = [c EXCEPT !.heap = h, !.stack = s]
    BY <1>3 DEF context_pop
  <2> HIDE DEF d, h, s
  <2> QED BY <2>1 DEF CtxOK, Ctx
<1>6. q \in Five /\ q[1] = s /\ q[5] = v /\ \A k \in 2..4 : q[k] = p[k]
  <2>1. q \in Five
    BY <1>2, <1>4, FiveIs DEF NULL
  <2>2. p[2] = c.root /\ p[3] = NULL /\ p[4] = NULL
    BY PlacesIs
  <2>3. \A k \in 2..4 : k = 2 \/ k = 3 \/ k = 4
    OBVIOUS
  <2> HIDE DEF p, s
  <2> QED BY <2>1, <2>2, <2>3
<1>7. key = heap[e].key /\ s = heap[e].next /\ (key = NULL \/ heap[key] \in Text)
  BY <1>2, <1>3, KeyIs
<1> HIDE DEF d, p, e, heap, s, key, n
<1>8. Shape(h, q) /\ Kept(heap, h, NULL, {e, key}) /\ (Full(heap) => Full(h))
  <2>1. h = Free(FreeIf(heap, key), e)
    OBVIOUS
  <2> HIDE DEF h, q
  <2>2. Pops(heap, p, e, key, v, s, h, q)
    BY <1>2, <1>3, <1>4, <1>6, <1>7, <2>1 DEF Pops
  <2> QED BY <2>2, PopShape
<1> HIDE DEF h, q
<1>9. /\ fr \in Seq(FrameKinds) /\ sp \in Seq(Nat) /\ Len(sp) = n /\ n = Len(fr)
      /\ \A k \in 1..n : Waits(heap, fr, sp, k) /\ Link(heap, fr, sp, k)
  BY <1>1 DEF Spine, n
<1>10. /\ Around(fr) \in Seq(FrameKinds) /\ Len(Around(fr)) = n - 1
       /\ \A k \in 1..n - 1 : Around(fr)[k] = fr[k]
  BY <1>3, <1>9 DEF Around
<1>11. sp2 \in Seq(Nat) /\ Len(sp2) = n - 1 /\ \A k \in 1..n - 1 : sp2[k] = sp[k]
  BY <1>3, <1>9
<1>12. n - 1 \in Nat /\ (Around(fr) # <<>> => n - 1 \in 1..n - 1) /\ (Around(fr) = <<>> <=> n = 1)
  BY <1>3, <1>10
<1>13. /\ fr2 \in Seq(FrameKinds) /\ Len(fr2) = n - 1
       /\ \A k \in 1..n - 1 : fr2[k] = IF k = n - 1 /\ fr[k] = "key" THEN "value" ELSE fr[k]
  <2> DEFINE a == Around(fr)
  <2>1. a \in Seq(FrameKinds) /\ Len(a) = n - 1 /\ (a # <<>> => n - 1 \in 1..n - 1) /\ "value" \in FrameKinds
    BY <1>10, <1>12 DEF FrameKinds
  <2>2. \A k \in 1..n - 1 : a[k] = fr[k]
    BY <1>10
  <2> HIDE DEF a
  <2>3. CASE a # <<>> /\ a[n - 1] = "key"
    <3>1. fr2 = [a EXCEPT ![n - 1] = "value"]
      BY <2>1, <2>3 DEF Waiting, a
    <3> QED BY <2>1, <2>2, <2>3, <3>1
  <2>4. CASE ~(a # <<>> /\ a[n - 1] = "key")
    <3>1. fr2 = a
      BY <2>1, <2>4 DEF Waiting, a
    <3>2. \A k \in 1..n - 1 : k = n - 1 => fr[k] # "key"
      <4>1. a = <<>> => 1..n - 1 = {}
        BY <2>1
      <4> QED BY <2>2, <2>4, <4>1
    <3> QED BY <2>1, <2>2, <3>1, <3>2
  <2> QED BY <2>3, <2>4
<1> HIDE DEF fr2, sp2
<1>14. ASSUME NEW k \in 1..n - 1
       PROVE  Link(h, fr2, sp2, k) /\ Waits(h, fr2, sp2, k)
  <2>1. Spine(heap, p[1], fr, sp) /\ k \in 1..Len(fr) /\ k \in 1..n /\ k # n
    BY <1>1, <1>2, <1>9, <1>12
  <2>2. /\ sp[k] \in DOMAIN heap /\ heap[sp[k]] \in Element /\ sp[k] # NULL /\ sp[k] # e
        /\ heap[sp[k]].value \in DOMAIN heap /\ heap[heap[sp[k]].value] \in Val
    BY <1>2, <1>9, <2>1, SpineApart
  <2>3. sp[k] \notin {e, key} /\ heap[sp[k]].value \notin {e, key}
    <3>1. sp[k] # key /\ heap[sp[k]].value # key
      <4>1. NULL \notin DOMAIN heap
        BY <1>2 DEF HeapOK
      <4> QED BY <1>7, <2>2, <4>1, KindsApart
    <3>2. heap[sp[k]].value # e
      BY <1>3, <2>2, KindsApart
    <3> QED BY <2>2, <3>1, <3>2
  <2>4. Link(h, fr, sp, k) /\ (sp[k] # NULL => h[sp[k]].key = heap[sp[k]].key)
    BY <1>2, <1>8, <2>1, <2>3, LinkKept
  <2>5. sp2[k] = sp[k] /\ (k # 1 => sp2[k - 1] = sp[k - 1])
    <3>1. k # 1 => k - 1 \in 1..n - 1
      BY <1>12
    <3> QED BY <1>11, <3>1
  <2>6. fr2[k] = IF k = n - 1 /\ fr[k] = "key" THEN "value" ELSE fr[k]
    BY <1>13
  <2>7. Link(h, fr2, sp2, k)
    <3>1. fr2[k] = "elem" <=> fr[k] = "elem"
      BY <2>6
    <3> QED BY <2>4, <2>5, <3>1 DEF Link
  <2>8. Waits(heap, fr, sp, k) /\ k # Len(fr) /\ (k = Len(fr2) <=> k = n - 1)
    BY <1>9, <1>13, <2>1
  <2>9. fr[k] \in FrameKinds
    BY <1>9, <2>1
  <2>10. Waits(h, fr2, sp2, k)
    <3>1. CASE fr[k] = "key"
      <4>1. h[sp2[k]].key # NULL
        BY <2>2, <2>4, <2>5, <2>8, <3>1 DEF Waits
      <4> QED BY <2>6, <2>8, <3>1, <4>1 DEF Waits
    <3>2. CASE fr[k] = "value"
      BY <2>8, <3>2 DEF Waits
    <3>3. CASE fr[k] = "elem"
      BY <2>6, <3>3 DEF Waits
    <3> QED BY <2>9, <3>1, <3>2, <3>3 DEF FrameKinds
  <2> QED BY <2>7, <2>10
<1>15. s = IF fr2 = <<>> THEN NULL ELSE sp2[Len(fr2)]
  <2>1. Link(heap, fr, sp, n)
    BY <1>3, <1>9
  <2>2. s = IF n = 1 THEN NULL ELSE sp[n - 1]
    BY <1>3, <1>7, <2>1 DEF Link
  <2>3. CASE n = 1
    BY <1>13, <2>2, <2>3
  <2>4. CASE n # 1
    <3>1. n - 1 \in 1..n - 1
      BY <1>3, <2>4
    <3>2. fr2 # <<>> /\ sp2[Len(fr2)] = sp[n - 1]
      BY <1>11, <1>13, <3>1
    <3> QED BY <2>2, <2>4, <3>2
  <2> QED BY <2>3, <2>4
<1>16. Spine(h, s, fr2, sp2)
  BY <1>11, <1>13, <1>14, <1>15 DEF Spine
<1>17. Shape(h, <<s, c.root, NULL, NULL, v>>)
  BY <1>8 DEF q
<1>18. CtxOK(d, fr2, v) /\ d.root = c.root
  BY <1>2, <1>4, <1>5, <1>8, <1>16, <1>17, CtxStep
<1> QED BY <1>3, <1>4, <1>18 DEF d, fr2, e
-----------------------------------------------------------------------------
(* The callbacks. *)

\* A value may be told: what Parser!ExpectsValue says of the containers.
Expects(fr) == fr # <<>> => fr[Len(fr)] \in {"value", "elem"}

\* What a callback makes of a context that has no root yet.
Goes(c, fr) == CtxOK(c, fr, NULL) /\ (c.root # NULL <=> fr = <<>>)

LEMMA PastIs ==
  ASSUME NEW fr \in Seq(FrameKinds)
  PROVE  /\ Past(fr) = <<>> <=> fr = <<>>
         /\ Past(fr) \in Seq(FrameKinds) /\ Len(Past(fr)) = Len(fr)
<1>1. fr # <<>> => Len(fr) \in 1..Len(fr)
  OBVIOUS
<1>2. "key" \in FrameKinds
  BY DEF FrameKinds
<1>3. fr # <<>> => [fr EXCEPT ![Len(fr)] = "key"] \in Seq(FrameKinds)
  BY <1>1, <1>2
<1>4. fr # <<>> => Len([fr EXCEPT ![Len(fr)] = "key"]) = Len(fr)
  BY <1>1
<1>5. Past(fr) \in Seq(FrameKinds) /\ Len(Past(fr)) = Len(fr)
  BY <1>3, <1>4 DEF Past
<1> QED BY <1>5

LEMMA ToldValue ==
  ASSUME NEW c, NEW fr, NEW v, CtxOK(c, fr, v), v # NULL, c.root = NULL, Expects(fr)
  PROVE  Goes(context_add_value(c, v), Past(fr))
<1>1. fr \in Seq(FrameKinds)
  BY DEF CtxOK, Spine
<1>2. /\ CtxOK(context_add_value(c, v), Past(fr), NULL)
      /\ context_add_value(c, v).root = IF fr = <<>> THEN v ELSE c.root
  BY AddValueIs, ZenonT(40) DEF Expects
<1> QED BY <1>1, <1>2, PastIs DEF Goes

LEMMA AtomIs ==
  ASSUME NEW c, NEW fr, CtxOK(c, fr, NULL), c.root = NULL, Expects(fr),
         NEW type \in Scalars
  PROVE  Goes(handle_atom(c, type), Past(fr))
<1> DEFINE b == Value(type)
           d == value_alloc(c, b)
           a == Fresh(c.heap)
<1>1. handle_atom(c, type) = context_add_value(d, a)
  BY DEF handle_atom, Add
<1>2. b \in Val /\ ValShape(b) /\ b.text = NULL /\ b.keys = NULL /\ b.values = NULL
  BY ValueIs
<1> HIDE DEF b
<1>3. CtxOK(d, fr, a) /\ d.root = c.root /\ a # NULL
  BY <1>2, AllocIs
<1> HIDE DEF d, a
<1> QED BY <1>1, <1>3, ToldValue

LEMMA StringIs ==
  ASSUME NEW c, NEW fr, CtxOK(c, fr, NULL), c.root = NULL, Expects(fr),
         NEW text \in KeyTexts \cup StringTexts \cup NumberTexts
  PROVE  Goes(handle_string(c, text), Past(fr))
<1> DEFINE b == Value("string")
           d == Texted(c, b, text)
           a == Fresh(c.heap)
<1>1. handle_string(c, text) = context_add_value(d, a)
  BY DEF handle_string, Add
<1>2. /\ b \in Val /\ ValShape(b) /\ b.text = NULL /\ b.keys = NULL /\ b.values = NULL
      /\ b.type \notin Containers
  <2>1. "string" \in Containers \cup Scalars /\ "string" \notin Containers
    BY DEF Containers, Scalars
  <2> QED BY <2>1, ValueIs
<1> HIDE DEF b
<1>3. CtxOK(d, fr, a) /\ d.root = c.root /\ a # NULL
  BY <1>2, TextedIs
<1> HIDE DEF d, a
<1> QED BY <1>1, <1>3, ToldValue

LEMMA NumberIs ==
  ASSUME NEW c, NEW fr, CtxOK(c, fr, NULL), c.root = NULL, Expects(fr),
         NEW text \in NumberTexts
  PROVE  Goes(handle_number(c, text), Past(fr))
<1> DEFINE valid == (IF ParsesInteger(text) THEN {"int"} ELSE {})
                    \cup (IF text \in Doubles THEN {"double"} ELSE {})
           b == [Value("number") EXCEPT !.number = valid]
           d == Texted(c, b, text)
           a == Fresh(c.heap)
<1>1. handle_number(c, text) = context_add_value(d, a)
  BY DEF handle_number, Add
<1>2. valid \in SUBSET {"int", "double"}
  OBVIOUS
<1> HIDE DEF valid
<1>3. /\ b \in Val /\ ValShape(b) /\ b.text = NULL /\ b.keys = NULL /\ b.values = NULL
      /\ b.type \notin Containers
  <2> DEFINE b0 == Value("number")
  <2>1. /\ b0 \in Val /\ ValShape(b0) /\ b0.text = NULL /\ b0.keys = NULL /\ b0.values = NULL
        /\ b0.type \notin Containers
    <3>1. "number" \in Containers \cup Scalars /\ "number" \notin Containers
      BY DEF Containers, Scalars
    <3> QED BY <3>1, ValueIs
  <2> HIDE DEF b0
  <2>2. b \in Val /\ b.text = b0.text /\ b.keys = b0.keys /\ b.values = b0.values
        /\ b.type = b0.type /\ b.len = b0.len
    BY <1>2, <2>1 DEF Val, b0
  <2> HIDE DEF b
  <2>3. ValShape(b)
    BY <2>1, <2>2 DEF ValShape
  <2> QED BY <2>1, <2>2, <2>3
<1> HIDE DEF b
<1>4. CtxOK(d, fr, a) /\ d.root = c.root /\ a # NULL
  BY <1>3, TextedIs
<1> HIDE DEF d, a
<1> QED BY <1>1, <1>4, ToldValue

LEMMA KeyToldIs ==
  ASSUME NEW c, NEW fr, CtxOK(c, fr, NULL), c.root = NULL, fr # <<>>, fr[Len(fr)] = "key",
         NEW text \in KeyTexts
  PROVE  Goes(handle_string(c, text), [fr EXCEPT ![Len(fr)] = "value"])
<1> DEFINE b == Value("string")
           d == Texted(c, b, text)
           a == Fresh(c.heap)
<1>1. handle_string(c, text) = context_add_value(d, a)
  BY DEF handle_string, Add
<1>2. /\ b \in Val /\ ValShape(b) /\ b.text = NULL /\ b.keys = NULL /\ b.values = NULL
      /\ b.type \notin Containers /\ b.type = "string"
  <2>1. "string" \in Containers \cup Scalars /\ "string" \notin Containers
    BY DEF Containers, Scalars
  <2> QED BY <2>1, ValueIs
<1> HIDE DEF b
<1>3. /\ CtxOK(d, fr, a) /\ d.root = c.root /\ a # NULL
      /\ d.heap[a].type = "string" /\ d.heap[a].text # NULL
  BY <1>2, TextedIs
<1> HIDE DEF d, a
<1>4. /\ CtxOK(context_add_value(d, a), [fr EXCEPT ![Len(fr)] = "value"], NULL)
      /\ context_add_value(d, a).root = d.root
  BY <1>3, TakeKeyIs
<1>5. [fr EXCEPT ![Len(fr)] = "value"] # <<>>
  <2>1. fr \in Seq(FrameKinds)
    BY DEF CtxOK, Spine
  <2>2. Len(fr) \in 1..Len(fr) /\ "value" \in FrameKinds
    BY <2>1 DEF FrameKinds
  <2>3. Len([fr EXCEPT ![Len(fr)] = "value"]) = Len(fr)
    BY <2>1
  <2> QED BY <2>2, <2>3
<1> QED BY <1>1, <1>3, <1>4, <1>5 DEF Goes

LEMMA OpenIs ==
  ASSUME NEW c, NEW fr, CtxOK(c, fr, NULL), c.root = NULL, Expects(fr), NEW type \in Containers,
         NEW kind, kind = IF type = "object" THEN "key" ELSE "elem"
  PROVE  Goes(handle_start(c, type), Opens(fr, kind))
<1>1. /\ CtxOK(handle_start(c, type), Opens(fr, kind), NULL)
      /\ handle_start(c, type).root = c.root
  BY StartIs DEF Expects
<1>2. Opens(fr, kind) # <<>>
  <2>1. fr \in Seq(FrameKinds)
    BY DEF CtxOK, Spine
  <2>2. Past(fr) \in Seq(FrameKinds) /\ kind \in FrameKinds
    BY <2>1, PastIs DEF FrameKinds
  <2>3. Len(Append(Past(fr), kind)) = Len(Past(fr)) + 1 /\ Len(Past(fr)) \in Nat
    BY <2>2
  <2> QED BY <2>3 DEF Opens
<1> QED BY <1>1, <1>2 DEF Goes

LEMMA CloseIs ==
  ASSUME NEW c, NEW fr, CtxOK(c, fr, NULL), c.root = NULL, fr # <<>>
  PROVE  Goes(handle_end(c), Around(fr))
<1> DEFINE v == Top(c).value
           d == context_pop(c)
           fr2 == Waiting(Around(fr))
<1>1. CtxOK(d, fr2, v) /\ d.root = c.root /\ v # NULL /\ c.stack # NULL
  BY PopIs
<1>2. handle_end(c) = context_add_value(d, v)
  BY <1>1 DEF handle_end
<1>3. PICK sp : Spine(c.heap, c.stack, fr, sp)
  BY DEF CtxOK
<1> HIDE DEF d, v
<1>4. fr \in Seq(FrameKinds) /\ Len(fr) \in 1..Len(fr)
  BY <1>3 DEF Spine
<1> DEFINE a == Around(fr)
<1>5. /\ a \in Seq(FrameKinds) /\ Len(a) = Len(fr) - 1
      /\ \A k \in 1..Len(fr) - 1 : a[k] = fr[k]
  <2> DEFINE n == Len(fr) - 1
  <2>1. a = SubSeq(fr, 1, n)
    BY DEF Around
  <2>2. n \in Nat /\ n <= Len(fr)
    BY <1>4
  <2> HIDE DEF a, n
  <2>3. n < Len(fr) => SubSeq(fr, 1, n) \in Seq(FrameKinds)
    BY <1>4, <2>2
  <2>4. Len(SubSeq(fr, 1, n)) = n
    BY <1>4, <2>2
  <2>5. \A k \in 1..n : SubSeq(fr, 1, n)[k] = fr[k]
    BY <1>4, <2>2
  <2>6. n < Len(fr)
    BY <1>4 DEF n
  <2> QED BY <2>1, <2>3, <2>4, <2>5, <2>6 DEF n
<1>6. a # <<>> => Len(a) \in 1..Len(a) /\ a[Len(a)] \in FrameKinds
  BY <1>5
<1>7. a # <<>> => a[Len(a)] # "value"
  <2> SUFFICES ASSUME a # <<>>, a[Len(a)] = "value" PROVE FALSE
    OBVIOUS
  <2>1. Len(a) \in 1..Len(fr) - 1 /\ Len(a) \in 1..Len(fr) /\ Len(a) # Len(fr)
    BY <1>4, <1>5, <1>6
  <2>2. fr[Len(a)] = "value"
    BY <1>5, <2>1
  <2>3. Waits(c.heap, fr, sp, Len(a))
    BY <1>3, <2>1 DEF Spine
  <2> QED BY <2>1, <2>2, <2>3 DEF Waits
<1> HIDE DEF a
<1>8. Expects(fr2) /\ Past(fr2) = a
  <2>1. fr2 = IF a # <<>> /\ a[Len(a)] = "key" THEN [a EXCEPT ![Len(a)] = "value"] ELSE a
    BY DEF Waiting, a
  <2>2. CASE a # <<>> /\ a[Len(a)] = "key"
    <3>1. fr2 = [a EXCEPT ![Len(a)] = "value"]
      BY <2>1, <2>2
    <3> HIDE DEF fr2
    <3>2. Len(fr2) = Len(a) /\ fr2[Len(a)] = "value" /\ fr2 # <<>>
      BY <1>5, <1>6, <2>2, <3>1
    <3>3. [fr2 EXCEPT ![Len(a)] = "key"] = a
      <4>1. [fr2 EXCEPT ![Len(a)] = "key"] = [a EXCEPT ![Len(a)] = "key"]
        BY <3>1
      <4>2. a = [i \in 1..Len(a) |-> a[i]] /\ DOMAIN a = 1..Len(a)
        BY <1>5
      <4>3. [a EXCEPT ![Len(a)] = "key"] = a
        BY <2>2, <4>2
      <4> QED BY <4>1, <4>3
    <3> QED BY <3>2, <3>3 DEF Expects, Past
  <2>3. CASE ~(a # <<>> /\ a[Len(a)] = "key")
    <3>1. fr2 = a
      BY <2>1, <2>3
    <3> QED BY <1>6, <1>7, <2>3, <3>1 DEF Expects, Past, FrameKinds
  <2> QED BY <2>2, <2>3
<1> HIDE DEF fr2
<1>9. Goes(context_add_value(d, v), Past(fr2))
  BY <1>1, <1>8, ToldValue
<1> QED BY <1>2, <1>8, <1>9 DEF a
-----------------------------------------------------------------------------
(* The global. *)

\* The client's functions are there: all blocks are theirs, and no call has
\* anything to undo.
SharedInv ==
    /\ trees \subseteq {"client"}
    /\ \A t \in Threads :
          /\ inner[t] = 0
          /\ at[t] \notin {"null", "null again", "lost"}
          /\ at[t] # "client" => made[t] \subseteq {"client"}
          /\ at[t] \in {"inside", "leaving"} => ~undo[t]

\* The client has set nothing, and calls may overlap: all blocks are the
\* default functions', and who has set the global last owes it a reset.
Beyond == {"inside", "null again", "leaving", "lost"}
Calling == {"entered", "null", "inside", "null again", "leaving"}

Owes(t) == at[t] \in Beyond /\ (inner[t] > 0 \/ (undo[t] /\ job[t] = "free"))

Plain(t) ==
    /\ at[t] \in Calling => made[t] \subseteq {"default"}
    /\ at[t] \in Calling /\ job[t] # "free" => maker[t] = "default"
    /\ at[t] \in {"client", "entered", "null", "leaving"} => inner[t] = 0
    /\ at[t] = "null" => undo[t]
    /\ at[t] \in {"entered", "null"} => job[t] # "unwind"

DefaultInv ==
    /\ trees \subseteq {"default"}
    /\ afs \in Threads =>
          at[afs] \in Beyond /\ undo[afs] /\ job[afs] # "free" /\ maker[afs] = "default"
    /\ afs = "static" => \E t \in Threads : Owes(t)
    /\ \A t \in Threads : Plain(t)

\* Nor do they overlap: the global is what the one call there is has made it.
Only(t) ==
    /\ \A u \in Threads : u # t => at[u] = "client"
    /\ at[t] \notin {"null again", "lost"} /\ inner[t] = 0
    /\ at[t] \in {"entered", "null"} => afs = "null"
    /\ at[t] \in {"null", "inside", "leaving"} => undo[t]
    /\ at[t] \in {"inside", "leaving"} => afs = IF job[t] = "free" THEN "static" ELSE t

AloneInv == \A t \in Threads : at[t] # "client" => Only(t)

AfsInv ==
    /\ AfsTypeOK
    /\ afs = "client" => SharedInv
    /\ afs # "client" => DefaultInv
    /\ afs # "client" /\ ~overlaps => AloneInv

LEMMA AfsInitInv == AfsInit => AfsInv
<1> SUFFICES ASSUME AfsInit PROVE AfsInv
  OBVIOUS
<1> USE DEF AfsInit
<1>1. AfsTypeOK
  BY DEF AfsTypeOK, Places, Makers, Jobs
<1>2. SharedInv
  BY DEF SharedInv
<1>3. DefaultInv
  <2>1. \A t \in Threads : Plain(t)
    BY DEF Plain, Calling
  <2> QED BY <2>1, ThreadsAssumption DEF DefaultInv
<1>4. AloneInv
  BY DEF AloneInv
<1> QED BY <1>1, <1>2, <1>3, <1>4 DEF AfsInv

\* Under the client's functions the global leads to them, else to the default
\* ones, in whosever handle they are.
LEMMA SharedThrough == afs = "client" => Through(afs) = "client"
  BY ThreadsAssumption DEF Through

LEMMA DefaultThrough ==
  ASSUME AfsInv, afs # "client", afs # "null"
  PROVE  Through(afs) = "default"
  BY ThreadsAssumption DEF AfsInv, AfsTypeOK, DefaultInv, Through

\* What the invariant is for.
LEMMA AfsInvImplies ==
  ASSUME AfsInv
  PROVE  LiveUnlessOverlap /\ SameFunctions /\ ResetOnReturn
<1> USE ThreadsAssumption DEF AfsInv, Through
<1>1. LiveUnlessOverlap
  <2>1. CASE afs = "client"
    BY <2>1 DEF LiveUnlessOverlap, Live
  <2>2. CASE afs # "client"
    BY <2>2 DEF LiveUnlessOverlap, Live, AloneInv, Only
  <2> QED BY <2>1, <2>2
<1>2. SameFunctions
  <2>1. CASE afs = "client"
    BY <2>1 DEF SameFunctions, SharedInv
  <2>2. CASE afs # "client"
    <3> SUFFICES ASSUME NEW t \in Threads, at[t] = "inside", afs # "null"
                 PROVE  made[t] \subseteq {Through(afs)}
      BY DEF SameFunctions
    <3>1. made[t] \subseteq {"default"}
      BY <2>2 DEF DefaultInv, Plain, Calling
    <3>2. Through(afs) = "default"
      BY DefaultThrough, <2>2
    <3> QED BY <3>1, <3>2
  <2> QED BY <2>1, <2>2
<1>3. ResetOnReturn
  BY DEF ResetOnReturn, DefaultInv, AllOut, Owes, Beyond, AfsTypeOK
<1> QED BY <1>1, <1>2, <1>3

-----------------------------------------------------------------------------
LEMMA SetAfsInv == AfsInv /\ SetAfs => AfsInv'
<1> SUFFICES ASSUME AfsInv, SetAfs PROVE AfsInv'
  OBVIOUS
<1> USE ThreadsAssumption DEF SetAfs
<1>1. AfsTypeOK'
  BY DEF AfsInv, AfsTypeOK
<1>2. \A t \in Threads : at[t] = "client" /\ inner[t] = 0
  BY DEF AllOut, AfsInv, SharedInv, DefaultInv, Plain
<1>3. SharedInv'
  BY <1>2 DEF SharedInv
<1>4. DefaultInv'
  <2>1. \A t \in Threads : Plain(t)'
    BY <1>2 DEF Plain, Calling
  <2> QED BY <2>1 DEF DefaultInv
<1>5. AloneInv'
  BY <1>2 DEF AloneInv
<1> QED BY <1>1, <1>3, <1>4, <1>5 DEF AfsInv

LEMMA EnterParseInv ==
  ASSUME AfsInv, NEW t \in Threads, EnterParse(t)
  PROVE  AfsInv'
<1> USE ThreadsAssumption DEF EnterParse, Enter
<1>0. (IF afs = "null" THEN "default" ELSE Through(afs)) \in Makers
         /\ (afs # "client" => (IF afs = "null" THEN "default" ELSE Through(afs)) = "default")
  BY DefaultThrough, SharedThrough DEF Makers
<1>1. AfsTypeOK'
  <2>1. overlaps' \in BOOLEAN
    BY Zenon
  <2> QED BY <1>0, <2>1 DEF AfsInv, AfsTypeOK, Places, Jobs
<1>2. CASE afs = "client"
  BY <1>1, <1>2 DEF AfsInv, SharedInv, AfsTypeOK
<1>3. CASE afs # "client"
  <2>1. AfsTypeOK /\ DefaultInv /\ (~overlaps => AloneInv)
    BY <1>3 DEF AfsInv
  <2>2. afs' # "client"
    BY <1>3
  <2>3. trees' \subseteq {"default"}
    BY <2>1 DEF AfsTypeOK, DefaultInv, Plain, Calling
  <2>4. afs' \in Threads =>
          at'[afs'] \in Beyond /\ undo'[afs'] /\ job'[afs'] # "free" /\ maker'[afs'] = "default"
    BY <2>1 DEF AfsTypeOK, DefaultInv, Plain, Beyond, Calling, Jobs
  <2>5. afs' = "static" => \E u \in Threads : Owes(u)'
    BY <2>1 DEF AfsTypeOK, DefaultInv, Owes, Plain, Beyond, Jobs
  <2>6. ASSUME NEW u \in Threads PROVE Plain(u)'
    <3>1. maker'[t] = "default" /\ made'[t] = {} /\ at'[t] = "entered" /\ job'[t] = "parse"
      BY <1>0, <1>3, <2>1 DEF AfsTypeOK
    <3>2. CASE u = t
      BY <2>1, <3>1, <3>2 DEF DefaultInv, Plain
    <3>3. CASE u # t
      BY <2>1, <3>3 DEF AfsTypeOK, DefaultInv, Plain
    <3> QED BY <3>2, <3>3
  <2>7. ~overlaps' => AloneInv'
    <3> SUFFICES ASSUME ~overlaps' PROVE AloneInv'
      OBVIOUS
    <3>1. AllOut
      <4>1. ~(~AllOut /\ (overlaps \/ afs # "client"))
        BY Zenon
      <4> QED BY <1>3, <4>1
    <3>2. afs = "null"
      BY <1>3, <2>1, <3>1 DEF AfsTypeOK, DefaultInv, Owes, Beyond, AllOut
    <3>3. inner[t] = 0
      BY <2>1, <3>1 DEF DefaultInv, Plain, AllOut
    <3>4. \A u \in Threads : u # t => at'[u] = "client"
      BY <2>1, <3>1 DEF AfsTypeOK, AllOut
    <3>5. at'[t] = "entered"
      BY <2>1 DEF AfsTypeOK
    <3> QED BY <3>2, <3>3, <3>4, <3>5 DEF AloneInv, Only
  <2> QED BY <1>1, <2>2, <2>3, <2>4, <2>5, <2>6, <2>7 DEF AfsInv, DefaultInv
<1> QED BY <1>2, <1>3

LEMMA EnterFreeInv ==
  ASSUME AfsInv, NEW t \in Threads, EnterFree(t)
  PROVE  AfsInv'
<1> USE ThreadsAssumption DEF EnterFree, Enter
<1>1. AfsTypeOK'
  <2>1. overlaps' \in BOOLEAN
    BY Zenon
  <2>2. made' \in [Threads -> SUBSET Makers]
    BY DEF AfsInv, AfsTypeOK
  <2> QED BY <2>1, <2>2 DEF AfsInv, AfsTypeOK, Places, Jobs
<1>2. CASE afs = "client"
  BY <1>1, <1>2, ZenonT(60) DEF AfsInv, SharedInv, AfsTypeOK
<1>3. CASE afs # "client"
  <2>1. AfsTypeOK /\ DefaultInv /\ (~overlaps => AloneInv)
    BY <1>3 DEF AfsInv
  <2>2. afs' # "client"
    BY <1>3
  <2>3. trees' \subseteq {"default"}
    BY <2>1 DEF AfsTypeOK, DefaultInv, Plain, Calling
  <2>4. afs' \in Threads =>
          at'[afs'] \in Beyond /\ undo'[afs'] /\ job'[afs'] # "free" /\ maker'[afs'] = "default"
    BY <2>1 DEF AfsTypeOK, DefaultInv, Plain, Beyond, Calling, Jobs
  <2>5. afs' = "static" => \E u \in Threads : Owes(u)'
    BY <2>1 DEF AfsTypeOK, DefaultInv, Owes, Plain, Beyond, Jobs
  <2>6. ASSUME NEW u \in Threads PROVE Plain(u)'
    BY <2>1 DEF AfsTypeOK, DefaultInv, Plain, Calling
  <2>7. ~overlaps' => AloneInv'
    <3> SUFFICES ASSUME ~overlaps' PROVE AloneInv'
      OBVIOUS
    <3>1. AllOut
      <4>1. ~(~AllOut /\ (overlaps \/ afs # "client"))
        BY Zenon
      <4> QED BY <1>3, <4>1
    <3>2. afs = "null"
      BY <1>3, <2>1, <3>1 DEF AfsTypeOK, DefaultInv, Owes, Beyond, AllOut
    <3>3. inner[t] = 0
      BY <2>1, <3>1 DEF DefaultInv, Plain, AllOut
    <3>4. \A u \in Threads : u # t => at'[u] = "client"
      BY <2>1, <3>1 DEF AfsTypeOK, AllOut
    <3>5. at'[t] = "entered"
      BY <2>1 DEF AfsTypeOK
    <3> QED BY <3>2, <3>3, <3>4, <3>5 DEF AloneInv, Only
  <2> QED BY <1>1, <2>2, <2>3, <2>4, <2>5, <2>6, <2>7 DEF AfsInv, DefaultInv
<1> QED BY <1>2, <1>3

LEMMA TestAfsInv ==
  ASSUME AfsInv, NEW t \in Threads, TestAfs(t)
  PROVE  AfsInv'
<1> USE ThreadsAssumption DEF TestAfs
<1>1. AfsTypeOK'
  BY DEF AfsInv, AfsTypeOK, Places, Jobs, Makers
<1>2. CASE afs = "client"
  BY <1>1, <1>2 DEF AfsInv, SharedInv, AfsTypeOK
<1>3. CASE afs # "client"
  <2>1. AfsTypeOK /\ DefaultInv /\ (~overlaps => AloneInv)
    BY <1>3 DEF AfsInv
  <2>2. afs' # "client"
    BY <1>3
  <2>3. trees' \subseteq {"default"}
    BY <2>1 DEF AfsTypeOK, DefaultInv, Plain, Calling
  <2>4. afs' \in Threads =>
          at'[afs'] \in Beyond /\ undo'[afs'] /\ job'[afs'] # "free" /\ maker'[afs'] = "default"
    BY <2>1 DEF AfsTypeOK, DefaultInv, Plain, Beyond, Calling, Jobs
  <2>5. afs' = "static" => \E u \in Threads : Owes(u)'
    BY <2>1 DEF AfsTypeOK, DefaultInv, Owes, Plain, Beyond, Jobs
  <2>6. ASSUME NEW u \in Threads PROVE Plain(u)'
    BY <2>1 DEF AfsTypeOK, DefaultInv, Plain, Calling
  <2>7. ~overlaps' => AloneInv'
    BY <2>1, ZenonT(60) DEF AfsTypeOK, DefaultInv, AloneInv, Only, Plain, Jobs
  <2> QED BY <1>1, <2>2, <2>3, <2>4, <2>5, <2>6, <2>7 DEF AfsInv, DefaultInv
<1> QED BY <1>2, <1>3

LEMMA InstallInv ==
  ASSUME AfsInv, NEW t \in Threads, Install(t)
  PROVE  AfsInv'
<1> USE ThreadsAssumption DEF Install
<1>1. AfsTypeOK'
  BY DEF AfsInv, AfsTypeOK, Places, Jobs, Makers
<1>2. CASE afs = "client"
  BY <1>1, <1>2 DEF AfsInv, SharedInv, AfsTypeOK
<1>3. CASE afs # "client"
  <2>1. AfsTypeOK /\ DefaultInv /\ (~overlaps => AloneInv)
    BY <1>3 DEF AfsInv
  <2>2. afs' # "client"
    BY <1>3
  <2>3. trees' \subseteq {"default"}
    BY <2>1 DEF AfsTypeOK, DefaultInv, Plain, Calling
  <2>4. afs' \in Threads =>
          at'[afs'] \in Beyond /\ undo'[afs'] /\ job'[afs'] # "free" /\ maker'[afs'] = "default"
    BY <2>1 DEF AfsTypeOK, DefaultInv, Plain, Beyond, Calling, Jobs
  <2>5. afs' = "static" => \E u \in Threads : Owes(u)'
    BY <2>1 DEF AfsTypeOK, DefaultInv, Owes, Plain, Beyond, Jobs
  <2>6. ASSUME NEW u \in Threads PROVE Plain(u)'
    BY <2>1 DEF AfsTypeOK, DefaultInv, Plain, Calling
  <2>7. ~overlaps' => AloneInv'
    BY <2>1, ZenonT(60) DEF AfsTypeOK, DefaultInv, AloneInv, Only, Plain, Jobs
  <2> QED BY <1>1, <2>2, <2>3, <2>4, <2>5, <2>6, <2>7 DEF AfsInv, DefaultInv
<1> QED BY <1>2, <1>3

LEMMA BuildInv ==
  ASSUME AfsInv, NEW t \in Threads, Build(t)
  PROVE  AfsInv'
<1> USE ThreadsAssumption DEF Build
<1>1. AfsTypeOK'
  <2>1. Through(afs) \in Makers
    BY SharedThrough, DefaultThrough DEF Makers
  <2>2. made[t] \subseteq Makers
    BY DEF AfsInv, AfsTypeOK
  <2> QED BY <2>1, <2>2 DEF AfsInv, AfsTypeOK
<1>2. CASE afs = "client"
  BY <1>1, <1>2, SharedThrough DEF AfsInv, SharedInv, AfsTypeOK, Makers
<1>3. CASE afs # "client"
  <2>1. AfsTypeOK /\ DefaultInv /\ (~overlaps => AloneInv)
    BY <1>3 DEF AfsInv
  <2>2. afs' # "client"
    BY <1>3
  <2>3. trees' \subseteq {"default"}
    BY <2>1 DEF AfsTypeOK, DefaultInv, Plain, Calling
  <2>4. afs' \in Threads =>
          at'[afs'] \in Beyond /\ undo'[afs'] /\ job'[afs'] # "free" /\ maker'[afs'] = "default"
    BY <2>1 DEF AfsTypeOK, DefaultInv, Plain, Beyond, Calling, Jobs
  <2>5. afs' = "static" => \E u \in Threads : Owes(u)'
    BY <2>1 DEF AfsTypeOK, DefaultInv, Owes, Plain, Beyond, Jobs
  <2>6. ASSUME NEW u \in Threads PROVE Plain(u)'
    <3>1. Through(afs) = "default"
      BY <1>3, DefaultThrough
    <3> QED BY <2>1, <3>1 DEF AfsTypeOK, DefaultInv, Plain, Calling
  <2>7. ~overlaps' => AloneInv'
    BY <2>1 DEF AfsTypeOK, DefaultInv, AloneInv, Only, Plain, Jobs
  <2> QED BY <1>1, <2>2, <2>3, <2>4, <2>5, <2>6, <2>7 DEF AfsInv, DefaultInv
<1> QED BY <1>2, <1>3

LEMMA FailParseInv ==
  ASSUME AfsInv, NEW t \in Threads, FailParse(t)
  PROVE  AfsInv'
<1> USE ThreadsAssumption DEF FailParse
<1>1. AfsTypeOK'
  BY DEF AfsInv, AfsTypeOK, Places, Jobs, Makers
<1>2. CASE afs = "client"
  BY <1>1, <1>2 DEF AfsInv, SharedInv, AfsTypeOK
<1>3. CASE afs # "client"
  <2>1. AfsTypeOK /\ DefaultInv /\ (~overlaps => AloneInv)
    BY <1>3 DEF AfsInv
  <2>2. afs' # "client"
    BY <1>3
  <2>3. trees' \subseteq {"default"}
    BY <2>1 DEF AfsTypeOK, DefaultInv, Plain, Calling
  <2>4. afs' \in Threads =>
          at'[afs'] \in Beyond /\ undo'[afs'] /\ job'[afs'] # "free" /\ maker'[afs'] = "default"
    BY <2>1 DEF AfsTypeOK, DefaultInv, Plain, Beyond, Calling, Jobs
  <2>5. afs' = "static" => \E u \in Threads : Owes(u)'
    BY <2>1 DEF AfsTypeOK, DefaultInv, Owes, Plain, Beyond, Jobs
  <2>6. ASSUME NEW u \in Threads PROVE Plain(u)'
    BY <2>1 DEF AfsTypeOK, DefaultInv, Plain, Calling
  <2>7. ~overlaps' => AloneInv'
    BY <2>1, ZenonT(60) DEF AfsTypeOK, DefaultInv, AloneInv, Only, Plain, Jobs
  <2> QED BY <1>1, <2>2, <2>3, <2>4, <2>5, <2>6, <2>7 DEF AfsInv, DefaultInv
<1> QED BY <1>2, <1>3

LEMMA TestAgainInv ==
  ASSUME AfsInv, NEW t \in Threads, TestAgain(t)
  PROVE  AfsInv'
<1> USE ThreadsAssumption DEF TestAgain
<1>1. AfsTypeOK'
  BY DEF AfsInv, AfsTypeOK, Places, Jobs, Makers
<1>2. CASE afs = "client"
  BY <1>1, <1>2 DEF AfsInv, SharedInv, AfsTypeOK
<1>3. CASE afs # "client"
  <2>1. AfsTypeOK /\ DefaultInv /\ (~overlaps => AloneInv)
    BY <1>3 DEF AfsInv
  <2>2. afs' # "client"
    BY <1>3
  <2>3. trees' \subseteq {"default"}
    BY <2>1 DEF AfsTypeOK, DefaultInv, Plain, Calling
  <2>4. afs' \in Threads =>
          at'[afs'] \in Beyond /\ undo'[afs'] /\ job'[afs'] # "free" /\ maker'[afs'] = "default"
    BY <2>1 DEF AfsTypeOK, DefaultInv, Plain, Beyond, Calling, Jobs
  <2>5. afs' = "static" => \E u \in Threads : Owes(u)'
    BY <2>1 DEF AfsTypeOK, DefaultInv, Owes, Plain, Beyond, Jobs
  <2>6. ASSUME NEW u \in Threads PROVE Plain(u)'
    BY <2>1 DEF AfsTypeOK, DefaultInv, Plain, Calling
  <2>7. ~overlaps' => AloneInv'
    <3>1. ~AloneInv
      BY DEF AloneInv, Only
    <3> QED BY <2>1, <3>1
  <2> QED BY <1>1, <2>2, <2>3, <2>4, <2>5, <2>6, <2>7 DEF AfsInv, DefaultInv
<1> QED BY <1>2, <1>3

LEMMA InstallAgainInv ==
  ASSUME AfsInv, NEW t \in Threads, InstallAgain(t)
  PROVE  AfsInv'
<1>0. inner[t] \in Nat /\ inner[t] + 1 \in Nat /\ inner[t] + 1 > 0
  <2>1. inner[t] \in Nat
    BY DEF AfsInv, AfsTypeOK
  <2> QED BY <2>1
<1> USE ThreadsAssumption, <1>0 DEF InstallAgain
<1>1. AfsTypeOK'
  <2>1. inner' \in [Threads -> Nat]
    BY <1>0 DEF AfsInv, AfsTypeOK
  <2> QED BY <2>1 DEF AfsInv, AfsTypeOK, Places
<1>2. CASE afs = "client"
  BY <1>1, <1>2 DEF AfsInv, SharedInv, AfsTypeOK
<1>3. CASE afs # "client"
  <2>1. AfsTypeOK /\ DefaultInv /\ (~overlaps => AloneInv)
    BY <1>3 DEF AfsInv
  <2>2. afs' # "client"
    BY <1>3
  <2>3. trees' \subseteq {"default"}
    BY <2>1 DEF AfsTypeOK, DefaultInv, Plain, Calling
  <2>4. afs' \in Threads =>
          at'[afs'] \in Beyond /\ undo'[afs'] /\ job'[afs'] # "free" /\ maker'[afs'] = "default"
    BY <2>1 DEF AfsTypeOK, DefaultInv, Plain, Beyond, Calling, Jobs
  <2>5. afs' = "static" => \E u \in Threads : Owes(u)'
    <3>1. at'[t] = "inside" /\ inner'[t] = inner[t] + 1
      BY <2>1 DEF AfsTypeOK
    <3>2. inner'[t] > 0
      BY <1>0, <3>1, Zenon
    <3> QED BY <3>1, <3>2 DEF Owes, Beyond
  <2>6. ASSUME NEW u \in Threads PROVE Plain(u)'
    BY <2>1 DEF AfsTypeOK, DefaultInv, Plain, Calling
  <2>7. ~overlaps' => AloneInv'
    BY <2>1 DEF AfsTypeOK, DefaultInv, AloneInv, Only, Plain, Jobs
  <2> QED BY <1>1, <2>2, <2>3, <2>4, <2>5, <2>6, <2>7 DEF AfsInv, DefaultInv
<1> QED BY <1>2, <1>3

LEMMA ReturnInnerInv ==
  ASSUME AfsInv, NEW t \in Threads, ReturnInner(t)
  PROVE  AfsInv'
<1>0. inner[t] \in Nat
  BY DEF AfsInv, AfsTypeOK
<1> USE ThreadsAssumption, <1>0 DEF ReturnInner
<1>1. AfsTypeOK'
  <2>1. inner[t] - 1 \in Nat
    BY <1>0
  <2>2. inner' \in [Threads -> Nat]
    BY <2>1 DEF AfsInv, AfsTypeOK
  <2> QED BY <2>2 DEF AfsInv, AfsTypeOK, Places
<1>2. CASE afs = "client"
  <2>1. inner[t] # 0
    OBVIOUS
  <2> QED BY <1>2, <2>1, Zenon DEF AfsInv, SharedInv
<1>3. CASE afs # "client"
  <2>1. AfsTypeOK /\ DefaultInv /\ (~overlaps => AloneInv)
    BY <1>3 DEF AfsInv
  <2>2. afs' # "client"
    BY <1>3
  <2>3. trees' \subseteq {"default"}
    BY <2>1 DEF AfsTypeOK, DefaultInv, Plain, Calling
  <2>4. afs' \in Threads =>
          at'[afs'] \in Beyond /\ undo'[afs'] /\ job'[afs'] # "free" /\ maker'[afs'] = "default"
    BY <2>1 DEF AfsTypeOK, DefaultInv, Plain, Beyond, Calling, Jobs
  <2>5. afs' = "static" => \E u \in Threads : Owes(u)'
    BY <2>1 DEF AfsTypeOK, DefaultInv, Owes, Plain, Beyond, Jobs
  <2>6. ASSUME NEW u \in Threads PROVE Plain(u)'
    BY <2>1 DEF AfsTypeOK, DefaultInv, Plain, Calling
  <2>7. ~overlaps' => AloneInv'
    <3>1. at[t] # "client" /\ inner[t] # 0
      OBVIOUS
    <3>2. ~AloneInv
      BY <3>1, Zenon DEF AloneInv, Only
    <3> QED BY <2>1, <3>2
  <2> QED BY <1>1, <2>2, <2>3, <2>4, <2>5, <2>6, <2>7 DEF AfsInv, DefaultInv
<1> QED BY <1>2, <1>3

LEMMA EndParseInv ==
  ASSUME AfsInv, NEW t \in Threads, EndParse(t)
  PROVE  AfsInv'
<1> USE ThreadsAssumption DEF EndParse
<1>1. AfsTypeOK'
  BY DEF AfsInv, AfsTypeOK, Places, Jobs, Makers
<1>2. CASE afs = "client"
  BY <1>1, <1>2 DEF AfsInv, SharedInv, AfsTypeOK
<1>3. CASE afs # "client"
  <2>1. AfsTypeOK /\ DefaultInv /\ (~overlaps => AloneInv)
    BY <1>3 DEF AfsInv
  <2>2. afs' # "client"
    BY <1>3
  <2>3. trees' \subseteq {"default"}
    BY <2>1 DEF AfsTypeOK, DefaultInv, Plain, Calling
  <2>4. afs' \in Threads =>
          at'[afs'] \in Beyond /\ undo'[afs'] /\ job'[afs'] # "free" /\ maker'[afs'] = "default"
    BY <2>1 DEF AfsTypeOK, DefaultInv, Plain, Beyond, Calling, Jobs
  <2>5. afs' = "static" => \E u \in Threads : Owes(u)'
    BY <2>1 DEF AfsTypeOK, DefaultInv, Owes, Plain, Beyond, Jobs
  <2>6. ASSUME NEW u \in Threads PROVE Plain(u)'
    BY <2>1 DEF AfsTypeOK, DefaultInv, Plain, Calling
  <2>7. ~overlaps' => AloneInv'
    <3> SUFFICES ASSUME ~overlaps, NEW u \in Threads, at'[u] # "client"
                 PROVE  Only(u)'
      BY DEF AloneInv
    <3>1. Only(t)
      BY <2>1 DEF AloneInv
    <3>2. u = t
      BY <2>1, <3>1 DEF Only, AfsTypeOK
    <3> QED BY <2>1, <3>1, <3>2 DEF Only, AfsTypeOK
  <2> QED BY <1>1, <2>2, <2>3, <2>4, <2>5, <2>6, <2>7 DEF AfsInv, DefaultInv
<1> QED BY <1>2, <1>3

LEMMA EndFreeInv ==
  ASSUME AfsInv, NEW t \in Threads, EndFree(t)
  PROVE  AfsInv'
<1> USE ThreadsAssumption DEF EndFree
<1>1. AfsTypeOK'
  BY DEF AfsInv, AfsTypeOK, Places, Jobs, Makers
<1>2. CASE afs = "client"
  BY <1>1, <1>2 DEF AfsInv, SharedInv, AfsTypeOK
<1>3. CASE afs # "client"
  <2>1. AfsTypeOK /\ DefaultInv /\ (~overlaps => AloneInv)
    BY <1>3 DEF AfsInv
  <2>2. afs' # "client"
    BY <1>3
  <2>3. trees' \subseteq {"default"}
    BY <2>1 DEF AfsTypeOK, DefaultInv, Plain, Calling
  <2>4. afs' \in Threads =>
          at'[afs'] \in Beyond /\ undo'[afs'] /\ job'[afs'] # "free" /\ maker'[afs'] = "default"
    BY <2>1 DEF AfsTypeOK, DefaultInv, Plain, Beyond, Calling, Jobs
  <2>5. afs' = "static" => \E u \in Threads : Owes(u)'
    BY <2>1 DEF AfsTypeOK, DefaultInv, Owes, Plain, Beyond, Jobs
  <2>6. ASSUME NEW u \in Threads PROVE Plain(u)'
    BY <2>1 DEF AfsTypeOK, DefaultInv, Plain, Calling
  <2>7. ~overlaps' => AloneInv'
    <3> SUFFICES ASSUME ~overlaps, NEW u \in Threads, at'[u] # "client"
                 PROVE  Only(u)'
      BY DEF AloneInv
    <3>1. Only(t)
      BY <2>1 DEF AloneInv
    <3>2. u = t
      BY <2>1, <3>1 DEF Only, AfsTypeOK
    <3> QED BY <2>1, <3>1, <3>2 DEF Only, AfsTypeOK
  <2> QED BY <1>1, <2>2, <2>3, <2>4, <2>5, <2>6, <2>7 DEF AfsInv, DefaultInv
<1> QED BY <1>2, <1>3

LEMMA LeaveInv ==
  ASSUME AfsInv, NEW t \in Threads, Leave(t)
  PROVE  AfsInv'
<1> USE ThreadsAssumption DEF Leave, BackToClient
<1>1. AfsTypeOK'
  BY DEF AfsInv, AfsTypeOK, Places, Jobs, Makers
<1>2. CASE afs = "client"
  BY <1>1, <1>2 DEF AfsInv, SharedInv, AfsTypeOK
<1>3. CASE afs # "client"
  <2>1. AfsTypeOK /\ DefaultInv /\ (~overlaps => AloneInv)
    BY <1>3 DEF AfsInv
  <2>2. afs' # "client"
    BY <1>3
  <2>3. trees' \subseteq {"default"}
    BY <2>1 DEF AfsTypeOK, DefaultInv, Plain, Calling
  <2>4. afs' \in Threads =>
          at'[afs'] \in Beyond /\ undo'[afs'] /\ job'[afs'] # "free" /\ maker'[afs'] = "default"
    BY <2>1 DEF AfsTypeOK, DefaultInv, Plain, Beyond, Calling, Jobs
  <2>5. afs' = "static" => \E u \in Threads : Owes(u)'
    <3> SUFFICES ASSUME afs' = "static" PROVE \E u \in Threads : Owes(u)'
      OBVIOUS
    <3>1. ~undo[t] /\ afs = "static"
      OBVIOUS
    <3>2. PICK u \in Threads : Owes(u)
      BY <2>1, <3>1 DEF DefaultInv
    <3>3. u # t
      BY <2>1, <3>1, <3>2 DEF DefaultInv, Plain, Owes, AfsTypeOK
    <3>4. Owes(u)'
      BY <2>1, <3>2, <3>3 DEF Owes, AfsTypeOK
    <3> QED BY <3>4
  <2>6. ASSUME NEW u \in Threads PROVE Plain(u)'
    BY <2>1 DEF AfsTypeOK, DefaultInv, Plain, Calling
  <2>7. ~overlaps' => AloneInv'
    BY <2>1, ZenonT(60) DEF AfsTypeOK, DefaultInv, AloneInv, Only, Plain, Jobs
  <2> QED BY <1>1, <2>2, <2>3, <2>4, <2>5, <2>6, <2>7 DEF AfsInv, DefaultInv
<1> QED BY <1>2, <1>3

LEMMA StrayInv ==
  ASSUME AfsInv, NEW t \in Threads, Stray(t)
  PROVE  AfsInv'
<1> USE ThreadsAssumption DEF Stray
<1>1. AfsTypeOK'
  BY DEF AfsInv, AfsTypeOK, Places, Jobs, Makers
<1>2. CASE afs = "client"
  BY <1>1, <1>2 DEF AfsInv, SharedInv, AfsTypeOK, Live
<1>3. CASE afs # "client"
  <2>1. AfsTypeOK /\ DefaultInv /\ (~overlaps => AloneInv)
    BY <1>3 DEF AfsInv
  <2>2. afs' # "client"
    BY <1>3
  <2>3. trees' \subseteq {"default"}
    BY <2>1 DEF AfsTypeOK, DefaultInv, Plain, Calling
  <2>4. afs' \in Threads =>
          at'[afs'] \in Beyond /\ undo'[afs'] /\ job'[afs'] # "free" /\ maker'[afs'] = "default"
    BY <2>1 DEF AfsTypeOK, DefaultInv, Plain, Beyond, Calling, Jobs
  <2>5. afs' = "static" => \E u \in Threads : Owes(u)'
    BY <2>1 DEF AfsTypeOK, DefaultInv, Owes, Plain, Beyond, Jobs
  <2>6. ASSUME NEW u \in Threads PROVE Plain(u)'
    BY <2>1 DEF AfsTypeOK, DefaultInv, Plain, Calling
  <2>7. ~overlaps' => AloneInv'
    <3> SUFFICES ASSUME ~overlaps' PROVE FALSE
      OBVIOUS
    <3>1. ~overlaps /\ at[t] = "inside"
      BY Zenon
    <3>2. afs = IF job[t] = "free" THEN "static" ELSE t
      BY <2>1, <3>1 DEF AloneInv, Only
    <3> QED BY <3>1, <3>2 DEF Live
  <2> QED BY <1>1, <2>2, <2>3, <2>4, <2>5, <2>6, <2>7 DEF AfsInv, DefaultInv
<1> QED BY <1>2, <1>3

-----------------------------------------------------------------------------
LEMMA AfsStepInv == AfsInv /\ [AfsNext]_afsVars => AfsInv'
<1> SUFFICES ASSUME AfsInv, [AfsNext]_afsVars
             PROVE  AfsInv'
  OBVIOUS
<1>1. CASE SetAfs
  BY <1>1, SetAfsInv
<1>2. ASSUME NEW t \in Threads, Call(t)
      PROVE  AfsInv'
  BY <1>2, EnterParseInv, EnterFreeInv, TestAfsInv, InstallInv, BuildInv, FailParseInv,
     EndParseInv, EndFreeInv, LeaveInv, TestAgainInv, InstallAgainInv, ReturnInnerInv,
     StrayInv DEF Call
<1>3. CASE UNCHANGED afsVars
  BY <1>3 DEF afsVars, AfsInv, AfsTypeOK, SharedInv, DefaultInv, Owes, Plain, AloneInv, Only
<1> QED BY <1>1, <1>2, <1>3 DEF AfsNext

LEMMA AfsInvariance == AfsSpec => []AfsInv
  BY AfsInitInv, AfsStepInv, PTL DEF AfsSpec

\* As long as calls do not overlap under a global that the client has left null,
\* yajl_tree_parse_afs leads to live functions whenever a call allocates or
\* frees through it, for any number of threads, one after the other; with the
\* client's functions also all at once.
THEOREM AfsAlive == AfsSpec => []LiveUnlessOverlap
<1>1. AfsInv => LiveUnlessOverlap
  BY AfsInvImplies
<1> QED BY <1>1, AfsInvariance, PTL

\* A block goes back to the functions it came from: calls that overlap may find
\* no functions, but never others.
THEOREM AfsSame == AfsSpec => []SameFunctions
<1>1. AfsInv => SameFunctions
  BY AfsInvImplies
<1> QED BY <1>1, AfsInvariance, PTL

\* Outside of the calls the global is as the client left it, however they have
\* overlapped.
THEOREM AfsReset == AfsSpec => []ResetOnReturn
<1>1. AfsInv => ResetOnReturn
  BY AfsInvImplies
<1> QED BY <1>1, AfsInvariance, PTL

-----------------------------------------------------------------------------
(* The invariant. *)

\* The places outside of the heap: the context, the client's tree, the
\* outermost call of yajl_tree_free.
First(w) == IF w = <<>> THEN NULL ELSE w[1].v
Outside == <<m.stack, m.root, tree, First(work), NULL>>

\* The context is that of a parse that can still go on, or has succeeded.
Building ==
    stage \in {"new", "ready", "parse", "parsed", "finish", "done"} /\ phase # "dead"

Quiet == {"new", "ready", "parsed", "failed", "done", "over", "free", "freed"}

Control ==
    /\ frames \in Seq(FrameKinds) /\ phase \in {"fresh", "open", "done", "dead"}
    /\ frames # <<>> <=> phase = "open"
    /\ callbacks = Table /\ flags = {}
    /\ status \in {"ok", "error"}
    /\ stage \in Quiet \cup {"parse", "finish"}
    /\ stage \in Quiet => call = "none"
    /\ stage \notin Quiet => call = stage
    /\ stage = "failed" => status = "error"
    /\ stage = "done" => phase = "done" /\ status = "ok"
    /\ stage = "over" => (tree # NULL <=> status = "ok")

\* What the parse holds, and what the client and yajl_tree_free do.
Roles ==
    /\ Building => /\ \E sp : Spine(m.heap, m.stack, frames, sp)
                   /\ m.root # NULL <=> phase = "done"
    /\ stage # "over" => tree = NULL
    /\ stage \notin {"failed", "free"} => work = <<>>
    /\ stage \in {"over", "free", "freed"} => m.stack = NULL /\ m.root = NULL

Memory ==
    /\ Ctx(m, m.heap, m.stack, m.root)
    /\ Shape(m.heap, Outside)
    /\ Progress(m.heap, work)

TreeInv == Control /\ Roles /\ Memory

-----------------------------------------------------------------------------
LEMMA EmptyHeap == Shape(<<>>, <<NULL, NULL, NULL, NULL, NULL>>) /\ Full(<<>>)
<1> DEFINE h == <<>>
           held == <<NULL, NULL, NULL, NULL, NULL>>
<1>1. DOMAIN h = {} /\ held \in Five
  BY FiveIs DEF NULL
<1>2. IsFiniteSet({})
  BY FS_EmptySet
<1>3. h = [a \in DOMAIN h |-> h[a]]
  OBVIOUS
<1>4. HeapOK(h)
  BY <1>1, <1>2, <1>3 DEF HeapOK
<1>5. \A k \in 1..5 : held[k] = NULL
  OBVIOUS
<1> HIDE DEF h, held
<1>6. ASSUME NEW a, NEW k, NEW q PROVE <<a, k, q>> \notin Edges(h, held)
  <2>1. ~Edge(h, held, a, k, q)
    BY <1>1, <1>5 DEF Edge
  <2> QED BY <1>1, <1>4, <2>1, EdgeIs
<1>7. Owned(DOMAIN h, Edges(h, held))
  BY <1>1, <1>6 DEF Owned, Grounded
<1>8. Shape(h, held)
  BY <1>1, <1>4, <1>6, <1>7 DEF Shape
<1>9. Full(h)
  BY <1>1 DEF Full
<1> QED BY <1>8, <1>9 DEF h, held

LEMMA TreeInitInv == Init => TreeInv
<1> SUFFICES ASSUME Init PROVE TreeInv
  OBVIOUS
<1>1. /\ frames = <<>> /\ phase = "fresh" /\ flags = {} /\ callbacks = Table
      /\ call = "none" /\ status = "ok" /\ stage = "new" /\ tree = NULL /\ work = <<>>
      /\ m = [heap |-> <<>>, stack |-> NULL, root |-> NULL, fault |-> "none"]
  BY DEF Init, Parser!Init
<1>2. m.heap = <<>> /\ m.stack = NULL /\ m.root = NULL /\ Ctx(m, m.heap, m.stack, m.root)
  BY <1>1 DEF Ctx
<1>3. Control
  BY <1>1 DEF Control, Quiet
<1>4. Spine(m.heap, m.stack, frames, <<>>)
  BY <1>1, <1>2 DEF Spine
<1>5. Roles
  BY <1>1, <1>2, <1>4 DEF Roles
<1>6. Outside = <<NULL, NULL, NULL, NULL, NULL>>
  BY <1>1, <1>2 DEF Outside, First
<1>7. Memory
  BY <1>1, <1>2, <1>6, EmptyHeap, ProgressIdle DEF Memory
<1> QED BY <1>3, <1>5, <1>7 DEF TreeInv

\* The steps that leave the heap alone.
LEMMA MemorySame ==
  ASSUME Memory, UNCHANGED <<m, tree, work>>
  PROVE  Memory'
<1>1. Outside' = Outside
  BY DEF Outside, First
<1> QED BY <1>1 DEF Memory

\* A context that a callback is given, and one that it leaves.
LEMMA ContextGiven ==
  ASSUME TreeInv, Building
  PROVE  CtxOK(m, frames, NULL) /\ tree = NULL /\ work = <<>> /\ (m.root # NULL <=> phase = "done")
<1>1. /\ tree = NULL /\ work = <<>> /\ (m.root # NULL <=> phase = "done")
      /\ \E sp : Spine(m.heap, m.stack, frames, sp)
  BY DEF TreeInv, Roles, Building
<1>2. Outside = Places_(m, NULL)
  BY <1>1 DEF Outside, First, Places_
<1>3. Full(m.heap)
  BY <1>1, ProgressIdle DEF TreeInv, Memory
<1> QED BY <1>1, <1>2, <1>3 DEF CtxOK, TreeInv, Memory

LEMMA ContextLeft ==
  ASSUME NEW fr, Goes(m', fr), tree' = NULL, work' = <<>>
  PROVE  /\ Memory' /\ (\E sp : Spine(m'.heap, m'.stack, fr, sp))
         /\ m'.root # NULL <=> fr = <<>>
         /\ m'.fault = "none"
<1>1. CtxOK(m', fr, NULL) /\ (m'.root # NULL <=> fr = <<>>)
  BY DEF Goes
<1>2. Outside' = Places_(m', NULL)
  BY DEF Outside, First, Places_
<1>3. Ctx(m', m'.heap, m'.stack, m'.root) /\ Shape(m'.heap, Places_(m', NULL)) /\ Full(m'.heap)
  BY <1>1 DEF CtxOK
<1>4. Progress(m'.heap, <<>>)
  BY <1>3, ProgressIdle
<1>5. m'.fault = "none"
  BY <1>3 DEF Ctx
<1>6. Memory'
  BY <1>2, <1>3, <1>4 DEF Memory
<1> QED BY <1>1, <1>5, <1>6 DEF CtxOK
-----------------------------------------------------------------------------
(* The callbacks.  None of them stops the parse. *)

Doubtless(cb, text) ==
    /\ m' = Handled(m, cb, text)
    /\ (status' = "client_canceled") <=> (m'.fault # "none")
    /\ stage' = IF call' = "none" THEN "failed" ELSE stage
    /\ UNCHANGED <<flags, callbacks, tree, work>>

LEMMA CallbackStep ==
  ASSUME TreeInv, Running, phase # "dead",
         NEW cb \in Table, NEW fs \in Seq(FrameKinds), Parser!Tell(cb, fs),
         NEW text, Doubtless(cb, text), Goes(Handled(m, cb, text), fs)
  PROVE  TreeInv'
<1>1. stage \in {"parse", "finish"} /\ stage \notin Quiet /\ call = stage
  BY DEF Running, At, TreeInv, Control, Quiet
<1>2. Building
  BY <1>1 DEF Building
<1>3. tree' = NULL /\ work' = <<>> /\ Goes(m', fs)
  BY <1>2, ContextGiven DEF Doubtless
<1>4. /\ Memory' /\ (\E sp : Spine(m'.heap, m'.stack, fs, sp))
      /\ m'.root # NULL <=> fs = <<>>
      /\ m'.fault = "none"
  BY <1>3, ContextLeft
<1>5. status' # "client_canceled" /\ Parser!Told(cb)
  BY <1>4 DEF Doubtless, TreeInv, Control, Parser!Told
<1>6. /\ frames' = fs /\ phase' = (IF fs = <<>> THEN "done" ELSE "open")
      /\ call' = call /\ status' = status
  BY <1>5 DEF Parser!Tell
<1>7. stage' = stage /\ flags' = flags /\ callbacks' = callbacks
  BY <1>1, <1>6 DEF Doubtless
<1>8. Control'
  BY <1>1, <1>3, <1>6, <1>7 DEF TreeInv, Control, Quiet
<1>9. Roles'
  <2>1. stage' \in {"parse", "finish"}
    BY <1>1, <1>7
  <2>2. m'.root # NULL <=> phase' = "done"
    BY <1>4, <1>6
  <2> QED BY <1>3, <1>4, <1>6, <2>1, <2>2 DEF Roles
<1> QED BY <1>4, <1>8, <1>9 DEF TreeInv

LEMMA CallbackInv ==
  ASSUME TreeInv, Callback
  PROVE  TreeInv'
<1>1. PICK text \in TextsOf(event') :
         m' = Handled(m, event', text) /\ doc' = Append(doc, <<event', text>>)
  BY DEF Callback
<1>2. /\ Running /\ phase # "dead" /\ call # "none"
      /\ UNCHANGED <<flags, callbacks>>
  BY DEF Callback, Parser!TellScalar, Parser!TellOpen, Parser!TellKey, Parser!TellClose, Parser!Within
<1>3. Doubtless(event', text)
  BY <1>1, <1>2 DEF Callback, Doubtless
<1>4. stage \in {"parse", "finish"} /\ Building
  BY <1>2 DEF Running, At, Building
<1>5. CtxOK(m, frames, NULL) /\ (m.root # NULL <=> phase = "done")
  BY <1>4, ContextGiven
<1>6. /\ callbacks = Table /\ frames \in Seq(FrameKinds)
      /\ frames # <<>> <=> phase = "open"
      /\ phase # "more"
  BY DEF TreeInv, Control
<1>7. ASSUME Parser!ExpectsValue
      PROVE  Expects(frames) /\ m.root = NULL
  <2>1. phase # "done"
    BY <1>6, <1>7 DEF Parser!ExpectsValue
  <2>2. frames # <<>> => frames[Len(frames)] \in {"value", "elem"}
    BY <1>7 DEF Parser!ExpectsValue, Parser!Top
  <2> QED BY <1>5, <2>1, <2>2 DEF Expects
<1>8. Parser!PastValue = Past(frames) /\ Past(frames) \in Seq(FrameKinds)
  BY <1>6, PastIs DEF Parser!PastValue, Parser!Top, Parser!SetTop, Past
<1>9. CASE Parser!TellScalar
  <2>1. Parser!ExpectsValue
    BY <1>9 DEF Parser!TellScalar
  <2>2. PICK cb \in Parser!ScalarEvents : Parser!Tell(cb, Past(frames))
    BY <1>8, <1>9 DEF Parser!TellScalar
  <2>3. cb \in {"yajl_null", "yajl_boolean", "yajl_string", "yajl_number"} /\ cb \in Table
    BY <1>6, <2>2 DEF Parser!ScalarEvents, Parser!Told, Table
  <2>4. event' = cb
    BY <1>6, <2>2, <2>3 DEF Parser!Tell, Parser!Told
  <2>5. Expects(frames) /\ m.root = NULL
    BY <1>7, <2>1
  <2>6. Goes(Handled(m, cb, text), Past(frames))
    <3>1. CASE cb = "yajl_null"
      <4>1. Handled(m, cb, text) = handle_atom(m, "null") /\ "null" \in Scalars
        BY <3>1, Zenon DEF Handled, Scalars
      <4> QED BY <1>5, <2>5, <4>1, AtomIs
    <3>2. CASE cb = "yajl_boolean"
      <4>1. Handled(m, cb, text) = handle_atom(m, text)
        BY <3>2, Zenon DEF Handled
      <4>2. text \in Booleans
        BY <1>1, <2>4, <3>2 DEF TextsOf
      <4>3. text \in Scalars
        BY <4>2, BooleansAssumption DEF Scalars
      <4> QED BY <1>5, <2>5, <4>1, <4>3, AtomIs
    <3>3. CASE cb = "yajl_string"
      <4>1. Handled(m, cb, text) = handle_string(m, text)
        BY <3>3, Zenon DEF Handled
      <4>2. text \in StringTexts
        BY <1>1, <2>4, <3>3 DEF TextsOf
      <4> QED BY <1>5, <2>5, <4>1, <4>2, StringIs
    <3>4. CASE cb = "yajl_number"
      <4>1. Handled(m, cb, text) = handle_number(m, text)
        BY <3>4, Zenon DEF Handled
      <4>2. text \in NumberTexts
        BY <1>1, <2>4, <3>4 DEF TextsOf
      <4> QED BY <1>5, <2>5, <4>1, <4>2, NumberIs
    <3> QED BY <2>3, <3>1, <3>2, <3>3, <3>4
  <2> QED BY <1>2, <1>3, <1>8, <2>2, <2>3, <2>4, <2>6, CallbackStep
<1>10. CASE Parser!TellOpen
  <2>1. Parser!ExpectsValue
    BY <1>10 DEF Parser!TellOpen
  <2>2. PICK cb, kind : /\ \/ cb = "yajl_start_map" /\ kind = "key"
                           \/ cb = "yajl_start_array" /\ kind = "elem"
                        /\ Parser!Tell(cb, Opens(frames, kind))
    BY <1>8, <1>10 DEF Parser!TellOpen, Opens
  <2>3. event' = cb /\ cb \in Table
    BY <1>6, <2>2 DEF Parser!Tell, Parser!Told, Table
  <2>4. Expects(frames) /\ m.root = NULL
    BY <1>7, <2>1
  <2>5. Opens(frames, kind) \in Seq(FrameKinds)
    <3>1. kind \in FrameKinds
      BY <2>2 DEF FrameKinds
    <3> QED BY <1>8, <3>1 DEF Opens
  <2>6. Goes(Handled(m, cb, text), Opens(frames, kind))
    <3>1. CASE cb = "yajl_start_map" /\ kind = "key"
      <4>1. Handled(m, cb, text) = handle_start(m, "object")
        BY <3>1, Zenon DEF Handled
      <4>2. "object" \in Containers /\ kind = IF "object" = "object" THEN "key" ELSE "elem"
        BY <3>1 DEF Containers
      <4> QED BY <1>5, <2>4, <4>1, <4>2, OpenIs
    <3>2. CASE cb = "yajl_start_array" /\ kind = "elem"
      <4>1. Handled(m, cb, text) = handle_start(m, "array")
        BY <3>2, Zenon DEF Handled
      <4>2. "array" \in Containers /\ kind = IF "array" = "object" THEN "key" ELSE "elem"
        BY <3>2 DEF Containers
      <4> QED BY <1>5, <2>4, <4>1, <4>2, OpenIs
    <3> QED BY <2>2, <3>1, <3>2
  <2> QED BY <1>2, <1>3, <2>2, <2>3, <2>5, <2>6, CallbackStep
<1>11. CASE Parser!TellKey
  <2> DEFINE fs == [frames EXCEPT ![Len(frames)] = "value"]
  <2>1. /\ frames # <<>> /\ frames[Len(frames)] = "key"
        /\ Parser!Tell("yajl_map_key", fs)
    BY <1>11 DEF Parser!TellKey, Parser!Top, Parser!SetTop
  <2>2. event' = "yajl_map_key" /\ "yajl_map_key" \in Table
    BY <1>6, <2>1 DEF Parser!Tell, Parser!Told, Table
  <2>3. fs \in Seq(FrameKinds)
    <3>1. Len(frames) \in 1..Len(frames) /\ "value" \in FrameKinds
      BY <1>6, <2>1 DEF FrameKinds
    <3> QED BY <1>6, <3>1
  <2>4. m.root = NULL
    BY <1>5, <1>6, <2>1
  <2>5. Goes(Handled(m, "yajl_map_key", text), fs)
    <3>1. Handled(m, "yajl_map_key", text) = handle_string(m, text)
      BY Zenon DEF Handled
    <3>2. text \in KeyTexts
      BY <1>1, <2>2 DEF TextsOf
    <3> QED BY <1>5, <2>1, <2>4, <3>1, <3>2, KeyToldIs
  <2> HIDE DEF fs
  <2> QED BY <1>2, <1>3, <2>1, <2>2, <2>3, <2>5, CallbackStep
<1>12. CASE Parser!TellClose
  <2>1. frames # <<>>
    BY <1>12 DEF Parser!TellClose
  <2>2. PICK cb \in {"yajl_end_map", "yajl_end_array"} : Parser!Tell(cb, Around(frames))
    BY <1>12 DEF Parser!TellClose, Around
  <2>3. event' = cb /\ cb \in Table
    BY <1>6, <2>2 DEF Parser!Tell, Parser!Told, Table
  <2>4. m.root = NULL
    BY <1>5, <1>6, <2>1
  <2>5. Handled(m, cb, text) = handle_end(m)
    <3>1. CASE cb = "yajl_end_map"
      BY <3>1, Zenon DEF Handled
    <3>2. CASE cb = "yajl_end_array"
      BY <3>2, Zenon DEF Handled
    <3> QED BY <2>2, <3>1, <3>2
  <2>6. Goes(Handled(m, cb, text), Around(frames))
    BY <1>5, <2>1, <2>4, <2>5, CloseIs
  <2>7. Around(frames) \in Seq(FrameKinds)
    BY <2>6 DEF Goes, CtxOK, Spine
  <2> QED BY <1>2, <1>3, <2>2, <2>3, <2>6, <2>7, CallbackStep
<1> QED BY <1>9, <1>10, <1>11, <1>12 DEF Callback
-----------------------------------------------------------------------------
(* Freeing. *)

\* The places outside of the heap.
LEMMA OutsideIs ==
  ASSUME Memory
  PROVE  /\ Outside \in Five /\ Outside[1] = m.stack /\ Outside[2] = m.root /\ Outside[3] = tree
         /\ Outside[4] = First(work) /\ Outside[5] = NULL
         /\ m.stack \in Nat /\ m.root \in Nat /\ tree \in Nat /\ First(work) \in Nat
<1>1. Outside \in Five
  BY DEF Memory, Shape
<1>2. /\ Outside[1] = m.stack /\ Outside[2] = m.root /\ Outside[3] = tree
      /\ Outside[4] = First(work) /\ Outside[5] = NULL
  BY DEF Outside
<1>3. \A k \in 1..5 : Outside[k] \in Nat
  BY <1>1 DEF Five
<1> QED BY <1>1, <1>2, <1>3

\* Nothing of the parser moves: what is left to show of a step of freeing.
LEMMA ControlSame ==
  ASSUME Control, UNCHANGED <<parserVars, stage, tree>>
  PROVE  Control'
BY DEF Control, parserVars

LEMMA FreeMemberInv ==
  ASSUME TreeInv, FreeMember
  PROVE  TreeInv'
<1> DEFINE heap == m.heap
           held == Outside
           L == Len(work)
           v == work[L].v
           o == heap[v]
           n == work[L].i + 1
           key == heap[o.keys].cells[n]
           c == heap[o.values].cells[n]
           h == m'.heap
           w2 == work'
<1>1. /\ Shape(heap, held) /\ Progress(heap, work) /\ Ctx(m, heap, m.stack, m.root)
      /\ held[4] = First(work)
  BY OutsideIs DEF TreeInv, Memory
<1>2. work # <<>> /\ work \in Seq(Calls) /\ L \in 1..L /\ L = Len(work)
  <2>1. work # <<>> /\ work \in Seq(Calls)
    BY <1>1 DEF FreeMember, Freeing, Progress, WorkOK
  <2> QED BY <2>1
<1>3. work[1].v = held[4] /\ work[L].i \in Nat /\ o.len \in Nat
  <2>1. work[1].v = held[4]
    BY <1>1, <1>2 DEF First
  <2>2. WorkOK(heap, work)
    BY <1>1 DEF Progress
  <2>3. work[L].i \in Nat /\ v \in DOMAIN heap /\ heap[v] \in Val
    BY <1>2, <2>2, CallIs
  <2>4. o.len \in Nat
    BY <2>3 DEF Val
  <2> QED BY <2>1, <2>3, <2>4
<1>4. o.type \in Containers /\ n <= o.len
  <2>1. o.type \in {"object", "array"} /\ work[L].i < o.len
    BY DEF FreeMember, MoreMembers, This
  <2> QED BY <1>3, <2>1 DEF Containers
<1>5. m' = IF o.type = "object"
           THEN [m EXCEPT !.heap = Cleared(Free(heap, key), o.keys, n)]
           ELSE m
  BY DEF FreeMember, This, Cleared
<1>6. w2 = Append(work, tree_free(c)) /\ stage' = stage /\ tree' = tree /\ UNCHANGED parserVars
  BY DEF FreeMember, This
<1>7. tree_free(c).v = c /\ tree_free(c).i = 0 /\ tree_free(c) = [v |-> c, i |-> 0]
  BY DEF tree_free
<1> HIDE DEF L, v, n, heap, held, o, c, key
<1>8. /\ v \in DOMAIN heap /\ heap[v] \in Val /\ n \in 1..heap[v].len
      /\ heap[v].values # NULL /\ heap[v].values \in DOMAIN heap /\ heap[heap[v].values] \in Table_
      /\ Points(heap[heap[v].values], n, c)
      /\ c \in DOMAIN heap /\ heap[c] \in Val
      /\ \A k \in 1..L : work[k].v # c
      /\ heap[v].type = "object" =>
            /\ heap[v].keys # NULL /\ heap[v].keys \in DOMAIN heap /\ heap[heap[v].keys] \in Table_
            /\ n \in 1..Len(heap[heap[v].keys].cells)
            /\ Points(heap[heap[v].keys], n, key)
            /\ key # NULL /\ heap[key] \in Text
  <2>1. /\ v = work[L].v /\ heap[v].type \in Containers /\ n = work[L].i + 1 /\ n <= heap[v].len
    BY <1>4 DEF v, n, o
  <2>2. c = heap[heap[v].values].cells[n] /\ key = heap[heap[v].keys].cells[n]
    BY DEF c, key, o
  <2>3. Loops(heap, held, work, L, v, n)
    BY <1>1, <1>2, <1>3, <2>1 DEF Loops
  <2> QED BY <2>2, <2>3, MemberIs
<1>9. HeapOK(heap) /\ c \in Nat
  BY <1>1, <1>8 DEF Shape, HeapOK
<1>10. /\ w2 \in Seq(Calls) /\ Len(w2) = L + 1 /\ \A k \in 1..L : w2[k] = work[k]
       /\ w2[L + 1].v = c /\ w2[L + 1].i = 0
  <2>1. tree_free(c) \in Calls
    BY <1>7, <1>9 DEF Calls
  <2> HIDE DEF w2
  <2>2. w2 \in Seq(Calls) /\ Len(w2) = L + 1 /\ w2[L + 1] = tree_free(c)
    BY <1>2, <1>6, <2>1
  <2>3. \A k \in 1..L : w2[k] = work[k]
    BY <1>2, <1>6, <2>1
  <2> QED BY <1>7, <2>2, <2>3
<1>11. Loops(heap, held, work, L, v, n)
  <2>1. /\ v = work[L].v /\ heap[v].type \in Containers /\ n = work[L].i + 1 /\ n <= heap[v].len
    BY <1>4 DEF v, n, o
  <2> QED BY <1>1, <1>2, <1>3, <2>1 DEF Loops
<1>12. Calls_(heap, work, L, v, n, c, w2)
  <2> HIDE DEF w2
  <2> QED BY <1>8, <1>10 DEF Calls_
<1>13. /\ Shape(h, held) /\ Progress(h, w2) /\ Ctx(m', h, m.stack, m.root)
  <2>1. CASE o.type = "object"
    <3>1. m' = [m EXCEPT !.heap = Cleared(Free(heap, key), o.keys, n)]
      BY <1>5, <2>1
    <3>2. h = Cleared(Free(heap, key), heap[v].keys, n) /\ Ctx(m', h, m.stack, m.root)
      BY <1>1, <3>1 DEF Ctx, o
    <3> HIDE DEF h, w2
    <3>3. heap[v].type = "object"
      BY <2>1 DEF o
    <3>4. /\ Shape(h, held) /\ DOMAIN h = DOMAIN heap \ {key} /\ key # heap[v].keys
          /\ \A k, q : Points(h[heap[v].keys], k, q) <=>
                          (k # n /\ Points(heap[heap[v].keys], k, q)) \/ (k = n /\ q = NULL)
          /\ \A x \in DOMAIN h : x # heap[v].keys => h[x] = heap[x]
      <4>1. /\ heap[v].keys \in DOMAIN heap /\ heap[heap[v].keys] \in Table_
            /\ n \in 1..Len(heap[heap[v].keys].cells)
            /\ Points(heap[heap[v].keys], n, key)
            /\ key # NULL /\ heap[key] \in Text
        BY <1>8, <3>3
      <4>2. DropsKey(heap, held, heap[v].keys, n, key, h)
        BY <1>1, <3>2, <4>1 DEF DropsKey
      <4>3. KeyDropped(heap, held, heap[v].keys, n, key, h)
        BY <4>2, DropKeyShape
      <4> HIDE DEF v, n
      <4> QED BY <4>3 DEF KeyDropped
    <3>5. heap[key] \in Text /\ heap[heap[v].keys] \in Table_ /\ heap[v].keys # NULL
      BY <1>8, <3>3
    <3>6. HeapOK(h)
      BY <3>4 DEF Shape
    <3>7. \A x \in DOMAIN heap : heap[x] \in Val => x \in DOMAIN h /\ h[x] = heap[x]
      BY <3>4, <3>5, KindsApart
    <3>8. \A x \in DOMAIN heap : heap[x] \in Table_ /\ x # heap[v].keys => x \in DOMAIN h /\ h[x] = heap[x]
      BY <3>4, <3>5, KindsApart
    <3>9. \A j : Points(h[heap[v].keys], j, NULL) <=> j = n \/ Points(heap[heap[v].keys], j, NULL)
      BY <3>4
    <3>10. \A x \in DOMAIN h : x \in DOMAIN heap /\ (h[x] \in Table_ => heap[x] \in Table_)
      BY <3>4, <3>5
    <3>11. FreesKey(heap, h, v, n)
      BY <3>6, <3>7, <3>8, <3>9, <3>10 DEF FreesKey
    <3>12. Progress(h, w2)
      BY <1>11, <1>12, <3>11, ProgressMember
    <3> QED BY <3>2, <3>4, <3>12
  <2>2. CASE o.type # "object"
    <3>1. m' = m /\ h = heap
      BY <1>5, <2>2 DEF heap
    <3> HIDE DEF h, w2
    <3>2. heap[v].keys = NULL
      BY <1>1, <1>8, <2>2, TablesIs DEF o
    <3>3. \A x \in DOMAIN h : x \in DOMAIN heap /\ (h[x] \in Table_ => heap[x] \in Table_)
      BY <3>1
    <3>4. /\ HeapOK(h)
          /\ \A x \in DOMAIN heap : heap[x] \in Val => x \in DOMAIN h /\ h[x] = heap[x]
          /\ \A x \in DOMAIN heap : heap[x] \in Table_ /\ x # heap[v].keys => x \in DOMAIN h /\ h[x] = heap[x]
          /\ heap[v].keys # NULL =>
                \A j : Points(h[heap[v].keys], j, NULL) <=> j = n \/ Points(heap[heap[v].keys], j, NULL)
      BY <1>9, <3>1, <3>2
    <3>5. FreesKey(heap, h, v, n)
      BY <3>3, <3>4 DEF FreesKey
    <3>6. Progress(h, w2)
      BY <1>11, <1>12, <3>5, ProgressMember
    <3> QED BY <1>1, <3>1, <3>6
  <2> QED BY <2>1, <2>2
<1>14. m'.stack = m.stack /\ m'.root = m.root /\ First(work') = First(work) /\ work' # <<>>
  <2>1. m'.stack = m.stack /\ m'.root = m.root
    BY <1>13 DEF Ctx
  <2>2. work'[1] = work[1] /\ work' # <<>> /\ work # <<>>
    BY <1>2, <1>10
  <2> QED BY <2>1, <2>2 DEF First
<1>15. Outside' = held
  BY <1>6, <1>14 DEF Outside, held
<1>16. Memory'
  BY <1>13, <1>14, <1>15 DEF Memory
<1>17. stage \in {"failed", "free"} /\ ~Building'
  <2>1. stage \in {"failed", "free"}
    BY <1>2 DEF TreeInv, Roles
  <2> QED BY <1>6, <2>1 DEF Building
<1>18. Roles'
  BY <1>6, <1>14, <1>17 DEF TreeInv, Roles
<1>19. Control'
  BY <1>6, ControlSame DEF TreeInv
<1> QED BY <1>16, <1>18, <1>19 DEF TreeInv
\* The call of the parse or of the client returns.
LEMMA FreeOuterInv ==
  ASSUME TreeInv, FreeValue, Len(work) = 1
  PROVE  Memory' /\ work' = <<>> /\ m'.stack = m.stack /\ m'.root = m.root
<1> DEFINE heap == m.heap
           held == Outside
           v == work[1].v
           h == m'.heap
           held2 == <<m.stack, m.root, tree, NULL, NULL>>
<1>1. /\ Shape(heap, held) /\ Progress(heap, work) /\ Ctx(m, heap, m.stack, m.root)
      /\ held \in Five /\ held[4] = First(work) /\ held[1] = m.stack /\ held[2] = m.root
      /\ held[3] = tree /\ held[5] = NULL
      /\ m.stack \in Nat /\ m.root \in Nat /\ tree \in Nat
  BY OutsideIs DEF TreeInv, Memory
<1>2. work \in Seq(Calls) /\ work # <<>> /\ 1 \in 1..Len(work) /\ 1 = Len(work) /\ held[4] = v
  <2>1. work \in Seq(Calls)
    BY <1>1 DEF Progress, WorkOK
  <2>2. work # <<>>
    BY DEF FreeValue, Freeing
  <2>3. 1 \in 1..Len(work) /\ 1 = Len(work)
    OBVIOUS
  <2> QED BY <1>1, <2>1, <2>2, <2>3 DEF First
<1>3. SubSeq(work, 1, Len(work) - 1) = <<>>
  <2>1. Len(work) - 1 = 0
    OBVIOUS
  <2> QED BY <1>2, <2>1
<1>4. m' = [m EXCEPT !.heap = Released(heap, v)] /\ work' = <<>>
  BY <1>2, <1>3 DEF FreeValue, This, Released
<1>5. ~(heap[v].type \in Containers /\ work[1].i < heap[v].len)
  BY <1>2 DEF FreeValue, MoreMembers, This, Containers
<1>6. tree' = tree
  BY DEF FreeValue
<1>7. Ctx(m', h, m.stack, m.root) /\ h = Released(heap, v)
  BY <1>1, <1>4 DEF Ctx
<1> HIDE DEF heap, held, v, h
<1>8. held2 \in Five /\ held2[4] = NULL /\ \A k \in 1..5 : k # 4 => held2[k] = held[k]
  <2>1. held2 \in Five
    BY <1>1, FiveIs DEF NULL
  <2> QED BY <1>1, <2>1
<1> HIDE DEF held2
<1>9. /\ v \in DOMAIN heap /\ heap[v] \in Val
      /\ Empty(heap, heap[v].keys) /\ Empty(heap, heap[v].values)
  <2>1. Ends(heap, held, work, 1, v)
    BY <1>1, <1>2, <1>5 DEF Ends, v
  <2> QED BY <2>1, ValueEmpty
<1>10. OuterFreed(heap, v, h, held2)
  <2>1. v # NULL
    BY <1>1, <1>9 DEF Shape, HeapOK
  <2>2. FreesOuter(heap, held, v, h, held2)
    BY <1>1, <1>2, <1>7, <1>8, <1>9, <2>1 DEF FreesOuter
  <2> QED BY <2>2, FreeOuterShape
<1>11. Shape(h, held2)
  BY <1>10 DEF OuterFreed
<1>12. Progress(h, <<>>)
  <2>1. Full(h)
    BY <1>1, <1>2, <1>10, ProgressOuter DEF v
  <2> QED BY <2>1, ProgressIdle
<1>13. m'.stack = m.stack /\ m'.root = m.root
  BY <1>7 DEF Ctx
<1>14. Outside' = held2
  BY <1>4, <1>6, <1>13 DEF Outside, First, held2
<1>15. Ctx(m', m'.heap, m'.stack, m'.root) /\ Shape(m'.heap, Outside') /\ Progress(m'.heap, work')
  BY <1>4, <1>7, <1>11, <1>12, <1>13, <1>14 DEF h
<1> QED BY <1>4, <1>13, <1>15 DEF Memory

\* A call returns to a loop over members.
LEMMA FreeInnerInv ==
  ASSUME TreeInv, FreeValue, Len(work) # 1
  PROVE  Memory' /\ work' # <<>> /\ m'.stack = m.stack /\ m'.root = m.root
<1> DEFINE heap == m.heap
           held == Outside
           L == Len(work)
           v == work[L].v
           t == ValuesOf(heap, work, L - 1)
           n == work[L - 1].i + 1
           left == Released(heap, v)
           rest == SubSeq(work, 1, L - 1)
           h == m'.heap
           w2 == work'
<1>1. /\ Shape(heap, held) /\ Progress(heap, work) /\ Ctx(m, heap, m.stack, m.root)
      /\ held \in Five /\ HeapOK(heap) /\ NULL \notin DOMAIN heap
  BY OutsideIs DEF TreeInv, Memory, Shape, HeapOK
<1>2. work \in Seq(Calls) /\ WorkOK(heap, work) /\ L \in 1..L /\ L = Len(work) /\ L > 1
  <2>1. work \in Seq(Calls) /\ WorkOK(heap, work)
    BY <1>1 DEF Progress, WorkOK
  <2>2. work # <<>>
    BY DEF FreeValue, Freeing
  <2>3. L \in Nat /\ L # 0 /\ L # 1
    BY <2>1, <2>2
  <2> HIDE DEF L
  <2>4. L \in 1..L /\ L > 1
    BY <2>3
  <2> QED BY <2>1, <2>4 DEF L
<1>3. /\ rest \in Seq(Calls) /\ Len(rest) = L - 1 /\ L - 1 \in 1..L /\ L - 1 \in 1..L - 1
      /\ rest # <<>> /\ rest[L - 1] = work[L - 1] /\ \A k \in 1..L - 1 : rest[k] = work[k]
  <2> DEFINE n1 == L - 1
  <2>1. n1 \in Nat /\ n1 < L /\ n1 \in 1..n1 /\ n1 \in 1..L
    BY <1>2
  <2> HIDE DEF n1
  <2>2. SubSeq(work, 1, n1) \in Seq(Calls)
    BY <1>2, <2>1
  <2>3. Len(SubSeq(work, 1, n1)) = n1
    BY <1>2, <2>1
  <2>4. \A k \in 1..n1 : SubSeq(work, 1, n1)[k] = work[k]
    BY <1>2, <2>1
  <2>5. SubSeq(work, 1, n1) # <<>> /\ SubSeq(work, 1, n1)[n1] = work[n1]
    BY <2>1, <2>3, <2>4
  <2>6. n1 = L - 1
    BY DEF n1
  <2> HIDE DEF L
  <2> QED BY <2>1, <2>2, <2>3, <2>4, <2>5, <2>6
<1>4. /\ m' = [m EXCEPT !.heap = Cleared(left, left[work[L - 1].v].values, n)]
      /\ w2 = [rest EXCEPT ![L - 1].i = @ + 1]
  BY <1>3 DEF FreeValue, This, Released, Cleared
<1>5. ~(heap[v].type \in Containers /\ work[L].i < heap[v].len)
  BY DEF FreeValue, MoreMembers, This, Containers
<1>6. tree' = tree
  BY DEF FreeValue
<1>7. Ctx(m', h, m.stack, m.root) /\ h = Cleared(left, left[work[L - 1].v].values, n)
  BY <1>1, <1>4 DEF Ctx
<1> HIDE DEF heap, held, h, left, rest
<1>8. Ends(heap, held, work, L, v)
  BY <1>1, <1>2, <1>5 DEF Ends
<1>9. /\ v \in DOMAIN heap /\ heap[v] \in Val /\ v # NULL
      /\ Empty(heap, heap[v].keys) /\ Empty(heap, heap[v].values)
  BY <1>1, <1>8, ValueEmpty
<1>10. /\ work[L - 1].v \in DOMAIN heap /\ heap[work[L - 1].v] \in Val /\ work[L - 1].v # v
       /\ heap[work[L - 1].v].type \in Containers /\ heap[work[L - 1].v].len # 0
       /\ work[L - 1].i \in Nat
       /\ Points(heap[t], n, v)
  <2>1. L - 1 \in 1..Len(work) /\ L - 1 < Len(work) /\ L - 1 # L /\ L - 1 + 1 = L
    BY <1>2, <1>3
  <2>2. /\ work[L - 1].v \in DOMAIN heap /\ heap[work[L - 1].v] \in Val
        /\ work[L - 1].i \in Nat
    BY <1>2, <2>1, CallIs
  <2>3. work[L - 1].v # v
    BY <1>2, <2>1 DEF WorkOK
  <2>4. /\ heap[work[L - 1].v].type \in Containers /\ work[L - 1].i < heap[work[L - 1].v].len
        /\ Points(heap[ValuesOf(heap, work, L - 1)], work[L - 1].i + 1, work[L - 1 + 1].v)
    BY <1>2, <2>1 DEF WorkOK
  <2>5. heap[work[L - 1].v].len # 0
    BY <2>2, <2>4 DEF Val
  <2> QED BY <2>1, <2>2, <2>3, <2>4, <2>5
<1>11. t # NULL /\ t \in DOMAIN heap /\ heap[t] \in Table_
  <2>1. heap[work[L - 1].v].values # NULL
    BY <1>1, <1>10, ValuesThere
  <2> QED BY <1>1, <1>10, <2>1, TablesIs DEF ValuesOf
<1>12. left[work[L - 1].v] = heap[work[L - 1].v]
  <2> DEFINE u == work[L - 1].v
  <2>1. IsReleased(heap, held, v, left, Away(Edges(heap, held), v))
    BY <1>1, <1>9, ReleasedIs DEF left
  <2>2. /\ heap[v].keys # NULL => heap[heap[v].keys] \in Table_
        /\ heap[v].values # NULL => heap[heap[v].values] \in Table_
    BY <1>1, <1>9, TablesIs
  <2>3. heap[v].text # NULL => heap[heap[v].text] \in Text
    <3> SUFFICES ASSUME heap[v].text # NULL PROVE heap[heap[v].text] \in Text
      OBVIOUS
    <3>1. Points(heap[v], 1, heap[v].text)
      BY <1>9, PointsVal
    <3>2. Edge(heap, held, v, 1, heap[v].text)
      BY <1>9, <3>1 DEF Edge
    <3>3. <<v, 1, heap[v].text>> \in Edges(heap, held)
      BY <1>1, <3>2, EdgeIs
    <3>4. Fits_(heap, v, 1, heap[v].text)
      BY <1>1, <3>3 DEF Shape
    <3> QED BY <1>9, <3>4 DEF Fits_
  <2>4. u \in DOMAIN heap /\ heap[u] \in Val /\ u # v /\ u # NULL
    BY <1>1, <1>10
  <2>5. u # heap[v].keys /\ u # heap[v].values /\ u # heap[v].text
    BY <2>2, <2>3, <2>4, KindsApart
  <2> HIDE DEF u
  <2>6. u \in DOMAIN left
    BY <2>1, <2>4, <2>5 DEF IsReleased
  <2>7. left[u] = heap[u]
    BY <2>1, <2>6 DEF IsReleased
  <2> QED BY <2>7 DEF u
<1>13. h = Cleared(left, t, n)
  BY <1>7, <1>12 DEF ValuesOf
<1>14. Returns(work, L, w2)
  <2> DEFINE j == L - 1
             old == rest[j]
             new == [old EXCEPT !.i = @ + 1]
  <2>1. rest \in Seq(Calls) /\ Len(rest) = j /\ j \in 1..j /\ old = work[j]
    BY <1>3
  <2>2. w2 = [rest EXCEPT ![j] = new]
    BY <1>4
  <2>3. old \in Calls
    BY <2>1
  <2>4. new \in Calls /\ new.v = old.v /\ new.i = old.i + 1
    <3> HIDE DEF old
    <3> QED BY <2>3 DEF Calls
  <2> HIDE DEF new, w2, old
  <2>5. w2 \in Seq(Calls) /\ Len(w2) = j
    BY <2>1, <2>2, <2>4
  <2>6. \A k \in 1..j : w2[k] = IF k = j THEN new ELSE rest[k]
    BY <2>1, <2>2
  <2>7. \A k \in 1..j : rest[k] = work[k]
    BY <1>3
  <2>8. \A k \in 1..j : w2[k].v = work[k].v /\ w2[k].i = IF k = j THEN work[k].i + 1 ELSE work[k].i
    BY <2>1, <2>4, <2>6, <2>7
  <2> QED BY <2>5, <2>8 DEF Returns
<1>15. ReturnsTo(heap, work, L, t, n)
  BY <1>2 DEF ReturnsTo
<1> HIDE DEF t, n, v, L, w2
<1>16. InnerFreed(heap, held, v, t, n, h)
  <2>1. FreesInner(heap, held, v, t, n, h)
    BY <1>1, <1>9, <1>10, <1>11, <1>13 DEF FreesInner, left
  <2> QED BY <2>1, FreeInnerShape
<1>17. Progress(h, w2)
  BY <1>8, <1>14, <1>15, <1>16, ProgressInner
<1>18. Shape(h, held)
  BY <1>16 DEF InnerFreed
<1>19. m'.stack = m.stack /\ m'.root = m.root
  BY <1>7 DEF Ctx
<1>20. work' # <<>> /\ First(work') = First(work)
  <2>1. Len(w2) = L - 1 /\ w2[1].v = work[1].v /\ w2 \in Seq(Calls) /\ 1 \in 1..L - 1
    BY <1>2, <1>3, <1>14 DEF Returns
  <2>2. w2 # <<>> /\ work # <<>>
    BY <1>2, <2>1
  <2> QED BY <2>1, <2>2 DEF First, w2
<1>21. Outside' = held
  BY <1>6, <1>19, <1>20 DEF Outside, held
<1>22. Ctx(m', m'.heap, m'.stack, m'.root) /\ Shape(m'.heap, Outside') /\ Progress(m'.heap, work')
  BY <1>7, <1>17, <1>18, <1>19, <1>21 DEF h, w2
<1> QED BY <1>19, <1>20, <1>22 DEF Memory

LEMMA FreeValueInv ==
  ASSUME TreeInv, FreeValue
  PROVE  TreeInv'
<1>1. Memory' /\ m'.stack = m.stack /\ m'.root = m.root
  BY FreeOuterInv, FreeInnerInv
<1>2. stage' = stage /\ tree' = tree /\ UNCHANGED parserVars
  BY DEF FreeValue
<1>3. stage \in {"failed", "free"}
  BY DEF FreeValue, Freeing, TreeInv, Roles
<1>4. ~Building'
  BY <1>2, <1>3 DEF Building
<1>5. Roles'
  BY <1>1, <1>2, <1>3, <1>4 DEF TreeInv, Roles
<1>6. Control'
  BY <1>2, ControlSame DEF TreeInv
<1> QED BY <1>1, <1>5, <1>6 DEF TreeInv
\* The values that the places outside of the heap lead to.
LEMMA HeldIs ==
  ASSUME NEW heap, NEW held, Shape(heap, held), NEW i \in 2..5, held[i] # NULL
  PROVE  held[i] \in DOMAIN heap /\ heap[held[i]] \in Val
<1>1. HeapOK(heap) /\ held \in Five /\ Owned(DOMAIN heap, Edges(heap, held))
  BY DEF Shape
<1>2. Edge(heap, held, NULL, i, held[i])
  BY DEF Edge
<1>3. <<NULL, i, held[i]>> \in Edges(heap, held)
  BY <1>1, <1>2, EdgeIs
<1>4. held[i] \in DOMAIN heap
  BY <1>1, <1>3 DEF Owned
<1>5. Fits_(heap, NULL, i, held[i])
  BY <1>3 DEF Shape
<1>6. i # 1
  OBVIOUS
<1> QED BY <1>4, <1>5, <1>6 DEF Fits_

\* One place is given what another held.
Passed(held, i, j, held2) ==
    /\ i \in 2..5 /\ j \in 2..5 /\ i # j /\ held[j] = NULL
    /\ held2 \in Five /\ held2[i] = NULL /\ held2[j] = held[i]
    /\ \A k \in 1..5 : k # i /\ k # j => held2[k] = held[k]

LEMMA PassedIs ==
  ASSUME NEW heap, NEW held, NEW i, NEW j, NEW held2, Shape(heap, held), Passed(held, i, j, held2)
  PROVE  Shape(heap, held2)
BY HeldStep DEF Passed

LEMMA FirstIs ==
  ASSUME NEW v \in Nat, NEW w, w = <<tree_free(v)>>
  PROVE  w \in Seq(Calls) /\ Len(w) = 1 /\ w[1].v = v /\ w[1].i = 0 /\ First(w) = v /\ w # <<>>
<1>1. tree_free(v) \in Calls /\ tree_free(v).v = v /\ tree_free(v).i = 0
  BY DEF tree_free, Calls
<1>2. w[1] = tree_free(v) /\ w # <<>> /\ Len(w) = 1 /\ w \in Seq(Calls)
  BY <1>1
<1> QED BY <1>1, <1>2 DEF First

\* yajl_tree_free is called with what is in the fourth place.
LEMMA CallMemory ==
  ASSUME NEW heap, NEW held, Shape(heap, held), Full(heap), NEW v, v = held[4], v # NULL,
         Ctx(m', heap, held[1], held[2]), work' = <<tree_free(v)>>,
         held = <<held[1], held[2], tree', v, NULL>>
  PROVE  Memory'
<1>1. v \in DOMAIN heap /\ heap[v] \in Val /\ v \in Nat
  <2>1. v \in DOMAIN heap /\ heap[v] \in Val
    BY HeldIs
  <2> QED BY <2>1 DEF Shape, HeapOK
<1>2. work' \in Seq(Calls) /\ Len(work') = 1 /\ work'[1].v = v /\ work'[1].i = 0 /\ First(work') = v
  BY <1>1, FirstIs
<1>3. Progress(heap, work')
  BY <1>1, <1>2, ProgressStart
<1>4. m'.heap = heap /\ m'.stack = held[1] /\ m'.root = held[2]
  BY DEF Ctx
<1>5. Outside' = held
  BY <1>2, <1>4 DEF Outside
<1> QED BY <1>3, <1>4, <1>5 DEF Memory

LEMMA UnwindInv ==
  ASSUME TreeInv, Unwind
  PROVE  TreeInv'
<1> DEFINE heap == m.heap
           held == Outside
           e == m.stack
           key == heap[e].key
           v == heap[e].value
           s == heap[e].next
           h == Free(FreeIf(heap, key), e)
           held2 == <<s, m.root, NULL, NULL, v>>
           held3 == <<s, m.root, NULL, v, NULL>>
<1>1. /\ Shape(heap, held) /\ Progress(heap, work) /\ Ctx(m, heap, m.stack, m.root)
      /\ held \in Five /\ held[1] = e /\ held[2] = m.root /\ held[3] = tree
      /\ held[4] = First(work) /\ held[5] = NULL /\ m.root \in Nat
  BY OutsideIs DEF TreeInv, Memory
<1>2. stage = "failed" /\ work = <<>> /\ e # NULL /\ tree = NULL
  BY DEF Unwind, Failing, At, TreeInv, Roles
<1>3. held[3] = NULL /\ held[4] = NULL /\ Full(heap)
  BY <1>1, <1>2, ProgressIdle DEF First
<1>4. m' = [m EXCEPT !.heap = h, !.stack = s] /\ work' = <<tree_free(v)>>
  BY DEF Unwind, context_pop, Top
<1>5. stage' = stage /\ tree' = tree /\ UNCHANGED parserVars
  BY DEF Unwind
<1>6. Ctx(m', h, s, m.root)
  <2> HIDE DEF h, s
  <2> QED BY <1>1, <1>4 DEF Ctx
<1> HIDE DEF heap, held, e
<1>7. e \in DOMAIN heap /\ heap[e] \in Element
  <2>1. Edge(heap, held, NULL, 1, e)
    BY <1>1, <1>2 DEF Edge
  <2>2. <<NULL, 1, e>> \in Edges(heap, held)
    BY <1>1, <2>1, EdgeIs DEF Shape
  <2>3. e \in DOMAIN heap /\ Fits_(heap, NULL, 1, e)
    BY <1>1, <2>2 DEF Shape, Owned
  <2> QED BY <2>3 DEF Fits_
<1>8. s \in Nat /\ v \in Nat /\ v # NULL
  <2>1. v # NULL
    BY <1>1, <1>7 DEF Shape
  <2> QED BY <1>7, <2>1 DEF Element
<1>9. key = heap[e].key /\ s = heap[e].next /\ v = heap[e].value
  OBVIOUS
<1> HIDE DEF key, s, v
<1>10. held2 \in Five /\ held2[1] = s /\ held2[5] = v /\ \A k \in 2..4 : held2[k] = held[k]
  <2>1. held2 \in Five
    BY <1>1, <1>8, FiveIs DEF NULL
  <2>2. \A k \in 2..4 : k = 2 \/ k = 3 \/ k = 4
    OBVIOUS
  <2> QED BY <1>1, <1>3, <2>1, <2>2
<1>11. Passed(held2, 5, 4, held3)
  <2>1. held3 \in Five
    BY <1>1, <1>8, FiveIs DEF NULL
  <2>2. /\ held2[1] = s /\ held2[2] = m.root /\ held2[3] = NULL /\ held2[4] = NULL /\ held2[5] = v
        /\ held3[1] = s /\ held3[2] = m.root /\ held3[3] = NULL /\ held3[4] = v /\ held3[5] = NULL
    OBVIOUS
  <2>3. \A k \in 1..5 : k # 5 /\ k # 4 => k = 1 \/ k = 2 \/ k = 3
    OBVIOUS
  <2> HIDE DEF held2, held3
  <2>4. \A k \in 1..5 : k # 5 /\ k # 4 => held3[k] = held2[k]
    BY <2>2, <2>3
  <2>5. 5 \in 2..5 /\ 4 \in 2..5 /\ 5 # 4
    OBVIOUS
  <2> QED BY <2>1, <2>2, <2>4, <2>5 DEF Passed
<1>12. held3[1] = s /\ held3[2] = m.root /\ held3[4] = v
  OBVIOUS
<1>13. h = Free(FreeIf(heap, key), e)
  OBVIOUS
<1>14. held3 = <<held3[1], held3[2], tree', v, NULL>>
  BY <1>2, <1>5
<1> HIDE DEF held2, held3, h
<1>15. Shape(h, held2) /\ Full(h)
  <2>1. Pops(heap, held, e, key, v, s, h, held2)
    BY <1>1, <1>2, <1>9, <1>10, <1>13 DEF Pops
  <2>2. Shape(h, held2) /\ (Full(heap) => Full(h))
    BY <2>1, PopShape
  <2> QED BY <1>3, <2>2
<1>16. Shape(h, held3)
  BY <1>11, <1>15, PassedIs
<1>17. Memory'
  BY <1>4, <1>6, <1>8, <1>12, <1>14, <1>15, <1>16, CallMemory
<1>18. Roles'
  BY <1>2, <1>5 DEF Roles, Building
<1>19. Control'
  BY <1>5, ControlSame DEF TreeInv
<1> QED BY <1>17, <1>18, <1>19 DEF TreeInv

LEMMA FreeRootInv ==
  ASSUME TreeInv, FreeRoot
  PROVE  TreeInv'
<1> DEFINE heap == m.heap
           held == Outside
           held2 == <<NULL, NULL, NULL, m.root, NULL>>
<1>1. /\ Shape(heap, held) /\ Progress(heap, work) /\ Ctx(m, heap, m.stack, m.root)
      /\ held \in Five /\ held[1] = m.stack /\ held[2] = m.root /\ held[3] = tree
      /\ held[4] = First(work) /\ held[5] = NULL /\ m.root \in Nat
  BY OutsideIs DEF TreeInv, Memory
<1>2. stage = "failed" /\ work = <<>> /\ m.stack = NULL /\ m.root # NULL /\ tree = NULL
  BY DEF FreeRoot, Failing, At, TreeInv, Roles
<1>3. held[1] = NULL /\ held[3] = NULL /\ held[4] = NULL /\ Full(heap)
  BY <1>1, <1>2, ProgressIdle DEF First
<1>4. m' = [m EXCEPT !.root = NULL] /\ work' = <<tree_free(m.root)>>
  BY DEF FreeRoot
<1>5. stage' = stage /\ tree' = tree /\ UNCHANGED parserVars
  BY DEF FreeRoot
<1>6. Ctx(m', heap, NULL, NULL)
  BY <1>1, <1>2, <1>4 DEF Ctx
<1> HIDE DEF heap, held
<1>7. Passed(held, 2, 4, held2)
  <2>1. held2 \in Five
    BY <1>1, FiveIs DEF NULL
  <2>2. /\ held2[1] = NULL /\ held2[2] = NULL /\ held2[3] = NULL /\ held2[4] = m.root
        /\ held2[5] = NULL
    OBVIOUS
  <2>3. \A k \in 1..5 : k # 2 /\ k # 4 => k = 1 \/ k = 3 \/ k = 5
    OBVIOUS
  <2> HIDE DEF held2
  <2>4. \A k \in 1..5 : k # 2 /\ k # 4 => held2[k] = held[k]
    BY <1>1, <1>3, <2>2, <2>3
  <2>5. 2 \in 2..5 /\ 4 \in 2..5 /\ 2 # 4
    OBVIOUS
  <2> QED BY <1>1, <1>3, <2>1, <2>2, <2>4, <2>5 DEF Passed
<1>8. held2[1] = NULL /\ held2[2] = NULL /\ held2[4] = m.root
  OBVIOUS
<1>9. held2 = <<held2[1], held2[2], tree', m.root, NULL>>
  BY <1>2, <1>5
<1> HIDE DEF held2
<1>10. Shape(heap, held2)
  BY <1>1, <1>7, PassedIs
<1>11. Ctx(m', heap, held2[1], held2[2])
  BY <1>6, <1>8
<1>12. Memory'
  BY <1>2, <1>3, <1>4, <1>8, <1>9, <1>10, <1>11, CallMemory
<1>13. Roles'
  BY <1>2, <1>5 DEF Roles, Building
<1>14. Control'
  BY <1>5, ControlSame DEF TreeInv
<1> QED BY <1>12, <1>13, <1>14 DEF TreeInv

\* The root becomes the client's tree.
LEMMA SucceedsInv ==
  ASSUME TreeInv, Succeeds
  PROVE  TreeInv'
<1> DEFINE heap == m.heap
           held == Outside
           held2 == <<NULL, NULL, m.root, NULL, NULL>>
<1>1. /\ Shape(heap, held) /\ Progress(heap, work) /\ Ctx(m, heap, m.stack, m.root)
      /\ held \in Five /\ held[1] = m.stack /\ held[2] = m.root /\ held[3] = tree
      /\ held[4] = First(work) /\ held[5] = NULL /\ m.root \in Nat
  BY OutsideIs DEF TreeInv, Memory
<1>2. stage = "done" /\ work = <<>> /\ tree = NULL /\ phase = "done" /\ status = "ok" /\ frames = <<>>
  BY DEF Succeeds, At, TreeInv, Roles, Control
<1>3. m.stack = NULL
  <2>1. Building
    BY <1>2 DEF Building
  <2>2. PICK sp : Spine(heap, m.stack, frames, sp)
    BY <2>1 DEF TreeInv, Roles
  <2> QED BY <1>2, <2>2 DEF Spine
<1>4. held[1] = NULL /\ held[3] = NULL /\ held[4] = NULL /\ Full(heap)
  BY <1>1, <1>2, <1>3, ProgressIdle DEF First
<1>5. m' = [m EXCEPT !.root = NULL] /\ tree' = m.root /\ work' = work /\ UNCHANGED parserVars /\ stage' = "over"
  BY DEF Succeeds
<1>6. Ctx(m', heap, NULL, NULL)
  BY <1>1, <1>3, <1>5 DEF Ctx
<1> HIDE DEF heap, held
<1>7. Passed(held, 2, 3, held2)
  <2>1. held2 \in Five
    BY <1>1, FiveIs DEF NULL
  <2>2. /\ held2[1] = NULL /\ held2[2] = NULL /\ held2[3] = m.root /\ held2[4] = NULL
        /\ held2[5] = NULL
    OBVIOUS
  <2>3. \A k \in 1..5 : k # 2 /\ k # 3 => k = 1 \/ k = 4 \/ k = 5
    OBVIOUS
  <2> HIDE DEF held2
  <2>4. \A k \in 1..5 : k # 2 /\ k # 3 => held2[k] = held[k]
    BY <1>1, <1>4, <2>2, <2>3
  <2>5. 2 \in 2..5 /\ 3 \in 2..5 /\ 2 # 3
    OBVIOUS
  <2> QED BY <1>1, <1>4, <2>1, <2>2, <2>4, <2>5 DEF Passed
<1>8. Shape(heap, held2)
  <2> HIDE DEF held2
  <2> QED BY <1>1, <1>7, PassedIs
<1>9. m'.heap = heap /\ m'.stack = NULL /\ m'.root = NULL
  BY <1>6 DEF Ctx
<1>10. Outside' = held2
  BY <1>2, <1>5, <1>9 DEF Outside, First
<1>11. Memory'
  BY <1>1, <1>5, <1>6, <1>8, <1>9, <1>10 DEF Memory
<1>12. Roles'
  BY <1>2, <1>5, <1>9 DEF Roles, Building
<1>13. m.root # NULL
  <2>1. phase = "done" /\ Building
    BY <1>2 DEF TreeInv, Control, Building
  <2> QED BY <2>1 DEF TreeInv, Roles
<1>14. status = "ok"
  BY <1>2 DEF TreeInv, Control
<1>15. Control'
  BY <1>2, <1>5, <1>13, <1>14 DEF TreeInv, Control, parserVars, Quiet
<1> QED BY <1>11, <1>12, <1>15 DEF TreeInv

LEMMA StartFreeInv ==
  ASSUME TreeInv, StartFree
  PROVE  TreeInv'
<1> DEFINE heap == m.heap
           held == Outside
           held2 == <<NULL, NULL, NULL, tree, NULL>>
<1>1. /\ Shape(heap, held) /\ Progress(heap, work) /\ Ctx(m, heap, m.stack, m.root)
      /\ held \in Five /\ held[1] = m.stack /\ held[2] = m.root /\ held[3] = tree
      /\ held[4] = First(work) /\ held[5] = NULL /\ tree \in Nat
  BY OutsideIs DEF TreeInv, Memory
<1>2. stage = "over" /\ work = <<>> /\ m.stack = NULL /\ m.root = NULL /\ tree # NULL
  BY DEF StartFree, TreeInv, Roles
<1>3. held[1] = NULL /\ held[2] = NULL /\ held[4] = NULL /\ Full(heap)
  BY <1>1, <1>2, ProgressIdle DEF First
<1>4. /\ m' = m /\ tree' = NULL /\ work' = <<tree_free(tree)>> /\ UNCHANGED parserVars
      /\ stage' = "free"
  BY DEF StartFree
<1> HIDE DEF held
<1>5. Passed(held, 3, 4, held2)
  <2>1. held2 \in Five
    BY <1>1, FiveIs DEF NULL
  <2>2. /\ held2[1] = NULL /\ held2[2] = NULL /\ held2[3] = NULL /\ held2[4] = tree
        /\ held2[5] = NULL
    OBVIOUS
  <2>3. \A k \in 1..5 : k # 3 /\ k # 4 => k = 1 \/ k = 2 \/ k = 5
    OBVIOUS
  <2> HIDE DEF held2
  <2>4. \A k \in 1..5 : k # 3 /\ k # 4 => held2[k] = held[k]
    BY <1>1, <1>3, <2>2, <2>3
  <2>5. 3 \in 2..5 /\ 4 \in 2..5 /\ 3 # 4
    OBVIOUS
  <2> QED BY <1>1, <1>3, <2>1, <2>2, <2>4, <2>5 DEF Passed
<1>6. held2[1] = NULL /\ held2[2] = NULL /\ held2[4] = tree
  OBVIOUS
<1>7. held2 = <<held2[1], held2[2], tree', tree, NULL>>
  BY <1>4
<1> HIDE DEF held2
<1>8. Shape(heap, held2)
  BY <1>1, <1>5, PassedIs
<1>9. Ctx(m', heap, held2[1], held2[2])
  BY <1>1, <1>2, <1>4, <1>6
<1>10. Memory'
  BY <1>2, <1>3, <1>4, <1>6, <1>7, <1>8, <1>9, CallMemory
<1>11. Roles'
  BY <1>2, <1>4 DEF Roles, Building
<1>12. Control'
  BY <1>2, <1>4 DEF TreeInv, Control, parserVars, Quiet
<1> QED BY <1>10, <1>11, <1>12 DEF TreeInv-----------------------------------------------------------------------------
(* The steps that leave the tree alone. *)

\* A step that leaves the parse alone too, or that only moves its stage.
LEMMA RolesSame ==
  ASSUME TreeInv, UNCHANGED <<m, tree, work, frames, phase>>,
         Building' => Building,
         stage' = "over" \/ tree = NULL,
         stage' \in {"failed", "free"} \/ work = <<>>,
         stage' \in {"over", "free", "freed"} => m.stack = NULL /\ m.root = NULL
  PROVE  Memory' /\ Roles'
<1>1. Memory'
  BY MemorySame DEF TreeInv
<1>2. ASSUME Building'
      PROVE  (\E sp : Spine(m'.heap, m'.stack, frames', sp)) /\ (m'.root # NULL <=> phase' = "done")
  <2>1. Building
    BY <1>2
  <2>2. (\E sp : Spine(m.heap, m.stack, frames, sp)) /\ (m.root # NULL <=> phase = "done")
    BY <2>1 DEF TreeInv, Roles
  <2> QED BY <2>2
<1>3. Roles'
  BY <1>2 DEF Roles
<1> QED BY <1>1, <1>3

LEMMA IdleInv ==
  ASSUME TreeInv, UNCHANGED <<parserVars, treeVars>>
  PROVE  TreeInv'
<1>1. /\ m' = m /\ tree' = tree /\ work' = work /\ stage' = stage /\ frames' = frames
      /\ phase' = phase /\ UNCHANGED parserVars
  BY DEF parserVars, treeVars
<1>2. Building' => Building
  BY <1>1 DEF Building
<1>3. /\ stage' = "over" \/ tree = NULL
      /\ stage' \in {"failed", "free"} \/ work = <<>>
      /\ stage' \in {"over", "free", "freed"} => m.stack = NULL /\ m.root = NULL
  BY <1>1 DEF TreeInv, Roles
<1>4. Memory' /\ Roles'
  BY <1>1, <1>2, <1>3, RolesSame
<1>5. Control'
  BY <1>1, ControlSame DEF TreeInv
<1> QED BY <1>4, <1>5 DEF TreeInv

LEMMA StartInv ==
  ASSUME TreeInv, Start
  PROVE  TreeInv'
<1>1. stage = "new" /\ stage' = "ready" /\ UNCHANGED <<parserVars, m, tree, work>>
  BY DEF Start
<1>2. Control'
  BY <1>1 DEF TreeInv, Control, parserVars, Quiet
<1>3. Memory' /\ Roles'
  <2>1. Building' => Building
    BY <1>1 DEF Building, parserVars
  <2>2. tree = NULL /\ work = <<>>
    BY <1>1 DEF TreeInv, Roles
  <2> QED BY <1>1, <2>1, <2>2, RolesSame DEF parserVars
<1> QED BY <1>2, <1>3 DEF TreeInv

\* The two calls of the parser.
LEMMA BeginInv ==
  ASSUME TreeInv, parse \/ complete_parse
  PROVE  TreeInv'
<1>1. /\ \/ stage = "ready" /\ stage' = "parse" /\ call' = "parse"
         \/ stage = "parsed" /\ stage' = "finish" /\ call' = "finish"
      /\ UNCHANGED <<frames, phase, flags, callbacks, status, m, tree, work>>
  BY DEF parse, complete_parse, At, Parser!Begin
<1>2. Control'
  BY <1>1 DEF TreeInv, Control, Quiet
<1>3. Memory' /\ Roles'
  <2>1. Building' => Building
    BY <1>1 DEF Building
  <2>2. tree = NULL /\ work = <<>>
    BY <1>1 DEF TreeInv, Roles
  <2> QED BY <1>1, <2>1, <2>2, RolesSame
<1> QED BY <1>2, <1>3 DEF TreeInv

LEMMA GiveUpInv ==
  ASSUME TreeInv, GiveUp
  PROVE  TreeInv'
<1>1. /\ stage \in {"parse", "finish"} /\ frames' = <<>> /\ phase' = "dead"
      /\ UNCHANGED <<flags, callbacks, call, status, stage, m, tree, work>>
  BY DEF GiveUp, Running, At, Parser!GiveUp, Parser!Within, Parser!Die, treeVars
<1>2. Memory'
  BY <1>1, MemorySame DEF TreeInv
<1>3. Control'
  BY <1>1 DEF TreeInv, Control, Quiet
<1>4. Roles'
  <2>1. ~Building'
    BY <1>1 DEF Building
  <2> QED BY <1>1, <2>1 DEF TreeInv, Roles
<1> QED BY <1>2, <1>3, <1>4 DEF TreeInv

\* yajl_complete_parse answers ok only behind a whole value.
LEMMA ReturnedInv ==
  ASSUME TreeInv, Returned
  PROVE  TreeInv'
<1>1. /\ stage \in {"parse", "finish"} /\ call = stage /\ call' = "none"
      /\ UNCHANGED <<flags, callbacks, m, tree, work>>
      /\ flags = {} /\ phase \in {"fresh", "open", "done", "dead"}
  BY DEF Returned, Running, At, Parser!Finish, TreeInv, Control, Quiet
<1>2. tree = NULL /\ work = <<>>
  BY <1>1 DEF TreeInv, Roles
<1>3. CASE status' = "ok"
  <2>1. /\ frames' = frames /\ phase' = phase /\ phase # "dead"
        /\ call = "finish" => phase = "done"
    BY <1>1, <1>3 DEF Returned, Parser!Finish, Parser!Complete
  <2>2. \/ stage = "parse" /\ stage' = "parsed"
        \/ stage = "finish" /\ stage' = "done"
    BY <1>1, <1>3 DEF Returned
  <2>3. Control'
    BY <1>1, <1>3, <2>1, <2>2 DEF TreeInv, Control, Quiet
  <2>4. Building
    BY <1>1, <2>1 DEF Building
  <2>5. Memory' /\ Roles'
    BY <1>1, <1>2, <2>1, <2>2, <2>4, RolesSame
  <2> QED BY <2>3, <2>5 DEF TreeInv
<1>4. CASE status' # "ok"
  <2>1. status' = "error" /\ phase' = "dead" /\ frames' \in {frames, <<>>}
        /\ (frames' = <<>> \/ phase = "dead") /\ stage' = "failed"
    BY <1>1, <1>4 DEF Returned, Parser!Finish, Parser!Die
  <2>2. frames' = <<>> /\ frames' \in Seq(FrameKinds)
    <3>1. frames' = <<>>
      <4>1. phase = "dead" => frames = <<>>
        BY DEF TreeInv, Control
      <4> QED BY <2>1, <4>1
    <3>2. <<>> \in Seq(FrameKinds)
      OBVIOUS
    <3> QED BY <3>1, <3>2
  <2>3. Control'
    BY <1>1, <2>1, <2>2 DEF TreeInv, Control, Quiet
  <2>4. Memory'
    BY <1>1, MemorySame DEF TreeInv
  <2>5. ~Building'
    BY <2>1 DEF Building
  <2>6. Roles'
    BY <1>1, <1>2, <2>1, <2>5 DEF Roles
  <2> QED BY <2>3, <2>4, <2>6 DEF TreeInv
<1> QED BY <1>3, <1>4

LEMMA FailsInv ==
  ASSUME TreeInv, Fails
  PROVE  TreeInv'
<1>1. /\ stage = "failed" /\ stage' = "over" /\ work = <<>> /\ m.stack = NULL /\ m.root = NULL
      /\ UNCHANGED <<parserVars, m, tree, work>>
  BY DEF Fails, Failing, At
<1>2. tree = NULL /\ status = "error"
  BY <1>1 DEF TreeInv, Roles, Control
<1>3. Control'
  BY <1>1, <1>2 DEF TreeInv, Control, Quiet, parserVars
<1>4. ~Building'
  BY <1>1 DEF Building
<1>5. Memory' /\ Roles'
  BY <1>1, <1>2, <1>4, RolesSame DEF parserVars
<1> QED BY <1>3, <1>5 DEF TreeInv

LEMMA FreeReturnsInv ==
  ASSUME TreeInv, FreeReturns
  PROVE  TreeInv'
<1>1. /\ stage = "free" /\ stage' = "freed" /\ work = <<>>
      /\ UNCHANGED <<parserVars, m, tree, work>>
  BY DEF FreeReturns, At
<1>2. tree = NULL /\ m.stack = NULL /\ m.root = NULL
  BY <1>1 DEF TreeInv, Roles
<1>3. Control'
  BY <1>1, <1>2 DEF TreeInv, Control, Quiet, parserVars
<1>4. ~Building'
  BY <1>1 DEF Building
<1>5. Memory' /\ Roles'
  BY <1>1, <1>2, <1>4, RolesSame DEF parserVars
<1> QED BY <1>3, <1>5 DEF TreeInv
-----------------------------------------------------------------------------
LEMMA TreeStepInv == TreeInv /\ [Next]_vars => TreeInv'
<1> SUFFICES ASSUME TreeInv, [Next]_vars PROVE TreeInv'
  OBVIOUS
<1>1. CASE Start
  BY <1>1, StartInv
<1>2. CASE SetUp \/ LooksAtStatus \/ Leaves \/ Others
  BY <1>2, IdleInv DEF SetUp, LooksAtStatus, Leaves, Others
<1>3. CASE parse \/ complete_parse
  BY <1>3, BeginInv
<1>4. CASE Callback
  BY <1>4, CallbackInv
<1>5. CASE GiveUp
  BY <1>5, GiveUpInv
<1>6. CASE Returned
  BY <1>6, ReturnedInv
<1>7. CASE Unwind \/ FreeRoot
  BY <1>7, UnwindInv, FreeRootInv
<1>8. CASE FreeMember \/ FreeValue
  BY <1>8, FreeMemberInv, FreeValueInv
<1>9. CASE Fails \/ Succeeds
  BY <1>9, FailsInv, SucceedsInv
<1>10. CASE StartFree \/ FreeReturns
  BY <1>10, StartFreeInv, FreeReturnsInv
<1>11. CASE UNCHANGED vars
  BY <1>11, IdleInv DEF vars
<1> QED BY <1>1, <1>2, <1>3, <1>4, <1>5, <1>6, <1>7, <1>8, <1>9, <1>10, <1>11 DEF Next

\* Every step is one of the threads' and the client's that TreeAfs allows.
LEMMA TreeAfsStep == [Next]_vars => [AfsNext]_afsVars
<1> SUFFICES ASSUME [Next]_vars PROVE [AfsNext]_afsVars
  OBVIOUS
<1>1. ASSUME Call(me) PROVE AfsNext
  BY <1>1, MeAssumption DEF AfsNext
<1>2. CASE Start
  BY <1>1, <1>2 DEF Start, Call
<1>3. CASE SetUp
  BY <1>1, <1>3 DEF SetUp, Call
<1>4. CASE Callback
  BY <1>1, <1>4 DEF Callback, Call
<1>5. CASE LooksAtStatus
  BY <1>1, <1>5 DEF LooksAtStatus, Call
<1>6. CASE Fails \/ Succeeds
  BY <1>1, <1>6 DEF Fails, Succeeds, Call
<1>7. CASE Leaves
  BY <1>1, <1>7 DEF Leaves, Call
<1>8. CASE StartFree
  BY <1>1, <1>8 DEF StartFree, Call
<1>9. CASE FreeReturns
  BY <1>1, <1>9 DEF FreeReturns, Call
<1>10. CASE Others
  <2>1. SetAfs \/ \E t \in Threads : Call(t)
    BY <1>10 DEF Others
  <2> QED BY <2>1 DEF AfsNext
<1>11. CASE parse \/ complete_parse \/ GiveUp \/ Returned \/ Unwind \/ FreeRoot \/ FreeMember \/ FreeValue
  <2>1. UNCHANGED afsVars
    BY <1>11 DEF parse, complete_parse, GiveUp, Returned, Unwind, FreeRoot, FreeMember, FreeValue
  <2> QED BY <2>1
<1>12. CASE UNCHANGED vars
  BY <1>12 DEF vars
<1> QED BY <1>2, <1>3, <1>4, <1>5, <1>6, <1>7, <1>8, <1>9, <1>10, <1>11, <1>12 DEF Next

LEMMA TreeInvariance == Spec => [](TreeInv /\ AfsInv)
<1>1. Init => TreeInv /\ AfsInv
  BY TreeInitInv, AfsInitInv DEF Init
<1>2. TreeInv /\ AfsInv /\ [Next]_vars => (TreeInv /\ AfsInv)'
  BY TreeStepInv, TreeAfsStep, AfsStepInv
<1> QED BY <1>1, <1>2, PTL DEF Spec-----------------------------------------------------------------------------
(* What the invariant is for. *)

LEMMA PointersAre ==
  ASSUME NEW b, b \in Blocks, NEW i, NEW p
  PROVE  i \in DOMAIN Pointers(b) /\ Pointers(b)[i] = p <=> Points(b, i, p)
<1>1. CASE b \in Element
  <2>1. "next" \in DOMAIN b /\ "type" \notin DOMAIN b /\ "cells" \notin DOMAIN b
    BY <1>1 DEF Element
  <2>2. Pointers(b) = <<b.key, b.value, b.next>>
    BY <2>1, Zenon DEF Pointers
  <2> QED BY <1>1, <2>2, PointsElement
<1>2. CASE b \in Val
  <2>1. "next" \notin DOMAIN b /\ "type" \in DOMAIN b /\ "cells" \notin DOMAIN b
    BY <1>2 DEF Val
  <2>2. Pointers(b) = <<b.text, b.keys, b.values>>
    BY <2>1, Zenon DEF Pointers
  <2> QED BY <1>2, <2>2, PointsVal
<1>3. CASE b \in Table_
  <2>1. "next" \notin DOMAIN b /\ "type" \notin DOMAIN b /\ "cells" \in DOMAIN b
    BY <1>3 DEF Table_
  <2>2. Pointers(b) = b.cells
    BY <2>1, Zenon DEF Pointers
  <2>3. b.cells \in Seq(Nat)
    BY <1>3 DEF Table_
  <2>4. DOMAIN b.cells = 1..Len(b.cells)
    BY <2>3
  <2> QED BY <1>3, <2>2, <2>4, PointsTable, Zenon
<1>4. CASE b \in Text
  <2>1. "next" \notin DOMAIN b /\ "type" \notin DOMAIN b /\ "cells" \notin DOMAIN b
    BY <1>4 DEF Text
  <2>2. Pointers(b) = <<>>
    BY <2>1, Zenon DEF Pointers
  <2> QED BY <1>4, <2>2, PointsText
<1> QED BY <1>1, <1>2, <1>3, <1>4 DEF Blocks

\* The two ways to say who points to a block.
LEMMA HoldersAre ==
  ASSUME Memory, NEW p \in DOMAIN m.heap, NEW a, NEW i
  PROVE  <<a, i>> \in Holders(p) <=> <<a, i, p>> \in Edges(m.heap, Outside)
<1>1. HeapOK(m.heap) /\ Outside \in Five
  BY DEF Memory, Shape
<1>2. p # NULL /\ NULL \notin DOMAIN m.heap
  BY <1>1 DEF HeapOK
<1>3. <<a, i>> \in Holders(p) <=>
         \/ a = NULL /\ i \in DOMAIN Held /\ Held[i] = p
         \/ /\ a \in DOMAIN m.heap /\ i \in DOMAIN Pointers(m.heap[a])
            /\ Pointers(m.heap[a])[i] = p
  <2> DEFINE H == {<<NULL, k>> : k \in {k \in DOMAIN Held : Held[k] = p}}
             B(x) == {<<x, k>> : k \in {k \in DOMAIN Pointers(m.heap[x]) : Pointers(m.heap[x])[k] = p}}
  <2>1. Holders(p) = H \cup UNION {B(x) : x \in DOMAIN m.heap}
    BY DEF Holders
  <2>2. <<a, i>> \in H <=> a = NULL /\ i \in DOMAIN Held /\ Held[i] = p
    OBVIOUS
  <2>3. ASSUME NEW x
        PROVE  <<a, i>> \in B(x) <=>
                 a = x /\ i \in DOMAIN Pointers(m.heap[x]) /\ Pointers(m.heap[x])[i] = p
    OBVIOUS
  <2> HIDE DEF H, B
  <2> QED BY <2>1, <2>2, <2>3
<1>4. a \in DOMAIN m.heap =>
        (i \in DOMAIN Pointers(m.heap[a]) /\ Pointers(m.heap[a])[i] = p <=> Points(m.heap[a], i, p))
  BY <1>1, PointersAre DEF HeapOK
<1>5. i \in DOMAIN Held /\ Held[i] = p <=> i \in 1..5 /\ p = Outside[i]
  <2>1. First(work) = IF work = <<>> THEN NULL ELSE work[1].v
    BY DEF First
  <2>2. Held = <<m.stack, m.root, tree, First(work)>>
    BY <2>1 DEF Held
  <2>3. /\ Outside[1] = m.stack /\ Outside[2] = m.root /\ Outside[3] = tree
        /\ Outside[4] = First(work) /\ Outside[5] = NULL
    BY OutsideIs
  <2>4. DOMAIN Held = 1..4 /\ \A k \in 1..4 : Held[k] = Outside[k]
    BY <2>2, <2>3
  <2> QED BY <1>2, <2>3, <2>4
<1>6. <<a, i, p>> \in Edges(m.heap, Outside) <=> Edge(m.heap, Outside, a, i, p)
  BY <1>1, EdgeIs
<1> QED BY <1>2, <1>3, <1>4, <1>5, <1>6 DEF Edge

\* The heap is empty when nothing outside of it points into it.
LEMMA NothingLeft ==
  ASSUME TreeInv
  PROVE  NothingLeaks
<1> SUFFICES ASSUME stage = "freed" \/ (stage = "over" /\ tree = NULL)
             PROVE  DOMAIN m.heap = {}
  BY DEF NothingLeaks
<1> DEFINE E == Edges(m.heap, Outside)
<1>1. HeapOK(m.heap) /\ Outside \in Five /\ Grounded(DOMAIN m.heap, E) /\ NULL \notin DOMAIN m.heap
  BY DEF TreeInv, Memory, Shape, Owned, HeapOK
<1>2. m.stack = NULL /\ m.root = NULL /\ tree = NULL /\ work = <<>>
  BY DEF TreeInv, Roles
<1>3. Outside = <<NULL, NULL, NULL, NULL, NULL>>
  BY <1>2 DEF Outside, First
<1>4. ASSUME NEW a, NEW i, NEW p, <<a, i, p>> \in E PROVE a \in DOMAIN m.heap
  <2>1. Edge(m.heap, Outside, a, i, p)
    BY <1>1, <1>4, EdgeIs
  <2>2. \A k \in 1..5 : Outside[k] = NULL
    BY <1>3
  <2> QED BY <2>1, <2>2 DEF Edge
<1> HIDE DEF E
<1>5. ASSUME DOMAIN m.heap # {} PROVE FALSE
  <2>1. \E a, i, p : <<a, i, p>> \in E /\ p \in DOMAIN m.heap /\ a \notin DOMAIN m.heap
    BY <1>1, <1>5 DEF Grounded
  <2> QED BY <1>4, <2>1
<1> QED BY <1>5

LEMMA OwnershipIs ==
  ASSUME Memory
  PROVE  Ownership
<1> DEFINE E == Edges(m.heap, Outside)
<1>1. HeapOK(m.heap) /\ Outside \in Five /\ Owned(DOMAIN m.heap, E)
  BY DEF Memory, Shape
<1>2. NULL \notin DOMAIN m.heap
  BY <1>1 DEF HeapOK
<1>3. ASSUME NEW p \in DOMAIN m.heap PROVE Cardinality(Holders(p)) = 1
  <2>1. PICK a, i : <<a, i, p>> \in E
    BY <1>1 DEF Owned
  <2>2. ASSUME NEW b, NEW j, <<b, j>> \in Holders(p) PROVE b = a /\ j = i
    <3>1. <<b, j, p>> \in E
      BY <2>2, HoldersAre
    <3> QED BY <1>1, <2>1, <3>1 DEF Owned
  <2>3. <<a, i>> \in Holders(p)
    BY <2>1, HoldersAre
  <2>4. ASSUME NEW x \in Holders(p) PROVE \E b, j : x = <<b, j>>
    BY <2>4 DEF Holders
  <2>5. \A x \in Holders(p) : x = <<a, i>>
    <3> SUFFICES ASSUME NEW x \in Holders(p) PROVE x = <<a, i>>
      OBVIOUS
    <3>1. PICK b, j : x = <<b, j>>
      BY <2>4
    <3>2. b = a /\ j = i
      BY <2>2, <3>1
    <3> QED BY <3>1, <3>2
  <2>6. Holders(p) = {<<a, i>>}
    BY <2>3, <2>5
  <2> QED BY <2>6, FS_Singleton
<1>4. ASSUME NEW a \in DOMAIN m.heap, NEW i \in DOMAIN Pointers(m.heap[a])
      PROVE  Pointers(m.heap[a])[i] \in DOMAIN m.heap \cup {NULL}
  <2> DEFINE p == Pointers(m.heap[a])[i]
  <2>1. Points(m.heap[a], i, p)
    BY <1>1, PointersAre DEF HeapOK
  <2> HIDE DEF p
  <2>2. p # NULL => <<a, i, p>> \in E
    BY <1>1, <2>1, EdgeIs DEF Edge
  <2>3. p \in DOMAIN m.heap \cup {NULL}
    BY <1>1, <2>2 DEF Owned
  <2> QED BY <2>3 DEF p
<1> QED BY <1>2, <1>3, <1>4 DEF Ownership

LEMMA TypesAre ==
  ASSUME TreeInv, AfsInv
  PROVE  TypeOK
<1>1. AfsTypeOK
  BY DEF AfsInv
<1>2. stage \in Quiet \cup {"parse", "finish"} /\ m.fault = "none"
  BY DEF TreeInv, Control, Memory, Ctx
<1>3. /\ HeapOK(m.heap) /\ Outside \in Five
      /\ Owned(DOMAIN m.heap, Edges(m.heap, Outside))
  BY DEF TreeInv, Memory, Shape
<1>4. ASSUME NEW k \in 1..5 PROVE Outside[k] \in DOMAIN m.heap \cup {NULL}
  <2>1. Outside[k] # NULL => <<NULL, k, Outside[k]>> \in Edges(m.heap, Outside)
    BY <1>3, EdgeIs DEF Edge
  <2> QED BY <1>3, <2>1 DEF Owned
<1>5. {tree, m.root, m.stack} \subseteq (DOMAIN m.heap) \cup {NULL}
  <2>1. Outside[1] = m.stack /\ Outside[2] = m.root /\ Outside[3] = tree
    BY OutsideIs DEF TreeInv
  <2>2. 1 \in 1..5 /\ 2 \in 1..5 /\ 3 \in 1..5
    OBVIOUS
  <2> QED BY <1>4, <2>1, <2>2
<1>6. \A k \in DOMAIN work : work[k].v \in DOMAIN m.heap /\ work[k].i \in Nat
  <2>1. WorkOK(m.heap, work)
    BY DEF TreeInv, Memory, Progress
  <2>2. DOMAIN work = 1..Len(work)
    BY <2>1 DEF WorkOK
  <2> QED BY <2>1, <2>2, CallIs
<1>7. DOMAIN m.heap \subseteq Nat
  BY <1>3 DEF HeapOK
<1> QED BY <1>1, <1>2, <1>5, <1>6, <1>7 DEF TypeOK, Quiet

LEMMA Returns_Tree ==
  ASSUME TreeInv
  PROVE  ReturnsTree
<1>1. ASSUME stage = "done" PROVE m.stack = NULL /\ m.root # NULL
  <2>1. phase = "done" /\ frames = <<>>
    BY <1>1 DEF TreeInv, Control
  <2>2. Building
    BY <1>1, <2>1 DEF Building
  <2>3. PICK sp : Spine(m.heap, m.stack, frames, sp)
    BY <2>2 DEF TreeInv, Roles
  <2>4. m.root # NULL
    BY <2>1, <2>2 DEF TreeInv, Roles
  <2> QED BY <2>1, <2>3, <2>4 DEF Spine
<1>2. stage = "over" => (tree # NULL <=> status = "ok")
  BY DEF TreeInv, Control
<1> QED BY <1>1, <1>2 DEF ReturnsTree

LEMMA NoErrors ==
  ASSUME TreeInv
  PROVE  InternalErrorsImpossible
<1>1. m.fault = "none"
  BY DEF TreeInv, Memory, Ctx
<1>2. status # "client_canceled"
  BY DEF TreeInv, Control
<1>3. ReturnsTree
  BY Returns_Tree
<1> QED BY <1>1, <1>2, <1>3 DEF InternalErrorsImpossible

-----------------------------------------------------------------------------
\* The values of all variables are what they should be, with any set of
\* threads and any texts.
THEOREM TreeTypeCorrect == Spec => []TypeOK
<1>1. TreeInv /\ AfsInv => TypeOK
  BY TypesAre
<1> QED BY <1>1, TreeInvariance, PTL

\* What the code calls impossible is: no RETURN_ERROR and no assert of
\* yajl_tree.c is ever reached, whatever the document, and yajl_tree_parse
\* returns a tree exactly when the text is one.
THEOREM TreeNeverCancels == Spec => []InternalErrorsImpossible
<1>1. TreeInv => InternalErrorsImpossible
  BY NoErrors
<1> QED BY <1>1, TreeInvariance, PTL

\* Every block has one owner, at every step of a parse, of its failure and of
\* yajl_tree_free, for documents of any size: nothing leaks, nothing is freed
\* twice, and no pointer dangles.
THEOREM TreeOwned == Spec => []Ownership
<1>1. TreeInv => Ownership
  BY OwnershipIs DEF TreeInv
<1> QED BY <1>1, TreeInvariance, PTL

\* The heap is empty when the client has nothing of the tree any more.
THEOREM TreeNothingLeaks == Spec => []NothingLeaks
<1>1. TreeInv => NothingLeaks
  BY NothingLeft
<1> QED BY <1>1, TreeInvariance, PTL

\* A parse that builds a tree, among the calls of other threads, is one of the
\* threads of TreeAfs.
THEOREM TreeIsThread == Spec => AfsSpec
<1>1. Init => AfsInit
  BY DEF Init
<1> QED BY <1>1, TreeAfsStep, PTL DEF Spec, AfsSpec
=============================================================================
