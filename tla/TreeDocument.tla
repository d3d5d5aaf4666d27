---------------------------- MODULE TreeDocument ----------------------------
(***************************************************************************)
(* The document a tree stands for, as the callbacks that tell it, compared *)
(* with what YajlTree builds and with what yajl_tree_get finds in it.      *)
(***************************************************************************)
EXTENDS YajlTree

TextAt(a) == m.heap[a].chars

RECURSIVE Tale(_)
TaleWithin(v) ==
    LET o == m.heap[v]
        tale[i \in 0..o.len] ==
            IF i = 0 THEN <<>>
            ELSE tale[i - 1]
                 \o (IF o.type = "array" THEN <<>>
                     ELSE <<<<"yajl_map_key", TextAt(m.heap[o.keys].cells[i])>>>>)
                 \o Tale(m.heap[o.values].cells[i])
    IN  <<<<IF o.type = "array" THEN "yajl_start_array" ELSE "yajl_start_map", "none">>>>
        \o tale[o.len]

Tale(v) ==
    IF v = NULL THEN <<>>
    ELSE LET o == m.heap[v] IN
         CASE o.type = "object" -> Append(TaleWithin(v), <<"yajl_end_map", "none">>)
           [] o.type = "array" -> Append(TaleWithin(v), <<"yajl_end_array", "none">>)
           [] o.type = "string" -> <<<<"yajl_string", TextAt(o.text)>>>>
           [] o.type = "number" -> <<<<"yajl_number", TextAt(o.text)>>>>
           [] o.type = "null" -> <<<<"yajl_null", "none">>>>
           [] OTHER -> <<<<"yajl_boolean", o.type>>>>

\* The containers that are open, and the key that waits.
RECURSIVE OpenTale(_)
OpenTale(e) ==
    IF e = NULL THEN <<>>
    ELSE LET o == m.heap[e] IN
         OpenTale(o.next) \o TaleWithin(o.value)
         \o (IF o.key = NULL THEN <<>> ELSE <<<<"yajl_map_key", TextAt(o.key)>>>>)

\* At any time the context holds exactly what was told so far, in its order,
\* and the client gets the whole of it.
HoldsDocument ==
    /\ stage \in {"parse", "parsed", "finish", "done"} /\ phase # "dead" =>
            OpenTale(m.stack) \o Tale(m.root) = doc
    /\ tree # NULL => Tale(tree) = doc

\* The member of a path by the document itself: the first key of the name in
\* the object's own level.
Opens == {"yajl_start_map", "yajl_start_array"}
Closes == {"yajl_end_map", "yajl_end_array"}
Depth(i) == Cardinality({j \in 1..i : doc[j][1] \in Opens})
            - Cardinality({j \in 1..i : doc[j][1] \in Closes})

Named(i, name) ==
    {k \in i + 1..Len(doc) :
        /\ doc[i][1] = "yajl_start_map" /\ doc[k][1] = "yajl_map_key"
        /\ Seen(doc[k][2]) = name /\ Depth(k) = Depth(i)
        /\ \A j \in i..k : Depth(j) >= Depth(i)}

\* Where the value of a path starts in the document, 0 if there is none.
Reached(path) ==
    LET at_[n \in 0..Len(path)] ==
            IF n = 0 THEN 1
            ELSE IF at_[n - 1] = 0 THEN 0
            ELSE LET keys == Named(at_[n - 1], path[n])
                 IN  IF keys = {} THEN 0
                     ELSE 1 + CHOOSE k \in keys : \A l \in keys : k <= l
    IN  at_[Len(path)]

IsOf(type, event_) ==
    CASE type = "any" -> TRUE
      [] type = "object" -> event_[1] = "yajl_start_map"
      [] type = "array" -> event_[1] = "yajl_start_array"
      [] type \in {"string", "number", "null"} -> event_[1] = "yajl_" \o type
      [] OTHER -> event_ = <<"yajl_boolean", type>>

Types == {"any", "object", "array", "string", "number", "null", "true", "false"}
Names == {Seen(text) : text \in KeyTexts}
Paths == {<<>>} \cup {<<a>> : a \in Names} \cup {<<a, b>> : a, b \in Names}

\* yajl_tree_get finds a value exactly if the document has one of the type
\* under the names, and then that of the first of members with one name;
\* what a NUL in a key hides is not told apart.
GetFindsFirst ==
    stage = "over" /\ tree # NULL =>
        \A path \in Paths, type \in Types :
            LET n == tree_get(m.heap, tree, path, type)
                i == Reached(path)
            IN  IF i = 0 \/ ~IsOf(type, doc[i]) THEN n = NULL
                ELSE n # NULL /\ Tale(n) = SubSeq(doc, i, i + Len(Tale(n)) - 1)
=============================================================================
