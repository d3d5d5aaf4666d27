------------------------------ MODULE YajlTree ------------------------------
(***************************************************************************)
(* yajl_tree_parse, yajl_tree_free and yajl_tree_get of                    *)
(* src/src/yajl_tree.c: a client of the parser (of EventContract, which    *)
(* the parser implements) whose callbacks build a tree in the heap.        *)
(*                                                                         *)
(* Thread me parses one text and frees the tree.  Of all other calls, its  *)
(* own before that included, TreeAfs says what they do to the global       *)
(* yajl_tree_parse_afs.  While me is at its text calls do not overlap      *)
(* under a global that the client has left null (Orderly): what a heap is  *)
(* behind a stray pointer nobody can say.                                  *)
(*                                                                         *)
(* The heap is a function from addresses to blocks.  A pointer is an       *)
(* address or NULL; to free what is no block leaves a mark at NULL.        *)
(***************************************************************************)
EXTENDS TreeAfs, Naturals, Sequences, FiniteSets

LOCAL INSTANCE SequencesExt

CONSTANTS
    me,          \* one of the threads
    KeyTexts, StringTexts, NumberTexts,  \* sequences of characters
    Booleans,    \* "true" and "false", or one of them
    LongLongs,   \* texts of the integers that fit a long long
    Doubles,     \* the texts strtod converts without an error
    MaxNumber,   \* MAXULLONG_B10_DIGITS + 1, the longest number converted
    MaxTold,     \* bound: the callbacks of one parse
    MaxShared    \* bound: those of a parse that other calls interleave with

ASSUME MeAssumption == me \in Threads
ASSUME BooleansAssumption == Booleans \subseteq {"true", "false"}

VARIABLES
    frames, phase, flags, callbacks, call, status, event, beat,  \* the parser's
    m,      \* the context and its heap: [heap, stack, root, fault]
    stage,  \* how far me is in yajl_tree_parse, and behind it
    tree,   \* what it returned and the client has yet to free
    work,   \* the calls of yajl_tree_free it is in: for each its v, and the
            \* number of members that its loop is through with
    doc     \* history: the callbacks, with their texts

NULL == 0

Table == {"yajl_null", "yajl_boolean", "yajl_number", "yajl_string",
          "yajl_start_map", "yajl_map_key", "yajl_end_map",
          "yajl_start_array", "yajl_end_array"}

Parser == INSTANCE EventContract WITH Tables <- {Table}, Settable <- {}

parserVars == <<frames, phase, flags, callbacks, call, status, event, beat>>
treeVars == <<m, stage, tree, work, doc>>
vars == <<afsVars, parserVars, treeVars>>

-----------------------------------------------------------------------------
(* Blocks: values, texts, the tables of keys and values, stack elements.   *)

Fresh(heap) == CHOOSE a \in 1..Cardinality(DOMAIN heap) + 1 : a \notin DOMAIN heap
Store(heap, a, block) == [x \in DOMAIN heap \cup {a} |-> IF x = a THEN block ELSE heap[x]]
Free(heap, a) == IF a \in DOMAIN heap /\ a # NULL
                 THEN [x \in DOMAIN heap \ {a} |-> heap[x]]
                 ELSE Store(heap, NULL, [cells |-> <<>>])
FreeIf(heap, a) == IF a = NULL THEN heap ELSE Free(heap, a)

\* value_alloc: all of the union is zero.
Value(type) == [type |-> type, text |-> NULL, keys |-> NULL, values |-> NULL,
                len |-> 0, number |-> {}]

\* realloc: the table of o has room for one pointer more, which is x.
Join(heap, o, table, x) ==
    LET a == heap[o][table]
        new == Fresh(heap)
    IN  IF a = NULL
        THEN Store(Store(heap, new, [cells |-> <<x>>]), o, [heap[o] EXCEPT ![table] = new])
        ELSE [heap EXCEPT ![a].cells = Append(@, x)]

-----------------------------------------------------------------------------
(* The context.  The operators take a context to what it becomes.          *)

context_push(c, v) ==
    LET e == Fresh(c.heap)
    IN  [c EXCEPT !.heap = Store(@, e, [key |-> NULL, value |-> v, next |-> c.stack]),
                  !.stack = e]

\* What the top of the stack holds is top.value.  A key that waits for its
\* value is freed with the element.
Top(c) == c.heap[c.stack]

\* context_pop that forgets the key.
Mutcontext_pop(c) ==
    [c EXCEPT !.heap = Free(@, c.stack), !.stack = Top(c).next]

context_pop(c) ==
    [c EXCEPT !.heap = Free(FreeIf(@, Top(c).key), c.stack), !.stack = Top(c).next]

object_add_keyval(c, v) ==
    LET o == Top(c).value
        h == Join(Join(c.heap, o, "keys", Top(c).key), o, "values", v)
    IN  [c EXCEPT !.heap = [h EXCEPT ![o].len = @ + 1, ![c.stack].key = NULL]]

\* array_add_value that does not count the value.
Mutarray_add_value(c, v) == [c EXCEPT !.heap = Join(@, Top(c).value, "values", v)]

array_add_value(c, v) ==
    LET o == Top(c).value
        h == Join(c.heap, o, "values", v)
    IN  [c EXCEPT !.heap = [h EXCEPT ![o].len = @ + 1]]

\* The text of a string becomes the key of the top; the value around it goes.
take_key(c, v) ==
    [c EXCEPT !.heap = Free(Store(@, c.stack, [Top(c) EXCEPT !.key = c.heap[v].text]), v)]

\* RETURN_ERROR, for which a callback stops the parse; a failed assert.
Einval(c) == [c EXCEPT !.fault = "einval"]
Failed(c) == [c EXCEPT !.fault = "assert"]

context_add_value(c, v) ==
    LET holder == c.heap[Top(c).value].type IN
    CASE c.stack = NULL -> IF c.root = NULL THEN [c EXCEPT !.root = v] ELSE Failed(c)
      [] c.stack # NULL /\ holder = "object" ->
            IF Top(c).key # NULL THEN object_add_keyval(c, v)
            ELSE IF c.heap[v].type = "string" THEN take_key(c, v) ELSE Einval(c)
      [] c.stack # NULL /\ holder = "array" -> array_add_value(c, v)
      [] OTHER -> Einval(c)

-----------------------------------------------------------------------------
(* The callbacks.                                                          *)

\* value_alloc that gets no block.
Mutvalue_alloc(c, v) == c

value_alloc(c, v) == [c EXCEPT !.heap = Store(@, Fresh(@), v)]

\* A value, and its text in a block of its own.
Texted(c, v, text) ==
    LET a == Fresh(c.heap)
        h == Store(c.heap, a, v)
    IN  [c EXCEPT !.heap = Store(Store(h, Fresh(h), [chars |-> text]), a, [v EXCEPT !.text = Fresh(h)])]

Add(c, alloc) == context_add_value(alloc, Fresh(c.heap))

handle_string(c, text) == Add(c, Texted(c, Value("string"), text))

\* yajl_parse_integer: strtoll takes the digits the text begins with.
IntegerPart(text) ==
    LET starts == {i \in 1..Len(text) : text[i] \in {".", "e", "E"}}
    IN  IF starts = {} THEN text ELSE SubSeq(text, 1, (CHOOSE i \in starts : \A j \in starts : i <= j) - 1)
ParsesInteger(text) == Len(text) <= MaxNumber /\ IntegerPart(text) \in LongLongs

handle_number(c, text) ==
    LET valid == (IF ParsesInteger(text) THEN {"int"} ELSE {})
                 \cup (IF text \in Doubles THEN {"double"} ELSE {})
    IN  Add(c, Texted(c, [Value("number") EXCEPT !.number = valid], text))

\* handle_boolean, handle_null
handle_atom(c, type) == Add(c, value_alloc(c, Value(type)))

\* handle_start_map, handle_start_array
handle_start(c, type) == context_push(value_alloc(c, Value(type)), Fresh(c.heap))

\* handle_end that stops one short of the bottom.
Muthandle_end(c) == IF c.stack = NULL \/ Top(c).next = NULL THEN Einval(c)
                    ELSE context_add_value(context_pop(c), Top(c).value)

\* handle_end_map, handle_end_array
handle_end(c) == IF c.stack = NULL THEN Einval(c)
                 ELSE context_add_value(context_pop(c), Top(c).value)

\* The texts of a callback; of the two booleans, their names.
TextsOf(cb) ==
    CASE cb = "yajl_map_key" -> KeyTexts
      [] cb = "yajl_string" -> StringTexts
      [] cb = "yajl_number" -> NumberTexts
      [] cb = "yajl_boolean" -> Booleans
      [] OTHER -> {"none"}

Handled(c, cb, text) ==
    CASE cb \in {"yajl_string", "yajl_map_key"} -> handle_string(c, text)
      [] cb = "yajl_number" -> handle_number(c, text)
      [] cb = "yajl_boolean" -> handle_atom(c, text)
      [] cb = "yajl_null" -> handle_atom(c, "null")
      [] cb = "yajl_start_map" -> handle_start(c, "object")
      [] cb = "yajl_start_array" -> handle_start(c, "array")
      [] cb \in {"yajl_end_map", "yajl_end_array"} -> handle_end(c)

-----------------------------------------------------------------------------
(* yajl_tree_get.                                                          *)

\* What strcmp and the caller see of a text: a NUL ends it.
CString(text) == SelectInSeq(text, LAMBDA ch : ch = "nul")
Seen(text) == IF CString(text) = 0 THEN text ELSE SubSeq(text, 1, CString(text) - 1)

Name(heap, n, i) == Seen(heap[heap[heap[n].keys].cells[i]].chars)
Member(heap, n, i) == heap[heap[n].values].cells[i]

\* Where the search for a name stops: MutFound takes the last member of it.
MutFound(heap, n, name) ==
    {i \in 1..heap[n].len : /\ Name(heap, n, i) = name
                            /\ \A j \in i + 1..heap[n].len : Name(heap, n, j) # name}

Found(heap, n, name) ==
    {i \in 1..heap[n].len : /\ Name(heap, n, i) = name
                            /\ \A j \in 1..i - 1 : Name(heap, n, j) # name}

\* at_[i]: the value under the first i names, NULL if there is none.
tree_get(heap, n, path, type) ==
    LET at_[i \in 0..Len(path)] ==
            IF i = 0 THEN n
            ELSE LET p == at_[i - 1]
                     found == IF p # NULL /\ heap[p].type = "object"
                              THEN Found(heap, p, path[i]) ELSE {}
                 IN  IF found = {} THEN NULL ELSE Member(heap, p, CHOOSE j \in found : TRUE)
        last == at_[Len(path)]
    IN  IF last # NULL /\ type \in {"any", heap[last].type} THEN last ELSE NULL

-----------------------------------------------------------------------------
Init ==
    /\ AfsInit /\ Parser!Init
    /\ m = [heap |-> <<>>, stack |-> NULL, root |-> NULL, fault |-> "none"]
    /\ stage = "new" /\ tree = NULL /\ work = <<>> /\ doc = <<>>

At(s) == stage = s /\ at[me] = "inside"
Orderly == ~overlaps'

\* yajl_tree_parse, to its calls of yajl_parse and yajl_complete_parse.
Start ==
    /\ stage = "new" /\ EnterParse(me) /\ Orderly
    /\ stage' = "ready"
    /\ UNCHANGED <<parserVars, m, tree, work, doc>>

SetUp ==
    /\ TestAfs(me) \/ Install(me)
    /\ UNCHANGED <<parserVars, treeVars>>

parse ==
    /\ At("ready") /\ Parser!Begin /\ call' = "parse"
    /\ stage' = "parse"
    /\ UNCHANGED <<afsVars, m, tree, work, doc>>

complete_parse ==
    /\ At("parsed") /\ Parser!Begin /\ call' = "finish"
    /\ stage' = "finish"
    /\ UNCHANGED <<afsVars, m, tree, work, doc>>

Running == At("parse") \/ At("finish")

\* No other call has been made, or none that left a trace, on no functions
\* but the default ones.
Alone ==
    /\ afs # "client" /\ trees = {}
    /\ \A t \in Threads \ {me} : at[t] = "client" /\ job[t] = "parse" /\ made[t] = {}

\* The parser calls back.  A callback that answers 0 cancels the parse.
Callback ==
    /\ Running /\ Len(doc) < MaxTold
    /\ Len(doc) < MaxShared \/ Alone
    /\ Parser!TellScalar \/ Parser!TellOpen \/ Parser!TellKey \/ Parser!TellClose
    /\ \E text \in TextsOf(event') :
          /\ m' = Handled(m, event', text)
          /\ doc' = Append(doc, <<event', text>>)
    /\ (status' = "client_canceled") <=> (m'.fault # "none")
    /\ stage' = IF call' = "none" THEN "failed" ELSE stage
    /\ Build(me)
    /\ UNCHANGED <<tree, work>>

\* The parser meets an error, or a call of it returns.
GiveUp ==
    /\ Running /\ Parser!GiveUp
    /\ UNCHANGED <<afsVars, treeVars>>

Returned ==
    /\ Running /\ Parser!Finish
    /\ stage' = IF status' # "ok" THEN "failed"
                ELSE IF stage = "parse" THEN "parsed" ELSE "done"
    /\ UNCHANGED <<afsVars, m, tree, work, doc>>

\* if (status != yajl_status_ok)
LooksAtStatus == At("failed") /\ FailParse(me) /\ UNCHANGED <<parserVars, treeVars>>

-----------------------------------------------------------------------------
(* yajl_tree_free, yajl_object_free and yajl_array_free, a member a step.  *)

tree_free(v) == [v |-> v, i |-> 0]
This == work[Len(work)]
Freeing == work # <<>> /\ at[me] = "inside"
MoreMembers == m.heap[This.v].type \in {"object", "array"} /\ This.i < m.heap[This.v].len

\* The loop over the members: frees the key and calls yajl_tree_free.
FreeMember ==
    /\ Freeing /\ MoreMembers
    /\ LET o == m.heap[This.v]
           n == This.i + 1
           key == m.heap[o.keys].cells[n]
       IN  /\ m' = IF o.type = "object"
                   THEN [m EXCEPT !.heap = [Free(@, key) EXCEPT ![o.keys].cells[n] = NULL]]
                   ELSE m
           /\ work' = Append(work, tree_free(m.heap[o.values].cells[n]))
    /\ UNCHANGED <<afsVars, parserVars, stage, tree, doc>>

\* Behind the loop: the text or the tables are freed, then the value itself;
\* the call returns to the client or to the loop that made it.
FreeValue ==
    /\ Freeing /\ ~MoreMembers
    /\ LET v    == m.heap[This.v]
           left == Free(FreeIf(FreeIf(FreeIf(m.heap, v.text), v.keys), v.values), This.v)
           rest == SubSeq(work, 1, Len(work) - 1)
           loop == rest[Len(rest)]
       IN  IF rest = <<>>
           THEN m' = [m EXCEPT !.heap = left] /\ work' = <<>>
           ELSE /\ m' = [m EXCEPT !.heap =
                            [left EXCEPT ![left[loop.v].values].cells[loop.i + 1] = NULL]]
                /\ work' = [rest EXCEPT ![Len(rest)].i = @ + 1]
    /\ UNCHANGED <<afsVars, parserVars, stage, tree, doc>>

\* yajl_tree_free(context_pop(&ctx)), until the stack is empty.
Failing == At("failed") /\ job[me] = "unwind"
Unwind ==
    /\ Failing /\ work = <<>> /\ m.stack # NULL
    /\ m' = context_pop(m) /\ work' = <<tree_free(Top(m).value)>>
    /\ UNCHANGED <<afsVars, parserVars, stage, tree, doc>>

FreeRoot ==
    /\ Failing /\ work = <<>> /\ m.stack = NULL /\ m.root # NULL
    /\ m' = [m EXCEPT !.root = NULL] /\ work' = <<tree_free(m.root)>>
    /\ UNCHANGED <<afsVars, parserVars, stage, tree, doc>>

\* Fails that only unwinds the stack.
MutFails ==
    /\ Failing /\ work = <<>> /\ m.stack = NULL
    /\ EndParse(me)
    /\ stage' = "over"
    /\ UNCHANGED <<parserVars, m, tree, work, doc>>

Fails ==
    /\ Failing /\ work = <<>> /\ m.stack = NULL /\ m.root = NULL
    /\ EndParse(me)
    /\ stage' = "over"
    /\ UNCHANGED <<parserVars, m, tree, work, doc>>

\* The root is the client's from here.
Succeeds ==
    /\ At("done")
    /\ m' = [m EXCEPT !.root = NULL] /\ tree' = m.root
    /\ EndParse(me)
    /\ stage' = "over"
    /\ UNCHANGED <<parserVars, work, doc>>

Leaves == Leave(me) /\ UNCHANGED <<parserVars, treeVars>>

\* yajl_tree_free of the client's tree.
StartFree ==
    /\ stage = "over" /\ tree # NULL
    /\ EnterFree(me) /\ Orderly /\ made'[me] = made[me]
    /\ stage' = "free"
    /\ tree' = NULL /\ work' = <<tree_free(tree)>>
    /\ UNCHANGED <<parserVars, m, doc>>

FreeReturns ==
    /\ At("free") /\ work = <<>> /\ EndFree(me)
    /\ stage' = "freed"
    /\ UNCHANGED <<parserVars, m, tree, work, doc>>

-----------------------------------------------------------------------------
\* All other calls, those of me before its text among them; the client knows
\* that me holds a tree, or is about to free it.
Others ==
    /\ Len(doc) <= MaxShared
    /\ SetAfs \/ \E t \in Threads : (stage = "new" \/ t # me) /\ Call(t)
    /\ stage # "new" => Orderly
    /\ (tree # NULL /\ at[me] = "client") \/ stage = "free" => made[me] \subseteq trees'
    /\ UNCHANGED <<parserVars, treeVars>>

Next ==
    \/ Start \/ SetUp \/ parse \/ complete_parse \/ Callback \/ GiveUp \/ Returned
    \/ LooksAtStatus
    \/ Unwind \/ FreeRoot \/ FreeMember \/ FreeValue \/ Fails \/ Succeeds \/ Leaves
    \/ StartFree \/ FreeReturns \/ Others

Spec == Init /\ [][Next]_vars

-----------------------------------------------------------------------------
TypeOK ==
    /\ AfsTypeOK
    /\ stage \in {"new", "ready", "parse", "parsed", "finish", "failed", "done",
                  "over", "free", "freed"}
    /\ {tree, m.root, m.stack} \subseteq (DOMAIN m.heap) \cup {NULL}
    /\ \A k \in DOMAIN work : work[k].v \in DOMAIN m.heap /\ work[k].i \in Nat
    /\ m.fault \in {"none", "einval", "assert"}
    /\ DOMAIN m.heap \subseteq Nat

\* The client gets a tree exactly when the text was a whole document, and the
\* context gives away all it holds.
ReturnsTree ==
    /\ stage = "done" => m.stack = NULL /\ m.root # NULL
    /\ stage = "over" => (tree # NULL) = (status = "ok")

\* What the code calls impossible is (yajl_tree.c:271, "Is this error even
\* possible?", 299, "XXX in theory this is impossible", the asserts, and 515,
\* "parse OK, but nothing to return"): no callback of the tree ever stops a
\* parse, and a parse that was ok has a tree.
InternalErrorsImpossible ==
    /\ m.fault = "none" /\ status # "client_canceled"
    /\ ReturnsTree

\* The pointers in a block, and all there are; the places of NULL are those of
\* the context, of the client and of the call of yajl_tree_free.
Pointers(block) ==
    CASE "next" \in DOMAIN block -> <<block.key, block.value, block.next>>
      [] "type" \in DOMAIN block -> <<block.text, block.keys, block.values>>
      [] "cells" \in DOMAIN block -> block.cells
      [] OTHER -> <<>>

Held == <<m.stack, m.root, tree, IF work = <<>> THEN NULL ELSE work[1].v>>
Holders(p) ==
    {<<NULL, i>> : i \in {i \in DOMAIN Held : Held[i] = p}}
    \cup UNION {{<<a, i>> : i \in {i \in DOMAIN Pointers(m.heap[a]) : Pointers(m.heap[a])[i] = p}}
               : a \in DOMAIN m.heap}

\* Every block has exactly one pointer to it, from the context, the client's
\* tree or another block, and every pointer is to a block: so nothing is freed
\* twice or used after, wherever a parse fails
\* (yajl_tree.c:500-505) and at every step of freeing.
Ownership ==
    /\ NULL \notin DOMAIN m.heap
    /\ \A p \in DOMAIN m.heap : Cardinality(Holders(p)) = 1
    /\ \A a \in DOMAIN m.heap : \A i \in DOMAIN Pointers(m.heap[a]) :
          Pointers(m.heap[a])[i] \in DOMAIN m.heap \cup {NULL}

\* When the client has nothing of the tree any more, because the parse failed or
\* because it has freed it, the heap is empty.  Ownership alone would allow
\* blocks that hold each other in a ring.
NothingLeaks ==
    stage = "freed" \/ (stage = "over" /\ tree = NULL) => DOMAIN m.heap = {}
=============================================================================
