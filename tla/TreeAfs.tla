------------------------------- MODULE TreeAfs -------------------------------
(***************************************************************************)
(* yajl_tree_parse_afs of src/src/yajl_tree.c, the global pointer to the   *)
(* allocation functions of trees, under any number of threads that parse   *)
(* and free trees.  A step is one access to the global, or the work        *)
(* between two of them.                                                    *)
(*                                                                         *)
(* The code takes no lock, and any thread may call at any time.  When the  *)
(* client has left the global null and calls overlap, one of them points   *)
(* the global into its own handle and another goes through it: what is     *)
(* there may be gone.  Going through it then either still works, or is the *)
(* end of the program (Stray).                                             *)
(***************************************************************************)
EXTENDS Naturals

CONSTANTS
    Threads,
    MaxInner  \* bound: the calls of yajl_tree_free within each other that
              \* have set the global and owe it a reset

ASSUME ThreadsAssumption == Threads \cap {"null", "client", "static"} = {}

VARIABLES
    afs,    \* the global: "null", "client" for the client's functions,
            \* "static" for the variable of yajl_tree_free, or the thread
            \* whose handle it points into
    at,     \* where each thread is
    job,    \* the call it makes, or made last
    undo,   \* its undo_afs
    maker,  \* whose functions its handle holds: "default" or "client"
    made,   \* whose functions made the blocks of the tree it is at work on
    trees,  \* the functions that made the trees the client holds
    inner,  \* how many calls of yajl_tree_free within its own have undo_afs set
    overlaps  \* history: calls overlap, and the client has not set the global

afsVars == <<afs, at, job, undo, maker, made, trees, inner, overlaps>>

Makers == {"default", "client"}
Jobs == {"parse", "unwind", "free"}  \* "unwind": a parse that has failed
Places == {"client", "entered", "null", "inside", "null again", "leaving", "lost"}

AfsInit ==
    /\ afs \in {"null", "client"}
    /\ at = [t \in Threads |-> "client"]
    /\ job = [t \in Threads |-> "parse"]
    /\ undo = [t \in Threads |-> FALSE]
    /\ maker = [t \in Threads |-> "default"]
    /\ made = [t \in Threads |-> {}]
    /\ trees = {}
    /\ inner = [t \in Threads |-> 0]
    /\ overlaps = FALSE

\* The functions behind the pointer: the static variable holds the default ones.
Through(p) == CASE p = "client" -> "client"
                [] p = "static" -> "default"
                [] p \in Threads -> maker[p]

AllOut == \A t \in Threads : at[t] = "client"

\* The client gives the library functions of its own, or takes them back,
\* while it holds no tree.
SetAfs ==
    /\ AllOut /\ trees = {}
    /\ afs' \in {"null", "client"}
    /\ UNCHANGED <<at, job, undo, maker, made, trees, inner, overlaps>>

Enter(t, call) ==
    /\ at[t] = "client"
    /\ at' = [at EXCEPT ![t] = "entered"]
    /\ job' = [job EXCEPT ![t] = call]
    /\ overlaps' = (~AllOut /\ (overlaps \/ afs # "client"))
    /\ UNCHANGED <<afs, undo, trees, inner>>

\* yajl_alloc in yajl_tree_parse: the functions are copied into the handle.
EnterParse(t) ==
    /\ Enter(t, "parse")
    /\ maker' = [maker EXCEPT ![t] = IF afs = "null" THEN "default" ELSE Through(afs)]
    /\ made' = [made EXCEPT ![t] = {}]

\* yajl_tree_free, of a tree that is not null.
EnterFree(t) ==
    /\ Enter(t, "free")
    /\ \E m \in trees : made' = [made EXCEPT ![t] = {m}]
    /\ UNCHANGED maker

\* TestAfs of a yajl_tree_free that always takes the default functions.
MutTestAfs(t) ==
    /\ at[t] = "entered"
    /\ undo' = [undo EXCEPT ![t] = afs = "null"]
    /\ at' = [at EXCEPT ![t] = IF afs = "null" \/ job[t] = "free" THEN "null" ELSE "inside"]
    /\ UNCHANGED <<afs, job, maker, made, trees, inner, overlaps>>

\* if (yajl_tree_parse_afs == NULL)
TestAfs(t) ==
    /\ at[t] = "entered"
    /\ undo' = [undo EXCEPT ![t] = afs = "null"]
    /\ at' = [at EXCEPT ![t] = IF afs = "null" THEN "null" ELSE "inside"]
    /\ UNCHANGED <<afs, job, maker, made, trees, inner, overlaps>>

Install(t) ==
    /\ at[t] = "null"
    /\ afs' = IF job[t] = "parse" THEN t ELSE "static"
    /\ at' = [at EXCEPT ![t] = "inside"]
    /\ UNCHANGED <<job, undo, maker, made, trees, inner, overlaps>>

\* A block of the tree is allocated through the global.
Build(t) ==
    /\ at[t] = "inside" /\ job[t] = "parse" /\ afs # "null"
    /\ made' = [made EXCEPT ![t] = @ \cup {Through(afs)}]
    /\ UNCHANGED <<afs, at, job, undo, maker, trees, inner, overlaps>>

\* if (status != yajl_status_ok)
FailParse(t) ==
    /\ at[t] = "inside" /\ job[t] = "parse"
    /\ job' = [job EXCEPT ![t] = "unwind"]
    /\ UNCHANGED <<afs, at, undo, maker, made, trees, inner, overlaps>>

\* yajl_tree_free for a member, or for what a failed parse has left: it looks
\* at the global again, and sets it when another call has made it null.
TestAgain(t) ==
    /\ at[t] = "inside" /\ job[t] # "parse" /\ afs = "null" /\ inner[t] < MaxInner
    /\ at' = [at EXCEPT ![t] = "null again"]
    /\ UNCHANGED <<afs, job, undo, maker, made, trees, inner, overlaps>>

InstallAgain(t) ==
    /\ at[t] = "null again"
    /\ afs' = "static" /\ inner' = [inner EXCEPT ![t] = @ + 1]
    /\ at' = [at EXCEPT ![t] = "inside"]
    /\ UNCHANGED <<job, undo, maker, made, trees, overlaps>>

ReturnInner(t) ==
    /\ at[t] = "inside" /\ inner[t] > 0
    /\ afs' = "null" /\ inner' = [inner EXCEPT ![t] = @ - 1]
    /\ UNCHANGED <<at, job, undo, maker, made, trees, overlaps>>

\* The parse is over, and if it has failed its blocks have been freed through
\* the global; the handle is freed.
EndParse(t) ==
    /\ at[t] = "inside" /\ job[t] \in {"parse", "unwind"} /\ inner[t] = 0
    /\ at' = [at EXCEPT ![t] = "leaving"]
    /\ UNCHANGED <<afs, job, undo, maker, made, trees, inner, overlaps>>

\* The last block of the tree is freed through the global; the client may
\* hold more of its kind.
EndFree(t) ==
    /\ at[t] = "inside" /\ job[t] = "free" /\ inner[t] = 0 /\ afs # "null"
    /\ at' = [at EXCEPT ![t] = "leaving"]
    /\ trees' \in {trees, trees \ made[t]}
    /\ UNCHANGED <<afs, job, undo, maker, made, inner, overlaps>>

\* The global leads to functions that are there, and not into a handle that
\* was freed (yajl_tree.c:506, 518).
Live(p) == p # "null" /\ (p \in Threads => at[p] \in {"inside", "null again"})

\* Somebody goes through a null pointer or a freed handle, and the program
\* does not survive it.
Stray(t) ==
    /\ ~Live(afs)
    /\ at[t] = "inside" \/ (at[t] = "client" /\ afs # "null")
    /\ at' = [u \in Threads |-> "lost"]
    /\ overlaps' = (overlaps \/ at[t] = "client")
    /\ UNCHANGED <<afs, job, undo, maker, made, trees, inner>>

\* What a parse has built is the client's from here.
BackToClient(t) ==
    /\ at' = [at EXCEPT ![t] = "client"]
    /\ trees' = IF job[t] = "parse" THEN trees \cup made[t] ELSE trees
    /\ UNCHANGED <<job, undo, maker, made, inner, overlaps>>

\* Leave that does not undo what a parse has set.
MutLeave(t) ==
    /\ at[t] = "leaving"
    /\ afs' = IF undo[t] /\ job[t] = "free" THEN "null" ELSE afs
    /\ BackToClient(t)

\* Leave that undoes what it has not set.
MutLeaveAlways(t) ==
    /\ at[t] = "leaving"
    /\ afs' = "null"
    /\ BackToClient(t)

\* if (undo_afs)
Leave(t) ==
    /\ at[t] = "leaving"
    /\ afs' = IF undo[t] THEN "null" ELSE afs
    /\ BackToClient(t)

Call(t) ==
    \/ EnterParse(t) \/ EnterFree(t) \/ TestAfs(t) \/ Install(t)
    \/ Build(t) \/ FailParse(t) \/ EndParse(t) \/ EndFree(t) \/ Leave(t)
    \/ TestAgain(t) \/ InstallAgain(t) \/ ReturnInner(t) \/ Stray(t)

AfsNext == SetAfs \/ \E t \in Threads : Call(t)

AfsSpec == AfsInit /\ [][AfsNext]_afsVars

-----------------------------------------------------------------------------
AfsTypeOK ==
    /\ afs \in {"null", "client", "static"} \cup Threads
    /\ at \in [Threads -> Places] /\ job \in [Threads -> Jobs]
    /\ undo \in [Threads -> BOOLEAN] /\ maker \in [Threads -> Makers]
    /\ made \in [Threads -> SUBSET Makers] /\ trees \subseteq Makers
    /\ inner \in [Threads -> Nat] /\ overlaps \in BOOLEAN

\* Whoever allocates or frees through the global finds functions there, as
\* long as calls do not overlap under a global that the client has left null.
\* (With the client's functions they may; and what an overlap has done is
\* over when all have returned.)
LiveUnlessOverlap == ~overlaps => \A t \in Threads : at[t] = "inside" => Live(afs)

\* Every block goes back to the functions it came from, whichever call frees
\* it: a failed parse (yajl_tree.c:501) or yajl_tree_free.  That holds of calls
\* that overlap, too: what they lose is functions at all, never the right ones.
SameFunctions ==
    \A t \in Threads : at[t] = "inside" /\ afs # "null" => made[t] \subseteq {Through(afs)}

\* Outside of the calls the global is what the client has made it, whatever
\* calls have failed, succeeded or overlapped.
ResetOnReturn == AllOut => afs \in {"null", "client"}

\* yajl_tree.c:576-579: the global is null when yajl_tree_free is called, unless
\* the caller has set it, "and so we must set it up again": while it frees,
\* the functions are there.
SetUpToFree == \A t \in Threads : at[t] = "inside" /\ job[t] = "free" => Live(afs)
=============================================================================
