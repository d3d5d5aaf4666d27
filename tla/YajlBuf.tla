------------------------------ MODULE YajlBuf ------------------------------
(***************************************************************************)
(* The growable buffer of src/src/yajl_buf.c: its sizes, in a size_t of    *)
(* finite width.  What the bytes are is left out; a NUL stands behind      *)
(* them.  yajl_buf_append is a loop of steps: it asks for room (Ask),      *)
(* doubles the size until there is enough (Double), and then takes it and  *)
(* copies (Fit).                                                           *)
(***************************************************************************)
EXTENDS Integers

CONSTANTS
    InitSize,  \* YAJL_BUF_INIT_SIZE
    SizeMax    \* SIZE_MAX + 1

ASSUME SizesAssumption ==
    InitSize \in Nat /\ SizeMax \in Nat /\ 1 <= InitSize /\ InitSize < SizeMax

VARIABLES
    len, used,  \* of the buffer; len is 0 until its data is allocated
    need, want, \* of yajl_buf_ensure_available
    bufAt       \* "idle", "ensure" in that loop, "aborted" by an assert

bufVars == <<len, used, need, want, bufAt>>

\* yajl_buf_alloc
BufInit == len = 0 /\ used = 0 /\ need = 0 /\ want = 0 /\ bufAt = "idle"

\* yajl_buf_append of n bytes.  No object has SIZE_MAX bytes.
Ask(n) ==
    /\ bufAt = "idle" /\ n + 1 < SizeMax
    /\ bufAt' = "ensure" /\ want' = n
    /\ len' = IF len = 0 THEN InitSize ELSE len
    /\ need' = len'
    /\ UNCHANGED used

\* The condition of the loop, one byte short.
MutTooSmall == need > 0 /\ want > (need - used) % SizeMax

\* The condition of the loop: the subtraction wraps when need is below used.
TooSmall == need > 0 /\ want + 1 >= (need - used) % SizeMax

Double ==
    /\ bufAt = "ensure" /\ TooSmall
    /\ need' = (2 * need) % SizeMax
    /\ UNCHANGED <<len, used, want, bufAt>>

Fit ==
    /\ bufAt = "ensure" /\ ~TooSmall
    /\ IF need >= len
       THEN len' = need /\ used' = used + want /\ bufAt' = "idle"
       ELSE bufAt' = "aborted" /\ UNCHANGED <<len, used>>
    /\ UNCHANGED <<need, want>>

\* yajl_buf_truncate; yajl_buf_clear is a truncation to nothing.
truncate(n) ==
    /\ bufAt = "idle"
    /\ IF n <= used THEN used' = n /\ UNCHANGED bufAt
                    ELSE bufAt' = "aborted" /\ UNCHANGED used
    /\ UNCHANGED <<len, need, want>>

BufNext == Double \/ Fit \/ \E n \in Nat : Ask(n) \/ truncate(n)

BufSpec == BufInit /\ [][BufNext]_bufVars

-----------------------------------------------------------------------------
BufTypeOK ==
    /\ len \in Nat /\ used \in Nat /\ need \in Nat /\ want \in Nat
    /\ bufAt \in {"idle", "ensure", "aborted"}

\* The bytes and the NUL behind them are inside of what is allocated, however
\* the sizes wrap: where they would not be, an assert ends the program.
Fits == used < len \/ (len = 0 /\ used = 0)
=============================================================================
