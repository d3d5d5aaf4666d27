-------------------------------- MODULE MCAfs --------------------------------
(***************************************************************************)
(* Two threads for TreeAfs, for what happens when their calls overlap.     *)
(***************************************************************************)
EXTENDS TreeAfs

CONSTANTS t1, t2

MCThreads == {t1, t2}
=============================================================================
