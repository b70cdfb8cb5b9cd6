----------------------------- MODULE MCRunQueue -----------------------------
(***************************************************************************)
(* An instance of RunQueue: the context c2 has the PID of c1, which was    *)
(* reused, and the other contexts are interchangeable.  Six of them in the *)
(* heap make remove() sift up into another subtree.                        *)
(***************************************************************************)
EXTENDS RunQueue, TLC

CONSTANTS c1, c2

ReusedPid == [o \in Contexts |-> IF o = c2 THEN c1 ELSE o]
Interchangeable == Permutations(Contexts \ {c1, c2})
=============================================================================
