------------------------------ MODULE Arrays ------------------------------
(***************************************************************************)
(* Array.prototype.filter by position: the entries of a sequence at the    *)
(* positions `keep', in order.  Written without recursion, so that the     *)
(* theorems about the modules that use it can rely on ArrayProofs.         *)
(***************************************************************************)
EXTENDS Integers, Sequences, FiniteSets

Filtered(queue, keep) ==
    [j \in 1..Cardinality(keep) |->
        queue[CHOOSE i \in keep : Cardinality({m \in keep : m <= i}) = j]]
=============================================================================
