---------------------------- MODULE MCHeapQueue -----------------------------
(***************************************************************************)
(* Small instances of HeapQueue.  Five slots make a heap of three levels   *)
(* whose last inner node has two children, three priorities make equal and *)
(* distinct values meet at every slot.  Identities are interchangeable.    *)
(***************************************************************************)
EXTENDS HeapQueue, TLC

IdSymmetry == Permutations(Id)

=============================================================================
