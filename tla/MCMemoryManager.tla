-------------------------- MODULE MCMemoryManager --------------------------
(***************************************************************************)
(* Small instances of MemoryManager: a temporary stack in which padding    *)
(* decides whether an allocation fits, a permanent stack that overflows at *)
(* the second allocation, and scopes that nest in the threads that may use *)
(* the temporary stack.                                                    *)
(***************************************************************************)
EXTENDS MemoryManager

SmallBudget == [a \in Stack |-> IF a = "temp" THEN 3 ELSE 1]

SmallScopes == [t \in Thread |-> IF t \in TempThread THEN 2 ELSE 1]

=============================================================================
