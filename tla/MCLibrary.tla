----------------------------- MODULE MCLibrary ------------------------------
(***************************************************************************)
(* A program that uses one part of the library that keeps to itself: a     *)
(* container, an algorithm, a service or a part of the runtime.  Each has  *)
(* its small instance in Containers, Algorithms, Services and Runtime.     *)
(***************************************************************************)
EXTENDS Containers, Algorithms, Services, Runtime, MCMemoryManager

CONSTANTS n1, n2, n3, t1, t2, k1, k2

(* A small instance of HashTable: nodes n1 and n2 have the same key; in the *)
(* table of two buckets n3 is in their bucket as well, in the one of four  *)
(* buckets it is not.                                                      *)
SmallKeys == [n \in {n1, n2, n3} |-> IF n = n3 THEN k2 ELSE k1]
SmallHashes == [k \in {k1, k2} |-> IF k = k1 THEN 0 ELSE 2]
SmallTables == [t \in {t1, t2} |-> IF t = t1 THEN 1 ELSE 2]

(* A small instance of Console: commands of each effect and of each kind   *)
(* of parameters, files that execute each other, and lines with numbers at *)
(* and beside the limits of the types.                                     *)
Number(n) == [kind |-> "number", value |-> n]
Text(n) == [kind |-> "text", value |-> n]
Comment == [kind |-> "comment", value |-> 0]
LineOf(s, values) == [symbol |-> s, tokens |-> values]

SmallEffects ==
  [count |-> "set", offset |-> "set", pair |-> "call", fails |-> "fail",
   exec |-> "exec", boot |-> "boot", drop |-> "drop"]
SmallSymbols == DOMAIN SmallEffects

SmallTypes ==
  [s \in SmallSymbols |->
     CASE s = "count" -> <<"u8">>
       [] s = "offset" -> <<"i8">>
       [] s = "pair" -> <<"bool", "u64">>
       [] OTHER -> <<>>]

(* File 1 ends with a line without newline, which executes file 2; file 2  *)
(* has a line that fails in its middle; file 3 is the one that boot names. *)
SmallScripts ==
  << [lines |-> << LineOf("count", <<Number(3)>>), LineOf("blank", <<>>),
                   LineOf("exec", <<Text(2)>>) >>,
      newline |-> FALSE],
     [lines |-> << LineOf("offset", <<Number(-2), Comment>>),
                   LineOf("fails", <<>>), LineOf("count", <<Number(1)>>) >>,
      newline |-> TRUE],
     [lines |-> << LineOf("drop", <<>>), LineOf("offset", <<Number(1)>>),
                   LineOf("exec", <<Text(1)>>) >>,
      newline |-> TRUE] >>

SmallTyped ==
  {LineOf("count", <<Number(n)>>) : n \in {-1, 0, 3, 4, 17}}
    \union {LineOf("offset", <<Number(n)>>) : n \in {-9, -3, 1, 2}}
    \union {LineOf("pair", <<Number(1), Number(n)>>) : n \in {15, 16}}
    \union {LineOf("pair", values) : values \in
              {<<Number(2), Number(0)>>, <<Number(1)>>, <<Number(0), Text(1)>>,
               <<Number(0), Number(1), Number(1)>>}}
    \union {LineOf("exec", <<Text(n)>>) : n \in 1..4}
    \union {LineOf("exec", <<Text(1), Comment>>), LineOf("count", <<Comment>>)}
    \union {LineOf(s, <<>>) : s \in {"boot", "drop", "fails", "blank"}}

(* And one of TestRunner: three tests in two suites.                       *)
SmallSuites == <<1, 1, 2>>
SmallLines == <<1, 2, 1>>

(* And of Profiler: two ids that differ in their lower two bits.           *)
SmallNativeIds == <<5, 6>>

-----------------------------------------------------------------------------
ASSUME LibraryAssumptions ==
  ContainerAssumptions /\ AlgorithmAssumptions /\ ServiceAssumptions /\ RuntimeAssumptions

vars == <<containerVars, algorithmVars, serviceVars, runtimeVars>>

Init ==
  \/ ContainersInit /\ NoAlgorithm /\ NoService /\ NoRuntime
  \/ AlgorithmsInit /\ NoContainer /\ NoService /\ NoRuntime
  \/ ServicesInit /\ NoContainer /\ NoAlgorithm /\ NoRuntime
  \/ RuntimeInit /\ NoContainer /\ NoAlgorithm /\ NoService

Next ==
  \/ ContainersNext /\ UNCHANGED <<algorithmVars, serviceVars, runtimeVars>>
  \/ AlgorithmsNext /\ UNCHANGED <<containerVars, serviceVars, runtimeVars>>
  \/ ServicesNext /\ UNCHANGED <<containerVars, algorithmVars, runtimeVars>>
  \/ RuntimeNext /\ UNCHANGED <<containerVars, algorithmVars, serviceVars>>

Spec == Init /\ [][Next]_vars

(* The variables of every part have their types.                           *)
TypeOK == ContainersTypeOK /\ AlgorithmsTypeOK /\ ServicesTypeOK /\ RuntimeTypeOK

(* No step of a loop or of a callback does harm: erase() of a table leaves *)
(* no node with the key; hxsort loses and repeats no value and comes to an *)
(* end; no line runs after a failed one; nothing is recorded while the     *)
(* profiler is stopped.                                                    *)
LibrarySteps == EraseTakesAll /\ SortSteps /\ ServiceSteps

=============================================================================
