----------------------------- MODULE TestRunner -----------------------------
(***************************************************************************)
(* hxtest_, which sorts and runs the registered tests.  What a test does   *)
(* is a choice: it makes checks (EXPECT_ or ASSERT_, that hold or not) and *)
(* ends or throws, with something on the temporary stack or with nothing.  *)
(* Nothing else is on that stack, and no assertion is skipped.             *)
(***************************************************************************)
EXTENDS Integers, Sequences, FiniteSets

CONSTANTS
  Test, Suite, Line,   \* the tests, the suite and the line of each
  MaxCases,            \* HX_TEST_MAX_CASES
  MaxMessages,         \* max_fail_messages_
  MaxChecks            \* bound: the checks of one test

VARIABLES
  m_test_cases_, runner, filter, it_, test_pc, result,
  temp_stack,  \* what the allocator of the temporary stack holds
  seen,      \* history: the outcomes of the checks of the current test
  made,      \* history: the number of these checks, for the bound
  verdict    \* history: what each test of this run deserves

testVars ==
  <<m_test_cases_, runner, filter, it_, test_pc, result, temp_stack, seen, made, verdict>>

TestRunnerAssumption ==
  /\ Suite \in [Test -> Nat] /\ Line \in [Test -> Nat]
  /\ \A t, u \in Test : Suite[t] = Suite[u] /\ Line[t] = Line[u] => t = u
  /\ MaxCases \in Nat /\ MaxMessages \in Nat /\ MaxChecks \in Nat

AllSuites == -1
NoResult == -1

(* Nothing; or bytes that no allocation uses any more, which only a scope  *)
(* gives back; or allocations (of more than no bytes) that are not freed.  *)
StackStates == {"empty", "bytes", "allocations"}

Counters == [m_test_state_ : {"nothing_asserted", "pass", "fail"},
             m_assert_count_ : Nat, m_total_assert_count_ : Nat,
             m_pass_count_ : Nat, m_fail_count_ : Nat]

TestInit ==
  /\ m_test_cases_ = <<>>
  /\ runner = [m_test_state_ |-> "nothing_asserted", m_assert_count_ |-> 0,
               m_total_assert_count_ |-> 0, m_pass_count_ |-> 0, m_fail_count_ |-> 0]
  /\ filter = AllSuites /\ it_ = 0 /\ test_pc = "idle" /\ result = NoResult
  /\ temp_stack = "empty"
  /\ seen = {} /\ made = 0 /\ verdict = [t \in Test |-> "skipped"]

-----------------------------------------------------------------------------
hxtest_case_sort_(t, u) ==
  IF Suite[t] = Suite[u] THEN Line[t] < Line[u] ELSE Suite[t] < Suite[u]

(* Mutant of condition_check_: the last check decides. *)
CheckForgets(r, condition) ==
  [r EXCEPT !.m_test_state_ = IF condition THEN "pass" ELSE "fail",
            !.m_assert_count_ = IF condition THEN @ ELSE @ + 1,
            !.m_total_assert_count_ = IF condition THEN @ ELSE @ + 1]

(* A failure sticks to the test. *)
condition_check_(r, condition) ==
  [r EXCEPT !.m_test_state_ =
              IF condition /\ @ # "fail" THEN "pass" ELSE "fail",
            !.m_assert_count_ = IF condition THEN @ ELSE @ + 1,
            !.m_total_assert_count_ = IF condition THEN @ ELSE @ + 1]

(* ASSERT_ ends the process, unless so many checks failed before it that   *)
(* condition_check_ returned early: r are the counters after the check.    *)
Halts(r, condition, is_assert) ==
  ~condition /\ is_assert /\ r.m_assert_count_ < MaxMessages

(* The registered tests in the order in which they run. *)
SortedCases ==
  LET n == Len(m_test_cases_)
      registered == {m_test_cases_[i] : i \in 1..n}
  IN {cases \in [1..n -> registered] :
        /\ {cases[i] : i \in 1..n} = registered
        /\ \A i, j \in 1..n : i < j => hxtest_case_sort_(cases[i], cases[j])}

Selected(t) == filter = AllSuites \/ filter = Suite[t]

(* Global constructors register the tests in any order. *)
AddTest(t) ==
  /\ test_pc = "idle"
  /\ \A i \in 1..Len(m_test_cases_) : m_test_cases_[i] # t
  /\ Len(m_test_cases_) < MaxCases
  /\ m_test_cases_' = Append(m_test_cases_, t)
  /\ UNCHANGED <<runner, filter, it_, test_pc, result, temp_stack, seen, made, verdict>>

(* The scope of a run is opened on an empty stack, or the run is refused.  *)
RunAllTests(suite) ==
  /\ test_pc = "idle"
  /\ filter' = suite
  /\ m_test_cases_' \in SortedCases
  /\ runner' = [runner EXCEPT !.m_pass_count_ = 0, !.m_fail_count_ = 0,
                              !.m_total_assert_count_ = 0]
  /\ it_' = 1
  /\ test_pc' = IF temp_stack = "empty" THEN "next" ELSE "leaked"
  /\ verdict' = [t \in Test |-> "skipped"]
  /\ UNCHANGED <<result, temp_stack, seen, made>>

NextTest ==
  /\ test_pc = "next"
  /\ it_ <= Len(m_test_cases_)
  /\ IF Selected(m_test_cases_[it_])
     THEN /\ runner' = [runner EXCEPT !.m_test_state_ = "nothing_asserted",
                                      !.m_assert_count_ = 0]
          /\ test_pc' = "test"
          /\ seen' = {} /\ made' = 0
          /\ UNCHANGED it_
     ELSE it_' = it_ + 1 /\ UNCHANGED <<runner, test_pc, seen, made>>
  /\ UNCHANGED <<m_test_cases_, filter, result, temp_stack, verdict>>

Check(condition, is_assert) ==
  /\ test_pc = "test"
  /\ made < MaxChecks
  /\ runner' = condition_check_(runner, condition)
  /\ test_pc' = IF Halts(runner', condition, is_assert) THEN "halted" ELSE "test"
  /\ seen' = seen \union {condition}
  /\ made' = made + 1
  /\ UNCHANGED <<m_test_cases_, filter, it_, result, temp_stack, verdict>>

(* A stack that is not empty, from this test or from an earlier one, or an *)
(* exception, is a failed ASSERT_; no check at all is a failed EXPECT_.    *)
(* Then the test is counted by its state.                                  *)
EndTest(left, throws) ==
  LET fails == throws \/ left # "empty"
      r1 == IF fails THEN condition_check_(runner, FALSE) ELSE runner
      r2 == IF r1.m_test_state_ = "nothing_asserted"
            THEN condition_check_(r1, FALSE) ELSE r1
      passes == r2.m_test_state_ = "pass"
      halts == fails /\ Halts(r1, FALSE, TRUE)
      deserved == IF ~fails /\ seen = {TRUE} THEN "pass" ELSE "fail"
  IN /\ test_pc = "test"
     /\ left = "empty" => temp_stack = "empty"
     /\ temp_stack' = left
     /\ IF halts THEN runner' = r1 /\ test_pc' = "halted" /\ UNCHANGED it_
        ELSE /\ runner' = [r2 EXCEPT !.m_pass_count_ = IF passes THEN @ + 1 ELSE @,
                                     !.m_fail_count_ = IF passes THEN @ ELSE @ + 1]
             /\ test_pc' = "next"
             /\ it_' = it_ + 1
     /\ verdict' = [verdict EXCEPT ![m_test_cases_[it_]] = deserved]
     /\ UNCHANGED <<m_test_cases_, filter, result, seen, made>>

(* Nothing tested is one failure.  The scope of the run gives the bytes    *)
(* back; allocations stay, and where hxassertmsg is on they end the        *)
(* process.                                                                *)
ReturnCount(hxassertmsg_is_on) ==
  LET failures == runner.m_fail_count_
      passed == runner.m_pass_count_ # 0 /\ failures = 0
      leaks == temp_stack = "allocations"
  IN /\ test_pc = "next"
     /\ it_ > Len(m_test_cases_)
     /\ runner' = [runner EXCEPT !.m_fail_count_ =
                     IF passed \/ failures >= 1 THEN @ ELSE 1]
     /\ IF leaks /\ hxassertmsg_is_on
        THEN test_pc' = "leaked" /\ UNCHANGED <<result, it_>>
        ELSE test_pc' = "idle" /\ result' = runner'.m_fail_count_ /\ it_' = 0
     /\ temp_stack' = IF leaks THEN temp_stack ELSE "empty"
     /\ UNCHANGED <<m_test_cases_, filter, seen, made, verdict>>

(* After _Exit, or a failed assertion, there is nothing. *)
Halted == test_pc \in {"halted", "leaked"} /\ UNCHANGED testVars

TestNext ==
  \/ \E t \in Test : AddTest(t)
  \/ \E suite \in {AllSuites} \union {Suite[t] : t \in Test} : RunAllTests(suite)
  \/ NextTest
  \/ \E condition, is_assert \in BOOLEAN : Check(condition, is_assert)
  \/ \E left \in StackStates, throws \in BOOLEAN : EndTest(left, throws)
  \/ \E hxassertmsg_is_on \in BOOLEAN : ReturnCount(hxassertmsg_is_on)
  \/ Halted

-----------------------------------------------------------------------------
(* The values every variable may take. *)
TestTypeOK ==
  /\ m_test_cases_ \in Seq(Test)
  /\ runner \in Counters
  /\ filter \in {AllSuites} \union {Suite[t] : t \in Test}
  /\ it_ \in Nat /\ result \in Nat \union {NoResult}
  /\ test_pc \in {"idle", "next", "test", "halted", "leaked"}
  /\ temp_stack \in StackStates
  /\ seen \subseteq BOOLEAN /\ made \in 0..MaxChecks
  /\ verdict \in [Test -> {"skipped", "pass", "fail"}]

(* A test passes if it checked something, every check held, it did not     *)
(* throw and the temporary stack is empty when it ends.  The counters are  *)
(* those of the tests so far: each selected one ran once, in the order of  *)
(* suites and lines; what is left on the stack was held against a test;    *)
(* and the result is 0 if and only if there were tests and all passed.     *)
VerdictsAreRight ==
  LET with(v) == {t \in Test : verdict[t] = v}
      ran == {m_test_cases_[i] : i \in 1..(it_ - 1)}
      failures == Cardinality(with("fail"))
  IN /\ test_pc \in {"next", "test"} =>
          /\ runner.m_pass_count_ = Cardinality(with("pass"))
          /\ runner.m_fail_count_ = failures
          /\ with("skipped") = {t \in Test : t \notin ran \/ ~Selected(t)}
          /\ temp_stack # "empty" => failures # 0
          /\ \A i, j \in 1..Len(m_test_cases_) :
               i < j => hxtest_case_sort_(m_test_cases_[i], m_test_cases_[j])
     /\ test_pc = "idle" /\ result # NoResult =>
          result = IF failures = 0 /\ with("pass") = {} THEN 1 ELSE failures

(* A process that ends in the middle of a test had a failed check, or the  *)
(* test threw or left or found something on the temporary stack.           *)
HaltsEarly ==
  test_pc = "halted" => FALSE \in seen \/ verdict[m_test_cases_[it_]] = "fail"

=============================================================================
