------------------------------ MODULE Services ------------------------------
(***************************************************************************)
(* The services of the platform: files, the console, the profiler and the  *)
(* test runner.  A program uses one of them.                               *)
(***************************************************************************)
EXTENDS Integers, Sequences

CONSTANTS
  Object, Stream, Borrowed, MaxCount,   \* of File
  Symbol, Effect, Late, Types,          \* of Console
  BootPath, Dropped, Script, Typed,
  Case, CaseSuite, CaseLine,            \* of TestRunner, and its bounds
  MaxCases, MaxMessages, MaxChecks,
  Profiled, NativeId, IdCount,          \* the threads of Profiler, and its bounds
  CycleCount, MinCycles, MaxRecords, MaxDepth, MaxTime

VARIABLES
  service,       \* the one that is used, or "none"
  file, stream,
  commands, value, called, frames, result, line, failed,
  m_test_cases_, runner, filter, it_, test_pc, test_result, temp_stack, seen, made, verdict,
  now, m_is_started_, m_records, profiled, sampled

files == <<file, stream>>
console == <<commands, value, called, frames, result, line, failed>>
tests ==
  <<m_test_cases_, runner, filter, it_, test_pc, test_result, temp_stack, seen, made, verdict>>
profiler == <<now, m_is_started_, m_records, profiled, sampled>>
serviceVars == <<service, files, console, tests, profiler>>

Files == INSTANCE File WITH
  Null <- "null"

Console == INSTANCE Console

Tests == INSTANCE TestRunner WITH
  Test <- Case, Suite <- CaseSuite, Line <- CaseLine, result <- test_result

Profiler == INSTANCE Profiler WITH
  Thread <- Profiled, Wrap <- CycleCount, scopes <- profiled, t1 <- sampled

ServiceAssumptions ==
  /\ Files!FileAssumption /\ Console!ConsoleAssumption
  /\ Tests!TestRunnerAssumption /\ Profiler!ProfilerAssumption

ServicesAre(s) ==
  /\ service = s
  /\ Files!FileInit /\ Console!ConsoleInit /\ Tests!TestInit /\ Profiler!ProfilerInit

NoService == ServicesAre("none")

ServicesInit == \E s \in {"file", "console", "tests", "profiler"} : ServicesAre(s)

ServicesNext ==
  /\ UNCHANGED service
  /\ \/ service = "file" /\ Files!FileNext /\ UNCHANGED <<console, tests, profiler>>
     \/ service = "console" /\ Console!ConsoleNext /\ UNCHANGED <<files, tests, profiler>>
     \/ service = "tests" /\ Tests!TestNext /\ UNCHANGED <<files, console, profiler>>
     \/ service = "profiler" /\ Profiler!ProfilerNext /\ UNCHANGED <<files, console, tests>>

ServicesSpec == ServicesInit /\ [][ServicesNext]_serviceVars

(* The variables of every service have their types.                        *)
ServicesTypeOK ==
  /\ service = "file" => Files!FileTypeOK
  /\ service = "console" => Console!ConsoleTypeOK
  /\ service = "tests" => Tests!TestTypeOK
  /\ service = "profiler" => Profiler!ProfilerTypeOK

(* hxfile: a stream that is open has one owner, which closes it once.      *)
StreamsHaveOneOwner == Files!StreamsHaveOneOwner

(* The console hands over exactly the numbers of a line.                   *)
ArgumentsAreExact == Console!ArgumentsExact

(* The tests are counted by what happened in them, and the process ends in *)
(* the middle of a run for a reason.                                       *)
VerdictsAreRight == Tests!VerdictsAreRight /\ Tests!HaltsEarly

(* The profiler's records are those of nested scopes.                      *)
RecordsNest == Profiler!RecordsNest

(* No line runs after a failed one, and no record is made while stopped.   *)
ServiceSteps == [][Console!FailureStep /\ Profiler!StoppedStep]_serviceVars

(* The line "exec <filename>" executes the file, in files as elsewhere.    *)
ExecFindsFile == Console!ExecFindsFile

(* No sample of a written trace ends before it begins.                     *)
SamplesRunForward == Profiler!SamplesRunForward

=============================================================================
