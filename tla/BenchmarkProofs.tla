-------------------------- MODULE BenchmarkProofs --------------------------
(* The benchmark driver, for any list of programs and any test cases: what is
   proved of one transpile holds of every one it makes, and its statistics
   are those of the runs they count. *)
EXTENDS Benchmark, PipelineProofs

(* The statistics of a program, with its test results. *)
Stats == [translated : BOOLEAN, built : BOOLEAN, total : Nat, passed : Nat,
          error : BOOLEAN, test_results : SUBSET (TestCases \X BOOLEAN)]

(* Types, and how far the batch is: a result for every program before the
   current one. *)
BenchTypes ==
    /\ at \in {"program", "initialize", "transpile", "tests", "finished"} \cup Aborted
    /\ program \in 1 .. NPrograms + 1
    /\ at \in {"initialize", "transpile", "tests"} => program \in Programs
    /\ vectors \subseteq TestCases
    /\ result \in Stats
    /\ results \in Seq(Stats) /\ Len(results) = program - 1
    /\ failed_tests \in [Programs -> SUBSET TestCases]
    /\ results_err \in [Programs -> {"none", "old", "new"}]

(* The test cases of r that passed. *)
Successes(r) == {f \in r.test_results : f[2]}

(* Every test case of the current program waits, or was counted once. *)
Tallied ==
    /\ at = "program" => result = NewResult /\ vectors = {}
    /\ at \in {"initialize", "transpile"} =>
            result = [NewResult EXCEPT !.total = Cardinality(vectors)]
    /\ at = "tests" =>
            /\ result.translated /\ result.built /\ ~result.error
            /\ result.passed = Cardinality(Successes(result))
            /\ result.total = Cardinality(result.test_results) + Cardinality(vectors)
            /\ \A f \in result.test_results : f[1] \notin vectors
            /\ Failures(result) \subseteq failed_tests[program]

(* A program whose turn has not come has no results.err of this run. *)
NotYet == \A p \in Programs : p >= program => results_err[p] # "new"

(* The inductive invariant: what holds of the current translation, and what the
   driver has counted. *)
BenchIInv ==
    /\ PipelineIInv
    /\ BenchTypes /\ Tallied /\ NotYet
    /\ ResultsAddUp /\ FailuresAreKept
----------------------------------------------------------------------------
(* One program after the other *)

(* What holds when transpile starts, in the next state. *)
LEMMA StartsNext == Starts' /\ (output \in Untouched)' => PipelineIInv'
<1>1. Starts /\ output \in Untouched => PipelineIInv
  BY PipelineStarts
<1> QED
  BY <1>1, PTL

(* Whatever the driver does between them, the translations are transpile's. *)
LEMMA TranslationPreserved ==
    ASSUME BenchIInv, [BenchmarkNext]_benchmarkVars
    PROVE  PipelineIInv'
<1>1. CASE UNCHANGED pipelineVars
  BY <1>1, PipelineStep DEF BenchIInv
<1>2. CASE Translating
  BY <1>2, PipelineStep DEF BenchIInv, Translating
<1>3. CASE StartTranspile
  <2>1. next_id \in 1 .. MaxId + 1
    BY DEF BenchIInv, PipelineIInv, IInv, TypeOK
  <2>2. Starts' /\ (output \in Untouched)'
    BY <1>3, <2>1 DEF StartTranspile, Starts
  <2> QED
    BY <2>2, StartsNext
<1>4. \/ UNCHANGED pipelineVars
      \/ Translating
      \/ StartTranspile
  BY DEF BenchmarkNext, ProgramFails, ParseVectors, ConfigFails, CollectorFails, TranspileFailed,
     NoSource, NoArtifact, FromIr, TestPasses, TestFails, Runs, NotSaved, TestsDone, Summarize,
     CsvFails, Ended, Returns, Abort, benchmarkVars
<1> QED
  BY <1>1, <1>2, <1>3, <1>4

(* The statistics of one program. *)
AddsUp(r) ==
    /\ r.built => r.translated
    /\ r.error <=> ~r.built
    /\ r.passed = Cardinality(Successes(r))
    /\ r.built => Cardinality(r.test_results) = r.total
    /\ r.passed <= r.total

(* The statistics fit together if each program's do. *)
LEMMA AllAddUp == ResultsAddUp <=> \A k \in DOMAIN results : AddsUp(results[k])
  BY DEF ResultsAddUp, AddsUp, Successes

(* The driver's part of the invariant. *)
Rest == BenchTypes /\ Tallied /\ NotYet /\ ResultsAddUp /\ FailuresAreKept

(* The results so far stay when another one is added. *)
LEMMA ReturnsFacts ==
    ASSUME BenchTypes, NotYet, ResultsAddUp, FailuresAreKept,
           NEW r \in Stats, Returns(r), program \in Programs,
           AddsUp(r), Failures(r) \subseteq failed_tests[program], UNCHANGED failed_tests,
           \/ UNCHANGED results_err
           \/ /\ results_err' = [results_err EXCEPT ![program] = "new"]
              /\ Failures(r) # {}
    PROVE  Rest'
<1>1. /\ results' = Append(results, r) /\ program' = program + 1 /\ at' = "program"
      /\ vectors' = {} /\ result' = NewResult
  BY DEF Returns
<1>2. /\ results \in Seq(Stats) /\ Len(results) = program - 1 /\ program \in 1 .. NPrograms
      /\ NPrograms \in Nat
  BY BenchmarkAssumption DEF BenchTypes, Programs
<1>3. /\ results' \in Seq(Stats) /\ Len(results') = program
      /\ results'[program] = r /\ DOMAIN results' = 1 .. program
      /\ DOMAIN results = 1 .. program - 1
      /\ \A k \in 1 .. program - 1 : results'[k] = results[k]
  BY <1>1, <1>2
<1>4. \A k \in DOMAIN results' : k = program \/ (k \in DOMAIN results /\ results'[k] = results[k])
  BY <1>2, <1>3
<1>5. NewResult \in Stats
  BY DEF NewResult, Stats
<1>6. BenchTypes'
  BY <1>1, <1>2, <1>3, <1>5 DEF BenchTypes
<1>7. Tallied'
  BY <1>1 DEF Tallied
<1>8. NotYet'
  BY <1>1, <1>2 DEF NotYet, BenchTypes, Programs
<1>9. ResultsAddUp'
  <2>1. \A k \in DOMAIN results' : AddsUp(results'[k])
    BY <1>3, <1>4, AllAddUp
  <2> QED
    BY <2>1 DEF ResultsAddUp, AddsUp, Successes
<1>10. FailuresAreKept'
  <2> SUFFICES ASSUME NEW k \in DOMAIN results'
               PROVE  /\ Failures(results'[k]) \subseteq failed_tests'[k]
                      /\ results_err'[k] = "new" => Failures(results'[k]) # {}
    BY DEF FailuresAreKept, Failures
  <2>1. CASE k = program
    <3>1. results_err[program] # "new"
      BY DEF NotYet, Programs
    <3> QED
      BY <1>3, <2>1, <3>1
  <2>2. CASE k \in DOMAIN results
    <3>1. k # program /\ k \in Programs /\ results'[k] = results[k]
      BY <1>2, <1>3, <2>2 DEF Programs
    <3>2. results_err'[k] = results_err[k]
      BY <3>1 DEF BenchTypes
    <3> QED
      BY <2>2, <3>1, <3>2 DEF FailuresAreKept
  <2> QED
    BY <1>4, <2>1, <2>2
<1> QED
  BY <1>6, <1>7, <1>8, <1>9, <1>10 DEF Rest

(* Nothing is added to the results. *)
LEMMA KeepsResults ==
    ASSUME NotYet, ResultsAddUp, FailuresAreKept, UNCHANGED <<program, results, results_err>>,
           \A p \in DOMAIN results : failed_tests[p] \subseteq failed_tests'[p]
    PROVE  NotYet' /\ ResultsAddUp' /\ FailuresAreKept'
<1>1. NotYet'
  BY DEF NotYet
<1>2. ResultsAddUp'
  BY DEF ResultsAddUp
<1>3. FailuresAreKept'
  BY DEF FailuresAreKept, Failures
<1> QED
  BY <1>1, <1>2, <1>3

(* The test cases of a program can be counted. *)
LEMMA TestFacts ==
    /\ Cardinality({}) = 0
    /\ \A S \in SUBSET TestCases : IsFiniteSet(S) /\ Cardinality(S) \in Nat
    /\ \A r \in Stats :
            /\ IsFiniteSet(r.test_results) /\ Cardinality(r.test_results) \in Nat
            /\ IsFiniteSet(Successes(r)) /\ Cardinality(Successes(r)) \in Nat
            /\ Cardinality(Successes(r)) <= Cardinality(r.test_results)
            /\ r.test_results = {} => Successes(r) = {} /\ Failures(r) = {}
<1>1. \A S \in SUBSET TestCases : IsFiniteSet(S) /\ Cardinality(S) \in Nat
  BY FS_Subset, FS_CardinalityType, BenchmarkAssumption
<1>2. IsFiniteSet(TestCases \X BOOLEAN)
  <2>1. IsFiniteSet(BOOLEAN)
    <3>1. IsFiniteSet({TRUE})
      BY FS_Singleton
    <3>2. IsFiniteSet({TRUE} \cup {FALSE})
      BY <3>1, FS_AddElement
    <3>3. BOOLEAN = {TRUE} \cup {FALSE}
      OBVIOUS
    <3> QED
      BY <3>2, <3>3
  <2> QED
    BY <2>1, FS_Product, BenchmarkAssumption
<1>3. ASSUME NEW r \in Stats
      PROVE  /\ IsFiniteSet(r.test_results) /\ Cardinality(r.test_results) \in Nat
             /\ IsFiniteSet(Successes(r)) /\ Cardinality(Successes(r)) \in Nat
             /\ Cardinality(Successes(r)) <= Cardinality(r.test_results)
             /\ r.test_results = {} => Successes(r) = {} /\ Failures(r) = {}
  <2>1. r.test_results \in SUBSET (TestCases \X BOOLEAN)
    BY DEF Stats
  <2>2. IsFiniteSet(r.test_results)
    BY <1>2, <2>1, FS_Subset
  <2>3. Successes(r) \in SUBSET r.test_results
    BY DEF Successes
  <2>4. r.test_results = {} => Successes(r) = {} /\ Failures(r) = {}
    BY DEF Successes, Failures
  <2> QED
    BY <2>2, <2>3, <2>4, FS_Subset, FS_CardinalityType
<1> QED
  BY <1>1, <1>3, FS_EmptySet

(* The translation's end: no build succeeds without a translation, because a
   build result speaks of a package that is in the IR. *)
LEMMA FromIrRest ==
    ASSUME BenchIInv, FromIr
    PROVE  Rest'
<1> DEFINE r == [result EXCEPT !.translated = Translated, !.built = Built]
<1>t. BenchTypes /\ Tallied /\ NotYet /\ ResultsAddUp /\ FailuresAreKept /\ PipelineIInv
  BY DEF BenchIInv
<1>1. at = "transpile" /\ result = [NewResult EXCEPT !.total = Cardinality(vectors)]
      /\ program \in Programs /\ vectors \in SUBSET TestCases
  BY <1>t DEF FromIr, Returned, Tallied, BenchTypes
<1>2. /\ r \in Stats /\ r.translated = Translated /\ r.built = Built /\ r.error = FALSE
      /\ r.passed = 0 /\ r.total = Cardinality(vectors) /\ r.test_results = {}
      /\ Cardinality(vectors) \in Nat
  BY <1>1, TestFacts DEF NewResult, Stats, Translated, Built
<1> HIDE DEF r
<1>3. Built => Translated
  <2>1. ASSUME Built PROVE Translated
    <3>1. OfType(ir, CargoBuildResult) # {}
      BY <2>1 DEF Built, OfType, CargoBuildResult
    <3>2. OfType(ir, CargoPackage) # {} /\ OfType(ir, CargoPackage) \in SUBSET Ids
      BY <1>t, <3>1, ResultOfOutput DEF ResultMatchesOutput, Untouched, OfType
    <3>3. Cardinality(OfType(ir, CargoPackage)) <= 1
      BY <1>t, NoSecond DEF OneOfEach
    <3> QED
      BY <3>2, <3>3, CountFacts DEF Translated
  <2> QED
    BY <2>1
<1>4. CASE Translated /\ Built
  <2>1. /\ result' = r /\ at' = "tests"
        /\ UNCHANGED <<program, vectors, results, failed_tests, results_err>>
    BY <1>4 DEF FromIr, r
  <2>2. NotYet' /\ ResultsAddUp' /\ FailuresAreKept'
    BY <1>t, <2>1, KeepsResults
  <2>3. BenchTypes'
    BY <1>t, <1>1, <1>2, <2>1 DEF BenchTypes
  <2>4. Tallied'
    <3>1. Successes(r) = {} /\ Failures(r) = {}
      BY <1>2, TestFacts
    <3>2. /\ r.passed = Cardinality(Successes(r))
          /\ r.total = Cardinality(r.test_results) + Cardinality(vectors)
      BY <1>2, <3>1, TestFacts
    <3>3. Successes(result)' = Successes(r) /\ Failures(result)' = Failures(r)
      BY <2>1 DEF Successes, Failures
    <3> QED
      BY <1>2, <1>4, <2>1, <3>1, <3>2, <3>3 DEF Tallied
  <2> QED
    BY <2>2, <2>3, <2>4 DEF Rest
<1>5. CASE ~(Translated /\ Built)
  <2> DEFINE s == [r EXCEPT !.error = TRUE]
  <2>1. Returns(s) /\ UNCHANGED <<failed_tests, results_err>>
    BY <1>5 DEF FromIr, r
  <2>2. /\ s \in Stats /\ s.translated = Translated /\ s.built = Built /\ s.error = TRUE
        /\ s.passed = 0 /\ s.total = Cardinality(vectors) /\ s.test_results = {}
    BY <1>2 DEF Stats
  <2> HIDE DEF s
  <2>3. Successes(s) = {} /\ Failures(s) = {}
    BY <2>2, TestFacts
  <2>4. s.built = FALSE
    BY <1>3, <1>5, <2>2 DEF Built
  <2>5. AddsUp(s)
    BY <1>2, <2>2, <2>3, <2>4, TestFacts DEF AddsUp
  <2> QED
    BY <1>t, <1>1, <2>1, <2>2, <2>3, <2>5, ReturnsFacts
<1> QED
  BY <1>4, <1>5

(* A test case is counted when it has run, and it runs once. *)
LEMMA RunsRest ==
    ASSUME BenchIInv, NEW t \in TestCases, TestPasses(t) \/ TestFails(t)
    PROVE  Rest'
<1>t. BenchTypes /\ Tallied /\ NotYet /\ ResultsAddUp /\ FailuresAreKept
  BY DEF BenchIInv
<1>1. PICK ok \in BOOLEAN, passed \in Nat :
        /\ Runs(t, ok, passed)
        /\ \/ ok = TRUE /\ passed = result.passed + 1 /\ UNCHANGED failed_tests
           \/ /\ ok = FALSE /\ passed = result.passed
              /\ failed_tests' = [failed_tests EXCEPT ![program] = @ \cup {t}]
  <2>1. result.passed \in Nat
    BY <1>t DEF BenchTypes, Stats
  <2>2. CASE TestPasses(t)
    <3>1. Runs(t, TRUE, result.passed + 1) /\ UNCHANGED failed_tests
      BY <2>2 DEF TestPasses, PassedTests
    <3>2. result.passed + 1 \in Nat
      BY <2>1
    <3> WITNESS TRUE \in BOOLEAN, result.passed + 1 \in Nat
    <3> QED
      BY <3>1
  <2>3. CASE TestFails(t)
    <3>1. /\ failed_tests' = [failed_tests EXCEPT ![program] = @ \cup {t}]
          /\ Runs(t, FALSE, result.passed)
      BY <2>3 DEF TestFails, Saved, PassedTests
    <3> QED
      BY <2>1, <3>1
  <2> QED
    BY <2>2, <2>3
<1>u. /\ at = "tests" /\ t \in vectors /\ vectors' = vectors \ {t}
      /\ result' = [result EXCEPT !.passed = passed, !.test_results = @ \cup {<<t, ok>>}]
      /\ UNCHANGED <<at, program, results, results_err>>
  BY <1>1 DEF Runs
<1>2. /\ program \in Programs /\ result \in Stats /\ result' \in Stats
      /\ result'.passed = passed
      /\ result'.test_results = result.test_results \cup {<<t, ok>>}
      /\ result'.total = result.total /\ result'.translated = result.translated
      /\ result'.built = result.built /\ result'.error = result.error
  <2>1. program \in Programs /\ result \in Stats
    BY <1>t, <1>u DEF BenchTypes
  <2>2. result.test_results \cup {<<t, ok>>} \in SUBSET (TestCases \X BOOLEAN)
    BY <2>1 DEF Stats
  <2> QED
    BY <1>u, <2>1, <2>2 DEF Stats
<1>3. /\ failed_tests' \in [Programs -> SUBSET TestCases]
      /\ \A p \in Programs : failed_tests[p] \subseteq failed_tests'[p]
      /\ ok = FALSE => t \in failed_tests'[program]
  BY <1>t, <1>1, <1>u, <1>2 DEF BenchTypes
<1>4. BenchTypes'
  BY <1>t, <1>1, <1>u, <1>2, <1>3 DEF BenchTypes
<1>5. NotYet' /\ ResultsAddUp' /\ FailuresAreKept'
  <2>1. DOMAIN results \subseteq Programs
    BY <1>t, BenchmarkAssumption DEF BenchTypes, Programs
  <2> QED
    BY <1>t, <1>1, <1>u, <1>3, <2>1, KeepsResults
<1>6. <<t, ok>> \notin result.test_results
  BY <1>t, <1>u DEF Tallied
<1>7. Tallied'
  <2>1. Cardinality(result'.test_results) = Cardinality(result.test_results) + 1
    <3>1. IsFiniteSet(result.test_results)
      BY <1>2, TestFacts
    <3>2. Cardinality(result.test_results \cup {<<t, ok>>}) = Cardinality(result.test_results) + 1
      BY <1>6, <3>1, FS_AddElement
    <3> QED
      BY <1>2, <3>2
  <2>2. Cardinality(vectors') = Cardinality(vectors) - 1
        /\ Cardinality(vectors) \in Nat
    BY <1>t, <1>u, TestFacts, FS_RemoveElement DEF BenchTypes
  <2>3. result'.total = Cardinality(result'.test_results) + Cardinality(vectors')
    BY <1>t, <1>1, <1>u, <1>2, <2>1, <2>2, TestFacts DEF Tallied
  <2>4. result'.passed = Cardinality(Successes(result'))
    <3>1. result.passed = Cardinality(Successes(result)) /\ result.passed \in Nat
      BY <1>t, <1>1, <1>u, <1>2 DEF Tallied, Stats
    <3>2. CASE ok = TRUE
      <4>1. /\ Successes(result') = Successes(result) \cup {<<t, ok>>}
            /\ <<t, ok>> \notin Successes(result)
        <5> DEFINE x == <<t, ok>>
        <5>1. x[2] /\ result'.test_results = result.test_results \cup {x} /\ x \notin result.test_results
          BY <1>2, <1>6, <3>2
        <5> HIDE DEF x
        <5>2. Successes(result') = Successes(result) \cup {x} /\ x \notin Successes(result)
          BY <5>1 DEF Successes
        <5> QED
          BY <5>2 DEF x
      <4>2. Cardinality(Successes(result')) = Cardinality(Successes(result)) + 1
        <5> DEFINE T == Successes(result)
                   x == <<t, ok>>
        <5>1. IsFiniteSet(T) /\ x \notin T
          BY <1>2, <4>1, TestFacts
        <5> HIDE DEF T, x
        <5>2. Cardinality(T \cup {x}) = Cardinality(T) + 1
          BY <5>1, FS_AddElement
        <5> QED
          BY <4>1, <5>2 DEF T, x
      <4> QED
        BY <1>1, <1>2, <3>1, <3>2, <4>2
    <3>3. CASE ok = FALSE
      <4>1. Successes(result') = Successes(result)
        BY <1>2, <3>3 DEF Successes
      <4> QED
        BY <1>1, <1>2, <3>1, <3>3, <4>1
    <3> QED
      BY <3>2, <3>3
  <2>5. \A f \in result'.test_results : f[1] \notin vectors'
    BY <1>t, <1>1, <1>u, <1>2 DEF Tallied
  <2>6. Failures(result') \subseteq failed_tests'[program]
    <3>1. Failures(result') \subseteq Failures(result) \cup (IF ok = TRUE THEN {} ELSE {t})
      BY <1>2 DEF Failures
    <3>2. Failures(result) \subseteq failed_tests[program]
      BY <1>t, <1>u DEF Tallied
    <3> QED
      BY <1>2, <1>3, <3>1, <3>2
  <2>7. Successes(result)' = Successes(result') /\ Failures(result)' = Failures(result')
    BY DEF Successes, Failures
  <2> QED
    BY <1>t, <1>1, <1>u, <1>2, <2>3, <2>4, <2>5, <2>6, <2>7 DEF Tallied
<1> QED
  BY <1>4, <1>5, <1>7 DEF Rest

(* What the driver does with a program before its translation is there, when
   all its tests have run, and when it gives up. *)
LEMMA RestPreserved ==
    ASSUME BenchIInv, [BenchmarkNext]_benchmarkVars
    PROVE  Rest'
<1>t. BenchTypes /\ Tallied /\ NotYet /\ ResultsAddUp /\ FailuresAreKept
  BY DEF BenchIInv
<1>p. DOMAIN results \subseteq Programs
  BY <1>t, BenchmarkAssumption DEF BenchTypes, Programs
<1>1. CASE ProgramFails
  <2> DEFINE r == [NewResult EXCEPT !.error = TRUE]
  <2>1. Returns(r) /\ program \in Programs /\ UNCHANGED <<failed_tests, results_err>>
    BY <1>t, <1>1 DEF ProgramFails, Tallied
  <2>2. /\ r \in Stats /\ r.built = FALSE /\ r.error = TRUE
        /\ r.passed = 0 /\ r.total = 0 /\ r.test_results = {}
    BY DEF NewResult, Stats
  <2> HIDE DEF r
  <2>3. Successes(r) = {} /\ Failures(r) = {}
    BY <2>2, TestFacts
  <2>4. AddsUp(r)
    BY <2>2, <2>3, TestFacts DEF AddsUp
  <2> QED
    BY <1>t, <2>1, <2>2, <2>3, <2>4, ReturnsFacts
<1>2. CASE ParseVectors
  <2>1. PICK S \in SUBSET TestCases :
            vectors' = S /\ result' = [result EXCEPT !.total = Cardinality(S)]
    BY <1>2 DEF ParseVectors
  <2>2. /\ result = NewResult /\ program \in Programs /\ at' = "initialize"
        /\ UNCHANGED <<program, results, failed_tests, results_err>>
    BY <1>t, <1>2 DEF ParseVectors, Tallied
  <2>3. Cardinality(S) \in Nat
    BY TestFacts
  <2>4. BenchTypes'
    BY <1>t, <2>1, <2>2, <2>3 DEF BenchTypes, Stats, NewResult
  <2>5. Tallied'
    BY <2>1, <2>2 DEF Tallied
  <2> QED
    BY <1>t, <1>p, <2>2, <2>4, <2>5, KeepsResults DEF Rest
<1>3. ASSUME UNCHANGED <<program, vectors, result, results, failed_tests, results_err>>,
             \/ at' = at
             \/ at' \in Aborted \cup {"finished"}
             \/ at = "initialize" /\ at' = "transpile"
      PROVE  Rest'
  <2>1. BenchTypes'
    BY <1>t, <1>3 DEF BenchTypes, Aborted
  <2>2. Tallied'
    BY <1>t, <1>3 DEF Tallied, Aborted, Successes, Failures
  <2> QED
    BY <1>t, <1>3, <2>1, <2>2, KeepsResults DEF Rest
<1>4. CASE \/ ConfigFails \/ CollectorFails \/ TranspileFailed \/ NoSource \/ NoArtifact
           \/ NotSaved \/ Summarize \/ CsvFails
  BY <1>3, <1>4 DEF ConfigFails, CollectorFails, TranspileFailed, NoSource, NoArtifact, NotSaved,
     Summarize, CsvFails, Abort, Aborted
<1>5. CASE StartTranspile
  BY <1>3, <1>5 DEF StartTranspile
<1>6. CASE Translating \/ Ended \/ UNCHANGED benchmarkVars
  BY <1>3, <1>6 DEF Translating, Ended, benchmarkVars, benchVars
<1>7. CASE TestsDone
  <2>1. /\ program \in Programs /\ result \in Stats /\ at = "tests" /\ vectors = {}
        /\ Returns(result) /\ UNCHANGED failed_tests
    BY <1>t, <1>7 DEF TestsDone, BenchTypes
  <2>2. /\ result.built /\ result.translated /\ ~result.error
        /\ result.passed = Cardinality(Successes(result))
        /\ Failures(result) \subseteq failed_tests[program]
    BY <1>t, <2>1 DEF Tallied
  <2>3. result.total = Cardinality(result.test_results)
    BY <1>t, <2>1, TestFacts DEF Tallied
  <2>4. AddsUp(result)
    BY <2>1, <2>2, <2>3, TestFacts DEF AddsUp
  <2>5. \/ UNCHANGED results_err
        \/ /\ results_err' = [results_err EXCEPT ![program] = "new"]
           /\ Failures(result) # {}
    <3>1. results_err \in [Programs -> {"none", "old", "new"}]
      BY <1>t DEF BenchTypes
    <3> QED
      BY <1>7, <2>1, <3>1 DEF TestsDone
  <2> QED
    BY <1>t, <2>1, <2>2, <2>4, <2>5, ReturnsFacts
<1> QED
  BY <1>1, <1>2, <1>4, <1>5, <1>6, <1>7, FromIrRest, RunsRest DEF BenchmarkNext

(* The driver starts at the first program. *)
LEMMA BenchStarts == BenchmarkInit => BenchIInv
<1> SUFFICES ASSUME BenchmarkInit PROVE BenchIInv
  OBVIOUS
<1>1. PipelineIInv
  <2>1. Starts
    BY HarvestIRAssumption DEF BenchmarkInit, PipelineInit, Init, Starts
  <2> QED
    BY <2>1, PipelineStarts DEF BenchmarkInit, PipelineInit
<1>2. /\ at = "program" /\ program = 1 /\ vectors = {} /\ result = NewResult /\ results = <<>>
      /\ failed_tests \in [Programs -> SUBSET TestCases]
      /\ results_err \in [Programs -> {"none", "old"}]
  BY DEF BenchmarkInit
<1>3. /\ NewResult \in Stats /\ <<>> \in Seq(Stats) /\ Len(<<>>) = 0 /\ DOMAIN <<>> = {}
      /\ NPrograms \in Nat
  BY BenchmarkAssumption DEF NewResult, Stats
<1>4. BenchTypes /\ Tallied /\ NotYet
  BY <1>2, <1>3 DEF BenchTypes, Tallied, NotYet
<1>5. ResultsAddUp /\ FailuresAreKept
  BY <1>2, <1>3 DEF ResultsAddUp, FailuresAreKept
<1> QED
  BY <1>1, <1>4, <1>5 DEF BenchIInv

(* The invariant of the batch, over any number of programs. *)
THEOREM BenchInductive == BenchmarkSpec => []BenchIInv
<1>1. ASSUME BenchIInv, [BenchmarkNext]_benchmarkVars PROVE BenchIInv'
  <2>1. PipelineIInv'
    BY <1>1, TranslationPreserved
  <2>2. Rest'
    BY <1>1, RestPreserved
  <2> QED
    BY <2>1, <2>2 DEF BenchIInv, Rest
<1> QED
  BY <1>1, BenchStarts, PTL DEF BenchmarkSpec
----------------------------------------------------------------------------
(* In every translation of a batch each run finds what its might_write saw
   (tools/mod.rs:103): the translation's unwraps never panic. *)
THEOREM InputsFound == BenchmarkSpec => []InputsAreThere
<1>1. BenchIInv => InputsAreThere
  BY InputsThere DEF BenchIInv
<1> QED
  BY <1>1, BenchInductive, PTL

(* Readers of the result find at most one representation of a type
   (ir_utils.rs), over all passes of the loop. *)
THEOREM OneRepresentationEach == BenchmarkSpec => []OneOfEach
<1>1. BenchIInv => OneOfEach
  BY NoSecond DEF BenchIInv
<1> QED
  BY <1>1, BenchInductive, PTL

(* With a build result the output directory holds the whole package, and
   beyond it at most what was left there before transpile; nothing is written
   there without a package (try_cargo_build.rs). *)
THEOREM ResultIsOfOutput == BenchmarkSpec => []ResultMatchesOutput
<1>1. BenchIInv => ResultMatchesOutput
  BY ResultOfOutput DEF BenchIInv
<1> QED
  BY <1>1, BenchInductive, PTL

(* No two of the four tools ever run, or wait to be applied, together. *)
THEOREM RunsAlone == BenchmarkSpec => []OneAtATime
<1>1. BenchIInv => OneAtATime
  BY NoTwoAtATime DEF BenchIInv
<1> QED
  BY <1>1, BenchInductive, PTL

(* transpile returns an IR without a build result only if a run failed, or
   the kind of the project could not be told (lib.rs:82). *)
THEOREM ChainCompletes == BenchmarkSpec => []ChainIsThrough
<1>1. BenchIInv => ChainIsThrough
  BY Through DEF BenchIInv
<1> QED
  BY <1>1, BenchInductive, PTL

(* The statistics fit together, so that the summary's subtraction does not
   underflow (io.rs:125). *)
THEOREM StatisticsAddUp == BenchmarkSpec => []ResultsAddUp
<1>1. BenchIInv => ResultsAddUp
  BY DEF BenchIInv
<1> QED
  BY <1>1, BenchInductive, PTL

(* Every failure that is counted is on disk (doc/Benchmark.md). *)
THEOREM FailuresOnDisk == BenchmarkSpec => []FailuresAreKept
<1>1. BenchIInv => FailuresAreKept
  BY DEF BenchIInv
<1> QED
  BY <1>1, BenchInductive, PTL
=============================================================================
