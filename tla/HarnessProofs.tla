----------------------------- MODULE HarnessProofs -----------------------------
(******************************************************************************)
(* What the run loop of Harness guarantees whatever benchmarks and plugins    *)
(* throw: complementary tear down, complete account of failures, results of   *)
(* valid operations only, and policies that announce the last operation.      *)
(******************************************************************************)
EXTENDS HarnessEventProofs

(* The labels between a successful setUpBeforeAll and the tearDownAfterAll    *)
(* that complements it.                                                       *)
SetUpDone ==
    {"afterBenchmarkSetUp", "canExecute", "setUpBeforeEach", "afterOperationSetUp", "run",
     "beforeOperationTearDown", "tearDownAfterEach", "validate", "completed",
     "beforeBenchmarkTearDown", "tearDownAfterAll"} \cup ResultEvents

(* The benchmark is set up exactly at these labels.                           *)
ReadyInv == ready \in BOOLEAN /\ (ready <=> pc \in SetUpDone)

(* The history variable ready follows the control flow of executeBenchmark    *)
(* and its finally blocks.                                                    *)
THEOREM ReadyInvariant == Spec => []ReadyInv
<1> USE DEF ResultEvents
<1>1. Init => ReadyInv
    BY DEF Init, ReadyInv, SetUpDone
<1>2. ReadyInv /\ [Next]_vars => ReadyInv'
    <2>1. SUFFICES ASSUME ReadyInv, [Next]_vars PROVE ReadyInv'
        OBVIOUS
    <2>2. CASE UNCHANGED vars
        BY <2>1, <2>2 DEF ReadyInv, vars
    <2>3. CASE AfterHarnessInit
        <3>1. /\ pc = "afterHarnessInit"
              /\ pc' \in {"afterHarnessInit", "nextBenchmark", "crash"}
              /\ UNCHANGED ready
            BY <2>3, NotifyControl DEF AfterHarnessInit
        <3>2. QED
            BY <2>1, <3>1 DEF ReadyInv, SetUpDone
    <2>4. CASE NextBenchmark
        <3>1. /\ pc = "nextBenchmark"
              /\ pc' \in {"beforeHarnessShutdown", "create"}
              /\ UNCHANGED ready
            BY <2>4 DEF NextBenchmark, Enter, historyVars
        <3>2. QED
            BY <2>1, <3>1 DEF ReadyInv, SetUpDone
    <2>5. CASE Create
        <3>1. pc = "create" /\ pc' \in {"beforeBenchmarkSetUp", "failed"} /\ UNCHANGED ready
            BY <2>5, CallControl DEF Create, historyVars
        <3>2. QED
            BY <2>1, <3>1 DEF ReadyInv, SetUpDone
    <2>6. CASE OnBenchmarkFailure
        <3>1. /\ pc = "onBenchmarkFailure"
              /\ pc' \in {"onBenchmarkFailure", "failed"}
              /\ UNCHANGED ready
            BY <2>6, NotifyControl DEF OnBenchmarkFailure
        <3>2. QED
            BY <2>1, <3>1 DEF ReadyInv, SetUpDone
    <2>7. CASE Failed
        <3>1. pc = "failed" /\ pc' = "nextBenchmark" /\ UNCHANGED ready
            BY <2>7 DEF Failed, Enter, historyVars
        <3>2. QED
            BY <2>1, <3>1 DEF ReadyInv, SetUpDone
    <2>8. CASE BeforeBenchmarkSetUp
        <3>1. /\ pc = "beforeBenchmarkSetUp"
              /\ pc' \in {"beforeBenchmarkSetUp", "setUpBeforeAll", "onBenchmarkFailure"}
              /\ UNCHANGED ready
            BY <2>8, NotifyControl DEF BeforeBenchmarkSetUp
        <3>2. QED
            BY <2>1, <3>1 DEF ReadyInv, SetUpDone
    <2>9. CASE SetUpBeforeAll
        <3>1. /\ pc = "setUpBeforeAll"
              /\ pc' \in {"afterBenchmarkSetUp", "afterBenchmarkTearDown"}
              /\ ready' = (pc' = "afterBenchmarkSetUp")
            BY <2>9, CallControl DEF SetUpBeforeAll, historyVars
        <3>2. QED
            BY <2>1, <3>1 DEF ReadyInv, SetUpDone
    <2>10. CASE AfterBenchmarkSetUp
        BY <2>1, <2>10, NotifyControl DEF ReadyInv, SetUpDone, AfterBenchmarkSetUp
    <2>11. CASE ExecuteOrNot
        BY <2>1, <2>11 DEF ReadyInv, SetUpDone, ExecuteOrNot, Enter, historyVars
    <2>12. CASE BeforeBenchmarkTearDown
        BY <2>1, <2>12, NotifyControl DEF ReadyInv, SetUpDone, BeforeBenchmarkTearDown
    <2>13. CASE TearDownAfterAll
        <3>1. pc = "tearDownAfterAll" /\ pc' = "afterBenchmarkTearDown" /\ ready' = FALSE
            BY <2>13, CallControl DEF TearDownAfterAll, historyVars
        <3>2. QED
            BY <2>1, <3>1 DEF ReadyInv, SetUpDone
    <2>14. CASE AfterBenchmarkTearDown
        <3>1. /\ pc = "afterBenchmarkTearDown"
              /\ pc' \in {"afterBenchmarkTearDown", "onBenchmarkFailure", "nextBenchmark"}
              /\ UNCHANGED ready
            BY <2>14, NotifyControl DEF AfterBenchmarkTearDown
        <3>2. QED
            BY <2>1, <3>1 DEF ReadyInv, SetUpDone
    <2>15. CASE SetUpBeforeEach
        BY <2>1, <2>15, CallControl
        DEF ReadyInv, SetUpDone, SetUpBeforeEach, Aborted, historyVars
    <2>16. CASE AfterOperationSetUp
        BY <2>1, <2>16, NotifyControl DEF ReadyInv, SetUpDone, AfterOperationSetUp, Aborted
    <2>17. CASE Run
        BY <2>1, <2>17, CallControl DEF ReadyInv, SetUpDone, Run, Aborted, historyVars
    <2>18. CASE BeforeOperationTearDown
        BY <2>1, <2>18, NotifyControl DEF ReadyInv, SetUpDone, BeforeOperationTearDown, Aborted
    <2>19. CASE TearDownAfterEach
        BY <2>1, <2>19, CallControl
        DEF ReadyInv, SetUpDone, TearDownAfterEach, Aborted, historyVars
    <2>20. CASE Validate
        BY <2>1, <2>20, CallControl DEF ReadyInv, SetUpDone, Validate, Aborted, historyVars
    <2>21. CASE UptimeResult
        BY <2>1, <2>21, NotifyControl DEF ReadyInv, SetUpDone, UptimeResult, Aborted
    <2>22. CASE DurationResult
        BY <2>1, <2>22, NotifyControl DEF ReadyInv, SetUpDone, DurationResult, Aborted
    <2>23. CASE RequestedResults
        BY <2>1, <2>23, NotifyControl DEF ReadyInv, SetUpDone, RequestedResults, Aborted
    <2>24. CASE Completed
        BY <2>1, <2>24 DEF ReadyInv, SetUpDone, Completed, Enter, historyVars
    <2>25. CASE BeforeHarnessShutdown
        <3>1. /\ pc = "beforeHarnessShutdown"
              /\ pc' \in {"beforeHarnessShutdown", "end", "crash"}
              /\ UNCHANGED ready
            BY <2>25, NotifyControl DEF BeforeHarnessShutdown
        <3>2. QED
            BY <2>1, <3>1 DEF ReadyInv, SetUpDone
    <2>26. QED
        BY <2>1, <2>2, <2>3, <2>4, <2>5, <2>6, <2>7, <2>8, <2>9, <2>10, <2>11, <2>12, <2>13,
           <2>14, <2>15, <2>16, <2>17, <2>18, <2>19, <2>20, <2>21, <2>22, <2>23, <2>24, <2>25
        DEF Next
<1>3. QED
    BY <1>1, <1>2, PTL DEF Spec

(* SetUpIsTornDown: tearDownAfterAll is called for exactly the benchmarks     *)
(* whose setUpBeforeAll has succeeded, whatever throws.                       *)
THEOREM TornDownCorrect == Spec => []SetUpIsTornDown
<1>1. ReadyInv => SetUpIsTornDown
    BY DEF ReadyInv, SetUpIsTornDown, SetUpDone, ResultEvents
<1>2. QED
    BY <1>1, ReadyInvariant, PTL

--------------------------------------------------------------------------------
(* The account of failures. *)

(* The labels of runBenchmarks outside the execution of a benchmark.          *)
Outside == {"afterHarnessInit", "nextBenchmark", "beforeHarnessShutdown", "end", "crash"}

(* Outside a benchmark failedBenchmarks lists those that were struck by an    *)
(* exception; within one, it lists the earlier ones, and the exception is     *)
(* still on its way exactly if this benchmark was struck.                     *)
AccountInv ==
    /\ bench \in 0 .. NumBenchmarks /\ (pc \notin Outside => bench \in Benchmark)
    /\ exception \in BOOLEAN
    /\ failedBenchmarks \in Seq(Benchmark)
    /\ struck \subseteq Benchmark
    /\ \A i, j \in 1 .. Len(failedBenchmarks) :
          i < j => failedBenchmarks[i] < failedBenchmarks[j]
    /\ pc \in Outside =>
          /\ ToSet(failedBenchmarks) = struck
          /\ \A b \in struck : b <= bench
    /\ pc \notin Outside =>
          /\ ToSet(failedBenchmarks) = struck \ {bench}
          /\ \A b \in struck : b <= bench
          /\ exception <=> bench \in struck
    /\ pc \in {"onBenchmarkFailure", "failed"} => exception

(* A step within a benchmark that reports nothing keeps the account, whether  *)
(* something throws in it or not.                                             *)
LEMMA AccountStep ==
    ASSUME AccountInv, pc \notin Outside, pc' \notin Outside, UNCHANGED <<bench, failedBenchmarks>>,
           NEW byPlugin \in BOOLEAN,
           \/ NoThrow /\ (pc' \in {"onBenchmarkFailure", "failed"} => exception)
           \/ Throw(byPlugin)
    PROVE  AccountInv'
<1>1. CASE NoThrow /\ (pc' \in {"onBenchmarkFailure", "failed"} => exception)
    BY <1>1 DEF AccountInv, NoThrow
<1>2. CASE Throw(byPlugin)
    <2>1. struck' = struck \cup {bench} /\ exception' = TRUE
        BY <1>2 DEF Throw, Outside
    <2>2. bench \in Benchmark /\ bench \in Int
        BY HarnessAssumption DEF AccountInv, Benchmark
    <2>3. struck' \subseteq Benchmark /\ (\A b \in struck' : b <= bench) /\ bench \in struck'
        BY <2>1, <2>2 DEF AccountInv
    <2>4. ToSet(failedBenchmarks) = struck' \ {bench}
        BY <2>1 DEF AccountInv
    <2>5. QED
        BY <2>1, <2>2, <2>3, <2>4 DEF AccountInv, Outside
<1>3. QED
    BY <1>1, <1>2

(* So does the step of runBenchmarks to the next benchmark.                   *)
LEMMA NextAccount == ASSUME AccountInv, NextBenchmark PROVE AccountInv'
<1>1. /\ pc = "nextBenchmark" /\ exception' = FALSE /\ UNCHANGED <<failedBenchmarks, struck>>
      /\ \/ pc' = "beforeHarnessShutdown" /\ UNCHANGED bench
         \/ pc' = "create" /\ bench # NumBenchmarks /\ bench' = bench + 1
    BY DEF NextBenchmark, Enter
<1>2. ToSet(failedBenchmarks) = struck /\ \A b \in struck : b <= bench /\ b \in Int
    BY <1>1, HarnessAssumption DEF AccountInv, Outside, Benchmark
<1>3. CASE pc' = "beforeHarnessShutdown" /\ UNCHANGED bench
    BY <1>1, <1>2, <1>3 DEF AccountInv, Outside
<1>4. CASE pc' = "create" /\ bench # NumBenchmarks /\ bench' = bench + 1
    <2>1. bench' \in Benchmark /\ bench' \in 0 .. NumBenchmarks
        BY <1>4, HarnessAssumption DEF AccountInv, Benchmark
    <2>2. bench' \notin struck /\ \A b \in struck : b <= bench'
        BY <1>2, <1>4, HarnessAssumption DEF AccountInv
    <2>3. QED
        BY <1>1, <1>2, <1>4, <2>1, <2>2 DEF AccountInv, Outside
<1>5. QED
    BY <1>1, <1>3, <1>4

(* The catch block of runBenchmarks enters the benchmark that was struck,     *)
(* which is later than all that are listed.                                   *)
LEMMA FailedAccount == ASSUME AccountInv, Failed PROVE AccountInv'
<1> DEFINE f == failedBenchmarks
           n == Len(f)
<1>1. /\ pc = "failed" /\ pc' = "nextBenchmark" /\ UNCHANGED <<bench, exception, struck>>
      /\ f' = Append(f, bench)
    BY DEF Failed, Enter
<1>2. /\ bench \in Benchmark /\ bench \in Int /\ bench \in struck
      /\ ToSet(f) = struck \ {bench} /\ \A b \in struck : b <= bench /\ b \in Int
    BY <1>1, HarnessAssumption DEF AccountInv, Outside, Benchmark
<1>3. /\ f' \in Seq(Benchmark) /\ n \in Nat /\ Len(f') = n + 1
      /\ f'[n + 1] = bench
      /\ \A i \in 1 .. n : f'[i] = f[i]
    BY <1>1, <1>2, AppendProperties DEF AccountInv
<1>4. \A i \in 1 .. n : f[i] \in struck /\ f[i] < bench
    <2>1. \A i \in 1 .. n : f[i] \in ToSet(f)
        BY DEF ToSet, AccountInv
    <2>2. \A i \in 1 .. n : f[i] \in struck /\ f[i] # bench
        BY <1>2, <2>1
    <2>3. ASSUME NEW i \in 1 .. n PROVE f[i] \in struck /\ f[i] < bench
        <3>1. f[i] \in struck /\ f[i] # bench
            BY <2>2
        <3>2. f[i] \in Int /\ f[i] <= bench
            BY <1>2, <3>1
        <3>3. QED
            BY <1>2, <3>1, <3>2
    <2>4. QED
        BY <2>3
<1>5. ASSUME NEW i \in 1 .. n + 1, NEW j \in 1 .. n + 1, i < j PROVE f'[i] < f'[j]
    <2>1. i \in 1 .. n
        BY <1>3, <1>5
    <2>2. CASE j = n + 1
        BY <1>3, <1>4, <2>1, <2>2
    <2>3. CASE j # n + 1
        <3>1. j \in 1 .. n
            BY <1>3, <2>3
        <3>2. QED
            BY <1>3, <1>5, <2>1, <3>1 DEF AccountInv
    <2>4. QED
        BY <2>2, <2>3
<1>6. ToSet(f') = struck
    <2>1. DOMAIN f = 1 .. n /\ DOMAIN f' = 1 .. n + 1
        BY <1>3 DEF AccountInv
    <2>2. ToSet(f') = ToSet(f) \cup {bench}
        <3>1. ASSUME NEW b \in ToSet(f') PROVE b \in ToSet(f) \cup {bench}
            <4>1. PICK i \in 1 .. n + 1 : b = f'[i]
                BY <2>1 DEF ToSet
            <4>2. i = n + 1 \/ i \in 1 .. n
                BY <1>3
            <4>3. QED
                BY <1>3, <2>1, <4>1, <4>2 DEF ToSet
        <3>2. bench \in ToSet(f')
            <4>1. n + 1 \in 1 .. n + 1
                BY <1>3
            <4>2. QED
                BY <1>3, <2>1, <4>1 DEF ToSet
        <3>3. ASSUME NEW b \in ToSet(f) PROVE b \in ToSet(f')
            <4>1. PICK i \in 1 .. n : b = f[i]
                BY <2>1 DEF ToSet
            <4>2. i \in 1 .. n + 1 /\ b = f'[i]
                BY <1>3, <4>1
            <4>3. QED
                BY <2>1, <4>2 DEF ToSet
        <3>4. QED
            BY <3>1, <3>2, <3>3
    <2>3. QED
        BY <1>2, <2>2
<1> HIDE DEF f, n
<1>7. QED
    <2>1. /\ failedBenchmarks' \in Seq(Benchmark) /\ ToSet(failedBenchmarks') = struck'
          /\ \A i, j \in 1 .. Len(failedBenchmarks') :
                i < j => failedBenchmarks'[i] < failedBenchmarks'[j]
        BY <1>1, <1>3, <1>5, <1>6 DEF f, n
    <2>2. QED
        BY <1>1, <1>2, <2>1 DEF AccountInv, Outside

(* The outermost finally block reports a failure if and only if the benchmark *)
(* was struck, in that block itself included.                                 *)
LEMMA TearDownAccount == ASSUME AccountInv, AfterBenchmarkTearDown PROVE AccountInv'
<1>1. /\ pc = "afterBenchmarkTearDown" /\ UNCHANGED <<bench, failedBenchmarks>>
      /\ \/ pc' = "afterBenchmarkTearDown" /\ NoThrow
         \/ pc' = "onBenchmarkFailure" /\ NoThrow /\ exception
         \/ pc' = "nextBenchmark" /\ NoThrow /\ ~exception
         \/ pc' = "onBenchmarkFailure" /\ Throw(TRUE)
    BY NotifyControl DEF AfterBenchmarkTearDown
<1>2. CASE pc' # "nextBenchmark"
    BY <1>1, <1>2, AccountStep DEF Outside
<1>3. CASE pc' = "nextBenchmark"
    <2>1. bench \notin struck /\ UNCHANGED <<struck, exception, bench, failedBenchmarks>>
        BY <1>1, <1>3 DEF AccountInv, NoThrow, Outside
    <2>2. ToSet(failedBenchmarks) = struck /\ \A b \in struck : b <= bench
        BY <1>1, <2>1 DEF AccountInv, Outside
    <2>3. QED
        BY <1>3, <2>1, <2>2 DEF AccountInv, Outside
<1>4. QED
    BY <1>2, <1>3

(* AccountInv holds in every reachable state: no exception of                 *)
(* executeBenchmark, executeOperation or a plugin is lost or counted twice.   *)
THEOREM AccountInvariant == Spec => []AccountInv
<1>1. Init => AccountInv
    <2>1. ASSUME Init PROVE AccountInv
        <3>1. failedBenchmarks \in Seq(Benchmark) /\ Len(failedBenchmarks) = 0
            BY <2>1, EmptySeq DEF Init
        <3>2. ToSet(failedBenchmarks) = {}
            BY <3>1 DEF ToSet
        <3>3. /\ pc = "afterHarnessInit" /\ bench \in 0 .. NumBenchmarks
              /\ exception = FALSE /\ struck = {}
            BY <2>1, HarnessAssumption DEF Init
        <3>4. pc \in Outside /\ pc \notin {"onBenchmarkFailure", "failed"}
            BY <3>3 DEF Outside
        <3>5. \A i, j \in 1 .. Len(failedBenchmarks) :
                 i < j => failedBenchmarks[i] < failedBenchmarks[j]
            BY <3>1
        <3>6. /\ failedBenchmarks \in Seq(Benchmark) /\ struck \subseteq Benchmark
              /\ ToSet(failedBenchmarks) = struck /\ exception \in BOOLEAN
              /\ \A b \in struck : b <= bench
            BY <3>1, <3>2, <3>3
        <3>7. QED
            BY <3>3, <3>4, <3>5, <3>6, Zenon DEF AccountInv
    <2>2. QED
        BY <2>1
<1>2. AccountInv /\ [Next]_vars => AccountInv'
    <2>1. SUFFICES ASSUME AccountInv, [Next]_vars PROVE AccountInv'
        OBVIOUS
    <2>2. CASE UNCHANGED vars
        BY <2>1, <2>2 DEF AccountInv, vars
    <2>3. CASE AfterHarnessInit
        <3>1. /\ pc = "afterHarnessInit"
              /\ pc' \in {"afterHarnessInit", "nextBenchmark", "crash"}
              /\ UNCHANGED <<bench, failedBenchmarks, struck>> /\ exception' \in BOOLEAN
            BY <2>1, <2>3, NotifyControl DEF AfterHarnessInit, NoThrow, Throw, AccountInv
        <3>2. QED
            BY <2>1, <3>1 DEF AccountInv, Outside
    <2>4. CASE NextBenchmark
        BY <2>1, <2>4, NextAccount
    <2>5. CASE Create
        <3>1. /\ pc = "create" /\ UNCHANGED <<bench, failedBenchmarks>>
              /\ \/ pc' = "beforeBenchmarkSetUp" /\ NoThrow
                 \/ pc' = "failed" /\ Throw(FALSE)
            BY <2>5, CallControl DEF Create, historyVars
        <3>2. QED
            BY <2>1, <3>1, AccountStep DEF Outside
    <2>6. CASE OnBenchmarkFailure
        <3>1. /\ pc = "onBenchmarkFailure" /\ UNCHANGED <<bench, failedBenchmarks>>
              /\ \/ pc' \in {"onBenchmarkFailure", "failed"} /\ NoThrow
                 \/ pc' = "failed" /\ Throw(TRUE)
            BY <2>6, NotifyControl DEF OnBenchmarkFailure
        <3>2. QED
            BY <2>1, <3>1, AccountStep DEF Outside, AccountInv
    <2>7. CASE Failed
        BY <2>1, <2>7, FailedAccount
    <2>8. CASE BeforeBenchmarkSetUp
        <3>1. /\ pc = "beforeBenchmarkSetUp" /\ UNCHANGED <<bench, failedBenchmarks>>
              /\ \/ pc' \in {"beforeBenchmarkSetUp", "setUpBeforeAll"} /\ NoThrow
                 \/ pc' = "onBenchmarkFailure" /\ Throw(TRUE)
            BY <2>8, NotifyControl DEF BeforeBenchmarkSetUp
        <3>2. QED
            BY <2>1, <3>1, AccountStep DEF Outside
    <2>9. CASE SetUpBeforeAll
        <3>1. /\ pc = "setUpBeforeAll"
              /\ pc' \in {"afterBenchmarkSetUp", "afterBenchmarkTearDown"}
              /\ UNCHANGED <<bench, failedBenchmarks>> /\ (NoThrow \/ Throw(FALSE))
            BY <2>9, CallControl DEF SetUpBeforeAll, historyVars
        <3>2. QED
            BY <2>1, <3>1, AccountStep DEF Outside
    <2>10. CASE AfterBenchmarkSetUp
        <3>1. /\ pc = "afterBenchmarkSetUp"
              /\ pc' \in {"afterBenchmarkSetUp", "canExecute", "tearDownAfterAll"}
              /\ UNCHANGED <<bench, failedBenchmarks>> /\ (NoThrow \/ Throw(TRUE))
            BY <2>10, NotifyControl DEF AfterBenchmarkSetUp
        <3>2. QED
            BY <2>1, <3>1, AccountStep DEF Outside
    <2>11. CASE ExecuteOrNot
        <3>1. /\ pc = "canExecute"
              /\ pc' \in {"setUpBeforeEach", "beforeBenchmarkTearDown"}
              /\ UNCHANGED <<bench, failedBenchmarks>>
              /\ NoThrow
            BY <2>11 DEF ExecuteOrNot, Enter, historyVars, NoThrow
        <3>2. QED
            BY <2>1, <3>1, AccountStep DEF Outside
    <2>12. CASE BeforeBenchmarkTearDown
        <3>1. /\ pc = "beforeBenchmarkTearDown"
              /\ pc' \in {"beforeBenchmarkTearDown", "tearDownAfterAll"}
              /\ UNCHANGED <<bench, failedBenchmarks>> /\ (NoThrow \/ Throw(TRUE))
            BY <2>12, NotifyControl DEF BeforeBenchmarkTearDown
        <3>2. QED
            BY <2>1, <3>1, AccountStep DEF Outside
    <2>13. CASE TearDownAfterAll
        <3>1. /\ pc = "tearDownAfterAll" /\ pc' = "afterBenchmarkTearDown"
              /\ UNCHANGED <<bench, failedBenchmarks>> /\ (NoThrow \/ Throw(FALSE))
            BY <2>13, CallControl DEF TearDownAfterAll, historyVars
        <3>2. QED
            BY <2>1, <3>1, AccountStep DEF Outside
    <2>14. CASE AfterBenchmarkTearDown
        BY <2>1, <2>14, TearDownAccount
    <2>15. CASE SetUpBeforeEach
        <3>1. /\ pc = "setUpBeforeEach"
              /\ pc' \in {"afterOperationSetUp", "beforeBenchmarkTearDown"}
              /\ UNCHANGED <<bench, failedBenchmarks>> /\ (NoThrow \/ Throw(FALSE))
            BY <2>15, CallControl DEF SetUpBeforeEach, Aborted, historyVars
        <3>2. QED
            BY <2>1, <3>1, AccountStep DEF Outside
    <2>16. CASE AfterOperationSetUp
        <3>1. /\ pc = "afterOperationSetUp"
              /\ pc' \in {"afterOperationSetUp", "run", "beforeBenchmarkTearDown"}
              /\ UNCHANGED <<bench, failedBenchmarks>> /\ (NoThrow \/ Throw(TRUE))
            BY <2>16, NotifyControl DEF AfterOperationSetUp, Aborted
        <3>2. QED
            BY <2>1, <3>1, AccountStep DEF Outside
    <2>17. CASE Run
        <3>1. /\ pc = "run" /\ pc' \in {"beforeOperationTearDown", "beforeBenchmarkTearDown"}
              /\ UNCHANGED <<bench, failedBenchmarks>> /\ (NoThrow \/ Throw(FALSE))
            BY <2>17, CallControl DEF Run, Aborted, historyVars
        <3>2. QED
            BY <2>1, <3>1, AccountStep DEF Outside
    <2>18. CASE BeforeOperationTearDown
        <3>1. /\ pc = "beforeOperationTearDown"
              /\ pc' \in {"beforeOperationTearDown", "tearDownAfterEach",
                          "beforeBenchmarkTearDown"}
              /\ UNCHANGED <<bench, failedBenchmarks>> /\ (NoThrow \/ Throw(TRUE))
            BY <2>18, NotifyControl DEF BeforeOperationTearDown, Aborted
        <3>2. QED
            BY <2>1, <3>1, AccountStep DEF Outside
    <2>19. CASE TearDownAfterEach
        <3>1. /\ pc = "tearDownAfterEach" /\ pc' \in {"validate", "beforeBenchmarkTearDown"}
              /\ UNCHANGED <<bench, failedBenchmarks>> /\ (NoThrow \/ Throw(FALSE))
            BY <2>19, CallControl DEF TearDownAfterEach, Aborted, historyVars
        <3>2. QED
            BY <2>1, <3>1, AccountStep DEF Outside
    <2>20. CASE Validate
        <3>1. /\ pc = "validate" /\ pc' \in {"uptime_ns", "beforeBenchmarkTearDown"}
              /\ UNCHANGED <<bench, failedBenchmarks>> /\ (NoThrow \/ Throw(FALSE))
            BY <2>20, CallControl DEF Validate, Aborted, historyVars
        <3>2. QED
            BY <2>1, <3>1, AccountStep DEF Outside
    <2>21. CASE UptimeResult
        <3>1. /\ pc = "uptime_ns"
              /\ pc' \in {"uptime_ns", "duration_ns", "beforeBenchmarkTearDown"}
              /\ UNCHANGED <<bench, failedBenchmarks>> /\ (NoThrow \/ Throw(TRUE))
            BY <2>21, NotifyControl DEF UptimeResult, Aborted
        <3>2. QED
            BY <2>1, <3>1, AccountStep DEF Outside
    <2>22. CASE DurationResult
        <3>1. /\ pc = "duration_ns"
              /\ pc' \in {"duration_ns", "onMeasurementResultsRequested",
                          "beforeBenchmarkTearDown"}
              /\ UNCHANGED <<bench, failedBenchmarks>> /\ (NoThrow \/ Throw(TRUE))
            BY <2>22, NotifyControl DEF DurationResult, Aborted
        <3>2. QED
            BY <2>1, <3>1, AccountStep DEF Outside
    <2>23. CASE RequestedResults
        <3>1. /\ pc = "onMeasurementResultsRequested"
              /\ pc' \in {"onMeasurementResultsRequested", "completed",
                          "beforeBenchmarkTearDown"}
              /\ UNCHANGED <<bench, failedBenchmarks>> /\ (NoThrow \/ Throw(TRUE))
            BY <2>23, NotifyControl DEF RequestedResults, Aborted
        <3>2. QED
            BY <2>1, <3>1, AccountStep DEF Outside
    <2>24. CASE Completed
        <3>1. /\ pc = "completed"
              /\ pc' = "canExecute"
              /\ UNCHANGED <<bench, failedBenchmarks>>
              /\ NoThrow
            BY <2>24 DEF Completed, Enter, historyVars, NoThrow
        <3>2. QED
            BY <2>1, <3>1, AccountStep DEF Outside
    <2>25. CASE BeforeHarnessShutdown
        <3>1. /\ pc = "beforeHarnessShutdown"
              /\ pc' \in {"beforeHarnessShutdown", "end", "crash"}
              /\ UNCHANGED <<bench, failedBenchmarks, struck>> /\ exception' \in BOOLEAN
            BY <2>1, <2>25, NotifyControl DEF BeforeHarnessShutdown, NoThrow, Throw, AccountInv
        <3>2. QED
            BY <2>1, <3>1 DEF AccountInv, Outside
    <2>26. QED
        BY <2>1, <2>2, <2>3, <2>4, <2>5, <2>6, <2>7, <2>8, <2>9, <2>10, <2>11, <2>12, <2>13,
           <2>14, <2>15, <2>16, <2>17, <2>18, <2>19, <2>20, <2>21, <2>22, <2>23, <2>24, <2>25
        DEF Next
<1>3. QED
    BY <1>1, <1>2, PTL DEF Spec

(* FailuresAccounted: failedBenchmarks lists each benchmark in which anything *)
(* has thrown once and in order, and no other one.                            *)
THEOREM FailuresCorrect == Spec => []FailuresAccounted
<1>1. AccountInv => FailuresAccounted
    <2>1. SUFFICES ASSUME AccountInv PROVE FailuresAccounted
        OBVIOUS
    <2>2. DOMAIN failedBenchmarks = 1 .. Len(failedBenchmarks)
        BY <2>1 DEF AccountInv
    <2>3. QED
        BY <2>1, <2>2 DEF AccountInv, FailuresAccounted, Outside
<1>2. QED
    BY <1>1, AccountInvariant, PTL

--------------------------------------------------------------------------------
(* The results of operations. *)

(* The labels of a benchmark before its first operation, and of an operation  *)
(* before and after its results are dispatched.                               *)
Fresh        == {"create", "beforeBenchmarkSetUp", "setUpBeforeAll", "afterBenchmarkSetUp"}
BeforeResult == {"canExecute", "setUpBeforeEach", "afterOperationSetUp", "run",
                 "beforeOperationTearDown", "tearDownAfterEach", "validate"}
AfterResult  == {"onMeasurementResultsRequested", "completed"}

(* All plugins have n results of this benchmark.                              *)
Delivered(n) == \A p \in Plugin : results[p] = n

(* How many operations have been validated and how many durations each plugin *)
(* has, label by label.                                                       *)
ResultsInv ==
    /\ op \in Nat /\ valid \in Nat /\ results \in [Plugin -> Nat]
    /\ \A p \in Plugin : results[p] <= valid
    /\ pc \in Fresh        => op = 0 /\ valid = 0
    /\ pc \in BeforeResult => valid = op /\ Delivered(op)
    /\ pc = "uptime_ns"    => valid = op + 1 /\ Delivered(op)
    /\ pc = "duration_ns"  =>
          /\ valid = op + 1
          /\ \A p \in Plugin : results[p] = IF p \in Pending THEN op ELSE op + 1
    /\ pc \in AfterResult  => valid = op + 1 /\ Delivered(op + 1)

(* Only the duration_ns event delivers a duration.                            *)
LEMMA NotifyResults ==
    ASSUME NEW event, NEW next, NEW handler, Notify(event, next, handler), event # "duration_ns"
    PROVE  pc = event /\ pc' \in {event, next, handler} /\ UNCHANGED <<op, valid, results>>
    BY DEF Notify, Handle, Enter

(* A step that neither validates nor delivers keeps the invariant, if it      *)
(* leads to no label that requires more.                                      *)
LEMMA ResultsKept ==
    ASSUME ResultsInv, UNCHANGED <<op, valid, results>>,
           pc' \in Fresh => pc \in Fresh,
           pc' \in BeforeResult => pc \in BeforeResult \cup {"afterBenchmarkSetUp"},
           pc' = "uptime_ns" => pc = "uptime_ns",
           pc' # "duration_ns",
           pc' \in AfterResult => pc \in AfterResult
    PROVE  ResultsInv'
<1>1. CASE pc' \in BeforeResult /\ pc = "afterBenchmarkSetUp"
    <2>1. op = 0 /\ valid = 0
        BY <1>1 DEF ResultsInv, Fresh
    <2>2. ASSUME NEW p \in Plugin PROVE results[p] = 0
        BY <2>1 DEF ResultsInv
    <2>3. pc' \notin Fresh /\ pc' \notin AfterResult /\ pc' # "uptime_ns"
        BY <1>1 DEF BeforeResult, Fresh, AfterResult
    <2>4. QED
        BY <2>1, <2>2, <2>3 DEF ResultsInv, Delivered
<1>2. CASE ~ (pc' \in BeforeResult /\ pc = "afterBenchmarkSetUp")
    BY <1>2 DEF ResultsInv, Delivered
<1>3. QED
    BY <1>1, <1>2

(* A new benchmark starts with no results.                                    *)
LEMMA NextResults == ASSUME ResultsInv, NextBenchmark PROVE ResultsInv'
<1>1. /\ pc' \in {"create", "beforeHarnessShutdown"} /\ op' = 0 /\ valid' = 0
      /\ results' = [p \in Plugin |-> 0]
    BY DEF NextBenchmark, Enter
<1>2. /\ pc' \notin BeforeResult
      /\ pc' \notin AfterResult
      /\ pc' # "uptime_ns"
      /\ pc' # "duration_ns"
    BY <1>1 DEF BeforeResult, AfterResult
<1>3. QED
    BY <1>1, <1>2 DEF ResultsInv

(* A validated operation is one ahead of the results delivered.               *)
LEMMA ValidateResults == ASSUME ResultsInv, Validate PROVE ResultsInv'
<1>1. /\ pc = "validate" /\ pc' \in {"uptime_ns", "beforeBenchmarkTearDown"}
      /\ valid' = IF pc' = "uptime_ns" THEN valid + 1 ELSE valid
      /\ UNCHANGED <<op, results>>
    BY CallControl DEF Validate, Aborted
<1>2. /\ valid = op /\ op \in Nat /\ results \in [Plugin -> Nat]
      /\ \A p \in Plugin : results[p] = op
    BY <1>1 DEF ResultsInv, BeforeResult, Delivered
<1>3. /\ pc' \notin Fresh
      /\ pc' \notin BeforeResult
      /\ pc' \notin AfterResult
      /\ pc' # "duration_ns"
    BY <1>1 DEF Fresh, BeforeResult, AfterResult
<1>4. valid' \in Nat /\ valid' >= op /\ (pc' = "uptime_ns" => valid' = op + 1)
    BY <1>1, <1>2
<1>5. QED
    BY <1>1, <1>2, <1>3, <1>4 DEF ResultsInv, Delivered

(* When duration_ns is dispatched, no plugin has the duration yet.            *)
LEMMA UptimeResults ==
    ASSUME DispatchInv, ResultsInv, UNCHANGED order, UptimeResult PROVE ResultsInv'
<1>1. /\ pc = "uptime_ns" /\ UNCHANGED <<op, valid, results>>
      /\ pc' \in {"uptime_ns", "duration_ns", "beforeBenchmarkTearDown"}
    BY NotifyResults DEF UptimeResult, Aborted
<1>2. CASE pc' # "duration_ns"
    BY <1>1, <1>2, ResultsKept DEF Fresh, BeforeResult, AfterResult
<1>3. CASE pc' = "duration_ns"
    <2>1. Pending' = Plugin
        <3>1. /\ "uptime_ns" \in Events
              /\ "duration_ns" \in Events
              /\ "duration_ns" \notin PolicyEvents
            BY DEF Events, ResultEvents, PolicyEvents
        <3>2. "duration_ns" \in Labels /\ Aborted \in Labels /\ Aborted # "duration_ns"
            BY <3>1 DEF Labels, Aborted, Events, ProtocolEvents, TearDownEvents
        <3>3. Pending' = Waiting("duration_ns")
            BY <1>1, <1>3, <3>1, <3>2, NotifyProperties DEF UptimeResult
        <3>4. QED
            BY <3>1, <3>3 DEF Waiting
    <2>2. valid = op + 1 /\ \A p \in Plugin : results[p] = op
        BY <1>1 DEF ResultsInv, Delivered
    <2>3. /\ pc' \notin Fresh
          /\ pc' \notin BeforeResult
          /\ pc' \notin AfterResult
          /\ pc' # "uptime_ns"
        BY <1>3 DEF Fresh, BeforeResult, AfterResult
    <2>4. QED
        BY <1>1, <1>3, <2>1, <2>2, <2>3 DEF ResultsInv
<1>4. QED
    BY <1>2, <1>3

(* Each plugin gets the duration once; when the dispatch goes on, all of them *)
(* have it.                                                                   *)
LEMMA DurationResults ==
    ASSUME DispatchInv, ResultsInv, UNCHANGED order, DurationResult PROVE ResultsInv'
<1>1. /\ "duration_ns" \in Events /\ "duration_ns" \notin PolicyEvents /\ Aborted \in Labels
      /\ "onMeasurementResultsRequested" \in Labels
    BY DEF Events, ResultEvents, PolicyEvents, Labels, Aborted, ProtocolEvents, TearDownEvents
<1>2. PICK l \in Pending :
        /\ l \in Listener /\ Handle(l, "duration_ns")
        /\ \/ /\ pc' = pc /\ Pending' = Pending \ {l}
           \/ /\ Pending = {l} /\ pc' = "onMeasurementResultsRequested"
           \/ /\ l # BuiltIn /\ pc' = Aborted
    BY <1>1, NotifyProperties DEF DurationResult
<1>3. pc = "duration_ns" /\ UNCHANGED <<op, valid>>
    BY NotifyControl DEF DurationResult
<1>4. /\ valid = op + 1 /\ op \in Nat /\ results \in [Plugin -> Nat]
      /\ \A p \in Plugin : results[p] = IF p \in Pending THEN op ELSE op + 1
    BY <1>3 DEF ResultsInv
<1>5. results' = IF l \in Plugin THEN [results EXCEPT ![l] = @ + 1] ELSE results
    BY <1>2 DEF Handle
<1>6. /\ results' \in [Plugin -> Nat]
      /\ \A p \in Plugin : results'[p] = IF p \in Pending \ {l} THEN op ELSE op + 1
    BY <1>2, <1>4, <1>5
<1>7. \A p \in Plugin : results'[p] <= valid'
    BY <1>3, <1>4, <1>6
<1>8. pc' \notin Fresh /\ pc' \notin BeforeResult /\ pc' # "uptime_ns"
    BY <1>2, <1>3 DEF Fresh, BeforeResult, Aborted
<1>9. CASE pc' = pc /\ Pending' = Pending \ {l}
    <2>1. pc' = "duration_ns" /\ pc' \notin AfterResult
        BY <1>3, <1>9 DEF AfterResult
    <2>2. QED
        BY <1>3, <1>4, <1>6, <1>7, <1>8, <1>9, <2>1 DEF ResultsInv
<1>10. CASE Pending = {l} /\ pc' = "onMeasurementResultsRequested"
    <2>1. \A p \in Plugin : results'[p] = op + 1
        BY <1>6, <1>10
    <2>2. QED
        BY <1>3, <1>4, <1>6, <1>7, <1>8, <1>10, <2>1 DEF ResultsInv, Delivered
<1>11. CASE pc' = Aborted
    <2>1. pc' \notin AfterResult /\ pc' # "duration_ns"
        BY <1>11 DEF AfterResult, Aborted
    <2>2. QED
        BY <1>3, <1>4, <1>6, <1>7, <1>8, <2>1 DEF ResultsInv
<1>12. QED
    BY <1>2, <1>9, <1>10, <1>11

(* The next operation starts with all results delivered.                      *)
LEMMA CompletedResults == ASSUME ResultsInv, Completed PROVE ResultsInv'
<1>1. pc = "completed" /\ pc' = "canExecute" /\ op' = op + 1 /\ UNCHANGED <<valid, results>>
    BY DEF Completed, Enter, historyVars
<1>2. valid = op + 1 /\ \A p \in Plugin : results[p] = op + 1
    BY <1>1 DEF ResultsInv, AfterResult, Delivered
<1>3. pc' \notin Fresh /\ pc' \notin AfterResult /\ pc' # "uptime_ns" /\ pc' # "duration_ns"
    BY <1>1 DEF Fresh, AfterResult
<1>4. QED
    BY <1>1, <1>2, <1>3 DEF ResultsInv, Delivered

(* ResultsInv holds in every reachable state of executeOperation.             *)
THEOREM ResultsInvariant == Spec => []ResultsInv
<1>1. Init => ResultsInv
    BY DEF Init, ResultsInv, Fresh, BeforeResult, AfterResult
<1>2. DispatchInv /\ ResultsInv /\ [Next]_vars => ResultsInv'
    <2>1. SUFFICES ASSUME DispatchInv, ResultsInv, [Next]_vars PROVE ResultsInv'
        OBVIOUS
    <2>2. UNCHANGED order
        BY <2>1 DEF Next, configVars, vars
    <2>3. CASE UNCHANGED vars
        BY <2>1, <2>3 DEF ResultsInv, vars, Delivered, Pending
    <2>4. CASE AfterHarnessInit
        <3>1. /\ pc = "afterHarnessInit"
              /\ pc' \in {"afterHarnessInit", "nextBenchmark", "crash"}
              /\ UNCHANGED <<op, valid, results>>
            BY <2>4, NotifyResults DEF AfterHarnessInit
        <3>2. QED
            BY <2>1, <3>1, ResultsKept DEF Fresh, BeforeResult, AfterResult
    <2>5. CASE NextBenchmark
        BY <2>1, <2>5, NextResults
    <2>6. CASE Create
        <3>1. /\ pc = "create"
              /\ pc' \in {"beforeBenchmarkSetUp", "failed"}
              /\ UNCHANGED <<op, valid, results>>
            BY <2>6, CallControl DEF Create, historyVars
        <3>2. QED
            BY <2>1, <3>1, ResultsKept DEF Fresh, BeforeResult, AfterResult
    <2>7. CASE OnBenchmarkFailure
        <3>1. /\ pc = "onBenchmarkFailure"
              /\ pc' \in {"onBenchmarkFailure", "failed"}
              /\ UNCHANGED <<op, valid, results>>
            BY <2>7, NotifyResults DEF OnBenchmarkFailure
        <3>2. QED
            BY <2>1, <3>1, ResultsKept DEF Fresh, BeforeResult, AfterResult
    <2>8. CASE Failed
        <3>1. pc = "failed" /\ pc' = "nextBenchmark" /\ UNCHANGED <<op, valid, results>>
            BY <2>8 DEF Failed, Enter, historyVars
        <3>2. QED
            BY <2>1, <3>1, ResultsKept DEF Fresh, BeforeResult, AfterResult
    <2>9. CASE BeforeBenchmarkSetUp
        <3>1. /\ pc = "beforeBenchmarkSetUp"
              /\ pc' \in {"beforeBenchmarkSetUp", "setUpBeforeAll", "onBenchmarkFailure"}
              /\ UNCHANGED <<op, valid, results>>
            BY <2>9, NotifyResults DEF BeforeBenchmarkSetUp
        <3>2. QED
            BY <2>1, <3>1, ResultsKept DEF Fresh, BeforeResult, AfterResult
    <2>10. CASE SetUpBeforeAll
        <3>1. /\ pc = "setUpBeforeAll"
              /\ pc' \in {"afterBenchmarkSetUp", "afterBenchmarkTearDown"}
              /\ UNCHANGED <<op, valid, results>>
            BY <2>10, CallControl DEF SetUpBeforeAll, historyVars
        <3>2. QED
            BY <2>1, <3>1, ResultsKept DEF Fresh, BeforeResult, AfterResult
    <2>11. CASE AfterBenchmarkSetUp
        <3>1. /\ pc = "afterBenchmarkSetUp"
              /\ pc' \in {"afterBenchmarkSetUp", "canExecute", "tearDownAfterAll"}
              /\ UNCHANGED <<op, valid, results>>
            BY <2>11, NotifyResults DEF AfterBenchmarkSetUp
        <3>2. QED
            BY <2>1, <3>1, ResultsKept DEF Fresh, BeforeResult, AfterResult
    <2>12. CASE ExecuteOrNot
        <3>1. /\ pc = "canExecute"
              /\ pc' \in {"setUpBeforeEach", "beforeBenchmarkTearDown"}
              /\ UNCHANGED <<op, valid, results>>
            BY <2>12 DEF ExecuteOrNot, Enter, historyVars
        <3>2. QED
            BY <2>1, <3>1, ResultsKept DEF Fresh, BeforeResult, AfterResult
    <2>13. CASE BeforeBenchmarkTearDown
        <3>1. /\ pc = "beforeBenchmarkTearDown"
              /\ pc' \in {"beforeBenchmarkTearDown", "tearDownAfterAll"}
              /\ UNCHANGED <<op, valid, results>>
            BY <2>13, NotifyResults DEF BeforeBenchmarkTearDown
        <3>2. QED
            BY <2>1, <3>1, ResultsKept DEF Fresh, BeforeResult, AfterResult
    <2>14. CASE TearDownAfterAll
        <3>1. /\ pc = "tearDownAfterAll"
              /\ pc' = "afterBenchmarkTearDown"
              /\ UNCHANGED <<op, valid, results>>
            BY <2>14, CallControl DEF TearDownAfterAll, historyVars
        <3>2. QED
            BY <2>1, <3>1, ResultsKept DEF Fresh, BeforeResult, AfterResult
    <2>15. CASE AfterBenchmarkTearDown
        <3>1. /\ pc = "afterBenchmarkTearDown"
              /\ pc' \in {"afterBenchmarkTearDown", "onBenchmarkFailure", "nextBenchmark"}
              /\ UNCHANGED <<op, valid, results>>
            BY <2>15, NotifyResults DEF AfterBenchmarkTearDown
        <3>2. QED
            BY <2>1, <3>1, ResultsKept DEF Fresh, BeforeResult, AfterResult
    <2>16. CASE SetUpBeforeEach
        <3>1. /\ pc = "setUpBeforeEach"
              /\ pc' \in {"afterOperationSetUp", "beforeBenchmarkTearDown"}
              /\ UNCHANGED <<op, valid, results>>
            BY <2>16, CallControl DEF SetUpBeforeEach, Aborted, historyVars
        <3>2. QED
            BY <2>1, <3>1, ResultsKept DEF Fresh, BeforeResult, AfterResult
    <2>17. CASE AfterOperationSetUp
        <3>1. /\ pc = "afterOperationSetUp"
              /\ pc' \in {"afterOperationSetUp", "run", "beforeBenchmarkTearDown"}
              /\ UNCHANGED <<op, valid, results>>
            BY <2>17, NotifyResults DEF AfterOperationSetUp, Aborted
        <3>2. QED
            BY <2>1, <3>1, ResultsKept DEF Fresh, BeforeResult, AfterResult
    <2>18. CASE Run
        <3>1. /\ pc = "run"
              /\ pc' \in {"beforeOperationTearDown", "beforeBenchmarkTearDown"}
              /\ UNCHANGED <<op, valid, results>>
            BY <2>18, CallControl DEF Run, Aborted, historyVars
        <3>2. QED
            BY <2>1, <3>1, ResultsKept DEF Fresh, BeforeResult, AfterResult
    <2>19. CASE BeforeOperationTearDown
        <3>1. /\ pc = "beforeOperationTearDown"
              /\ pc' \in {"beforeOperationTearDown", "tearDownAfterEach",
                          "beforeBenchmarkTearDown"}
              /\ UNCHANGED <<op, valid, results>>
            BY <2>19, NotifyResults DEF BeforeOperationTearDown, Aborted
        <3>2. QED
            BY <2>1, <3>1, ResultsKept DEF Fresh, BeforeResult, AfterResult
    <2>20. CASE TearDownAfterEach
        <3>1. /\ pc = "tearDownAfterEach"
              /\ pc' \in {"validate", "beforeBenchmarkTearDown"}
              /\ UNCHANGED <<op, valid, results>>
            BY <2>20, CallControl DEF TearDownAfterEach, Aborted, historyVars
        <3>2. QED
            BY <2>1, <3>1, ResultsKept DEF Fresh, BeforeResult, AfterResult
    <2>21. CASE Validate
        BY <2>1, <2>21, ValidateResults
    <2>22. CASE UptimeResult
        BY <2>1, <2>22, <2>2, UptimeResults
    <2>23. CASE DurationResult
        BY <2>1, <2>23, <2>2, DurationResults
    <2>24. CASE RequestedResults
        <3>1. /\ pc = "onMeasurementResultsRequested"
              /\ pc' \in {"onMeasurementResultsRequested", "completed",
                          "beforeBenchmarkTearDown"}
              /\ UNCHANGED <<op, valid, results>>
            BY <2>24, NotifyResults DEF RequestedResults, Aborted
        <3>2. QED
            BY <2>1, <3>1, ResultsKept DEF Fresh, BeforeResult, AfterResult
    <2>25. CASE Completed
        BY <2>1, <2>25, CompletedResults
    <2>26. CASE BeforeHarnessShutdown
        <3>1. /\ pc = "beforeHarnessShutdown"
              /\ pc' \in {"beforeHarnessShutdown", "end", "crash"}
              /\ UNCHANGED <<op, valid, results>>
            BY <2>26, NotifyResults DEF BeforeHarnessShutdown
        <3>2. QED
            BY <2>1, <3>1, ResultsKept DEF Fresh, BeforeResult, AfterResult
    <2>27. QED
        BY <2>1, <2>3, <2>4, <2>5, <2>6, <2>7, <2>8, <2>9, <2>10, <2>11, <2>12, <2>13, <2>14,
           <2>15, <2>16, <2>17, <2>18, <2>19, <2>20, <2>21, <2>22, <2>23, <2>24, <2>25, <2>26
        DEF Next
<1>3. QED
    BY <1>1, <1>2, DispatchInvariant, PTL DEF Spec

(* OnlyValidResults: no plugin gets a duration of an operation that was not   *)
(* validated, and a benchmark goes on only after all of them have it.         *)
THEOREM ResultsCorrect == Spec => []OnlyValidResults
<1>1. ResultsInv => OnlyValidResults
    BY DEF ResultsInv, OnlyValidResults, BeforeResult, Delivered
<1>2. QED
    BY <1>1, ResultsInvariant, PTL

--------------------------------------------------------------------------------
(* The execution policies. *)

(* The labels of an operation before and after the policy has charged it.     *)
Measuring == {"afterOperationSetUp", "run", "beforeOperationTearDown"}
Measured  == {"tearDownAfterEach", "validate", "completed"} \cup ResultEvents

(* The policy is as its afterBenchmarkSetUp leaves it.                        *)
IsReset ==
    IF policy = "count" THEN countLimit = Limit ELSE elapsedCount = 0 /\ remaining > 0

(* The FixedOpCount policy: the limit is the same throughout, and an          *)
(* operation has been announced as the last one exactly if it is number       *)
(* Limit.                                                                     *)
CountInv ==
    /\ pc = "canExecute" =>
          /\ countLimit = Limit /\ op <= Limit
          /\ flagged = IF op = Limit THEN {op - 1} ELSE {}
    /\ pc = "setUpBeforeEach" => countLimit = Limit /\ op < Limit /\ flagged = {}
    /\ pc \in Measuring \cup Measured =>
          /\ countLimit = Limit /\ op < Limit
          /\ flagged = IF op + 1 = Limit THEN {op} ELSE {}

(* The time policies: elapsedCount is positive once the time is up, 1 in the  *)
(* operation that is announced as the last one and 2 after it.                *)
TimeInv ==
    /\ pc \in {"canExecute", "setUpBeforeEach"} \cup Measuring \cup Measured =>
          (elapsedCount = 0 <=> remaining > 0)
    /\ pc = "canExecute" =>
          IF elapsedCount = 2 THEN op > 0 /\ flagged = {op - 1} ELSE flagged = {}
    /\ pc = "setUpBeforeEach" => elapsedCount < 2 /\ flagged = {}
    /\ pc \in Measuring =>
          elapsedCount < 2 /\ flagged = IF elapsedCount = 1 THEN {op} ELSE {}
    /\ pc \in Measured => flagged = IF elapsedCount = 2 THEN {op} ELSE {}

(* Both kinds of policies, and the announcement at the regular end.           *)
PolicyInv ==
    /\ op \in Nat /\ duration \in Nat /\ countLimit \in Nat
    /\ elapsedCount \in 0 .. 2 /\ remaining \in Int
    /\ pc \in Fresh => op = 0 /\ flagged = {}
    /\ pc = "afterBenchmarkSetUp" /\ BuiltIn \notin Pending => IsReset
    /\ IF policy = "count" THEN CountInv ELSE TimeInv
    /\ pc = "beforeBenchmarkTearDown" /\ ~exception => op > 0 /\ flagged = {op - 1}

(* Notify methods of the other events leave the policy alone.                 *)
LEMMA NotifyPolicy ==
    ASSUME DispatchInv, PolicyInv, NEW event, NEW next, NEW handler,
           Notify(event, next, handler), event \notin PolicyEvents
    PROVE  /\ pc = event /\ UNCHANGED <<op, flagged, policyVars>> /\ duration' \in Nat
           /\ \/ pc' = event /\ UNCHANGED exception
              \/ pc' = next /\ UNCHANGED exception
              \/ pc' = handler /\ exception' = TRUE
<1>1. pc = event /\ Handle(Head(due), event) /\ UNCHANGED <<op, flagged>> /\ duration' \in Nat
    BY DEF Notify, PolicyInv
<1>2. Head(due) # BuiltIn
    <2>1. /\ due \in Seq(Listener) /\ (due # <<>> => Head(due) = due[1])
          /\ \A i \in 1 .. Len(due) : due[i] # BuiltIn
        BY <1>1 DEF DispatchInv, BuiltInPlace
    <2>2. due # <<>> => 1 \in 1 .. Len(due)
        BY <2>1, EmptySeq
    <2>3. CASE due # <<>>
        BY <2>1, <2>2, <2>3
    <2>4. CASE due = <<>>
        BY <2>4 DEF Notify
    <2>5. QED
        BY <2>3, <2>4
<1>3. UNCHANGED policyVars
    BY <1>1, <1>2 DEF Handle
<1>4. /\ \/ pc' = event /\ UNCHANGED exception
         \/ pc' = next /\ UNCHANGED exception
         \/ pc' = handler /\ exception' = TRUE
    BY NotifyControl DEF NoThrow, Throw
<1>5. QED
    BY <1>1, <1>3, <1>4

(* A step that leaves policy and announcements alone keeps the invariant, if  *)
(* it leads to no label that requires more.                                   *)
LEMMA PolicyKept ==
    ASSUME PolicyInv, UNCHANGED <<policy, op, flagged, policyVars>>, duration' \in Nat,
           pc' \in Fresh => pc \in Fresh,
           pc' = "afterBenchmarkSetUp" => BuiltIn \in Pending',
           pc' # "canExecute", pc' # "setUpBeforeEach",
           pc' \in Measuring => pc \in Measuring,
           pc' \in Measured => pc \in Measured,
           pc' = "beforeBenchmarkTearDown" => exception' = TRUE \/ (pc' = pc /\ UNCHANGED exception)
    PROVE  PolicyInv'
<1>1. /\ (op \in Nat /\ duration \in Nat /\ countLimit \in Nat)'
      /\ (elapsedCount \in 0 .. 2 /\ remaining \in Int)'
    BY DEF PolicyInv, policyVars
<1>2. (pc \in Fresh => op = 0 /\ flagged = {})'
    BY DEF PolicyInv
<1>3. (pc = "beforeBenchmarkTearDown" /\ ~exception => op > 0 /\ flagged = {op - 1})'
    BY DEF PolicyInv
<1>4. CASE policy = "count"
    <2>1. CountInv'
        BY <1>4 DEF PolicyInv, CountInv, policyVars
    <2>2. QED
        BY <1>1, <1>2, <1>3, <1>4, <2>1 DEF PolicyInv
<1>5. CASE policy # "count"
    <2>1. TimeInv'
        BY <1>5 DEF PolicyInv, TimeInv, policyVars
    <2>2. QED
        BY <1>1, <1>2, <1>3, <1>5, <2>1 DEF PolicyInv
<1>6. QED
    BY <1>4, <1>5

(* A new benchmark starts with operation 0 and nothing announced.             *)
LEMMA NextPolicy ==
    ASSUME PolicyInv, UNCHANGED policy, NextBenchmark PROVE PolicyInv'
<1>1. /\ pc' \in {"create", "beforeHarnessShutdown"}
      /\ op' = 0
      /\ duration' = 0
      /\ flagged' = {}
      /\ UNCHANGED policyVars
    BY DEF NextBenchmark, Enter
<1>2. /\ pc' \notin Measuring \cup Measured /\ pc' # "canExecute" /\ pc' # "setUpBeforeEach"
      /\ pc' # "afterBenchmarkSetUp" /\ pc' # "beforeBenchmarkTearDown"
    BY <1>1 DEF Measuring, Measured, ResultEvents
<1>3. QED
    BY <1>1, <1>2 DEF PolicyInv, CountInv, TimeInv, policyVars

(* When afterBenchmarkSetUp is dispatched, the policy has yet to hear of it.  *)
LEMMA SetUpPolicy ==
    ASSUME DispatchInv, PolicyInv, UNCHANGED <<policy, order>>, SetUpBeforeAll PROVE PolicyInv'
<1>1. /\ pc = "setUpBeforeAll" /\ UNCHANGED <<op, flagged, duration, policyVars>>
      /\ \/ pc' = "afterBenchmarkSetUp" /\ Enter("afterBenchmarkSetUp")
         \/ pc' = "afterBenchmarkTearDown"
    BY DEF SetUpBeforeAll, Call, Enter
<1>2. pc' = "afterBenchmarkSetUp" => BuiltIn \in Pending'
    <2>1. SUFFICES ASSUME Enter("afterBenchmarkSetUp") PROVE BuiltIn \in Pending'
        BY <1>1
    <2>2. "afterBenchmarkSetUp" \in PolicyEvents /\ "afterBenchmarkSetUp" \in Events
        BY DEF PolicyEvents, Events, ProtocolEvents, SetUpEvents
    <2>3. Pending' = Listener
        BY <2>1, <2>2, EnterProperties DEF DispatchInv, Waiting, Labels
    <2>4. QED
        BY <2>3, HarnessAssumption DEF Listener, BuiltIn
<1>3. duration' \in Nat
    BY <1>1 DEF PolicyInv
<1>4. QED
    BY <1>1, <1>2, <1>3, PolicyKept DEF Fresh, Measuring, Measured, ResultEvents

(* The policy is the first listener of afterBenchmarkSetUp, and so it is      *)
(* reset when the first operation is decided on, whatever it was left at by   *)
(* an earlier benchmark.                                                      *)
LEMMA ResetPolicyStep ==
    ASSUME DispatchInv, PolicyInv, UNCHANGED <<policy, order>>, AfterBenchmarkSetUp
    PROVE  PolicyInv'
<1>1. /\ "afterBenchmarkSetUp" \in Events
      /\ "canExecute" \in Labels
      /\ "tearDownAfterAll" \in Labels
    BY DEF Events, ProtocolEvents, SetUpEvents, Labels, Calls
<1>2. PICK l \in Pending :
        /\ Handle(l, "afterBenchmarkSetUp")
        /\ BuiltIn \in Pending => l = BuiltIn
        /\ \/ pc' = pc /\ Pending' = Pending \ {l}
           \/ pc' = "canExecute"
           \/ pc' = "tearDownAfterAll"
    BY <1>1, NotifyProperties DEF AfterBenchmarkSetUp
<1>3. pc = "afterBenchmarkSetUp" /\ UNCHANGED <<op, flagged, duration>>
    BY NotifyControl DEF AfterBenchmarkSetUp
<1>4. op = 0 /\ flagged = {}
    BY <1>3 DEF PolicyInv, Fresh
<1>5. IsReset'
    <2>1. CASE l = BuiltIn
        BY <1>2, <2>1, HarnessAssumption DEF Handle, ResetPolicy, IsReset
    <2>2. CASE l # BuiltIn
        <3>1. UNCHANGED policyVars /\ BuiltIn \notin Pending
            BY <1>2, <2>2 DEF Handle
        <3>2. IsReset
            BY <1>3, <3>1 DEF PolicyInv
        <3>3. QED
            BY <3>1, <3>2 DEF IsReset, policyVars
    <2>3. QED
        BY <2>1, <2>2
<1>6. (countLimit \in Nat /\ elapsedCount \in 0 .. 2 /\ remaining \in Int)'
    <2>1. CASE l = BuiltIn
        BY <1>2, <2>1, HarnessAssumption DEF Handle, ResetPolicy, PolicyInv
    <2>2. CASE l # BuiltIn
        <3>1. UNCHANGED policyVars
            BY <1>2, <2>2 DEF Handle
        <3>2. QED
            BY <3>1 DEF PolicyInv, policyVars
    <2>3. QED
        BY <2>1, <2>2
<1>7. /\ pc' \notin Measuring \cup Measured /\ pc' # "setUpBeforeEach"
      /\ pc' # "beforeBenchmarkTearDown"
    BY <1>2, <1>3 DEF Measuring, Measured, ResultEvents
<1>8. CASE policy = "count"
    <2>1. CountInv'
        BY <1>3, <1>4, <1>5, <1>7, <1>8, HarnessAssumption DEF CountInv, IsReset
    <2>2. QED
        BY <1>3, <1>4, <1>5, <1>6, <1>7, <1>8, <2>1 DEF PolicyInv
<1>9. CASE policy # "count"
    <2>1. TimeInv'
        BY <1>3, <1>4, <1>5, <1>7, <1>9 DEF TimeInv, IsReset
    <2>2. QED
        BY <1>3, <1>4, <1>5, <1>6, <1>7, <1>9, <2>1 DEF PolicyInv
<1>10. QED
    BY <1>8, <1>9

(* canExecute refuses exactly after the operation announced as the last.      *)
LEMMA ExecutePolicy == ASSUME PolicyInv, UNCHANGED policy, ExecuteOrNot PROVE PolicyInv'
<1>1. /\ pc = "canExecute" /\ UNCHANGED <<op, flagged, duration, policyVars, exception>>
      /\ pc' = IF CanExecute THEN "setUpBeforeEach" ELSE "beforeBenchmarkTearDown"
    BY DEF ExecuteOrNot, Enter, historyVars
<1>2. /\ pc' \notin Measuring \cup Measured \cup Fresh /\ pc' # "canExecute"
      /\ pc' # "afterBenchmarkSetUp"
    BY <1>1 DEF Measuring, Measured, ResultEvents, Fresh
<1>3. CASE policy = "count"
    <2>1. countLimit = Limit /\ op <= Limit /\ flagged = IF op = Limit THEN {op - 1} ELSE {}
        BY <1>1, <1>3 DEF PolicyInv, CountInv
    <2>2. CASE op < Limit
        <3>1. pc' = "setUpBeforeEach" /\ flagged = {}
            BY <1>1, <1>3, <2>1, <2>2, HarnessAssumption DEF CanExecute, PolicyInv
        <3>2. QED
            BY <1>1, <1>2, <1>3, <2>1, <2>2, <3>1 DEF PolicyInv, CountInv, policyVars
    <2>3. CASE op = Limit
        <3>1. pc' = "beforeBenchmarkTearDown" /\ flagged = {op - 1} /\ op > 0
            BY <1>1, <1>3, <2>1, <2>3, HarnessAssumption DEF CanExecute, PolicyInv
        <3>2. QED
            BY <1>1, <1>2, <1>3, <2>1, <3>1 DEF PolicyInv, CountInv, policyVars
    <2>4. QED
        BY <2>1, <2>2, <2>3, HarnessAssumption DEF PolicyInv
<1>4. CASE policy # "count"
    <2>1. /\ elapsedCount \in 0 .. 2 /\ (elapsedCount = 0 <=> remaining > 0)
          /\ IF elapsedCount = 2 THEN op > 0 /\ flagged = {op - 1} ELSE flagged = {}
        BY <1>1, <1>4 DEF PolicyInv, TimeInv
    <2>2. CASE elapsedCount = 2
        <3>1. pc' = "beforeBenchmarkTearDown" /\ flagged = {op - 1} /\ op > 0
            BY <1>1, <1>4, <2>1, <2>2 DEF CanExecute
        <3>2. QED
            BY <1>1, <1>2, <1>4, <2>1, <3>1 DEF PolicyInv, TimeInv, policyVars
    <2>3. CASE elapsedCount # 2
        <3>1. pc' = "setUpBeforeEach" /\ flagged = {} /\ elapsedCount < 2
            BY <1>1, <1>4, <2>1, <2>3 DEF CanExecute
        <3>2. QED
            BY <1>1, <1>2, <1>4, <2>1, <3>1 DEF PolicyInv, TimeInv, policyVars
    <2>4. QED
        BY <2>2, <2>3
<1>5. QED
    BY <1>3, <1>4

(* isLast announces the operation that canExecute will refuse to follow.      *)
LEMMA AnnouncePolicy == ASSUME PolicyInv, UNCHANGED policy, SetUpBeforeEach PROVE PolicyInv'
<1>1. /\ pc = "setUpBeforeEach" /\ UNCHANGED <<op, duration, policyVars>>
      /\ \/ pc' = "afterOperationSetUp"
         \/ pc' = "beforeBenchmarkTearDown" /\ exception' = TRUE
      /\ flagged' = IF IsLast /\ pc' = "afterOperationSetUp" THEN flagged \cup {op} ELSE flagged
    BY CallControl DEF SetUpBeforeEach, Aborted, Throw
<1>2. /\ pc' \notin Measured \cup Fresh /\ pc' # "canExecute" /\ pc' # "setUpBeforeEach"
      /\ pc' # "afterBenchmarkSetUp"
      /\ pc' \in Measuring <=> pc' = "afterOperationSetUp"
    BY <1>1 DEF Measuring, Measured, ResultEvents, Fresh
<1>3. CASE policy = "count"
    <2>1. countLimit = Limit /\ op < Limit /\ flagged = {}
        BY <1>1, <1>3 DEF PolicyInv, CountInv
    <2>2. pc' = "afterOperationSetUp" => flagged' = IF op + 1 = Limit THEN {op} ELSE {}
        BY <1>1, <1>3, <2>1 DEF IsLast
    <2>3. CountInv'
        BY <1>1, <1>2, <2>1, <2>2 DEF CountInv, policyVars
    <2>4. QED
        BY <1>1, <1>2, <1>3, <2>3 DEF PolicyInv, policyVars
<1>4. CASE policy # "count"
    <2>1. (elapsedCount = 0 <=> remaining > 0) /\ elapsedCount < 2 /\ flagged = {}
        BY <1>1, <1>4 DEF PolicyInv, TimeInv
    <2>2. pc' = "afterOperationSetUp" => flagged' = IF elapsedCount = 1 THEN {op} ELSE {}
        BY <1>1, <1>4, <2>1 DEF IsLast
    <2>3. TimeInv'
        BY <1>1, <1>2, <2>1, <2>2 DEF TimeInv, policyVars
    <2>4. QED
        BY <1>1, <1>2, <1>4, <2>3 DEF PolicyInv, policyVars
<1>5. QED
    BY <1>3, <1>4

(* The policy is the last listener of beforeOperationTearDown, so that an     *)
(* operation goes on to its tear down only when it has been charged, once.    *)
LEMMA ChargePolicyStep ==
    ASSUME DispatchInv, PolicyInv, UNCHANGED <<policy, order>>, BeforeOperationTearDown
    PROVE  PolicyInv'
<1>1. /\ "beforeOperationTearDown" \in Events
      /\ "tearDownAfterEach" \in Labels
      /\ Aborted \in Labels
    BY DEF Events, ProtocolEvents, TearDownEvents, Labels, Calls, Aborted
<1>2. PICK l \in Pending :
        /\ Handle(l, "beforeOperationTearDown")
        /\ BuiltIn \in Pending /\ (l = BuiltIn => Pending = {BuiltIn})
        /\ \/ pc' = pc /\ Pending' = Pending \ {l} /\ Pending' # {}
           \/ Pending = {l} /\ pc' = "tearDownAfterEach"
           \/ l # BuiltIn /\ pc' = Aborted /\ Throw(TRUE)
    BY <1>1, NotifyProperties DEF BeforeOperationTearDown
<1>3. pc = "beforeOperationTearDown" /\ UNCHANGED <<op, flagged, duration>>
    BY NotifyControl DEF BeforeOperationTearDown
<1>4. /\ duration \in Nat
      /\ op \in Nat
      /\ elapsedCount \in 0 .. 2
      /\ remaining \in Int
      /\ countLimit \in Nat
    BY DEF PolicyInv
<1>5. CASE l # BuiltIn
    <2>1. pc' = pc \/ (pc' = Aborted /\ exception' = TRUE)
        <3>1. Pending # {l}
            BY <1>2, <1>5
        <3>2. pc' = pc \/ (pc' = Aborted /\ Throw(TRUE))
            BY <1>2, <3>1
        <3>3. QED
            BY <3>2 DEF Throw
    <2>2. UNCHANGED policyVars
        BY <1>2, <1>5 DEF Handle
    <2>3. QED
        BY <1>3, <1>4, <2>1, <2>2, PolicyKept
        DEF Fresh, Measuring, Measured, ResultEvents, Aborted
<1>6. CASE l = BuiltIn
    <2>1. pc' = "tearDownAfterEach" /\ ChargePolicy
        BY <1>2, <1>6 DEF Handle
    <2>2. /\ pc' \in Measured /\ pc' \notin Measuring \cup Fresh /\ pc' # "canExecute"
          /\ pc' # "setUpBeforeEach" /\ pc' # "afterBenchmarkSetUp"
          /\ pc' # "beforeBenchmarkTearDown"
        BY <2>1 DEF Measuring, Measured, ResultEvents, Fresh
    <2>3. pc \in Measuring
        BY <1>3 DEF Measuring
    <2>4. CASE policy = "count"
        <3>1. UNCHANGED policyVars
            BY <2>1, <2>4 DEF ChargePolicy
        <3>2. CountInv'
            BY <1>3, <2>2, <2>3, <2>4, <3>1 DEF PolicyInv, CountInv, policyVars
        <3>3. QED
            BY <1>3, <1>4, <2>2, <2>4, <3>1, <3>2 DEF PolicyInv, policyVars
    <2>5. CASE policy # "count"
        <3>1. PICK overhead \in 0 .. 1 :
                /\ remaining' = remaining - duration - overhead
                /\ elapsedCount' = elapsedCount + IF remaining' <= 0 THEN 1 ELSE 0
                /\ UNCHANGED countLimit
            BY <2>1, <2>5 DEF ChargePolicy
        <3>2. /\ elapsedCount = 0 <=> remaining > 0
              /\ elapsedCount < 2 /\ flagged = IF elapsedCount = 1 THEN {op} ELSE {}
            BY <2>3, <2>5 DEF PolicyInv, TimeInv
        <3>3. remaining' \in Int /\ remaining' <= remaining
            BY <1>4, <3>1
        <3>4. CASE elapsedCount = 0
            <4>1. /\ elapsedCount' \in 0 .. 1 /\ (elapsedCount' = 0 <=> remaining' > 0)
                  /\ flagged = {}
                BY <3>1, <3>2, <3>3, <3>4
            <4>2. TimeInv'
                BY <1>3, <2>2, <4>1 DEF TimeInv
            <4>3. QED
                BY <1>3, <1>4, <2>2, <2>5, <3>1, <3>3, <4>1, <4>2 DEF PolicyInv
        <3>5. CASE elapsedCount = 1
            <4>1. elapsedCount' = 2 /\ ~ (remaining' > 0) /\ flagged = {op}
                BY <1>4, <3>1, <3>2, <3>3, <3>5
            <4>2. TimeInv'
                BY <1>3, <2>2, <4>1 DEF TimeInv
            <4>3. QED
                BY <1>3, <1>4, <2>2, <2>5, <3>1, <3>3, <4>1, <4>2 DEF PolicyInv
        <3>6. QED
            BY <1>4, <3>2, <3>4, <3>5
    <2>6. QED
        BY <2>4, <2>5
<1>7. QED
    BY <1>5, <1>6

(* The next operation gets the next index.                                    *)
LEMMA CompletedPolicy == ASSUME PolicyInv, UNCHANGED policy, Completed PROVE PolicyInv'
<1>1. /\ pc = "completed" /\ pc' = "canExecute" /\ op' = op + 1 /\ duration' = 0
      /\ UNCHANGED <<flagged, policyVars>>
    BY DEF Completed, Enter, historyVars
<1>2. pc \in Measured /\ pc' \notin Measuring \cup Measured \cup Fresh /\ op \in Nat
    BY <1>1 DEF Measuring, Measured, ResultEvents, Fresh, PolicyInv
<1>3. op' \in Nat /\ op' > 0 /\ op' - 1 = op
    BY <1>1, <1>2
<1>4. CASE policy = "count"
    <2>1. countLimit = Limit /\ op < Limit /\ flagged = IF op + 1 = Limit THEN {op} ELSE {}
        BY <1>2, <1>4 DEF PolicyInv, CountInv
    <2>2. op' <= Limit /\ flagged' = IF op' = Limit THEN {op' - 1} ELSE {}
        BY <1>1, <1>2, <1>3, <2>1, HarnessAssumption
    <2>3. CountInv'
        BY <1>1, <1>2, <2>1, <2>2 DEF CountInv, policyVars
    <2>4. QED
        BY <1>1, <1>2, <1>3, <1>4, <2>3 DEF PolicyInv, policyVars
<1>5. CASE policy # "count"
    <2>1. TimeInv'
        BY <1>1, <1>2, <1>3, <1>5 DEF PolicyInv, TimeInv, policyVars
    <2>2. QED
        BY <1>1, <1>2, <1>3, <1>5, <2>1 DEF PolicyInv, policyVars
<1>6. QED
    BY <1>4, <1>5

(* PolicyInv holds in every reachable state, for all three policies and every *)
(* limit.                                                                     *)
THEOREM PolicyInvariant == Spec => []PolicyInv
<1>1. Init => PolicyInv
    <2>1. ASSUME Init PROVE PolicyInv
        <3>1. /\ pc = "afterHarnessInit"
              /\ op = 0
              /\ duration = 0
              /\ flagged = {}
              /\ countLimit = 0
              /\ elapsedCount = 0 /\ remaining = 0
            BY <2>1 DEF Init
        <3>2. /\ pc \notin Measuring \cup Measured \cup Fresh
            BY <3>1 DEF Measuring, Measured, ResultEvents, Fresh
        <3>3. QED
            BY <3>1, <3>2 DEF PolicyInv, CountInv, TimeInv
    <2>2. QED
        BY <2>1
<1>2. DispatchInv /\ PolicyInv /\ [Next]_vars => PolicyInv'
    <2>1. SUFFICES ASSUME DispatchInv, PolicyInv, [Next]_vars PROVE PolicyInv'
        OBVIOUS
    <2>2. UNCHANGED <<policy, order>>
        BY <2>1 DEF Next, configVars, vars
    <2>3. CASE UNCHANGED vars
        BY <2>1, <2>3 DEF PolicyInv, CountInv, TimeInv, IsReset, vars, policyVars, Pending
    <2>4. CASE AfterHarnessInit
        <3>1. "afterHarnessInit" \notin PolicyEvents
            BY DEF PolicyEvents
        <3>2. /\ pc = "afterHarnessInit"
              /\ pc' \in {"afterHarnessInit", "nextBenchmark", "crash"}
              /\ UNCHANGED <<op, flagged, policyVars>> /\ duration' \in Nat
            BY <2>1, <2>4, <3>1, NotifyPolicy DEF AfterHarnessInit
        <3>3. QED
            BY <2>1, <2>2, <3>2, PolicyKept
            DEF Fresh, Measuring, Measured, ResultEvents, policyVars
    <2>5. CASE NextBenchmark
        BY <2>1, <2>2, <2>5, NextPolicy
    <2>6. CASE Create
        <3>1. pc = "create" /\ pc' \in {"beforeBenchmarkSetUp", "failed"}
            BY <2>6, CallControl DEF Create, Throw
        <3>2. UNCHANGED <<op, flagged, policyVars>> /\ duration' \in Nat
            BY <2>1, <2>6 DEF Create, historyVars, PolicyInv
        <3>3. QED
            BY <2>1, <2>2, <3>1, <3>2, PolicyKept
            DEF Fresh, Measuring, Measured, ResultEvents, policyVars
    <2>7. CASE OnBenchmarkFailure
        <3>1. "onBenchmarkFailure" \notin PolicyEvents
            BY DEF PolicyEvents
        <3>2. /\ pc = "onBenchmarkFailure" /\ pc' \in {"onBenchmarkFailure", "failed"}
              /\ UNCHANGED <<op, flagged, policyVars>> /\ duration' \in Nat
            BY <2>1, <2>7, <3>1, NotifyPolicy DEF OnBenchmarkFailure
        <3>3. QED
            BY <2>1, <2>2, <3>2, PolicyKept
            DEF Fresh, Measuring, Measured, ResultEvents, policyVars
    <2>8. CASE Failed
        <3>1. /\ pc = "failed" /\ pc' = "nextBenchmark"
              /\ UNCHANGED <<op, flagged, policyVars>> /\ duration' \in Nat
            BY <2>1, <2>8 DEF Failed, Enter, historyVars, PolicyInv
        <3>2. QED
            BY <2>1, <2>2, <3>1, PolicyKept
            DEF Fresh, Measuring, Measured, ResultEvents, policyVars
    <2>9. CASE BeforeBenchmarkSetUp
        <3>1. "beforeBenchmarkSetUp" \notin PolicyEvents
            BY DEF PolicyEvents
        <3>2. /\ pc = "beforeBenchmarkSetUp"
              /\ pc' \in {"beforeBenchmarkSetUp", "setUpBeforeAll", "onBenchmarkFailure"}
              /\ UNCHANGED <<op, flagged, policyVars>> /\ duration' \in Nat
            BY <2>1, <2>9, <3>1, NotifyPolicy DEF BeforeBenchmarkSetUp
        <3>3. QED
            BY <2>1, <2>2, <3>2, PolicyKept
            DEF Fresh, Measuring, Measured, ResultEvents, policyVars
    <2>10. CASE SetUpBeforeAll
        BY <2>1, <2>2, <2>10, SetUpPolicy
    <2>11. CASE AfterBenchmarkSetUp
        BY <2>1, <2>2, <2>11, ResetPolicyStep
    <2>12. CASE ExecuteOrNot
        BY <2>1, <2>2, <2>12, ExecutePolicy
    <2>13. CASE BeforeBenchmarkTearDown
        <3>1. "beforeBenchmarkTearDown" \notin PolicyEvents
            BY DEF PolicyEvents
        <3>2. /\ pc = "beforeBenchmarkTearDown"
              /\ ((pc' = pc /\ UNCHANGED exception) \/ pc' = "tearDownAfterAll")
              /\ UNCHANGED <<op, flagged, policyVars>> /\ duration' \in Nat
            BY <2>1, <2>13, <3>1, NotifyPolicy DEF BeforeBenchmarkTearDown, NoThrow
        <3>3. QED
            BY <2>1, <2>2, <3>2, PolicyKept
            DEF Fresh, Measuring, Measured, ResultEvents, policyVars
    <2>14. CASE TearDownAfterAll
        <3>1. pc = "tearDownAfterAll" /\ pc' = "afterBenchmarkTearDown"
            BY <2>14, CallControl DEF TearDownAfterAll, Throw
        <3>2. UNCHANGED <<op, flagged, policyVars>> /\ duration' \in Nat
            BY <2>1, <2>14 DEF TearDownAfterAll, historyVars, PolicyInv
        <3>3. QED
            BY <2>1, <2>2, <3>1, <3>2, PolicyKept
            DEF Fresh, Measuring, Measured, ResultEvents, policyVars
    <2>15. CASE AfterBenchmarkTearDown
        <3>1. "afterBenchmarkTearDown" \notin PolicyEvents
            BY DEF PolicyEvents
        <3>2. /\ pc = "afterBenchmarkTearDown"
              /\ pc' \in {"afterBenchmarkTearDown", "onBenchmarkFailure", "nextBenchmark"}
              /\ UNCHANGED <<op, flagged, policyVars>> /\ duration' \in Nat
            BY <2>1, <2>15, <3>1, NotifyPolicy DEF AfterBenchmarkTearDown
        <3>3. QED
            BY <2>1, <2>2, <3>2, PolicyKept
            DEF Fresh, Measuring, Measured, ResultEvents, policyVars
    <2>16. CASE SetUpBeforeEach
        BY <2>1, <2>2, <2>16, AnnouncePolicy
    <2>17. CASE AfterOperationSetUp
        <3>1. "afterOperationSetUp" \notin PolicyEvents
            BY DEF PolicyEvents
        <3>2. /\ pc = "afterOperationSetUp"
              /\ (pc' \in {"afterOperationSetUp",
                           "run"} \/ (pc' = Aborted /\ exception' = TRUE))
              /\ UNCHANGED <<op, flagged, policyVars>> /\ duration' \in Nat
            BY <2>1, <2>17, <3>1, NotifyPolicy DEF AfterOperationSetUp, Aborted
        <3>3. QED
            BY <2>1, <2>2, <3>2, PolicyKept
            DEF Fresh, Measuring, Measured, ResultEvents, policyVars, Aborted
    <2>18. CASE Run
        <3>1. /\ pc = "run"
              /\ (pc' = "beforeOperationTearDown" \/ (pc' = Aborted /\ exception' = TRUE))
            BY <2>18, CallControl DEF Run, Throw, Aborted
        <3>2. UNCHANGED <<op, flagged, policyVars>> /\ duration' \in Nat
            BY <2>1, <2>18 DEF Run, historyVars
        <3>3. QED
            BY <2>1, <2>2, <3>1, <3>2, PolicyKept
            DEF Fresh, Measuring, Measured, ResultEvents, policyVars, Aborted
    <2>19. CASE BeforeOperationTearDown
        BY <2>1, <2>2, <2>19, ChargePolicyStep
    <2>20. CASE TearDownAfterEach
        <3>1. /\ pc = "tearDownAfterEach"
              /\ (pc' = "validate" \/ (pc' = Aborted /\ exception' = TRUE))
            BY <2>20, CallControl DEF TearDownAfterEach, Throw, Aborted
        <3>2. UNCHANGED <<op, flagged, policyVars>> /\ duration' \in Nat
            BY <2>1, <2>20 DEF TearDownAfterEach, historyVars, PolicyInv
        <3>3. QED
            BY <2>1, <2>2, <3>1, <3>2, PolicyKept
            DEF Fresh, Measuring, Measured, ResultEvents, policyVars, Aborted
    <2>21. CASE Validate
        <3>1. pc = "validate" /\ (pc' = "uptime_ns" \/ (pc' = Aborted /\ exception' = TRUE))
            BY <2>21, CallControl DEF Validate, Throw, Aborted
        <3>2. UNCHANGED <<op, flagged, policyVars>> /\ duration' \in Nat
            BY <2>1, <2>21 DEF Validate, historyVars, PolicyInv
        <3>3. QED
            BY <2>1, <2>2, <3>1, <3>2, PolicyKept
            DEF Fresh, Measuring, Measured, ResultEvents, policyVars, Aborted
    <2>22. CASE UptimeResult
        <3>1. "uptime_ns" \notin PolicyEvents
            BY DEF PolicyEvents
        <3>2. /\ pc = "uptime_ns"
              /\ (pc' \in {"uptime_ns", "duration_ns"} \/ (pc' = Aborted /\ exception' = TRUE))
              /\ UNCHANGED <<op, flagged, policyVars>> /\ duration' \in Nat
            BY <2>1, <2>22, <3>1, NotifyPolicy DEF UptimeResult, Aborted
        <3>3. QED
            BY <2>1, <2>2, <3>2, PolicyKept
            DEF Fresh, Measuring, Measured, ResultEvents, policyVars, Aborted
    <2>23. CASE DurationResult
        <3>1. "duration_ns" \notin PolicyEvents
            BY DEF PolicyEvents
        <3>2. /\ pc = "duration_ns"
              /\ (pc' \in {"duration_ns",
                           "onMeasurementResultsRequested"} \/ (pc' = Aborted /\ exception' = TRUE))
              /\ UNCHANGED <<op, flagged, policyVars>> /\ duration' \in Nat
            BY <2>1, <2>23, <3>1, NotifyPolicy DEF DurationResult, Aborted
        <3>3. QED
            BY <2>1, <2>2, <3>2, PolicyKept
            DEF Fresh, Measuring, Measured, ResultEvents, policyVars, Aborted
    <2>24. CASE RequestedResults
        <3>1. "onMeasurementResultsRequested" \notin PolicyEvents
            BY DEF PolicyEvents
        <3>2. /\ pc = "onMeasurementResultsRequested"
              /\ (pc' \in {"onMeasurementResultsRequested",
                           "completed"} \/ (pc' = Aborted /\ exception' = TRUE))
              /\ UNCHANGED <<op, flagged, policyVars>> /\ duration' \in Nat
            BY <2>1, <2>24, <3>1, NotifyPolicy DEF RequestedResults, Aborted
        <3>3. QED
            BY <2>1, <2>2, <3>2, PolicyKept
            DEF Fresh, Measuring, Measured, ResultEvents, policyVars, Aborted
    <2>25. CASE Completed
        BY <2>1, <2>2, <2>25, CompletedPolicy
    <2>26. CASE BeforeHarnessShutdown
        <3>1. "beforeHarnessShutdown" \notin PolicyEvents
            BY DEF PolicyEvents
        <3>2. /\ pc = "beforeHarnessShutdown"
              /\ pc' \in {"beforeHarnessShutdown", "end", "crash"}
              /\ UNCHANGED <<op, flagged, policyVars>> /\ duration' \in Nat
            BY <2>1, <2>26, <3>1, NotifyPolicy DEF BeforeHarnessShutdown
        <3>3. QED
            BY <2>1, <2>2, <3>2, PolicyKept
            DEF Fresh, Measuring, Measured, ResultEvents, policyVars
    <2>27. QED
        BY <2>1, <2>3, <2>4, <2>5, <2>6, <2>7, <2>8, <2>9, <2>10, <2>11, <2>12, <2>13, <2>14,
           <2>15, <2>16, <2>17, <2>18, <2>19, <2>20, <2>21, <2>22, <2>23, <2>24, <2>25, <2>26
        DEF Next
<1>3. QED
    BY <1>1, <1>2, DispatchInvariant, PTL DEF Spec

(* LastIsLast: a benchmark that ends by itself has executed at least one      *)
(* operation, and announced as the last one exactly its last one.             *)
THEOREM LastCorrect == Spec => []LastIsLast
<1>1. PolicyInv => LastIsLast
    BY DEF PolicyInv, LastIsLast
<1>2. QED
    BY <1>1, PolicyInvariant, PTL

--------------------------------------------------------------------------------
(* Types. *)

(* The index of an operation that is announced, and the number of exceptions, *)
(* keep their types.                                                          *)
LEMMA BoundsStep ==
    ASSUME op \in Nat, flagged \subseteq Nat, throws \in 0 .. MaxThrows, [Next]_vars
    PROVE  flagged' \subseteq Nat /\ throws' \in 0 .. MaxThrows
<1>1. NoThrow => throws' \in 0 .. MaxThrows
    BY DEF NoThrow
<1>2. ASSUME NEW byPlugin, Throw(byPlugin) PROVE throws' \in 0 .. MaxThrows
    BY <1>2, HarnessAssumption DEF Throw
<1>3. CASE UNCHANGED vars
    BY <1>3 DEF vars
<1>4. CASE \/ AfterHarnessInit \/ OnBenchmarkFailure \/ BeforeBenchmarkSetUp \/ AfterBenchmarkSetUp
           \/ BeforeBenchmarkTearDown \/ AfterBenchmarkTearDown \/ AfterOperationSetUp
           \/ BeforeOperationTearDown \/ UptimeResult \/ DurationResult \/ RequestedResults
           \/ BeforeHarnessShutdown
    <2>1. ASSUME NEW event, NEW next, NEW handler, Notify(event, next, handler)
          PROVE  flagged' \subseteq Nat /\ throws' \in 0 .. MaxThrows
        BY <1>1, <1>2, <2>1, NotifyControl
    <2>2. QED
        BY <1>4, <2>1 DEF AfterHarnessInit, OnBenchmarkFailure, BeforeBenchmarkSetUp,
            AfterBenchmarkSetUp, BeforeBenchmarkTearDown, AfterBenchmarkTearDown,
            AfterOperationSetUp, BeforeOperationTearDown, UptimeResult, DurationResult,
            RequestedResults, BeforeHarnessShutdown
<1>5. CASE \/ Create \/ SetUpBeforeAll \/ TearDownAfterAll \/ Run \/ TearDownAfterEach \/ Validate
           \/ SetUpBeforeEach
    <2>1. ASSUME NEW method, NEW next, NEW handler, Call(method, next, handler)
          PROVE  throws' \in 0 .. MaxThrows
        BY <1>1, <1>2, <2>1, CallControl
    <2>2. throws' \in 0 .. MaxThrows
        BY <1>5, <2>1 DEF Create, SetUpBeforeAll, TearDownAfterAll, Run, TearDownAfterEach,
            Validate, SetUpBeforeEach
    <2>3. flagged' = flagged \/ flagged' = flagged \cup {op}
        BY <1>5 DEF Create, SetUpBeforeAll, TearDownAfterAll, Run, TearDownAfterEach,
            Validate, SetUpBeforeEach, historyVars
    <2>4. QED
        BY <2>2, <2>3
<1>6. CASE NextBenchmark \/ Failed \/ ExecuteOrNot \/ Completed
    BY <1>6 DEF NextBenchmark, Failed, ExecuteOrNot, Completed, historyVars
<1>7. QED
    BY <1>3, <1>4, <1>5, <1>6 DEF Next

(* TypeOK: all variables of the harness keep their types.                     *)
THEOREM TypeCorrect == Spec => []TypeOK
<1> DEFINE Bounds == policy \in Policies /\ flagged \subseteq Nat /\ throws \in 0 .. MaxThrows
           Known == DispatchInv /\ AccountInv /\ PolicyInv /\ StageInv /\ ResultsInv /\ ReadyInv
<1>1. Init => Bounds
    BY HarnessAssumption DEF Init
<1>2. PolicyInv /\ Bounds /\ [Next]_vars => Bounds'
    <2>1. SUFFICES ASSUME PolicyInv, Bounds, [Next]_vars PROVE Bounds'
        OBVIOUS
    <2>2. UNCHANGED policy
        BY <2>1 DEF Next, configVars, vars
    <2>3. op \in Nat
        BY <2>1 DEF PolicyInv
    <2>4. QED
        BY <2>1, <2>2, <2>3, BoundsStep
<1>3. Known /\ Bounds => TypeOK
    <2>1. SUFFICES ASSUME Known, Bounds PROVE TypeOK
        OBVIOUS
    <2>2. order \in RegistrationOrders /\ due \in Seq(Listener)
          /\ pc \in Events \cup Calls \cup {"end", "crash"}
        BY <2>1 DEF DispatchInv, Labels
    <2>3. /\ bench \in 0 .. NumBenchmarks /\ exception \in BOOLEAN
          /\ failedBenchmarks \in Seq(Benchmark) /\ struck \subseteq Benchmark
        BY <2>1 DEF AccountInv
    <2>4. /\ op \in Nat /\ duration \in Nat
          /\ countLimit \in Nat /\ elapsedCount \in 0 .. 2 /\ remaining \in Int
        BY <2>1 DEF PolicyInv
    <2>5. /\ stage \in [Plugin -> {"none"} \cup ProtocolEvents] /\ pluginThrew \in BOOLEAN
          /\ results \in [Plugin -> Nat] /\ valid \in Nat /\ ready \in BOOLEAN
        BY <2>1 DEF StageInv, ResultsInv, ReadyInv
    <2>6. QED
        BY <2>1, <2>2, <2>3, <2>4, <2>5 DEF TypeOK
<1>4. Spec => []Known
    BY DispatchInvariant, AccountInvariant, PolicyInvariant, StageInvariant, ResultsInvariant,
       ReadyInvariant, PTL
<1> HIDE DEF Bounds
<1>5. QED
    BY <1>1, <1>2, <1>3, <1>4, PolicyInvariant, PTL DEF Spec

================================================================================
