------------------------------ MODULE Harness ------------------------------
(***************************************************************************)
(* The execution of the selected benchmarks: RenaissanceSuite.runBenchmarks *)
(* with ExecutionDriver.executeBenchmark and executeOperation, which call  *)
(* the benchmark and notify the plugins through EventDispatcher, and the   *)
(* built-in execution policies.                                            *)
(*                                                                         *)
(* Every call of a benchmark method or of a plugin's listener is a step,   *)
(* and may throw.  Listener 0 is the built-in policy, registered before    *)
(* the external plugins 1..NumPlugins, which listen to all events and are  *)
(* numbered in the order they have on the command line.                    *)
(***************************************************************************)
EXTENDS Integers, Sequences, SequencesExt

CONSTANTS NumBenchmarks,  \* benchmarks selected on the command line
          NumPlugins,     \* external plugins, in command line order
          Policies,       \* built-in policies to choose from
          Limit,          \* -r <count>, or -t/-o <seconds> in units of time
          MaxThrows       \* bound: exceptions thrown in one execution

ASSUME HarnessAssumption ==
  /\ NumBenchmarks \in Nat
  /\ NumPlugins \in Nat \ {0}
  /\ Policies \subseteq {"count", "opTime", "time"}
  /\ Limit \in Nat \ {0}
  /\ MaxThrows \in Nat

Benchmark == 1..NumBenchmarks
Plugin    == 1..NumPlugins
BuiltIn   == 0
Listener  == 0..NumPlugins

VARIABLES
  policy,     \* the policy in use, and the order in which the external plugins
  order,      \* are registered: neither changes once the benchmarks run
  pc,         \* the event being dispatched, or the call to be made
  due,        \* listeners the current event has yet to reach
  bench, op,  \* current benchmark; index of its next operation
  duration,   \* measured duration of the operation
  exception,  \* is an exception propagating out of executeBenchmark?
  failedBenchmarks,
  countLimit, elapsedCount, remaining,   \* fields of the policies
  stage,      \* history: the last protocol event each plugin has seen
  results,    \* history: duration_ns values each plugin has of this benchmark
  valid,      \* history: valid operations of this benchmark
  flagged,    \* history: its operations announced as the last one
  ready,      \* history: setUpBeforeAll has succeeded, tearDownAfterAll not run
  struck,     \* history: benchmarks in which something has thrown
  throws,     \* exceptions so far
  pluginThrew \* has one of them come from a plugin?

configVars  == <<policy, order>>
policyVars  == <<countLimit, elapsedCount, remaining>>
historyVars == <<results, valid, flagged, ready>>
vars == <<policy, order, pc, due, bench, op, duration, exception, failedBenchmarks, countLimit,
          elapsedCount, remaining, stage, results, valid, flagged, ready, struck,
          throws, pluginThrew>>

SetUpEvents    == {"afterHarnessInit", "beforeBenchmarkSetUp", "afterBenchmarkSetUp",
                   "afterOperationSetUp"}
TearDownEvents == {"beforeHarnessShutdown", "afterBenchmarkTearDown",
                   "beforeBenchmarkTearDown", "beforeOperationTearDown"}
ProtocolEvents == SetUpEvents \cup TearDownEvents \cup {"onBenchmarkFailure"}
ResultEvents   == {"uptime_ns", "duration_ns", "onMeasurementResultsRequested"}
Events         == ProtocolEvents \cup ResultEvents
PolicyEvents   == {"afterBenchmarkSetUp", "beforeOperationTearDown"}

Calls == {"nextBenchmark", "create", "setUpBeforeAll", "canExecute",
          "setUpBeforeEach", "run", "tearDownAfterEach", "validate", "completed",
          "tearDownAfterAll", "failed"}

(* loadExternalPlugins collects the plugins in an immutable Map, whose     *)
(* values are registered in the Map's iteration order: insertion order up  *)
(* to four entries, an order of hash codes beyond.                         *)
RegistrationOrders ==
  {s \in [Plugin -> Plugin] : IF NumPlugins <= 4 THEN \A i \in Plugin : s[i] = i
                             ELSE \A i, j \in Plugin : s[i] = s[j] => i = j}

TypeOK ==
  /\ policy \in Policies
  /\ order \in RegistrationOrders
  /\ pc \in Events \cup Calls \cup {"end", "crash"}
  /\ due \in Seq(Listener)
  /\ bench \in 0..NumBenchmarks
  /\ op \in Nat /\ duration \in Nat
  /\ exception \in BOOLEAN
  /\ failedBenchmarks \in Seq(Benchmark)
  /\ countLimit \in Nat /\ elapsedCount \in 0..2 /\ remaining \in Int
  /\ stage \in [Plugin -> {"none"} \cup ProtocolEvents]
  /\ results \in [Plugin -> Nat] /\ valid \in Nat
  /\ flagged \subseteq Nat
  /\ ready \in BOOLEAN
  /\ struck \subseteq Benchmark
  /\ throws \in 0..MaxThrows
  /\ pluginThrew \in BOOLEAN

-----------------------------------------------------------------------------
(* EventDispatcher.Builder: every listener list in its order.              *)

\* Faulty: tear down events are appended like all others.
Listeners_Appended(event) ==
  CASE event \notin Events       -> <<>>
    [] event \in PolicyEvents    -> <<BuiltIn>> \o order
    [] OTHER                     -> order

\* withPlugin appends to the lists of most events and prepends to those of the
\* tear down events; the policy comes first.
Listeners(event) ==
  LET registered == IF event \in PolicyEvents
                    THEN <<BuiltIn>> \o order
                    ELSE order
  IN  CASE event \notin Events        -> <<>>
        [] event \in TearDownEvents   -> Reverse(registered)
        [] OTHER                      -> registered

Enter(label) == pc' = label /\ due' = Listeners(label)

Init ==
  /\ policy \in Policies
  /\ order \in RegistrationOrders
  /\ pc = "afterHarnessInit" /\ due = Listeners("afterHarnessInit")
  /\ bench = 0 /\ op = 0 /\ duration = 0
  /\ exception = FALSE
  /\ failedBenchmarks = <<>>
  /\ countLimit = 0 /\ elapsedCount = 0 /\ remaining = 0
  /\ stage = [p \in Plugin |-> "none"]
  /\ results = [p \in Plugin |-> 0] /\ valid = 0
  /\ flagged = {}
  /\ ready = FALSE
  /\ struck = {}
  /\ throws = 0 /\ pluginThrew = FALSE

-----------------------------------------------------------------------------
(* What a listener does with an event, and the throwing of exceptions.     *)

\* Faulty: the count of operations past the time limit is not reset.
ResetPolicy_KeepsCount ==
  IF policy = "count"
  THEN countLimit' = Limit /\ UNCHANGED <<elapsedCount, remaining>>
  ELSE remaining' = Limit /\ UNCHANGED <<elapsedCount, countLimit>>

\* The policies' afterBenchmarkSetUp.
ResetPolicy ==
  IF policy = "count"
  THEN countLimit' = Limit /\ UNCHANGED <<elapsedCount, remaining>>
  ELSE remaining' = Limit /\ elapsedCount' = 0 /\ UNCHANGED countLimit

\* The policies' beforeOperationTearDown: FixedOpTime counts the time of the
\* operations, FixedTime that of the listeners and of the harness too.
ChargePolicy ==
  IF policy = "count"
  THEN UNCHANGED policyVars
  ELSE \E overhead \in IF policy = "time" THEN 0..1 ELSE {0} :
         /\ remaining' = remaining - duration - overhead
         /\ elapsedCount' = elapsedCount + IF remaining' <= 0 THEN 1 ELSE 0
         /\ UNCHANGED countLimit

\* Faulty: the time policies allow two operations past the limit.
CanExecute_TwoMore == IF policy = "count" THEN op < countLimit ELSE elapsedCount <= 2

CanExecute == IF policy = "count" THEN op < countLimit ELSE elapsedCount <= 1
IsLast     == IF policy = "count" THEN op + 1 = countLimit ELSE elapsedCount = 1

Handle(l, event) ==
  /\ CASE l # BuiltIn -> UNCHANGED policyVars
       [] l = BuiltIn /\ event = "afterBenchmarkSetUp" -> ResetPolicy
       [] OTHER -> ChargePolicy
  /\ stage' = IF l \in Plugin /\ event \in ProtocolEvents
              THEN [stage EXCEPT ![l] = event] ELSE stage
  /\ results' = IF l \in Plugin /\ event = "duration_ns"
                THEN [results EXCEPT ![l] = @ + 1] ELSE results

NoThrow == UNCHANGED <<throws, struck, pluginThrew, exception>>

Throw(byPlugin) ==
  /\ throws < MaxThrows
  /\ throws' = throws + 1
  /\ struck' = IF pc \in {"afterHarnessInit", "beforeHarnessShutdown"}
               THEN struck ELSE struck \cup {bench}
  /\ pluginThrew' = (pluginThrew \/ byPlugin)
  /\ exception' = TRUE

\* A notify method: the listeners in order, until one throws.  Control goes on
\* at label `next` or, with an exception, at label `handler`.
Notify(event, next, handler) ==
  /\ pc = event
  /\ Handle(Head(due), event)
  /\ \/ /\ Len(due) > 1
        /\ due' = Tail(due) /\ UNCHANGED pc /\ NoThrow
     \/ /\ Len(due) = 1
        /\ Enter(next) /\ NoThrow
     \/ /\ Head(due) # BuiltIn
        /\ Enter(handler) /\ Throw(TRUE)
  /\ UNCHANGED <<bench, op, duration, failedBenchmarks, valid, flagged, ready>>

\* A call of a method of the benchmark.
Call(method, next, handler) ==
  /\ pc = method
  /\ \/ Enter(next) /\ NoThrow
     \/ Enter(handler) /\ Throw(FALSE)

-----------------------------------------------------------------------------
(* RenaissanceSuite.runBenchmarks.                                         *)

\* An exception of a listener here ends the program.
AfterHarnessInit == Notify("afterHarnessInit", "nextBenchmark", "crash")

NextBenchmark ==
  /\ pc = "nextBenchmark"
  /\ IF bench = NumBenchmarks
     THEN Enter("beforeHarnessShutdown") /\ UNCHANGED bench
     ELSE Enter("create") /\ bench' = bench + 1
  /\ op' = 0 /\ duration' = 0 /\ exception' = FALSE
  /\ results' = [p \in Plugin |-> 0] /\ valid' = 0 /\ flagged' = {}
  /\ UNCHANGED <<failedBenchmarks, policyVars, stage, ready, struck, throws, pluginThrew>>

\* ExecutionDriver.create: no listener is told when it fails.
Create ==
  /\ Call("create", "beforeBenchmarkSetUp", "failed")
  /\ UNCHANGED <<bench, op, duration, failedBenchmarks, policyVars, stage, historyVars>>

\* Faulty: nobody catches a listener's exception.
OnBenchmarkFailure_Uncaught == Notify("onBenchmarkFailure", "failed", "crash")

\* A listener's exception is caught like a failure to load the benchmark.
OnBenchmarkFailure == Notify("onBenchmarkFailure", "failed", "failed")

Failed ==
  /\ pc = "failed"
  /\ failedBenchmarks' = Append(failedBenchmarks, bench)
  /\ Enter("nextBenchmark")
  /\ UNCHANGED <<bench, op, duration, exception, policyVars, stage, historyVars,
                 struck, throws, pluginThrew>>

BeforeHarnessShutdown == Notify("beforeHarnessShutdown", "end", "crash")

-----------------------------------------------------------------------------
(* ExecutionDriver.executeBenchmark: the handlers are its finally blocks.  *)

BeforeBenchmarkSetUp ==
  Notify("beforeBenchmarkSetUp", "setUpBeforeAll", "onBenchmarkFailure")

\* Faulty: when it fails, the tear down of the operations is run as well.
SetUpBeforeAll_TornDown ==
  /\ Call("setUpBeforeAll", "afterBenchmarkSetUp", "beforeBenchmarkTearDown")
  /\ ready' = (pc' = "afterBenchmarkSetUp")
  /\ UNCHANGED <<bench, op, duration, failedBenchmarks, policyVars, stage, results,
                 valid, flagged>>

SetUpBeforeAll ==
  /\ Call("setUpBeforeAll", "afterBenchmarkSetUp", "afterBenchmarkTearDown")
  /\ ready' = (pc' = "afterBenchmarkSetUp")
  /\ UNCHANGED <<bench, op, duration, failedBenchmarks, policyVars, stage, results,
                 valid, flagged>>

AfterBenchmarkSetUp ==
  Notify("afterBenchmarkSetUp", "canExecute", "tearDownAfterAll")

ExecuteOrNot ==
  /\ pc = "canExecute"
  /\ Enter(IF CanExecute THEN "setUpBeforeEach" ELSE "beforeBenchmarkTearDown")
  /\ UNCHANGED <<bench, op, duration, exception, failedBenchmarks, policyVars, stage,
                 historyVars, struck, throws, pluginThrew>>

\* Faulty: tearDownAfterAll is not in a finally block of its own.
BeforeBenchmarkTearDown_Skips ==
  Notify("beforeBenchmarkTearDown", "tearDownAfterAll", "afterBenchmarkTearDown")

BeforeBenchmarkTearDown ==
  Notify("beforeBenchmarkTearDown", "tearDownAfterAll", "tearDownAfterAll")

TearDownAfterAll ==
  /\ Call("tearDownAfterAll", "afterBenchmarkTearDown", "afterBenchmarkTearDown")
  /\ ready' = FALSE
  /\ UNCHANGED <<bench, op, duration, failedBenchmarks, policyVars, stage, results,
                 valid, flagged>>

\* Faulty: an exception of the last finally block is swallowed.
AfterBenchmarkTearDown_Swallows ==
  Notify("afterBenchmarkTearDown",
         IF exception THEN "onBenchmarkFailure" ELSE "nextBenchmark",
         "nextBenchmark")

AfterBenchmarkTearDown ==
  Notify("afterBenchmarkTearDown",
         IF exception THEN "onBenchmarkFailure" ELSE "nextBenchmark",
         "onBenchmarkFailure")

-----------------------------------------------------------------------------
(* ExecutionDriver.executeOperation: every exception leaves it and reaches *)
(* the innermost finally block of executeBenchmark.                        *)

Aborted == "beforeBenchmarkTearDown"

SetUpBeforeEach ==
  /\ Call("setUpBeforeEach", "afterOperationSetUp", Aborted)
  /\ flagged' = IF IsLast /\ pc' = "afterOperationSetUp"
                THEN flagged \cup {op} ELSE flagged
  /\ UNCHANGED <<bench, op, duration, failedBenchmarks, policyVars, stage, results,
                 valid, ready>>

AfterOperationSetUp == Notify("afterOperationSetUp", "run", Aborted)

Run ==
  /\ Call("run", "beforeOperationTearDown", Aborted)
  /\ duration' \in 1..2
  /\ UNCHANGED <<bench, op, failedBenchmarks, policyVars, stage, historyVars>>

BeforeOperationTearDown ==
  Notify("beforeOperationTearDown", "tearDownAfterEach", Aborted)

\* Faulty: the results are dispatched before the result is validated.
TearDownAfterEach_Unvalidated ==
  /\ Call("tearDownAfterEach", "uptime_ns", Aborted)
  /\ UNCHANGED <<bench, op, duration, failedBenchmarks, policyVars, stage, historyVars>>

TearDownAfterEach ==
  /\ Call("tearDownAfterEach", "validate", Aborted)
  /\ UNCHANGED <<bench, op, duration, failedBenchmarks, policyVars, stage, historyVars>>

Validate ==
  /\ Call("validate", "uptime_ns", Aborted)
  /\ valid' = IF pc' = "uptime_ns" THEN valid + 1 ELSE valid
  /\ UNCHANGED <<bench, op, duration, failedBenchmarks, policyVars, stage, results,
                 flagged, ready>>

UptimeResult     == Notify("uptime_ns", "duration_ns", Aborted)
DurationResult   == Notify("duration_ns", "onMeasurementResultsRequested", Aborted)
RequestedResults == Notify("onMeasurementResultsRequested", "completed", Aborted)

Completed ==
  /\ pc = "completed"
  /\ op' = op + 1 /\ duration' = 0
  /\ Enter("canExecute")
  /\ UNCHANGED <<bench, exception, failedBenchmarks, policyVars, stage, historyVars,
                 struck, throws, pluginThrew>>

-----------------------------------------------------------------------------
Next ==
  /\ UNCHANGED configVars
  /\ \/ AfterHarnessInit \/ NextBenchmark \/ Create \/ OnBenchmarkFailure \/ Failed
     \/ BeforeBenchmarkSetUp \/ SetUpBeforeAll \/ AfterBenchmarkSetUp \/ ExecuteOrNot
     \/ BeforeBenchmarkTearDown \/ TearDownAfterAll \/ AfterBenchmarkTearDown
     \/ SetUpBeforeEach \/ AfterOperationSetUp \/ Run \/ BeforeOperationTearDown
     \/ TearDownAfterEach \/ Validate \/ UptimeResult \/ DurationResult
     \/ RequestedResults \/ Completed \/ BeforeHarnessShutdown

\* The main thread keeps running.
Spec == Init /\ [][Next]_vars /\ WF_vars(Next)

-----------------------------------------------------------------------------
(* Properties.                                                             *)

(* Each plugin sees the events in the order Plugin.java and plugins.md     *)
(* promise, whatever the benchmarks throw and until a plugin throws.       *)
Protocol == INSTANCE PluginProtocol WITH excused <- pluginThrew
PluginsSeeProtocol == Protocol!Spec

\* How many levels of set up a plugin has seen that were not torn down.
Depth(p) ==
  CASE stage[p] \in {"none", "beforeHarnessShutdown"} -> 0
    [] stage[p] \in {"afterHarnessInit", "afterBenchmarkTearDown",
                     "onBenchmarkFailure"} -> 1
    [] stage[p] \in {"beforeBenchmarkSetUp", "beforeBenchmarkTearDown"} -> 2
    [] stage[p] \in {"afterBenchmarkSetUp", "beforeOperationTearDown"} -> 3
    [] stage[p] = "afterOperationSetUp" -> 4

(* README: "plugins specified earlier will 'wrap' plugins specified later":*)
(* at any moment an earlier plugin is set up if a later one is, also while *)
(* the events of an aborted operation or benchmark unwind.                 *)
EarlierPluginsWrap ==
  ~pluginThrew => \A p, q \in Plugin : p < q => Depth(p) >= Depth(q)

(* tearDownAfterAll is called exactly for the benchmarks whose             *)
(* setUpBeforeAll succeeded, whatever throws in between (the comment       *)
(* "Complement the setUpBeforeAll() benchmark invocation").                *)
SetUpIsTornDown ==
  /\ pc = "tearDownAfterAll" => ready
  /\ pc \in {"nextBenchmark", "onBenchmarkFailure", "failed", "end"} => ~ready

(* Every benchmark in which anything has thrown, in a finally block or in  *)
(* a failure listener too, ends up in failedBenchmarks, once and in order, *)
(* and no other does.                                                      *)
FailuresAccounted ==
  /\ \A i, j \in DOMAIN failedBenchmarks :
       i < j => failedBenchmarks[i] < failedBenchmarks[j]
  /\ pc = "nextBenchmark" => ToSet(failedBenchmarks) = struck

(* Plugin.java:135: measurement results are only delivered for valid       *)
(* operations; and a benchmark that goes on has delivered them all.        *)
OnlyValidResults ==
  /\ \A p \in Plugin : results[p] <= valid
  /\ pc = "canExecute" => \A p \in Plugin : results[p] = valid /\ valid = op

(* The operation announced as the last one is the last one executed, and   *)
(* the policies announce one in every benchmark that ends by itself.       *)
LastIsLast ==
  (pc = "beforeBenchmarkTearDown" /\ ~exception) => op > 0 /\ flagged = {op - 1}

(* The run comes to an end, and every benchmark gets its turn: only an     *)
(* exception in a listener of a harness event ends the program early.      *)
RunEnds ==
  <>(\/ pc = "end"
     \/ pc = "crash" /\ \E p \in Plugin :
                          stage[p] \in {"afterHarnessInit", "beforeHarnessShutdown"})

=============================================================================
