--------------------------- MODULE ResultWriter ---------------------------
(***************************************************************************)
(* How Renaissance saves its measurement results: the result writers of    *)
(* ResultWriter.scala (one thread of the main program and one JVM shutdown *)
(* hook per writer), the part of RenaissanceSuite.scala that feeds them,   *)
(* and the JVM's shutdown sequence they rely on.                           *)
(*                                                                         *)
(* Thread 0 is the main thread; thread w > 0 is the shutdown hook          *)
(* (FlushOnShutdownThread) of writer w.  Writers, benchmarks and metrics   *)
(* are numbered in the order the harness visits them.                      *)
(***************************************************************************)
EXTENDS Integers, FiniteSets

CONSTANTS NumWriters,     \* configured writers: CSV first, then JSON
          NumBenchmarks,  \* benchmarks selected on the command line
          NumMetrics,     \* metrics: the two built-in ones, then those of plugins
          Reps,           \* Reps[b]: operation counts the policy may allow for b
          Signals,        \* may the user or the system terminate the JVM?
          FailureKinds,   \* which of AllFailures the environment may inject
          MaxTrouble,     \* bound: kinds of trouble in one execution
          MaxOverlap      \* bound: lists the main thread extends during one read

(* What may go wrong besides a signal: a benchmark fails to load, or in    *)
(* one of its phases; a plugin throws when it publishes results or is told *)
(* of one, when it is told that a benchmark failed, or when it is told     *)
(* that the harness starts or ends; a result file cannot be opened or      *)
(* written.                                                                *)
AllFailures == {"load", "operation", "result", "failure", "listener", "io"}

ASSUME ConfigAssumption ==
  /\ NumWriters \in Nat \ {0}
  /\ NumBenchmarks \in Nat
  /\ NumMetrics \in Nat /\ NumMetrics >= 2
  /\ Reps \in [1..NumBenchmarks -> SUBSET (Nat \ {0})]
  /\ Signals \in BOOLEAN
  /\ FailureKinds \subseteq AllFailures
  /\ MaxTrouble \in Nat /\ MaxOverlap \in Nat \ {0}

Main      == 0
Writer    == 1..NumWriters
Thread    == 0..NumWriters
Nobody    == -1
Benchmark == 1..NumBenchmarks
Metric    == 1..NumMetrics

VARIABLES
  jvm,        \* "running", "hooks" (shutdown hooks are running), "halted"
  hooked,     \* writers whose shutdown hook is registered
  pc,         \* what each thread does next
  monitor,    \* owner of each writer's monitor
  bench, rep, metric,  \* main: current benchmark, its completed operations, metric
  cur,        \* main: writer being notified
  failures,   \* main: did any benchmark fail?
  counts,     \* counts[w][b][m]: values writer w holds of metric m of b
  failed,     \* failed[w]: benchmarks writer w was told have failed
  seen,       \* seen[t]: sizes of the value lists thread t has read
  saved,      \* saved[w]: sizes of the value lists in w's formatted output
  file,       \* "absent", "partial" or the kind of termination it records
  trouble     \* environment events so far (a subset of AllFailures and "signal")

jvmVars  == <<jvm, hooked>>
mainVars == <<bench, rep, metric, cur, failures>>
dataVars == <<counts, failed>>
fileVars == <<seen, saved, file>>
vars == <<jvm, hooked, pc, monitor, bench, rep, metric, cur, failures, counts,
          failed, seen, saved, file, trouble>>

Sizes == [Benchmark -> [Metric -> Nat]]
NoSizes == [b \in Benchmark |-> [m \in Metric |-> 0]]

HarnessPC == {"init", "op", "deliver", "failing", "return"}
StorePC   == {"lock", "remove", "check", "scan", "format", "open", "write"}
EndPC     == {"idle", "exit", "blocked", "done"}

TypeOK ==
  /\ jvm \in {"running", "hooks", "halted"}
  /\ hooked \subseteq Writer
  /\ pc \in [Thread -> HarnessPC \cup StorePC \cup EndPC]
  /\ monitor \in [Writer -> Thread \cup {Nobody}]
  /\ bench \in 1..(NumBenchmarks + 1)
  /\ rep \in Nat
  /\ metric \in Metric
  /\ cur \in Writer
  /\ failures \in BOOLEAN
  /\ counts \in [Writer -> Sizes]
  /\ failed \in [Writer -> SUBSET Benchmark]
  /\ seen \in [Thread -> Sizes]
  /\ saved \in [Writer -> Sizes]
  /\ file \in [Writer -> {"absent", "partial", "normal", "forced"}]
  /\ trouble \subseteq AllFailures \cup {"signal"}

Init ==
  /\ jvm = "running"
  /\ hooked = Writer
  /\ pc = [t \in Thread |-> IF t = Main THEN "init" ELSE "idle"]
  /\ monitor = [w \in Writer |-> Nobody]
  /\ bench = 1 /\ rep = 0 /\ metric = 1 /\ cur = 1
  /\ failures = FALSE
  /\ counts = [w \in Writer |-> NoSizes]
  /\ failed = [w \in Writer |-> {}]
  /\ seen = [t \in Thread |-> NoSizes]
  /\ saved = [w \in Writer |-> NoSizes]
  /\ file = [w \in Writer |-> "absent"]
  /\ trouble = {}

-----------------------------------------------------------------------------
(* Helpers.                                                                *)

Goto(t, label) == pc' = [pc EXCEPT ![t] = label]

\* Something goes wrong, unless that would exceed the bound.
Trouble(kind) ==
  /\ trouble' = trouble \cup {kind}
  /\ Cardinality(trouble') <= MaxTrouble

Failure(kind) == kind \in FailureKinds /\ Trouble(kind)

\* The result writer whose storeResults() thread t executes.
Target(t) == IF t = Main THEN cur ELSE t

\* The lists a size vector stands for: a metric that was never reported has none.
Lists(s) == {k \in Benchmark \X Metric : s[k[1]][k[2]] > 0}

\* checkBenchmarkResults: all metric lists of all benchmarks have one size.
Consistent(s) == \A k, l \in Lists(s) : s[k[1]][k[2]] = s[l[1]][l[2]]

\* formatResults/getResultData index every list of a benchmark up to the
\* longest one, and fail on a shorter list.
Formattable(s) ==
  \A b \in Benchmark : \A m, n \in Metric :
    (s[b][m] > 0 /\ s[b][n] > 0) => s[b][m] = s[b][n]

\* The lists that have grown since thread t began to read them.
Grown(t) ==
  {k \in Benchmark \X Metric : seen[t][k[1]][k[2]] # counts[Target(t)][k[1]][k[2]]}

(* A read of the value lists is not atomic and not synchronized with the   *)
(* main thread, which may be adding values: of each list it gets a size    *)
(* between the one when the read began and the one when it ends.           *)
Reads(t) ==
  LET low(k) == seen[t][k[1]][k[2]]
      now(k) == counts[Target(t)][k[1]][k[2]]
      picks  == {p \in [Grown(t) -> UNION {low(k)..now(k) : k \in Grown(t)}] :
                   \A k \in Grown(t) : p[k] \in low(k)..now(k)}
  IN  {[b \in Benchmark |-> [m \in Metric |->
          IF <<b, m>> \in Grown(t) THEN p[<<b, m>>] ELSE now(<<b, m>>)]] : p \in picks}

(* The lists whose map entry the main thread has added since thread t      *)
(* began to read, or is adding: t may find the entry without a value yet   *)
(* (or the benchmark's entry without a metric).                            *)
Emerging(t) ==
  {k \in Benchmark \X Metric :
     /\ seen[t][k[1]][k[2]] = 0
     /\ \/ counts[Target(t)][k[1]][k[2]] > 0
        \/ t # Main /\ pc[Main] = "deliver" /\ cur = t /\ k = <<bench, metric>>}

\* What the sanity check of thread t may find when it reads sizes s: an emerging
\* list may count as one of size 0.
Verdicts(t, s) ==
  {Consistent(s)} \cup
  IF Lists(s) # {} /\ \E k \in Emerging(t) : k \notin Lists(s) THEN {FALSE} ELSE {}

-----------------------------------------------------------------------------
(* RenaissanceSuite.runBenchmarks, in the main thread.                     *)

\* afterHarnessInit listeners; an exception ends up in Launcher's System.exit.
AfterHarnessInit ==
  /\ pc[Main] = "init"
  /\ \/ Goto(Main, "op") /\ UNCHANGED trouble
     \/ Goto(Main, "exit") /\ Failure("listener")
  /\ UNCHANGED <<jvm, hooked, monitor, bench, rep, metric, cur, failures, counts,
                 failed, seen, saved, file>>

\* The benchmark cannot be created: the writers are not told.
LoadFails ==
  /\ pc[Main] = "op" /\ bench \in Benchmark /\ rep = 0
  /\ Failure("load")
  /\ bench' = bench + 1
  /\ failures' = TRUE
  /\ UNCHANGED <<jvm, hooked, pc, monitor, rep, metric, cur, counts, failed,
                 seen, saved, file>>

\* An operation ran and its result is valid: its metrics are dispatched next.
Operation ==
  /\ pc[Main] = "op" /\ bench \in Benchmark
  /\ \E n \in Reps[bench] : rep < n
  /\ Goto(Main, "deliver")
  /\ metric' = 1 /\ cur' = 1
  /\ UNCHANGED <<jvm, hooked, monitor, bench, rep, failures, counts, failed,
                 seen, saved, file, trouble>>

\* Set up, an operation, its validation or a tear down throws.
BenchmarkFails ==
  /\ pc[Main] = "op" /\ bench \in Benchmark
  /\ Failure("operation")
  /\ Goto(Main, "failing")
  /\ cur' = 1
  /\ UNCHANGED <<jvm, hooked, monitor, bench, rep, metric, failures, counts, failed,
                 seen, saved, file>>

\* The policy ends the benchmark.
BenchmarkDone ==
  /\ pc[Main] = "op" /\ bench \in Benchmark
  /\ rep \in Reps[bench]
  /\ bench' = bench + 1 /\ rep' = 0
  /\ UNCHANGED <<jvm, hooked, pc, monitor, metric, cur, failures, counts, failed,
                 seen, saved, file, trouble>>

\* Faulty: the last writer is not recognised as the last one.
Dispatched_OffByOne(last) ==
  IF cur <= NumWriters
  THEN cur' = cur + 1 /\ UNCHANGED <<pc, bench, rep, metric, failures>>
  ELSE cur' = 1 /\ last

\* Faulty: only the first writer gets the event.
Dispatched_FirstOnly(last) == cur' = 1 /\ last

\* The dispatch of an event to the writers, one after the other: what the main
\* thread does once writer cur has handled it (and `last` once all of them have).
Dispatched(last) ==
  IF cur < NumWriters
  THEN cur' = cur + 1 /\ UNCHANGED <<pc, bench, rep, metric, failures>>
  ELSE cur' = 1 /\ last

\* After a metric: the next metric, or the end of the operation.
MetricDone ==
  /\ IF metric < NumMetrics
     THEN metric' = metric + 1 /\ UNCHANGED <<rep, pc>>
     ELSE metric' = 1 /\ rep' = rep + 1 /\ Goto(Main, "op")
  /\ UNCHANGED <<bench, failures>>

\* onMeasurementResult of writer cur (in no synchronized block).
Deliver ==
  /\ pc[Main] = "deliver"
  /\ pc[cur] \in {"scan", "format"} => Cardinality(Grown(cur)) < MaxOverlap
  /\ counts' = [counts EXCEPT ![cur][bench][metric] = @ + 1]
  /\ Dispatched(MetricDone)
  /\ UNCHANGED <<jvm, hooked, monitor, failed, seen, saved, file, trouble>>

\* A plugin's MeasurementResultListener, which is told before the writers, throws, or a
\* MeasurementResultPublisher before it publishes one of its metrics.
PluginThrows ==
  /\ pc[Main] = "deliver" /\ cur = 1
  /\ Failure("result")
  /\ Goto(Main, "failing")
  /\ UNCHANGED <<jvm, hooked, monitor, bench, rep, metric, cur, failures, counts,
                 failed, seen, saved, file>>

\* After a failure notification: on to the next benchmark.
BenchmarkFailed ==
  /\ Goto(Main, "op")
  /\ bench' = bench + 1 /\ rep' = 0 /\ metric' = 1
  /\ failures' = TRUE

\* onBenchmarkFailure of writer cur.
NotifyFailure ==
  /\ pc[Main] = "failing"
  /\ failed' = [failed EXCEPT ![cur] = @ \cup {bench}]
  /\ Dispatched(BenchmarkFailed)
  /\ UNCHANGED <<jvm, hooked, monitor, counts, seen, saved, file, trouble>>

\* A plugin's BenchmarkFailureListener throws: the writers, which come later, are not
\* told.  The benchmark counts as one that failed to load.
FailureListenerThrows ==
  /\ pc[Main] = "failing" /\ cur = 1
  /\ Failure("failure")
  /\ BenchmarkFailed
  /\ UNCHANGED <<jvm, hooked, monitor, cur, dataVars, fileVars>>

\* notifyBeforeHarnessShutdown: the plugins' listeners come before the writers.
HarnessShutdown ==
  /\ pc[Main] = "op" /\ bench = NumBenchmarks + 1
  /\ \/ Goto(Main, "lock") /\ UNCHANGED trouble
     \/ Goto(Main, "exit") /\ Failure("listener")
  /\ UNCHANGED <<jvm, hooked, monitor, mainVars, dataVars, fileVars>>

\* runBenchmarks returned: sys.exit(1) if a benchmark failed, else main returns.
Return ==
  /\ pc[Main] = "return"
  /\ Goto(Main, IF failures THEN "exit" ELSE "done")
  /\ UNCHANGED <<jvm, hooked, monitor, mainVars, dataVars, fileVars, trouble>>

-----------------------------------------------------------------------------
(* ResultWriter.storeResults, by the main thread (normal termination, for  *)
(* one writer after the other) and by the shutdown hooks (forced).         *)

Release(w) == monitor' = [monitor EXCEPT ![w] = Nobody]

\* Faulty: the shutdown event reaches only the first writer.
Stored_FirstOnly(t) ==
  /\ Release(Target(t))
  /\ Goto(t, IF t = Main THEN "return" ELSE "done")
  /\ UNCHANGED mainVars

\* storeResults returns: main goes on with the next writer, a hook is finished.
Stored(t) ==
  /\ Release(Target(t))
  /\ IF t = Main
     THEN IF cur < NumWriters
          THEN cur' = cur + 1 /\ Goto(t, "lock")
          ELSE cur' = 1 /\ Goto(t, "return")
     ELSE Goto(t, "done") /\ UNCHANGED cur
  /\ UNCHANGED <<bench, rep, metric, failures>>

\* storeResults throws: Launcher exits the JVM for main, a hook just dies.
Thrown(t) ==
  /\ Release(Target(t))
  /\ Goto(t, IF t = Main THEN "exit" ELSE "done")
  /\ UNCHANGED mainVars

Lock(t) ==
  /\ pc[t] = "lock"
  /\ monitor[Target(t)] = Nobody
  /\ monitor' = [monitor EXCEPT ![Target(t)] = t]
  /\ Goto(t, IF t = Main THEN "remove" ELSE "check")
  /\ UNCHANGED <<jvm, hooked, mainVars, dataVars, fileVars, trouble>>

\* Faulty: the exception of removeShutdownHook is ignored.
RemoveHook_Tolerant ==
  /\ pc[Main] = "remove"
  /\ hooked' = IF jvm = "running" THEN hooked \ {cur} ELSE hooked
  /\ Goto(Main, "check")
  /\ UNCHANGED <<jvm, monitor, mainVars, dataVars, fileVars, trouble>>

\* Faulty: the hook stays registered during the sanity check and store().
RemoveHook_Late ==
  /\ pc[Main] = "remove"
  /\ Goto(Main, "check")
  /\ UNCHANGED <<jvm, hooked, monitor, mainVars, dataVars, fileVars, trouble>>

\* Runtime.removeShutdownHook throws IllegalStateException once the JVM is
\* shutting down.
RemoveHook ==
  /\ pc[Main] = "remove"
  /\ \/ /\ jvm = "running"
        /\ hooked' = hooked \ {cur}
        /\ Goto(Main, "check")
        /\ UNCHANGED <<monitor, mainVars>>
     \/ /\ jvm # "running"
        /\ Thrown(Main)
        /\ UNCHANGED hooked
  /\ UNCHANGED <<jvm, dataVars, fileVars, trouble>>

\* checkBenchmarkResults starts to read the lists.
CheckBegin(t) ==
  /\ pc[t] = "check"
  /\ seen' = [seen EXCEPT ![t] = counts[Target(t)]]
  /\ Goto(t, "scan")
  /\ UNCHANGED <<jvm, hooked, monitor, mainVars, dataVars, saved, file, trouble>>

\* The verdict: store, or sys.exit(1) with the monitor held.
CheckEnd(t) ==
  /\ pc[t] = "scan"
  /\ \E s \in Reads(t) : \E verdict \in Verdicts(t, s) :
       Goto(t, IF verdict THEN "format" ELSE "exit")
  /\ seen' = [seen EXCEPT ![t] = counts[Target(t)]]
  /\ UNCHANGED <<jvm, hooked, monitor, mainVars, dataVars, saved, file, trouble>>

\* Faulty: a list that is too short is padded instead of failing.
Format_Padded(t) ==
  /\ pc[t] = "format"
  /\ \E s \in Reads(t) : saved' = [saved EXCEPT ![Target(t)] = s]
  /\ Goto(t, "open")
  /\ seen' = [seen EXCEPT ![t] = NoSizes]
  /\ UNCHANGED <<jvm, hooked, monitor, mainVars, dataVars, file, trouble>>

\* store() formats the lists, which it reads again.
Format(t) ==
  /\ pc[t] = "format"
  /\ \E s \in Reads(t) :
       \/ /\ Formattable(s)
          /\ saved' = [saved EXCEPT ![Target(t)] = s]
          /\ Goto(t, "open")
          /\ UNCHANGED <<monitor, mainVars>>
       \/ /\ ~Formattable(s) \/ \E k \in Emerging(t) : k \notin Lists(s)
          /\ Thrown(t)
          /\ UNCHANGED saved
  /\ seen' = [seen EXCEPT ![t] = NoSizes]
  /\ UNCHANGED <<jvm, hooked, dataVars, file, trouble>>

\* writeToFile opens the file, which truncates it.
Open(t) ==
  /\ pc[t] = "open"
  /\ \/ /\ file' = [file EXCEPT ![Target(t)] = "partial"]
        /\ Goto(t, "write")
        /\ UNCHANGED <<monitor, mainVars, trouble>>
     \/ /\ Failure("io")
        /\ Thrown(t)
        /\ UNCHANGED file
  /\ UNCHANGED <<jvm, hooked, dataVars, seen, saved>>

\* writeToFile writes and closes the file.
Write(t) ==
  /\ pc[t] = "write"
  /\ \/ /\ file' = [file EXCEPT ![Target(t)] = IF t = Main THEN "normal" ELSE "forced"]
        /\ Stored(t)
        /\ UNCHANGED trouble
     \/ /\ Failure("io")
        /\ Thrown(t)
        /\ UNCHANGED file
  /\ UNCHANGED <<jvm, hooked, dataVars, seen, saved>>

-----------------------------------------------------------------------------
(* The JVM: Runtime.exit, signals, DestroyJavaVM and the shutdown hooks.   *)

\* The JVM starts the registered hooks; threads otherwise are where pcs says.
StartHooks(pcs) ==
  /\ jvm' = "hooks"
  /\ pc' = [t \in Thread |-> IF t \in hooked THEN "lock" ELSE pcs[t]]

\* Runtime.exit never returns: it runs the hooks or, when they already run,
\* blocks for as long as they do.
Exit(t) ==
  /\ pc[t] = "exit"
  /\ \/ jvm = "running" /\ StartHooks([pc EXCEPT ![t] = "blocked"])
     \/ jvm = "hooks" /\ Goto(t, "blocked") /\ UNCHANGED jvm
  /\ UNCHANGED <<hooked, monitor, mainVars, dataVars, fileVars, trouble>>

\* The main thread has ended (the benchmarks left no other non-daemon thread).
DestroyJavaVM ==
  /\ jvm = "running" /\ pc[Main] = "done"
  /\ StartHooks(pc)
  /\ UNCHANGED <<hooked, monitor, mainVars, dataVars, fileVars, trouble>>

\* Ctrl-C or SIGTERM.
Signal ==
  /\ Signals /\ jvm = "running"
  /\ StartHooks(pc)
  /\ Trouble("signal")
  /\ UNCHANGED <<hooked, monitor, mainVars, dataVars, fileVars>>

\* All the hooks that were started have ended.
Halt ==
  /\ jvm = "hooks"
  /\ \A w \in Writer : pc[w] \in {"idle", "done"}
  /\ jvm' = "halted"
  /\ UNCHANGED <<hooked, pc, monitor, mainVars, dataVars, fileVars, trouble>>

-----------------------------------------------------------------------------
StoreStep(t) ==
  \/ Lock(t) \/ CheckBegin(t) \/ CheckEnd(t) \/ Format(t) \/ Open(t) \/ Write(t)
  \/ Exit(t)

MainStep ==
  \/ AfterHarnessInit \/ LoadFails \/ Operation \/ BenchmarkFails \/ BenchmarkDone
  \/ Deliver \/ PluginThrows \/ NotifyFailure \/ FailureListenerThrows
  \/ HarnessShutdown \/ Return \/ RemoveHook

Next ==
  /\ jvm # "halted"
  /\ \/ MainStep
     \/ \E t \in Thread : StoreStep(t)
     \/ DestroyJavaVM \/ Signal \/ Halt

\* Every thread keeps running and so does the JVM's shutdown; nothing makes a
\* signal or a failure happen.
Fairness ==
  /\ WF_vars(jvm # "halted" /\ (MainStep \/ StoreStep(Main)))
  /\ \A w \in Writer : WF_vars(jvm # "halted" /\ StoreStep(w))
  /\ WF_vars(jvm # "halted" /\ (DestroyJavaVM \/ Halt))

Spec == Init /\ [][Next]_vars /\ Fairness

-----------------------------------------------------------------------------
(* Properties.                                                             *)

Complete(w) == file[w] \in {"normal", "forced"}

(* What the comment in storeResults asks of its synchronized block and of  *)
(* removeShutdownHook: the hook never overwrites the results the main      *)
(* thread has written, nor does any later store replace a finished file.   *)
FinishedFileIsFinal ==
  [][\A w \in Writer : Complete(w) => file'[w] = file[w] /\ saved'[w] = saved[w]]_vars

(* Whatever a hook reads while the main thread is still adding values, a   *)
(* finished file has, for each benchmark, one value of every metric it     *)
(* reports for every repetition, and no more of them than were measured.   *)
FinishedFileIsRectangular ==
  \A w \in Writer : Complete(w) =>
    /\ Formattable(saved[w])
    /\ \A b \in Benchmark, m \in Metric : saved[w][b][m] <= counts[w][b][m]

(* A file that says "normal" termination has every measurement the harness *)
(* dispatched, passes the sanity check, and all such files agree.          *)
NormalFilesAgree ==
  \A w \in Writer : file[w] = "normal" =>
    /\ Consistent(saved[w])
    /\ \A v \in Writer : saved[w] = counts[v] /\ failed[v] = failed[w]

(* If the JVM halts without having been signalled, no file operation       *)
(* failed and the measurements pass the sanity check, then every writer    *)
(* has saved them, as "normal" unless a plugin's listener threw.           *)
ResultsSurviveOrdinaryEnd ==
  (jvm = "halted" /\ trouble \cap {"signal", "io"} = {} /\ Consistent(counts[1])) =>
    \A w \in Writer : /\ Complete(w)
                      /\ "listener" \notin trouble => file[w] = "normal"

(* Once the hooks run, each of them ends or calls sys.exit itself, and the *)
(* JVM halts unless one does: no hook is left waiting for a monitor that   *)
(* the main thread still holds in its own sys.exit (storeResults removes   *)
(* the hook before the check that may exit).                               *)
OnlyNestedExitHangs ==
  jvm = "hooks" ~> /\ \A w \in Writer : pc[w] \in {"idle", "done", "blocked"}
                   /\ jvm = "halted" \/ \E w \in Writer : pc[w] = "blocked"

-----------------------------------------------------------------------------
(* What the documentation says, and the code does not do.                  *)

(* ResultWriter.scala:27 "Registers a shutdown hook to avoid losing        *)
(* unsaved results in case the JVM is forcefully terminated": after a      *)
(* signal every writer saves the results it has, or the JVM at least       *)
(* halts.                                                                  *)
SignalledJvmHalts == "signal" \in trouble ~> jvm = "halted"

(* The same comment, for a JVM that does halt: after a signal and no other *)
(* trouble, no file is left truncated.                                     *)
NoTruncatedFile ==
  (jvm = "halted" /\ trouble = {"signal"}) => \A w \in Writer : file[w] # "partial"

(* README.md:292 "--csv <csv-file> Output results as CSV": an execution    *)
(* without any trouble saves its results.                                  *)
UntroubledRunIsSaved ==
  (pc[Main] \in {"return", "exit", "blocked", "done"} /\ trouble = {}) =>
    \A w \in Writer : file[w] = "normal"
=============================================================================
