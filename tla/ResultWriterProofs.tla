------------------------- MODULE ResultWriterProofs -------------------------
(***************************************************************************)
(* Proofs about ResultWriter, for any number of writers, benchmarks and    *)
(* metrics, any policies and any bounds.                                   *)
(***************************************************************************)
EXTENDS ResultWriter, TLAPS

-----------------------------------------------------------------------------
(* Type correctness.  TypeOK is not inductive by itself: a result or a     *)
(* failure is only ever dispatched while a benchmark is being executed.    *)

DispatchInv == pc[Main] \in {"deliver", "failing"} => bench \in Benchmark

TypeInv == TypeOK /\ DispatchInv

\* The writer whose results a thread stores is a writer (storeResults).
LEMMA TargetType ==
  ASSUME TypeOK, NEW t \in Thread
  PROVE  Target(t) \in Writer
BY ConfigAssumption DEF TypeOK, Target, Thread, Writer, Main

\* Whatever a thread reads from the value lists is a size for each list.
LEMMA ReadsType ==
  ASSUME TypeOK, NEW t \in Thread, NEW s \in Reads(t)
  PROVE  s \in Sizes
<1> DEFINE w == Target(t)
           now(k) == counts[w][k[1]][k[2]]
           low(k) == seen[t][k[1]][k[2]]
<1>1. w \in Writer
  BY TargetType
<1>2. /\ counts[w] \in Sizes
      /\ seen[t] \in Sizes
  BY <1>1 DEF TypeOK
<1>3. \A b \in Benchmark, m \in Metric : counts[w][b][m] \in Nat /\ seen[t][b][m] \in Nat
  BY <1>2 DEF Sizes
<1>4. PICK p \in [Grown(t) -> UNION {low(k)..now(k) : k \in Grown(t)}] :
        /\ \A k \in Grown(t) : p[k] \in low(k)..now(k)
        /\ s = [b \in Benchmark |-> [m \in Metric |->
                  IF <<b, m>> \in Grown(t) THEN p[<<b, m>>] ELSE now(<<b, m>>)]]
  BY DEF Reads
<1>5. ASSUME NEW b \in Benchmark, NEW m \in Metric
      PROVE  (IF <<b, m>> \in Grown(t) THEN p[<<b, m>>] ELSE now(<<b, m>>)) \in Nat
  <2>1. low(<<b, m>>) \in Nat /\ now(<<b, m>>) \in Nat
    BY <1>3
  <2>2. CASE <<b, m>> \in Grown(t)
    <3>1. p[<<b, m>>] \in low(<<b, m>>)..now(<<b, m>>)
      BY <1>4, <2>2
    <3> HIDE DEF low, now
    <3>2. QED
      BY <2>1, <2>2, <3>1
  <2>3. CASE <<b, m>> \notin Grown(t)
    BY <2>1, <2>3
  <2>4. QED
    BY <2>2, <2>3
<1>6. QED
  BY <1>4, <1>5 DEF Sizes

\* What goes wrong is one of the kinds of trouble the model knows.
LEMMA TroubleType ==
  ASSUME TypeOK, NEW kind \in AllFailures \cup {"signal"}, Trouble(kind)
  PROVE  trouble' \subseteq AllFailures \cup {"signal"}
BY DEF TypeOK, Trouble

Labels == HarnessPC \cup StorePC \cup EndPC

\* A thread goes to a label; the others stay where they are.
LEMMA GotoType ==
  ASSUME TypeOK, NEW t \in Thread, NEW label \in Labels, Goto(t, label)
  PROVE  /\ pc' \in [Thread -> Labels]
         /\ pc'[t] = label
         /\ \A u \in Thread : u # t => pc'[u] = pc[u]
BY DEF TypeOK, Goto, Labels

\* storeResults ends in an exception: the monitor is released, nothing is dispatched.
LEMMA ThrownType ==
  ASSUME TypeOK, NEW t \in Thread, Thrown(t)
  PROVE  /\ pc' \in [Thread -> Labels]
         /\ pc'[Main] = IF t = Main THEN "exit" ELSE pc[Main]
         /\ monitor' \in [Writer -> Thread \cup {Nobody}]
         /\ UNCHANGED mainVars
<1>1. Main \in Thread
  BY ConfigAssumption DEF Main, Thread
<1>2. /\ pc' \in [Thread -> Labels]
      /\ pc'[Main] = IF t = Main THEN "exit" ELSE pc[Main]
  <2>1. CASE t = Main
    BY <1>1, <2>1, GotoType DEF Thrown, Labels, EndPC
  <2>2. CASE t # Main
    BY <1>1, <2>2, GotoType DEF Thrown, Labels, EndPC
  <2>3. QED
    BY <2>1, <2>2
<1>3. QED
  BY <1>2, TargetType DEF Thrown, Release, TypeOK

\* storeResults returns: the monitor is released, main goes on to the next writer.
LEMMA StoredType ==
  ASSUME TypeOK, NEW t \in Thread, Stored(t)
  PROVE  /\ pc' \in [Thread -> Labels]
         /\ pc'[Main] \in {"lock", "return", pc[Main]}
         /\ monitor' \in [Writer -> Thread \cup {Nobody}]
         /\ cur' \in Writer
         /\ UNCHANGED <<bench, rep, metric, failures>>
<1>1. Main \in Thread
  BY ConfigAssumption DEF Main, Thread
<1>2. /\ pc' \in [Thread -> Labels]
      /\ pc'[Main] \in {"lock", "return", pc[Main]}
  <2>1. CASE t = Main /\ cur < NumWriters
    BY <1>1, <2>1, GotoType DEF Stored, Labels, StorePC
  <2>2. CASE t = Main /\ ~(cur < NumWriters)
    BY <1>1, <2>2, GotoType DEF Stored, Labels, HarnessPC
  <2>3. CASE t # Main
    BY <1>1, <2>3, GotoType DEF Stored, Labels, EndPC
  <2>4. QED
    BY <2>1, <2>2, <2>3
<1>3. cur' \in Writer
  BY ConfigAssumption DEF Stored, TypeOK, Writer
<1>4. QED
  BY <1>2, <1>3, TargetType DEF Stored, Release, TypeOK

\* Before the first benchmark nothing is measured and no hook runs.
LEMMA TypeInit == Init => TypeInv
<1> SUFFICES ASSUME Init
             PROVE  TypeInv
  OBVIOUS
<1> USE ConfigAssumption DEF Init, Thread, Writer, Main
<1>1. NoSizes \in Sizes
  BY DEF NoSizes, Sizes
<1>2. /\ bench \in 1..(NumBenchmarks + 1)
      /\ metric \in Metric
      /\ cur \in Writer
  BY DEF Metric
<1>3. pc \in [Thread -> HarnessPC \cup StorePC \cup EndPC] /\ DispatchInv
  BY DEF HarnessPC, EndPC, DispatchInv
<1>4. monitor \in [Writer -> Thread \cup {Nobody}]
  OBVIOUS
<1>5. /\ counts \in [Writer -> Sizes]
      /\ failed \in [Writer -> SUBSET Benchmark]
      /\ seen \in [Thread -> Sizes]
      /\ saved \in [Writer -> Sizes]
  BY <1>1
<1>6. QED
  BY <1>2, <1>3, <1>4, <1>5 DEF TypeInv, TypeOK

\* The steps a main thread or a shutdown hook takes in storeResults and sys.exit.
LEMMA TypeStore ==
  ASSUME TypeInv, NEW t \in Thread, StoreStep(t)
  PROVE  TypeInv'
<1> DEFINE w == Target(t)
<1> USE ConfigAssumption DEF TypeInv, TypeOK, DispatchInv, Main, Thread, Writer
<1>0. w \in Writer
  BY TargetType
<1>1. CASE Lock(t)
  <2> HIDE DEF w
  <2>1. QED
  BY <1>0, <1>1 DEF Lock, w, Goto, StorePC, HarnessPC, EndPC, mainVars, dataVars, fileVars
<1>2. CASE CheckBegin(t)
  <2>1. counts[w] \in Sizes
    BY <1>0
  <2> HIDE DEF w
  <2>2. QED
    BY <2>1, <1>2 DEF CheckBegin, w, Goto, StorePC, mainVars, dataVars
<1>3. CASE CheckEnd(t)
  <2>1. counts[w] \in Sizes
    BY <1>0
  <2> HIDE DEF w
  <2>2. QED
    BY <2>1, <1>3 DEF CheckEnd, w, Goto, StorePC, EndPC, mainVars, dataVars
<1>4. CASE Format(t)
  <2>1. NoSizes \in Sizes
    BY DEF NoSizes, Sizes
  <2>2. PICK s \in Reads(t) :
          \/ saved' = [saved EXCEPT ![w] = s] /\ Goto(t, "open") /\ UNCHANGED <<monitor, mainVars>>
          \/ Thrown(t) /\ UNCHANGED saved
    BY <1>4 DEF Format
  <2>3. s \in Sizes
    BY ReadsType
  <2> HIDE DEF w
  <2>4. CASE Thrown(t) /\ UNCHANGED saved
    BY <2>1, <2>4, <1>4, ThrownType DEF Format, mainVars, dataVars, Labels
  <2>5. CASE saved' = [saved EXCEPT ![w] = s] /\ Goto(t, "open") /\ UNCHANGED <<monitor, mainVars>>
    BY <2>1, <2>3, <2>5, <1>0, <1>4 DEF Format, Goto, StorePC, mainVars, dataVars
  <2>6. QED
    BY <2>2, <2>4, <2>5
<1>5. CASE Open(t)
  <2> HIDE DEF w
  <2>1. trouble' \subseteq AllFailures \cup {"signal"}
    BY <1>5, TroubleType DEF Open, Failure, AllFailures
  <2>2. CASE Thrown(t) /\ UNCHANGED file
    BY <2>1, <2>2, <1>5, ThrownType DEF Open, mainVars, dataVars, Labels
  <2>3. CASE Goto(t, "write") /\ file' = [file EXCEPT ![w] = "partial"] /\ UNCHANGED <<monitor, mainVars>>
    <3>1. pc' \in [Thread -> HarnessPC \cup StorePC \cup EndPC]
          /\ file' \in [Writer -> {"absent", "partial", "normal", "forced"}]
      BY <2>3, <1>0 DEF Goto, StorePC
    <3>2. pc'[Main] \in {"deliver", "failing"} => pc[Main] \in {"deliver", "failing"}
      BY <2>3 DEF Goto
    <3>3. UNCHANGED <<jvm, hooked, monitor, bench, rep, metric, cur, failures, counts, failed,
                      seen, saved>>
      BY <2>3, <1>5 DEF Open, mainVars, dataVars
    <3>4. QED
      BY <2>1, <3>1, <3>2, <3>3
  <2>4. QED
    BY <1>5, <2>2, <2>3 DEF Open, w
<1>6. CASE Write(t)
  <2> HIDE DEF w
  <2>1. trouble' \subseteq AllFailures \cup {"signal"}
    BY <1>6, TroubleType DEF Write, Failure, AllFailures
  <2>2. CASE Thrown(t) /\ UNCHANGED file
    BY <2>1, <2>2, <1>6, ThrownType DEF Write, mainVars, dataVars, Labels
  <2>3. CASE Stored(t) /\ file' = [file EXCEPT ![w] = IF t = Main THEN "normal" ELSE "forced"]
    BY <2>1, <2>3, <1>0, <1>6, StoredType DEF Write, dataVars, Labels
  <2>4. QED
    BY <1>6, <2>2, <2>3 DEF Write, w
<1>7. CASE Exit(t)
  <2> HIDE DEF w
  <2>1. QED
  BY <1>7 DEF Exit, StartHooks, Goto, StorePC, EndPC, mainVars, dataVars, fileVars
<1>8. QED
  BY <1>1, <1>2, <1>3, <1>4, <1>5, <1>6, <1>7 DEF StoreStep

\* Every step of the main thread, a hook or the JVM keeps the types.
LEMMA TypeNext == TypeInv /\ [Next]_vars => TypeInv'
<1> SUFFICES ASSUME TypeInv, [Next]_vars
             PROVE  TypeInv'
  OBVIOUS
<1> USE ConfigAssumption DEF TypeInv, TypeOK, DispatchInv, Main, Thread, Writer
<1>1. CASE AfterHarnessInit
  <2>1. trouble' \subseteq AllFailures \cup {"signal"}
    BY <1>1, TroubleType DEF AfterHarnessInit, Failure, AllFailures
  <2>2. QED
    BY <1>1, <2>1 DEF AfterHarnessInit, Goto, HarnessPC, EndPC
<1>2. CASE LoadFails
  BY <1>2 DEF LoadFails, Failure, Trouble, AllFailures, Benchmark
<1>3. CASE Operation
  BY <1>3 DEF Operation, Goto, HarnessPC, Metric
<1>4. CASE BenchmarkFails
  BY <1>4 DEF BenchmarkFails, Goto, Failure, Trouble, AllFailures, HarnessPC
<1>5. CASE BenchmarkDone
  BY <1>5 DEF BenchmarkDone, Benchmark
<1>6. CASE Deliver
  <2>1. counts' \in [Writer -> Sizes]
    <3>1. [counts[cur] EXCEPT ![bench][metric] = @ + 1] \in Sizes
      BY <1>6 DEF Deliver, Sizes
    <3>2. counts' = [counts EXCEPT ![cur] = [counts[cur] EXCEPT ![bench][metric] = @ + 1]]
      BY <1>6 DEF Deliver
    <3>3. QED
      BY <3>1, <3>2
  <2>2. /\ pc' \in [Thread -> HarnessPC \cup StorePC \cup EndPC]
        /\ pc'[Main] \in {"op", "deliver"}
        /\ cur' \in Writer /\ rep' \in Nat /\ metric' \in Metric
        /\ UNCHANGED <<bench, failures>>
    <3>1. CASE cur < NumWriters
      BY <1>6, <3>1 DEF Deliver, Dispatched
    <3>2. CASE ~(cur < NumWriters) /\ metric < NumMetrics
      BY <1>6, <3>2 DEF Deliver, Dispatched, MetricDone, Metric
    <3>3. CASE ~(cur < NumWriters) /\ ~(metric < NumMetrics)
      BY <1>6, <3>3 DEF Deliver, Dispatched, MetricDone, Goto, HarnessPC, Metric
    <3>4. QED
      BY <3>1, <3>2, <3>3
  <2>3. QED
    BY <1>6, <2>1, <2>2 DEF Deliver
<1>7. CASE PluginThrows
  BY <1>7 DEF PluginThrows, Goto, Failure, Trouble, AllFailures, HarnessPC
<1>8. CASE NotifyFailure
  <2>1. bench \in Benchmark
    BY <1>8 DEF NotifyFailure
  <2>2. failed' \in [Writer -> SUBSET Benchmark]
    BY <1>8, <2>1 DEF NotifyFailure
  <2>3. /\ pc' \in [Thread -> HarnessPC \cup StorePC \cup EndPC]
        /\ cur' \in Writer /\ rep' \in Nat /\ metric' \in Metric
        /\ failures' \in BOOLEAN
        /\ \/ UNCHANGED <<pc, bench>>
           \/ pc'[Main] = "op" /\ bench' \in 1..(NumBenchmarks + 1)
    <3>1. CASE cur < NumWriters
      BY <1>8, <3>1 DEF NotifyFailure, Dispatched
    <3>2. CASE ~(cur < NumWriters)
      <4>1. /\ pc' = [pc EXCEPT ![Main] = "op"] /\ cur' = 1 /\ rep' = 0 /\ metric' = 1
            /\ bench' = bench + 1 /\ failures' = TRUE
        BY <1>8, <3>2 DEF NotifyFailure, Dispatched, BenchmarkFailed, Goto
      <4>2. QED
        BY <2>1, <4>1 DEF HarnessPC, Benchmark, Metric
    <3>3. QED
      BY <3>1, <3>2
  <2>4. QED
    BY <1>8, <2>2, <2>3 DEF NotifyFailure
<1>9. CASE HarnessShutdown
  <2>1. trouble' \subseteq AllFailures \cup {"signal"}
    BY <1>9, TroubleType DEF HarnessShutdown, Failure, AllFailures
  <2>2. QED
    BY <1>9, <2>1 DEF HarnessShutdown, Goto, StorePC, EndPC, mainVars, dataVars, fileVars
<1>10. CASE Return
  BY <1>10 DEF Return, Goto, EndPC, mainVars, dataVars, fileVars
<1>11. CASE RemoveHook
  <2>1. /\ hooked' \subseteq Writer
        /\ monitor' \in [Writer -> Thread \cup {Nobody}]
    BY <1>11 DEF RemoveHook, Thrown, Release, Target
  <2>2. /\ pc' \in [Thread -> HarnessPC \cup StorePC \cup EndPC]
        /\ pc'[Main] \in {"check", "exit"}
    BY <1>11 DEF RemoveHook, Thrown, Goto, StorePC, EndPC
  <2>3. UNCHANGED <<jvm, bench, rep, metric, cur, failures, counts, failed, seen, saved, file,
                    trouble>>
    BY <1>11 DEF RemoveHook, Thrown, mainVars, dataVars, fileVars
  <2>4. QED
    BY <2>1, <2>2, <2>3
<1>12. CASE \E t \in Thread : StoreStep(t)
  <2> HIDE DEF TypeInv, Thread
  <2>1. QED
    BY <1>12, TypeStore
<1>13. CASE DestroyJavaVM
  BY <1>13 DEF DestroyJavaVM, StartHooks, StorePC, mainVars, dataVars, fileVars
<1>14. CASE Signal
  BY <1>14 DEF Signal, StartHooks, Trouble, StorePC, mainVars, dataVars, fileVars
<1>15. CASE Halt
  BY <1>15 DEF Halt, mainVars, dataVars, fileVars
<1>16. CASE UNCHANGED vars
  BY <1>16 DEF vars
<1>17. CASE FailureListenerThrows
  <2>1. /\ pc' = [pc EXCEPT ![Main] = "op"] /\ rep' = 0 /\ metric' = 1
        /\ bench' = bench + 1 /\ failures' = TRUE /\ bench \in Benchmark
    BY <1>17 DEF FailureListenerThrows, BenchmarkFailed, Goto
  <2>2. trouble' \subseteq AllFailures \cup {"signal"}
    BY <1>17, TroubleType DEF FailureListenerThrows, Failure, AllFailures
  <2>3. QED
    BY <1>17, <2>1, <2>2
    DEF FailureListenerThrows, HarnessPC, Benchmark, Metric, dataVars, fileVars
<1>18. QED
  BY <1>1, <1>2, <1>3, <1>4, <1>5, <1>6, <1>7, <1>8, <1>9, <1>10, <1>11, <1>12, <1>13, <1>14, <1>15, <1>16, <1>17 DEF Next, MainStep

(* The types of all variables, through the run loop, storeResults and the  *)
(* shutdown of the JVM, for any number of writers, benchmarks and metrics. *)
THEOREM TypeCorrect == Spec => []TypeOK
<1>1. TypeInv => TypeOK
  BY DEF TypeInv
<1>2. QED
  BY TypeInit, TypeNext, <1>1, PTL DEF Spec

-----------------------------------------------------------------------------
(* A finished file is final.  The argument: a writer's file is written     *)
(* either by the main thread or by the writer's hook, never by both.  A    *)
(* hook only runs if it was still registered when the JVM began to shut    *)
(* down (HookInv), and the set of registered hooks no longer changes then; *)
(* the main thread only gets past removeShutdownHook if it was in time     *)
(* (UnhookedInv).  Each of the two stores once: main has gone on to later  *)
(* writers (NormalInv), the hook has ended (ForcedInv).                    *)

HookInv ==
  \A w \in Writer : pc[w] # "idle" => jvm # "running" /\ w \in hooked

UnhookedInv ==
  pc[Main] \in {"check", "scan", "format", "open", "write"} => cur \notin hooked

\* The main thread is past the store of writer w.
Passed(w) ==
  \/ pc[Main] \in {"return", "exit", "blocked", "done"}
  \/ pc[Main] \in StorePC /\ w < cur

NormalInv ==
  \A w \in Writer : file[w] = "normal" => w \notin hooked /\ Passed(w)

ForcedInv ==
  \A w \in Writer : file[w] = "forced" => pc[w] = "done"

FileInv == HookInv /\ UnhookedInv /\ NormalInv /\ ForcedInv

\* Initially no hook has started and no file is finished.
LEMMA FileInit == Init => FileInv
BY ConfigAssumption
DEF Init, FileInv, HookInv, UnhookedInv, NormalInv, ForcedInv, Thread, Writer, Main

\* The steps of the harness: all of the main thread's but those of storeResults.
HarnessStep ==
  \/ AfterHarnessInit \/ LoadFails \/ Operation \/ BenchmarkFails \/ BenchmarkDone
  \/ Deliver \/ PluginThrows \/ NotifyFailure \/ FailureListenerThrows
  \/ HarnessShutdown \/ Return

\* What the steps of the harness do to the main thread.
LEMMA HarnessEffect ==
  ASSUME TypeInv, HarnessStep
  PROVE  /\ UNCHANGED <<jvm, hooked, seen, saved, file>>
         /\ \A w \in Writer : pc'[w] = pc[w]
         /\ pc[Main] \in HarnessPC
         /\ pc'[Main] \in HarnessPC \cup {"lock", "exit", "done"}
         /\ pc[Main] = "return" => pc'[Main] \in {"exit", "done"}
<1>1. /\ pc \in [Thread -> Labels]
      /\ Main \in Thread
      /\ \A w \in Writer : w \in Thread /\ w # Main
  BY ConfigAssumption DEF TypeInv, TypeOK, Labels, Thread, Main, Writer
<1> USE <1>1 DEF HarnessPC, Goto
<1>2. CASE AfterHarnessInit
  BY <1>2 DEF AfterHarnessInit
<1>3. CASE LoadFails \/ Operation \/ BenchmarkFails \/ BenchmarkDone
  BY <1>3 DEF LoadFails, Operation, BenchmarkFails, BenchmarkDone
<1>4. CASE Deliver
  BY <1>4 DEF Deliver, Dispatched, MetricDone
<1>5. CASE PluginThrows \/ NotifyFailure \/ FailureListenerThrows
  BY <1>5 DEF PluginThrows, NotifyFailure, Dispatched, FailureListenerThrows, BenchmarkFailed,
              fileVars
<1>6. CASE HarnessShutdown \/ Return
  BY <1>6 DEF HarnessShutdown, Return, fileVars
<1>7. QED
  BY <1>2, <1>3, <1>4, <1>5, <1>6 DEF HarnessStep

\* The steps that start no hook and reach no file keep the invariant if they let
\* the main thread neither into nor back out of a store.
LEMMA HarnessKeeps ==
  ASSUME FileInv,
         UNCHANGED <<jvm, hooked, file>>,
         \A w \in Writer : pc'[w] = pc[w],
         pc[Main] \in HarnessPC,
         pc'[Main] \in HarnessPC \cup {"lock", "exit", "done"},
         pc[Main] = "return" => pc'[Main] \in {"exit", "done"}
  PROVE  FileInv'
BY DEF FileInv, HookInv, UnhookedInv, NormalInv, ForcedInv, Passed, HarnessPC, StorePC

\* The JVM starts the hooks that are registered.
LEMMA StartKeeps ==
  ASSUME TypeInv, FileInv, jvm = "running",
         UNCHANGED <<hooked, cur, file>>,
         StartHooks(pc) \/ (pc[Main] = "exit" /\ StartHooks([pc EXCEPT ![Main] = "blocked"]))
  PROVE  FileInv'
<1>1. /\ pc \in [Thread -> Labels]
      /\ Main \in Thread
      /\ \A w \in Writer : w \in Thread /\ w # Main
  BY ConfigAssumption DEF TypeInv, TypeOK, Labels, Thread, Main, Writer
<1>2. Main \notin hooked
  BY <1>1 DEF TypeInv, TypeOK
<1>3. /\ jvm' = "hooks"
      /\ \A w \in Writer : pc'[w] = IF w \in hooked THEN "lock" ELSE pc[w]
      /\ \/ pc'[Main] = pc[Main]
         \/ pc[Main] = "exit" /\ pc'[Main] = "blocked"
  BY <1>1, <1>2 DEF StartHooks
<1>4. \A w \in Writer : pc[w] = "idle"
  BY DEF FileInv, HookInv
<1>5. HookInv'
  BY <1>3, <1>4 DEF HookInv
<1>6. UnhookedInv'
  BY <1>3 DEF FileInv, UnhookedInv
<1>7. NormalInv'
  BY <1>3 DEF FileInv, NormalInv, Passed, StorePC
<1>8. ForcedInv'
  BY <1>3, <1>4 DEF FileInv, ForcedInv
<1>9. QED
  BY <1>5, <1>6, <1>7, <1>8 DEF FileInv

\* Facts about threads used in the proofs below.
LEMMA Threads ==
  ASSUME TypeInv
  PROVE  /\ pc \in [Thread -> Labels]
         /\ Main \in Thread
         /\ \A w \in Writer : w \in Thread /\ w # Main
         /\ \A t \in Thread : t # Main => t \in Writer
         /\ file \in [Writer -> {"absent", "partial", "normal", "forced"}]
         /\ cur \in Writer
         /\ hooked \subseteq Writer
BY ConfigAssumption DEF TypeInv, TypeOK, Labels, Thread, Main, Writer

\* A thread that is about to store has the writer to itself: its file is not
\* finished yet.
LEMMA StoresOnce ==
  ASSUME TypeInv, FileInv, NEW t \in Thread,
         pc[t] \in {"format", "open", "write"}
  PROVE  ~Complete(Target(t))
<1> USE Threads
<1>1. CASE t = Main
  <2>1. cur \notin hooked
    BY <1>1 DEF FileInv, UnhookedInv
  <2>2. file[cur] # "forced"
    BY <2>1 DEF FileInv, ForcedInv, HookInv
  <2>3. file[cur] # "normal"
    <3>1. ~Passed(cur)
      BY <1>1, ConfigAssumption DEF Passed, Writer
    <3>2. QED
      BY <3>1 DEF FileInv, NormalInv
  <2>4. QED
    BY <1>1, <2>2, <2>3 DEF Complete, Target
<1>2. CASE t # Main
  <2>1. t \in Writer /\ t \in hooked
    BY <1>2 DEF FileInv, HookInv
  <2>2. QED
    BY <1>2, <2>1 DEF FileInv, NormalInv, ForcedInv, Complete, Target
<1>3. QED
  BY <1>1, <1>2

\* The steps of a shutdown hook.
LEMMA HookKeeps ==
  ASSUME TypeInv, FileInv, NEW t \in Writer, StoreStep(t)
  PROVE  FileInv'
<1> USE Threads
<1>1. t \in hooked /\ jvm # "running" /\ pc[t] \notin {"idle", "done"} /\ Target(t) = t
  BY DEF StoreStep, Lock, CheckBegin, CheckEnd, Format, Open, Write, Exit, FileInv, HookInv,
         Target
<1>2. /\ UNCHANGED <<jvm, hooked, cur>>
      /\ \A u \in Thread : u # t => pc'[u] = pc[u]
      /\ \/ UNCHANGED file
         \/ file' = [file EXCEPT ![t] = "partial"]
         \/ file' = [file EXCEPT ![t] = "forced"] /\ pc'[t] = "done"
  BY <1>1
  DEF StoreStep, Lock, CheckBegin, CheckEnd, Format, Open, Write, Exit, Stored, Thrown,
      Release, Goto, mainVars, fileVars
<1>3. \A w \in Writer : w # t => pc'[w] = pc[w] /\ file'[w] = file[w]
  BY <1>2
<1>4. pc'[Main] = pc[Main]
  BY <1>2
<1>5. file[t] \in {"absent", "partial"}
  BY <1>1 DEF FileInv, NormalInv, ForcedInv
<1>6. file'[t] # "normal" /\ (file'[t] = "forced" => pc'[t] = "done")
  BY <1>2, <1>5
<1>7. HookInv'
  BY <1>1, <1>2, <1>3 DEF FileInv, HookInv
<1>8. UnhookedInv'
  BY <1>2, <1>4 DEF FileInv, UnhookedInv
<1>9. NormalInv'
  BY <1>2, <1>3, <1>4, <1>6 DEF FileInv, NormalInv, Passed
<1>10. ForcedInv'
  BY <1>3, <1>6 DEF FileInv, ForcedInv
<1>11. QED
  BY <1>7, <1>8, <1>9, <1>10 DEF FileInv

\* The steps of the main thread in storeResults and sys.exit, with removeShutdownHook.
LEMMA MainKeeps ==
  ASSUME TypeInv, FileInv, StoreStep(Main) \/ RemoveHook
  PROVE  FileInv'
<1> USE Threads
<1>1. Target(Main) = cur
  BY DEF Target
<1>2. CASE Lock(Main)
  BY <1>2 DEF Lock, Goto, mainVars, fileVars, FileInv, HookInv, UnhookedInv, NormalInv,
              ForcedInv, Passed, StorePC
<1>3. CASE RemoveHook
  <2>1. \A w \in Writer : pc'[w] = pc[w]
    BY <1>3 DEF RemoveHook, Thrown, Goto
  <2>2. /\ UNCHANGED <<jvm, cur, file>>
        /\ \/ jvm = "running" /\ hooked' = hooked \ {cur} /\ pc'[Main] = "check"
           \/ jvm # "running" /\ hooked' = hooked /\ pc'[Main] = "exit"
    BY <1>3 DEF RemoveHook, Thrown, Goto, mainVars, fileVars
  <2>3. pc[Main] = "remove"
    BY <1>3 DEF RemoveHook
  <2>4. QED
    BY <2>1, <2>2, <2>3
    DEF FileInv, HookInv, UnhookedInv, NormalInv, ForcedInv, Passed, StorePC
<1>4. CASE CheckBegin(Main) \/ CheckEnd(Main)
  BY <1>4 DEF CheckBegin, CheckEnd, Goto, mainVars, FileInv, HookInv, UnhookedInv, NormalInv,
              ForcedInv, Passed, StorePC
<1>5. CASE Format(Main) \/ Open(Main) \/ Write(Main)
  <2>1. cur \notin hooked /\ pc[Main] \in {"format", "open", "write"}
    BY <1>5 DEF Format, Open, Write, FileInv, UnhookedInv
  <2>2. ~Complete(cur)
    BY <1>1, <2>1, StoresOnce
  <2>3. /\ UNCHANGED <<jvm, hooked>>
        /\ \A w \in Writer : pc'[w] = pc[w]
        /\ \/ pc'[Main] \in {"open", "write", "exit"} /\ UNCHANGED cur
           \/ pc'[Main] = "lock" /\ cur' = cur + 1
           \/ pc'[Main] = "return"
        /\ \/ UNCHANGED file
           \/ file' = [file EXCEPT ![cur] = "partial"]
           \/ /\ file' = [file EXCEPT ![cur] = "normal"]
              /\ pc'[Main] = "return" \/ (pc'[Main] = "lock" /\ cur' = cur + 1)
    BY <1>1, <1>5
    DEF Format, Open, Write, Stored, Thrown, Goto, mainVars
  <2>4. HookInv' /\ UnhookedInv'
    BY <2>1, <2>3 DEF FileInv, HookInv, UnhookedInv
  <2>5. ForcedInv'
    BY <2>3 DEF FileInv, ForcedInv
  <2>6. ASSUME NEW w \in Writer, file'[w] = "normal"
        PROVE  w \notin hooked' /\ Passed(w)'
    <3>1. w \notin hooked
      BY <2>1, <2>3, <2>6 DEF FileInv, NormalInv
    <3>2. CASE w = cur
      <4>1. file[w] # "normal"
        BY <2>2, <3>2 DEF Complete
      <4>2. pc'[Main] = "return" \/ (pc'[Main] = "lock" /\ cur' = cur + 1)
        BY <2>3, <2>6, <3>2, <4>1
      <4>3. w < cur + 1
        BY <3>2 DEF Writer
      <4>4. QED
        BY <3>1, <3>2, <4>2, <4>3, <2>3 DEF Passed, StorePC
    <3>3. CASE w # cur
      <4>1. file[w] = "normal" /\ w < cur
        BY <2>1, <2>3, <2>6, <3>3 DEF FileInv, NormalInv, Passed
      <4>2. QED
        <5>1. w < cur + 1
          BY <4>1 DEF Writer
        <5>2. QED
          BY <2>3, <3>1, <4>1, <5>1 DEF Passed, StorePC
    <3>4. QED
      BY <2>3, <3>1, <3>2, <3>3
  <2>7. QED
    BY <2>4, <2>5, <2>6 DEF FileInv, NormalInv
<1>6. CASE Exit(Main)
  <2>1. CASE jvm = "running"
    BY <1>6, <2>1, StartKeeps DEF Exit, mainVars, fileVars
  <2>2. CASE jvm # "running"
    BY <1>6, <2>2 DEF Exit, Goto, mainVars, fileVars, FileInv, HookInv, UnhookedInv, NormalInv,
                      ForcedInv, Passed, StorePC
  <2>3. QED
    BY <2>1, <2>2
<1>7. QED
  BY <1>2, <1>3, <1>4, <1>5, <1>6 DEF StoreStep

\* Every step keeps the facts about hooks, guards and files.
LEMMA FileNext == TypeInv /\ FileInv /\ [Next]_vars => FileInv'
<1> SUFFICES ASSUME TypeInv, FileInv, [Next]_vars
             PROVE  FileInv'
  OBVIOUS
<1>1. CASE MainStep
  <2>1. CASE RemoveHook
    BY <2>1, MainKeeps
  <2>2. CASE ~RemoveHook
    BY <1>1, <2>2, HarnessEffect, HarnessKeeps DEF MainStep, HarnessStep
  <2>3. QED
    BY <2>1, <2>2
<1>2. CASE \E t \in Thread : StoreStep(t)
  BY <1>2, MainKeeps, HookKeeps, Threads
<1>3. CASE DestroyJavaVM \/ Signal
  BY <1>3, StartKeeps DEF DestroyJavaVM, Signal, mainVars, fileVars
<1>4. CASE Halt
  BY <1>4 DEF Halt, mainVars, fileVars, FileInv, HookInv, UnhookedInv, NormalInv, ForcedInv,
              Passed
<1>5. CASE UNCHANGED vars
  BY <1>5 DEF vars, FileInv, HookInv, UnhookedInv, NormalInv, ForcedInv, Passed
<1>6. QED
  BY <1>1, <1>2, <1>3, <1>4, <1>5 DEF Next

\* The steps other than the stores reach neither a file nor an output.
LEMMA FinalNext ==
  ASSUME TypeInv, FileInv, [Next]_vars, NEW w \in Writer, Complete(w)
  PROVE  file'[w] = file[w] /\ saved'[w] = saved[w]
<1> USE Threads
<1>1. saved \in [Writer -> Sizes]
  BY DEF TypeInv, TypeOK
<1>2. CASE \E t \in Thread : Format(t) \/ Open(t) \/ Write(t)
  <2>1. PICK t \in Thread : Format(t) \/ Open(t) \/ Write(t)
    BY <1>2
  <2>2. pc[t] \in {"format", "open", "write"}
    BY <2>1 DEF Format, Open, Write
  <2>3. Target(t) # w
    BY <2>2, StoresOnce
  <2>4. QED
    BY <1>1, <2>1, <2>3 DEF Format, Open, Write
<1>3. CASE ~\E t \in Thread : Format(t) \/ Open(t) \/ Write(t)
  <2>1. UNCHANGED <<file, saved>>
    <3>1. CASE MainStep
      BY <3>1, HarnessEffect DEF MainStep, HarnessStep, RemoveHook, fileVars
    <3>2. CASE \E t \in Thread : StoreStep(t)
      BY <1>3, <3>2 DEF StoreStep, Lock, CheckBegin, CheckEnd, Exit, fileVars
    <3>3. CASE DestroyJavaVM \/ Signal \/ Halt
      BY <3>3 DEF DestroyJavaVM, Signal, Halt, fileVars
    <3>4. CASE UNCHANGED vars
      BY <3>4 DEF vars
    <3>5. QED
      BY <3>1, <3>2, <3>3, <3>4 DEF Next
  <2>2. QED
    BY <2>1
<1>4. QED
  BY <1>2, <1>3

(* A result file that storeResults has finished is never changed again: it *)
(* is stored once, by the main thread or by the shutdown hook, however the *)
(* two interleave (the monitor and removeShutdownHook in ResultWriter).    *)
THEOREM FinishedFileFinal == Spec => FinishedFileIsFinal
<1>1. TypeInv /\ FileInv /\ [Next]_vars
        => [\A w \in Writer : Complete(w) => file'[w] = file[w] /\ saved'[w] = saved[w]]_vars
  BY FinalNext
<1>2. QED
  BY TypeInit, TypeNext, FileInit, FileNext, <1>1, PTL DEF Spec, FinishedFileIsFinal

-----------------------------------------------------------------------------
(* A finished file is rectangular.  A thread remembers in `seen` the sizes *)
(* the lists had when it began to read them; since lists only grow, what   *)
(* it reads lies between these and the present ones (SeenInv), and so does *)
(* what it has formatted and is about to write, or has written (SoundInv). *)

\* The sizes s are no larger than those of the lists of writer w.
Bounded(s, w) == \A b \in Benchmark, m \in Metric : s[b][m] <= counts[w][b][m]

SeenInv == \A t \in Thread : pc[t] \in {"scan", "format"} => Bounded(seen[t], Target(t))

Sound(w) == Formattable(saved[w]) /\ Bounded(saved[w], w)

SoundInv ==
  /\ \A t \in Thread : pc[t] \in {"open", "write"} => Sound(Target(t))
  /\ \A w \in Writer : Complete(w) => Sound(w)

RectInv == SeenInv /\ SoundInv

\* Initially no thread reads and no file is finished.
LEMMA RectInit == Init => RectInv
BY DEF Init, RectInv, SeenInv, SoundInv, Complete

\* A list has a size (the lists of resultsPerBenchmark).
LEMMA ListSizes ==
  ASSUME TypeInv, NEW w \in Writer, NEW t \in Thread
  PROVE  /\ counts[w] \in Sizes /\ seen[t] \in Sizes /\ saved[w] \in Sizes
         /\ \A b \in Benchmark, m \in Metric :
              counts[w][b][m] \in Nat /\ seen[t][b][m] \in Nat /\ saved[w][b][m] \in Nat
BY DEF TypeInv, TypeOK, Sizes

\* A thread that began to read when no list was longer than now reads no more
\* values than there are now.
LEMMA ReadsBounded ==
  ASSUME TypeInv, NEW t \in Thread, NEW s \in Reads(t), Bounded(seen[t], Target(t))
  PROVE  Bounded(s, Target(t))
<1> DEFINE w == Target(t)
           now(k) == counts[w][k[1]][k[2]]
           low(k) == seen[t][k[1]][k[2]]
<1>1. w \in Writer
  BY TargetType DEF TypeInv
<1>2. PICK p \in [Grown(t) -> UNION {low(k)..now(k) : k \in Grown(t)}] :
        /\ \A k \in Grown(t) : p[k] \in low(k)..now(k)
        /\ s = [b \in Benchmark |-> [m \in Metric |->
                  IF <<b, m>> \in Grown(t) THEN p[<<b, m>>] ELSE now(<<b, m>>)]]
  BY DEF Reads
<1>3. ASSUME NEW b \in Benchmark, NEW m \in Metric
      PROVE  s[b][m] <= counts[w][b][m]
  <2> DEFINE k == <<b, m>>
  <2>1. low(k) \in Nat /\ now(k) \in Nat /\ now(k) = counts[w][b][m]
    BY <1>1, ListSizes
  <2>2. s[b][m] = IF k \in Grown(t) THEN p[k] ELSE now(k)
    BY <1>2
  <2>3. CASE k \in Grown(t)
    <3>1. p[k] \in low(k)..now(k)
      BY <1>2, <2>3
    <3> HIDE DEF low, now, k, w
    <3>2. QED
      BY <2>1, <2>2, <2>3, <3>1
  <2>4. CASE k \notin Grown(t)
    <3> HIDE DEF low, now, k, w
    <3>1. QED
      BY <2>1, <2>2, <2>4
  <2>5. QED
    BY <2>3, <2>4
<1>4. QED
  BY <1>3 DEF Bounded

\* A thread reads exactly the lists if they have not grown since it began.
LEMMA ReadsExactly ==
  ASSUME TypeInv, NEW t \in Thread, NEW s \in Reads(t), seen[t] = counts[Target(t)]
  PROVE  s = counts[Target(t)]
<1> DEFINE w == Target(t)
<1>1. w \in Writer
  BY TargetType DEF TypeInv
<1>2. Grown(t) = {}
  BY DEF Grown
<1>3. s = [b \in Benchmark |-> [m \in Metric |-> counts[w][b][m]]]
  BY <1>2 DEF Reads
<1>4. counts[w] \in Sizes
  BY <1>1 DEF TypeInv, TypeOK
<1>5. QED
  BY <1>3, <1>4 DEF Sizes

\* The lists of a writer only change when a measurement is delivered
\* (onMeasurementResult).
LEMMA OnlyDeliver ==
  ASSUME TypeInv, [Next]_vars, ~Deliver
  PROVE  UNCHANGED counts
<1>1. CASE MainStep
  BY <1>1
  DEF MainStep, AfterHarnessInit, LoadFails, Operation, BenchmarkFails, BenchmarkDone,
      PluginThrows, NotifyFailure, FailureListenerThrows, HarnessShutdown, Return, RemoveHook,
      dataVars
<1>2. CASE \E t \in Thread : StoreStep(t)
  BY <1>2 DEF StoreStep, Lock, CheckBegin, CheckEnd, Format, Open, Write, Exit, dataVars
<1>3. CASE DestroyJavaVM \/ Signal \/ Halt \/ UNCHANGED vars
  BY <1>3 DEF DestroyJavaVM, Signal, Halt, vars, dataVars
<1>4. QED
  BY <1>1, <1>2, <1>3 DEF Next

\* No step removes a value from a list: delivering a measurement adds one.
LEMMA CountsGrow ==
  ASSUME TypeInv, [Next]_vars
  PROVE  \A w \in Writer, b \in Benchmark, m \in Metric :
           counts[w][b][m] <= counts'[w][b][m]
<1> SUFFICES ASSUME NEW w \in Writer, NEW b \in Benchmark, NEW m \in Metric
             PROVE  counts[w][b][m] <= counts'[w][b][m]
  OBVIOUS
<1>1. counts[w][b][m] \in Nat
  BY Threads, ListSizes
<1>2. CASE Deliver
  <2>1. counts' = [counts EXCEPT ![cur] = [counts[cur] EXCEPT ![bench] =
                                             [counts[cur][bench] EXCEPT ![metric] = @ + 1]]]
    BY <1>2 DEF Deliver
  <2>2. counts \in [Writer -> Sizes]
    BY DEF TypeInv, TypeOK
  <2>3. CASE w = cur /\ b = bench /\ m = metric
    <3>1. counts'[w][b][m] = counts[w][b][m] + 1
      BY <2>1, <2>2, <2>3 DEF Sizes
    <3>2. QED
      BY <3>1, <1>1
  <2>4. CASE ~(w = cur /\ b = bench /\ m = metric)
    <3>1. counts'[w][b][m] = counts[w][b][m]
      BY <2>1, <2>2, <2>4 DEF Sizes
    <3>2. QED
      BY <3>1, <1>1
  <2>5. QED
    BY <2>3, <2>4
<1>3. CASE ~Deliver
  BY <1>1, <1>3, OnlyDeliver
<1>4. QED
  BY <1>2, <1>3

\* Lists that grow keep what has been read of them within bounds.
LEMMA BoundedKeeps ==
  ASSUME TypeInv, [Next]_vars, NEW w \in Writer, NEW s \in Sizes, Bounded(s, w)
  PROVE  Bounded(s, w)'
<1> SUFFICES ASSUME NEW b \in Benchmark, NEW m \in Metric
             PROVE  s[b][m] <= counts'[w][b][m]
  BY DEF Bounded
<1>1. s[b][m] \in Nat
  BY DEF Sizes
<1>2. counts[w][b][m] \in Nat
  BY Threads, ListSizes
<1>3. counts[w][b][m] <= counts'[w][b][m]
  BY CountsGrow
<1>4. s[b][m] <= counts[w][b][m]
  BY DEF Bounded
<1>5. counts'[w][b][m] \in Nat
  BY TypeNext, Threads, ListSizes DEF TypeInv, TypeOK, Sizes
<1>6. QED
  BY <1>1, <1>2, <1>3, <1>4, <1>5

\* Two threads are never both past the guards of one writer (storeResults).
LEMMA Exclusive ==
  ASSUME TypeInv, FileInv, NEW t \in Thread, NEW u \in Thread, t # u,
         pc[t] \in {"check", "scan", "format", "open", "write"},
         pc[u] \in {"check", "scan", "format", "open", "write"}
  PROVE  Target(t) # Target(u)
BY Threads DEF FileInv, HookInv, UnhookedInv, Target

\* The steps that neither read nor write.
Reading == {"scan", "format"}
Writing == {"open", "write"}

StoreIO(t) == CheckBegin(t) \/ CheckEnd(t) \/ Format(t) \/ Open(t) \/ Write(t)

\* A step that neither reads nor writes lets no thread into the middle of a store.
LEMMA CalmEffect ==
  ASSUME TypeInv, [Next]_vars, ~\E t \in Thread : StoreIO(t)
  PROVE  /\ UNCHANGED <<seen, saved, file>>
         /\ \A t \in Thread : pc'[t] \in Reading \cup Writing =>
              pc'[t] = pc[t] /\ Target(t)' = Target(t)
<1> USE Threads DEF Reading, Writing
<1>1. CASE HarnessStep
  BY <1>1, HarnessEffect DEF HarnessPC, Target
<1>2. CASE RemoveHook
  BY <1>2 DEF RemoveHook, Thrown, Goto, fileVars, mainVars, Target
<1>3. CASE \E t \in Thread : StoreStep(t)
  <2>1. PICK t \in Thread : Lock(t) \/ Exit(t)
    BY <1>3 DEF StoreStep, StoreIO
  <2>2. UNCHANGED <<seen, saved, file, cur>>
    BY <2>1 DEF Lock, Exit, fileVars, mainVars
  <2>3. \A u \in Thread : pc'[u] \in {pc[u], "remove", "check", "lock", "blocked"}
    BY <2>1 DEF Lock, Exit, StartHooks, Goto
  <2>4. QED
    BY <2>2, <2>3 DEF Target
<1>4. CASE DestroyJavaVM \/ Signal \/ Halt \/ UNCHANGED vars
  <2>1. \A u \in Thread : pc'[u] \in {pc[u], "lock"}
    BY <1>4 DEF DestroyJavaVM, Signal, Halt, StartHooks, vars
  <2>2. UNCHANGED <<seen, saved, file, cur>>
    BY <1>4 DEF DestroyJavaVM, Signal, Halt, vars, fileVars, mainVars
  <2>3. QED
    BY <2>1, <2>2 DEF Target
<1>5. QED
  BY <1>1, <1>2, <1>3, <1>4 DEF Next, MainStep, HarnessStep

\* A thread that opens or writes a file has formatted its contents.
LEMMA WriteEffect ==
  ASSUME TypeInv, NEW t \in Thread, Open(t) \/ Write(t)
  PROVE  /\ pc[t] \in Writing
         /\ UNCHANGED <<seen, saved>>
         /\ \A u \in Thread : u # t => pc'[u] = pc[u]
         /\ pc'[t] \in Reading \cup Writing => pc'[t] = "write" /\ UNCHANGED cur
         /\ t # Main => UNCHANGED cur
         /\ \A w \in Writer : w # Target(t) => file'[w] = file[w]
<1> USE Threads DEF Reading, Writing, Goto, Thrown, mainVars
<1>1. CASE Open(t)
  BY <1>1 DEF Open
<1>2. CASE Write(t)
  BY <1>2 DEF Write, Stored
<1>3. QED
  BY <1>1, <1>2

\* Steps that do not format keep RectInv if they let no thread into a store.
LEMMA RectKeeps ==
  ASSUME TypeInv, RectInv, [Next]_vars,
         UNCHANGED <<seen, saved>>,
         \A t \in Thread : pc'[t] \in Reading =>
           pc[t] \in Reading /\ Target(t)' = Target(t),
         \A t \in Thread : pc'[t] \in Writing =>
           pc[t] \in Writing /\ Target(t)' = Target(t),
         \A w \in Writer : Complete(w)' =>
           Complete(w) \/ \E t \in Thread : pc[t] \in Writing /\ Target(t) = w
  PROVE  RectInv'
<1> USE DEF Reading, Writing
<1>1. ASSUME NEW t \in Thread, pc'[t] \in Reading
      PROVE  Bounded(seen[t], Target(t))'
  <2>1. Target(t) \in Writer /\ seen[t] \in Sizes
    BY TargetType, Threads DEF TypeInv, TypeOK
  <2>2. Bounded(seen[t], Target(t))
    BY <1>1 DEF RectInv, SeenInv
  <2>3. QED
    BY <1>1, <2>1, <2>2, BoundedKeeps DEF Bounded
<1>2. ASSUME NEW w \in Writer, Sound(w)
      PROVE  Sound(w)'
  <2>1. saved[w] \in Sizes
    BY DEF TypeInv, TypeOK
  <2>2. QED
    BY <1>2, <2>1, BoundedKeeps DEF Sound, Formattable, Bounded
<1>3. SeenInv'
  BY <1>1 DEF SeenInv
<1>4. \A t \in Thread : pc'[t] \in Writing => Sound(Target(t))'
  <2> SUFFICES ASSUME NEW t \in Thread, pc'[t] \in Writing
               PROVE  Sound(Target(t))'
    OBVIOUS
  <2>1. Target(t) \in Writer /\ Sound(Target(t)) /\ Target(t)' = Target(t)
    BY TargetType DEF TypeInv, RectInv, SoundInv
  <2>2. QED
    BY <1>2, <2>1 DEF Sound, Bounded
<1>5. \A w \in Writer : Complete(w)' => Sound(w)'
  BY <1>2 DEF RectInv, SoundInv
<1>6. QED
  BY <1>3, <1>4, <1>5 DEF RectInv, SoundInv

\* A step of one thread in the middle of storeResults leaves the others alone.
LEMMA ReadEffect ==
  ASSUME TypeInv, NEW t \in Thread, CheckBegin(t) \/ CheckEnd(t) \/ Format(t)
  PROVE  /\ UNCHANGED <<jvm, hooked, file, cur, counts, failed, trouble>>
         /\ \A u \in Thread : u # t => pc'[u] = pc[u] /\ seen'[u] = seen[u]
         /\ \A u \in Thread : Target(u)' = Target(u)
         /\ \A w \in Writer : w # Target(t) => saved'[w] = saved[w]
BY Threads
DEF CheckBegin, CheckEnd, Format, Thrown, Goto, mainVars, dataVars, Target, TypeInv, TypeOK

\* The steps that read the lists keep the bounds of what is read and formatted.
LEMMA RectReads ==
  ASSUME TypeInv, FileInv, RectInv, [Next]_vars, NEW t \in Thread,
         CheckBegin(t) \/ CheckEnd(t) \/ Format(t)
  PROVE  RectInv'
<1> DEFINE w == Target(t)
<1> USE Threads
<1>1. w \in Writer /\ w' = w
  BY TargetType, ReadEffect DEF TypeInv
<1>2. seen \in [Thread -> Sizes] /\ saved \in [Writer -> Sizes] /\ seen' \in [Thread -> Sizes]
  BY TypeNext DEF TypeInv, TypeOK
<1>3. \A u \in Thread : Target(u)' = Target(u) /\ Target(u) \in Writer
  BY TargetType, ReadEffect DEF TypeInv
<1>4. \A v \in Writer : counts'[v] = counts[v] /\ (Complete(v)' <=> Complete(v))
  BY ReadEffect DEF Complete
<1>5. Bounded(counts[w], w)
  <2>1. \A b \in Benchmark, m \in Metric : counts[w][b][m] \in Nat
    BY <1>1, ListSizes
  <2>2. QED
    BY <2>1 DEF Bounded
<1>6. ASSUME NEW u \in Thread, pc'[u] \in {"scan", "format"}
      PROVE  Bounded(seen[u], Target(u))'
  <2>1. CASE u = t
    <3>1. seen'[t] = counts[w]
      BY <1>2, <1>6, <2>1
      DEF CheckBegin, CheckEnd, Format, Goto, Thrown
    <3>2. QED
      BY <1>1, <1>4, <1>5, <2>1, <3>1 DEF Bounded
  <2>2. CASE u # t
    <3>1. Bounded(seen[u], Target(u))
      BY <1>6, <2>2, ReadEffect DEF RectInv, SeenInv
    <3>2. QED
      BY <1>3, <1>4, <2>2, <3>1, ReadEffect DEF Bounded
  <2>3. QED
    BY <2>1, <2>2
<1>7. ASSUME NEW v \in Writer, v # w, Sound(v)
      PROVE  Sound(v)'
  BY <1>4, <1>7, ReadEffect DEF Sound, Formattable, Bounded
<1>8. ASSUME NEW u \in Thread, pc'[u] \in {"open", "write"}
      PROVE  Sound(Target(u))'
  <2>1. CASE u = t
    <3>1. Format(t) /\ ~Thrown(t)
      BY <1>8, <2>1 DEF CheckBegin, CheckEnd, Format, Goto, Thrown
    <3>2. PICK s \in Reads(t) : Formattable(s) /\ saved' = [saved EXCEPT ![w] = s]
      BY <3>1 DEF Format
    <3>3. Bounded(seen[t], w)
      BY <3>1 DEF Format, RectInv, SeenInv
    <3>4. Bounded(s, w)
      BY <3>3, ReadsBounded
    <3>5. saved'[w] = s
      BY <1>1, <1>2, <3>2
    <3>6. QED
      BY <1>1, <1>4, <2>1, <3>2, <3>4, <3>5 DEF Sound, Formattable, Bounded
  <2>2. CASE u # t
    <3>1. pc[u] \in {"open", "write"}
      BY <1>8, <2>2, ReadEffect
    <3>2. pc[t] \in {"check", "scan", "format"}
      BY DEF CheckBegin, CheckEnd, Format
    <3>3. Target(u) # w
      BY <2>2, <3>1, <3>2, Exclusive
    <3>4. Sound(Target(u))
      BY <3>1 DEF RectInv, SoundInv
    <3>5. Sound(Target(u))'
      BY <1>3, <1>4, <3>3, <3>4, ReadEffect DEF Sound, Formattable, Bounded
    <3>6. QED
      BY <3>5
  <2>3. QED
    BY <2>1, <2>2
<1>9. ASSUME NEW v \in Writer, Complete(v)'
      PROVE  Sound(v)'
  <2>1. Complete(v) /\ Sound(v)
    BY <1>4, <1>9 DEF RectInv, SoundInv
  <2>2. saved'[v] = saved[v]
    BY <2>1, FinalNext
  <2>3. QED
    BY <1>4, <2>1, <2>2 DEF Sound, Formattable, Bounded
<1>10. QED
  BY <1>6, <1>8, <1>9 DEF RectInv, SeenInv, SoundInv

\* Every step keeps what is read, formatted and written within bounds.
LEMMA RectNext ==
  ASSUME TypeInv, FileInv, RectInv, [Next]_vars
  PROVE  RectInv'
<1>1. CASE ~\E t \in Thread : StoreIO(t)
  <2>1. \A w \in Writer : Complete(w)' => Complete(w)
    BY <1>1, CalmEffect DEF Complete
  <2>2. QED
    BY <1>1, <2>1, CalmEffect, RectKeeps DEF Reading, Writing
<1>2. CASE \E t \in Thread : Open(t) \/ Write(t)
  <2>1. PICK t \in Thread : Open(t) \/ Write(t)
    BY <1>2
  <2>2. \A u \in Thread : pc'[u] \in Reading \cup Writing =>
          pc'[u] = pc[u] \/ (u = t /\ pc'[u] = "write")
    BY <2>1, WriteEffect DEF Reading, Writing
  <2>3. \A u \in Thread : pc'[u] \in Reading \cup Writing => Target(u)' = Target(u)
    BY <2>1, WriteEffect, Threads DEF Reading, Writing, Target, FileInv, UnhookedInv, HookInv
  <2>4. \A w \in Writer : Complete(w)' => Complete(w) \/ w = Target(t)
    BY <2>1, WriteEffect DEF Complete
  <2>5. pc[t] \in Writing /\ UNCHANGED <<seen, saved>>
    BY <2>1, WriteEffect
  <2>6. QED
    BY <2>2, <2>3, <2>4, <2>5, RectKeeps DEF Reading, Writing
<1>3. CASE \E t \in Thread : CheckBegin(t) \/ CheckEnd(t) \/ Format(t)
  BY <1>3, RectReads
<1>4. QED
  BY <1>1, <1>2, <1>3 DEF StoreIO

(* Whatever the writer's hook reads while the main thread still adds       *)
(* values, a file that storeResults has finished holds the same number of  *)
(* values for every metric of a benchmark it reports, and no more of them  *)
(* than were measured (formatResults and getResultData).                   *)
THEOREM RectangularCorrect == Spec => []FinishedFileIsRectangular
<1>1. RectInv => FinishedFileIsRectangular
  BY DEF RectInv, SoundInv, Sound, Bounded, FinishedFileIsRectangular
<1>2. TypeInv /\ FileInv /\ RectInv /\ [Next]_vars => RectInv'
  BY RectNext
<1>3. QED
  BY TypeInit, TypeNext, FileInit, FileNext, RectInit, <1>1, <1>2, PTL DEF Spec

-----------------------------------------------------------------------------
(* Files that say "normal" agree.  Between two events all writers hold the *)
(* same lists; while one is dispatched, those before the current one are   *)
(* ahead by it (DispatchedInv).  The main thread stores when no event is   *)
(* being dispatched and nothing can extend the lists any more, so that it  *)
(* checks, formats and writes exactly what they hold (ExactInv).           *)

Last == NumWriters

\* addMeasurement and the failure notification, dispatched to one writer after
\* the other; each dispatch begins with the first one.
DispatchedInv ==
  /\ \A w \in Writer :
       counts[w] = IF pc[Main] = "deliver" /\ w < cur
                   THEN [counts[Last] EXCEPT ![bench][metric] = @ + 1] ELSE counts[Last]
  /\ \A w \in Writer :
       failed[w] = IF pc[Main] = "failing" /\ w < cur
                   THEN failed[Last] \cup {bench} ELSE failed[Last]
  /\ pc[Main] \in {"init", "op"} => cur = 1

Exact(w) == Consistent(saved[w]) /\ saved[w] = counts[w]

ExactInv ==
  /\ pc[Main] \in {"scan", "format"} => seen[Main] = counts[cur]
  /\ pc[Main] = "format" => Consistent(counts[cur])
  /\ pc[Main] \in {"open", "write"} => Exact(cur)
  /\ \A w \in Writer : file[w] = "normal" => Exact(w)

\* The last writer is a writer.
LEMMA LastWriter ==
  ASSUME TypeInv
  PROVE  /\ Last \in Writer /\ 1 \in Writer
         /\ cur \in Writer /\ ~(Last < cur)
         /\ ~(cur < Last) => cur = Last
         /\ \A w \in Writer : ~(w < 1) /\ (w < cur + 1 <=> w < cur \/ w = cur)
         /\ \A w \in Writer : w < Last \/ w = Last
BY ConfigAssumption DEF TypeInv, TypeOK, Writer, Last

\* Initially nothing is measured.
LEMMA AgreeInit == Init => DispatchedInv /\ ExactInv
BY ConfigAssumption DEF Init, DispatchedInv, ExactInv, Thread, Writer, Main, Last

\* One more writer has been told a measurement.
LEMMA DispatchedDeliver ==
  ASSUME TypeInv, DispatchedInv, Deliver
  PROVE  DispatchedInv'
<1> USE Threads, LastWriter
<1>1. pc[Main] = "deliver" /\ counts \in [Writer -> Sizes] /\ UNCHANGED failed
  BY DEF Deliver, TypeInv, TypeOK
<1>2. DEFINE ahead == [counts[Last] EXCEPT ![bench][metric] = @ + 1]
<1>3. counts' = [counts EXCEPT ![cur] = ahead]
  <2>1. counts[cur] = counts[Last]
    <3>1. ~(cur < cur)
      BY DEF Writer
    <3>2. QED
      BY <1>1, <3>1 DEF DispatchedInv
  <2>2. counts' = [counts EXCEPT ![cur] = [counts[cur] EXCEPT ![bench][metric] = @ + 1]]
    BY DEF Deliver
  <2>3. QED
    BY <2>1, <2>2
<1>4. \A w \in Writer : counts[w] = IF w < cur THEN ahead ELSE counts[Last]
  BY <1>1 DEF DispatchedInv
<1>5. \A w \in Writer : failed[w] = failed[Last]
  BY <1>1 DEF DispatchedInv
<1> HIDE DEF ahead
<1>6. CASE cur < NumWriters
  <2>1. cur' = cur + 1 /\ UNCHANGED <<pc, bench, metric>>
    BY <1>6 DEF Deliver, Dispatched
  <2>2. counts'[Last] = counts[Last]
    BY <1>1, <1>3, <1>6 DEF Last
  <2>3. ahead = [counts'[Last] EXCEPT ![bench'][metric'] = @ + 1]
    BY <2>1, <2>2 DEF ahead
  <2>4. \A w \in Writer : counts'[w] = IF w < cur' THEN ahead ELSE counts'[Last]
    BY <1>1, <1>3, <1>4, <2>1, <2>2
  <2>5. QED
    BY <1>1, <1>5, <2>1, <2>3, <2>4 DEF DispatchedInv
<1>7. CASE ~(cur < NumWriters)
  <2>1. cur' = 1 /\ pc'[Main] \in {"deliver", "op"}
    BY <1>1, <1>7 DEF Deliver, Dispatched, MetricDone, Goto
  <2>2. cur = Last
    BY <1>7 DEF Last
  <2>3. \A w \in Writer : counts'[w] = ahead
    BY <1>1, <1>3, <1>4, <2>2
  <2>4. \A w \in Writer : counts'[w] = counts'[Last] /\ ~(w < cur')
    BY <2>1, <2>3
  <2>5. QED
    BY <1>1, <1>5, <2>1, <2>4 DEF DispatchedInv
<1>8. QED
  BY <1>6, <1>7

\* One more writer has been told a failure.
LEMMA DispatchedFailure ==
  ASSUME TypeInv, DispatchedInv, NotifyFailure
  PROVE  DispatchedInv'
<1> USE Threads, LastWriter
<1>1. pc[Main] = "failing" /\ UNCHANGED counts /\ failed \in [Writer -> SUBSET Benchmark]
  BY DEF NotifyFailure, TypeInv, TypeOK
<1>2. failed' = [failed EXCEPT ![cur] = failed[Last] \cup {bench}]
  BY <1>1 DEF NotifyFailure, DispatchedInv
<1>3. \A w \in Writer : counts[w] = counts[Last]
  BY <1>1 DEF DispatchedInv
<1>4. CASE cur < NumWriters
  <2>1. cur' = cur + 1 /\ UNCHANGED <<pc, bench, metric>>
    BY <1>4 DEF NotifyFailure, Dispatched
  <2>2. failed'[Last] = failed[Last]
    BY <1>1, <1>2, <1>4 DEF Last
  <2>3. \A w \in Writer :
          failed'[w] = IF w < cur' THEN failed'[Last] \cup {bench'} ELSE failed'[Last]
    BY <1>1, <1>2, <2>1, <2>2 DEF DispatchedInv
  <2>4. QED
    BY <1>1, <1>3, <2>1, <2>3 DEF DispatchedInv
<1>5. CASE ~(cur < NumWriters)
  <2>1. cur' = 1 /\ pc'[Main] = "op"
    BY <1>1, <1>5 DEF NotifyFailure, Dispatched, BenchmarkFailed, Goto
  <2>2. \A w \in Writer : failed'[w] = failed'[Last]
    BY <1>1, <1>2, <1>5 DEF DispatchedInv, Last
  <2>3. QED
    BY <1>1, <1>3, <2>1, <2>2 DEF DispatchedInv
<1>6. QED
  BY <1>4, <1>5

\* A step that tells the writers nothing keeps their agreement, if it leaves the
\* dispatch alone or is before the first writer of one, or after the last one.
LEMMA DispatchedKeeps ==
  ASSUME TypeInv, DispatchedInv,
         UNCHANGED <<counts, failed>>,
         \/ pc'[Main] = pc[Main] /\ UNCHANGED <<cur, bench, metric>>
         \/ /\ pc[Main] \in {"deliver", "failing"} => cur = 1
            /\ pc'[Main] \in {"init", "op", "deliver", "failing"} => cur' = 1
  PROVE  DispatchedInv'
<1> USE Threads, LastWriter
<1>1. CASE pc'[Main] = pc[Main] /\ UNCHANGED <<cur, bench, metric>>
  BY <1>1 DEF DispatchedInv
<1>2. CASE /\ pc[Main] \in {"deliver", "failing"} => cur = 1
           /\ pc'[Main] \in {"init", "op", "deliver", "failing"} => cur' = 1
  <2>1. \A w \in Writer : counts[w] = counts[Last] /\ failed[w] = failed[Last]
    BY <1>2 DEF DispatchedInv
  <2>2. QED
    BY <1>2, <2>1 DEF DispatchedInv
<1>3. QED
  BY <1>1, <1>2

\* What the threads' steps in storeResults and sys.exit do to the main thread.
LEMMA StoreEffect ==
  ASSUME TypeInv, NEW t \in Thread, StoreStep(t)
  PROVE  /\ UNCHANGED <<hooked, bench, rep, metric, failures, counts, failed>>
         /\ pc[t] \in StorePC \cup {"exit"}
         /\ pc'[Main] \in StorePC \cup {"return", "exit", "blocked", pc[Main]}
         /\ t # Main => pc'[Main] = pc[Main] /\ UNCHANGED cur
         /\ t = Main => pc'[Main] \in StorePC \cup {"return", "exit", "blocked"}
<1> USE Threads
<1>1. CASE Lock(t) \/ CheckBegin(t) \/ CheckEnd(t) \/ Format(t) \/ Open(t) \/ Write(t)
  BY <1>1
  DEF Lock, CheckBegin, CheckEnd, Format, Open, Write, Stored, Thrown, Goto, mainVars,
      dataVars, StorePC
<1>2. CASE Exit(t)
  <2>1. Main \notin hooked
    OBVIOUS
  <2>2. QED
    BY <1>2, <2>1 DEF Exit, StartHooks, Goto, mainVars, dataVars
<1>3. QED
  BY <1>1, <1>2 DEF StoreStep

\* Every step keeps the agreement of the writers.
LEMMA DispatchedNext ==
  ASSUME TypeInv, DispatchedInv, [Next]_vars
  PROVE  DispatchedInv'
<1> USE Threads
<1>1. CASE Deliver \/ NotifyFailure
  BY <1>1, DispatchedDeliver, DispatchedFailure
<1>2. CASE AfterHarnessInit \/ HarnessShutdown \/ Return
  <2>1. UNCHANGED <<counts, failed, cur>> /\ pc[Main] \in {"init", "op", "return"}
    BY <1>2 DEF AfterHarnessInit, HarnessShutdown, Return, mainVars, dataVars
  <2>2. pc'[Main] \in {"op", "exit", "lock", "done"}
    BY <1>2 DEF AfterHarnessInit, HarnessShutdown, Return, Goto
  <2>3. pc[Main] = "return" => pc'[Main] # "op"
    BY <1>2 DEF AfterHarnessInit, HarnessShutdown, Return, Goto
  <2>4. QED
    BY <2>1, <2>2, <2>3, DispatchedKeeps DEF DispatchedInv
<1>3. CASE LoadFails \/ BenchmarkDone
  <2>1. UNCHANGED <<counts, failed, cur, pc>> /\ pc[Main] = "op"
    BY <1>3 DEF LoadFails, BenchmarkDone
  <2>2. QED
    BY <2>1, DispatchedKeeps DEF DispatchedInv
<1>4. CASE Operation \/ BenchmarkFails \/ PluginThrows
  <2>1. UNCHANGED <<counts, failed>> /\ cur' = 1 /\ (pc[Main] = "deliver" => cur = 1)
    BY <1>4 DEF Operation, BenchmarkFails, PluginThrows
  <2>2. pc[Main] \in {"op", "deliver"}
    BY <1>4 DEF Operation, BenchmarkFails, PluginThrows
  <2>3. QED
    BY <2>1, <2>2, DispatchedKeeps
<1>5. CASE RemoveHook
  <2>1. UNCHANGED <<counts, failed>> /\ pc[Main] = "remove" /\ pc'[Main] \in {"check", "exit"}
    BY <1>5 DEF RemoveHook, Thrown, Goto, dataVars
  <2>2. QED
    BY <2>1, DispatchedKeeps
<1>6. CASE \E t \in Thread : StoreStep(t)
  <2>1. PICK t \in Thread : StoreStep(t)
    BY <1>6
  <2>2. CASE t # Main
    BY <2>1, <2>2, StoreEffect, DispatchedKeeps
  <2>3. CASE t = Main
    BY <2>1, <2>3, StoreEffect, DispatchedKeeps DEF StorePC
  <2>4. QED
    BY <2>2, <2>3
<1>7. CASE DestroyJavaVM \/ Signal \/ Halt \/ UNCHANGED vars
  <2>1. UNCHANGED <<counts, failed, cur, bench, metric>>
    BY <1>7 DEF DestroyJavaVM, Signal, Halt, vars, mainVars, dataVars
  <2>2. pc'[Main] = pc[Main]
    BY <1>7 DEF DestroyJavaVM, Signal, Halt, vars, StartHooks
  <2>3. QED
    BY <2>1, <2>2, DispatchedKeeps
<1>8. CASE FailureListenerThrows
  <2>1. /\ UNCHANGED <<counts, failed, cur>> /\ cur = 1
        /\ pc[Main] = "failing" /\ pc'[Main] = "op"
    BY <1>8 DEF FailureListenerThrows, BenchmarkFailed, Goto, dataVars
  <2>2. QED
    BY <2>1, DispatchedKeeps
<1>9. QED
  BY <1>1, <1>2, <1>3, <1>4, <1>5, <1>6, <1>7, <1>8 DEF Next, MainStep

\* While the main thread stores, no reader of its lists can miss an entry.
LEMMA NothingEmerges ==
  ASSUME TypeInv, NEW t \in Thread, seen[t] = counts[Target(t)],
         t = Main \/ pc[Main] # "deliver"
  PROVE  Emerging(t) = {}
<1>1. Target(t) \in Writer
  BY TargetType DEF TypeInv
<1>2. \A b \in Benchmark, m \in Metric : counts[Target(t)][b][m] \in Nat
  BY <1>1, ListSizes
<1>3. ASSUME NEW k \in Benchmark \X Metric
      PROVE  ~(seen[t][k[1]][k[2]] = 0 /\ counts[Target(t)][k[1]][k[2]] > 0)
  BY <1>2
<1>4. QED
  BY <1>3 DEF Emerging

\* The sanity check and the formatting of a thread whose lists do not grow: it
\* judges and saves them as they are (checkBenchmarkResults, store).
LEMMA StoreExactly ==
  ASSUME TypeInv, NEW t \in Thread, seen[t] = counts[Target(t)],
         t = Main \/ pc[Main] # "deliver",
         CheckEnd(t) \/ Format(t)
  PROVE  /\ CheckEnd(t) => pc'[t] = IF Consistent(counts[Target(t)]) THEN "format" ELSE "exit"
         /\ Format(t) =>
              IF Formattable(counts[Target(t)])
              THEN pc'[t] = "open" /\ saved'[Target(t)] = counts[Target(t)]
              ELSE Thrown(t) /\ UNCHANGED saved
<1> USE Threads
<1>1. Emerging(t) = {} /\ \A s \in Reads(t) : s = counts[Target(t)]
  BY NothingEmerges, ReadsExactly
<1>2. CASE CheckEnd(t)
  <2>1. PICK s \in Reads(t) : \E verdict \in Verdicts(t, s) :
          Goto(t, IF verdict THEN "format" ELSE "exit")
    BY <1>2 DEF CheckEnd
  <2>2. s = counts[Target(t)]
    BY <1>1
  <2>3. Verdicts(t, s) = {Consistent(s)}
    BY <1>1 DEF Verdicts
  <2>4. PICK verdict \in Verdicts(t, s) : Goto(t, IF verdict THEN "format" ELSE "exit")
    BY <2>1
  <2>5. pc'[t] = IF Consistent(s) THEN "format" ELSE "exit"
    <3>1. verdict = Consistent(s)
      BY <2>3
    <3>2. QED
      BY <2>4, <3>1 DEF Goto
  <2>6. pc[t] = "scan" /\ ~Format(t)
    BY <1>2 DEF CheckEnd, Format
  <2>7. QED
    BY <2>2, <2>5, <2>6
<1>3. CASE Format(t)
  <2>1. Target(t) \in Writer /\ saved \in [Writer -> Sizes]
    BY TargetType DEF TypeInv, TypeOK
  <2>2. ~CheckEnd(t)
    BY <1>3 DEF CheckEnd, Format
  <2>3. PICK s \in Reads(t) :
          \/ /\ Formattable(s)
             /\ saved' = [saved EXCEPT ![Target(t)] = s]
             /\ Goto(t, "open")
          \/ ~Formattable(s) /\ Thrown(t) /\ UNCHANGED saved
    BY <1>1, <1>3 DEF Format
  <2>4. s = counts[Target(t)]
    BY <1>1
  <2>5. CASE Formattable(s)
    BY <2>1, <2>2, <2>3, <2>4, <2>5 DEF Goto
  <2>6. CASE ~Formattable(s)
    BY <2>2, <2>3, <2>4, <2>6
  <2>7. QED
    BY <2>5, <2>6
<1>4. QED
  BY <1>2, <1>3

\* A "normal" file stays what it is: its lists are complete, and the file is final.
LEMMA NormalKeeps ==
  ASSUME TypeInv, FileInv, ExactInv, [Next]_vars, NEW w \in Writer, file[w] = "normal"
  PROVE  Exact(w)' /\ file'[w] = "normal"
<1>1. Passed(w)
  BY DEF FileInv, NormalInv
<1>2. ~Deliver
  BY <1>1 DEF Passed, StorePC, Deliver
<1>3. UNCHANGED counts
  BY <1>2, OnlyDeliver
<1>4. saved'[w] = saved[w] /\ file'[w] = file[w]
  BY FinalNext DEF Complete
<1>5. QED
  BY <1>3, <1>4 DEF ExactInv, Exact, Consistent, Lists

\* The steps of a shutdown hook reach nothing the main thread reads or formats.
LEMMA ExactHook ==
  ASSUME TypeInv, FileInv, ExactInv, [Next]_vars, NEW t \in Writer, StoreStep(t)
  PROVE  ExactInv'
<1> USE Threads
<1>1. t \in Thread /\ t # Main /\ Target(t) = t
  BY DEF Target
<1>2. pc'[Main] = pc[Main] /\ UNCHANGED <<cur, counts>>
  BY <1>1, StoreEffect
<1>3. seen'[Main] = seen[Main]
  BY <1>1
  DEF StoreStep, Lock, CheckBegin, CheckEnd, Format, Open, Write, Exit, fileVars, TypeInv,
      TypeOK
<1>4. pc[Main] \in {"open", "write"} => saved'[cur] = saved[cur]
  <2> SUFFICES ASSUME pc[Main] \in {"open", "write"}
               PROVE  saved'[cur] = saved[cur]
    OBVIOUS
  <2>1. CASE Format(t)
    <3>1. Target(Main) # t
      BY <1>1, <2>1, Exclusive DEF Format
    <3>2. QED
      BY <1>1, <2>1, <3>1, ReadEffect DEF Target
  <2>2. CASE ~Format(t)
    BY <2>2 DEF StoreStep, Lock, CheckBegin, CheckEnd, Open, Write, Exit, fileVars
  <2>3. QED
    BY <2>1, <2>2
<1>5. \A w \in Writer : file'[w] = "normal" => file[w] = "normal"
  BY <1>1
  DEF StoreStep, Lock, CheckBegin, CheckEnd, Format, Open, Write, Exit, fileVars
<1>6. QED
  BY <1>2, <1>3, <1>4, <1>5, NormalKeeps DEF ExactInv, Exact, Consistent, Lists

\* The main thread reads and writes exactly what its lists hold.
LEMMA ExactMain ==
  ASSUME TypeInv, FileInv, ExactInv, [Next]_vars, StoreIO(Main)
  PROVE  ExactInv'
<1> USE Threads
<1>1. Target(Main) = cur /\ UNCHANGED counts
  BY StoreEffect DEF Target, StoreIO, StoreStep
<1>2. seen \in [Thread -> Sizes] /\ saved \in [Writer -> Sizes]
  BY DEF TypeInv, TypeOK
<1>3. ASSUME \A w \in Writer : file'[w] = "normal" => file[w] = "normal"
      PROVE  \A w \in Writer : file'[w] = "normal" => Exact(w)'
  BY <1>3, NormalKeeps
<1>4. CASE CheckBegin(Main)
  <2>1. pc'[Main] = "scan" /\ seen'[Main] = counts[cur] /\ UNCHANGED <<cur, file>>
    BY <1>1, <1>2, <1>4 DEF CheckBegin, Goto, mainVars
  <2>2. QED
    BY <1>1, <1>3, <2>1 DEF ExactInv
<1>5. CASE CheckEnd(Main)
  <2>1. seen[Main] = counts[cur]
    BY <1>5 DEF CheckEnd, ExactInv
  <2>2. pc'[Main] = IF Consistent(counts[cur]) THEN "format" ELSE "exit"
    BY <1>1, <1>5, <2>1, StoreExactly
  <2>3. seen'[Main] = counts[cur] /\ UNCHANGED <<cur, file>>
    BY <1>1, <1>2, <1>5 DEF CheckEnd, mainVars
  <2>4. Consistent(counts[cur])' <=> Consistent(counts[cur])
    BY <1>1, <2>3 DEF Consistent, Lists
  <2>5. QED
    BY <1>1, <1>3, <2>2, <2>3, <2>4 DEF ExactInv
<1>6. CASE Format(Main)
  <2>1. seen[Main] = counts[cur] /\ Consistent(counts[cur])
    BY <1>6 DEF Format, ExactInv
  <2>2. IF Formattable(counts[cur])
        THEN pc'[Main] = "open" /\ saved'[cur] = counts[cur]
        ELSE Thrown(Main) /\ UNCHANGED saved
    BY <1>1, <1>6, <2>1, StoreExactly
  <2>3. UNCHANGED <<cur, file>>
    BY <1>6, ReadEffect
  <2>4. pc'[Main] = "open" => Exact(cur)'
    BY <1>1, <2>1, <2>2, <2>3 DEF Exact, Consistent, Lists, Thrown, Goto
  <2>5. pc'[Main] \in {"open", "exit"}
    BY <2>2 DEF Thrown, Goto
  <2>6. QED
    BY <1>3, <2>3, <2>4, <2>5 DEF ExactInv
<1>7. CASE Open(Main)
  <2>1. Exact(cur) /\ UNCHANGED saved
    BY <1>7 DEF Open, ExactInv
  <2>2. pc'[Main] \in {"write", "exit"} /\ UNCHANGED cur
    BY <1>7 DEF Open, Thrown, Goto, mainVars
  <2>3. \A w \in Writer : file'[w] = "normal" => file[w] = "normal"
    BY <1>7 DEF Open
  <2>4. QED
    BY <1>1, <1>3, <2>1, <2>2, <2>3 DEF ExactInv, Exact, Consistent, Lists
<1>8. CASE Write(Main)
  <2>1. Exact(cur) /\ UNCHANGED saved
    BY <1>8 DEF Write, ExactInv
  <2>2. pc'[Main] \in {"lock", "return", "exit"}
    BY <1>8 DEF Write, Stored, Thrown, Goto
  <2>3. \A w \in Writer : file'[w] = "normal" => file[w] = "normal" \/ w = cur
    BY <1>1, <1>8 DEF Write
  <2>4. Exact(cur) => (\A w \in Writer : w = cur => Exact(w)')
    BY <1>1, <2>1 DEF Exact, Consistent, Lists
  <2>5. QED
    BY <2>1, <2>2, <2>3, <2>4, NormalKeeps DEF ExactInv
<1>9. QED
  BY <1>4, <1>5, <1>6, <1>7, <1>8 DEF StoreIO

\* Every step keeps what the main thread reads and writes exact.
LEMMA ExactNext ==
  ASSUME TypeInv, FileInv, ExactInv, [Next]_vars
  PROVE  ExactInv'
<1> USE Threads
<1>1. CASE ~\E t \in Thread : StoreIO(t)
  <2>1. UNCHANGED <<seen, saved, file>>
    BY <1>1, CalmEffect
  <2>2. pc'[Main] \in Reading \cup Writing => pc'[Main] = pc[Main] /\ UNCHANGED cur
    BY <1>1, CalmEffect DEF Target
  <2>3. pc[Main] \in Reading \cup Writing => UNCHANGED counts
    BY OnlyDeliver DEF Deliver, Reading, Writing
  <2>4. \A w \in Writer : file'[w] = "normal" => Exact(w)'
    BY <2>1, NormalKeeps
  <2>5. QED
    BY <2>1, <2>2, <2>3, <2>4 DEF ExactInv, Exact, Consistent, Lists, Reading, Writing
<1>2. CASE \E t \in Thread : StoreIO(t)
  BY <1>2, ExactMain, ExactHook DEF StoreIO, StoreStep
<1>3. QED
  BY <1>1, <1>2

(* The results of a normal termination: a file that says so holds every    *)
(* measurement the harness dispatched, passes the sanity check, and agrees *)
(* with every other (storeResults after beforeHarnessShutdown).            *)
THEOREM NormalFilesCorrect == Spec => []NormalFilesAgree
<1>1. ASSUME TypeInv, FileInv, DispatchedInv, ExactInv
      PROVE  NormalFilesAgree
  <2> SUFFICES ASSUME NEW w \in Writer, file[w] = "normal"
               PROVE  /\ Consistent(saved[w])
                      /\ \A v \in Writer : saved[w] = counts[v] /\ failed[v] = failed[w]
    BY DEF NormalFilesAgree
  <2>1. Consistent(saved[w]) /\ saved[w] = counts[w]
    BY <1>1 DEF ExactInv, Exact
  <2>2. pc[Main] \notin {"deliver", "failing"}
    BY <1>1 DEF FileInv, NormalInv, Passed, StorePC
  <2>3. \A v \in Writer : counts[v] = counts[Last] /\ failed[v] = failed[Last]
    BY <1>1, <2>2 DEF DispatchedInv
  <2>4. QED
    BY <2>1, <2>3
<1>2. TypeInv /\ DispatchedInv /\ [Next]_vars => DispatchedInv'
  BY DispatchedNext
<1>3. TypeInv /\ FileInv /\ ExactInv /\ [Next]_vars => ExactInv'
  BY ExactNext
<1>4. QED
  BY TypeInit, TypeNext, FileInit, FileNext, AgreeInit, <1>1, <1>2, <1>3, PTL DEF Spec

-----------------------------------------------------------------------------
(* Results survive an ordinary end: no signal, no failing file operation.  *)
(* The JVM then only begins to shut down when the main thread is done or   *)
(* blocked in exit (QuietInv), so that a hook reads lists that no longer   *)
(* grow.  The main thread has stored everything unless a listener threw    *)
(* (StoredInv); in that case it has stored nothing (ListenerInv), so that  *)
(* every hook runs (StartedInv) and, if it ends, has saved its lists       *)
(* (HookStoredInv).                                                        *)

Ordinary == trouble \cap {"signal", "io"} = {}

\* The measurements pass the sanity check.
Sane == Consistent(counts[Last])

QuietInv == Ordinary /\ jvm # "running" => pc[Main] \in {"blocked", "done"}

Ended == pc[Main] \in {"return", "exit", "blocked", "done"}

StoredInv ==
  Ordinary /\ Sane => \A w \in Writer :
    \/ pc[Main] \in StorePC /\ w < cur
    \/ Ended /\ "listener" \notin trouble
    => file[w] = "normal"

ListenerInv ==
  /\ "listener" \in trouble => pc[Main] \in {"exit", "blocked"}
  /\ "listener" \in trouble \/ pc[Main] \in {"init", "op", "deliver", "failing"}
       => hooked = Writer

StartedInv == \A w \in hooked : jvm # "running" => pc[w] # "idle"

HookStoredInv ==
  Ordinary => \A w \in Writer :
    /\ pc[w] \in {"scan", "format"} => seen[w] = counts[w]
    /\ Sane /\ pc[w] = "done" => file[w] = "forced"

HaltedInv == jvm = "halted" => \A w \in Writer : pc[w] \in {"idle", "done"}

EndInv == QuietInv /\ StoredInv /\ ListenerInv /\ StartedInv /\ HookStoredInv /\ HaltedInv

\* Initially nothing has happened and every hook is registered.
LEMMA EndInit == Init => EndInv
BY ConfigAssumption
DEF Init, EndInv, QuietInv, StoredInv, ListenerInv, StartedInv, HookStoredInv, HaltedInv,
    StorePC, Ended, Thread, Writer, Main

\* Trouble is never forgotten.
LEMMA TroubleStays ==
  ASSUME TypeInv, [Next]_vars
  PROVE  /\ trouble \subseteq trouble'
         /\ Ordinary' => Ordinary
<1>1. trouble \subseteq trouble'
  <2>1. CASE MainStep
    BY <2>1
    DEF MainStep, AfterHarnessInit, LoadFails, Operation, BenchmarkFails, BenchmarkDone,
        Deliver, PluginThrows, NotifyFailure, FailureListenerThrows, HarnessShutdown, Return,
        RemoveHook, Failure, Trouble
  <2>2. CASE \E t \in Thread : StoreStep(t)
    BY <2>2
    DEF StoreStep, Lock, CheckBegin, CheckEnd, Format, Open, Write, Exit, Failure, Trouble
  <2>3. CASE DestroyJavaVM \/ Signal \/ Halt \/ UNCHANGED vars
    BY <2>3 DEF DestroyJavaVM, Signal, Halt, vars, Trouble
  <2>4. QED
    BY <2>1, <2>2, <2>3 DEF Next
<1>2. QED
  BY <1>1 DEF Ordinary

\* Where and why the steps of the harness end the run.
LEMMA HarnessEnds ==
  ASSUME TypeInv, HarnessStep
  PROVE  /\ pc'[Main] # "return"
         /\ pc'[Main] = "lock" => pc[Main] = "op" /\ UNCHANGED cur
         /\ pc'[Main] \in {"exit", "done"} =>
              \/ pc[Main] = "return" /\ UNCHANGED <<counts, trouble>>
              \/ "listener" \in trouble'
         /\ "listener" \in trouble' =>
              "listener" \in trouble \/ (pc'[Main] = "exit" /\ pc[Main] # "return")
         /\ pc'[Main] \in {"init", "op", "deliver", "failing"} => pc[Main] # "return"
<1> USE Threads DEF Goto, Failure, Trouble
<1>1. CASE AfterHarnessInit \/ HarnessShutdown
  BY <1>1 DEF AfterHarnessInit, HarnessShutdown, mainVars
<1>2. CASE LoadFails \/ Operation \/ BenchmarkFails \/ BenchmarkDone \/ PluginThrows
  BY <1>2 DEF LoadFails, Operation, BenchmarkFails, BenchmarkDone, PluginThrows
<1>3. CASE Deliver \/ NotifyFailure \/ FailureListenerThrows
  BY <1>3 DEF Deliver, NotifyFailure, Dispatched, MetricDone, FailureListenerThrows,
              BenchmarkFailed
<1>4. CASE Return
  BY <1>4 DEF Return, dataVars
<1>5. QED
  BY <1>1, <1>2, <1>3, <1>4 DEF HarnessStep

\* The steps of the harness: the JVM runs, or the end is no ordinary one.
LEMMA EndHarness ==
  ASSUME TypeInv, FileInv, DispatchedInv, EndInv, [Next]_vars, HarnessStep
  PROVE  EndInv'
<1> USE Threads, HarnessEffect, HarnessEnds
<1>1. Ordinary' => jvm' = "running" /\ Ordinary
  BY TroubleStays DEF EndInv, QuietInv, HarnessPC
<1>3. "listener" \notin trouble
  BY DEF EndInv, ListenerInv, HarnessPC
<1>4. QuietInv'
  BY <1>1 DEF QuietInv
<1>5. StoredInv'
  <2> SUFFICES ASSUME Ordinary', Sane', NEW w \in Writer,
                      \/ pc'[Main] \in StorePC /\ w < cur'
                      \/ Ended' /\ "listener" \notin trouble'
               PROVE  file'[w] = "normal"
    BY DEF StoredInv
  <2>1. CASE pc'[Main] \in StorePC /\ w < cur'
    BY <2>1, LastWriter DEF DispatchedInv, HarnessPC, StorePC
  <2>2. CASE Ended' /\ "listener" \notin trouble'
    <3>1. pc[Main] = "return" /\ UNCHANGED <<counts, trouble>>
      BY <2>2 DEF Ended, HarnessPC
    <3>2. Sane
      BY <3>1 DEF Sane, Consistent, Lists
    <3>3. file[w] = "normal"
      BY <1>1, <1>3, <3>1, <3>2 DEF EndInv, StoredInv, Ended
    <3>4. QED
      BY <3>3
  <2>3. QED
    BY <2>1, <2>2
<1>6. ListenerInv'
  BY <1>3 DEF EndInv, ListenerInv, HarnessPC
<1>7. StartedInv'
  BY DEF EndInv, StartedInv
<1>8. HookStoredInv'
  BY <1>1 DEF HookStoredInv, FileInv, HookInv
<1>9. HaltedInv'
  BY DEF EndInv, HaltedInv
<1>10. QED
  BY <1>4, <1>5, <1>6, <1>7, <1>8, <1>9 DEF EndInv

\* The JVM starts its hooks when the main thread is done or in exit, or because of
\* a signal.
LEMMA EndStart ==
  ASSUME TypeInv, FileInv, DispatchedInv, EndInv, [Next]_vars, jvm = "running",
         UNCHANGED <<hooked, cur, counts, seen, saved, file>>,
         \/ StartHooks(pc) /\ (pc[Main] = "done" \/ ~Ordinary')
         \/ pc[Main] = "exit" /\ StartHooks([pc EXCEPT ![Main] = "blocked"]),
         "listener" \in trouble' => "listener" \in trouble
  PROVE  EndInv'
<1> USE Threads
<1>1. /\ jvm' = "hooks"
      /\ \A w \in Writer : pc[w] = "idle" /\ pc'[w] = IF w \in hooked THEN "lock" ELSE "idle"
  BY DEF StartHooks, FileInv, HookInv
<1>2. \/ pc'[Main] = pc[Main] /\ (pc[Main] = "done" \/ ~Ordinary')
      \/ pc[Main] = "exit" /\ pc'[Main] = "blocked"
  BY DEF StartHooks
<1>3. QuietInv'
  BY <1>2 DEF QuietInv
<1>4. StoredInv'
  <2> SUFFICES ASSUME Ordinary', Sane', NEW w \in Writer,
                      \/ pc'[Main] \in StorePC /\ w < cur'
                      \/ Ended' /\ "listener" \notin trouble'
               PROVE  file'[w] = "normal"
    BY DEF StoredInv
  <2>1. Ordinary /\ Sane /\ (trouble \subseteq trouble')
    BY TroubleStays DEF Sane, Consistent, Lists
  <2>2. Ended /\ "listener" \notin trouble
    BY <1>2, <2>1 DEF Ended, StorePC
  <2>3. QED
    BY <2>1, <2>2 DEF EndInv, StoredInv
<1>5. ListenerInv'
  BY <1>2 DEF EndInv, ListenerInv
<1>6. StartedInv'
  BY <1>1 DEF StartedInv
<1>7. HookStoredInv'
  BY <1>1 DEF HookStoredInv
<1>8. HaltedInv'
  BY <1>1 DEF HaltedInv
<1>9. QED
  BY <1>3, <1>4, <1>5, <1>6, <1>7, <1>8 DEF EndInv

\* Consistent lists can be formatted.
LEMMA SaneFormats ==
  ASSUME TypeInv, DispatchedInv, pc[Main] # "deliver", NEW w \in Writer
  PROVE  /\ Sane <=> Consistent(counts[w])
         /\ Sane => Formattable(counts[w])
<1>1. counts[w] = counts[Last]
  BY DEF DispatchedInv
<1>2. ASSUME Consistent(counts[w]), NEW b \in Benchmark, NEW m \in Metric, NEW n \in Metric,
             counts[w][b][m] > 0, counts[w][b][n] > 0
      PROVE  counts[w][b][m] = counts[w][b][n]
  <2>1. <<b, m>> \in Lists(counts[w]) /\ <<b, n>> \in Lists(counts[w])
    BY <1>2 DEF Lists
  <2>2. QED
    BY <1>2, <2>1 DEF Consistent
<1>3. QED
  BY <1>1, <1>2 DEF Sane, Formattable

\* A file operation only fails when that is counted as trouble.
LEMMA FailingFile ==
  ASSUME TypeInv, NEW t \in Thread, Open(t) \/ Write(t), Ordinary'
  PROVE  /\ Open(t) => /\ pc'[t] = "write" /\ UNCHANGED cur
                       /\ file' = [file EXCEPT ![Target(t)] = "partial"]
         /\ Write(t) =>
              /\ Stored(t)
              /\ file' = [file EXCEPT ![Target(t)] = IF t = Main THEN "normal" ELSE "forced"]
<1> USE Threads
<1>1. ~Failure("io")
  BY DEF Failure, Trouble, Ordinary
<1>2. CASE Open(t)
  BY <1>1, <1>2 DEF Open, Write, Goto, mainVars
<1>3. CASE Write(t)
  BY <1>1, <1>3 DEF Open, Write
<1>4. QED
  BY <1>2, <1>3

\* What a step in storeResults or sys.exit does to hooks and trouble.
LEMMA StoreTrouble ==
  ASSUME TypeInv, NEW t \in Thread, StoreStep(t)
  PROVE  /\ "listener" \in trouble' => "listener" \in trouble
         /\ ~Exit(t) => UNCHANGED jvm /\ \A u \in Thread : u # t => pc'[u] = pc[u]
         /\ pc'[t] # "idle"
         /\ \A u \in Thread : u # t => seen'[u] = seen[u]
<1> USE Threads
<1>1. seen \in [Thread -> Sizes]
  BY DEF TypeInv, TypeOK
<1>2. CASE Lock(t) \/ CheckBegin(t) \/ CheckEnd(t) \/ Format(t)
  BY <1>1, <1>2 DEF Lock, CheckBegin, CheckEnd, Format, Thrown, Goto, fileVars
<1>3. CASE Open(t) \/ Write(t)
  BY <1>3 DEF Open, Write, Stored, Thrown, Goto, Failure, Trouble
<1>4. CASE Exit(t)
  BY <1>4 DEF Exit, StartHooks, Goto, fileVars
<1>5. QED
  BY <1>2, <1>3, <1>4 DEF StoreStep

\* The steps of a shutdown hook.
LEMMA EndHook ==
  ASSUME TypeInv, FileInv, DispatchedInv, EndInv, ExactInv, [Next]_vars,
         NEW t \in Writer, StoreStep(t)
  PROVE  EndInv'
<1> USE Threads, StoreTrouble, StoreEffect
<1>1. /\ t \in Thread /\ t # Main /\ Target(t) = t
      /\ pc[t] # "idle" /\ jvm # "running"
  BY StoreEffect DEF Target, FileInv, HookInv, StorePC
<1>2. /\ pc'[Main] = pc[Main] /\ UNCHANGED <<cur, counts, hooked, jvm>>
      /\ \A u \in Thread : u # t => pc'[u] = pc[u]
  BY <1>1 DEF Exit, Goto
<1>3. Ordinary' => Ordinary /\ pc[Main] \in {"blocked", "done"}
  BY <1>1, TroubleStays DEF EndInv, QuietInv
<1>4. Sane' <=> Sane
  BY <1>2 DEF Sane, Consistent, Lists
<1>5. (trouble \subseteq trouble') /\ jvm # "halted"
  BY <1>1, TroubleStays DEF EndInv, HaltedInv, StorePC
<1>6. QuietInv'
  BY <1>2, <1>3 DEF QuietInv
<1>7. StoredInv'
  <2> SUFFICES ASSUME Ordinary', Sane', NEW w \in Writer,
                      \/ pc'[Main] \in StorePC /\ w < cur'
                      \/ Ended' /\ "listener" \notin trouble'
               PROVE  file'[w] = "normal"
    BY DEF StoredInv
  <2>1. file[w] = "normal"
    BY <1>2, <1>3, <1>4, <1>5 DEF EndInv, StoredInv, Ended
  <2>2. QED
    BY <2>1, NormalKeeps
<1>8. ListenerInv'
  BY <1>1, <1>2 DEF EndInv, ListenerInv
<1>9. StartedInv'
  BY <1>1, <1>2 DEF EndInv, StartedInv
<1>10. HookStoredInv'
  <2> SUFFICES ASSUME Ordinary', NEW w \in Writer
               PROVE  /\ pc'[w] \in {"scan", "format"} => seen'[w] = counts[w]
                      /\ Sane /\ pc'[w] = "done" => file'[w] = "forced"
    BY <1>2, <1>4 DEF HookStoredInv
  <2>1. CASE w # t
    <3>1. pc'[w] = pc[w] /\ seen'[w] = seen[w]
      BY <1>1, <1>2, <2>1
    <3>2. file[w] = "forced" => file'[w] = "forced"
      BY FinalNext DEF Complete
    <3>3. QED
      BY <1>3, <3>1, <3>2 DEF EndInv, HookStoredInv
  <2>2. CASE w = t
    <3>1. seen \in [Thread -> Sizes] /\ file \in [Writer -> {"absent", "partial", "normal", "forced"}]
      BY DEF TypeInv, TypeOK
    <3>2. pc[t] \in {"scan", "format"} => seen[t] = counts[t]
      BY <1>3 DEF EndInv, HookStoredInv
    <3>3. CASE Lock(t) \/ Exit(t)
      BY <1>1, <2>2, <3>3 DEF Lock, Exit, Goto
    <3>4. CASE CheckBegin(t)
      BY <1>1, <2>2, <3>1, <3>4 DEF CheckBegin, Goto
    <3>5. CASE CheckEnd(t)
      <4>1. pc'[t] \in {"format", "exit"} /\ seen'[t] = counts[t]
        BY <1>1, <3>1, <3>5 DEF CheckEnd, Goto
      <4>2. QED
        BY <2>2, <4>1
    <3>6. CASE Format(t)
      <4>1. pc[t] = "format" /\ pc[Main] # "deliver"
        BY <1>3, <3>6 DEF Format
      <4>2. Sane => Formattable(counts[t])
        BY <4>1, SaneFormats
      <4>3. IF Formattable(counts[t]) THEN pc'[t] = "open" ELSE Thrown(t)
        BY <1>1, <3>2, <3>6, <4>1, StoreExactly
      <4>4. pc'[t] \in {"open", "done"}
        BY <1>1, <4>3 DEF Thrown, Goto
      <4>5. QED
        BY <2>2, <4>2, <4>3, <4>4
    <3>7. CASE Open(t)
      <4>1. pc'[t] = "write"
        BY <1>1, <3>7, FailingFile
      <4>2. QED
        BY <2>2, <4>1
    <3>8. CASE Write(t)
      <4>1. file'[t] = "forced" /\ pc'[t] = "done"
        BY <1>1, <3>1, <3>8, FailingFile DEF Stored, Goto
      <4>2. QED
        BY <2>2, <4>1
    <3>9. QED
      BY <3>3, <3>4, <3>5, <3>6, <3>7, <3>8 DEF StoreStep
  <2>3. QED
    BY <2>1, <2>2
<1>11. HaltedInv'
  BY <1>2, <1>5 DEF HaltedInv
<1>12. QED
  BY <1>6, <1>7, <1>8, <1>9, <1>10, <1>11 DEF EndInv

\* The main thread in storeResults: one more file is "normal", or the end is no
\* ordinary one, or the lists do not pass the check.
LEMMA MainStores ==
  ASSUME TypeInv, FileInv, DispatchedInv, ExactInv, EndInv, [Next]_vars,
         StoreStep(Main), ~Exit(Main), Ordinary', Sane
  PROVE  \/ pc'[Main] \in StorePC /\ UNCHANGED cur
         \/ /\ file'[cur] = "normal"
            /\ \/ pc'[Main] = "lock" /\ cur' = cur + 1
               \/ pc'[Main] = "return" /\ cur = Last
<1> USE Threads, LastWriter DEF StorePC
<1>1. Target(Main) = cur /\ file \in [Writer -> {"absent", "partial", "normal", "forced"}]
  BY DEF Target
<1>2. pc[Main] # "deliver"
  BY StoreEffect
<1>3. CASE Lock(Main) \/ CheckBegin(Main)
  BY <1>3 DEF Lock, CheckBegin, Goto, mainVars
<1>4. CASE CheckEnd(Main)
  <2>1. seen[Main] = counts[cur] /\ UNCHANGED cur
    BY <1>4, ReadEffect DEF CheckEnd, ExactInv
  <2>2. Consistent(counts[cur])
    BY <1>2, SaneFormats
  <2>3. pc'[Main] = "format"
    BY <1>1, <1>4, <2>1, <2>2, StoreExactly
  <2>4. QED
    BY <2>1, <2>3
<1>5. CASE Format(Main)
  <2>1. seen[Main] = counts[cur] /\ UNCHANGED cur
    BY <1>5, ReadEffect DEF Format, ExactInv
  <2>2. Formattable(counts[cur])
    BY <1>2, SaneFormats
  <2>3. pc'[Main] = "open"
    BY <1>1, <1>5, <2>1, <2>2, StoreExactly
  <2>4. QED
    BY <2>1, <2>3
<1>6. CASE Open(Main)
  BY <1>6, FailingFile
<1>7. CASE Write(Main)
  <2>1. Stored(Main) /\ file'[cur] = "normal"
    BY <1>1, <1>7, FailingFile
  <2>2. QED
    BY <2>1 DEF Stored, Goto, Last
<1>8. QED
  BY <1>3, <1>4, <1>5, <1>6, <1>7 DEF StoreStep

\* The steps of the main thread in storeResults and sys.exit.
LEMMA EndMain ==
  ASSUME TypeInv, FileInv, DispatchedInv, ExactInv, EndInv, [Next]_vars, StoreStep(Main)
  PROVE  EndInv'
<1> USE Threads, StoreTrouble, StoreEffect
<1>1. CASE Exit(Main)
  <2>1. UNCHANGED <<hooked, cur, counts, seen, saved, file>> /\ pc[Main] = "exit"
    BY <1>1 DEF Exit, mainVars, dataVars, fileVars
  <2>2. CASE jvm = "running"
    BY <1>1, <2>1, <2>2, EndStart DEF Exit
  <2>3. CASE jvm # "running"
    <3>1. /\ UNCHANGED <<jvm, trouble>> /\ pc'[Main] = "blocked"
          /\ \A w \in Writer : pc'[w] = pc[w]
      BY <1>1, <2>3 DEF Exit, Goto
    <3>2. Sane' <=> Sane
      BY <2>1 DEF Sane, Consistent, Lists
    <3>3. QED
      BY <2>1, <3>1, <3>2
      DEF EndInv, QuietInv, StoredInv, ListenerInv, StartedInv, HookStoredInv, HaltedInv,
          Ordinary, Ended, StorePC
  <2>4. QED
    BY <2>2, <2>3
<1>2. CASE ~Exit(Main)
  <2>1. /\ UNCHANGED <<jvm, hooked, counts>>
        /\ \A w \in Writer : pc'[w] = pc[w] /\ seen'[w] = seen[w]
    BY <1>2
  <2>2. pc[Main] \in StorePC
    BY <1>2
    DEF StoreStep, Lock, CheckBegin, CheckEnd, Format, Open, Write, StorePC
  <2>3. "listener" \notin trouble /\ "listener" \notin trouble'
    BY <2>2 DEF EndInv, ListenerInv, StorePC
  <2>4. Ordinary' => Ordinary /\ jvm = "running"
    BY <2>2, TroubleStays DEF EndInv, QuietInv, StorePC
  <2>5. Sane' <=> Sane
    BY <2>1 DEF Sane, Consistent, Lists
  <2>6. QuietInv'
    BY <2>1, <2>4 DEF QuietInv
  <2>7. StoredInv'
    <3> SUFFICES ASSUME Ordinary', Sane', NEW w \in Writer,
                        \/ pc'[Main] \in StorePC /\ w < cur'
                        \/ Ended' /\ "listener" \notin trouble'
                 PROVE  file'[w] = "normal"
      BY DEF StoredInv
    <3>1. w < cur \/ (w = cur /\ file'[cur] = "normal")
      <4>1. \/ pc'[Main] \in StorePC /\ UNCHANGED cur
            \/ /\ file'[cur] = "normal"
               /\ \/ pc'[Main] = "lock" /\ cur' = cur + 1
                  \/ pc'[Main] = "return" /\ cur = Last
        BY <1>2, <2>5, MainStores
      <4>2. CASE pc'[Main] \in StorePC /\ UNCHANGED cur
        BY <4>2 DEF Ended, StorePC
      <4>3. CASE file'[cur] = "normal" /\ pc'[Main] = "lock" /\ cur' = cur + 1
        BY <4>3, LastWriter DEF Ended, StorePC
      <4>4. CASE file'[cur] = "normal" /\ pc'[Main] = "return" /\ cur = Last
        BY <4>4, LastWriter
      <4>5. QED
        BY <4>1, <4>2, <4>3, <4>4
    <3>2. w < cur => file[w] = "normal"
      BY <2>2, <2>4, <2>5 DEF EndInv, StoredInv
    <3>3. QED
      BY <3>1, <3>2, NormalKeeps
  <2>8. ListenerInv'
    BY <2>2, <2>3 DEF ListenerInv, StorePC
  <2>9. StartedInv'
    BY <2>1 DEF EndInv, StartedInv
  <2>10. HookStoredInv'
    BY <2>1, <2>4 DEF HookStoredInv, FileInv, HookInv
  <2>11. HaltedInv'
    BY <2>1 DEF EndInv, HaltedInv
  <2>12. QED
    BY <2>6, <2>7, <2>8, <2>9, <2>10, <2>11 DEF EndInv
<1>3. QED
  BY <1>1, <1>2

\* Every step keeps the facts about how the JVM ends.
LEMMA EndNext ==
  ASSUME TypeInv, FileInv, DispatchedInv, ExactInv, EndInv, [Next]_vars
  PROVE  EndInv'
<1> USE Threads
<1>1. CASE HarnessStep
  BY <1>1, EndHarness
<1>2. CASE RemoveHook
  <2>1. /\ pc[Main] = "remove" /\ UNCHANGED <<jvm, cur, counts, seen, file, trouble>>
        /\ \A w \in Writer : pc'[w] = pc[w]
    BY <1>2 DEF RemoveHook, Thrown, Goto, mainVars, dataVars, fileVars
  <2>2. \/ jvm = "running" /\ (hooked' \subseteq hooked) /\ pc'[Main] = "check"
        \/ jvm # "running" /\ hooked' = hooked /\ pc'[Main] = "exit"
    BY <1>2 DEF RemoveHook, Thrown, Goto
  <2>3. "listener" \notin trouble /\ (Ordinary => jvm = "running")
    BY <2>1 DEF EndInv, ListenerInv, QuietInv
  <2>4. Sane' <=> Sane
    BY <2>1 DEF Sane, Consistent, Lists
  <2>5. QED
    BY <2>1, <2>2, <2>3, <2>4
    DEF EndInv, QuietInv, StoredInv, ListenerInv, StartedInv, HookStoredInv, HaltedInv,
        Ordinary, Ended, StorePC
<1>3. CASE \E t \in Thread : StoreStep(t)
  BY <1>3, EndMain, EndHook
<1>4. CASE DestroyJavaVM \/ Signal
  <2>1. /\ jvm = "running" /\ StartHooks(pc)
        /\ UNCHANGED <<hooked, cur, counts, seen, saved, file>>
    BY <1>4 DEF DestroyJavaVM, Signal, mainVars, dataVars, fileVars
  <2>2. pc[Main] = "done" \/ ~Ordinary'
    BY <1>4 DEF DestroyJavaVM, Signal, Trouble, Ordinary
  <2>3. "listener" \in trouble' => "listener" \in trouble
    BY <1>4 DEF DestroyJavaVM, Signal, Trouble
  <2>4. QED
    BY <2>1, <2>2, <2>3, EndStart
<1>5. CASE Halt
  <2>1. /\ UNCHANGED <<hooked, pc, cur, counts, seen, file, trouble>>
        /\ jvm # "running" /\ jvm' # "running"
        /\ \A w \in Writer : pc[w] \in {"idle", "done"}
    BY <1>5 DEF Halt, mainVars, dataVars, fileVars
  <2>2. Sane' <=> Sane
    BY <2>1 DEF Sane, Consistent, Lists
  <2>3. QED
    BY <2>1, <2>2
    DEF EndInv, QuietInv, StoredInv, ListenerInv, StartedInv, HookStoredInv, HaltedInv,
        Ordinary, Ended
<1>6. CASE UNCHANGED vars
  <2>1. Sane' <=> Sane
    BY <1>6 DEF vars, Sane, Consistent, Lists
  <2>2. QED
    BY <1>6, <2>1
    DEF vars, EndInv, QuietInv, StoredInv, ListenerInv, StartedInv, HookStoredInv, HaltedInv,
        Ordinary, Ended
<1>7. QED
  BY <1>1, <1>2, <1>3, <1>4, <1>5, <1>6 DEF Next, MainStep, HarnessStep

(* A JVM that halts without a signal and without a failing file operation  *)
(* has saved all results that pass the sanity check: as "normal", by the   *)
(* main thread, unless a plugin's listener threw; otherwise by the hooks.  *)
THEOREM ResultsSurviveCorrect == Spec => []ResultsSurviveOrdinaryEnd
<1>1. ASSUME TypeInv, DispatchedInv, EndInv
      PROVE  ResultsSurviveOrdinaryEnd
  <2> USE Threads, LastWriter
  <2> SUFFICES ASSUME jvm = "halted", Ordinary, Consistent(counts[1]), NEW w \in Writer
               PROVE  /\ Complete(w)
                      /\ "listener" \notin trouble => file[w] = "normal"
    BY DEF ResultsSurviveOrdinaryEnd, Ordinary
  <2>1. pc[Main] \in {"blocked", "done"}
    BY <1>1 DEF EndInv, QuietInv
  <2>2. Sane
    BY <1>1, <2>1, SaneFormats
  <2>3. CASE "listener" \notin trouble
    BY <1>1, <2>1, <2>2, <2>3 DEF EndInv, StoredInv, Ended, Complete
  <2>4. CASE "listener" \in trouble
    <3>1. w \in hooked
      BY <1>1, <2>4 DEF EndInv, ListenerInv
    <3>2. pc[w] = "done"
      BY <1>1, <3>1 DEF EndInv, StartedInv, HaltedInv
    <3>3. file[w] = "forced"
      BY <1>1, <2>2, <3>2 DEF EndInv, HookStoredInv
    <3>4. QED
      BY <2>4, <3>3 DEF Complete
  <2>5. QED
    BY <2>3, <2>4
<1>2. TypeInv /\ DispatchedInv /\ [Next]_vars => DispatchedInv'
  BY DispatchedNext
<1>3. TypeInv /\ FileInv /\ ExactInv /\ [Next]_vars => ExactInv'
  BY ExactNext
<1>4. TypeInv /\ FileInv /\ DispatchedInv /\ ExactInv /\ EndInv /\ [Next]_vars => EndInv'
  BY EndNext
<1>5. QED
  BY TypeInit, TypeNext, FileInit, FileNext, AgreeInit, EndInit, <1>1, <1>2, <1>3, <1>4, PTL
  DEF Spec
=============================================================================
