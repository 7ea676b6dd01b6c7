--------------------------- MODULE ModuleLoading ---------------------------
(***************************************************************************)
(* How code gets loaded (Launcher.java, ModuleLoader.java,                 *)
(* ResourceUtils.java, BenchmarkSuite.java) and what becomes of the        *)
(* scratch directories (DirUtils.java): the launcher and the harness each  *)
(* create one, extract JAR files into it, once per module, and have a      *)
(* shutdown hook delete it, possibly while the main thread still works.    *)
(*                                                                         *)
(* A path is the sequence of its components, from the scratch base on.     *)
(* What a class contains is left out; that loading it may fail is not.     *)
(***************************************************************************)
EXTENDS Integers, Sequences, FiniteSets

CONSTANTS Benchmarks,   \* the names of the benchmarks to run, in order
          ModuleOf,     \* the module of each benchmark
          HarnessModule,
          Jars          \* of each module: the names of its JAR files, in order

Roots == {"launcher", "harness"}
Modules == DOMAIN Jars

\* The selection has no duplicates.  A benchmark called "lib" would have the directory
\* of the JAR files for its own.
ASSUME ModulesAssumption ==
  /\ Benchmarks \in Seq(STRING)
  /\ \A i, j \in DOMAIN Benchmarks : Benchmarks[i] = Benchmarks[j] => i = j
  /\ \A i \in DOMAIN Benchmarks :
       Benchmarks[i] # "lib" /\ ModuleOf[Benchmarks[i]] \in Modules \ {HarnessModule}
  /\ HarnessModule \in Modules /\ Modules \subseteq STRING
  /\ \A m \in Modules : Jars[m] \in Seq(STRING) \ {<<>>}

VARIABLES
  keep, useModules, \* the options --keep-scratch and --standalone (negated)
  fs,       \* the scratch directories: what each path is, "dir", "partial" or "whole"
  jvm,      \* "running", "hooks" or "halted"
  hooks,    \* roots whose deletion is registered, by a hook that has not begun yet
  walk,     \* of the hook of each root: the open directories, the innermost first,
            \* each with the entries of its listing still to be visited
  warned,   \* roots whose deletion ended with an exception, which the hook logs
  pc,       \* what the main thread does next
  root,     \* the scratch root it works in
  next,     \* the number of the benchmark it works on
  jar,      \* the number of the JAR file it extracts
  loader,   \* of each benchmark: the JAR files in the class path of its loader so far
  context,  \* the benchmark whose loader is the context class loader, or "app"
  failed,   \* failedBenchmarks
  late      \* history: the root that main was to register a hook for when the shutdown
            \* began, and those it worked in when no hook was left to delete them

options == <<keep, useModules>>
jvmVars == <<jvm, hooks, walk, warned>>
mainVars == <<pc, root, next, jar, loader, context, failed>>
vars == <<options, fs, jvmVars, mainVars, late>>

Names == {Benchmarks[i] : i \in DOMAIN Benchmarks}
Current == Benchmarks[next]
Module == IF root = "launcher" THEN HarnessModule ELSE ModuleOf[Current]

LibDir == <<root, Module, "lib">>
JarPath(j) == <<root, Module, "lib", Jars[Module][j]>>
ScratchDir == <<"harness", Module, Current>>
DataFile == <<"harness", Module, Current, "data">>

JarFile == Roots \X Modules \X {"lib"} \X UNION {{Jars[m][j] : j \in DOMAIN Jars[m]} : m \in Modules}

TypeOK ==
  /\ keep \in BOOLEAN /\ useModules \in BOOLEAN
  /\ fs \in [DOMAIN fs -> {"dir", "partial", "whole"}]
  /\ \A p \in DOMAIN fs : p[1] \in Roots
  /\ jvm \in {"running", "hooks", "halted"}
  /\ hooks \subseteq Roots /\ DOMAIN walk = Roots /\ warned \subseteq Roots
  /\ pc \in {"scratch", "register", "create", "context", "lib", "extract", "write",
             "class", "operation", "written", "end", "stopped"}
  /\ root \in Roots /\ next \in 1..(Len(Benchmarks) + 1) /\ jar \in Nat
  /\ root = "harness" /\ pc \notin {"scratch", "register", "create", "end", "stopped"} =>
       next <= Len(Benchmarks)
  /\ loader \in [Names -> Seq(JarFile)]
  /\ context \in Names \cup {"app"}
  /\ failed \subseteq Names /\ late \subseteq Roots

Init ==
  /\ keep \in BOOLEAN /\ useModules \in BOOLEAN
  /\ fs = <<>>
  /\ jvm = "running" /\ hooks = {} /\ walk = [r \in Roots |-> <<>>] /\ warned = {}
  /\ pc = "scratch" /\ root = "launcher" /\ next = 1 /\ jar = 1
  /\ loader = [b \in Names |-> <<>>]
  /\ context = "app" /\ failed = {} /\ late = {}

-----------------------------------------------------------------------------
(* Files.                                                                  *)

Parent(path) == SubSeq(path, 1, Len(path) - 1)
Children(dir) == {p \in DOMAIN fs : Parent(p) = dir}
Ancestors(path) == {SubSeq(path, 1, n) : n \in 1..Len(path)}

\* The shutdown has begun, and no hook is left that would delete the root.
Gone(r) == jvm # "running" /\ r \notin hooks /\ walk[r] = <<>>

\* The main thread changes the file system, below its root.
Touch(newFs) == fs' = newFs /\ late' = late \cup (IF Gone(root) THEN {root} ELSE {})

With(paths, kind) ==
  [p \in DOMAIN fs \cup paths |-> IF p \in paths \ DOMAIN fs THEN kind ELSE fs[p]]
Without(path) == [p \in DOMAIN fs \ {path} |-> fs[p]]

\* Files.createDirectories, with the missing parents (the root's too, if deleted).
CreateDirectories(path) == Touch(With(Ancestors(path), "dir"))

-----------------------------------------------------------------------------
(* The main thread.                                                        *)

Goto(label) == pc' = label /\ UNCHANGED <<root, next, jar, loader, context, failed>>

\* System.exit, or the end of the thread by an exception, or of its work.
Stop == Goto("stopped")

\* Faulty: the failed benchmark is tried again.
LoadingFails_Retry ==
  IF root = "launcher" THEN Stop
  ELSE /\ failed' = failed \cup {Current}
       /\ pc' = "context"
       /\ UNCHANGED <<root, next, jar, loader, context>>

\* Faulty: the end of the list is not noticed.
LoadingFails_NoEnd ==
  IF root = "launcher" THEN Stop
  ELSE /\ failed' = failed \cup {Current}
       /\ next' = next + 1 /\ pc' = "context"
       /\ UNCHANGED <<root, jar, loader, context>>

\* The launcher gives up; the harness goes on with the next benchmark.
LoadingFails ==
  IF root = "launcher" THEN Stop
  ELSE /\ failed' = failed \cup {Current}
       /\ next' = next + 1
       /\ pc' = IF next < Len(Benchmarks) THEN "context" ELSE "end"
       /\ UNCHANGED <<root, jar, loader, context>>

\* createScratchDirectory: createTempDirectory, which may fail.
CreateTempDirectory ==
  /\ pc = "scratch"
  /\ \/ /\ Touch(With({<<root>>}, "dir"))
        /\ Goto(IF keep THEN "create" ELSE "register")
     \/ /\ Stop /\ UNCHANGED <<fs, late>>
  /\ UNCHANGED <<options, jvmVars>>

\* ... and addShutdownHook, which throws once the JVM shuts down.
AddShutdownHook ==
  /\ pc = "register"
  /\ IF jvm = "running"
     THEN hooks' = hooks \cup {root} /\ Goto("create")
     ELSE Stop /\ UNCHANGED hooks
  /\ UNCHANGED <<options, fs, jvm, walk, warned, late>>

\* ModuleLoader.create and BenchmarkSuite.create read metadata, which may fail.
CreateSuite ==
  /\ pc = "create"
  /\ \/ Goto(IF root = "launcher" THEN "lib"
             ELSE IF Benchmarks = <<>> THEN "end" ELSE "context")
     \/ Stop
  /\ UNCHANGED <<options, fs, jvmVars, late>>

\* createBenchmarkContext
CreateBenchmarkContext ==
  /\ pc = "context"
  /\ \/ /\ CreateDirectories(ScratchDir)
        /\ Goto(IF useModules THEN "lib" ELSE "class")
     \/ /\ LoadingFails /\ UNCHANGED <<fs, late>>
  /\ UNCHANGED <<options, jvmVars>>

\* createModuleJarsDirectory
CreateModuleJarsDirectory ==
  /\ pc = "lib"
  /\ \/ /\ CreateDirectories(LibDir)
        /\ jar' = 1 /\ pc' = "extract"
        /\ UNCHANGED <<root, next, loader, context, failed>>
     \/ /\ LoadingFails /\ UNCHANGED <<fs, late>>
  /\ UNCHANGED <<options, jvmVars>>

\* The next JAR file, or the loader if this was the last one.
NextJar ==
  /\ IF jar < Len(Jars[Module]) THEN jar' = jar + 1 /\ pc' = "extract"
     ELSE pc' = "class" /\ UNCHANGED jar
  /\ UNCHANGED <<root, next, context, failed>>

\* The JAR file `jar` is in place.
AddJar ==
  /\ loader' = IF root = "launcher" THEN loader
               ELSE [loader EXCEPT ![Current] = Append(@, JarPath(jar))]
  /\ NextJar

\* The file is created first; a missing resource or directory makes this fail.
CreateFile ==
  \/ /\ LibDir \in DOMAIN fs
     /\ Touch(With({JarPath(jar)}, "partial")) /\ Goto("write")
  \/ LoadingFails /\ UNCHANGED <<fs, late>>

\* Faulty: a file that exists is left out of the result.
Extract_ExistingForgotten ==
  /\ pc = "extract"
  /\ IF JarPath(jar) \in DOMAIN fs
     THEN NextJar /\ UNCHANGED <<fs, late, loader>>
     ELSE CreateFile
  /\ UNCHANGED <<options, jvmVars>>

\* extractResources, for one JAR file: one that exists is not extracted again.
Extract ==
  /\ pc = "extract"
  /\ IF JarPath(jar) \in DOMAIN fs
     THEN AddJar /\ UNCHANGED <<fs, late>>
     ELSE CreateFile
  /\ UNCHANGED <<options, jvmVars>>

\* Faulty: a failure to copy is not rethrown.
WriteJar_FailureIgnored ==
  /\ pc = "write"
  /\ AddJar
  /\ \/ JarPath(jar) \in DOMAIN fs /\ Touch([fs EXCEPT ![JarPath(jar)] = "whole"])
     \/ UNCHANGED <<fs, late>>
  /\ UNCHANGED <<options, jvmVars>>

\* ... and copies the contents, unless this fails in the middle.
WriteJar ==
  /\ pc = "write"
  /\ \/ /\ AddJar
        /\ IF JarPath(jar) \in DOMAIN fs
           THEN Touch([fs EXCEPT ![JarPath(jar)] = "whole"]) ELSE UNCHANGED <<fs, late>>
     \/ LoadingFails /\ UNCHANGED <<fs, late>>
  /\ UNCHANGED <<options, jvmVars>>

\* loadAndInvokeHarnessClass: from here on the harness runs.
InvokeHarness ==
  /\ pc = "class" /\ root = "launcher"
  /\ \/ /\ root' = "harness" /\ pc' = "scratch"
        /\ UNCHANGED <<next, jar, loader, context, failed>>
     \/ LoadingFails
  /\ UNCHANGED <<options, fs, jvmVars, late>>

\* createBenchmark, once there is a class loader: the class is loaded, the context
\* class loader is set, and the constructor is called.
CreateBenchmark ==
  /\ pc = "class" /\ root = "harness"
  /\ \/ LoadingFails
     \/ /\ context' = IF useModules THEN Current ELSE "app"
        /\ \/ pc' = "operation" /\ UNCHANGED <<next, failed>>
           \/ /\ failed' = failed \cup {Current} /\ next' = next + 1
              /\ pc' = IF next < Len(Benchmarks) THEN "context" ELSE "end"
        /\ UNCHANGED <<root, jar, loader>>
  /\ UNCHANGED <<options, fs, jvmVars, late>>

\* A benchmark creates a file in its scratch directory.
WriteData ==
  /\ pc = "operation"
  /\ ScratchDir \in DOMAIN fs
  /\ Touch(With({DataFile}, "whole")) /\ Goto("written")
  /\ UNCHANGED <<options, jvmVars>>

\* executeBenchmark ends; the benchmark may delete its file.
FinishBenchmark ==
  /\ pc \in {"operation", "written"}
  /\ \/ DataFile \in DOMAIN fs /\ Touch(Without(DataFile))
     \/ UNCHANGED <<fs, late>>
  /\ failed' \in {failed, failed \cup {Current}}
  /\ next' = next + 1
  /\ pc' = IF next < Len(Benchmarks) THEN "context" ELSE "end"
  /\ UNCHANGED <<options, jvmVars, root, jar, loader, context>>

\* sys.exit(1) if benchmarks failed, else main returns.
FinishRun == pc = "end" /\ Stop /\ UNCHANGED <<options, fs, jvmVars, late>>

Main ==
  /\ jvm # "halted"
  /\ \/ CreateTempDirectory \/ AddShutdownHook \/ CreateSuite
     \/ CreateBenchmarkContext \/ CreateModuleJarsDirectory \/ Extract \/ WriteJar
     \/ InvokeHarness \/ CreateBenchmark \/ WriteData \/ FinishBenchmark \/ FinishRun

-----------------------------------------------------------------------------
(* The JVM, and the shutdown hooks: deleteRecursively.                     *)

StartHooks ==
  /\ jvm' = "hooks" /\ late' = IF pc = "register" THEN {root} ELSE {}
  /\ UNCHANGED <<options, fs, hooks, walk, warned, mainVars>>

Signal == jvm = "running" /\ pc # "stopped" /\ StartHooks
Exit == jvm = "running" /\ pc = "stopped" /\ StartHooks

Halt ==
  /\ jvm = "hooks" /\ hooks = {} /\ \A r \in Roots : walk[r] = <<>>
  /\ jvm' = "halted"
  /\ UNCHANGED <<options, fs, hooks, walk, warned, mainVars, late>>

Open(dir) == [dir |-> dir, left |-> Children(dir)]

\* An IOException, also of Files.delete, ends the walk; the hook logs a warning.
Fails(r) ==
  walk' = [walk EXCEPT ![r] = <<>>] /\ warned' = warned \cup {r} /\ UNCHANGED fs

BeginWalk(r) ==
  /\ jvm = "hooks" /\ r \in hooks
  /\ hooks' = hooks \ {r}
  /\ \/ walk' = [walk EXCEPT ![r] = <<Open(<<r>>)>>] /\ UNCHANGED <<warned, fs>>
     \/ Fails(r)
  /\ UNCHANGED <<options, jvm, mainVars, late>>

\* A file is deleted, or a directory opened, or this fails: at least if the entry is
\* gone.  (If a listing breaks off, its directory is not empty, and to delete it fails.)
Visit(r) ==
  \E e \in Head(walk[r]).left :
    LET visited == [walk[r] EXCEPT ![1].left = @ \ {e}] IN
    \/ Fails(r)
    \/ /\ e \in DOMAIN fs
       /\ IF fs[e] = "dir"
          THEN walk' = [walk EXCEPT ![r] = <<Open(e)>> \o visited] /\ UNCHANGED fs
          ELSE walk' = [walk EXCEPT ![r] = visited] /\ fs' = Without(e)
       /\ UNCHANGED warned

\* Faulty: the root is only cleaned, as cleanRecursively does.
PostVisitDirectory_KeepsRoot(r) ==
  LET dir == Head(walk[r]).dir IN
  /\ Head(walk[r]).left \cap DOMAIN fs = {}
  /\ \/ Fails(r)
     \/ /\ Children(dir) = {}
        /\ walk' = [walk EXCEPT ![r] = Tail(@)]
        /\ fs' = IF dir = <<r>> THEN fs ELSE Without(dir)
        /\ UNCHANGED warned
     \/ /\ Children(dir) # {}
        /\ walk' = [walk EXCEPT ![r][1].left = Children(dir)]
        /\ UNCHANGED <<fs, warned>>

\* A directory whose entries have been visited, or were gone before they were listed,
\* is deleted, unless this fails: at least if there are new entries, when the listing
\* does not include them.
PostVisitDirectory(r) ==
  LET dir == Head(walk[r]).dir IN
  /\ Head(walk[r]).left \cap DOMAIN fs = {}
  /\ \/ Fails(r)
     \/ /\ Children(dir) = {}
        /\ walk' = [walk EXCEPT ![r] = Tail(@)] /\ fs' = Without(dir)
        /\ UNCHANGED warned
     \/ /\ Children(dir) # {}
        /\ walk' = [walk EXCEPT ![r][1].left = Children(dir)]
        /\ UNCHANGED <<fs, warned>>

DeleteStep(r) ==
  /\ walk[r] # <<>>
  /\ Visit(r) \/ PostVisitDirectory(r)
  /\ UNCHANGED <<options, jvm, hooks, mainVars, late>>

Hook(r) == BeginWalk(r) \/ DeleteStep(r)

Next == Main \/ Signal \/ Exit \/ Halt \/ (\E r \in Roots : Hook(r))

\* Threads go on if they can; nothing makes a signal arrive.
Fairness ==
  /\ WF_vars(Main) /\ WF_vars(Exit) /\ WF_vars(Halt)
  /\ \A r \in Roots : WF_vars(Hook(r))

Spec == Init /\ [][Next]_vars /\ Fairness

-----------------------------------------------------------------------------
(* Properties.                                                             *)

\* The JAR files in the class path of a benchmark's loader.
JarsOf(b) == {loader[b][i] : i \in DOMAIN loader[b]}

(* A benchmark runs with a loader of its own, the context class loader,    *)
(* that has all JAR files of its module in their order and no others, no   *)
(* matter which of them an earlier benchmark extracted.                    *)
OwnClassPath ==
  pc = "operation" =>
    IF useModules
    THEN /\ context = Current
         /\ loader[Current] = [j \in DOMAIN Jars[Module] |-> JarPath(j)]
         /\ jvm = "running" => JarsOf(Current) \subseteq DOMAIN fs
    ELSE context = "app"

(* A partial JAR file gets into a class path only after a benchmark of the *)
(* same module was reported to have failed.                                *)
PartialJarsReported ==
  jvm = "running" =>
    \A b \in Names : \A p \in JarsOf(b) \cap DOMAIN fs :
      fs[p] = "partial" => \E a \in failed \ {b} : ModuleOf[a] = ModuleOf[b]

(* After the JVM has halted nothing is left of a scratch directory without *)
(* a word: unless it was to be kept, or the hook has logged that it could  *)
(* not delete it.  Two cases are excepted, `late`: the shutdown began      *)
(* before main had registered the hook, and main worked in the directory   *)
(* when the hook had come to its end.  Whatever main creates while the     *)
(* hook deletes is deleted as well, or makes the hook log a warning, and   *)
(* what becomes of one directory does not depend on the other.             *)
ScratchDeleted ==
  jvm = "halted" /\ ~keep =>
    \A p \in DOMAIN fs : p[1] \in late \cup warned

(* The JVM ends: deleting a directory that main still fills does not go on *)
(* forever.                                                                *)
JvmHalts == <>(jvm = "halted")

-----------------------------------------------------------------------------
(* What the documentation says, and the code does not do.                  *)

(* ModuleLoader.java:135 "Extract the JAR files and build an URL           *)
(* classloader for the module. Reuse the JAR files in the module directory *)
(* (but create a new classloader) to avoid repeatedly extracting the JAR   *)
(* files": what is reused are JAR files that have been extracted.          *)
ExtractedJarsReused ==
  jvm = "running" =>
    \A b \in Names : \A p \in JarsOf(b) \cap DOMAIN fs : fs[p] = "whole"
=============================================================================
