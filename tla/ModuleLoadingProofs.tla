------------------------ MODULE ModuleLoadingProofs ------------------------
(***************************************************************************)
(* Types of ModuleLoading, where partial JAR files come from, what gets    *)
(* into class paths, and that scratch directories are deleted.             *)
(***************************************************************************)
EXTENDS ModuleLoading, SequenceTheorems, TLAPS

\* Main loads something: the harness or an existing benchmark.
Loading == pc \in {"context", "lib", "extract", "write", "class", "operation", "written"}

\* The JAR file that is extracted is one of the module, and the first benchmark is
\* the next one until the harness has its suite.
JarInv ==
  /\ root = "launcher" \/ pc \in {"scratch", "register", "create"} => next = 1
  /\ root = "launcher" => pc \notin {"context", "operation", "written"}
  /\ pc \in {"extract", "write"} => jar \in DOMAIN Jars[Module]

TypeInv == TypeOK /\ JarInv

\* The assumptions on the constants, as facts.
LEMMA Constants ==
  /\ Benchmarks \in Seq(STRING) /\ Len(Benchmarks) \in Nat
  /\ DOMAIN Benchmarks = 1..Len(Benchmarks)
  /\ \A i \in 1..Len(Benchmarks) :
       /\ Benchmarks[i] \in Names /\ Benchmarks[i] # "lib"
       /\ ModuleOf[Benchmarks[i]] \in Modules
  /\ \A i, j \in 1..Len(Benchmarks) : Benchmarks[i] = Benchmarks[j] => i = j
  /\ HarnessModule \in Modules
  /\ \A m \in Modules : Jars[m] \in Seq(STRING) /\ Len(Jars[m]) \in Nat \ {0}
<1>1. Benchmarks \in Seq(STRING) /\ Len(Benchmarks) \in Nat
      /\ DOMAIN Benchmarks = 1..Len(Benchmarks)
  BY ModulesAssumption
<1>2. \A m \in Modules : Jars[m] \in Seq(STRING) /\ Len(Jars[m]) \in Nat \ {0}
  BY ModulesAssumption
<1>3. QED
  BY <1>1, <1>2, ModulesAssumption DEF Names

\* What main loads has a name and a module.
LEMMA CurrentType ==
  ASSUME TypeInv, Loading
  PROVE  /\ Module \in Modules /\ root \in Roots
         /\ root = "harness" =>
              /\ next \in 1..Len(Benchmarks)
              /\ Current \in Names /\ Current # "lib"
              /\ Module = ModuleOf[Current]
<1>1. root = "harness" => next \in 1..Len(Benchmarks)
  BY Constants DEF TypeInv, TypeOK, Loading
<1>2. root \in Roots
  BY DEF TypeInv, TypeOK
<1>3. QED
  BY <1>1, <1>2, Constants DEF Module, Current, Roots

\* JAR files lie in the library directory of their module.
LEMMA JarPathType ==
  ASSUME TypeInv, pc \in {"extract", "write"}
  PROVE  JarPath(jar) \in JarFile
<1>1. Module \in Modules /\ root \in Roots
  BY CurrentType DEF Loading
<1>2. jar \in DOMAIN Jars[Module]
  BY DEF TypeInv, JarInv
<1>3. QED
  BY <1>1, <1>2 DEF JarPath, JarFile

-----------------------------------------------------------------------------
\* The three parts of the types: of the file system, the JVM and the main thread.
FsType ==
  /\ fs \in [DOMAIN fs -> {"dir", "partial", "whole"}]
  /\ \A p \in DOMAIN fs : p[1] \in Roots

JvmType ==
  /\ keep \in BOOLEAN /\ useModules \in BOOLEAN
  /\ jvm \in {"running", "hooks", "halted"}
  /\ hooks \subseteq Roots /\ DOMAIN walk = Roots
  /\ warned \subseteq Roots /\ late \subseteq Roots

MainType ==
  /\ pc \in {"scratch", "register", "create", "context", "lib", "extract", "write",
             "class", "operation", "written", "end", "stopped"}
  /\ root \in Roots /\ next \in 1..(Len(Benchmarks) + 1) /\ jar \in Nat
  /\ root = "harness" /\ pc \notin {"scratch", "register", "create", "end", "stopped"} =>
       next <= Len(Benchmarks)
  /\ loader \in [Names -> Seq(JarFile)]
  /\ context \in Names \cup {"app"}
  /\ failed \subseteq Names
  /\ JarInv

\* The parts make up the whole.
LEMMA TypeParts == TypeInv <=> FsType /\ JvmType /\ MainType
BY DEF TypeInv, TypeOK, FsType, JvmType, MainType

\* The directories above a path, and the path, lie below its root.
LEMMA AncestorsType ==
  ASSUME NEW r, NEW m, NEW c, NEW q \in Ancestors(<<r, m, c>>)
  PROVE  q[1] = r
BY DEF Ancestors

\* Touching the file system keeps the flags of the JVM.
LEMMA TouchType ==
  ASSUME JvmType, MainType, late' = late \cup (IF Gone(root) THEN {root} ELSE {}),
         UNCHANGED <<options, jvmVars>>
  PROVE  JvmType'
<1>1. late' \subseteq Roots
  BY DEF JvmType, MainType
<1>2. QED
  BY <1>1 DEF JvmType, options, jvmVars

\* A change of the label alone keeps the types of main.
LEMMA GotoType ==
  ASSUME MainType,
         UNCHANGED <<root, next, jar, loader, context, failed>>,
         \/ pc' \in {"end", "stopped"}
         \/ pc' \in {"register", "create"} /\ pc \in {"scratch", "register"}
         \/ pc' \in {"lib", "class"} /\ (root = "launcher" \/ next <= Len(Benchmarks))
         \/ pc' = "context" /\ root = "harness" /\ next <= Len(Benchmarks)
         \/ pc' = "write" /\ pc = "extract"
         \/ pc' = "written" /\ pc = "operation"
  PROVE  MainType'
<1>1. Module' = Module
  BY DEF Module, Current
<1>2. QED
  BY <1>1 DEF MainType, JarInv, Roots

\* When loading fails the launcher stops, and the harness goes on.
LEMMA FailsType ==
  ASSUME TypeInv, Loading, LoadingFails
  PROVE  MainType'
<1>1. CASE root = "launcher"
  <2>1. pc' = "stopped" /\ UNCHANGED <<root, next, jar, loader, context, failed>>
    BY <1>1 DEF LoadingFails, Stop, Goto
  <2>2. MainType
    BY TypeParts
  <2>3. QED
    BY <2>1, <2>2, GotoType
<1>2. CASE root # "launcher"
  <2>1. next \in 1..Len(Benchmarks) /\ Current \in Names /\ root = "harness"
    BY <1>2, CurrentType DEF Roots
  <2>2. QED
    BY <1>2, <2>1, TypeParts, Constants DEF LoadingFails, MainType, JarInv
<1>3. QED
  BY <1>1, <1>2

\* After a JAR file comes the next one, or the class.
LEMMA AddJarType ==
  ASSUME TypeInv, pc \in {"extract", "write"}, AddJar
  PROVE  MainType'
<1> USE TypeParts DEF NextJar
<1>1. JarPath(jar) \in JarFile /\ Module \in Modules /\ jar \in DOMAIN Jars[Module]
  BY JarPathType, CurrentType DEF Loading, TypeInv, JarInv
<1>2. root = "harness" => Current \in Names
  BY CurrentType DEF Loading
<1>3. loader' \in [Names -> Seq(JarFile)]
  <2>1. CASE root = "launcher"
    BY <2>1 DEF AddJar, MainType
  <2>2. CASE root = "harness"
    BY <1>1, <1>2, <2>2 DEF AddJar, MainType
  <2>3. QED
    BY <2>1, <2>2 DEF MainType, Roots
<1>4. Module' = Module
  BY DEF AddJar, Module, Current
<1>5. jar \in 1..Len(Jars[Module]) /\ Len(Jars[Module]) \in Nat
      /\ DOMAIN Jars[Module] = 1..Len(Jars[Module])
  BY <1>1, Constants
<1>6. QED
  BY <1>3, <1>4, <1>5 DEF AddJar, MainType, JarInv

\* Initially there is nothing, and the launcher starts.
LEMMA TypeInit == Init => TypeInv
<1> SUFFICES ASSUME Init
             PROVE  TypeInv
  OBVIOUS
<1>1. fs \in [DOMAIN fs -> {"dir", "partial", "whole"}] /\ DOMAIN fs = {}
  BY DEF Init
<1>2. \A b \in Names : <<>> \in Seq(JarFile)
  OBVIOUS
<1>3. loader \in [Names -> Seq(JarFile)]
  BY <1>2 DEF Init
<1>4. FsType
  BY <1>1 DEF FsType
<1>5. JvmType
  BY DEF Init, JvmType, Roots
<1>6. MainType
  <2>1. 1 \in 1..(Len(Benchmarks) + 1) /\ {} \subseteq Names
    BY Constants
  <2>2. JarInv
    BY DEF Init, JarInv
  <2>3. QED
    BY <1>3, <2>1, <2>2 DEF Init, MainType, Roots
<1>7. QED
  BY <1>4, <1>5, <1>6, TypeParts

\* Every step of the main thread keeps the types.
LEMMA TypeMain == TypeInv /\ Main => TypeInv'
<1> SUFFICES ASSUME TypeInv, Main
             PROVE  FsType' /\ JvmType' /\ MainType'
  BY DEF TypeInv, TypeOK, FsType, JvmType, MainType
<1>0. FsType /\ JvmType /\ MainType
  BY TypeParts
<1>1. CASE CreateTempDirectory
  <2>1. CASE /\ Touch(With({<<root>>}, "dir"))
             /\ Goto(IF keep THEN "create" ELSE "register")
    <3>1. FsType'
      BY <1>0, <2>1 DEF MainType, FsType, Touch, With
    <3>2. JvmType'
      BY <1>0, <1>1, <2>1, TouchType DEF CreateTempDirectory, Touch
    <3>3. MainType'
      BY <1>0, <1>1, <2>1, GotoType DEF CreateTempDirectory, Goto
    <3>4. QED
      BY <3>1, <3>2, <3>3
  <2>2. CASE Stop /\ UNCHANGED <<fs, late>>
    BY <1>0, <1>1, <2>2, GotoType
    DEF Stop, Goto, FsType, JvmType, CreateTempDirectory, options, jvmVars
  <2>3. QED
    BY <1>1, <2>1, <2>2 DEF CreateTempDirectory
<1>2. CASE AddShutdownHook
  <2>1. FsType' /\ JvmType'
    BY <1>0, <1>2 DEF AddShutdownHook, FsType, JvmType, MainType, options, Roots
  <2>2. MainType'
    BY <1>0, <1>2, GotoType DEF AddShutdownHook, Stop, Goto
  <2>3. QED
    BY <2>1, <2>2
<1>3. CASE CreateSuite
  <2>1. FsType' /\ JvmType'
    BY <1>0, <1>3 DEF CreateSuite, FsType, JvmType, options, jvmVars
  <2>2. ASSUME root = "harness", Benchmarks # <<>>
        PROVE  next <= Len(Benchmarks)
    <3>1. next = 1
      BY <1>0, <1>3 DEF CreateSuite, MainType, JarInv
    <3>2. Len(Benchmarks) # 0
      BY <2>2, ModulesAssumption
    <3>3. QED
      BY <3>1, <3>2, Constants
  <2>3. MainType'
    BY <1>0, <1>3, <2>2, GotoType DEF CreateSuite, Stop, Goto, MainType, Roots
  <2>4. QED
    BY <2>1, <2>3
<1>4. CASE CreateBenchmarkContext
  <2>1. root = "harness" /\ next \in 1..Len(Benchmarks)
    BY <1>0, <1>4, CurrentType, Constants
    DEF CreateBenchmarkContext, Loading, MainType, JarInv, Roots
  <2>2. CASE CreateDirectories(ScratchDir) /\ Goto(IF useModules THEN "lib" ELSE "class")
    <3>1. \A q \in Ancestors(ScratchDir) : q[1] \in Roots
      BY AncestorsType DEF ScratchDir, Roots
    <3>2. FsType'
      BY <1>0, <2>2, <3>1 DEF FsType, CreateDirectories, Touch, With
    <3>3. JvmType'
      BY <1>0, <1>4, <2>2, TouchType DEF CreateBenchmarkContext, CreateDirectories, Touch
    <3>4. MainType'
      BY <1>0, <2>1, <2>2, GotoType, Constants DEF Goto
    <3>5. QED
      BY <3>2, <3>3, <3>4
  <2>3. CASE LoadingFails /\ UNCHANGED <<fs, late>>
    BY <1>0, <1>4, <2>3, FailsType
    DEF CreateBenchmarkContext, Loading, FsType, JvmType, options, jvmVars
  <2>4. QED
    BY <1>4, <2>2, <2>3 DEF CreateBenchmarkContext
<1>5. CASE CreateModuleJarsDirectory
  <2>1. Module \in Modules /\ root \in Roots
    BY <1>5, CurrentType DEF CreateModuleJarsDirectory, Loading
  <2>2. CASE /\ CreateDirectories(LibDir)
             /\ jar' = 1 /\ pc' = "extract"
             /\ UNCHANGED <<root, next, loader, context, failed>>
    <3>1. \A q \in Ancestors(LibDir) : q[1] \in Roots
      BY <2>1, AncestorsType DEF LibDir
    <3>2. FsType'
      BY <1>0, <2>2, <3>1 DEF FsType, CreateDirectories, Touch, With
    <3>3. JvmType'
      BY <1>0, <1>5, <2>2, TouchType DEF CreateModuleJarsDirectory, CreateDirectories, Touch
    <3>4. Module' = Module
      BY <2>2 DEF Module, Current
    <3>5. 1 \in DOMAIN Jars[Module]
      BY <2>1, Constants
    <3>6. MainType'
      BY <1>0, <1>5, <2>2, <3>4, <3>5 DEF CreateModuleJarsDirectory, MainType, JarInv
    <3>7. QED
      BY <3>2, <3>3, <3>6
  <2>3. CASE LoadingFails /\ UNCHANGED <<fs, late>>
    BY <1>0, <1>5, <2>3, FailsType
    DEF CreateModuleJarsDirectory, Loading, FsType, JvmType, options, jvmVars
  <2>4. QED
    BY <1>5, <2>2, <2>3 DEF CreateModuleJarsDirectory
<1>6. CASE Extract
  <2>1. JarPath(jar) \in JarFile
    BY <1>6, JarPathType DEF Extract
  <2>2. CASE AddJar /\ UNCHANGED <<fs, late>>
    BY <1>0, <1>6, <2>2, AddJarType DEF Extract, FsType, JvmType, options, jvmVars
  <2>3. CASE /\ LibDir \in DOMAIN fs
             /\ Touch(With({JarPath(jar)}, "partial")) /\ Goto("write")
    <3>1. JarPath(jar)[1] \in Roots
      BY <2>1 DEF JarFile
    <3>2. FsType'
      BY <1>0, <2>3, <3>1 DEF FsType, Touch, With
    <3>3. JvmType'
      BY <1>0, <1>6, <2>3, TouchType DEF Extract, Touch
    <3>4. MainType'
      BY <1>0, <1>6, <2>3, GotoType DEF Extract, Goto
    <3>5. QED
      BY <3>2, <3>3, <3>4
  <2>4. CASE LoadingFails /\ UNCHANGED <<fs, late>>
    BY <1>0, <1>6, <2>4, FailsType
    DEF Extract, Loading, FsType, JvmType, options, jvmVars
  <2>5. QED
    BY <1>6, <2>2, <2>3, <2>4 DEF Extract, CreateFile
<1>7. CASE WriteJar
  <2>1. CASE LoadingFails /\ UNCHANGED <<fs, late>>
    BY <1>0, <1>7, <2>1, FailsType
    DEF WriteJar, Loading, FsType, JvmType, options, jvmVars
  <2>2. CASE AddJar /\ UNCHANGED <<fs, late>>
    BY <1>0, <1>7, <2>2, AddJarType DEF WriteJar, FsType, JvmType, options, jvmVars
  <2>3. CASE AddJar /\ Touch([fs EXCEPT ![JarPath(jar)] = "whole"])
    <3>1. FsType'
      BY <1>0, <2>3 DEF FsType, Touch
    <3>2. JvmType'
      BY <1>0, <1>7, <2>3, TouchType DEF WriteJar, Touch
    <3>3. MainType'
      BY <1>7, <2>3, AddJarType DEF WriteJar
    <3>4. QED
      BY <3>1, <3>2, <3>3
  <2>4. QED
    BY <1>7, <2>1, <2>2, <2>3 DEF WriteJar
<1>8. CASE InvokeHarness
  <2>1. FsType' /\ JvmType'
    BY <1>0, <1>8 DEF InvokeHarness, FsType, JvmType, options, jvmVars
  <2>2. MainType'
    BY <1>0, <1>8, FailsType DEF InvokeHarness, Loading, MainType, JarInv, Roots
  <2>3. QED
    BY <2>1, <2>2
<1>9. CASE CreateBenchmark
  <2>1. FsType' /\ JvmType'
    BY <1>0, <1>9 DEF CreateBenchmark, FsType, JvmType, options, jvmVars
  <2>2. root = "harness" /\ next \in 1..Len(Benchmarks) /\ Current \in Names
    BY <1>9, CurrentType DEF CreateBenchmark, Loading
  <2>3. CASE LoadingFails
    BY <1>9, <2>1, <2>3, FailsType DEF CreateBenchmark, Loading
  <2>4. CASE ~LoadingFails
    BY <1>0, <1>9, <2>1, <2>2, <2>4, Constants DEF CreateBenchmark, MainType, JarInv
  <2>5. QED
    BY <2>1, <2>3, <2>4
<1>10. CASE WriteData
  <2>1. FsType'
    BY <1>0, <1>10 DEF FsType, WriteData, DataFile, Touch, With, Roots
  <2>2. JvmType'
    BY <1>0, <1>10, TouchType DEF WriteData, Touch
  <2>3. MainType'
    BY <1>0, <1>10, GotoType DEF WriteData, Goto
  <2>4. QED
    BY <2>1, <2>2, <2>3
<1>11. CASE FinishBenchmark
  <2>1. root = "harness" /\ next \in 1..Len(Benchmarks) /\ Current \in Names
    BY <1>0, <1>11, CurrentType DEF FinishBenchmark, Loading, MainType, JarInv, Roots
  <2>2. FsType'
    BY <1>0, <1>11 DEF FinishBenchmark, FsType, Touch, Without
  <2>3. JvmType'
    BY <1>0, <1>11, TouchType
    DEF FinishBenchmark, Touch, JvmType, options, jvmVars
  <2>4. MainType'
    BY <1>0, <1>11, <2>1, Constants DEF FinishBenchmark, MainType, JarInv
  <2>5. QED
    BY <2>2, <2>3, <2>4
<1>12. CASE FinishRun
  BY <1>0, <1>12, GotoType DEF FinishRun, Stop, Goto, FsType, JvmType, options, jvmVars
<1>13. QED
  BY <1>1, <1>2, <1>3, <1>4, <1>5, <1>6, <1>7, <1>8, <1>9, <1>10, <1>11, <1>12 DEF Main

\* So do the steps of the JVM and of the hooks.
LEMMA TypeJvm ==
  ASSUME TypeInv, Signal \/ Exit \/ Halt \/ \E r \in Roots : Hook(r)
  PROVE  TypeInv'
<1>0. FsType /\ JvmType /\ MainType
  BY TypeParts
<1>1. UNCHANGED <<options, mainVars>>
  BY DEF Signal, Exit, StartHooks, Halt, Hook, BeginWalk, DeleteStep
<1>2. MainType'
  BY <1>0, <1>1 DEF MainType, JarInv, Module, Current, mainVars
<1>3. CASE Signal \/ Exit \/ Halt
  BY <1>0, <1>2, <1>3, TypeParts
  DEF Signal, Exit, StartHooks, Halt, FsType, JvmType, options, TypeInv, TypeOK, MainType
<1>4. ASSUME NEW r \in Roots, BeginWalk(r)
      PROVE  TypeInv'
  <2>1. FsType' /\ JvmType'
    BY <1>0, <1>4 DEF BeginWalk, Fails, FsType, JvmType, options
  <2>2. QED
    BY <1>2, <2>1 DEF TypeInv, TypeOK, FsType, JvmType, MainType
<1>5. ASSUME NEW r \in Roots, DeleteStep(r)
      PROVE  TypeInv'
  <2>1. fs' = fs \/ \E p : fs' = Without(p)
    BY <1>5 DEF DeleteStep, Visit, PostVisitDirectory, Fails
  <2>2. FsType'
    BY <1>0, <2>1 DEF FsType, Without
  <2>3. DOMAIN walk' = DOMAIN walk /\ (warned' = warned \/ warned' = warned \cup {r})
    BY <1>5 DEF DeleteStep, Visit, PostVisitDirectory, Fails
  <2>4. JvmType'
    BY <1>0, <1>5, <2>3 DEF DeleteStep, JvmType, options
  <2>5. QED
    BY <1>2, <2>2, <2>4 DEF TypeInv, TypeOK, FsType, JvmType, MainType
<1>6. QED
  BY <1>3, <1>4, <1>5 DEF Hook

\* And so does every step.
LEMMA TypeNext == TypeInv /\ [Next]_vars => TypeInv'
<1>1. ASSUME TypeInv, UNCHANGED vars
      PROVE  TypeInv'
  BY <1>1 DEF vars, options, jvmVars, mainVars, TypeInv, TypeOK, JarInv, Module, Current
<1>2. QED
  BY <1>1, TypeMain, TypeJvm DEF Next

(* The types, and the bounds main relies on: whatever fails and whenever   *)
(* the JVM shuts down, it never works on a benchmark that is not there.    *)
THEOREM TypeCorrect == Spec => []TypeOK
<1>1. TypeInv => TypeOK
  BY DEF TypeInv
<1>2. QED
  BY <1>1, TypeInit, TypeNext, PTL DEF Spec

-----------------------------------------------------------------------------
(* Partial JAR files.  While the JVM runs nothing is deleted but data.     *)

HookInv == jvm = "running" => \A r \in Roots : walk[r] = <<>>

\* What is in a class path exists, in the directory of the benchmark's module.
OwnedInv ==
  \A b \in Names : \A p \in JarsOf(b) :
    p \in DOMAIN fs /\ p[1] = "harness" /\ p[2] = ModuleOf[b]

\* The file that is written is in nobody's class path yet.
WrittenInv ==
  pc = "write" => /\ JarPath(jar) \in DOMAIN fs
                  /\ \A b \in Names : JarPath(jar) \notin JarsOf(b)

\* A benchmark that is done failed before it had this JAR file in its class path.
LeftBy(p) ==
  \E i \in 1..(next - 1) :
    /\ Benchmarks[i] \in failed
    /\ ModuleOf[Benchmarks[i]] = p[2]
    /\ p \notin JarsOf(Benchmarks[i])

\* A partial JAR file is being written, or was left by a failed benchmark.
PartialInv ==
  \A p \in DOMAIN fs :
    fs[p] = "partial" /\ p[1] = "harness" => \/ pc = "write" /\ p = JarPath(jar)
                                             \/ LeftBy(p)

FileInv == OwnedInv /\ WrittenInv /\ PartialInv

Inv == TypeInv /\ HookInv /\ (jvm = "running" => FileInv)

\* The JAR files of a class path are of the type JarFile.
LEMMA JarsType ==
  ASSUME TypeInv, NEW b \in Names, NEW p \in JarsOf(b)
  PROVE  p \in JarFile /\ p[3] = "lib"
<1>1. loader[b] \in Seq(JarFile)
  BY DEF TypeInv, TypeOK
<1>2. PICK i \in DOMAIN loader[b] : p = loader[b][i]
  BY DEF JarsOf
<1>3. p \in JarFile
  BY <1>1, <1>2
<1>4. QED
  BY <1>3 DEF JarFile

\* A file appended to the class path of one benchmark is added to it, and to no other.
LEMMA JarsAdded ==
  ASSUME TypeInv, Current \in Names, JarPath(jar) \in JarFile,
         loader' = [loader EXCEPT ![Current] = Append(@, JarPath(jar))]
  PROVE  \A b \in Names :
           JarsOf(b)' = IF b = Current THEN JarsOf(b) \cup {JarPath(jar)} ELSE JarsOf(b)
<1> DEFINE s == loader[Current]
           t == Append(s, JarPath(jar))
<1>1. loader \in [Names -> Seq(JarFile)]
  BY DEF TypeInv, TypeOK
<1>2. s \in Seq(JarFile) /\ DOMAIN s = 1..Len(s) /\ Len(s) \in Nat
  BY <1>1
<1>3. /\ DOMAIN t = 1..(Len(s) + 1)
      /\ \A i \in 1..Len(s) : t[i] = s[i]
      /\ t[Len(s) + 1] = JarPath(jar)
  BY <1>2
<1>4. loader'[Current] = t /\ \A b \in Names \ {Current} : loader'[b] = loader[b]
  BY <1>1
<1>5. {t[i] : i \in DOMAIN t} = {s[i] : i \in DOMAIN s} \cup {JarPath(jar)}
  <2> HIDE DEF s, t
  <2>1. ASSUME NEW q \in {t[i] : i \in DOMAIN t}
        PROVE  q \in {s[i] : i \in DOMAIN s} \cup {JarPath(jar)}
    <3>1. PICK i \in 1..(Len(s) + 1) : q = t[i]
      BY <1>3
    <3>2. i \in 1..Len(s) \/ i = Len(s) + 1
      BY <1>2
    <3>3. QED
      BY <1>2, <1>3, <3>1, <3>2
  <2>2. ASSUME NEW i \in DOMAIN s
        PROVE  s[i] \in {t[k] : k \in DOMAIN t}
    <3>1. i \in 1..Len(s) /\ i \in 1..(Len(s) + 1)
      BY <1>2, <2>2
    <3>2. QED
      BY <1>3, <3>1
  <2>3. JarPath(jar) \in {t[i] : i \in DOMAIN t}
    <3>1. Len(s) + 1 \in 1..(Len(s) + 1)
      BY <1>2
    <3>2. QED
      BY <1>3, <3>1
  <2>4. QED
    BY <2>1, <2>2, <2>3
<1>6. QED
  BY <1>4, <1>5 DEF JarsOf

\* Steps that write no JAR file, delete none and change no class path.
LEMMA KeepsFiles ==
  ASSUME TypeInv, TypeInv', FileInv, pc # "write", pc' # "write", loader' = loader,
         failed \subseteq failed', next <= next',
         \A q \in DOMAIN fs : q[3] = "lib" => q \in DOMAIN fs',
         \A q \in DOMAIN fs' : fs'[q] = "partial" => q \in DOMAIN fs /\ fs[q] = "partial"
  PROVE  FileInv'
<1>1. \A b : JarsOf(b)' = JarsOf(b)
  BY DEF JarsOf
<1>2. OwnedInv'
  <2>1. SUFFICES ASSUME NEW b \in Names, NEW p \in JarsOf(b)
                 PROVE  p \in DOMAIN fs' /\ p[1] = "harness" /\ p[2] = ModuleOf[b]
    BY <1>1 DEF OwnedInv
  <2>2. p \in DOMAIN fs /\ p[1] = "harness" /\ p[2] = ModuleOf[b]
    BY DEF FileInv, OwnedInv
  <2>3. p[3] = "lib"
    BY JarsType
  <2>4. QED
    BY <2>2, <2>3
<1>3. PartialInv'
  <2>1. SUFFICES ASSUME NEW p \in DOMAIN fs', fs'[p] = "partial", p[1] = "harness"
                 PROVE  LeftBy(p)'
    BY DEF PartialInv
  <2>2. LeftBy(p)
    BY <2>1 DEF FileInv, PartialInv
  <2>3. PICK i \in 1..(next - 1) : /\ Benchmarks[i] \in failed
                                   /\ ModuleOf[Benchmarks[i]] = p[2]
                                   /\ p \notin JarsOf(Benchmarks[i])
    BY <2>2 DEF LeftBy
  <2>4. i \in 1..(next' - 1)
    BY DEF TypeInv, TypeOK
  <2>5. QED
    BY <1>1, <2>3, <2>4 DEF LeftBy
<1>4. QED
  BY <1>2, <1>3 DEF FileInv, WrittenInv

\* The existing file jar gets into the class path, or the written one that is now whole.
LEMMA AddsJar ==
  ASSUME TypeInv, TypeInv', FileInv, AddJar, pc \in {"extract", "write"},
         DOMAIN fs' = DOMAIN fs, JarPath(jar) \in DOMAIN fs,
         pc = "write" => fs'[JarPath(jar)] = "whole",
         \A q \in DOMAIN fs : fs'[q] = "partial" => fs[q] = "partial"
  PROVE  FileInv'
<1>1. JarPath(jar) \in JarFile
  BY JarPathType
<1>2. pc' # "write" /\ next' = next /\ failed' = failed /\ root' = root
  BY DEF AddJar, NextJar
<1>3. root = "harness" => /\ next \in 1..Len(Benchmarks)
                          /\ Current \in Names /\ Module = ModuleOf[Current]
  BY CurrentType DEF Loading
<1>4. /\ root # "harness" => \A b \in Names : JarsOf(b)' = JarsOf(b)
      /\ root = "harness" =>
           \A b \in Names :
             JarsOf(b)' = IF b = Current THEN JarsOf(b) \cup {JarPath(jar)} ELSE JarsOf(b)
  <2>1. CASE root # "harness"
    BY <2>1 DEF AddJar, JarsOf, TypeInv, TypeOK, Roots
  <2>2. CASE root = "harness"
    BY <1>1, <1>3, <2>2, JarsAdded DEF AddJar
  <2>3. QED
    BY <2>1, <2>2
<1>5. OwnedInv'
  <2>1. SUFFICES ASSUME NEW b \in Names, NEW p \in JarsOf(b)'
                 PROVE  p \in DOMAIN fs' /\ p[1] = "harness" /\ p[2] = ModuleOf[b]
    BY DEF OwnedInv
  <2>2. CASE p \in JarsOf(b)
    BY <2>2 DEF FileInv, OwnedInv
  <2>3. CASE p \notin JarsOf(b)
    <3>1. root = "harness" /\ b = Current /\ p = JarPath(jar)
      BY <1>4, <2>3
    <3>2. QED
      BY <1>3, <3>1 DEF JarPath
  <2>4. QED
    BY <2>2, <2>3
<1>6. PartialInv'
  <2>1. SUFFICES ASSUME NEW p \in DOMAIN fs', fs'[p] = "partial", p[1] = "harness"
                 PROVE  LeftBy(p)'
    BY DEF PartialInv
  <2>2. LeftBy(p)
    BY <2>1 DEF FileInv, PartialInv
  <2>3. PICK i \in 1..(next - 1) : /\ Benchmarks[i] \in failed
                                   /\ ModuleOf[Benchmarks[i]] = p[2]
                                   /\ p \notin JarsOf(Benchmarks[i])
    BY <2>2 DEF LeftBy
  <2>4. i \in 1..Len(Benchmarks) /\ Benchmarks[i] \in Names /\ next \in Int
    BY Constants DEF TypeInv, TypeOK
  <2>5. root = "harness" => Benchmarks[i] # Current
    BY <1>3, <2>4, Constants DEF Current
  <2>6. p \notin JarsOf(Benchmarks[i])'
    BY <1>4, <2>3, <2>4, <2>5
  <2>7. QED
    BY <1>2, <2>3, <2>6 DEF LeftBy
<1>7. QED
  BY <1>2, <1>5, <1>6 DEF FileInv, WrittenInv

\* A file that does not exist yet is in no class path when it is created.
LEMMA CreatesFile ==
  ASSUME TypeInv, FileInv, pc = "extract", JarPath(jar) \notin DOMAIN fs,
         Touch(With({JarPath(jar)}, "partial")), Goto("write")
  PROVE  FileInv'
<1>1. /\ DOMAIN fs' = DOMAIN fs \cup {JarPath(jar)}
      /\ \A q \in DOMAIN fs : fs'[q] = fs[q]
  BY DEF Touch, With
<1>2. /\ pc' = "write" /\ JarPath(jar)' = JarPath(jar)
      /\ next' = next /\ failed' = failed
  BY DEF Goto, JarPath, Module, Current
<1>3. \A b : JarsOf(b)' = JarsOf(b)
  BY DEF Goto, JarsOf
<1>4. OwnedInv'
  BY <1>1, <1>3 DEF FileInv, OwnedInv
<1>5. WrittenInv'
  BY <1>1, <1>2, <1>3 DEF FileInv, OwnedInv, WrittenInv
<1>6. \A p : LeftBy(p)' = LeftBy(p)
  BY <1>2, <1>3 DEF LeftBy
<1>7. PartialInv'
  BY <1>1, <1>2, <1>6 DEF FileInv, PartialInv
<1>8. QED
  BY <1>4, <1>5, <1>7 DEF FileInv

\* The partial file that a failure leaves behind is one the failed benchmark lacks.
LEMMA LeavesPartial ==
  ASSUME TypeInv, TypeInv', FileInv, pc = "write", LoadingFails, UNCHANGED fs
  PROVE  FileInv'
<1>1. \A b : JarsOf(b)' = JarsOf(b)
  BY DEF LoadingFails, Stop, Goto, JarsOf
<1>2. OwnedInv'
  BY <1>1 DEF FileInv, OwnedInv
<1>3. pc' # "write" /\ failed \subseteq failed' /\ next <= next'
  BY DEF LoadingFails, Stop, Goto, TypeInv, TypeOK
<1>4. PartialInv'
  <2>1. SUFFICES ASSUME NEW p \in DOMAIN fs', fs'[p] = "partial", p[1] = "harness"
                 PROVE  LeftBy(p)'
    BY DEF PartialInv
  <2>2. CASE p = JarPath(jar)
    <3>1. root = "harness" /\ p[2] = Module
      BY <2>1, <2>2 DEF JarPath
    <3>2. PICK i \in 1..Len(Benchmarks) :
            i = next /\ Benchmarks[i] \in Names /\ Module = ModuleOf[Benchmarks[i]]
      BY <3>1, CurrentType DEF Loading, Current
    <3>3. i \in 1..(next' - 1) /\ Benchmarks[i] \in failed'
      BY <3>1, <3>2, Constants DEF LoadingFails, Current
    <3>4. p \notin JarsOf(Benchmarks[i])
      BY <2>2, <3>2 DEF FileInv, WrittenInv
    <3>5. QED
      BY <1>1, <3>1, <3>2, <3>3, <3>4 DEF LeftBy
  <2>3. CASE p # JarPath(jar)
    <3>1. LeftBy(p)
      BY <2>1, <2>3 DEF FileInv, PartialInv
    <3>2. PICK i \in 1..(next - 1) : /\ Benchmarks[i] \in failed
                                     /\ ModuleOf[Benchmarks[i]] = p[2]
                                     /\ p \notin JarsOf(Benchmarks[i])
      BY <3>1 DEF LeftBy
    <3>3. i \in 1..(next' - 1)
      BY <1>3 DEF TypeInv, TypeOK
    <3>4. QED
      BY <1>1, <1>3, <3>2, <3>3 DEF LeftBy
  <2>4. QED
    BY <2>2, <2>3
<1>5. QED
  BY <1>2, <1>3, <1>4 DEF FileInv, WrittenInv

\* Initially there are no files and no class paths.
LEMMA InvInit == Init => Inv
<1>1. ASSUME Init
      PROVE  HookInv /\ FileInv
  BY <1>1 DEF Init, HookInv, FileInv, OwnedInv, WrittenInv, PartialInv, JarsOf
<1>2. QED
  BY <1>1, TypeInit DEF Inv

\* While the JVM runs, every step of main accounts for the files it leaves.
LEMMA FilesMain ==
  ASSUME TypeInv, TypeInv', FileInv, Main
  PROVE  FileInv'
<1>1. CASE AddShutdownHook \/ CreateSuite \/ InvokeHarness \/ CreateBenchmark \/ FinishRun
  <2>1. /\ pc # "write" /\ pc' # "write" /\ loader' = loader /\ fs' = fs
        /\ failed \subseteq failed' /\ next <= next'
    BY <1>1 DEF AddShutdownHook, CreateSuite, InvokeHarness, CreateBenchmark, FinishRun,
                LoadingFails, Stop, Goto, TypeInv, TypeOK
  <2>2. QED
    BY <2>1, KeepsFiles
<1>2. CASE CreateTempDirectory \/ CreateBenchmarkContext \/ CreateModuleJarsDirectory
  <2>1. /\ pc # "write" /\ pc' # "write" /\ loader' = loader
        /\ failed \subseteq failed' /\ next <= next'
    BY <1>2 DEF CreateTempDirectory, CreateBenchmarkContext, CreateModuleJarsDirectory,
                LoadingFails, Stop, Goto, TypeInv, TypeOK
  <2>2. fs' = fs \/ \E paths : fs' = With(paths, "dir")
    BY <1>2 DEF CreateTempDirectory, CreateBenchmarkContext, CreateModuleJarsDirectory,
                CreateDirectories, Touch
  <2>3. /\ \A q \in DOMAIN fs : q \in DOMAIN fs'
        /\ \A q \in DOMAIN fs' : fs'[q] = "partial" => q \in DOMAIN fs /\ fs[q] = "partial"
    BY <2>2 DEF With
  <2>4. QED
    BY <2>1, <2>3, KeepsFiles
<1>3. CASE Extract
  <2>1. CASE JarPath(jar) \in DOMAIN fs
    BY <1>3, <2>1, AddsJar DEF Extract
  <2>2. CASE JarPath(jar) \notin DOMAIN fs /\ Touch(With({JarPath(jar)}, "partial"))
                                           /\ Goto("write")
    BY <1>3, <2>2, CreatesFile DEF Extract
  <2>3. CASE LoadingFails /\ UNCHANGED <<fs, late>>
    <3>1. /\ pc # "write" /\ pc' # "write" /\ loader' = loader /\ fs' = fs
          /\ failed \subseteq failed' /\ next <= next'
      BY <1>3, <2>3 DEF Extract, LoadingFails, Stop, Goto, TypeInv, TypeOK
    <3>2. QED
      BY <3>1, KeepsFiles
  <2>4. QED
    BY <1>3, <2>1, <2>2, <2>3 DEF Extract, CreateFile
<1>4. CASE WriteJar
  <2>1. JarPath(jar) \in DOMAIN fs
    BY <1>4 DEF WriteJar, FileInv, WrittenInv
  <2>2. CASE AddJar /\ Touch([fs EXCEPT ![JarPath(jar)] = "whole"])
    <3>1. /\ DOMAIN fs' = DOMAIN fs /\ fs'[JarPath(jar)] = "whole"
          /\ \A q \in DOMAIN fs : fs'[q] = "partial" => fs[q] = "partial"
      BY <2>1, <2>2 DEF Touch, TypeInv, TypeOK
    <3>2. QED
      BY <1>4, <2>1, <2>2, <3>1, AddsJar DEF WriteJar
  <2>3. CASE LoadingFails /\ UNCHANGED <<fs, late>>
    BY <1>4, <2>3, LeavesPartial DEF WriteJar
  <2>4. QED
    BY <1>4, <2>1, <2>2, <2>3 DEF WriteJar
<1>5. CASE WriteData \/ FinishBenchmark
  <2>1. Current # "lib"
    BY <1>5, CurrentType
    DEF WriteData, FinishBenchmark, Loading, TypeInv, JarInv, TypeOK, Roots
  <2>2. /\ pc # "write" /\ pc' # "write" /\ loader' = loader
        /\ failed \subseteq failed' /\ next <= next'
    BY <1>5 DEF WriteData, FinishBenchmark, Goto, TypeInv, TypeOK
  <2>3. \/ fs' = fs \/ fs' = With({DataFile}, "whole") \/ fs' = Without(DataFile)
    BY <1>5 DEF WriteData, FinishBenchmark, Touch
  <2>4. DataFile[3] # "lib"
    BY <2>1 DEF DataFile
  <2>5. /\ \A q \in DOMAIN fs : q[3] = "lib" => q \in DOMAIN fs'
        /\ \A q \in DOMAIN fs' : fs'[q] = "partial" => q \in DOMAIN fs /\ fs[q] = "partial"
    BY <2>3, <2>4 DEF With, Without
  <2>6. QED
    BY <2>2, <2>5, KeepsFiles
<1>6. QED
  BY <1>1, <1>2, <1>3, <1>4, <1>5 DEF Main

\* The invariant is inductive: the hooks delete only once the JVM no longer runs.
LEMMA InvNext == Inv /\ [Next]_vars => Inv'
<1> SUFFICES ASSUME Inv, [Next]_vars
             PROVE  Inv'
  OBVIOUS
<1>1. TypeInv /\ TypeInv'
  BY TypeNext DEF Inv
<1>2. CASE Main
  <2>1. jvm' = jvm /\ walk' = walk
    BY <1>2 DEF Main, CreateTempDirectory, AddShutdownHook, CreateSuite,
                CreateBenchmarkContext, CreateModuleJarsDirectory, Extract, WriteJar,
                InvokeHarness, CreateBenchmark, WriteData, FinishBenchmark, FinishRun, jvmVars
  <2>2. QED
    BY <1>1, <1>2, <2>1, FilesMain DEF Inv, HookInv
<1>3. CASE Signal \/ Exit \/ Halt
  BY <1>1, <1>3 DEF Signal, Exit, StartHooks, Halt, Inv, HookInv
<1>4. ASSUME NEW r \in Roots, Hook(r)
      PROVE  Inv'
  <2>1. jvm # "running" /\ jvm' = jvm
    BY <1>4 DEF Hook, BeginWalk, DeleteStep, Inv, HookInv
  <2>2. QED
    BY <1>1, <2>1 DEF Inv, HookInv
<1>5. CASE UNCHANGED vars
  <2>1. UNCHANGED <<jvm, walk, fs, pc, root, next, jar, loader, failed>>
    BY <1>5 DEF vars, jvmVars, mainVars
  <2>2. \A b : JarsOf(b)' = JarsOf(b)
    BY <2>1 DEF JarsOf
  <2>3. JarPath(jar)' = JarPath(jar)
    BY <2>1 DEF JarPath, Module, Current
  <2>4. FileInv => FileInv'
    BY <2>1, <2>2, <2>3 DEF FileInv, OwnedInv, WrittenInv, PartialInv, LeftBy
  <2>5. QED
    BY <1>1, <2>1, <2>4 DEF Inv, HookInv
<1>6. QED
  BY <1>2, <1>3, <1>4, <1>5 DEF Next

(* A benchmark that reuses a JAR file of which only a part was written is  *)
(* never the first to suffer: one that needed this very file has failed,   *)
(* however many benchmarks, modules and JAR files there are.               *)
THEOREM PartialReported == Spec => []PartialJarsReported
<1>1. Inv => PartialJarsReported
  <2> SUFFICES ASSUME Inv, jvm = "running", NEW b \in Names,
                      NEW p \in JarsOf(b) \cap DOMAIN fs, fs[p] = "partial"
               PROVE  \E a \in failed \ {b} : ModuleOf[a] = ModuleOf[b]
    BY DEF PartialJarsReported
  <2>1. p[1] = "harness" /\ p[2] = ModuleOf[b]
    BY DEF Inv, FileInv, OwnedInv
  <2>2. LeftBy(p)
    BY <2>1 DEF Inv, FileInv, WrittenInv, PartialInv
  <2>3. QED
    BY <2>1, <2>2 DEF LeftBy
<1>2. QED
  BY <1>1, InvInit, InvNext, PTL DEF Spec
-----------------------------------------------------------------------------
(* Class paths.                                                            *)

\* Main is in the harness, at one of these labels.
AtHarness(labels) == root = "harness" /\ pc \in labels

\* The labels at which the current benchmark may have JAR files in its class path.
Building == {"extract", "write", "class", "operation", "written"}

\* Benchmarks whose turn has yet to come have nothing in their class path.
FreshInv ==
  \A i \in next..Len(Benchmarks) :
    i > next \/ ~AtHarness(Building) => loader[Benchmarks[i]] = <<>>

\* The current one has the JAR files before number `jar`, and in the end all of them.
PathInv ==
  /\ AtHarness({"extract", "write"}) =>
       loader[Current] = [j \in 1..(jar - 1) |-> JarPath(j)]
  /\ AtHarness({"class", "operation"}) /\ useModules =>
       loader[Current] = [j \in DOMAIN Jars[Module] |-> JarPath(j)]

\* The context class loader is that of the benchmark that runs.
ContextInv ==
  IF useModules THEN pc = "operation" => context = Current ELSE context = "app"

ClassPathInv == FreshInv /\ PathInv /\ ContextInv

\* Steps that change no class path and do not come between two JAR files.
LEMMA KeepsPaths ==
  ASSUME TypeInv, ClassPathInv,
         UNCHANGED <<loader, useModules, context>>,
         \/ next' = next + 1
         \/ next' = next /\ (AtHarness(Building) => AtHarness(Building)'),
         pc' \notin {"extract", "write", "operation"},
         AtHarness({"class"})' => ~useModules
  PROVE  ClassPathInv'
<1>1. next \in Nat
  BY DEF TypeInv, TypeOK
<1>2. ASSUME NEW i \in next'..Len(Benchmarks), i > next' \/ ~AtHarness(Building)'
      PROVE  loader[Benchmarks[i]] = <<>>
  <2>1. i \in next..Len(Benchmarks)
    BY <1>1, Constants
  <2>2. i > next \/ ~AtHarness(Building)
    BY <1>1, <1>2, <2>1
  <2>3. QED
    BY <2>1, <2>2 DEF ClassPathInv, FreshInv
<1>3. FreshInv'
  BY <1>2 DEF FreshInv
<1>4. PathInv'
  BY DEF PathInv, AtHarness
<1>5. ContextInv'
  BY DEF ClassPathInv, ContextInv
<1>6. QED
  BY <1>3, <1>4, <1>5 DEF ClassPathInv

\* A failure to load ends the launcher, or leaves the class path as it is for ever.
LEMMA FailsPaths ==
  ASSUME TypeInv, ClassPathInv, LoadingFails, UNCHANGED options
  PROVE  ClassPathInv'
<1>1. CASE root = "launcher"
  <2>1. /\ UNCHANGED <<loader, useModules, context>> /\ next' = next
        /\ pc' = "stopped" /\ ~AtHarness(Building)
    BY <1>1 DEF LoadingFails, Stop, Goto, options, AtHarness
  <2>2. QED
    BY <2>1, KeepsPaths DEF AtHarness
<1>2. CASE root # "launcher"
  <2>1. /\ UNCHANGED <<loader, useModules, context>> /\ next' = next + 1
        /\ pc' \in {"context", "end"}
    BY <1>2 DEF LoadingFails, options
  <2>2. QED
    BY <2>1, KeepsPaths DEF AtHarness
<1>3. QED
  BY <1>1, <1>2

\* A JAR file is appended behind those with smaller numbers.
LEMMA AddsPath ==
  ASSUME TypeInv, ClassPathInv, pc \in {"extract", "write"}, AddJar, UNCHANGED options
  PROVE  ClassPathInv'
<1>1. /\ UNCHANGED <<root, next, context, useModules>>
      /\ Module' = Module
      /\ IF jar < Len(Jars[Module]) THEN jar' = jar + 1 /\ pc' = "extract"
         ELSE pc' = "class" /\ jar' = jar
  BY DEF AddJar, NextJar, Module, Current, options
<1>2. ContextInv'
  BY <1>1 DEF ClassPathInv, ContextInv
<1>3. CASE root = "launcher"
  <2>1. loader' = loader /\ ~AtHarness(Building) /\ ~AtHarness({"extract", "write"})'
        /\ ~AtHarness({"class", "operation"})'
    BY <1>1, <1>3 DEF AddJar, AtHarness
  <2>2. FreshInv'
    BY <1>1, <2>1 DEF ClassPathInv, FreshInv
  <2>3. QED
    BY <1>2, <2>1, <2>2 DEF ClassPathInv, PathInv
<1>4. CASE root = "harness"
  <2> DEFINE old == loader[Current]
             new == Append(old, JarPath(jar))
  <2>1. /\ next \in 1..Len(Benchmarks) /\ Current \in Names /\ Module \in Modules
        /\ jar \in 1..Len(Jars[Module])
    BY <1>4, CurrentType, Constants DEF Loading, TypeInv, JarInv
  <2>2. /\ loader \in [Names -> Seq(JarFile)]
        /\ loader' = [loader EXCEPT ![Current] = new]
    BY <1>4 DEF AddJar, TypeInv, TypeOK
  <2>3. FreshInv'
    <3>1. SUFFICES ASSUME NEW i \in next..Len(Benchmarks), i > next
                   PROVE  loader'[Benchmarks[i]] = <<>>
      <4>1. AtHarness(Building)'
        BY <1>1, <1>4 DEF AtHarness, Building
      <4>2. QED
        BY <1>1, <3>1, <4>1 DEF FreshInv
    <3>2. i \in 1..Len(Benchmarks) /\ i # next
      BY <2>1, <3>1, Constants
    <3>3. Benchmarks[i] \in Names \ {Current}
      BY <2>1, <3>2, Constants DEF Current
    <3>4. loader[Benchmarks[i]] = <<>>
      BY <3>1 DEF ClassPathInv, FreshInv
    <3>5. QED
      BY <2>2, <3>3, <3>4
  <2>4. loader'[Current] = new /\ Current' = Current
    BY <1>1, <2>1, <2>2 DEF Current
  <2>5. old = [j \in 1..(jar - 1) |-> JarPath(j)]
    BY <1>4 DEF ClassPathInv, PathInv, AtHarness
  <2>6. new = [j \in 1..jar |-> JarPath(j)]
    <3>1. Len(old) = jar - 1
      BY <2>1, <2>2, <2>5, Constants
    <3>2. old \in Seq(JarFile)
      BY <2>1, <2>2
    <3>3. DOMAIN new = 1..jar /\ \A j \in 1..jar : new[j] = JarPath(j)
      BY <2>1, <2>5, <3>1, <3>2, Constants
    <3>4. new = [j \in DOMAIN new |-> new[j]]
      BY <3>2
    <3>5. QED
      BY <3>3, <3>4
  <2>7. \A j : JarPath(j)' = JarPath(j)
    BY <1>1 DEF JarPath
  <2>8. CASE jar < Len(Jars[Module])
    <3>1. pc' = "extract" /\ jar' - 1 = jar
      BY <1>1, <2>1, <2>8, Constants
    <3>2. loader'[Current'] = [j \in 1..(jar' - 1) |-> JarPath(j)']
      BY <2>4, <2>6, <2>7, <3>1
    <3>3. PathInv'
      BY <3>1, <3>2 DEF PathInv, AtHarness
    <3>4. QED
      BY <1>2, <2>3, <3>3 DEF ClassPathInv
  <2>9. CASE ~(jar < Len(Jars[Module]))
    <3>1. pc' = "class" /\ DOMAIN Jars[Module] = 1..jar
      BY <1>1, <2>1, <2>9, Constants
    <3>2. loader'[Current'] = [j \in DOMAIN Jars[Module'] |-> JarPath(j)']
      BY <1>1, <2>4, <2>6, <2>7, <3>1
    <3>3. PathInv'
      BY <3>1, <3>2 DEF PathInv, AtHarness
    <3>4. QED
      BY <1>2, <2>3, <3>3 DEF ClassPathInv
  <2>10. QED
    BY <2>8, <2>9
<1>5. QED
  BY <1>3, <1>4 DEF TypeInv, TypeOK, Roots

\* Initially all class paths are empty.
LEMMA ClassPathInit == Init => ClassPathInv
<1> SUFFICES ASSUME Init
             PROVE  ClassPathInv
  OBVIOUS
<1>1. FreshInv
  <2>1. SUFFICES ASSUME NEW i \in next..Len(Benchmarks)
                 PROVE  loader[Benchmarks[i]] = <<>>
    BY DEF FreshInv
  <2>2. Benchmarks[i] \in Names
    BY Constants DEF Init
  <2>3. QED
    BY <2>2 DEF Init
<1>2. PathInv /\ ContextInv
  BY DEF Init, PathInv, ContextInv, AtHarness
<1>3. QED
  BY <1>1, <1>2 DEF ClassPathInv

\* Every step of main keeps the class paths in order.
LEMMA ClassPathMain ==
  ASSUME TypeInv, ClassPathInv, Main
  PROVE  ClassPathInv'
<1>1. CASE CreateTempDirectory \/ AddShutdownHook \/ CreateSuite
  <2>1. /\ UNCHANGED <<loader, useModules, context>> /\ next' = next
        /\ pc \notin Building
        /\ pc' \in {"create", "register", "stopped", "lib", "end", "context"}
    BY <1>1 DEF CreateTempDirectory, AddShutdownHook, CreateSuite, Stop, Goto, options, Building
  <2>2. QED
    BY <2>1, KeepsPaths DEF AtHarness
<1>2. CASE CreateBenchmarkContext
  <2>1. CASE LoadingFails
    BY <1>2, <2>1, FailsPaths DEF CreateBenchmarkContext
  <2>2. CASE Goto(IF useModules THEN "lib" ELSE "class")
    <3>1. /\ UNCHANGED <<loader, useModules, context>> /\ next' = next
          /\ pc' = IF useModules THEN "lib" ELSE "class"
      BY <1>2, <2>2 DEF CreateBenchmarkContext, Goto, options
    <3>2. pc \notin Building
      BY <1>2 DEF CreateBenchmarkContext, Building
    <3>3. QED
      BY <3>1, <3>2, KeepsPaths DEF AtHarness
  <2>3. QED
    BY <1>2, <2>1, <2>2 DEF CreateBenchmarkContext
<1>3. CASE CreateModuleJarsDirectory
  <2>1. CASE LoadingFails
    BY <1>3, <2>1, FailsPaths DEF CreateModuleJarsDirectory
  <2>2. CASE jar' = 1 /\ pc' = "extract" /\ UNCHANGED <<root, next, loader, context, failed>>
    <3>1. pc = "lib" /\ useModules' = useModules
      BY <1>3 DEF CreateModuleJarsDirectory, options
    <3>2. FreshInv'
      BY <2>2, <3>1 DEF ClassPathInv, FreshInv, AtHarness, Building
    <3>3. ContextInv'
      BY <2>2, <3>1 DEF ClassPathInv, ContextInv
    <3>4. ASSUME root = "harness"
          PROVE  loader[Current] = <<>>
      <4>1. next \in next..Len(Benchmarks)
        BY <3>1, <3>4, CurrentType, Constants DEF Loading
      <4>2. ~AtHarness(Building)
        BY <3>1 DEF AtHarness, Building
      <4>3. QED
        BY <4>1, <4>2 DEF ClassPathInv, FreshInv, Current
    <3>5. <<>> = [j \in 1..(jar' - 1) |-> JarPath(j)']
      BY <2>2
    <3>6. PathInv'
      BY <2>2, <3>4, <3>5 DEF PathInv, AtHarness, Current
    <3>7. QED
      BY <3>2, <3>3, <3>6 DEF ClassPathInv
  <2>3. QED
    BY <1>3, <2>1, <2>2 DEF CreateModuleJarsDirectory
<1>4. CASE Extract \/ WriteJar
  <2>1. CASE LoadingFails
    BY <1>4, <2>1, FailsPaths DEF Extract, WriteJar
  <2>2. CASE AddJar
    BY <1>4, <2>2, AddsPath DEF Extract, WriteJar
  <2>3. CASE pc = "extract" /\ Goto("write")
    <3>1. /\ UNCHANGED <<root, next, jar, loader, context, useModules>>
          /\ pc = "extract" /\ pc' = "write"
      BY <1>4, <2>3 DEF Extract, WriteJar, Goto, options
    <3>2. FreshInv' /\ ContextInv'
      BY <3>1 DEF ClassPathInv, FreshInv, ContextInv, AtHarness, Building
    <3>3. PathInv'
      BY <3>1 DEF ClassPathInv, PathInv, AtHarness, JarPath, Module, Current
    <3>4. QED
      BY <3>2, <3>3 DEF ClassPathInv
  <2>4. QED
    BY <1>4, <2>1, <2>2, <2>3 DEF Extract, CreateFile, WriteJar
<1>5. CASE InvokeHarness
  <2>1. CASE LoadingFails
    BY <1>5, <2>1, FailsPaths DEF InvokeHarness
  <2>2. CASE pc' = "scratch" /\ UNCHANGED <<next, jar, loader, context, failed>>
    <3>1. useModules' = useModules /\ ~AtHarness(Building)
      BY <1>5 DEF InvokeHarness, options, AtHarness
    <3>2. QED
      BY <2>2, <3>1, KeepsPaths DEF AtHarness
  <2>3. QED
    BY <1>5, <2>1, <2>2 DEF InvokeHarness
<1>6. CASE CreateBenchmark
  <2>1. CASE LoadingFails
    BY <1>6, <2>1, FailsPaths DEF CreateBenchmark
  <2>2. CASE /\ context' = IF useModules THEN Current ELSE "app"
             /\ UNCHANGED <<root, jar, loader>>
             /\ pc' = "operation" /\ UNCHANGED <<next, failed>>
    <3>1. useModules' = useModules /\ pc = "class"
      BY <1>6 DEF CreateBenchmark, options
    <3>2. Current' = Current /\ Module' = Module /\ \A j : JarPath(j)' = JarPath(j)
      BY <2>2 DEF Current, Module, JarPath
    <3>3. FreshInv'
      BY <2>2, <3>1 DEF ClassPathInv, FreshInv, AtHarness, Building
    <3>4. ContextInv'
      BY <2>2, <3>1, <3>2 DEF ContextInv
    <3>5. PathInv'
      BY <2>2, <3>1, <3>2 DEF ClassPathInv, PathInv, AtHarness
    <3>6. QED
      BY <3>3, <3>4, <3>5 DEF ClassPathInv
  <2>3. CASE /\ context' = IF useModules THEN Current ELSE "app"
             /\ UNCHANGED <<root, jar, loader>>
             /\ failed' = failed \cup {Current} /\ next' = next + 1
             /\ pc' = IF next < Len(Benchmarks) THEN "context" ELSE "end"
    <3>1. useModules' = useModules
      BY <1>6 DEF CreateBenchmark, options
    <3>2. next \in Nat
      BY DEF TypeInv, TypeOK
    <3>3. ASSUME NEW i \in next'..Len(Benchmarks)
          PROVE  loader'[Benchmarks[i]] = <<>>
      <4>1. i \in next..Len(Benchmarks) /\ i > next
        BY <2>3, <3>2, <3>3, Constants
      <4>2. QED
        BY <2>3, <4>1 DEF ClassPathInv, FreshInv
    <3>4. FreshInv'
      BY <3>3 DEF FreshInv
    <3>5. PathInv' /\ ContextInv'
      BY <2>3, <3>1 DEF PathInv, ContextInv, AtHarness
    <3>6. QED
      BY <3>4, <3>5 DEF ClassPathInv
  <2>4. QED
    BY <1>6, <2>1, <2>2, <2>3 DEF CreateBenchmark
<1>7. CASE WriteData
  <2>1. /\ UNCHANGED <<loader, useModules, context, root>> /\ next' = next
        /\ pc' = "written"
    BY <1>7 DEF WriteData, Goto, options
  <2>2. AtHarness(Building) => AtHarness(Building)'
    BY <2>1 DEF AtHarness, Building
  <2>3. QED
    BY <2>1, <2>2, KeepsPaths DEF AtHarness
<1>8. CASE FinishBenchmark
  <2>1. /\ UNCHANGED <<loader, useModules, context>> /\ next' = next + 1
        /\ pc' \in {"context", "end"}
    BY <1>8 DEF FinishBenchmark, options
  <2>2. QED
    BY <2>1, KeepsPaths DEF AtHarness
<1>9. CASE FinishRun
  <2>1. /\ UNCHANGED <<loader, useModules, context>> /\ next' = next
        /\ pc = "end" /\ pc' = "stopped"
    BY <1>9 DEF FinishRun, Stop, Goto, options
  <2>2. ~AtHarness(Building)
    BY <2>1 DEF AtHarness, Building
  <2>3. QED
    BY <2>1, <2>2, KeepsPaths DEF AtHarness
<1>10. QED
  BY <1>1, <1>2, <1>3, <1>4, <1>5, <1>6, <1>7, <1>8, <1>9 DEF Main

\* No other step concerns class paths.
LEMMA ClassPathNext == TypeInv /\ ClassPathInv /\ [Next]_vars => ClassPathInv'
<1>1. ASSUME ClassPathInv, UNCHANGED <<options, mainVars>>
      PROVE  ClassPathInv'
  BY <1>1 DEF ClassPathInv, FreshInv, PathInv, ContextInv, AtHarness, options, mainVars,
              JarPath, Module, Current
<1>2. ASSUME Signal \/ Exit \/ Halt \/ (\E r \in Roots : Hook(r)) \/ UNCHANGED vars
      PROVE  UNCHANGED <<options, mainVars>>
  BY <1>2 DEF Signal, Exit, StartHooks, Halt, Hook, BeginWalk, DeleteStep, vars
<1>3. QED
  BY <1>1, <1>2, ClassPathMain DEF Next

(* However many modules and JAR files there are and whatever was extracted *)
(* before, createClassLoaderForModule gives a benchmark all JAR files of   *)
(* its module in the order of its list, and nothing is left of the class   *)
(* path of another.                                                        *)
THEOREM ClassPathCorrect == Spec => []OwnClassPath
<1>1. Inv /\ ClassPathInv => OwnClassPath
  <2> SUFFICES ASSUME Inv, ClassPathInv, pc = "operation"
               PROVE  OwnClassPath
    BY DEF OwnClassPath
  <2>1. root = "harness" /\ Current \in Names
    BY CurrentType DEF Inv, TypeInv, TypeOK, JarInv, Loading, Roots
  <2>2. jvm = "running" => JarsOf(Current) \subseteq DOMAIN fs
    BY <2>1 DEF Inv, FileInv, OwnedInv
  <2>3. CASE useModules
    <3>1. context = Current
          /\ loader[Current] = [j \in DOMAIN Jars[Module] |-> JarPath(j)]
      BY <2>1, <2>3 DEF ClassPathInv, PathInv, ContextInv, AtHarness
    <3>2. QED
      BY <2>2, <2>3, <3>1 DEF OwnClassPath
  <2>4. CASE ~useModules
    BY <2>4 DEF ClassPathInv, ContextInv, OwnClassPath
  <2>5. QED
    BY <2>3, <2>4
<1>2. Inv => TypeInv
  BY DEF Inv
<1>3. QED
  BY <1>1, <1>2, InvInit, InvNext, ClassPathInit, ClassPathNext, PTL DEF Spec

-----------------------------------------------------------------------------
(***************************************************************************)
(* The scratch directories are deleted: the file system as a forest of     *)
(* paths, and the walks through it.                                        *)
(***************************************************************************)

\* The provers do not know that these strings are strings.
Component == STRING \cup Roots \cup {"lib", "data"}

\* The number of components of a path; a path has one to four, the first being a root.
Depth(p) == Len(p)
Path == {p \in Seq(Component) : Depth(p) \in 1..4 /\ p[1] \in Roots}

\* The file system is a forest: directories three deep, with files in the innermost.
TreeInv ==
  \A p \in DOMAIN fs :
    /\ p \in Path
    /\ fs[p] = "dir" <=> Depth(p) <= 3
    /\ Depth(p) > 1 => Parent(p) \in DOMAIN fs

\* Before the shutdown a root has a hook, but for the time until it is registered.
RegisteredInv ==
  jvm = "running" =>
    /\ late = {}
    /\ ~keep => /\ \A r \in Roots : <<r>> \in DOMAIN fs =>
                                      r \in hooks \/ (root = r /\ pc = "register")
                /\ pc \notin {"scratch", "register", "stopped"} => root \in hooks

\* Then a root that exists is to be deleted, or its hook is at it or has failed.
DeletionInv ==
  /\ jvm # "running" /\ ~keep =>
       \A r \in Roots : <<r>> \in DOMAIN fs =>
         r \in hooks \/ walk[r] # <<>> \/ r \in late \cup warned
  /\ jvm = "halted" => hooks = {} /\ \A r \in Roots : walk[r] = <<>>

\* The directory that a walk has opened first is the root.
Frame == [dir : Path, left : SUBSET Path]
Walks(r) == {s \in Seq(Frame) : s # <<>> => s[Len(s)].dir = <<r>>}
WalkInv == \A r \in Roots : walk[r] \in Walks(r)

DeleteInv == TreeInv /\ RegisteredInv /\ DeletionInv /\ WalkInv

\* The parent of a path is one component shorter and below the same root.
LEMMA ParentProperties ==
  ASSUME NEW p \in Path
  PROVE  /\ p \in Seq(Component) /\ Depth(p) \in 1..4 /\ p[1] \in Roots
         /\ Parent(p) \in Seq(Component) /\ Depth(Parent(p)) = Depth(p) - 1
         /\ \A i \in 1..(Depth(p) - 1) : Parent(p)[i] = p[i]
         /\ Depth(p) > 1 => Parent(p) \in Path /\ Parent(p)[1] = p[1]
<1>1. p \in Seq(Component) /\ Depth(p) \in 1..4 /\ p[1] \in Roots
  BY DEF Path
<1>2. PICK n \in 1..4 : n = Depth(p)
  BY <1>1
<1>3. \A i \in 1..(n - 1) : p[i] \in Component
  BY <1>1, <1>2, ElementOfSeq DEF Depth
<1>4. n - 1 \in Int /\ 1 \in Int /\ Parent(p) = SubSeq(p, 1, n - 1)
  BY <1>2 DEF Parent, Depth
<1>5. /\ Parent(p) \in Seq(Component)
      /\ Depth(Parent(p)) = IF 1 <= n - 1 THEN n - 1 - 1 + 1 ELSE 0
      /\ \A i \in 1..(n - 1 - 1 + 1) : Parent(p)[i] = p[1 + i - 1]
  BY <1>3, <1>4, SubSeqProperties DEF Depth
<1>6. Depth(Parent(p)) = n - 1
  BY <1>5
<1>7. ASSUME NEW i \in 1..(n - 1)
      PROVE  Parent(p)[i] = p[i]
  <2>1. i \in 1..(n - 1 - 1 + 1) /\ 1 + i - 1 = i
    BY <1>2
  <2>2. QED
    BY <1>5, <2>1
<1>8. ASSUME n > 1
      PROVE  Parent(p) \in Path /\ Parent(p)[1] = p[1]
  BY <1>1, <1>5, <1>6, <1>7, <1>8 DEF Path
<1>9. QED
  BY <1>1, <1>2, <1>5, <1>6, <1>7, <1>8

\* Paths are equal if their components are.
LEMMA PathEqual ==
  ASSUME NEW p \in Seq(Component), NEW q \in Seq(Component), Depth(p) = Depth(q),
         \A i \in 1..Depth(p) : p[i] = q[i]
  PROVE  p = q
BY SeqEqual DEF Depth

\* A path of one component is a root.
LEMMA RootPath ==
  ASSUME NEW p \in Path, Depth(p) = 1
  PROVE  p = <<p[1]>>
<1>1. p \in Seq(Component) /\ <<p[1]>> \in Seq(Component)
  BY DEF Path, Component
<1>2. Depth(<<p[1]>>) = 1 /\ <<p[1]>>[1] = p[1]
  BY DEF Depth
<1>3. \A i \in 1..Depth(p) : p[i] = <<p[1]>>[i]
  BY <1>2
<1>4. QED
  BY <1>1, <1>2, <1>3, PathEqual

\* Paths in the file system have their root in it.
LEMMA RootExists ==
  ASSUME TreeInv, NEW p \in DOMAIN fs
  PROVE  <<p[1]>> \in DOMAIN fs /\ p[1] \in Roots
<1>1. ASSUME NEW q \in DOMAIN fs
      PROVE  /\ q \in Path /\ Depth(q) \in 1..4
             /\ Depth(q) = 1 => <<q[1]>> \in DOMAIN fs
             /\ Depth(q) > 1 => /\ Parent(q) \in DOMAIN fs /\ Parent(q)[1] = q[1]
                              /\ Depth(Parent(q)) = Depth(q) - 1
  BY RootPath, ParentProperties DEF TreeInv
<1>2. \A q \in DOMAIN fs : Depth(q) = 2 => <<q[1]>> \in DOMAIN fs
  BY <1>1
<1>3. \A q \in DOMAIN fs : Depth(q) = 3 => <<q[1]>> \in DOMAIN fs
  BY <1>1, <1>2
<1>4. \A q \in DOMAIN fs : Depth(q) = 4 => <<q[1]>> \in DOMAIN fs
  BY <1>1, <1>3
<1>5. Depth(p) \in 1..4 /\ p[1] \in Roots
  BY <1>1, ParentProperties
<1>6. Depth(p) = 1 \/ Depth(p) = 2 \/ Depth(p) = 3 \/ Depth(p) = 4
  BY <1>5
<1>7. QED
  BY <1>1, <1>2, <1>3, <1>4, <1>5, <1>6

\* Directories are created with those they lie in.
LEMMA AncestorsPaths ==
  ASSUME NEW p \in Path, Depth(p) = 3, NEW q \in Ancestors(p)
  PROVE  /\ q \in Path /\ Depth(q) <= 3 /\ q[1] = p[1]
         /\ Depth(q) > 1 => Parent(q) \in Ancestors(p)
<1>1. PICK n \in 1..3 : q = SubSeq(p, 1, n)
  BY DEF Ancestors, Depth
<1>2. p \in Seq(Component) /\ p[1] \in Roots /\ \A i \in 1..3 : p[i] \in Component
  BY ElementOfSeq DEF Path, Depth
<1>3. ASSUME NEW m \in 1..3
      PROVE  /\ SubSeq(p, 1, m) \in Seq(Component) /\ Depth(SubSeq(p, 1, m)) = m
             /\ \A i \in 1..m : SubSeq(p, 1, m)[i] = p[i]
  <2>1. \A i \in 1..m : p[i] \in Component
    BY <1>2
  <2>2. /\ SubSeq(p, 1, m) \in Seq(Component)
        /\ Depth(SubSeq(p, 1, m)) = IF 1 <= m THEN m - 1 + 1 ELSE 0
        /\ \A i \in 1..(m - 1 + 1) : SubSeq(p, 1, m)[i] = p[1 + i - 1]
    BY <2>1, SubSeqProperties DEF Depth
  <2>3. QED
    BY <2>2
<1>4. q \in Path /\ Depth(q) = n /\ q[1] = p[1]
  <2>1. q \in Seq(Component) /\ Depth(q) = n /\ q[1] = p[1]
    BY <1>1, <1>3
  <2>2. QED
    BY <1>2, <2>1 DEF Path
<1>5. ASSUME n > 1
      PROVE  Parent(q) = SubSeq(p, 1, n - 1)
  <2>1. n - 1 \in 1..3
    BY <1>5
  <2>2. /\ SubSeq(p, 1, n - 1) \in Seq(Component) /\ Depth(SubSeq(p, 1, n - 1)) = n - 1
        /\ \A i \in 1..(n - 1) : SubSeq(p, 1, n - 1)[i] = p[i]
    BY <1>3, <2>1
  <2>3. /\ Parent(q) \in Seq(Component) /\ Depth(Parent(q)) = n - 1
        /\ \A i \in 1..(n - 1) : Parent(q)[i] = q[i]
    BY <1>4, ParentProperties
  <2>4. \A i \in 1..(n - 1) : q[i] = p[i]
    BY <1>1, <1>3
  <2>5. \A i \in 1..(n - 1) : Parent(q)[i] = SubSeq(p, 1, n - 1)[i]
    BY <2>2, <2>3, <2>4
  <2>6. Depth(Parent(q)) = Depth(SubSeq(p, 1, n - 1))
    BY <2>2, <2>3
  <2>7. \A i \in 1..Depth(Parent(q)) : Parent(q)[i] = SubSeq(p, 1, n - 1)[i]
    BY <2>3, <2>5
  <2>8. QED
    BY <2>2, <2>3, <2>6, <2>7, PathEqual
<1>6. QED
  <2>1. ASSUME n > 1
        PROVE  Parent(q) \in Ancestors(p)
    <3>1. n - 1 \in 1..Len(p)
      BY <2>1 DEF Depth
    <3>2. QED
      BY <1>5, <2>1, <3>1 DEF Ancestors
  <2>2. QED
    BY <1>4, <2>1

\* The paths main works with, and where they lie.
LEMMA WorkPaths ==
  ASSUME NEW r \in Roots, NEW m \in Component, NEW c \in Component
  PROVE  /\ <<r>> \in Path /\ Depth(<<r>>) = 1 /\ <<r>>[1] = r
         /\ <<r, m, c>> \in Path /\ Depth(<<r, m, c>>) = 3 /\ <<r, m, c>>[1] = r
<1>1. r \in Component
  BY DEF Component
<1>2. /\ <<r>> \in Path /\ Depth(<<r>>) = 1
      /\ <<r, m, c>> \in Path /\ Depth(<<r, m, c>>) = 3
  BY <1>1 DEF Path, Depth
<1>3. QED
  BY <1>2

\* Creating something in existing directories keeps the forest.
LEMMA TreeGrows ==
  ASSUME TreeInv, NEW paths, NEW kind, fs' = With(paths, kind),
         \A p \in paths : /\ p \in Path
                          /\ kind = "dir" <=> Depth(p) <= 3
                          /\ Depth(p) > 1 => Parent(p) \in paths \cup DOMAIN fs
  PROVE  TreeInv'
<1>1. /\ DOMAIN fs' = DOMAIN fs \cup paths
      /\ \A p \in DOMAIN fs : fs'[p] = fs[p]
      /\ \A p \in paths \ DOMAIN fs : fs'[p] = kind
  BY DEF With
<1>2. SUFFICES ASSUME NEW p \in DOMAIN fs'
               PROVE  /\ p \in Path
                      /\ fs'[p] = "dir" <=> Depth(p) <= 3
                      /\ Depth(p) > 1 => Parent(p) \in DOMAIN fs'
  BY DEF TreeInv
<1>3. CASE p \in DOMAIN fs
  BY <1>1, <1>3 DEF TreeInv
<1>4. CASE p \in paths \ DOMAIN fs
  BY <1>1, <1>4
<1>5. QED
  BY <1>1, <1>3, <1>4

\* So does deleting what has no children.
LEMMA TreeShrinks ==
  ASSUME TreeInv, NEW path, fs' = Without(path), Children(path) = {}
  PROVE  TreeInv'
<1>1. DOMAIN fs' = DOMAIN fs \ {path} /\ \A p \in DOMAIN fs' : fs'[p] = fs[p]
  BY DEF Without
<1>2. \A p \in DOMAIN fs : Parent(p) # path
  BY DEF Children
<1>3. QED
  BY <1>1, <1>2 DEF TreeInv

\* A file has no children.
LEMMA FilesChildless ==
  ASSUME TreeInv, NEW p, Depth(p) = 4
  PROVE  Children(p) = {}
<1>1. ASSUME NEW q \in DOMAIN fs
      PROVE  Parent(q) # p
  <2>1. Depth(Parent(q)) = Depth(q) - 1 /\ Depth(q) \in 1..4
    BY ParentProperties DEF TreeInv
  <2>2. QED
    BY <2>1
<1>2. QED
  BY <1>1 DEF Children

-----------------------------------------------------------------------------
\* A walk whose first frame has changed its listing, or that has gone into an entry, still
\* has its root at the bottom.
LEMMA WalkContinues ==
  ASSUME NEW r, NEW s \in Walks(r), s # <<>>, NEW left \in SUBSET Path
  PROVE  /\ [s EXCEPT ![1].left = left] \in Walks(r)
         /\ [s EXCEPT ![1].left = left] # <<>>
<1>1. s \in Seq(Frame) /\ Len(s) \in Nat \ {0} /\ s[Len(s)].dir = <<r>>
  BY EmptySeq DEF Walks
<1>2. 1 \in 1..Len(s) /\ s[1] \in Frame
  BY <1>1, ElementOfSeq
<1> DEFINE f == [s[1] EXCEPT !.left = left]
           t == [s EXCEPT ![1] = f]
<1>3. f \in Frame /\ f.dir = s[1].dir
  BY <1>2 DEF Frame
<1>4. t = [s EXCEPT ![1].left = left]
  BY <1>1, <1>2
<1> HIDE DEF f
<1>5. t \in Seq(Frame) /\ Len(t) = Len(s) /\ \A j \in 1..Len(s) : t[j] = IF j = 1 THEN f ELSE s[j]
  BY <1>1, <1>2, <1>3, ExceptSeq
<1> HIDE DEF t
<1>6. t # <<>> /\ t[Len(t)].dir = <<r>>
  BY <1>1, <1>3, <1>5, EmptySeq
<1>7. QED
  BY <1>4, <1>5, <1>6 DEF Walks

\* A directory that is entered comes on top.
LEMMA WalkEnters ==
  ASSUME NEW r, NEW s \in Walks(r), s # <<>>, NEW f \in Frame
  PROVE  <<f>> \o s \in Walks(r) /\ <<f>> \o s # <<>>
<1>1. s \in Seq(Frame) /\ Len(s) \in Nat \ {0} /\ s[Len(s)].dir = <<r>>
  BY EmptySeq DEF Walks
<1> DEFINE u == <<f>> \o s
<1>2. <<f>> \in Seq(Frame) /\ Len(<<f>>) = 1
  OBVIOUS
<1>3. /\ u \in Seq(Frame) /\ Len(u) = 1 + Len(s)
      /\ \A i \in 1..(1 + Len(s)) : u[i] = IF i <= 1 THEN <<f>>[i] ELSE s[i - 1]
  BY <1>1, <1>2, ConcatProperties
<1> HIDE DEF u
<1>4. u[Len(u)] = s[Len(s)]
  BY <1>1, <1>3
<1>5. QED
  <2>1. u \in Walks(r) /\ u # <<>>
    BY <1>1, <1>3, <1>4, EmptySeq DEF Walks
  <2>2. QED
    BY <2>1 DEF u

\* A directory that is closed is taken off; the last one is the root.
LEMMA WalkLeaves ==
  ASSUME NEW r, NEW s \in Walks(r), s # <<>>
  PROVE  /\ Tail(s) \in Walks(r)
         /\ Tail(s) = <<>> => Head(s).dir = <<r>>
<1>1. s \in Seq(Frame) /\ Len(s) \in Nat \ {0} /\ s[Len(s)].dir = <<r>>
  BY EmptySeq DEF Walks
<1> DEFINE t == Tail(s)
<1>2. /\ t \in Seq(Frame) /\ Len(t) = Len(s) - 1
      /\ \A i \in 1..Len(t) : t[i] = s[i + 1]
  BY <1>1, HeadTailProperties, EmptySeq
<1> HIDE DEF t
<1>3. ASSUME t # <<>>
      PROVE  t[Len(t)].dir = <<r>>
  <2>1. Len(t) \in 1..Len(t) /\ Len(t) + 1 = Len(s)
    BY <1>1, <1>2, <1>3, EmptySeq
  <2>2. QED
    BY <1>1, <1>2, <2>1
<1>4. ASSUME t = <<>>
      PROVE  Head(s).dir = <<r>>
  <2>1. Len(s) = 1
    BY <1>1, <1>2, <1>4, EmptySeq
  <2>2. QED
    BY <1>1, <2>1
<1>5. QED
  BY <1>2, <1>3, <1>4 DEF Walks, t

-----------------------------------------------------------------------------
\* What main works on lies in the forest.
LEMMA CurrentPaths ==
  ASSUME TypeInv, Loading
  PROVE  /\ root \in Roots /\ Module \in Component
         /\ root = "harness" => Current \in Component
         /\ pc \in {"extract", "write"} => Jars[Module][jar] \in Component
<1>1. Module \in Modules /\ root \in Roots
  BY CurrentType
<1>2. Module \in STRING
  BY <1>1, ModulesAssumption
<1>3. root = "harness" => Current \in STRING
  BY CurrentType, Constants, ElementOfSeq DEF Current
<1>4. ASSUME pc \in {"extract", "write"}
      PROVE  Jars[Module][jar] \in STRING
  <2>1. Jars[Module] \in Seq(STRING) /\ jar \in DOMAIN Jars[Module]
    BY <1>1, <1>4, Constants DEF TypeInv, JarInv
  <2>2. QED
    BY <2>1
<1>5. QED
  BY <1>1, <1>2, <1>3, <1>4 DEF Component

\* Where JAR files and the files of benchmarks lie.
LEMMA FilePaths ==
  ASSUME NEW r \in Roots, NEW m \in Component, NEW c \in Component
  PROVE  \A f \in Component :
           /\ <<r, m, c, f>> \in Path /\ Depth(<<r, m, c, f>>) = 4
           /\ Parent(<<r, m, c, f>>) = <<r, m, c>>
<1> SUFFICES ASSUME NEW f \in Component
             PROVE  /\ <<r, m, c, f>> \in Path /\ Depth(<<r, m, c, f>>) = 4
                    /\ Parent(<<r, m, c, f>>) = <<r, m, c>>
  OBVIOUS
<1>1. r \in Component
  BY DEF Component
<1>2. <<r, m, c, f>> \in Path /\ Depth(<<r, m, c, f>>) = 4
  BY <1>1 DEF Path, Depth
<1>3. /\ Parent(<<r, m, c, f>>) \in Seq(Component) /\ Depth(Parent(<<r, m, c, f>>)) = 3
      /\ \A i \in 1..3 : Parent(<<r, m, c, f>>)[i] = <<r, m, c, f>>[i]
  BY <1>2, ParentProperties
<1>4. /\ <<r, m, c>> \in Seq(Component) /\ Depth(<<r, m, c>>) = 3
      /\ \A i \in 1..3 : <<r, m, c>>[i] = <<r, m, c, f>>[i]
  BY <1>1 DEF Depth
<1>5. Parent(<<r, m, c, f>>) = <<r, m, c>>
  BY <1>3, <1>4, PathEqual
<1>6. QED
  BY <1>2, <1>5

\* createDirectories keeps the forest, and makes no other root than that of the path.
LEMMA CreatesDirectories ==
  ASSUME TreeInv, NEW p \in Path, Depth(p) = 3, CreateDirectories(p)
  PROVE  TreeInv' /\ \A r : <<r>> \in DOMAIN fs' => <<r>> \in DOMAIN fs \/ r = p[1]
<1>1. fs' = With(Ancestors(p), "dir")
  BY DEF CreateDirectories, Touch
<1>2. \A q \in Ancestors(p) : /\ q \in Path /\ Depth(q) <= 3 /\ q[1] = p[1]
                              /\ Depth(q) > 1 => Parent(q) \in Ancestors(p)
  BY AncestorsPaths
<1>3. TreeInv'
  BY <1>1, <1>2, TreeGrows
<1>4. ASSUME NEW r, <<r>> \in Ancestors(p)
      PROVE  r = p[1]
  <2>1. <<r>>[1] = p[1]
    BY <1>2, <1>4
  <2>2. QED
    BY <2>1
<1>5. DOMAIN fs' = DOMAIN fs \cup Ancestors(p)
  BY <1>1 DEF With
<1>6. QED
  BY <1>3, <1>4, <1>5

\* Main keeps the forest.  It makes the root it works in: on purpose at first, and later
\* only if that was deleted.
LEMMA TreeMain ==
  ASSUME TypeInv, TreeInv, Main
  PROVE  /\ TreeInv'
         /\ \A r : <<r>> \in DOMAIN fs' =>
              \/ <<r>> \in DOMAIN fs
              \/ r = root /\ pc \in {"scratch", "context", "lib"}
<1>1. CASE UNCHANGED fs
  BY <1>1 DEF TreeInv
<1>2. CASE CreateTempDirectory /\ fs' = With({<<root>>}, "dir")
  <2>1. <<root>> \in Path /\ Depth(<<root>>) = 1
    <3>1. root \in Roots /\ "lib" \in Component
      BY DEF TypeInv, TypeOK, Component
    <3>2. QED
      BY <3>1, WorkPaths
  <2>2. TreeInv'
    BY <1>2, <2>1, TreeGrows
  <2>3. \A r : <<r>> \in DOMAIN fs' => <<r>> \in DOMAIN fs \/ r = root
    BY <1>2 DEF With
  <2>4. QED
    BY <1>2, <2>2, <2>3 DEF CreateTempDirectory
<1>3. CASE CreateBenchmarkContext /\ CreateDirectories(ScratchDir)
  <2>1. pc = "context" /\ root = "harness" /\ Module \in Component /\ Current \in Component
    BY <1>3, CurrentPaths
    DEF CreateBenchmarkContext, Loading, TypeInv, TypeOK, JarInv, Roots
  <2>2. ScratchDir \in Path /\ Depth(ScratchDir) = 3 /\ ScratchDir[1] = root
    BY <2>1, WorkPaths DEF ScratchDir, Roots
  <2>3. QED
    BY <1>3, <2>1, <2>2, CreatesDirectories
<1>4. CASE CreateModuleJarsDirectory /\ CreateDirectories(LibDir)
  <2>1. pc = "lib" /\ root \in Roots /\ Module \in Component /\ "lib" \in Component
    BY <1>4, CurrentPaths DEF CreateModuleJarsDirectory, Loading, Component
  <2>2. LibDir \in Path /\ Depth(LibDir) = 3 /\ LibDir[1] = root
    BY <2>1, WorkPaths DEF LibDir
  <2>3. QED
    BY <1>4, <2>1, <2>2, CreatesDirectories
<1>5. CASE Extract /\ LibDir \in DOMAIN fs /\ fs' = With({JarPath(jar)}, "partial")
  <2>1. /\ pc = "extract" /\ root \in Roots /\ Module \in Component
        /\ "lib" \in Component /\ Jars[Module][jar] \in Component
    BY <1>5, CurrentPaths DEF Extract, Loading, Component
  <2>2. JarPath(jar) \in Path /\ Depth(JarPath(jar)) = 4 /\ Parent(JarPath(jar)) = LibDir
    <3>1. \A f \in Component : /\ <<root, Module, "lib", f>> \in Path
                               /\ Depth(<<root, Module, "lib", f>>) = 4
                               /\ Parent(<<root, Module, "lib", f>>) = <<root, Module, "lib">>
      BY <2>1, FilePaths
    <3>2. QED
      BY <2>1, <3>1 DEF LibDir, JarPath
  <2>3. TreeInv'
    BY <1>5, <2>2, TreeGrows
  <2>4. ASSUME NEW r, <<r>> \in DOMAIN fs'
        PROVE  <<r>> \in DOMAIN fs
    <3>1. Depth(<<r>>) = 1
      BY DEF Depth
    <3>2. <<r>> # JarPath(jar)
      BY <2>2, <3>1
    <3>3. QED
      BY <1>5, <2>4, <3>2 DEF With
  <2>5. QED
    BY <2>3, <2>4
<1>6. CASE WriteJar /\ JarPath(jar) \in DOMAIN fs /\ fs' = [fs EXCEPT ![JarPath(jar)] = "whole"]
  <2>1. /\ pc = "write" /\ root \in Roots /\ Module \in Component
        /\ "lib" \in Component /\ Jars[Module][jar] \in Component
    BY <1>6, CurrentPaths DEF WriteJar, Loading, Component
  <2>2. Depth(JarPath(jar)) = 4
    <3>1. \A f \in Component : Depth(<<root, Module, "lib", f>>) = 4
      BY <2>1, FilePaths
    <3>2. QED
      BY <2>1, <3>1 DEF JarPath
  <2>3. /\ DOMAIN fs' = DOMAIN fs
        /\ \A p \in DOMAIN fs : fs'[p] = IF p = JarPath(jar) THEN "whole" ELSE fs[p]
    BY <1>6
  <2>4. fs'[JarPath(jar)] # "dir" /\ ~(Depth(JarPath(jar)) <= 3)
    BY <1>6, <2>2, <2>3
  <2>5. QED
    BY <2>3, <2>4 DEF TreeInv
<1>7. CASE WriteData \/ FinishBenchmark
  <2>1. /\ root = "harness" /\ root \in Roots /\ Module \in Component /\ Current \in Component
        /\ "data" \in Component
    <3>1. root = "harness" /\ Loading
      BY <1>7 DEF WriteData, FinishBenchmark, Loading, TypeInv, TypeOK, JarInv, Roots
    <3>2. QED
      BY <3>1, CurrentPaths DEF Component
  <2>2. DataFile \in Path /\ Depth(DataFile) = 4 /\ Parent(DataFile) = ScratchDir
    <3>1. \A f \in Component :
            /\ <<root, Module, Current, f>> \in Path
            /\ Depth(<<root, Module, Current, f>>) = 4
            /\ Parent(<<root, Module, Current, f>>) = <<root, Module, Current>>
      BY <2>1, FilePaths
    <3>2. QED
      BY <2>1, <3>1 DEF DataFile, ScratchDir
  <2>3. \A r : <<r>> # DataFile
    <3>1. \A r : Depth(<<r>>) = 1
      BY DEF Depth
    <3>2. QED
      BY <2>2, <3>1
  <2>4. CASE ScratchDir \in DOMAIN fs /\ fs' = With({DataFile}, "whole")
    <3>1. TreeInv'
      BY <2>2, <2>4, TreeGrows
    <3>2. DOMAIN fs' = DOMAIN fs \cup {DataFile}
      BY <2>4 DEF With
    <3>3. QED
      BY <2>3, <3>1, <3>2
  <2>5. CASE fs' = Without(DataFile)
    <3>1. TreeInv'
      BY <2>2, <2>5, FilesChildless, TreeShrinks
    <3>2. DOMAIN fs' \subseteq DOMAIN fs
      BY <2>5 DEF Without
    <3>3. QED
      BY <3>1, <3>2
  <2>6. QED
    BY <1>1, <1>7, <2>4, <2>5 DEF WriteData, FinishBenchmark, Touch
<1>8. CASE AddShutdownHook \/ CreateSuite \/ InvokeHarness \/ CreateBenchmark \/ FinishRun
  BY <1>1, <1>8 DEF AddShutdownHook, CreateSuite, InvokeHarness, CreateBenchmark, FinishRun
<1>9. QED
  BY <1>1, <1>2, <1>3, <1>4, <1>5, <1>6, <1>7, <1>8
  DEF Main, CreateTempDirectory, CreateBenchmarkContext, CreateModuleJarsDirectory, Extract,
      CreateFile, WriteJar, Touch

\* Main is late only where no hook is left to delete what it creates.
LEMMA MainLate ==
  ASSUME TypeInv, Main
  PROVE  /\ jvm # "halted" /\ UNCHANGED <<jvm, walk, keep, warned>>
         /\ late \subseteq late'
         /\ jvm = "running" => late' = late
         /\ jvm # "running" => hooks' = hooks
         /\ fs' = fs \/ (Gone(root) => root \in late')
<1>1. jvm # "halted"
  BY DEF Main
<1>2. CASE AddShutdownHook
  BY <1>1, <1>2 DEF AddShutdownHook, options
<1>3. CASE ~AddShutdownHook
  <2>1. /\ UNCHANGED <<options, jvmVars>>
        /\ \/ fs' = fs /\ late' = late
           \/ late' = late \cup (IF Gone(root) THEN {root} ELSE {})
    <3>1. CASE CreateTempDirectory \/ CreateBenchmarkContext \/ CreateModuleJarsDirectory
      BY <3>1 DEF CreateTempDirectory, CreateBenchmarkContext, CreateModuleJarsDirectory,
                  CreateDirectories, Touch
    <3>2. CASE CreateSuite \/ InvokeHarness \/ CreateBenchmark \/ FinishRun
      BY <3>2 DEF CreateSuite, InvokeHarness, CreateBenchmark, FinishRun
    <3>3. CASE Extract \/ WriteJar
      BY <3>3 DEF Extract, CreateFile, WriteJar, Touch
    <3>4. CASE WriteData \/ FinishBenchmark
      BY <3>4 DEF WriteData, FinishBenchmark, Touch
    <3>5. QED
      BY <1>3, <3>1, <3>2, <3>3, <3>4 DEF Main
  <2>2. UNCHANGED <<jvm, walk, keep, hooks, warned>>
    BY <2>1 DEF options, jvmVars
  <2>3. jvm = "running" => ~Gone(root)
    BY DEF Gone
  <2>4. QED
    BY <1>1, <2>1, <2>2, <2>3
<1>4. QED
  BY <1>2, <1>3

\* Main registers the hook of a root before it does anything else there.
LEMMA RegisteredMain ==
  ASSUME TypeInv, TreeInv, RegisteredInv, Main
  PROVE  RegisteredInv'
<1>1. SUFFICES ASSUME jvm = "running"
               PROVE  RegisteredInv'
  BY MainLate DEF RegisteredInv
<1>2. late' = {} /\ keep' = keep
  BY <1>1, MainLate DEF RegisteredInv
<1>3. SUFFICES ASSUME ~keep
               PROVE  /\ \A r \in Roots : <<r>> \in DOMAIN fs' =>
                                            r \in hooks' \/ (root' = r /\ pc' = "register")
                      /\ pc' \notin {"scratch", "register", "stopped"} => root' \in hooks'
  BY <1>2 DEF RegisteredInv
<1>4. /\ \A r \in Roots : <<r>> \in DOMAIN fs => r \in hooks \/ (root = r /\ pc = "register")
      /\ pc \notin {"scratch", "register", "stopped"} => root \in hooks
  BY <1>1, <1>3 DEF RegisteredInv
<1>5. \A r : <<r>> \in DOMAIN fs' =>
        <<r>> \in DOMAIN fs \/ (r = root /\ pc \in {"scratch", "context", "lib"})
  BY TreeMain
<1>6. CASE CreateTempDirectory
  <2>1. pc = "scratch" /\ hooks' = hooks /\ root' = root
    BY <1>6 DEF CreateTempDirectory, Stop, Goto, jvmVars
  <2>2. CASE pc' = "register"
    BY <1>4, <1>5, <2>1, <2>2
  <2>3. CASE pc' = "stopped" /\ fs' = fs
    BY <1>4, <2>1, <2>3
  <2>4. QED
    BY <1>3, <1>6, <2>2, <2>3 DEF CreateTempDirectory, Stop, Goto
<1>7. CASE AddShutdownHook
  BY <1>1, <1>4, <1>7 DEF AddShutdownHook, Goto
<1>8. CASE ~CreateTempDirectory /\ ~AddShutdownHook
  <2>1. /\ pc \notin {"scratch", "register", "stopped"} /\ hooks' = hooks
        /\ root' = root \/ pc' = "scratch"
    <3>1. CASE CreateSuite \/ InvokeHarness \/ CreateBenchmark \/ FinishRun
      BY <3>1 DEF CreateSuite, InvokeHarness, CreateBenchmark, FinishRun, LoadingFails,
                  Stop, Goto, jvmVars
    <3>2. CASE CreateBenchmarkContext \/ CreateModuleJarsDirectory
      BY <3>2 DEF CreateBenchmarkContext, CreateModuleJarsDirectory, LoadingFails, Stop, Goto,
                  jvmVars
    <3>3. CASE Extract \/ WriteJar
      BY <3>3 DEF Extract, WriteJar, CreateFile, AddJar, NextJar, LoadingFails, Stop, Goto,
                  jvmVars
    <3>4. CASE WriteData \/ FinishBenchmark
      BY <3>4 DEF WriteData, FinishBenchmark, Goto, jvmVars
    <3>5. QED
      BY <1>8, <3>1, <3>2, <3>3, <3>4 DEF Main
  <2>2. QED
    BY <1>4, <1>5, <2>1
<1>9. QED
  BY <1>6, <1>7, <1>8

\* Main and the hooks: what main creates is still to be deleted, or main is late.
LEMMA DeleteMain ==
  ASSUME TypeInv, HookInv, DeleteInv, Main
  PROVE  DeleteInv'
<1>1. TreeInv' /\ RegisteredInv'
  BY TreeMain, RegisteredMain DEF DeleteInv
<1>2. /\ jvm # "halted" /\ UNCHANGED <<jvm, walk, keep, warned>>
      /\ late \subseteq late' /\ (jvm # "running" => hooks' = hooks)
      /\ fs' = fs \/ (Gone(root) => root \in late')
  BY MainLate
<1>3. WalkInv'
  BY <1>2 DEF DeleteInv, WalkInv
<1>4. ASSUME jvm # "running", ~keep, NEW r \in Roots, <<r>> \in DOMAIN fs'
      PROVE  r \in hooks \/ walk[r] # <<>> \/ r \in late' \cup warned
  <2>1. CASE <<r>> \in DOMAIN fs
    BY <1>2, <1>4, <2>1 DEF DeleteInv, DeletionInv
  <2>2. CASE <<r>> \notin DOMAIN fs
    <3>1. r = root /\ fs' # fs
      BY <1>4, <2>2, TreeMain DEF DeleteInv
    <3>2. QED
      BY <1>2, <1>4, <3>1 DEF Gone
  <2>3. QED
    BY <2>1, <2>2
<1>5. DeletionInv'
  BY <1>2, <1>4 DEF DeletionInv
<1>6. QED
  BY <1>1, <1>3, <1>5 DEF DeleteInv

\* When the JVM shuts down, a root without a hook is the one main was to register.
LEMMA DeleteJvm ==
  ASSUME TypeInv, HookInv, DeleteInv, Signal \/ Exit \/ Halt
  PROVE  DeleteInv'
<1>1. UNCHANGED <<fs, hooks, walk, keep, warned>>
  BY DEF Signal, Exit, StartHooks, Halt, options
<1>2. TreeInv' /\ WalkInv'
  BY <1>1 DEF DeleteInv, TreeInv, WalkInv
<1>3. CASE Signal \/ Exit
  <2>1. /\ jvm = "running" /\ jvm' = "hooks"
        /\ late' = IF pc = "register" THEN {root} ELSE {}
    BY <1>3 DEF Signal, Exit, StartHooks
  <2>2. RegisteredInv'
    BY <2>1 DEF RegisteredInv
  <2>3. DeletionInv'
    BY <1>1, <2>1 DEF DeleteInv, RegisteredInv, DeletionInv
  <2>4. QED
    BY <1>2, <2>2, <2>3 DEF DeleteInv
<1>4. CASE Halt
  <2>1. /\ jvm = "hooks" /\ jvm' = "halted" /\ late' = late
        /\ hooks = {} /\ \A r \in Roots : walk[r] = <<>>
    BY <1>4 DEF Halt
  <2>2. RegisteredInv'
    BY <2>1 DEF RegisteredInv
  <2>3. DeletionInv'
    BY <1>1, <2>1 DEF DeleteInv, DeletionInv
  <2>4. QED
    BY <1>2, <2>2, <2>3 DEF DeleteInv
<1>5. QED
  BY <1>3, <1>4

\* A walk that fails leaves a warning.
LEMMA DeleteFails ==
  ASSUME TypeInv, HookInv, DeleteInv, NEW r \in Roots, Fails(r), jvm = "hooks",
         UNCHANGED <<jvm, keep, late>>, hooks \ {r} \subseteq hooks'
  PROVE  DeleteInv'
<1>1. /\ UNCHANGED fs /\ warned' = warned \cup {r}
      /\ walk' = [walk EXCEPT ![r] = <<>>]
  BY DEF Fails
<1>2. walk'[r] = <<>> /\ \A q \in Roots \ {r} : walk'[q] = walk[q]
  BY <1>1 DEF TypeInv, TypeOK
<1>3. TreeInv' /\ RegisteredInv'
  BY <1>1 DEF DeleteInv, TreeInv, RegisteredInv
<1>4. <<>> \in Walks(r)
  BY EmptySeq DEF Walks
<1>5. WalkInv'
  BY <1>2, <1>4 DEF DeleteInv, WalkInv, Walks
<1>6. DeletionInv'
  BY <1>1, <1>2 DEF DeleteInv, DeletionInv
<1>7. QED
  BY <1>3, <1>5, <1>6 DEF DeleteInv

\* A hook opens its root first.
LEMMA DeleteBegin ==
  ASSUME TypeInv, HookInv, DeleteInv, NEW r \in Roots, BeginWalk(r)
  PROVE  DeleteInv'
<1>1. jvm = "hooks" /\ UNCHANGED <<jvm, late, keep>> /\ hooks' = hooks \ {r}
  BY DEF BeginWalk, options
<1>2. CASE Fails(r)
  BY <1>1, <1>2, DeleteFails
<1>3. CASE walk' = [walk EXCEPT ![r] = <<Open(<<r>>)>>] /\ UNCHANGED <<warned, fs>>
  <2>1. walk'[r] = <<Open(<<r>>)>> /\ \A q \in Roots \ {r} : walk'[q] = walk[q]
    BY <1>3 DEF TypeInv, TypeOK
  <2>2. TreeInv' /\ RegisteredInv'
    BY <1>1, <1>3 DEF DeleteInv, TreeInv, RegisteredInv
  <2>3. <<Open(<<r>>)>> \in Walks(r) /\ <<Open(<<r>>)>> # <<>>
    <3> DEFINE f == Open(<<r>>)
    <3>1. <<r>> \in Path /\ f.dir = <<r>> /\ f.left = Children(<<r>>)
      <4>1. "lib" \in Component
        BY DEF Component
      <4>2. QED
        BY <4>1, WorkPaths DEF Open
    <3>2. f \in Frame
      BY <3>1 DEF Open, Children, Frame, DeleteInv, TreeInv
    <3> HIDE DEF f
    <3>3. <<f>> \in Seq(Frame) /\ Len(<<f>>) = 1 /\ <<f>>[1] = f
      BY <3>2
    <3>4. <<f>> \in Walks(r) /\ <<f>> # <<>>
      BY <3>1, <3>3, EmptySeq DEF Walks
    <3>5. QED
      BY <3>4 DEF f
  <2>4. WalkInv'
    BY <2>1, <2>3 DEF DeleteInv, WalkInv, Walks
  <2>5. DeletionInv'
    BY <1>1, <1>3, <2>1, <2>3 DEF DeleteInv, DeletionInv
  <2>6. QED
    BY <2>2, <2>4, <2>5 DEF DeleteInv
<1>4. QED
  BY <1>2, <1>3 DEF BeginWalk

\* A step of a walk that goes on, or has deleted its root.
LEMMA DeleteWalks ==
  ASSUME TypeInv, HookInv, DeleteInv, NEW r \in Roots, jvm # "running",
         UNCHANGED <<jvm, keep, late, hooks, warned>>, walk[r] # <<>>,
         NEW s \in Walks(r), walk' = [walk EXCEPT ![r] = s],
         TreeInv', DOMAIN fs' \subseteq DOMAIN fs,
         s = <<>> => <<r>> \notin DOMAIN fs'
  PROVE  DeleteInv'
<1>1. walk'[r] = s /\ \A q \in Roots \ {r} : walk'[q] = walk[q]
  BY DEF TypeInv, TypeOK
<1>2. RegisteredInv'
  BY DEF RegisteredInv
<1>3. WalkInv'
  BY <1>1 DEF DeleteInv, WalkInv, Walks
<1>4. jvm # "halted"
  BY DEF DeleteInv, DeletionInv
<1>5. DeletionInv'
  BY <1>1, <1>4 DEF DeleteInv, DeletionInv
<1>6. QED
  BY <1>2, <1>3, <1>5 DEF DeleteInv

\* Hooks delete files, and directories without entries.
LEMMA DeleteVisit ==
  ASSUME TypeInv, HookInv, DeleteInv, NEW r \in Roots, DeleteStep(r), Visit(r)
  PROVE  DeleteInv'
<1>1. /\ jvm = "hooks" /\ walk[r] # <<>> /\ walk[r] \in Walks(r)
      /\ UNCHANGED <<jvm, hooks, late, keep>>
  BY DEF DeleteStep, HookInv, DeleteInv, DeletionInv, WalkInv, TypeInv, TypeOK, options
<1>2. CASE Fails(r)
  BY <1>1, <1>2, DeleteFails
<1>3. CASE ~Fails(r)
  <2> DEFINE s == walk[r]
             V(e) == [s EXCEPT ![1].left = @ \ {e}]
  <2>1. PICK e \in Head(s).left :
          /\ e \in DOMAIN fs
          /\ IF fs[e] = "dir"
             THEN walk' = [walk EXCEPT ![r] = <<Open(e)>> \o V(e)] /\ UNCHANGED fs
             ELSE walk' = [walk EXCEPT ![r] = V(e)] /\ fs' = Without(e)
          /\ UNCHANGED warned
    BY <1>3 DEF Visit
  <2>2. V(e) \in Walks(r) /\ V(e) # <<>>
    <3>1. s \in Seq(Frame) /\ Len(s) \in Nat \ {0}
      BY <1>1, EmptySeq DEF Walks
    <3>2. s[1] \in Frame
      BY <3>1, ElementOfSeq
    <3>3. s[1].left \ {e} \in SUBSET Path
      BY <3>2 DEF Frame
    <3>4. [s EXCEPT ![1].left = s[1].left \ {e}] = V(e)
      BY <3>1
    <3>5. /\ [s EXCEPT ![1].left = s[1].left \ {e}] \in Walks(r)
          /\ [s EXCEPT ![1].left = s[1].left \ {e}] # <<>>
      BY <1>1, <3>3, WalkContinues
    <3>6. QED
      BY <3>4, <3>5
  <2>3. e \in Path /\ (fs[e] = "dir" <=> Depth(e) <= 3)
    BY <2>1 DEF DeleteInv, TreeInv
  <2> HIDE DEF V
  <2>4. CASE fs[e] = "dir"
    <3>1. Open(e) \in Frame
      BY <2>3 DEF Open, Children, Frame, DeleteInv, TreeInv
    <3>2. <<Open(e)>> \o V(e) \in Walks(r) /\ <<Open(e)>> \o V(e) # <<>>
      BY <2>2, <3>1, WalkEnters
    <3>3. /\ walk' = [walk EXCEPT ![r] = <<Open(e)>> \o V(e)]
          /\ fs' = fs /\ UNCHANGED <<jvm, keep, late, hooks, warned>>
      BY <1>1, <2>1, <2>4
    <3>4. TreeInv'
      BY <3>3 DEF DeleteInv, TreeInv
    <3>5. QED
      BY <1>1, <3>2, <3>3, <3>4, DeleteWalks
  <2>5. CASE fs[e] # "dir"
    <3>1. /\ walk' = [walk EXCEPT ![r] = V(e)]
          /\ fs' = Without(e) /\ UNCHANGED <<jvm, keep, late, hooks, warned>>
      BY <1>1, <2>1, <2>5
    <3>2. Depth(e) = 4
      <4>1. Depth(e) \in 1..4
        BY <2>3, ParentProperties
      <4>2. QED
        BY <2>3, <2>5, <4>1
    <3>3. TreeInv'
      BY <3>1, <3>2, FilesChildless, TreeShrinks DEF DeleteInv
    <3>4. DOMAIN fs' \subseteq DOMAIN fs
      BY <3>1 DEF Without
    <3>5. QED
      BY <1>1, <2>2, <3>1, <3>3, <3>4, DeleteWalks
  <2>6. QED
    BY <2>4, <2>5
<1>4. QED
  BY <1>2, <1>3

\* A walk comes to its end when it has deleted its root, and a root without entries has
\* nothing below it.
LEMMA DeletePostVisit ==
  ASSUME TypeInv, HookInv, DeleteInv, NEW r \in Roots, DeleteStep(r), PostVisitDirectory(r)
  PROVE  DeleteInv'
<1>1. /\ jvm = "hooks" /\ walk[r] # <<>> /\ walk[r] \in Walks(r)
      /\ UNCHANGED <<jvm, hooks, late, keep>>
  BY DEF DeleteStep, HookInv, DeleteInv, DeletionInv, WalkInv, TypeInv, TypeOK, options
<1> DEFINE dir == Head(walk[r]).dir
<1>2. CASE Fails(r)
  BY <1>1, <1>2, DeleteFails
<1>3. CASE /\ Children(dir) = {}
           /\ walk' = [walk EXCEPT ![r] = Tail(@)] /\ fs' = Without(dir)
           /\ UNCHANGED warned
  <2>1. Tail(walk[r]) \in Walks(r) /\ (Tail(walk[r]) = <<>> => dir = <<r>>)
    BY <1>1, WalkLeaves
  <2>2. walk' = [walk EXCEPT ![r] = Tail(walk[r])]
    BY <1>3
  <2>3. DOMAIN fs' = DOMAIN fs \ {dir}
    BY <1>3 DEF Without
  <2>4. TreeInv'
    BY <1>3, TreeShrinks DEF DeleteInv
  <2>5. QED
    BY <1>1, <1>3, <2>1, <2>2, <2>3, <2>4, DeleteWalks
<1>4. CASE /\ walk' = [walk EXCEPT ![r][1].left = Children(dir)]
           /\ UNCHANGED <<fs, warned>>
  <2> DEFINE t == [walk[r] EXCEPT ![1].left = Children(dir)]
  <2>1. Children(dir) \in SUBSET Path
    BY DEF Children, DeleteInv, TreeInv
  <2>2. t \in Walks(r) /\ t # <<>>
    BY <1>1, <2>1, WalkContinues
  <2>3. walk' = [walk EXCEPT ![r] = t]
    BY <1>4
  <2>4. TreeInv'
    BY <1>4 DEF DeleteInv, TreeInv
  <2> HIDE DEF t
  <2>5. QED
    BY <1>1, <1>4, <2>2, <2>3, <2>4, DeleteWalks
<1>5. QED
  BY <1>2, <1>3, <1>4 DEF PostVisitDirectory

\* Initially there is nothing to delete.
LEMMA DeleteInit == Init => DeleteInv
<1> SUFFICES ASSUME Init
             PROVE  DeleteInv
  OBVIOUS
<1>1. DOMAIN fs = {}
  BY DEF Init
<1>2. TreeInv
  BY <1>1 DEF TreeInv
<1>3. RegisteredInv
  BY <1>1 DEF Init, RegisteredInv
<1>4. DeletionInv
  BY DEF Init, DeletionInv
<1>5. WalkInv
  BY EmptySeq DEF Init, WalkInv, Walks
<1>6. QED
  BY <1>2, <1>3, <1>4, <1>5 DEF DeleteInv

\* Every step keeps the invariant.
LEMMA DeleteNext == TypeInv /\ HookInv /\ DeleteInv /\ [Next]_vars => DeleteInv'
<1>1. ASSUME DeleteInv, UNCHANGED vars
      PROVE  DeleteInv'
  <2>1. UNCHANGED <<keep, fs, jvm, hooks, walk, warned, pc, root, late>>
    BY <1>1 DEF vars, options, jvmVars, mainVars
  <2>2. QED
    BY <1>1, <2>1 DEF DeleteInv, TreeInv, RegisteredInv, DeletionInv, WalkInv
<1>2. ASSUME TypeInv, HookInv, DeleteInv, NEW r \in Roots, DeleteStep(r)
      PROVE  DeleteInv'
  BY <1>2, DeleteVisit, DeletePostVisit DEF DeleteStep
<1>3. QED
  BY <1>1, <1>2, DeleteMain, DeleteJvm, DeleteBegin DEF Next, Hook

(* Whatever files there are, whichever call fails and whenever the JVM     *)
(* shuts down, a hook that is registered deletes everything below its root *)
(* (DirUtils.deleteRecursively), what main creates meanwhile included, or  *)
(* logs a warning; only what main creates after the hook has ended is left *)
(* without one, or the directory whose hook main was about to register.    *)
THEOREM ScratchCorrect == Spec => []ScratchDeleted
<1>1. DeleteInv => ScratchDeleted
  <2> SUFFICES ASSUME DeleteInv, jvm = "halted", ~keep, NEW p \in DOMAIN fs
               PROVE  p[1] \in late \cup warned
    BY DEF ScratchDeleted
  <2>1. <<p[1]>> \in DOMAIN fs /\ p[1] \in Roots
    BY RootExists DEF DeleteInv
  <2>2. QED
    BY <2>1 DEF DeleteInv, DeletionInv
<1>2. Inv => TypeInv /\ HookInv
  BY DEF Inv
<1>3. QED
  BY <1>1, <1>2, InvInit, InvNext, DeleteInit, DeleteNext, PTL DEF Spec
=============================================================================
