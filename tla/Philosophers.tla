---------------------------- MODULE Philosophers ----------------------------
(***************************************************************************)
(* The philosophers benchmark (RealityShowPhilosophers.scala): dining      *)
(* philosopher threads that pick up their forks in one transaction, a      *)
(* camera thread that makes a scan whenever enough meals have been eaten,  *)
(* and the main thread that starts, joins and stops them.                  *)
(*                                                                         *)
(* A transaction of ScalaSTM is one step, and one that would retry is not  *)
(* enabled.                                                                *)
(***************************************************************************)
EXTENDS Integers

CONSTANTS NumPhilosophers,  \* thread_count
          Meals,            \* meal_count
          BlockMeals        \* block_meal_count

\* What Philosophers.setUpBeforeAll checks.
ASSUME ParameterAssumption ==
  /\ NumPhilosophers \in Nat \ {0}
  /\ Meals \in Nat \ {0}
  /\ BlockMeals \in Nat \ {0} /\ BlockMeals \in {2^k : k \in 0..30}

Philosopher == 0..(NumPhilosophers - 1)
Fork        == Philosopher
Nobody      == -1

Left(p)  == p
Right(p) == (p + 1) % NumPhilosophers

VARIABLES
  owner,         \* owner of each fork
  mealsEaten,    \* of each philosopher
  phase,         \* what each philosopher does next
  blockCount, requestCount, scanCount, terminate,   \* CameraController
  camera,        \* what the camera thread does next
  images,        \* number of images it has made
  main, visited  \* what the main thread does next, to which philosopher

controllerVars == <<blockCount, requestCount, scanCount, terminate>>
cameraVars     == <<camera, images>>
mainVars       == <<main, visited>>
vars == <<owner, mealsEaten, phase, blockCount, requestCount, scanCount, terminate,
          camera, images, main, visited>>

TypeOK ==
  /\ owner \in [Fork -> Philosopher \cup {Nobody}]
  /\ mealsEaten \in [Philosopher -> 0..Meals]
  /\ phase \in [Philosopher -> {"new", "thinking", "eating", "report", "ended"}]
  /\ blockCount \in Nat /\ requestCount \in Nat /\ scanCount \in Nat
  /\ terminate \in BOOLEAN
  /\ camera \in {"new", "await", "scan", "ended"}
  /\ images \in Nat
  /\ main \in {"camera", "start", "join", "shutdown", "collect", "done"}
  /\ visited \in 0..NumPhilosophers

Init ==
  /\ owner = [f \in Fork |-> Nobody]
  /\ mealsEaten = [p \in Philosopher |-> 0]
  /\ phase = [p \in Philosopher |-> "new"]
  /\ blockCount = 0 /\ requestCount = 0 /\ scanCount = 0
  /\ terminate = FALSE
  /\ camera = "new" /\ images = 0
  /\ main = "camera" /\ visited = 0

-----------------------------------------------------------------------------
(* PhilosopherThread.run                                                   *)

\* After a meal and its report: the next meal, unless it was the last one.
NextMeal(eaten) == IF eaten < Meals THEN "thinking" ELSE "ended"

\* isBlockComplete, whose mask is BlockMeals - 1.
BlockComplete(eaten) == eaten % BlockMeals = 0

\* Faulty: only one of the forks is checked.
PickUp_OneChecked(p) ==
  /\ phase[p] = "thinking"
  /\ owner[Left(p)] = Nobody
  /\ owner' = [owner EXCEPT ![Left(p)] = p, ![Right(p)] = p]
  /\ phase' = [phase EXCEPT ![p] = "eating"]
  /\ UNCHANGED <<mealsEaten, controllerVars, cameraVars, mainVars>>

\* Faulty: the forks are picked up one after the other, each in a transaction.
PickUp_OneByOne(p) ==
  /\ phase[p] = "thinking"
  /\ IF owner[Left(p)] = p
     THEN /\ owner[Right(p)] = Nobody
          /\ owner' = [owner EXCEPT ![Right(p)] = p]
          /\ phase' = [phase EXCEPT ![p] = "eating"]
     ELSE /\ owner[Left(p)] = Nobody
          /\ owner' = [owner EXCEPT ![Left(p)] = p]
          /\ UNCHANGED phase
  /\ UNCHANGED <<mealsEaten, controllerVars, cameraVars, mainVars>>

PickUp(p) ==
  /\ phase[p] = "thinking"
  /\ owner[Left(p)] = Nobody /\ owner[Right(p)] = Nobody
  /\ owner' = [owner EXCEPT ![Left(p)] = p, ![Right(p)] = p]
  /\ phase' = [phase EXCEPT ![p] = "eating"]
  /\ UNCHANGED <<mealsEaten, controllerVars, cameraVars, mainVars>>

\* Faulty: the meal is counted twice.
PutDown_Twice(p) ==
  /\ phase[p] = "eating"
  /\ owner' = [owner EXCEPT ![Left(p)] = Nobody, ![Right(p)] = Nobody]
  /\ mealsEaten' = [mealsEaten EXCEPT ![p] = @ + 2]
  /\ phase' = [phase EXCEPT ![p] = NextMeal(mealsEaten'[p])]
  /\ UNCHANGED <<controllerVars, cameraVars, mainVars>>

PutDown(p) ==
  /\ phase[p] = "eating"
  /\ owner' = [owner EXCEPT ![Left(p)] = Nobody, ![Right(p)] = Nobody]
  /\ mealsEaten' = [mealsEaten EXCEPT ![p] = @ + 1]
  /\ phase' = [phase EXCEPT ![p] =
                 IF BlockComplete(mealsEaten'[p]) THEN "report" ELSE NextMeal(mealsEaten'[p])]
  /\ UNCHANGED <<controllerVars, cameraVars, mainVars>>

\* CameraController.notifyBlockComplete
NotifyBlockComplete(p) ==
  /\ phase[p] = "report"
  /\ blockCount' = blockCount + 1
  /\ requestCount' = IF blockCount' % NumPhilosophers = 0 THEN requestCount + 1
                     ELSE requestCount
  /\ phase' = [phase EXCEPT ![p] = NextMeal(mealsEaten[p])]
  /\ UNCHANGED <<owner, mealsEaten, scanCount, terminate, cameraVars, mainVars>>

-----------------------------------------------------------------------------
(* CameraThread.run                                                        *)

\* Faulty: termination takes precedence over requests.
AwaitRequest_TerminateFirst ==
  /\ camera = "await"
  /\ \/ /\ ~terminate /\ scanCount < requestCount
        /\ scanCount' = scanCount + 1
        /\ camera' = "scan"
     \/ /\ terminate
        /\ camera' = "ended" /\ UNCHANGED scanCount
  /\ UNCHANGED <<owner, mealsEaten, phase, blockCount, requestCount, terminate, images,
                 mainVars>>

\* CameraController.awaitRequest
AwaitRequest ==
  /\ camera = "await"
  /\ \/ /\ scanCount < requestCount
        /\ scanCount' = scanCount + 1
        /\ camera' = "scan"
     \/ /\ scanCount >= requestCount /\ terminate
        /\ camera' = "ended" /\ UNCHANGED scanCount
  /\ UNCHANGED <<owner, mealsEaten, phase, blockCount, requestCount, terminate, images,
                 mainVars>>

\* stateSnapshot and renderImage
Scan ==
  /\ camera = "scan"
  /\ images' = images + 1
  /\ camera' = "await"
  /\ UNCHANGED <<owner, mealsEaten, phase, controllerVars, mainVars>>

-----------------------------------------------------------------------------
(* RealityShowPhilosophers.run, in the main thread                         *)

StartCamera ==
  /\ main = "camera"
  /\ camera' = "await"
  /\ main' = "start"
  /\ UNCHANGED <<owner, mealsEaten, phase, controllerVars, images, visited>>

StartPhilosopher ==
  /\ main = "start"
  /\ phase' = [phase EXCEPT ![visited] = "thinking"]
  /\ IF visited + 1 < NumPhilosophers
     THEN visited' = visited + 1 /\ UNCHANGED main
     ELSE visited' = 0 /\ main' = "join"
  /\ UNCHANGED <<owner, mealsEaten, controllerVars, cameraVars>>

JoinPhilosopher ==
  /\ main = "join"
  /\ phase[visited] = "ended"
  /\ IF visited + 1 < NumPhilosophers
     THEN visited' = visited + 1 /\ UNCHANGED main
     ELSE visited' = 0 /\ main' = "shutdown"
  /\ UNCHANGED <<owner, mealsEaten, phase, controllerVars, cameraVars>>

\* CameraController.shutdown, once the philosophers have finished.
Shutdown ==
  /\ main = "shutdown"
  /\ terminate' = TRUE
  /\ main' = "collect"
  /\ UNCHANGED <<owner, mealsEaten, phase, blockCount, requestCount, scanCount, cameraVars,
                 visited>>

\* The camera is joined and the state is collected for validation.
Collect ==
  /\ main = "collect"
  /\ camera = "ended"
  /\ main' = "done"
  /\ UNCHANGED <<owner, mealsEaten, phase, controllerVars, cameraVars, visited>>

-----------------------------------------------------------------------------
PhilosopherStep(p) == PickUp(p) \/ PutDown(p) \/ NotifyBlockComplete(p)
CameraStep == AwaitRequest \/ Scan
MainStep == StartCamera \/ StartPhilosopher \/ JoinPhilosopher \/ Shutdown \/ Collect

Next == (\E p \in Philosopher : PhilosopherStep(p)) \/ CameraStep \/ MainStep

\* Every thread runs when it can.
Fairness ==
  /\ \A p \in Philosopher : WF_vars(PhilosopherStep(p))
  /\ WF_vars(CameraStep)
  /\ WF_vars(MainStep)

Spec == Init /\ [][Next]_vars /\ Fairness

-----------------------------------------------------------------------------
(* Properties.                                                             *)

(* A fork is owned by a philosopher exactly while he eats with it: nobody  *)
(* waits with one fork, and neighbours never eat at the same time.  This   *)
(* is what the image of a scan may show.                                   *)
ForksHeldByEaters ==
  \A p \in Philosopher, f \in Fork :
    owner[f] = p <=> (phase[p] = "eating" /\ f \in {Left(p), Right(p)})

(* What Philosophers.validate asserts of the result of run(): the forks    *)
(* are free, all meals were eaten, and the camera has made one scan per    *)
(* block of meals, although requests may come faster than scans and the    *)
(* shutdown may overtake the last of them.                                 *)
ResultIsValid ==
  main = "done" =>
    /\ \A f \in Fork : owner[f] = Nobody
    /\ \A p \in Philosopher : mealsEaten[p] = Meals
    /\ images = Meals \div BlockMeals

(* No philosopher, nor the camera, waits forever: run() returns.           *)
RunReturns == <>(main = "done")
=============================================================================
