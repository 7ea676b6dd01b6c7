------------------------- MODULE PhilosophersProofs -------------------------
(***************************************************************************)
(* Proofs about Philosophers, for any number of philosophers and meals and *)
(* any size of a block of meals.                                           *)
(***************************************************************************)
EXTENDS Philosophers, FiniteSetTheorems, TLAPS

-----------------------------------------------------------------------------
(* Arithmetic.                                                             *)

\* Quotient and remainder of natural numbers.
LEMMA Division ==
  ASSUME NEW a \in Nat, NEW b \in Nat \ {0}
  PROVE  /\ a \div b \in Nat
         /\ a % b \in 0..(b - 1)
         /\ a = (a \div b) * b + (a % b)
BY SMT

\* A quotient and a remainder of the right size are the quotient and the remainder.
LEMMA DivisionUnique ==
  ASSUME NEW q \in Nat, NEW b \in Nat \ {0}, NEW r \in 0..(b - 1), NEW a \in Nat,
         a = q * b + r
  PROVE  a % b = r /\ a \div b = q
BY SMT

\* A multiple leaves no remainder.
LEMMA MultipleDivides ==
  ASSUME NEW q \in Nat, NEW b \in Nat \ {0}
  PROVE  (q * b) % b = 0 /\ (q * b) \div b = q
<1>1. 0 \in 0..(b - 1) /\ q * b \in Nat /\ q * b = q * b + 0
  OBVIOUS
<1>2. QED
  BY <1>1, DivisionUnique

\* Multiples are ordered like the factors.
LEMMA MultiplesOrdered ==
  ASSUME NEW i \in Nat, NEW j \in Nat, NEW b \in Nat \ {0}
  PROVE  /\ i <= j => i * b <= j * b
         /\ i * b < (j + 1) * b => i <= j
BY SMT

-----------------------------------------------------------------------------
(* Types, with the facts about counters they rest on.                      *)

HungryInv ==
  \A p \in Philosopher : phase[p] \in {"new", "thinking", "eating"} => mealsEaten[p] < Meals

\* Philosophers that main has not started yet are new; main visits philosophers, and
\* starts the camera first.
StartInv ==
  /\ main \in {"start", "join"} => visited < NumPhilosophers
  /\ main = "camera" => visited = 0 /\ camera = "new"
  /\ main \in {"camera", "start"} => \A p \in Philosopher : p >= visited => phase[p] = "new"

TypeInv == TypeOK /\ HungryInv /\ StartInv

\* The part of the assumption that linear arithmetic needs.
LEMMA Parameters ==
  /\ NumPhilosophers \in Nat \ {0}
  /\ Meals \in Nat \ {0}
  /\ BlockMeals \in Nat \ {0}
BY ParameterAssumption

\* Both forks of a philosopher are forks.
LEMMA ForkType ==
  ASSUME NEW p \in Philosopher
  PROVE  Left(p) \in Fork /\ Right(p) \in Fork
<1>1. p + 1 \in Nat
  BY DEF Philosopher
<1>2. (p + 1) % NumPhilosophers \in 0..(NumPhilosophers - 1)
  BY <1>1, Parameters, SMT
<1>3. QED
  BY <1>2 DEF Left, Right, Fork, Philosopher

\* Initially everybody is new and nothing is eaten or counted.
LEMMA TypeInit == Init => TypeInv
<1> SUFFICES ASSUME Init
             PROVE  TypeInv
  OBVIOUS
<1>1. /\ owner \in [Fork -> Philosopher \cup {Nobody}]
      /\ mealsEaten \in [Philosopher -> 0..Meals]
      /\ phase \in [Philosopher -> {"new", "thinking", "eating", "report", "ended"}]
  <2>1. 0 \in 0..Meals
    BY Parameters
  <2>2. QED
    BY <2>1 DEF Init
<1>2. blockCount \in Nat /\ requestCount \in Nat /\ scanCount \in Nat /\ images \in Nat
      /\ visited \in 0..NumPhilosophers
  BY Parameters DEF Init
<1>3. TypeOK
  BY <1>1, <1>2 DEF Init, TypeOK
<1>4. HungryInv
  BY Parameters DEF Init, HungryInv
<1>5. StartInv
  BY Parameters DEF Init, StartInv, Philosopher
<1>6. QED
  BY <1>3, <1>4, <1>5 DEF TypeInv

\* Every step keeps the types, and main visits philosophers one by one.
LEMMA TypeNext == TypeInv /\ [Next]_vars => TypeInv'
<1> SUFFICES ASSUME TypeInv, [Next]_vars
             PROVE  TypeInv'
  OBVIOUS
<1> USE Parameters DEF TypeInv, TypeOK, HungryInv, StartInv
<1>1. ASSUME NEW p \in Philosopher, PickUp(p)
      PROVE  TypeInv'
  <2>1. owner' \in [Fork -> Philosopher \cup {Nobody}]
    BY <1>1 DEF PickUp
  <2>2. QED
    BY <1>1, <2>1 DEF PickUp, controllerVars, cameraVars, mainVars
<1>2. ASSUME NEW p \in Philosopher, PutDown(p)
      PROVE  TypeInv'
  <2>1. owner' \in [Fork -> Philosopher \cup {Nobody}]
    BY <1>2 DEF PutDown
  <2>2. /\ mealsEaten' \in [Philosopher -> 0..Meals]
        /\ mealsEaten'[p] = mealsEaten[p] + 1
        /\ \A q \in Philosopher : q # p => mealsEaten'[q] = mealsEaten[q]
    BY <1>2 DEF PutDown
  <2>3. phase' = [phase EXCEPT ![p] = phase'[p]]
    BY <1>2 DEF PutDown
  <2>4. phase'[p] \in {"report", "thinking", "ended"}
        /\ (phase'[p] = "thinking" => mealsEaten'[p] < Meals)
    BY <1>2 DEF PutDown, NextMeal
  <2>5. QED
    BY <1>2, <2>1, <2>2, <2>3, <2>4 DEF PutDown, controllerVars, cameraVars, mainVars
<1>3. ASSUME NEW p \in Philosopher, NotifyBlockComplete(p)
      PROVE  TypeInv'
  BY <1>3 DEF NotifyBlockComplete, NextMeal, cameraVars, mainVars
<1>4. CASE CameraStep
  BY <1>4 DEF CameraStep, AwaitRequest, Scan, controllerVars, mainVars
<1>5. CASE MainStep
  <2>1. CASE StartPhilosopher
    <3>1. /\ phase' \in [Philosopher -> {"new", "thinking", "eating", "report", "ended"}]
          /\ \A p \in Philosopher : p # visited => phase'[p] = phase[p]
      BY <2>1 DEF StartPhilosopher
    <3>2. /\ visited' \in 0..NumPhilosophers
          /\ main' = "start" => visited' = visited + 1 /\ visited' < NumPhilosophers
          /\ main' = "join" => visited' < NumPhilosophers
          /\ main' \in {"start", "join"}
      BY <2>1 DEF StartPhilosopher
    <3>3. visited \in Philosopher /\ phase[visited] = "new"
      BY <2>1 DEF StartPhilosopher, Philosopher
    <3>4. HungryInv'
      BY <2>1, <3>1, <3>3 DEF StartPhilosopher
    <3>5. StartInv'
      BY <2>1, <3>1, <3>2 DEF StartPhilosopher, Philosopher
    <3>6. QED
      BY <2>1, <3>1, <3>2, <3>4, <3>5 DEF StartPhilosopher, controllerVars, cameraVars
  <2>2. CASE StartCamera
    <3>1. StartInv'
      BY <2>2 DEF StartCamera, Philosopher
    <3>2. QED
      BY <2>2, <3>1 DEF StartCamera, controllerVars
  <2>3. CASE JoinPhilosopher
    <3>1. /\ visited' \in 0..NumPhilosophers
          /\ main' = "join" => visited' < NumPhilosophers
          /\ main' \in {"join", "shutdown"}
      BY <2>3 DEF JoinPhilosopher
    <3>2. QED
      BY <2>3, <3>1 DEF JoinPhilosopher, controllerVars, cameraVars
  <2>4. CASE Shutdown \/ Collect
    BY <2>4 DEF Shutdown, Collect, controllerVars, cameraVars
  <2>5. QED
    BY <1>5, <2>1, <2>2, <2>3, <2>4 DEF MainStep
<1>6. CASE UNCHANGED vars
  BY <1>6 DEF vars
<1>7. QED
  BY <1>1, <1>2, <1>3, <1>4, <1>5, <1>6 DEF Next, PhilosopherStep

(* The types of all variables: no counter of meals exceeds the meals of a  *)
(* philosopher (the loop in PhilosopherThread.run).                        *)
THEOREM TypeCorrect == Spec => []TypeOK
<1>1. TypeInv => TypeOK
  BY DEF TypeInv
<1>2. QED
  BY TypeInit, TypeNext, <1>1, PTL DEF Spec

-----------------------------------------------------------------------------
(* Forks.                                                                  *)

(* A step of the program keeps every fork owned by exactly the philosopher *)
(* that eats with it.  Only the transactions that pick up and put down two *)
(* forks can disturb that.                                                 *)
LEMMA ForksNext == TypeInv /\ ForksHeldByEaters /\ [Next]_vars => ForksHeldByEaters'
<1> SUFFICES ASSUME TypeInv, ForksHeldByEaters, [Next]_vars
             PROVE  ForksHeldByEaters'
  OBVIOUS
<1> USE DEF ForksHeldByEaters
<1>1. /\ owner \in [Fork -> Philosopher \cup {Nobody}]
      /\ phase \in [Philosopher -> {"new", "thinking", "eating", "report", "ended"}]
  BY DEF TypeInv, TypeOK
<1>2. Nobody \notin Philosopher
  BY DEF Philosopher, Nobody
<1>3. ASSUME NEW p \in Philosopher, PickUp(p)
      PROVE  ForksHeldByEaters'
  <2>1. /\ phase' = [phase EXCEPT ![p] = "eating"]
        /\ owner' = [owner EXCEPT ![Left(p)] = p, ![Right(p)] = p]
        /\ owner[Left(p)] = Nobody /\ owner[Right(p)] = Nobody
        /\ phase[p] = "thinking"
    BY <1>3 DEF PickUp
  <2>2. \A f \in Fork : owner'[f] = IF f \in {Left(p), Right(p)} THEN p ELSE owner[f]
    BY <1>1, <2>1
  <2>3. QED
    BY <1>1, <1>2, <2>1, <2>2, ForkType
<1>4. ASSUME NEW p \in Philosopher, PutDown(p)
      PROVE  ForksHeldByEaters'
  <2>1. /\ phase[p] = "eating"
        /\ \A q \in Philosopher : q # p => phase'[q] = phase[q]
        /\ phase'[p] # "eating"
    BY <1>1, <1>4 DEF PutDown, NextMeal
  <2>2. \A f \in Fork : owner'[f] = IF f \in {Left(p), Right(p)} THEN Nobody ELSE owner[f]
    BY <1>1, <1>4 DEF PutDown
  <2>3. QED
    BY <1>1, <1>2, <2>1, <2>2, ForkType
<1>5. ASSUME NEW p \in Philosopher, NotifyBlockComplete(p)
      PROVE  ForksHeldByEaters'
  BY <1>1, <1>5 DEF NotifyBlockComplete, NextMeal
<1>6. CASE CameraStep
  BY <1>6 DEF CameraStep, AwaitRequest, Scan
<1>7. CASE MainStep
  <2>1. CASE StartPhilosopher
    <3>1. visited \in Philosopher /\ phase[visited] = "new"
      BY <2>1, Parameters DEF StartPhilosopher, Philosopher, TypeInv, StartInv, TypeOK
    <3>2. QED
      BY <1>1, <2>1, <3>1 DEF StartPhilosopher
  <2>2. QED
    BY <1>7, <2>1 DEF MainStep, StartCamera, JoinPhilosopher, Shutdown, Collect
<1>8. CASE UNCHANGED vars
  BY <1>8 DEF vars
<1>9. QED
  BY <1>3, <1>4, <1>5, <1>6, <1>7, <1>8 DEF Next, PhilosopherStep

(* A fork is owned by a philosopher exactly while he eats with it (the two *)
(* transactions of PhilosopherThread.run), for any number of philosophers: *)
(* so nobody waits with one fork and neighbours do not eat together.       *)
THEOREM ForksCorrect == Spec => []ForksHeldByEaters
<1>1. Init => ForksHeldByEaters
  BY DEF Init, ForksHeldByEaters, Philosopher, Fork, Nobody
<1>2. QED
  BY TypeInit, TypeNext, ForksNext, <1>1, PTL DEF Spec

-----------------------------------------------------------------------------
(* Blocks of meals, requests, scans and images.                            *)

Blocks == Meals \div BlockMeals

\* The k-th block of philosopher p is complete, and p has told the controller.
Told(p, k) ==
  /\ k * BlockMeals <= mealsEaten[p]
  /\ ~(phase[p] = "report" /\ k * BlockMeals = mealsEaten[p])

Reported == {b \in Philosopher \X (1..Blocks) : Told(b[1], b[2])}

\* The controller has counted every block once, and made the requests due.
BlockInv ==
  /\ \A p \in Philosopher :
       phase[p] = "report" => mealsEaten[p] # 0 /\ BlockComplete(mealsEaten[p])
  /\ blockCount = Cardinality(Reported)
  /\ requestCount = blockCount \div NumPhilosophers

\* The camera makes an image for every request it took, and takes them all.
CameraInv ==
  /\ scanCount = images + (IF camera = "scan" THEN 1 ELSE 0)
  /\ scanCount <= requestCount
  /\ camera = "ended" => terminate /\ scanCount >= requestCount

\* Termination follows the end of every philosopher.
ShutdownInv ==
  /\ \A p \in Philosopher : phase[p] = "ended" => mealsEaten[p] = Meals
  /\ main = "join" => \A p \in Philosopher : p < visited => phase[p] = "ended"
  /\ main \in {"shutdown", "collect", "done"} =>
       \A p \in Philosopher : phase[p] = "ended"
  /\ terminate => main \in {"collect", "done"}
  /\ main = "done" => camera = "ended"

CountInv == BlockInv /\ CameraInv /\ ShutdownInv

\* There are finitely many blocks to report.
LEMMA ReportedFinite ==
  /\ IsFiniteSet(Philosopher \X (1..Blocks))
  /\ Cardinality(Philosopher \X (1..Blocks)) = NumPhilosophers * Blocks
  /\ Reported \subseteq Philosopher \X (1..Blocks)
  /\ IsFiniteSet(Reported)
<1>1. Blocks \in Nat
  BY Parameters, Division DEF Blocks
<1>2. IsFiniteSet(1..Blocks) /\ Cardinality(1..Blocks) = Blocks
  BY <1>1, FS_Interval
<1>3. IsFiniteSet(Philosopher) /\ Cardinality(Philosopher) = NumPhilosophers
  BY FS_Interval, Parameters DEF Philosopher
<1>4. /\ IsFiniteSet(Philosopher \X (1..Blocks))
      /\ Cardinality(Philosopher \X (1..Blocks)) = NumPhilosophers * Blocks
  BY <1>2, <1>3, FS_Product
<1>5. Reported \subseteq Philosopher \X (1..Blocks)
  BY DEF Reported
<1>6. QED
  BY <1>4, <1>5, FS_Subset

(* The set of reported blocks changes only when a philosopher reports one: *)
(* the meal that completes a block is eaten before the block is reported.  *)
LEMMA ReportedSame ==
  ASSUME TypeInv,
         \A p \in Philosopher, k \in 1..Blocks : Told(p, k)' <=> Told(p, k)
  PROVE  Reported' = Reported
BY DEF Reported

\* Eating a meal reports no block.
LEMMA MealReportsNothing ==
  ASSUME TypeInv, NEW p \in Philosopher, PutDown(p)
  PROVE  Reported' = Reported
<1>1. /\ mealsEaten \in [Philosopher -> 0..Meals]
      /\ phase \in [Philosopher -> {"new", "thinking", "eating", "report", "ended"}]
      /\ Blocks \in Nat
  BY Parameters, Division DEF TypeInv, TypeOK, Blocks
<1>2. /\ phase[p] = "eating"
      /\ \A q \in Philosopher : q # p => phase'[q] = phase[q] /\ mealsEaten'[q] = mealsEaten[q]
      /\ mealsEaten'[p] = mealsEaten[p] + 1
      /\ phase'[p] = "report" <=> BlockComplete(mealsEaten'[p])
  BY <1>1 DEF PutDown, NextMeal
<1>3. ASSUME NEW k \in 1..Blocks
      PROVE  Told(p, k)' <=> Told(p, k)
  <2>1. k * BlockMeals \in Nat /\ mealsEaten[p] \in Nat
    BY <1>1, Parameters
  <2>2. CASE k * BlockMeals = mealsEaten[p] + 1
    <3>1. BlockComplete(mealsEaten'[p])
      <4>1. k \in Nat /\ mealsEaten'[p] = k * BlockMeals
        BY <1>1, <1>2, <2>1, <2>2
      <4>2. QED
        BY <4>1, MultipleDivides, Parameters DEF BlockComplete
    <3>2. QED
      BY <1>2, <2>1, <2>2, <3>1 DEF Told
  <2>3. CASE k * BlockMeals # mealsEaten[p] + 1
    BY <1>2, <2>1, <2>3 DEF Told
  <2>4. QED
    BY <2>2, <2>3
<1>4. ASSUME NEW q \in Philosopher, q # p, NEW k \in 1..Blocks
      PROVE  Told(q, k)' <=> Told(q, k)
  BY <1>2, <1>4 DEF Told
<1>5. QED
  BY <1>3, <1>4, ReportedSame

\* A report adds one block to the reported ones.
LEMMA ReportAddsBlock ==
  ASSUME TypeInv, BlockInv, NEW p \in Philosopher, NotifyBlockComplete(p)
  PROVE  Cardinality(Reported') = Cardinality(Reported) + 1
<1>1. /\ mealsEaten \in [Philosopher -> 0..Meals]
      /\ phase \in [Philosopher -> {"new", "thinking", "eating", "report", "ended"}]
      /\ Blocks \in Nat
  BY Parameters, Division DEF TypeInv, TypeOK, Blocks
<1>2. /\ phase[p] = "report" /\ phase'[p] # "report"
      /\ \A q \in Philosopher : q # p => phase'[q] = phase[q]
      /\ mealsEaten' = mealsEaten
  BY <1>1 DEF NotifyBlockComplete, NextMeal
<1> DEFINE block == mealsEaten[p] \div BlockMeals
<1>3. block \in Nat /\ mealsEaten[p] = block * BlockMeals
  <2>1. mealsEaten[p] \in Nat /\ mealsEaten[p] % BlockMeals = 0
    BY <1>1, <1>2, Parameters DEF BlockInv, BlockComplete
  <2>2. /\ block \in Nat
        /\ mealsEaten[p] = block * BlockMeals + (mealsEaten[p] % BlockMeals)
    BY <2>1, Division, Parameters
  <2>3. block * BlockMeals \in Nat
    BY <2>2, Parameters
  <2>4. QED
    BY <2>1, <2>2, <2>3
<1>4. block \in 1..Blocks
  <2>1. block # 0
    BY <1>2, <1>3, Parameters DEF BlockInv
  <2>2. /\ Meals % BlockMeals \in 0..(BlockMeals - 1)
        /\ Meals = Blocks * BlockMeals + (Meals % BlockMeals)
    BY Division, Parameters DEF Blocks
  <2>3. Blocks * BlockMeals \in Nat /\ (Blocks + 1) * BlockMeals = Blocks * BlockMeals + BlockMeals
    BY <1>1, Parameters
  <2>4. block * BlockMeals \in Nat /\ block * BlockMeals <= Meals
    BY <1>1, <1>3, Parameters
  <2>5. block * BlockMeals < (Blocks + 1) * BlockMeals
    BY <2>2, <2>3, <2>4, Parameters
  <2>6. block <= Blocks
    BY <1>1, <1>3, <2>5, MultiplesOrdered, Parameters
  <2>7. QED
    BY <1>1, <1>3, <2>1, <2>6
<1> HIDE DEF block
<1>5. \A k \in 1..Blocks : k * BlockMeals = block * BlockMeals => k = block
  BY <1>1, <1>3, <1>4, MultiplesOrdered, Parameters
<1>6. Reported' = Reported \cup {<<p, block>>}
  <2>1. ASSUME NEW q \in Philosopher, NEW k \in 1..Blocks
        PROVE  Told(q, k)' <=> Told(q, k) \/ (q = p /\ k = block)
    <3>1. k * BlockMeals \in Nat /\ block * BlockMeals \in Nat
      BY <1>1, <1>3, Parameters
    <3>2. QED
      BY <1>2, <1>3, <1>5, <3>1 DEF Told
  <2>2. QED
    BY <1>4, <2>1 DEF Reported
<1>7. <<p, block>> \notin Reported
  BY <1>2, <1>3 DEF Reported, Told
<1>8. QED
  BY <1>6, <1>7, ReportedFinite, FS_AddElement

\* Initially no block is complete.
LEMMA BlockInit == Init => BlockInv
<1> SUFFICES ASSUME Init
             PROVE  BlockInv
  OBVIOUS
<1>1. Blocks \in Nat /\ 0 \div NumPhilosophers = 0
  <2>1. 0 * NumPhilosophers = 0
    BY Parameters
  <2>2. QED
    BY <2>1, Parameters, Division, MultipleDivides DEF Blocks
<1>2. Reported = {}
  <2>1. ASSUME NEW p \in Philosopher, NEW k \in 1..Blocks
        PROVE  ~Told(p, k)
    <3>1. k * BlockMeals \in Nat /\ k * BlockMeals > 0
      BY <1>1, Parameters
    <3>2. mealsEaten[p] = 0
      BY DEF Init
    <3>3. QED
      BY <3>1, <3>2 DEF Told
  <2>2. QED
    BY <2>1 DEF Reported
<1>3. QED
  BY <1>1, <1>2, FS_EmptySet DEF Init, BlockInv

(* The request that is due is made with the report of the last block it    *)
(* waits for (notifyBlockComplete).                                        *)
LEMMA RequestDue ==
  ASSUME NEW b \in Nat, NEW n \in Nat \ {0}
  PROVE  (b + 1) \div n = IF (b + 1) % n = 0 THEN (b \div n) + 1 ELSE b \div n
<1> DEFINE q == b \div n
           r == b % n
<1>1. q \in Nat /\ r \in 0..(n - 1) /\ b = q * n + r
  BY Division
<1> HIDE DEF q, r
<1>2. CASE r + 1 = n
  <2>1. b + 1 = (q + 1) * n
    BY <1>1, <1>2
  <2>2. q + 1 \in Nat
    BY <1>1
  <2>3. ((q + 1) * n) % n = 0 /\ ((q + 1) * n) \div n = q + 1
    BY <2>2, MultipleDivides
  <2>4. (b + 1) % n = 0 /\ (b + 1) \div n = q + 1
    BY <2>1, <2>3, Zenon
  <2>5. QED
    BY <2>4 DEF q
<1>3. CASE r + 1 # n
  <2>1. r + 1 \in 0..(n - 1) /\ r + 1 # 0
    BY <1>1, <1>3
  <2>2. b + 1 = q * n + (r + 1) /\ b + 1 \in Nat
    BY <1>1
  <2>3. (b + 1) % n = r + 1 /\ (b + 1) \div n = q
    BY <1>1, <2>1, <2>2, DivisionUnique
  <2>4. QED
    BY <2>1, <2>3 DEF q
<1>4. QED
  BY <1>2, <1>3

\* The controller counts every block that is reported, and no other.
LEMMA BlockNext == TypeInv /\ BlockInv /\ [Next]_vars => BlockInv'
<1> SUFFICES ASSUME TypeInv, BlockInv, [Next]_vars
             PROVE  BlockInv'
  OBVIOUS
<1>1. /\ mealsEaten \in [Philosopher -> 0..Meals]
      /\ phase \in [Philosopher -> {"new", "thinking", "eating", "report", "ended"}]
      /\ blockCount \in Nat
  BY DEF TypeInv, TypeOK
\* A step that neither eats nor reports.
<1>2. ASSUME UNCHANGED <<mealsEaten, blockCount, requestCount>>,
             \A p \in Philosopher : phase'[p] = "report" <=> phase[p] = "report"
      PROVE  BlockInv'
  <2>1. Reported' = Reported
    BY <1>2, ReportedSame DEF Told
  <2>2. QED
    BY <1>2, <2>1 DEF BlockInv
<1>3. ASSUME NEW p \in Philosopher, PickUp(p)
      PROVE  BlockInv'
  BY <1>1, <1>2, <1>3 DEF PickUp, controllerVars
<1>4. ASSUME NEW p \in Philosopher, PutDown(p)
      PROVE  BlockInv'
  <2>1. Reported' = Reported
    BY <1>4, MealReportsNothing
  <2>2. \A q \in Philosopher :
          phase'[q] = "report" => mealsEaten'[q] # 0 /\ BlockComplete(mealsEaten'[q])
    BY <1>1, <1>4 DEF PutDown, NextMeal, BlockInv
  <2>3. UNCHANGED <<blockCount, requestCount>>
    BY <1>4 DEF PutDown, controllerVars
  <2>4. QED
    BY <2>1, <2>2, <2>3 DEF BlockInv
<1>5. ASSUME NEW p \in Philosopher, NotifyBlockComplete(p)
      PROVE  BlockInv'
  <2>1. blockCount' = Cardinality(Reported')
    BY <1>5, ReportAddsBlock DEF NotifyBlockComplete, BlockInv
  <2>2. requestCount' = blockCount' \div NumPhilosophers
    BY <1>1, <1>5, RequestDue, Parameters DEF NotifyBlockComplete, BlockInv
  <2>3. \A q \in Philosopher :
          phase'[q] = "report" => mealsEaten'[q] # 0 /\ BlockComplete(mealsEaten'[q])
    BY <1>1, <1>5 DEF NotifyBlockComplete, NextMeal, BlockInv
  <2>4. QED
    BY <2>1, <2>2, <2>3 DEF BlockInv
<1>6. CASE CameraStep
  BY <1>2, <1>6 DEF CameraStep, AwaitRequest, Scan, controllerVars
<1>7. CASE MainStep
  <2>1. CASE StartPhilosopher
    <3>1. visited \in Philosopher /\ phase[visited] = "new"
      BY <2>1, Parameters DEF StartPhilosopher, Philosopher, TypeInv, StartInv, TypeOK
    <3>2. QED
      BY <1>1, <1>2, <2>1, <3>1 DEF StartPhilosopher, controllerVars
  <2>2. QED
    BY <1>2, <1>7, <2>1
       DEF MainStep, StartCamera, JoinPhilosopher, Shutdown, Collect, controllerVars
<1>8. CASE UNCHANGED vars
  BY <1>2, <1>8 DEF vars
<1>9. QED
  BY <1>3, <1>4, <1>5, <1>6, <1>7, <1>8 DEF Next, PhilosopherStep

\* The camera takes a request at a time, and ends after the last of them.
LEMMA CameraNext == TypeInv /\ CameraInv /\ ShutdownInv /\ [Next]_vars => CameraInv'
<1> SUFFICES ASSUME TypeInv, CameraInv, ShutdownInv, [Next]_vars
             PROVE  CameraInv'
  OBVIOUS
<1> USE DEF TypeInv, TypeOK, CameraInv
<1>1. ASSUME NEW p \in Philosopher, PhilosopherStep(p)
      PROVE  CameraInv'
  <2>1. CASE PickUp(p) \/ PutDown(p)
    BY <2>1 DEF PickUp, PutDown, controllerVars, cameraVars
  <2>2. CASE NotifyBlockComplete(p)
    <3>1. camera # "ended"
      BY <2>2 DEF NotifyBlockComplete, ShutdownInv
    <3>2. QED
      BY <2>2, <3>1 DEF NotifyBlockComplete, cameraVars
  <2>3. QED
    BY <1>1, <2>1, <2>2 DEF PhilosopherStep
<1>2. CASE CameraStep
  BY <1>2 DEF CameraStep, AwaitRequest, Scan, controllerVars
<1>3. CASE StartCamera
  BY <1>3 DEF StartInv, StartCamera, controllerVars
<1>4. CASE MainStep /\ ~StartCamera
  BY <1>4 DEF MainStep, StartPhilosopher, JoinPhilosopher, Shutdown, Collect,
              controllerVars, cameraVars
<1>5. CASE UNCHANGED vars
  BY <1>5 DEF vars
<1>6. QED
  BY <1>1, <1>2, <1>3, <1>4, <1>5 DEF Next

\* main joins all philosophers before it asks for termination.
LEMMA ShutdownNext == TypeInv /\ ShutdownInv /\ [Next]_vars => ShutdownInv'
<1> SUFFICES ASSUME TypeInv, ShutdownInv, [Next]_vars
             PROVE  ShutdownInv'
  OBVIOUS
<1> USE DEF ShutdownInv
<1>1. /\ mealsEaten \in [Philosopher -> 0..Meals]
      /\ phase \in [Philosopher -> {"new", "thinking", "eating", "report", "ended"}]
      /\ Meals \in Nat
  BY Parameters DEF TypeInv, TypeOK
<1>2. ASSUME NEW p \in Philosopher, PhilosopherStep(p)
      PROVE  ShutdownInv'
  <2>1. phase[p] # "ended" /\ \A q \in Philosopher : q # p => phase'[q] = phase[q]
    BY <1>1, <1>2 DEF PhilosopherStep, PickUp, PutDown, NotifyBlockComplete
  <2>2. \A q \in Philosopher : phase'[q] = "ended" => mealsEaten'[q] = Meals
    <3>1. CASE PickUp(p)
      BY <1>1, <3>1 DEF PickUp
    <3>2. CASE PutDown(p)
      <4>1. /\ mealsEaten'[p] = mealsEaten[p] + 1 /\ mealsEaten[p] < Meals
            /\ \A q \in Philosopher : q # p => mealsEaten'[q] = mealsEaten[q]
        BY <1>1, <3>2 DEF PutDown, TypeInv, HungryInv
      <4>2. phase'[p] = "ended" => ~(mealsEaten'[p] < Meals)
        BY <1>1, <3>2 DEF PutDown, NextMeal
      <4>3. QED
        BY <1>1, <2>1, <4>1, <4>2
    <3>3. CASE NotifyBlockComplete(p)
      BY <1>1, <3>3 DEF NotifyBlockComplete, NextMeal
    <3>4. QED
      BY <1>2, <3>1, <3>2, <3>3 DEF PhilosopherStep
  <2>3. UNCHANGED <<terminate, camera, main, visited>>
    BY <1>2 DEF PhilosopherStep, PickUp, PutDown, NotifyBlockComplete, controllerVars,
                cameraVars, mainVars
  <2>4. QED
    BY <2>1, <2>2, <2>3
<1>3. CASE CameraStep
  BY <1>3 DEF CameraStep, AwaitRequest, Scan, controllerVars, mainVars
<1>4. CASE MainStep
  <2>1. CASE StartCamera
    BY <2>1 DEF StartCamera, controllerVars
  <2>2. CASE StartPhilosopher
    <3>1. visited \in Philosopher /\ phase[visited] = "new" /\ main = "start"
      BY <2>2, Parameters DEF StartPhilosopher, Philosopher, TypeInv, StartInv, TypeOK
    <3>2. \A q \in Philosopher : phase'[q] = "ended" => phase[q] = "ended"
      BY <1>1, <2>2 DEF StartPhilosopher
    <3>3. main' \in {"start", "join"} /\ (main' = "join" => visited' = 0)
      BY <2>2, <3>1 DEF StartPhilosopher
    <3>4. QED
      BY <2>2, <3>1, <3>2, <3>3 DEF StartPhilosopher, Philosopher, controllerVars, cameraVars
  <2>3. CASE JoinPhilosopher
    <3>1. \A q \in Philosopher : q < visited + 1 => phase[q] = "ended"
      BY <2>3, Parameters DEF JoinPhilosopher, Philosopher, TypeInv, TypeOK
    <3>2. CASE visited + 1 < NumPhilosophers
      BY <2>3, <3>1, <3>2 DEF JoinPhilosopher, controllerVars, cameraVars
    <3>3. CASE ~(visited + 1 < NumPhilosophers)
      <4>1. \A q \in Philosopher : phase[q] = "ended"
        BY <3>1, <3>3, Parameters DEF Philosopher, TypeInv, TypeOK
      <4>2. QED
        BY <2>3, <3>3, <4>1 DEF JoinPhilosopher, controllerVars, cameraVars
    <3>4. QED
      BY <3>2, <3>3
  <2>4. CASE Shutdown \/ Collect
    BY <2>4 DEF Shutdown, Collect, controllerVars, cameraVars
  <2>5. QED
    BY <1>4, <2>1, <2>2, <2>3, <2>4 DEF MainStep
<1>5. CASE UNCHANGED vars
  BY <1>5 DEF vars
<1>6. QED
  BY <1>2, <1>3, <1>4, <1>5 DEF Next

\* Once all philosophers have ended, every block is complete and reported.
LEMMA AllReported ==
  ASSUME TypeInv, BlockInv, ShutdownInv, \A p \in Philosopher : phase[p] = "ended"
  PROVE  requestCount = Blocks
<1>1. Blocks \in Nat /\ Blocks * BlockMeals <= Meals
  <2>1. /\ Blocks \in Nat
        /\ Meals % BlockMeals \in 0..(BlockMeals - 1)
        /\ Meals = Blocks * BlockMeals + (Meals % BlockMeals)
    BY Division, Parameters DEF Blocks
  <2>2. Blocks * BlockMeals \in Nat
    BY <2>1, Parameters
  <2>3. QED
    BY <2>1, <2>2, Parameters
<1>2. ASSUME NEW p \in Philosopher, NEW k \in 1..Blocks
      PROVE  Told(p, k)
  <2>1. mealsEaten[p] = Meals /\ phase[p] = "ended"
    BY DEF ShutdownInv
  <2>2. k * BlockMeals <= Blocks * BlockMeals
    BY <1>1, MultiplesOrdered, Parameters
  <2>3. k * BlockMeals \in Nat /\ Blocks * BlockMeals \in Nat
    BY <1>1, Parameters
  <2>4. QED
    BY <1>1, <2>1, <2>2, <2>3, Parameters DEF Told
<1>3. Reported = Philosopher \X (1..Blocks)
  BY <1>2 DEF Reported
<1>4. blockCount = Blocks * NumPhilosophers
  BY <1>1, <1>3, ReportedFinite, Parameters DEF BlockInv
<1>5. QED
  BY <1>1, <1>4, MultipleDivides, Parameters DEF BlockInv

\* Initially nothing is scanned and nobody has ended.
LEMMA CountInit == Init => CameraInv /\ ShutdownInv
<1> SUFFICES ASSUME Init
             PROVE  CameraInv /\ ShutdownInv
  OBVIOUS
<1>1. \A p \in Philosopher : phase[p] = "new"
  BY DEF Init
<1>2. QED
  BY <1>1 DEF Init, CameraInv, ShutdownInv

(* What Philosophers.validate asserts of the result of run(), for any      *)
(* number of philosophers and meals and any size of a block: the forks are *)
(* free, every meal was eaten, and there is an image for every block.      *)
THEOREM ResultCorrect == Spec => []ResultIsValid
<1>1. TypeInv /\ ForksHeldByEaters /\ CountInv => ResultIsValid
  <2> SUFFICES ASSUME TypeInv, ForksHeldByEaters, CountInv, main = "done"
               PROVE  /\ \A f \in Fork : owner[f] = Nobody
                      /\ \A p \in Philosopher : mealsEaten[p] = Meals
                      /\ images = Meals \div BlockMeals
    BY DEF ResultIsValid
  <2>1. \A p \in Philosopher : phase[p] = "ended"
    BY DEF CountInv, ShutdownInv
  <2>2. \A f \in Fork : owner[f] = Nobody
    BY <2>1 DEF TypeInv, TypeOK, ForksHeldByEaters
  <2>3. \A p \in Philosopher : mealsEaten[p] = Meals
    BY <2>1 DEF CountInv, ShutdownInv
  <2>4. requestCount = Blocks
    BY <2>1, AllReported DEF CountInv
  <2>5. images = requestCount
    BY DEF CountInv, CameraInv, ShutdownInv, TypeInv, TypeOK
  <2>6. QED
    BY <2>2, <2>3, <2>4, <2>5 DEF Blocks
<1>2. TypeInv /\ CountInv /\ [Next]_vars => CountInv'
  BY BlockNext, CameraNext, ShutdownNext DEF CountInv
<1>3. Init => TypeInv /\ ForksHeldByEaters /\ CountInv
  BY TypeInit, BlockInit, CountInit
     DEF CountInv, Init, ForksHeldByEaters, Philosopher, Fork, Nobody
<1>4. QED
  BY <1>1, <1>2, <1>3, TypeNext, ForksNext, PTL DEF Spec
=============================================================================
