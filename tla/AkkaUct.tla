------------------------------ MODULE AkkaUct ------------------------------
(***************************************************************************)
(* The akka-uct benchmark (UctAkkaActorBenchmark.scala, AkkaActor.scala):  *)
(* a tree of actors that ask the root whether they may have children, and  *)
(* are traversed and terminated once the tree is large enough, while the   *)
(* main thread waits for a latch that counts the actors.                   *)
(*                                                                         *)
(* Nodes are numbered by their ids; the root is 0.  A step is one handler, *)
(* applied to the first message of a mailbox.  A send puts the message     *)
(* into the mailbox of its (local) receiver before the sender goes on.     *)
(* Handlers that nothing sends to (PrintInfo, GetId, UrgentTraverse) and   *)
(* what is only printed (heights, urgency) are left out.                   *)
(***************************************************************************)
EXTENDS Integers, Sequences, FiniteSets

CONSTANTS Binomial,   \* BINOMIAL_PARAM
          MaxNodes,   \* MAX_NODES
          LoopCount   \* loop_count

ASSUME UctAssumption ==
  /\ Binomial \in Nat \ {0}
  /\ MaxNodes \in Nat /\ MaxNodes > Binomial
  /\ LoopCount \in Nat \ {0}

Node == 0..(MaxNodes - 1)
Root == 0
NoChildren == 0

\* The children created when the root's size was `first`.
Children(first) == IF first = NoChildren THEN {} ELSE first..(first + Binomial - 1)

Messages == [type : {"start", "tree", "try", "traverse", "terminate"}]
            \cup [type : {"request"}, sender : Node]
            \cup [type : {"generate"}, first : Nat]
            \cup [type : {"grant"}, child : 0..(Binomial - 1)]

VARIABLES
  latch,      \* actorLatch, shared by all runs of the loop
  loop, main, \* iterations begun; what the main thread does
  life,       \* of each actor: "none", "created", "started", "exited"
  mailbox,    \* of each actor
  firstChild, \* of each actor: its first child, or NoChildren
  granted,    \* hasGrantChildren of each actor, as a set of indices
  size,       \* the root's: nodes in the tree
  answered,   \* the root's: requests it has answered
  visits      \* history: traversals of each node

treeVars == <<firstChild, granted, size, answered, visits>>
vars == <<latch, loop, main, life, mailbox, firstChild, granted, size, answered, visits>>

TypeOK ==
  /\ latch \in Nat
  /\ loop \in 0..LoopCount /\ main \in {"run", "await", "done"}
  /\ life \in [Node -> {"none", "created", "started", "exited"}]
  /\ mailbox \in [Node -> Seq(Messages)]
  /\ firstChild \in [Node -> Node]
  /\ granted \in [Node -> SUBSET (0..(Binomial - 1))]
  /\ size \in 1..MaxNodes
  /\ answered \in Nat
  /\ visits \in [Node -> Nat]

Init ==
  /\ latch = 0 /\ loop = 0 /\ main = "run"
  /\ life = [n \in Node |-> "none"]
  /\ mailbox = [n \in Node |-> <<>>]
  /\ firstChild = [n \in Node |-> NoChildren]
  /\ granted = [n \in Node |-> {}]
  /\ size = 1 /\ answered = 0
  /\ visits = [n \in Node |-> 0]

-----------------------------------------------------------------------------
(* Messages.                                                               *)

Nothing == [n \in Node |-> <<>>]

\* Faulty: a terminate message overtakes the others (as with a priority mailbox).
Sent_Priority(box, sends) ==
  mailbox' = [m \in Node |->
    IF life[m] = "exited" THEN <<>>
    ELSE IF \E i \in DOMAIN sends[m] : sends[m][i].type = "terminate"
         THEN sends[m] \o box[m] ELSE box[m] \o sends[m]]

\* The messages `sends` are put into mailboxes; those to exited actors are lost.
Sent(box, sends) ==
  mailbox' = [m \in Node |-> IF life[m] = "exited" THEN <<>> ELSE box[m] \o sends[m]]

\* Actor n has handled its first message, and sent `sends`.
Handled(n, sends) == Sent([mailbox EXCEPT ![n] = Tail(@)], sends)

Receives(n, type) ==
  /\ life[n] \in {"created", "started"}
  /\ mailbox[n] # <<>>
  /\ Head(mailbox[n]).type = type

\* To all of the nodes in S, the messages ms.
ToAll(S, ms) == [m \in Node |-> IF m \in S THEN ms ELSE <<>>]

-----------------------------------------------------------------------------
(* AkkaActor and actorLatch.                                               *)

\* Faulty: the latch is counted back down if the actor had not been started before.
Start_Inverted(n) ==
  /\ Receives(n, "start")
  /\ life' = [life EXCEPT ![n] = "started"]
  /\ latch' = IF life[n] = "started" THEN latch ELSE latch - 1
  /\ Handled(n, Nothing)
  /\ UNCHANGED <<loop, main, treeVars>>

\* The start message: the promise is resolved with false, and the latch counted
\* back down, if the actor had been started before.
Start(n) ==
  /\ Receives(n, "start")
  /\ life' = [life EXCEPT ![n] = "started"]
  /\ latch' = IF life[n] = "started" THEN latch - 1 ELSE latch
  /\ Handled(n, Nothing)
  /\ UNCHANGED <<loop, main, treeVars>>

\* Actor n sends `sends` and calls exit(), which no handler does twice: the messages
\* that wait in its mailbox are lost.
Exit(n, sends) ==
  /\ life' = [life EXCEPT ![n] = "exited"]
  /\ latch' = latch - 1
  /\ Sent([mailbox EXCEPT ![n] = <<>>], sends)

\* Faulty: the children are asked to try before they are started.
Generate_TryFirst(n, first, others) ==
  /\ life' = [m \in Node |-> IF m \in Children(first) THEN "created" ELSE life[m]]
  /\ latch' = latch + Binomial
  /\ firstChild' = [firstChild EXCEPT ![n] = first]
  /\ Handled(n, [m \in Node |->
       IF m \in Children(first) THEN <<[type |-> "try"], [type |-> "start"]>>
       ELSE others[m]])

\* Actor n creates and starts its children (createNodeActor, startActor), and then
\* asks them to try to generate children of their own.
Generate(n, first, others) ==
  /\ life' = [m \in Node |-> IF m \in Children(first) THEN "created" ELSE life[m]]
  /\ latch' = latch + Binomial
  /\ firstChild' = [firstChild EXCEPT ![n] = first]
  /\ Handled(n, [m \in Node |->
       IF m \in Children(first) THEN <<[type |-> "start"], [type |-> "try"]>>
       ELSE others[m]])

-----------------------------------------------------------------------------
(* RootActor                                                               *)

GenerateTree ==
  /\ Receives(Root, "tree")
  /\ Generate(Root, size, Nothing)
  /\ size' = size + Binomial
  /\ UNCHANGED <<loop, main, granted, answered, visits>>

\* Random(2) draws at least one more grant as long as the tree may grow: the last
\* request that can still be made before MaxNodes is reached is never denied.
MayDeny == answered + 1 < size - 1

\* The tree is full: it is traversed and terminated, by messages to each child.
Finish ==
  /\ Exit(Root, ToAll(Children(firstChild[Root]),
                      <<[type |-> "traverse"], [type |-> "terminate"]>>))
  /\ UNCHANGED <<loop, main, treeVars>>

\* Faulty: the bound is compared with the size before it grows.
CheckGenerateChildrenRequest_OffByOne ==
  /\ Receives(Root, "request")
  /\ IF size <= MaxNodes
     THEN /\ size' = size + Binomial /\ answered' = answered + 1
          /\ Handled(Root, ToAll({Head(mailbox[Root]).sender},
                                 <<[type |-> "generate", first |-> size]>>))
          /\ UNCHANGED <<latch, loop, main, life, firstChild, granted, visits>>
     ELSE Finish

\* checkGenerateChildrenRequest
CheckGenerateChildrenRequest ==
  /\ Receives(Root, "request")
  /\ IF size + Binomial <= MaxNodes
     THEN /\ answered' = answered + 1
          /\ \/ /\ Handled(Root, ToAll({Head(mailbox[Root]).sender},
                                       <<[type |-> "generate", first |-> size]>>))
                /\ size' = size + Binomial
             \/ /\ MayDeny
                /\ Handled(Root, Nothing)
                /\ UNCHANGED size
          /\ UNCHANGED <<latch, loop, main, life, firstChild, granted, visits>>
     ELSE Finish

-----------------------------------------------------------------------------
(* NodeActor; a grant is handled alike by the root.                        *)

UpdateGrant(n) ==
  /\ Receives(n, "grant")
  /\ granted' = [granted EXCEPT ![n] = @ \cup {Head(mailbox[n]).child}]
  /\ Handled(n, Nothing)
  /\ UNCHANGED <<latch, loop, main, life, firstChild, size, answered, visits>>

TryGenerateChildren(n) ==
  /\ Receives(n, "try")
  /\ Handled(n, ToAll({Root}, <<[type |-> "request", sender |-> n]>>))
  /\ UNCHANGED <<latch, loop, main, life, treeVars>>

Parents(n) == {p \in Node : n \in Children(firstChild[p])}

\* generateChildren and generateUrgentChildren
GenerateChildren(n) ==
  /\ Receives(n, "generate")
  /\ Generate(n, Head(mailbox[n]).first,
              ToAll(Parents(n), <<[type |-> "grant", child |-> n % Binomial]>>))
  /\ UNCHANGED <<loop, main, granted, size, answered, visits>>

\* Faulty: the traversal stops at the children of the root.
Traverse_RootOnly(n) ==
  /\ Receives(n, "traverse")
  /\ visits' = [visits EXCEPT ![n] = @ + 1]
  /\ Handled(n, Nothing)
  /\ UNCHANGED <<latch, loop, main, life, firstChild, granted, size, answered>>

Traverse(n) ==
  /\ Receives(n, "traverse")
  /\ visits' = [visits EXCEPT ![n] = @ + 1]
  /\ Handled(n, ToAll(Children(firstChild[n]), <<[type |-> "traverse"]>>))
  /\ UNCHANGED <<latch, loop, main, life, firstChild, granted, size, answered>>

\* Faulty: the children are not told.
TerminateMe_Alone(n) ==
  /\ Receives(n, "terminate")
  /\ Exit(n, Nothing)
  /\ UNCHANGED <<loop, main, treeVars>>

TerminateMe(n) ==
  /\ Receives(n, "terminate")
  /\ Exit(n, ToAll(Children(firstChild[n]), <<[type |-> "terminate"]>>))
  /\ UNCHANGED <<loop, main, treeVars>>

-----------------------------------------------------------------------------
(* The main thread: runIteration, loop_count times.                        *)

\* A new actor system with the root, which is started and told to begin.
RunIteration ==
  /\ main = "run"
  /\ main' = "await" /\ loop' = loop + 1
  /\ life' = [n \in Node |-> IF n = Root THEN "created" ELSE "none"]
  /\ latch' = latch + 1
  /\ mailbox' = ToAll({Root}, <<[type |-> "start"], [type |-> "tree"]>>)
  /\ firstChild' = [n \in Node |-> NoChildren]
  /\ granted' = [n \in Node |-> {}]
  /\ size' = 1 /\ answered' = 0
  /\ visits' = [n \in Node |-> 0]

AwaitTermination ==
  /\ main = "await" /\ latch = 0
  /\ main' = IF loop < LoopCount THEN "run" ELSE "done"
  /\ UNCHANGED <<latch, loop, life, mailbox, treeVars>>

-----------------------------------------------------------------------------
ActorStep(n) ==
  \/ Start(n) \/ UpdateGrant(n) \/ TryGenerateChildren(n) \/ GenerateChildren(n)
  \/ Traverse(n) \/ TerminateMe(n)

RootStep == GenerateTree \/ CheckGenerateChildrenRequest
MainStep == RunIteration \/ AwaitTermination

Next == (\E n \in Node : ActorStep(n)) \/ RootStep \/ MainStep

\* The dispatcher gives every actor with messages its turn.
Fairness ==
  /\ \A n \in Node : WF_vars(ActorStep(n))
  /\ WF_vars(RootStep)
  /\ WF_vars(MainStep)

Spec == Init /\ [][Next]_vars /\ Fairness

-----------------------------------------------------------------------------
(* Properties.                                                             *)

Alive == {n \in Node : life[n] \in {"created", "started"}}
Known == {n \in Node : life[n] # "none"}

(* actorLatch counts the actors that have not exited, also those that have *)
(* not handled their start message yet: startActor counts up before the    *)
(* message is sent, by an actor that has not exited itself.                *)
LatchCountsActors == latch = Cardinality(Alive)

(* No actor handles another message before its start message.              *)
StartedFirst ==
  \A n \in Node :
    life[n] = "created" => mailbox[n] # <<>> /\ Head(mailbox[n]).type = "start"

\* The actors that have yet to carry out a grant.
Granted == {n \in Node : \E i \in DOMAIN mailbox[n] : mailbox[n][i].type = "generate"}

(* The root's size is that of the tree and of the grants on their way: a   *)
(* terminate message, which takes another way through the tree, never      *)
(* overtakes the grant the root has sent before it.                        *)
NoGrantLost ==
  loop > 0 => size = Cardinality(Known) + Binomial * Cardinality(Granted)

(* When awaitTermination returns, the whole tree that was granted has been *)
(* traversed, each node but the root once, and every actor has exited.     *)
IterationComplete ==
  (main = "await" /\ latch = 0) \/ main = "done" =>
    /\ Known = 0..(size - 1) /\ size + Binomial > MaxNodes
    /\ \A n \in Known : life[n] = "exited" /\ (n # Root => visits[n] = 1)

(* Every iteration comes to an end.                                        *)
RunReturns == <>(main = "done")

=============================================================================
