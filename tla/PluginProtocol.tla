-------------------------- MODULE PluginProtocol --------------------------
(***************************************************************************)
(* What Plugin.java and documentation/plugins.md promise to plugins: in    *)
(* which order each may see the events of the harness, of each benchmark   *)
(* and of each measured operation.  Harness is shown to implement it.      *)
(***************************************************************************)
CONSTANT Plugin

VARIABLES
  stage,    \* stage[p]: the last event plugin p has seen
  excused   \* has a plugin thrown an exception?  The promise ends there.

\* What a plugin may see next, after each event.
Follows ==
  [none                   |-> {"afterHarnessInit"},
   afterHarnessInit       |-> {"beforeBenchmarkSetUp", "beforeHarnessShutdown"},
   beforeBenchmarkSetUp   |-> {"afterBenchmarkSetUp", "afterBenchmarkTearDown"},
   afterBenchmarkSetUp    |-> {"afterOperationSetUp", "beforeBenchmarkTearDown"},
   afterOperationSetUp    |-> {"beforeOperationTearDown", "beforeBenchmarkTearDown"},
   beforeOperationTearDown |-> {"afterOperationSetUp", "beforeBenchmarkTearDown"},
   beforeBenchmarkTearDown |-> {"afterBenchmarkTearDown"},
   afterBenchmarkTearDown |-> {"onBenchmarkFailure", "beforeBenchmarkSetUp",
                               "beforeHarnessShutdown"},
   onBenchmarkFailure     |-> {"beforeBenchmarkSetUp", "beforeHarnessShutdown"},
   beforeHarnessShutdown  |-> {}]

Init == stage = [p \in Plugin |-> "none"] /\ ~excused

See(p) ==
  /\ \E event \in Follows[stage[p]] : stage' = [stage EXCEPT ![p] = event]
  /\ excused' = excused

Excuse == excused'

Next == (\E p \in Plugin : See(p)) \/ Excuse

Spec == Init /\ [][Next]_<<stage, excused>>
=============================================================================
