-------------------------- MODULE MCModuleLoading --------------------------
(***************************************************************************)
(* Benchmarks, modules and JAR files for TLC.                              *)
(***************************************************************************)
EXTENDS ModuleLoading

\* Two benchmarks of one module, with two JAR files.
MCBenchmarks == <<"als", "movie_lens">>
MCModuleOf == [als |-> "spark", movie_lens |-> "spark"]
MCJars == [core |-> <<"core">>, spark |-> <<"spark", "scala">>]
=============================================================================
