-------------------------- MODULE MCRunnerControl ---------------------------
(***************************************************************************)
(* Values for the constants of RunnerControl: process identifiers, threads *)
(* and modes are interchangeable.                                          *)
(***************************************************************************)
EXTENDS RunnerControl, TLC

ControlSymmetry == Permutations(Pids) \cup Permutations(Threads)
                     \cup Permutations(Modes)
=============================================================================
