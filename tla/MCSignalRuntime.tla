-------------------------- MODULE MCSignalRuntime --------------------------
(***************************************************************************)
(* Instances of SignalRuntime: the event ids are interchangeable.          *)
(***************************************************************************)
EXTENDS SignalRuntime, TLC

EventSymmetry == Permutations(Events)
=============================================================================
