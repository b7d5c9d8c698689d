----------------------------- MODULE MCDeepRun -----------------------------
(***************************************************************************)
(* TLC instances of DeepRun.  Handlers are interchangeable, so runs that    *)
(* check safety alone use symmetry.                                         *)
(***************************************************************************)
EXTENDS DeepRun, TLC

Symmetry == Permutations(Requests)
============================================================================
