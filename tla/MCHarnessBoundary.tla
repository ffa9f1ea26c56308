-------------------------- MODULE MCHarnessBoundary --------------------------
(***************************************************************************)
(* Small instances of the boundary: the registry moves between granting    *)
(* everything, everything but one operation, and nothing.                  *)
(***************************************************************************)
EXTENDS HarnessBoundary, TLC

CONSTANTS c1, c2, A, B, e1

ContextSymmetry == Permutations({c1, c2})

SessionSets == { Ops, {} }
WorkSets    == { Ops, Ops \ {"invoke"}, Ops \ CallOps }
AnySets     == SessionSets \cup WorkSets
=============================================================================
