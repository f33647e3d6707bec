--------------------------- MODULE MCManagerNode ---------------------------
(***************************************************************************)
(* Instances of ManagerNode for TLC.                                       *)
(***************************************************************************)
EXTENDS ManagerNode, TLC

\* Calls, tasks and runs of a kind are interchangeable.
Symmetry == Permutations(Handlers) \cup Permutations(Spawned)
            \cup Permutations(Jobs)
=============================================================================
