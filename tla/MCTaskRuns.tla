------------------------------ MODULE MCTaskRuns ------------------------------
(* TLC instances of TaskRuns.                                               *)
EXTENDS TaskRuns, TLC

(* IDs, packages, runs and handlers are interchangeable.                    *)
Symmetry == Permutations(TaskIds) \cup Permutations(Packages)
              \cup Permutations(RunIds) \cup Permutations(Reloaders)
===============================================================================
