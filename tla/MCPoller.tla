------------------------------- MODULE MCPoller -------------------------------
(* TLC instances of Poller.                                                 *)
EXTENDS Poller, TLC

(* Callers are interchangeable.                                             *)
Symmetry == Permutations(Callers)
===============================================================================
