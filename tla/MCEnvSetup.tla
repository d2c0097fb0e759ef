------------------------------ MODULE MCEnvSetup ------------------------------
(* TLC instances of EnvSetup.                                               *)
EXTENDS EnvSetup, TLC

CONSTANTS a, b, dir

(* One ID for the package: it is never removed and imported anew.           *)
OneId == a :> dir

(* Both IDs are made for one package, one after the other.                  *)
ImportedTwice == a :> dir @@ b :> dir

Symmetry == Permutations(Workers) \cup Permutations(Checks)
===============================================================================
