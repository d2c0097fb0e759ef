------------------------------- MODULE MCDelivery -------------------------------
(* Spellings of one name, so that aliases clash, with blanks around some;   *)
(* IDs that are aliases of other profiles or differ in blanks only; a name  *)
(* of which nothing can be part of an ID.                                   *)
EXTENDS Delivery

Symmetry == Permutations(Handlers)

MCNames == {" Ops", "!"}
MCLower == [n \in {"Ops", "OPS", "ops"} |-> "ops"] @@ (" Ops" :> " ops")
MCSlug  == [n \in {"Ops", "OPS", "ops", " Ops", " ops"} |-> "ops"] @@ [n \in {"!", "  "} |-> ""]
MCTrim  == [t \in {" Ops"} |-> "Ops"] @@ (" ops" :> "ops") @@ ("  " :> "")
           @@ (" telegram" :> "telegram")
MCNumbered(id, i) == id \o "-" \o ToString(i)
MCGivenIds == {"", "  "}
MCInlines == {[id |-> "ops-3", name |-> "", driver |-> "smoke", config |-> [token |-> "", chat |-> ""]],
              [id |-> " ops", name |-> "", driver |-> "telegram",
               config |-> [token |-> "x", chat |-> "  "]]}
(* A body that names the profile anew, one that replaces its token and    *)
(* disables it, one that spells the driver with a blank, a complete one     *)
(* with a name of blanks.                                                   *)
Body(name, driver, enabled, token, chat) ==
  [name |-> name, driver |-> driver, enabled |-> enabled,
   config |-> [token |-> token, chat |-> chat]]
MCChanges == {Body("OPS", "", TRUE, "", "  "), Body("", "", FALSE, "y", ""),
              Body("", " telegram", TRUE, "", ""), Body("  ", "", TRUE, "x", "x")}
MCReferences == {<<" Ops", "ops">>, <<"OPS", "ops-3", "none">>}
=================================================================================
