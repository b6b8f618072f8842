------------------------------- MODULE Params -------------------------------
(***************************************************************************)
(* The loops over a map of strings in CreateVolume (controllerserver.go)   *)
(* and NodePublishVolume (nodeserver.go), which compare the keys in lower  *)
(* case.  A map is a set of entries [key |-> k, value |-> x], its keys     *)
(* being in lower case already: two entries with one key are two spellings *)
(* of it.                                                                  *)
(***************************************************************************)

\* Go walks over a map in another order every time, and of several spellings
\* the last one wins; a key that is not there leaves the variable unset.
Parsed(entries, key, unset) ==
  LET values == {e.value : e \in {x \in entries : x.key = key}} IN
  IF values = {} THEN {unset} ELSE values

\* The entries of a map whose keys are all in lower case.
Entries(map) == {[key |-> k, value |-> map[k]] : k \in DOMAIN map}
=============================================================================
