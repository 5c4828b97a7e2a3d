------------------------------- MODULE SetMap -------------------------------
(***************************************************************************)
(* LocUnorderedSetMap: a map from keys to sets of values.  A key whose set *)
(* becomes empty is removed, so a map is a function that is {} for a key   *)
(* that is not there.                                                      *)
(***************************************************************************)

\* The keys that are there.
Keys(map) == {k \in DOMAIN map : map[k] # {}}

\* Mutant: the values of a key that is there are not added to (insert of a map).
AddNewKeys(map, keys, vals) ==
    [k \in DOMAIN map |-> IF k \in keys /\ map[k] = {} THEN vals ELSE map[k]]

\* add: every value for every key.
AddAll(map, keys, vals) ==
    [k \in DOMAIN map |-> IF k \in keys THEN map[k] \cup vals ELSE map[k]]

\* trimOrRemove: the values leave the sets of the keys.
Trim(map, keys, vals) ==
    [k \in DOMAIN map |-> IF k \in keys THEN map[k] \ vals ELSE map[k]]

\* What an operation that led from map1 to map2 added, and removed entirely.
NewKeys(map1, map2) == Keys(map2) \ Keys(map1)
GoneKeys(map1, map2) == Keys(map1) \ Keys(map2)
=============================================================================
