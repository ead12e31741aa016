----------------------------- MODULE AbstractMap -----------------------------
(***************************************************************************)
(* What the hash table of the server promises to its callers: a finite map *)
(* from key names to addresses, kept as a set of entries, and the part of  *)
(* the return codes a caller can rely on.                                  *)
(***************************************************************************)
CONSTANTS Keys, Values

VARIABLES
    map,     \* the entries
    result   \* return code of the last operation, as a set of flags

Has(k) == \E e \in map : e.key = k

Others(k) == {e \in map : e.key # k}

Init == map = {} /\ result = {}

Put(k, v) ==
    /\ map' = Others(k) \cup {[key |-> k, address |-> v]}
    /\ result' = {"SUCCESS"} \cup (IF Has(k) THEN {"UPDATED"} ELSE {})

Remove(k) ==
    /\ map' = Others(k)
    /\ result' = IF Has(k) THEN {"SUCCESS"} ELSE {}

Free ==
    /\ map' = {}
    /\ result' = {"FREED"}

Next ==
    \/ \E k \in Keys, v \in Values : Put(k, v)
    \/ \E k \in Keys : Remove(k)
    \/ Free

Spec == Init /\ [][Next]_<<map, result>>

=============================================================================
