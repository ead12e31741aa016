------------------------------- MODULE HashMap -------------------------------
(***************************************************************************)
(* The chained hash table of src/core/structures/hashmap.c, which holds    *)
(* the commands of a session.  A chain is a sequence: the next pointers.   *)
(* The prev pointers are written and never read, and are left out.         *)
(*                                                                         *)
(* An operation is one step, except that a resize moves one element a      *)
(* step, as its loops do, and no other operation can begin meanwhile.      *)
(***************************************************************************)
EXTENDS Naturals, Sequences, SequencesExt

CONSTANTS
    Keys, Values,
    fnv1a_string_hash,       \* the hash of each key
    HASH_TABLE_INTIAL_SIZE,
    NULL,                    \* what a failing lookup returns
    MaxLength                \* bound: the table is not grown beyond

ASSUME HashMapAssumption ==
    /\ fnv1a_string_hash \in [Keys -> Nat]
    /\ HASH_TABLE_INTIAL_SIZE \in Nat
    /\ 3 * HASH_TABLE_INTIAL_SIZE > 4
    /\ NULL \notin Values
    /\ MaxLength \in Nat

VARIABLES
    live,         \* not freed yet
    length,       \* number of buckets
    table,        \* the chain of each bucket
    elem_count,
    new_length,   \* 0 unless a resize is under way
    new_table,    \* the table that is being filled
    i,            \* the bucket that is being emptied
    result        \* return code of the last operation, as a set of flags

vars == <<live, length, table, elem_count, new_length, new_table, i, result>>

Flags == {"SUCCESS", "COLLISION", "RESIZED", "FREED", "UPDATED"}

Elem == [key : Keys, address : Values]

TypeOK ==
    /\ live \in BOOLEAN
    /\ length \in Nat \ {0}
    /\ table \in [0..(length - 1) -> Seq(Elem)]
    /\ elem_count \in Nat
    /\ new_length \in Nat
    /\ new_table \in [0..(new_length - 1) -> Seq(Elem)]
    /\ i \in 0..length
    /\ result \subseteq Flags

Idle == live /\ new_length = 0

(* create_hash_table *)
Init ==
    /\ live = TRUE
    /\ length = HASH_TABLE_INTIAL_SIZE
    /\ table = [j \in 0..(HASH_TABLE_INTIAL_SIZE - 1) |-> <<>>]
    /\ elem_count = 0
    /\ new_length = 0
    /\ new_table = [j \in 0..(0 - 1) |-> <<>>]
    /\ i = 0
    /\ result = {}

-----------------------------------------------------------------------------
(* The bucket of key k in a table of len buckets.                          *)
Slot(k, len) == fnv1a_string_hash[k] % len

(* Mutant: the element that was just added is not counted.                 *)
check_grow_late(len, count) == IF 3 * len <= 4 * count THEN 2 * len ELSE 0

(* check_grow: the new length, or 0; the load factor is 3/4.               *)
check_grow(len, count) == IF 3 * len <= 4 * (count + 1) THEN 2 * len ELSE 0

(* get_ptr_to_elem_by_key: the position in its chain of the first element  *)
(* with key k, 0 if there is none.                                         *)
get_ptr_to_elem_by_key(k) ==
    LET chain == table[Slot(k, length)]
        match == {n \in 1..Len(chain) : chain[n].key = k}
    IN  IF match = {} THEN 0 ELSE Min(match)

get_ptr_to_value_by_key(k) ==
    LET n == get_ptr_to_elem_by_key(k)
    IN  IF n = 0 THEN NULL ELSE table[Slot(k, length)][n].address

(* insert_entry, for a key that is there: its address is replaced.         *)
UpdateEntry(k, v) ==
    LET n == get_ptr_to_elem_by_key(k)
    IN  /\ n # 0
        /\ table' = [table EXCEPT ![Slot(k, length)][n].address = v]
        /\ result' = {"SUCCESS", "UPDATED"}
        /\ UNCHANGED <<live, length, elem_count, new_length, new_table, i>>

(* insert_entry, for a new key: the element becomes the head of its chain  *)
(* and is counted; a resize may begin.                                     *)
AddEntry(k, v) ==
    LET h   == Slot(k, length)
        len == check_grow(length, elem_count + 1)
    IN  /\ get_ptr_to_elem_by_key(k) = 0
        /\ len <= MaxLength
        /\ table' = [table EXCEPT ![h] = Cons([key |-> k, address |-> v], @)]
        /\ elem_count' = elem_count + 1
        /\ new_length' = len
        /\ new_table' = [j \in 0..(len - 1) |-> <<>>]
        /\ i' = 0
        /\ result' = {"SUCCESS"}
                     \cup (IF table[h] = <<>> THEN {} ELSE {"COLLISION"})
                     \cup (IF len = 0 THEN {} ELSE {"RESIZED"})
        /\ UNCHANGED <<live, length>>

insert_entry(k, v) == Idle /\ (UpdateEntry(k, v) \/ AddEntry(k, v))

(* Mutants: the bucket is computed with the old length; the next pointer   *)
(* is read after it was overwritten and the rest of the chain is lost.     *)
move_old_bucket ==
    /\ live
    /\ i < length
    /\ new_length # 0
    /\ table[i] # <<>>
    /\ new_table' = [new_table EXCEPT ![Slot(Head(table[i]).key, length)] =
                                          Cons(Head(table[i]), @)]
    /\ table' = [table EXCEPT ![i] = Tail(@)]
    /\ UNCHANGED <<live, length, elem_count, new_length, i, result>>

move_loses_rest ==
    /\ live
    /\ i < length
    /\ new_length # 0
    /\ table[i] # <<>>
    /\ new_table' = [new_table EXCEPT ![Slot(Head(table[i]).key, new_length)] =
                                          Cons(Head(table[i]), @)]
    /\ table' = [table EXCEPT ![i] = <<>>]
    /\ UNCHANGED <<live, length, elem_count, new_length, i, result>>

(* One turn of the inner loop of a resize: the head of the chain becomes   *)
(* the head of its chain in the new table.                                 *)
MoveElement ==
    /\ live
    /\ i < length
    /\ new_length # 0
    /\ table[i] # <<>>
    /\ new_table' = [new_table EXCEPT ![Slot(Head(table[i]).key, new_length)] =
                                          Cons(Head(table[i]), @)]
    /\ table' = [table EXCEPT ![i] = Tail(@)]
    /\ UNCHANGED <<live, length, elem_count, new_length, i, result>>

(* The outer loop goes on.                                                 *)
NextBucket ==
    /\ live
    /\ new_length # 0
    /\ i < length
    /\ table[i] = <<>>
    /\ i' = i + 1
    /\ UNCHANGED <<live, length, table, elem_count, new_length, new_table,
                   result>>

(* The new table takes the place of the old one.                           *)
ReplaceTable ==
    /\ live
    /\ new_length # 0
    /\ i = length
    /\ table' = new_table
    /\ length' = new_length
    /\ new_length' = 0
    /\ new_table' = [j \in 0..(0 - 1) |-> <<>>]
    /\ i' = 0
    /\ UNCHANGED <<live, elem_count, result>>

(* delete_entry: the element is unlinked.  elem_count keeps its value.     *)
delete_entry(k) ==
    LET h == Slot(k, length)
        n == get_ptr_to_elem_by_key(k)
    IN  /\ Idle
        /\ \/ /\ n = 0
              /\ result' = {}
              /\ UNCHANGED table
           \/ /\ n # 0
              /\ table' = [table EXCEPT ![h] = RemoveAt(@, n)]
              /\ result' = {"SUCCESS"} \cup (IF n = 1 THEN {} ELSE {"COLLISION"})
        /\ UNCHANGED <<live, length, elem_count, new_length, new_table, i>>

free_hash_table ==
    /\ Idle
    /\ live' = FALSE
    /\ table' = [j \in 0..(length - 1) |-> <<>>]
    /\ result' = {"FREED"}
    /\ UNCHANGED <<length, elem_count, new_length, new_table, i>>

-----------------------------------------------------------------------------
Next ==
    \/ \E k \in Keys, v \in Values : insert_entry(k, v)
    \/ MoveElement
    \/ NextBucket
    \/ ReplaceTable
    \/ \E k \in Keys : delete_entry(k)
    \/ free_hash_table

Spec == Init /\ [][Next]_vars

-----------------------------------------------------------------------------
(* Properties                                                              *)

(* The elements of a table.                                                *)
Elements(t) == UNION {ToSet(t[j]) : j \in DOMAIN t}

(* The entries: in the middle of a resize they are in both tables.         *)
Entries == Elements(table) \cup Elements(new_table)

(* get_ptr_to_value_by_key, which looks into one bucket only, finds every  *)
(* entry of the table with its last address, and nothing else, whatever    *)
(* was inserted, deleted and moved before.                                 *)
LookupRight ==
    Idle => \A k \in Keys, v \in Values :
               get_ptr_to_value_by_key(k) = v
                  <=> [key |-> k, address |-> v] \in Entries

(* After every insertion the table is below its load factor, after one     *)
(* that doubled it too: one doubling is always enough.                     *)
LoadBound == Idle => 3 * length > 4 * (elem_count + 1)

(* The table implements a map: insert_entry, delete_entry and              *)
(* free_hash_table take effect as one step each, a resize is invisible.    *)
Map == INSTANCE AbstractMap WITH map    <- Entries,
                                 result <- result \ {"COLLISION", "RESIZED"}
MapSpec == Map!Spec

-----------------------------------------------------------------------------
(* The inductive invariant                                                 *)

(* Every element of a table t of len buckets is in the bucket of its key,  *)
(* and no key is twice in a chain.                                         *)
Placed(t, len) ==
    \A j \in 0..(len - 1) : \A m \in 1..Len(t[j]) :
        /\ Slot(t[j][m].key, len) = j
        /\ \A n \in 1..Len(t[j]) : t[j][m].key = t[j][n].key => m = n

(* No key is in both tables.                                               *)
Apart ==
    \A e \in Elements(table), f \in Elements(new_table) : e.key # f.key

(* The buckets a resize has passed are empty.                              *)
Emptied == \A j \in 0..(length - 1) : j < i => table[j] = <<>>

(* The table that is in use after the operation is below its load factor.  *)
BelowLoad ==
    /\ new_length = 0 => 3 * length > 4 * (elem_count + 1)
    /\ new_length # 0 => 3 * new_length > 4 * (elem_count + 1)

Inv ==
    /\ TypeOK
    /\ Placed(table, length)
    /\ Placed(new_table, new_length)
    /\ Apart
    /\ Emptied
    /\ BelowLoad
    /\ new_length = 0 => i = 0
    /\ ~live => new_length = 0

=============================================================================
