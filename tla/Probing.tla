------------------------------ MODULE Probing -------------------------------
(***************************************************************************)
(* Open addressing with linear probing, as both hash tables of             *)
(* src/src/tokenizer.c use it: what a search finds, stated in one step.    *)
(* HashTable takes the loops themselves, a probe at a time.                *)
(***************************************************************************)
EXTENDS Integers

CONSTANTS Slots,           \* slots of a hash table: 2^20
          None             \* the empty slot, and the search without a result: UINT32_MAX

Hashes == 0..Slots-1

(* The slot k probes after h: the end of the array is followed by its start. *)
Slot(h, k) == IF h + k < Slots THEN h + k ELSE h + k - Slots

First(S) == CHOOSE x \in S : \A y \in S : x <= y
Last(S)  == CHOOSE x \in S : \A y \in S : x >= y

(* The probes at which the search for one of a set of entries ends.        *)
Ends(table, h, wanted) == {k \in 0..Slots-1 : table[Slot(h, k)] \in wanted \cup {None}}
Probe(table, h, wanted) == Slot(h, First(Ends(table, h, wanted)))

\* mutant: the slot of the hash is taken, whatever it holds
BugInserted(table, h, x) == [table EXCEPT ![Slot(h, 0)] = x]
Inserted(table, h, x) == [table EXCEPT ![Probe(table, h, {})] = x]
=============================================================================
