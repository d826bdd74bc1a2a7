----------------------------- MODULE HashTable ------------------------------
(***************************************************************************)
(* The probing loops of src/src/tokenizer.c, one step per slot: token_find *)
(* and token_insert, and in the same form merge_find and merge_insert.  A  *)
(* name is what a table holds (a text, or the two ids of a pair), its id   *)
(* the place at which it was given.  The tokenizer fills a table and then  *)
(* searches it; nothing in the loops knows how full the table is.  (A pair *)
(* that is not inserted is left out: no search wants it.)                  *)
(***************************************************************************)
EXTENDS Probing, Sequences

CONSTANTS Names,
          MaxNames          \* bound: how many names are inserted

ASSUME HashTableAssumption ==
    Slots \in Nat \ {0} /\ MaxNames \in Nat /\ None \notin Names \cup Nat

VARIABLES pc,
          hash,             \* the hash function, masked to the size of the table
          table, names,     \* hash_table, and the names given to it, by id
          wanted,           \* the name the search is for
          h, result

store  == <<hash, table, names>>
search == <<wanted, h, result>>
vars   == <<pc, store, search>>

Init ==
    /\ pc = "ready"
    /\ hash \in [Names -> Hashes]
    /\ table = [k \in Hashes |-> None] /\ names = <<>>
    /\ wanted = None /\ h = 0 /\ result = None

Ids(name) == {id \in 1..Len(names) : names[id] = name}

\* mutant: every second slot is tried
BugNext(k) == Slot(k, 2)
NextSlot(k) == Slot(k, 1)

\* mutant: an entry with the same hash is taken for the name
BugIsWanted(id) == hash[names[id]] = hash[wanted]
IsWanted(id) == names[id] = wanted

-----------------------------------------------------------------------------
(* token_insert, merge_insert. *)

CallInsert ==
    /\ pc = "ready" /\ wanted = None /\ Len(names) < MaxNames
    /\ \E name \in Names : names' = Append(names, name) /\ h' = hash[name]
    /\ pc' = "insert"
    /\ UNCHANGED <<hash, table, wanted, result>>

InsertNext ==
    /\ pc = "insert" /\ table[h] # None
    /\ h' = NextSlot(h)
    /\ UNCHANGED <<pc, store, wanted, result>>

InsertHere ==
    /\ pc = "insert" /\ table[h] = None
    /\ table' = [table EXCEPT ![h] = Len(names)]
    /\ pc' = "ready"
    /\ UNCHANGED <<hash, names, search>>

-----------------------------------------------------------------------------
(* token_find, merge_find: called once all names are in the table. *)

CallFind ==
    /\ pc = "ready"
    /\ wanted' \in Names /\ h' = hash[wanted']
    /\ pc' = "find"
    /\ UNCHANGED <<store, result>>

FindNext ==
    /\ pc = "find" /\ table[h] # None /\ ~IsWanted(table[h])
    /\ h' = NextSlot(h)
    /\ UNCHANGED <<pc, store, wanted, result>>

FindEnds ==
    /\ pc = "find" /\ (table[h] # None => IsWanted(table[h]))
    /\ result' = table[h]
    /\ pc' = "ready"
    /\ UNCHANGED <<store, wanted, h>>

-----------------------------------------------------------------------------
Round == InsertNext \/ InsertHere \/ FindNext \/ FindEnds
Next  == CallInsert \/ CallFind \/ Round

(* One thread runs the loops, and nothing blocks it.                       *)
Spec == Init /\ [][Next]_vars /\ WF_vars(Round)
-----------------------------------------------------------------------------
(* Properties.                                                             *)

(* The loops are the one step in which Tokenizer takes them: a find ends    *)
(* at the first entry of the name or at an empty slot, whichever comes      *)
(* first round the array, and an insertion fills the first empty slot and  *)
(* touches no other, however the hashes collide (tokenizer.c:62-99).       *)
SearchIsProbe ==
    [][/\ pc = "find" /\ pc' = "ready" =>
             result' = table[Probe(table, hash[wanted], Ids(wanted))]
       /\ pc = "insert" /\ pc' = "ready" =>
             table' = Inserted(table, hash[names[Len(names)]], Len(names))]_vars

(* A search ends if the table has an empty slot, or holds the name that is *)
(* wanted: the loops visit every slot.  In a table that is full neither an *)
(* insertion nor the search for another name ever ends (tokenizer.c:64,    *)
(* 74, 83, 95).                                                            *)
SomeEmpty  == \E k \in Hashes : table[k] = None
Endless    == /\ pc \in {"insert", "find"} /\ ~SomeEmpty
              /\ pc = "find" => \A k \in Hashes : ~IsWanted(table[k])
SearchesEnd == (pc \in {"insert", "find"} /\ ~Endless) ~> pc = "ready"
=============================================================================
