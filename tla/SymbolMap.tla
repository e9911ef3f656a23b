----------------------------- MODULE SymbolMap -----------------------------
(***************************************************************************)
(* What seronc/hashtable.h promises of a hashtable, one scope of the       *)
(* symbol table: a map from identifiers to symbols in which the first      *)
(* insertion of an identifier stays, and a second one is refused.          *)
(***************************************************************************)
EXTENDS Integers

CONSTANTS
  Keys,       \* identifiers
  Symbols,    \* values of type Symbol
  NULL        \* returned by hashtable_get for an absent identifier

VARIABLES
  map,        \* the identifiers inserted so far and their symbols
  last        \* the last call and what it returned, [op, key, ret]

vars == <<map, last>>

Returned(op, k, ret) == last' = [op |-> op, key |-> k, ret |-> ret]

Init ==
  /\ map = [k \in {} |-> NULL]
  /\ last = NULL

\* "returns -1 if key already exists, else 0"
Insert(k, s) ==
  \/ /\ k \in DOMAIN map
     /\ Returned("insert", k, -1)
     /\ UNCHANGED map
  \/ /\ k \notin DOMAIN map
     /\ Returned("insert", k, 0)
     /\ map' = [x \in DOMAIN map \cup {k} |-> IF x = k THEN s ELSE map[x]]

\* "returns NULL if the key does not exist"
Get(k) ==
  /\ Returned("get", k, IF k \in DOMAIN map THEN map[k] ELSE NULL)
  /\ UNCHANGED map

Next == \E k \in Keys : Get(k) \/ \E s \in Symbols : Insert(k, s)

Spec == Init /\ [][Next]_vars
=============================================================================
