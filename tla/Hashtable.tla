----------------------------- MODULE Hashtable -----------------------------
(***************************************************************************)
(* seronc/hashtable.c: the separate-chaining hashtable that holds one      *)
(* scope of the symbol table.                                              *)
(*                                                                         *)
(* HashtableEntry.key has room for MAX_IDENT_LEN characters, the lexer     *)
(* lets identifiers of MAX_IDENT_LEN characters pass, and strncpy() does   *)
(* not terminate a key that fills its array.  strcmp() on such a key reads *)
(* on into the next member of the entry, the pointer `next`.               *)
(***************************************************************************)
EXTENDS Integers, Sequences

CONSTANTS
  Keys,            \* identifiers, sequences of character codes
  Symbols,         \* values of type Symbol
  NULL,
  MAX_IDENT_LEN,
  Size,            \* the number of buckets, 50 for a scope
  Hash             \* hash(Size, key), for every identifier

ASSUME KeysAssumption == \A k \in Keys : k \in Seq(Nat) /\ Len(k) <= MAX_IDENT_LEN
ASSUME SizeAssumption == Size \in Nat \ {0} /\ MAX_IDENT_LEN \in Nat
ASSUME HashAssumption == Hash \in [Keys -> 0..Size - 1]

VARIABLES
  buckets,    \* the chains, each a sequence of entries
  last        \* the last call and what it returned, [op, key, ret]

vars == <<buckets, last>>

Returned(op, k, ret) == last' = [op |-> op, key |-> k, ret |-> ret]

\* key and value of a HashtableEntry; zero says whether the lowest byte of its
\* address is 0, which is up to malloc()
Entries == [key : Keys, value : Symbols, zero : BOOLEAN]

\* variant: entries of equal length are taken for equal
SameLength(chain, i, k) == Len(chain[i].key) = Len(k)

\* !strcmp(current->key, key) for the entry at place i of a chain.  Behind an
\* unterminated key come the bytes of `next`, lowest first: all 0 in the last
\* entry, the address of the next entry before it.
KeyMatches(chain, i, k) ==
  /\ chain[i].key = k
  /\ Len(k) = MAX_IDENT_LEN /\ i < Len(chain) => chain[i + 1].zero

\* the place at which walking down a chain finds k
FoundAt(chain, i, k) ==
  /\ KeyMatches(chain, i, k)
  /\ \A j \in 1..i - 1 : ~KeyMatches(chain, j, k)

Missing(chain, k) == \A i \in DOMAIN chain : ~KeyMatches(chain, i, k)

\* hashtable_init()
Init ==
  /\ buckets = [b \in 0..Size - 1 |-> <<>>]
  /\ last = NULL

\* variant: the symbol is not copied
NewEntryEmpty(k, s, zero) == [key |-> k, value |-> NULL, zero |-> zero]

\* new_entry()
NewEntry(k, s, zero) == [key |-> k, value |-> s, zero |-> zero]

Link(k, s) ==
  \E zero \in BOOLEAN :
    buckets' = [buckets EXCEPT ![Hash[k]] = Append(@, NewEntry(k, s, zero))]

\* variant: the chain is not searched before the entry is linked
InsertUnsearched(k, s) == Returned("insert", k, 0) /\ Link(k, s)

\* hashtable_insert()
Insert(k, s) ==
  \/ /\ ~Missing(buckets[Hash[k]], k)
     /\ Returned("insert", k, -1)
     /\ UNCHANGED buckets
  \/ /\ Missing(buckets[Hash[k]], k)
     /\ Returned("insert", k, 0)
     /\ Link(k, s)

\* hashtable_get()
Get(k) ==
  LET chain == buckets[Hash[k]] IN
  /\ \/ \E i \in DOMAIN chain : FoundAt(chain, i, k) /\ Returned("get", k, chain[i].value)
     \/ Missing(chain, k) /\ Returned("get", k, NULL)
  /\ UNCHANGED buckets

Next == \E k \in Keys : Get(k) \/ \E s \in Symbols : Insert(k, s)

Spec == Init /\ [][Next]_vars

-----------------------------------------------------------------------------
(* Properties                                                              *)

TypeOK ==
  /\ buckets \in [0..Size - 1 -> Seq(Entries)]
  /\ \/ last = NULL
     \/ last \in [op : {"insert"}, key : Keys, ret : {0, -1}]
     \/ last \in [op : {"get"}, key : Keys, ret : Symbols \cup {NULL}]

\* Every identifier has at most one entry, in the bucket its hash names, so that
\* lookups cannot depend on the order in which entries were chained.
OneEntryPerKey ==
  \A b \in 0..Size - 1 : \A i \in DOMAIN buckets[b] :
    /\ Hash[buckets[b][i].key] = b
    /\ \A j \in DOMAIN buckets[b] : buckets[b][i].key = buckets[b][j].key => i = j

\* no identifier fills HashtableEntry.key
ShortKeys == \A k \in Keys : Len(k) < MAX_IDENT_LEN

\* the identifiers that have an entry, and the symbol of the first one
Stored(k) == \E i \in DOMAIN buckets[Hash[k]] : buckets[Hash[k]][i].key = k

FirstAt(chain, k) == CHOOSE i \in DOMAIN chain : chain[i].key = k

Contents ==
  [k \in {key \in Keys : Stored(key)} |->
     buckets[Hash[k]][FirstAt(buckets[Hash[k]], k)].value]

\* A hashtable of identifiers shorter than HashtableEntry.key keeps what the
\* header promises: it is a map in which the first insertion stays.
Map == INSTANCE SymbolMap WITH map <- Contents
IsSymbolMap == Map!Spec

\* The comment on hashtable_insert ("returns -1 if key already exists, else 0"),
\* for every identifier that the lexer lets pass.
DuplicateRefused ==
  [][\A k \in Keys : Stored(k) /\ last'.op = "insert" /\ last'.key = k => last'.ret = -1]_vars
=============================================================================
