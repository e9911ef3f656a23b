--------------------------- MODULE HashtableProofs ---------------------------
(***************************************************************************)
(* Proofs about Hashtable for any identifiers, any number of buckets and   *)
(* any hash.                                                               *)
(*                                                                         *)
(* That a table is a map rests on OneEntryPerKey: an identifier is only    *)
(* ever searched in the bucket its hash names, and is there once, so a     *)
(* chain's first entry of it is its only one and an entry linked behind    *)
(* the last hides nothing.  All this holds for identifiers shorter than    *)
(* HashtableEntry.key; the others break it.                                *)
(***************************************************************************)
EXTENDS Hashtable, TLAPS

-----------------------------------------------------------------------------
(* Types                                                                   *)

LEMMA EntryOf ==
  ASSUME NEW chain \in Seq(Entries), NEW i \in DOMAIN chain
  PROVE  chain[i] \in Entries
OBVIOUS

LEMMA LinkType ==
  ASSUME buckets \in [0..Size - 1 -> Seq(Entries)], NEW k \in Keys, NEW s \in Symbols,
         Link(k, s)
  PROVE  buckets' \in [0..Size - 1 -> Seq(Entries)]
<1>1. PICK zero \in BOOLEAN :
        buckets' = [buckets EXCEPT ![Hash[k]] = Append(buckets[Hash[k]], NewEntry(k, s, zero))]
  BY DEF Link
<1>2. NewEntry(k, s, zero) \in Entries
  BY DEF NewEntry, Entries
<1>3. Hash[k] \in 0..Size - 1
  BY HashAssumption
<1>4. Append(buckets[Hash[k]], NewEntry(k, s, zero)) \in Seq(Entries)
  BY <1>2, <1>3
<1> QED
  BY <1>1, <1>3, <1>4

\* Chains hold entries, and a call returns what its comment in the header says it can.
THEOREM TypeCorrect == Spec => []TypeOK
<1>1. Init => TypeOK
  BY DEF Init, TypeOK
<1>2. TypeOK /\ [Next]_vars => TypeOK'
  <2> SUFFICES ASSUME TypeOK, [Next]_vars PROVE TypeOK'
    OBVIOUS
  <2>1. ASSUME NEW k \in Keys, NEW s \in Symbols, Insert(k, s) PROVE TypeOK'
    <3>1. buckets' \in [0..Size - 1 -> Seq(Entries)]
      BY <2>1, LinkType DEF Insert, TypeOK
    <3>2. last' \in [op : {"insert"}, key : Keys, ret : {0, -1}]
      BY <2>1 DEF Insert, Returned
    <3> QED
      BY <3>1, <3>2 DEF TypeOK
  <2>2. ASSUME NEW k \in Keys, Get(k) PROVE TypeOK'
    <3>1. buckets[Hash[k]] \in Seq(Entries)
      BY HashAssumption DEF TypeOK
    <3>2. \A i \in DOMAIN buckets[Hash[k]] : buckets[Hash[k]][i].value \in Symbols
      <4>1. \A i \in DOMAIN buckets[Hash[k]] : buckets[Hash[k]][i] \in Entries
        BY <3>1, EntryOf
      <4>2. \A e \in Entries : e.value \in Symbols
        BY DEF Entries
      <4> QED
        BY <4>1, <4>2
    <3>3. last' \in [op : {"get"}, key : Keys, ret : Symbols \cup {NULL}]
      BY <2>2, <3>2 DEF Get, Returned
    <3> QED
      BY <2>2, <3>3 DEF TypeOK, Get
  <2>3. CASE UNCHANGED vars
    BY <2>3 DEF vars, TypeOK
  <2> QED
    BY <2>1, <2>2, <2>3 DEF Next
<1> QED
  BY <1>1, <1>2, PTL DEF Spec

-----------------------------------------------------------------------------
(* Identifiers that leave room for the terminator                          *)

\* strcmp() tells them apart, wherever they stand in a chain.
LEMMA ShortMatches ==
  ASSUME ShortKeys, NEW k \in Keys, NEW chain, NEW i
  PROVE  KeyMatches(chain, i, k) <=> chain[i].key = k
<1>1. Len(k) # MAX_IDENT_LEN
  BY KeysAssumption, SizeAssumption DEF ShortKeys
<1> QED
  BY <1>1 DEF KeyMatches

\* So the search finds an identifier exactly if it has an entry.
LEMMA MissingShort ==
  ASSUME ShortKeys, NEW k \in Keys
  PROVE  Missing(buckets[Hash[k]], k) <=> ~Stored(k)
BY ShortMatches DEF Missing, Stored

\* where an insertion has put its entry, and what it leaves alone
LEMMA LinkChain ==
  ASSUME TypeOK, NEW k \in Keys, NEW s \in Symbols, Link(k, s)
  PROVE  LET h == Hash[k] IN
         /\ h \in 0..Size - 1
         /\ \A b \in 0..Size - 1 : b # h => buckets'[b] = buckets[b]
         /\ DOMAIN buckets[h] = 1..Len(buckets[h]) /\ Len(buckets[h]) \in Nat
         /\ DOMAIN buckets'[h] = 1..Len(buckets[h]) + 1
         /\ \A i \in DOMAIN buckets[h] : buckets'[h][i] = buckets[h][i]
         /\ buckets'[h][Len(buckets[h]) + 1].key = k
         /\ buckets'[h][Len(buckets[h]) + 1].value = s
<1>1. PICK zero \in BOOLEAN :
        buckets' = [buckets EXCEPT ![Hash[k]] = Append(buckets[Hash[k]], NewEntry(k, s, zero))]
  BY DEF Link
<1>2. Hash[k] \in 0..Size - 1
  BY HashAssumption
<1>3. buckets \in [0..Size - 1 -> Seq(Entries)] /\ buckets[Hash[k]] \in Seq(Entries)
  BY <1>2 DEF TypeOK
<1>4. buckets'[Hash[k]] = Append(buckets[Hash[k]], NewEntry(k, s, zero))
  BY <1>1, <1>2, <1>3
<1>5. \A b \in 0..Size - 1 : b # Hash[k] => buckets'[b] = buckets[b]
  BY <1>1, <1>3
<1>6. NewEntry(k, s, zero).key = k /\ NewEntry(k, s, zero).value = s
  BY DEF NewEntry
<1> QED
  BY <1>2, <1>3, <1>4, <1>5, <1>6

LEMMA InitOneEntry == Init => OneEntryPerKey
BY DEF Init, OneEntryPerKey

LEMMA InsertOneEntry ==
  ASSUME ShortKeys, TypeOK, OneEntryPerKey, NEW k \in Keys, NEW s \in Symbols, Insert(k, s)
  PROVE  OneEntryPerKey'
<1>1. CASE UNCHANGED buckets
  BY <1>1 DEF OneEntryPerKey
<1>2. CASE Missing(buckets[Hash[k]], k) /\ Link(k, s)
  <2> DEFINE h == Hash[k]
             n == Len(buckets[h])
  <2>1. /\ h \in 0..Size - 1
        /\ \A b \in 0..Size - 1 : b # h => buckets'[b] = buckets[b]
        /\ DOMAIN buckets[h] = 1..n /\ n \in Nat /\ DOMAIN buckets'[h] = 1..n + 1
        /\ \A i \in 1..n : buckets'[h][i] = buckets[h][i]
        /\ buckets'[h][n + 1].key = k
    BY <1>2, LinkChain
  <2>2. \A i \in 1..n : buckets[h][i].key # k
    BY <1>2, <2>1, MissingShort DEF Stored
  <2> HIDE DEF n
  <2>3. ASSUME NEW b \in 0..Size - 1, NEW i \in DOMAIN buckets'[b], NEW j \in DOMAIN buckets'[b]
        PROVE  /\ Hash[buckets'[b][i].key] = b
               /\ buckets'[b][i].key = buckets'[b][j].key => i = j
    <3>1. CASE b # h
      BY <2>1, <2>3, <3>1 DEF OneEntryPerKey
    <3>2. CASE b = h
      <4>1. \A l \in 1..n : Hash[buckets[h][l].key] = h /\
              \A m \in 1..n : buckets[h][l].key = buckets[h][m].key => l = m
        BY <2>1 DEF OneEntryPerKey
      <4>2. i \in 1..n \/ i = n + 1
        BY <2>1, <2>3, <3>2
      <4>3. j \in 1..n \/ j = n + 1
        BY <2>1, <2>3, <3>2
      <4> HIDE DEF h
      <4>4. \A l \in 1..n : buckets'[b][l] = buckets[h][l]
        BY <2>1, <3>2
      <4>5. CASE i \in 1..n /\ j \in 1..n
        BY <3>2, <4>1, <4>4, <4>5
      <4>6. CASE i \in 1..n /\ j = n + 1
        BY <2>1, <2>2, <3>2, <4>1, <4>4, <4>6
      <4>7. CASE i = n + 1
        <5>1. buckets'[b][i].key = k /\ Hash[k] = b
          BY <2>1, <3>2, <4>7 DEF h
        <5>2. CASE j \in 1..n
          BY <2>2, <4>4, <5>1, <5>2
        <5> QED
          BY <4>3, <4>7, <5>1, <5>2
      <4> QED
        BY <4>2, <4>3, <4>5, <4>6, <4>7
    <3> QED
      BY <3>1, <3>2
  <2> QED
    BY <2>3 DEF OneEntryPerKey
<1> QED
  BY <1>1, <1>2 DEF Insert

LEMMA NextOneEntry ==
  ASSUME ShortKeys, TypeOK, OneEntryPerKey, [Next]_vars
  PROVE  OneEntryPerKey'
<1>1. ASSUME NEW k \in Keys, Get(k) PROVE OneEntryPerKey'
  BY <1>1 DEF Get, OneEntryPerKey
<1>2. CASE UNCHANGED vars
  BY <1>2 DEF vars, OneEntryPerKey
<1> QED
  BY <1>1, <1>2, InsertOneEntry DEF Next

\* However identifiers collide, each has one entry at most, in the bucket its hash
\* names, whatever is inserted in whatever order.
THEOREM OneEntry == ASSUME ShortKeys PROVE Spec => []OneEntryPerKey
<1>1. TypeOK /\ OneEntryPerKey /\ [Next]_vars => OneEntryPerKey'
  BY NextOneEntry
<1> QED
  BY InitOneEntry, <1>1, TypeCorrect, PTL DEF Spec

-----------------------------------------------------------------------------
(* The refinement                                                          *)

\* A call on an identifier that is stored is answered by its entry.
LEMMA StoredContents ==
  ASSUME ShortKeys, TypeOK, OneEntryPerKey, NEW k \in Keys, NEW i \in DOMAIN buckets[Hash[k]],
         buckets[Hash[k]][i].key = k
  PROVE  k \in DOMAIN Contents /\ Contents[k] = buckets[Hash[k]][i].value
<1>1. Hash[k] \in 0..Size - 1
  BY HashAssumption
<1>2. \A j \in DOMAIN buckets[Hash[k]] : buckets[Hash[k]][j].key = k => j = i
  BY <1>1 DEF OneEntryPerKey
<1>3. FirstAt(buckets[Hash[k]], k) = i
  BY <1>2 DEF FirstAt
<1>4. Stored(k)
  BY DEF Stored
<1> QED
  BY <1>3, <1>4 DEF Contents

LEMMA InitRefines == Init => Map!Init
<1> SUFFICES ASSUME Init PROVE Contents = [k \in {} |-> NULL]
  BY DEF Init, Map!Init
<1>1. \A k \in Keys : ~Stored(k)
  BY HashAssumption DEF Init, Stored
<1>2. {key \in Keys : Stored(key)} = {}
  BY <1>1
<1> QED
  BY <1>2 DEF Contents

LEMMA GetRefines ==
  ASSUME ShortKeys, TypeOK, OneEntryPerKey, NEW k \in Keys, Get(k)
  PROVE  Map!Get(k)
<1>1. UNCHANGED Contents
  BY DEF Get, Contents, Stored
<1>2. CASE Missing(buckets[Hash[k]], k) /\ Returned("get", k, NULL)
  <2>1. k \notin DOMAIN Contents
    BY <1>2, MissingShort DEF Contents
  <2> QED
    BY <1>1, <1>2, <2>1 DEF Map!Get, Map!Returned, Returned
<1>3. CASE \E i \in DOMAIN buckets[Hash[k]] :
             /\ FoundAt(buckets[Hash[k]], i, k)
             /\ Returned("get", k, buckets[Hash[k]][i].value)
  <2>1. PICK i \in DOMAIN buckets[Hash[k]] :
          /\ buckets[Hash[k]][i].key = k
          /\ Returned("get", k, buckets[Hash[k]][i].value)
    BY <1>3, ShortMatches DEF FoundAt
  <2>2. k \in DOMAIN Contents /\ Contents[k] = buckets[Hash[k]][i].value
    BY <2>1, StoredContents
  <2> QED
    BY <1>1, <2>1, <2>2 DEF Map!Get, Map!Returned, Returned
<1> QED
  BY <1>2, <1>3 DEF Get

LEMMA InsertRefines ==
  ASSUME ShortKeys, TypeOK, OneEntryPerKey, OneEntryPerKey', TypeOK',
         NEW k \in Keys, NEW s \in Symbols, Insert(k, s)
  PROVE  Map!Insert(k, s)
<1>1. CASE ~Missing(buckets[Hash[k]], k) /\ Returned("insert", k, -1) /\ UNCHANGED buckets
  <2>1. k \in DOMAIN Contents
    BY <1>1, MissingShort DEF Contents
  <2>2. UNCHANGED Contents
    BY <1>1 DEF Contents, Stored
  <2> QED
    BY <1>1, <2>1, <2>2 DEF Map!Insert, Map!Returned, Returned
<1>2. CASE Missing(buckets[Hash[k]], k) /\ Returned("insert", k, 0) /\ Link(k, s)
  <2> DEFINE h == Hash[k]
             n == Len(buckets[h])
  <2>1. /\ h \in 0..Size - 1
        /\ \A b \in 0..Size - 1 : b # h => buckets'[b] = buckets[b]
        /\ DOMAIN buckets[h] = 1..n /\ n \in Nat /\ DOMAIN buckets'[h] = 1..n + 1
        /\ \A i \in 1..n : buckets'[h][i] = buckets[h][i]
        /\ buckets'[h][n + 1].key = k /\ buckets'[h][n + 1].value = s
    BY <1>2, LinkChain
  <2>2. ~Stored(k)
    BY <1>2, MissingShort
  <2> HIDE DEF n
  <2>3. ASSUME NEW x \in Keys, x # k
        PROVE  /\ Stored(x)' <=> Stored(x)
               /\ Stored(x) => Contents'[x] = Contents[x] /\ x \in DOMAIN Contents'
    <3>1. Hash[x] \in 0..Size - 1
      BY HashAssumption
    <3>2. CASE Hash[x] # h
      <4>1. buckets'[Hash[x]] = buckets[Hash[x]]
        BY <2>1, <3>1, <3>2
      <4> QED
        BY <4>1 DEF Stored, Contents
    <3>3. CASE Hash[x] = h
      <4>1. Stored(x)' <=> Stored(x)
        <5>1. Stored(x) <=> \E l \in 1..n : buckets[h][l].key = x
          BY <2>1, <3>3 DEF Stored
        <5>2. Stored(x)' <=> \E l \in 1..n + 1 : buckets'[h][l].key = x
          BY <2>1, <3>3 DEF Stored
        <5> HIDE DEF h
        <5>3. 1..n + 1 = 1..n \cup {n + 1}
          BY <2>1
        <5> QED
          BY <2>1, <2>3, <5>1, <5>2, <5>3
      <4>2. ASSUME Stored(x) PROVE Contents'[x] = Contents[x] /\ x \in DOMAIN Contents'
        <5>1. PICK i \in 1..n : buckets[h][i].key = x
          BY <2>1, <3>3, <4>2 DEF Stored
        <5>2. Contents[x] = buckets[h][i].value
          BY <2>1, <3>3, <5>1, StoredContents
        <5>3. i \in DOMAIN buckets'[h] /\ buckets'[h][i] = buckets[h][i]
          BY <2>1, <5>1
        <5>4. x \in DOMAIN Contents' /\ Contents'[x] = buckets'[h][i].value
          <6>1. \A j \in DOMAIN buckets'[h] : buckets'[h][j].key = x => j = i
            <7>1. \A j \in DOMAIN buckets'[h] :
                    buckets'[h][j].key = buckets'[h][i].key => j = i
              BY <2>1, <5>3 DEF OneEntryPerKey
            <7>2. buckets'[h][i].key = x
              BY <5>1, <5>3
            <7> QED
              BY <7>1, <7>2
          <6>2. FirstAt(buckets'[Hash[x]], x) = i
            BY <3>3, <5>1, <5>3, <6>1 DEF FirstAt
          <6> QED
            BY <3>3, <4>1, <4>2, <6>2 DEF Contents
        <5> QED
          BY <5>2, <5>3, <5>4
      <4> QED
        BY <4>1, <4>2
    <3> QED
      BY <3>2, <3>3
  <2>4. Stored(k)' /\ Contents'[k] = s
    <3>1. n + 1 \in DOMAIN buckets'[h]
      BY <2>1
    <3>2. \A j \in DOMAIN buckets'[h] : buckets'[h][j].key = k => j = n + 1
      BY <2>1, <3>1 DEF OneEntryPerKey
    <3>3. FirstAt(buckets'[h], k) = n + 1
      BY <2>1, <3>1, <3>2 DEF FirstAt
    <3>4. Stored(k)'
      BY <2>1, <3>1 DEF Stored
    <3> QED
      BY <2>1, <3>3, <3>4 DEF Contents
  <2>5. DOMAIN Contents' = DOMAIN Contents \cup {k} /\ k \notin DOMAIN Contents
    BY <2>2, <2>3, <2>4 DEF Contents
  <2>6. Contents' = [x \in DOMAIN Contents \cup {k} |-> IF x = k THEN s ELSE Contents[x]]
    <3>1. Contents' = [x \in DOMAIN Contents' |-> Contents'[x]]
      BY DEF Contents
    <3>2. \A x \in DOMAIN Contents : x # k => Contents'[x] = Contents[x]
      BY <2>3 DEF Contents
    <3> HIDE DEF Contents
    <3> QED
      BY <2>4, <2>5, <3>1, <3>2
  <2> QED
    BY <1>2, <2>5, <2>6 DEF Map!Insert, Map!Returned, Returned
<1> QED
  BY <1>1, <1>2 DEF Insert

\* Chained buckets are the map hashtable.h describes: the first insertion of an
\* identifier stays, a second one is refused, and a lookup returns what is stored, for
\* any number of buckets, any hash and any order of calls.
THEOREM Refinement == ASSUME ShortKeys PROVE Spec => IsSymbolMap
<1>1. TypeOK /\ OneEntryPerKey /\ TypeOK' /\ OneEntryPerKey' /\ [Next]_vars
        => [Map!Next]_(Map!vars)
  <2> SUFFICES ASSUME TypeOK, OneEntryPerKey, TypeOK', OneEntryPerKey', [Next]_vars
               PROVE  [Map!Next]_(Map!vars)
    OBVIOUS
  <2>1. CASE UNCHANGED vars
    BY <2>1 DEF vars, Map!vars, Contents, Stored
  <2> QED
    BY <2>1, GetRefines, InsertRefines DEF Next, Map!Next
<1> QED
  BY InitRefines, <1>1, TypeCorrect, OneEntry, PTL DEF Spec, IsSymbolMap, Map!Spec
=============================================================================
