----------------------------- MODULE ArenaProofs -----------------------------
(***************************************************************************)
(* Proofs about Arena for every set of addresses, every initial capacity   *)
(* and any number of allocations and lists.                                *)
(*                                                                         *)
(* FreedOnce is about the moment of arena_free() alone.  It holds because  *)
(* before that no two entries are the same block and every entry is        *)
(* allocated; that an address given out again meets no old entry of it is  *)
(* what arena_realloc() forgets the old pointer for.                       *)
(***************************************************************************)
EXTENDS Arena, TLAPS

\* every entry is an allocated block, and no other entry is the same one
EntriesOnce ==
  \A i \in DOMAIN items : items[i] # NULL =>
    items[i] \in live /\ \A j \in DOMAIN items : items[j] = items[i] => j = i

\* what is allocated and has no entry is what stayed in place when it grew
NoEntryIfStayed ==
  /\ stayed \subseteq live
  /\ \A a \in live : a \in stayed <=> \A i \in DOMAIN items : items[i] # a

\* the block of the arena's list has `cap` entries, unless realloc() never got it
RoomForEntries ==
  /\ Len(items) <= cap
  /\ room \in {0, cap}
  /\ items # <<>> => room = cap

ListOK(list, blocks) ==
  /\ list.size <= list.cap
  /\ list.items # NULL => list.items \in blocks /\ list.room = list.cap
  /\ list.items = NULL => list.size = 0

ListsApart ==
  \A k, l \in DOMAIN lists : lists[k].items # NULL /\ lists[k].items = lists[l].items => k = l

ListsOK == (\A l \in DOMAIN lists : ListOK(lists[l], live)) /\ ListsApart

Open == EntriesOnce /\ NoEntryIfStayed /\ RoomForEntries /\ ListsOK

IInv ==
  /\ TypeOK
  /\ mode = "open" => Open
  /\ FreedOnce
  /\ LeaksWhatStayed

List == [items : Addrs \cup {NULL}, size : Nat, cap : Nat \ {0}, room : Nat]

USE DEF List

-----------------------------------------------------------------------------
(* Sequences                                                               *)

\* What Append() returns, entry by entry.
LEMMA Appended ==
  ASSUME NEW S, NEW s \in Seq(S), NEW e \in S
  PROVE  /\ Append(s, e) \in Seq(S)
         /\ Len(Append(s, e)) = Len(s) + 1
         /\ DOMAIN s = 1..Len(s)
         /\ DOMAIN Append(s, e) = 1..Len(s) + 1
         /\ \A i \in DOMAIN s : Append(s, e)[i] = s[i]
         /\ Append(s, e)[Len(s) + 1] = e
  OBVIOUS

\* Forget() clears entries and moves none.
LEMMA Forgotten ==
  ASSUME NEW s \in Seq(Addrs \cup {NULL}), NEW ptr
  PROVE  /\ Forget(s, ptr) \in Seq(Addrs \cup {NULL})
         /\ Len(Forget(s, ptr)) = Len(s)
         /\ DOMAIN Forget(s, ptr) = DOMAIN s
         /\ \A i \in DOMAIN s : Forget(s, ptr)[i] = IF s[i] = ptr THEN NULL ELSE s[i]
<1>1. DOMAIN s = 1..Len(s) /\ Len(s) \in Nat
  OBVIOUS
<1> QED
  BY <1>1 DEF Forget

\* The entries after arena_realloc(), for a list s, the new pointer e and the old one.
LEMMA ForgetAppended ==
  ASSUME NEW s \in Seq(Addrs \cup {NULL}), NEW e \in Addrs \cup {NULL}, NEW ptr
  PROVE  /\ Forget(Append(s, e), ptr) \in Seq(Addrs \cup {NULL})
         /\ Len(Forget(Append(s, e), ptr)) = Len(s) + 1
         /\ DOMAIN s = 1..Len(s)
         /\ DOMAIN Forget(Append(s, e), ptr) = 1..Len(s) + 1
         /\ \A i \in DOMAIN s :
              Forget(Append(s, e), ptr)[i] = IF s[i] = ptr THEN NULL ELSE s[i]
         /\ Forget(Append(s, e), ptr)[Len(s) + 1] = IF e = ptr THEN NULL ELSE e
<1> DEFINE t == Append(s, e)
<1>1. /\ t \in Seq(Addrs \cup {NULL}) /\ Len(t) = Len(s) + 1 /\ Len(s) \in Nat
      /\ DOMAIN s = 1..Len(s) /\ DOMAIN t = 1..Len(s) + 1
      /\ \A i \in DOMAIN s : t[i] = s[i]
      /\ t[Len(s) + 1] = e
  BY Appended
<1> HIDE DEF t
<1>2. /\ Forget(t, ptr) \in Seq(Addrs \cup {NULL})
      /\ Len(Forget(t, ptr)) = Len(t)
      /\ DOMAIN Forget(t, ptr) = DOMAIN t
      /\ \A i \in DOMAIN t : Forget(t, ptr)[i] = IF t[i] = ptr THEN NULL ELSE t[i]
  BY <1>1, Forgotten
<1>3. DOMAIN s \subseteq DOMAIN t /\ Len(s) + 1 \in DOMAIN t
  BY <1>1
<1> QED
  BY <1>1, <1>2, <1>3 DEF t

\* The end of every allocation: the capacity grows before the entries reach it, and
\* unless realloc() fails there is room for the entry.
LEMMA Recorded ==
  ASSUME TypeOK, RoomForEntries, NEW grown \in BOOLEAN, Record(grown),
         items' \in Seq(Addrs \cup {NULL}), Len(items') = Len(items) + 1
  PROVE  /\ cap' \in Nat \ {0}
         /\ room' \in Nat
         /\ Stored(grown) => RoomForEntries'
<1>1. Len(items) \in Nat /\ cap \in Nat \ {0} /\ room \in Nat
  BY DEF TypeOK
<1>2. cap' \in Nat \ {0} /\ room' \in Nat /\ Len(items') <= cap'
  BY <1>1 DEF Record, CapAfter, RoomAfter, RoomForEntries
<1>3. ASSUME Stored(grown) PROVE room' = cap'
  <2>1. CASE Len(items) = cap
    BY <1>1, <1>3, <2>1 DEF Stored, RoomAfter, CapAfter, Record
  <2>2. CASE Len(items) # cap
    <3>1. room # 0 /\ room' = room /\ cap' = cap
      BY <1>3, <2>2 DEF Stored, RoomAfter, CapAfter, Record
    <3>2. room \in {0, cap}
      BY DEF RoomForEntries
    <3> QED
      BY <3>1, <3>2
  <2> QED
    BY <2>1, <2>2
<1> QED
  BY <1>2, <1>3 DEF RoomForEntries

-----------------------------------------------------------------------------
(* Allocations                                                             *)

\* A new block is none of the entries, as those are allocated.
LEMMA Allocated ==
  ASSUME TypeOK, EntriesOnce, NoEntryIfStayed, NEW ptr \in Malloc, NEW grown \in BOOLEAN,
         ArenaAlloc(ptr, grown), stayed' = stayed
  PROVE  /\ live' \subseteq Addrs /\ live \subseteq live'
         /\ ptr = NULL \/ (ptr \in live' /\ ptr \notin live)
         /\ items' \in Seq(Addrs \cup {NULL})
         /\ Len(items') = Len(items) + 1
         /\ EntriesOnce'
         /\ NoEntryIfStayed'
<1> DEFINE last == Len(items) + 1
<1>1. /\ items \in Seq(Addrs \cup {NULL}) /\ live \subseteq Addrs /\ Len(items) \in Nat
      /\ ptr \in Addrs \cup {NULL} /\ ptr \notin live
      /\ live' = live \cup ({ptr} \ {NULL}) /\ items' = Append(items, ptr)
  BY NullAssumption DEF TypeOK, ArenaAlloc, Malloc
<1>2. /\ items' \in Seq(Addrs \cup {NULL}) /\ Len(items') = last
      /\ DOMAIN items = 1..Len(items) /\ DOMAIN items' = 1..last
      /\ \A i \in DOMAIN items : items'[i] = items[i]
      /\ items'[last] = ptr
  <2> HIDE DEF last
  <2> QED
    BY <1>1, Appended DEF last
<1>3. \A i \in DOMAIN items' : i \in DOMAIN items \/ i = last
  BY <1>1, <1>2
<1>4. \A i \in DOMAIN items : items[i] # NULL => items[i] \in live
  BY DEF EntriesOnce
<1>5. EntriesOnce'
  <2> SUFFICES ASSUME NEW i \in DOMAIN items', items'[i] # NULL
               PROVE  /\ items'[i] \in live'
                      /\ \A j \in DOMAIN items' : items'[j] = items'[i] => j = i
    BY DEF EntriesOnce
  <2>1. CASE i \in DOMAIN items
    BY <1>1, <1>2, <1>3, <2>1 DEF EntriesOnce
  <2>2. CASE i = last
    <3> HIDE DEF last
    <3> QED
      BY <1>1, <1>2, <1>3, <1>4, <2>2
  <2> QED
    BY <1>3, <2>1, <2>2
<1>6. NoEntryIfStayed'
  <2>1. stayed' \subseteq live'
    BY <1>1 DEF NoEntryIfStayed
  <2>2. ASSUME NEW a \in live'
        PROVE  a \in stayed' <=> \A i \in DOMAIN items' : items'[i] # a
    <3>1. CASE a \in live
      <4>1. a # ptr
        BY <1>1, <3>1
      <4>2. (\A i \in DOMAIN items' : items'[i] # a) <=> \A i \in DOMAIN items : items[i] # a
        <5> HIDE DEF last
        <5>1. DOMAIN items \subseteq DOMAIN items'
          BY <1>1, <1>2 DEF last
        <5>2. \A i \in DOMAIN items' : items'[i] = a => i \in DOMAIN items /\ items[i] = a
          BY <1>2, <1>3, <4>1
        <5> QED
          BY <1>2, <5>1, <5>2
      <4> QED
        BY <3>1, <4>2 DEF NoEntryIfStayed
    <3>2. CASE a \notin live
      <4>1. a = ptr /\ a \notin stayed'
        BY <1>1, <2>2, <3>2 DEF NoEntryIfStayed
      <4>2. last \in DOMAIN items'
        BY <1>1, <1>2
      <4> QED
        BY <1>2, <4>1, <4>2
    <3> QED
      BY <3>1, <3>2
  <2> QED
    BY <2>1, <2>2 DEF NoEntryIfStayed
<1> QED
  BY <1>1, <1>2, <1>5, <1>6

\* Lists stay as they are when blocks are only added.
LEMMA ListsKept ==
  ASSUME ListsOK, lists' = lists, live \subseteq live'
  PROVE  ListsOK'
BY DEF ListsOK, ListOK, ListsApart

LEMMA AllocStep ==
  ASSUME IInv, NEW ptr \in Malloc, NEW grown \in BOOLEAN, Alloc(ptr, grown)
  PROVE  IInv'
<1>1. TypeOK /\ Open /\ ArenaAlloc(ptr, grown) /\ lists' = lists /\ stayed' = stayed
  BY DEF IInv, Alloc
<1>2. /\ live' \subseteq Addrs /\ live \subseteq live'
      /\ items' \in Seq(Addrs \cup {NULL}) /\ Len(items') = Len(items) + 1
      /\ EntriesOnce' /\ NoEntryIfStayed'
  BY <1>1, Allocated DEF Open
<1>3. /\ cap' \in Nat \ {0} /\ room' \in Nat
      /\ Stored(grown) => RoomForEntries'
  BY <1>1, <1>2, Recorded DEF Open, ArenaAlloc
<1>4. ListsOK'
  BY <1>1, <1>2, ListsKept DEF Open
<1>5. mode' \in {"open", "crashed", "panic"} /\ (mode' = "open" => Stored(grown))
  BY DEF Alloc
<1>6. TypeOK'
  BY <1>1, <1>2, <1>3, <1>5 DEF TypeOK, Outcomes
<1> QED
  BY <1>2, <1>3, <1>4, <1>5, <1>6 DEF IInv, Open, FreedOnce, LeaksWhatStayed

\* astnodelist_init(): the new list has a block of its own.
LEMMA ListInitStep ==
  ASSUME IInv, NEW ptr \in Malloc, NEW grown \in BOOLEAN, ListInit(ptr, grown)
  PROVE  IInv'
<1> DEFINE list == [items |-> ptr, size |-> 0, cap |-> InitialCap,
                    room |-> IF ptr = NULL THEN 0 ELSE InitialCap]
<1>1. /\ TypeOK /\ Open /\ ArenaAlloc(ptr, grown) /\ stayed' = stayed
      /\ lists' = Append(lists, list)
  BY DEF IInv, ListInit
<1>2. /\ live' \subseteq Addrs /\ live \subseteq live'
      /\ ptr = NULL \/ (ptr \in live' /\ ptr \notin live)
      /\ items' \in Seq(Addrs \cup {NULL}) /\ Len(items') = Len(items) + 1
      /\ EntriesOnce' /\ NoEntryIfStayed'
  BY <1>1, Allocated DEF Open
<1>3. /\ cap' \in Nat \ {0} /\ room' \in Nat
      /\ Stored(grown) => RoomForEntries'
  BY <1>1, <1>2, Recorded DEF Open, ArenaAlloc
<1>4. list \in List
  BY CapAssumption DEF Malloc
<1>5. ListOK(list, live')
  BY <1>2, CapAssumption DEF ListOK
<1> HIDE DEF list
<1>6. lists \in Seq(List)
  BY <1>1 DEF TypeOK
<1>7. /\ lists' \in Seq(List)
      /\ DOMAIN lists = 1..Len(lists) /\ DOMAIN lists' = 1..Len(lists) + 1
      /\ \A l \in DOMAIN lists : lists'[l] = lists[l]
      /\ lists'[Len(lists) + 1] = list
      /\ Len(lists) \in Nat
  <2> HIDE DEF List
  <2> QED
    BY <1>1, <1>4, <1>6, Appended
<1>8. \A l \in DOMAIN lists' : l \in DOMAIN lists \/ l = Len(lists) + 1
  BY <1>7
<1>9. ListsOK'
  <2>1. ASSUME NEW l \in DOMAIN lists' PROVE ListOK(lists'[l], live')
    <3>1. CASE l \in DOMAIN lists
      BY <1>1, <1>2, <1>7, <3>1 DEF Open, ListsOK, ListOK
    <3> QED
      BY <1>5, <1>7, <1>8, <2>1, <3>1
  <2>2. \A l \in DOMAIN lists : lists[l].items # NULL => lists[l].items \in live
    BY <1>1 DEF Open, ListsOK, ListOK
  <2>3. list.items = ptr
    BY DEF list
  <2>4. ListsApart'
    <3> SUFFICES ASSUME NEW k \in DOMAIN lists', NEW l \in DOMAIN lists',
                        lists'[k].items # NULL, lists'[k].items = lists'[l].items
                 PROVE  k = l
      BY DEF ListsApart
    <3>1. CASE k \in DOMAIN lists /\ l \in DOMAIN lists
      BY <1>1, <1>7, <3>1 DEF Open, ListsOK, ListsApart
    <3>2. CASE ~(k \in DOMAIN lists /\ l \in DOMAIN lists)
      BY <1>2, <1>7, <1>8, <2>2, <2>3, <3>2
    <3> QED
      BY <3>1, <3>2
  <2> QED
    BY <2>1, <2>4 DEF ListsOK
<1>10. mode' \in {"open", "crashed"} /\ (mode' = "open" => Stored(grown))
  BY DEF ListInit
<1>11. TypeOK'
  BY <1>1, <1>2, <1>3, <1>7, <1>10 DEF TypeOK, Outcomes
<1> QED
  BY <1>2, <1>3, <1>9, <1>10, <1>11 DEF IInv, Open, FreedOnce, LeaksWhatStayed

-----------------------------------------------------------------------------
(* Lists of child nodes                                                    *)

\* One list is changed, and the others stay.
LEMMA Replaced ==
  ASSUME NEW s \in Seq(List), NEW l \in DOMAIN s, NEW list \in List
  PROVE  /\ [s EXCEPT ![l] = list] \in Seq(List)
         /\ DOMAIN [s EXCEPT ![l] = list] = DOMAIN s
         /\ [s EXCEPT ![l] = list][l] = list
         /\ \A k \in DOMAIN s : k # l => [s EXCEPT ![l] = list][k] = s[k]
<1> HIDE DEF List
<1> QED
  OBVIOUS

LEMMA ListStoreStep ==
  ASSUME IInv, NEW l \in DOMAIN lists, ListStore(l)
  PROVE  IInv'
<1> DEFINE list == [lists[l] EXCEPT !.size = @ + 1]
<1>1. /\ TypeOK /\ Open /\ ListOK(lists[l], live)
      /\ UNCHANGED <<live, items, cap, room, stayed>>
      /\ lists' = [lists EXCEPT ![l] = list]
      /\ lists \in Seq(List)
  BY DEF IInv, ListStore, Open, ListsOK, TypeOK
<1>2. lists[l] \in List
  <2> HIDE DEF List
  <2> QED
    BY <1>1
<1>3. /\ list \in List /\ list.items = lists[l].items
      /\ list.items # NULL => ListOK(list, live)
  <2>1. /\ lists[l].size \in Nat /\ lists[l].cap \in Nat
        /\ lists[l].size # lists[l].cap /\ lists[l].size <= lists[l].cap
    BY <1>1, <1>2 DEF ListOK, ListStore, Full
  <2>2. /\ list \in List /\ list.items = lists[l].items /\ list.cap = lists[l].cap
        /\ list.size = lists[l].size + 1 /\ list.room = lists[l].room
    BY <1>2, <2>1
  <2> HIDE DEF list
  <2>3. list.size <= list.cap
    BY <2>1, <2>2
  <2>4. list.items # NULL => list.items \in live /\ list.room = list.cap
    BY <1>1, <2>2 DEF ListOK
  <2> QED
    BY <2>2, <2>3, <2>4 DEF ListOK
<1> HIDE DEF list
<1>4. /\ lists' \in Seq(List) /\ DOMAIN lists' = DOMAIN lists /\ lists'[l] = list
      /\ \A k \in DOMAIN lists : k # l => lists'[k] = lists[k]
  <2> HIDE DEF List
  <2> QED
    BY <1>1, <1>3, Replaced
<1>5. mode' \in {"open", "crashed"} /\ (mode' = "open" => list.items # NULL)
  BY <1>3 DEF ListStore
<1>6. ASSUME mode' = "open" PROVE ListsOK'
  <2>1. \A k \in DOMAIN lists' : ListOK(lists'[k], live')
    BY <1>1, <1>3, <1>4, <1>5, <1>6 DEF Open, ListsOK
  <2>2. \A k \in DOMAIN lists' : lists'[k].items = lists[k].items
    BY <1>3, <1>4
  <2>3. ListsApart'
    <3>1. ListsApart /\ DOMAIN lists' = DOMAIN lists
      BY <1>1, <1>4 DEF Open, ListsOK
    <3> QED
      BY <2>2, <3>1 DEF ListsApart
  <2> QED
    BY <2>1, <2>3 DEF ListsOK
<1>7. EntriesOnce' /\ NoEntryIfStayed' /\ RoomForEntries'
  BY <1>1 DEF Open, EntriesOnce, NoEntryIfStayed, RoomForEntries
<1>8. TypeOK'
  <2> HIDE DEF List
  <2> QED
    BY <1>1, <1>4, <1>5 DEF TypeOK, Outcomes, List
<1> QED
  BY <1>5, <1>6, <1>7, <1>8 DEF IInv, Open, FreedOnce, LeaksWhatStayed

\* arena_realloc(): the old block has no entry any more, nor has the new one if it is
\* the same; the new entry is the only one of a block that has moved.
LEMMA Reallocated ==
  ASSUME TypeOK, EntriesOnce, NoEntryIfStayed,
         NEW old \in live, NEW ptr \in {old} \cup Malloc, ptr # NULL,
         live' = (live \ {old}) \cup {ptr},
         stayed' = IF ptr = old THEN stayed \cup {old} ELSE stayed \ {old},
         items' = Forget(Append(items, ptr), old)
  PROVE  EntriesOnce' /\ NoEntryIfStayed'
<1> DEFINE last == Len(items) + 1
<1>1. /\ items \in Seq(Addrs \cup {NULL}) /\ live \subseteq Addrs /\ Len(items) \in Nat
      /\ ptr \in Addrs \cup {NULL} /\ (ptr = old \/ ptr \notin live)
      /\ old # NULL
  BY NullAssumption DEF TypeOK, Malloc
<1>2. /\ DOMAIN items = 1..Len(items) /\ DOMAIN items' = 1..last
      /\ \A i \in DOMAIN items : items'[i] = IF items[i] = old THEN NULL ELSE items[i]
      /\ items'[last] = IF ptr = old THEN NULL ELSE ptr
  BY <1>1, ForgetAppended
<1>3. /\ \A i \in DOMAIN items' : i \in DOMAIN items \/ i = last
      /\ DOMAIN items \subseteq DOMAIN items' /\ last \in DOMAIN items'
  BY <1>1, <1>2
<1>4. \A i \in DOMAIN items : items[i] # NULL => items[i] \in live
  BY DEF EntriesOnce
<1> HIDE DEF last
<1>5. EntriesOnce'
  <2> SUFFICES ASSUME NEW i \in DOMAIN items', items'[i] # NULL
               PROVE  /\ items'[i] \in live'
                      /\ \A j \in DOMAIN items' : items'[j] = items'[i] => j = i
    BY DEF EntriesOnce
  <2>1. CASE i \in DOMAIN items
    <3>1. items'[i] = items[i] /\ items[i] # old /\ items[i] \in live
      BY <1>2, <1>4, <2>1
    <3>2. ASSUME NEW j \in DOMAIN items', items'[j] = items'[i] PROVE j = i
      <4>1. CASE j \in DOMAIN items
        BY <1>2, <2>1, <3>1, <3>2, <4>1 DEF EntriesOnce
      <4>2. CASE j = last
        BY <1>1, <1>2, <3>1, <3>2, <4>2
      <4> QED
        BY <1>3, <4>1, <4>2
    <3> QED
      BY <3>1, <3>2
  <2>2. CASE i = last
    <3>1. items'[i] = ptr /\ ptr # old /\ ptr \notin live
      BY <1>1, <1>2, <2>2
    <3>2. \A j \in DOMAIN items : items'[j] # ptr
      BY <1>2, <1>4, <3>1
    <3> QED
      BY <1>3, <2>2, <3>1, <3>2
  <2> QED
    BY <1>3, <2>1, <2>2
<1>6. NoEntryIfStayed'
  <2>1. stayed' \subseteq live'
    BY DEF NoEntryIfStayed
  <2>2. ASSUME NEW a \in live'
        PROVE  a \in stayed' <=> \A i \in DOMAIN items' : items'[i] # a
    <3>1. CASE a = ptr /\ ptr = old
      BY <1>1, <1>2, <1>3, <3>1
    <3>2. CASE a = ptr /\ ptr # old
      BY <1>1, <1>2, <1>3, <3>2 DEF NoEntryIfStayed
    <3>3. CASE a # ptr
      <4>1. a \in live /\ a # old /\ a # NULL
        BY <1>1, <2>2, <3>3, NullAssumption
      <4>2. \A i \in DOMAIN items : items'[i] = a <=> items[i] = a
        BY <1>2, <4>1
      <4>3. items'[last] # a
        BY <1>2, <3>3, <4>1
      <4>4. (\A i \in DOMAIN items' : items'[i] # a) <=> \A i \in DOMAIN items : items[i] # a
        BY <1>3, <4>2, <4>3
      <4>5. a \in stayed' <=> a \in stayed
        BY <4>1
      <4> QED
        BY <4>1, <4>4, <4>5 DEF NoEntryIfStayed
    <3> QED
      BY <3>1, <3>2, <3>3
  <2> QED
    BY <2>1, <2>2 DEF NoEntryIfStayed
<1> QED
  BY <1>5, <1>6

\* The record of a list that has grown.
LEMMA RegrownList ==
  ASSUME NEW list \in List, NEW ptr \in Addrs \cup {NULL}
  PROVE  /\ Regrown(list, ptr) \in List
         /\ Regrown(list, ptr).items = ptr
         /\ Regrown(list, ptr).cap = 2 * list.cap
         /\ Regrown(list, ptr).size = list.size + 1
         /\ Regrown(list, ptr).room = IF ptr = NULL THEN 0 ELSE 2 * list.cap
<1>1. 2 * list.cap \in Nat \ {0} /\ list.size + 1 \in Nat
  OBVIOUS
<1> DEFINE r == IF ptr = NULL THEN 0 ELSE 2 * list.cap
<1>2. r \in Nat
  BY <1>1
<1> HIDE DEF r
<1>3. Regrown(list, ptr) = [list EXCEPT !.cap = 2 * list.cap, !.room = r,
                                          !.size = list.size + 1, !.items = ptr]
  BY DEF Regrown, r
<1>4. Regrown(list, ptr) \in List
  BY <1>1, <1>2, <1>3
<1>5. /\ Regrown(list, ptr).items = ptr
      /\ Regrown(list, ptr).cap = 2 * list.cap
      /\ Regrown(list, ptr).size = list.size + 1
      /\ Regrown(list, ptr).room = r
  BY <1>3
<1> QED
  BY <1>4, <1>5 DEF r

\* A full list has a block, which no other list uses: growing it takes nothing away
\* from the others.
LEMMA ListGrowStep ==
  ASSUME IInv, NEW l \in DOMAIN lists, NEW ptr \in Addrs \cup {NULL}, NEW grown \in BOOLEAN,
         ListGrow(l, ptr, grown)
  PROVE  IInv'
<1> DEFINE old  == lists[l].items
           list == Regrown(lists[l], ptr)
<1>1. /\ TypeOK /\ Open /\ ListOK(lists[l], live)
      /\ Record(grown)
      /\ items' = Forget(Append(items, ptr), old)
      /\ lists' = [lists EXCEPT ![l] = list]
      /\ lists \in Seq(List)
      /\ items \in Seq(Addrs \cup {NULL})
  BY DEF IInv, ListGrow, Open, ListsOK, TypeOK
<1>2. lists[l] \in List
  <2> HIDE DEF List, list, old
  <2> QED
    BY <1>1
<1>3. old \in live /\ old # NULL /\ lists[l].size = lists[l].cap /\ lists[l].cap \in Nat \ {0}
  BY <1>1, <1>2 DEF ListGrow, Full, ListOK
<1>4. /\ list \in List /\ list.items = ptr
      /\ list.cap = 2 * lists[l].cap /\ list.size = lists[l].cap + 1
      /\ list.room = IF ptr = NULL THEN 0 ELSE 2 * lists[l].cap
  <2> HIDE DEF List, old
  <2> QED
    BY <1>2, <1>3, RegrownList DEF list
<1>5. /\ live' = IF ptr = NULL THEN live ELSE (live \ {old}) \cup {ptr}
      /\ stayed' = IF ptr = old THEN stayed \cup {old}
                   ELSE IF ptr = NULL THEN stayed ELSE stayed \ {old}
      /\ mode' = IF ptr = NULL \/ ~Stored(grown) THEN "crashed" ELSE "open"
      /\ ptr \in {old} \cup Malloc
  BY DEF ListGrow
<1> HIDE DEF list, old
<1>6. /\ lists' \in Seq(List) /\ DOMAIN lists' = DOMAIN lists /\ lists'[l] = list
      /\ \A k \in DOMAIN lists : k # l => lists'[k] = lists[k]
  <2> HIDE DEF List
  <2> QED
    BY <1>1, <1>4, Replaced
<1>7. items' \in Seq(Addrs \cup {NULL}) /\ Len(items') = Len(items) + 1
  <2>1. items \in Seq(Addrs \cup {NULL}) /\ items' = Forget(Append(items, ptr), old)
    BY <1>1
  <2>2. /\ Forget(Append(items, ptr), old) \in Seq(Addrs \cup {NULL})
        /\ Len(Forget(Append(items, ptr), old)) = Len(items) + 1
    BY <2>1, ForgetAppended
  <2> QED
    BY <2>1, <2>2
<1>8. /\ cap' \in Nat \ {0} /\ room' \in Nat
      /\ Stored(grown) => RoomForEntries'
  BY <1>1, <1>7, Recorded DEF Open
<1>9. ASSUME ptr # NULL PROVE EntriesOnce' /\ NoEntryIfStayed'
  BY <1>1, <1>3, <1>5, <1>9, Reallocated DEF Open
<1>10. ASSUME ptr # NULL PROVE ListsOK'
  <2>1. live' = (live \ {old}) \cup {ptr} /\ (ptr = old \/ ptr \notin live)
    BY <1>5, <1>10 DEF Malloc
  <2>2. \A k \in DOMAIN lists : k # l =>
          /\ ListOK(lists[k], live)
          /\ lists[k].items # old
          /\ lists[k].items # NULL => lists[k].items \in live
    BY <1>1, <1>3 DEF old, Open, ListsOK, ListOK, ListsApart
  <2>3. ListOK(list, live')
    BY <1>3, <1>4, <1>10, <2>1 DEF ListOK
  <2>4. \A k \in DOMAIN lists' : ListOK(lists'[k], live')
    BY <1>6, <2>1, <2>2, <2>3 DEF ListOK
  <2>5. ASSUME NEW k \in DOMAIN lists', k # l, lists'[k].items # NULL
        PROVE  lists'[k].items # ptr
    BY <1>6, <2>1, <2>2, <2>5
  <2>6. ListsApart'
    <3> SUFFICES ASSUME NEW k \in DOMAIN lists', NEW m \in DOMAIN lists',
                        lists'[k].items # NULL, lists'[k].items = lists'[m].items
                 PROVE  k = m
      BY DEF ListsApart
    <3>1. CASE k # l /\ m # l
      BY <1>1, <1>6, <3>1 DEF Open, ListsOK, ListsApart
    <3>2. CASE k = l \/ m = l
      BY <1>4, <1>6, <2>5, <3>2
    <3> QED
      BY <3>1, <3>2
  <2> QED
    BY <2>4, <2>6 DEF ListsOK
<1>11. live' \subseteq Addrs /\ stayed' \subseteq Addrs
  BY <1>1, <1>3, <1>5 DEF TypeOK
<1>12. TypeOK'
  <2> HIDE DEF List
  <2> QED
    BY <1>5, <1>6, <1>7, <1>8, <1>11 DEF TypeOK, Outcomes, List
<1>13. mode' = "open" => ptr # NULL /\ Stored(grown)
  BY <1>5
<1>14. mode' \in {"open", "crashed"}
  BY <1>5
<1> QED
  BY <1>8, <1>9, <1>10, <1>12, <1>13, <1>14 DEF IInv, Open, FreedOnce, LeaksWhatStayed

-----------------------------------------------------------------------------
(* The invariant                                                           *)

\* arena_free() frees every entry once, and the blocks without one stay allocated.
LEMMA ArenaFreeStep ==
  ASSUME IInv, ArenaFree
  PROVE  IInv'
<1> DEFINE entries == {i \in DOMAIN items : items[i] # NULL}
<1>1. TypeOK /\ EntriesOnce /\ NoEntryIfStayed
  BY DEF IInv, ArenaFree, Open
<1>2. mode' = "freed"
  BY <1>1 DEF ArenaFree, EntriesOnce
<1>3. live' = live \ {items[i] : i \in entries}
  BY DEF ArenaFree
<1>4. \A a \in live : a # NULL
  BY <1>1, NullAssumption DEF TypeOK
<1>5. live' = stayed'
  <2>1. ASSUME NEW a PROVE a \in live' <=> a \in stayed
    BY <1>1, <1>3, <1>4 DEF NoEntryIfStayed
  <2> QED
    BY <2>1 DEF ArenaFree
<1>6. TypeOK'
  <2> HIDE DEF List
  <2> QED
    BY <1>1, <1>2, <1>3 DEF ArenaFree, TypeOK, Outcomes
<1> QED
  BY <1>2, <1>5, <1>6 DEF IInv, FreedOnce, LeaksWhatStayed

LEMMA InitIInv == Init => IInv
<1> SUFFICES ASSUME Init PROVE IInv
  OBVIOUS
<1>1. TypeOK
  BY CapAssumption DEF Init, TypeOK
<1>2. Open
  BY CapAssumption DEF Init, Open, EntriesOnce, NoEntryIfStayed, RoomForEntries, ListsOK, ListsApart
<1> QED
  BY <1>1, <1>2 DEF Init, IInv, FreedOnce, LeaksWhatStayed

LEMMA NextIInv == IInv /\ [Next]_vars => IInv'
<1> SUFFICES ASSUME IInv, [Next]_vars PROVE IInv'
  OBVIOUS
<1>1. CASE UNCHANGED vars
  BY <1>1 DEF vars, IInv, TypeOK, Open, EntriesOnce, NoEntryIfStayed, RoomForEntries,
              ListsOK, ListOK, ListsApart, FreedOnce, LeaksWhatStayed
<1>2. CASE Next
  <2>1. ASSUME NEW ptr \in Malloc, NEW grown \in BOOLEAN, Alloc(ptr, grown) \/ ListInit(ptr, grown)
        PROVE  IInv'
    BY <2>1, AllocStep, ListInitStep
  <2>2. ASSUME NEW l \in DOMAIN lists, ListStore(l) PROVE IInv'
    BY <2>2, ListStoreStep
  <2>3. ASSUME NEW l \in DOMAIN lists, NEW ptr \in Addrs \cup {NULL}, NEW grown \in BOOLEAN,
               ListGrow(l, ptr, grown)
        PROVE  IInv'
    BY <2>3, ListGrowStep
  <2>4. CASE ArenaFree
    BY <2>4, ArenaFreeStep
  <2>5. CASE Terminated
    BY <1>1, <2>5 DEF Terminated
  <2> QED
    BY <1>2, <2>1, <2>2, <2>3, <2>4, <2>5 DEF Next
<1> QED
  BY <1>1, <1>2

\* The inductive invariant holds in every reachable state of the arena.
THEOREM Invariance == Spec => []IInv
BY InitIInv, NextIInv, PTL DEF Spec

\* The arena and the lists hold what their declarations say.
THEOREM TypeCorrect == Spec => []TypeOK
<1>1. IInv => TypeOK
  BY DEF IInv
<1> QED
  BY <1>1, Invariance, PTL

\* arena_free() never frees a block twice nor one that is not allocated, however often
\* lists have moved and their addresses were given out again.
THEOREM FreesOnce == Spec => []FreedOnce
<1>1. IInv => FreedOnce
  BY DEF IInv
<1> QED
  BY <1>1, Invariance, PTL

\* What is never freed is exactly the blocks arena_realloc() last grew in place.
THEOREM LeaksOnlyWhatStayed == Spec => []LeaksWhatStayed
<1>1. IInv => LeaksWhatStayed
  BY DEF IInv
<1> QED
  BY <1>1, Invariance, PTL

\* No list of child nodes uses memory that is freed or belongs to another list.
THEOREM ListsOwn == Spec => []ListsOwnTheirBlocks
<1>1. IInv => ListsOwnTheirBlocks
  BY DEF IInv, Open, ListsOK, ListOK, ListsApart, ListsOwnTheirBlocks
<1> QED
  BY <1>1, Invariance, PTL

\* astnodelist_append() and the arena store inside their blocks, for every initial
\* capacity.
THEOREM Roomy == Spec => []StoresInRoom
<1>1. ASSUME IInv PROVE StoresInRoom
  <2>1. ASSUME mode = "open", NEW l \in DOMAIN lists, lists[l].size > 0
        PROVE  lists[l].size <= lists[l].room
    <3>1. ListOK(lists[l], live)
      BY <1>1, <2>1 DEF IInv, Open, ListsOK
    <3> QED
      BY <2>1, <3>1 DEF ListOK
  <2> QED
    BY <1>1, <2>1 DEF IInv, Open, RoomForEntries, StoresInRoom
<1> QED
  BY <1>1, Invariance, PTL
=============================================================================
