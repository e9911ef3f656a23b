------------------------------- MODULE Arena -------------------------------
(***************************************************************************)
(* seronc/lib/arena.h: one list of every block the compiler has allocated, *)
(* so that arena_free() can free them all; and astnodelist_init() and      *)
(* astnodelist_append() of parser.c, the lists of child nodes, the only    *)
(* users of arena_realloc().                                               *)
(*                                                                         *)
(* malloc() and realloc() are external: a block lies at any address that   *)
(* is not in use, a growing block stays where it is or moves, and either   *)
(* call may fail.  The block of the list itself (Arena.items) has no       *)
(* address here: it never meets the others.                                *)
(***************************************************************************)
EXTENDS Naturals, Sequences, FiniteSets

CONSTANTS
  Addrs,        \* addresses of blocks
  NULL,
  InitialCap,   \* the capacity a list begins with, 5 in the code
  MaxItems,     \* bound on the allocations
  MaxLists      \* bound on the lists of child nodes

ASSUME NullAssumption == NULL \notin Addrs
ASSUME CapAssumption == InitialCap \in Nat \ {0}
ASSUME BoundsAssumption == MaxItems \in Nat /\ MaxLists \in Nat

VARIABLES
  live,     \* the blocks malloc() has given out and not got back
  items,    \* Arena.items, as far as it is filled: Arena.size is its length
  cap,      \* Arena.cap
  room,     \* the number of entries the block at Arena.items has, 0 if it is NULL
  lists,    \* the lists of child nodes: [items, size, cap, room]
  stayed,   \* history: the blocks that stayed where they were when last grown
  mode      \* "open", or how the arena came to an end

vars == <<live, items, cap, room, lists, stayed, mode>>

Outcomes ==
  {"freed",      \* arena_free() has run
   "corrupted",  \* arena_free() has freed a block that is not allocated
   "crashed",    \* a store through NULL
   "panic"}      \* NON_NULL()

-----------------------------------------------------------------------------
(* Arena.items                                                             *)

\* Every allocation ends with these lines: the list grows when it is full, and the
\* pointer is stored behind the last.  `grown` is whether realloc() finds memory.
CapAfter == IF Len(items) = cap THEN 2 * cap ELSE cap

RoomAfter(grown) ==
  IF Len(items) = cap THEN IF grown THEN CapAfter ELSE 0 ELSE room

Record(grown) ==
  /\ cap' = CapAfter
  /\ room' = RoomAfter(grown)

Stored(grown) == RoomAfter(grown) # 0

\* malloc()
Malloc == {NULL} \cup (Addrs \ live)

\* variant: only the entry before the new one is looked at
ForgetNearest(entries, ptr) ==
  [i \in DOMAIN entries |->
     IF i = Len(entries) - 1 /\ entries[i] = ptr THEN NULL ELSE entries[i]]

\* the loop of arena_realloc(): every entry of the old pointer becomes NULL
Forget(entries, ptr) ==
  [i \in DOMAIN entries |-> IF entries[i] = ptr THEN NULL ELSE entries[i]]

-----------------------------------------------------------------------------
\* variant: arena_init() is forgotten
InitZero ==
  /\ live = {} /\ items = <<>> /\ lists = <<>> /\ stayed = {} /\ mode = "open"
  /\ cap = 0 /\ room = 0

\* arena_init()
Init ==
  /\ live = {}
  /\ items = <<>>
  /\ cap = InitialCap
  /\ room \in {0, InitialCap}
  /\ lists = <<>>
  /\ stayed = {}
  /\ mode = "open"

\* variant: a block that makes the list grow is not stored in it
ArenaAllocUnstored(ptr, grown) ==
  /\ Len(items) < MaxItems
  /\ live' = live \cup ({ptr} \ {NULL})
  /\ Record(grown)
  /\ items' = IF Len(items) = cap THEN items ELSE Append(items, ptr)

\* arena_alloc(), where the pointer can be stored
ArenaAlloc(ptr, grown) ==
  /\ Len(items) < MaxItems
  /\ live' = live \cup ({ptr} \ {NULL})
  /\ Record(grown)
  /\ items' = Append(items, ptr)

\* an allocation for a node, a type, a scope or an entry of one; NON_NULL() around
\* some of the calls panics, the others are left with NULL
Alloc(ptr, grown) ==
  /\ mode = "open"
  /\ ArenaAlloc(ptr, grown)
  /\ mode' \in IF ~Stored(grown) THEN {"crashed"}
              ELSE IF ptr = NULL THEN {"open", "panic"} ELSE {"open"}
  /\ UNCHANGED <<lists, stayed>>

\* astnodelist_init()
ListInit(ptr, grown) ==
  /\ mode = "open"
  /\ Len(lists) < MaxLists
  /\ ArenaAlloc(ptr, grown)
  /\ lists' = Append(lists, [items |-> ptr, size |-> 0, cap |-> InitialCap,
                             room |-> IF ptr = NULL THEN 0 ELSE InitialCap])
  /\ mode' = IF Stored(grown) THEN "open" ELSE "crashed"
  /\ UNCHANGED stayed

\* variant: a full list takes one more node before it grows
FullLate(list) == list.size > list.cap

Full(list) == list.size = list.cap

\* astnodelist_append() to a list with room left; items may be NULL
ListStore(l) ==
  /\ mode = "open"
  /\ ~Full(lists[l])
  /\ lists' = [lists EXCEPT ![l].size = @ + 1]
  /\ mode' = IF lists[l].items = NULL THEN "crashed" ELSE "open"
  /\ UNCHANGED <<live, items, cap, room, stayed>>

\* variant: the list goes on at the old place
RegrownStale(list, ptr) ==
  [list EXCEPT !.cap = 2 * @, !.room = IF ptr = NULL THEN 0 ELSE 2 * list.cap,
               !.size = @ + 1]

\* the list after astnodelist_append() has made it grow and stored the node
Regrown(list, ptr) ==
  [list EXCEPT !.cap = 2 * @, !.room = IF ptr = NULL THEN 0 ELSE 2 * list.cap,
               !.size = @ + 1, !.items = ptr]

\* astnodelist_append() to a full list, arena_realloc() included: realloc() leaves
\* the block where it is, moves it, or fails and leaves it alone
ListGrow(l, ptr, grown) ==
  LET old == lists[l].items IN
  /\ mode = "open"
  /\ Len(items) < MaxItems
  /\ Full(lists[l])
  /\ ptr \in {old} \cup Malloc
  /\ live' = IF ptr = NULL THEN live ELSE (live \ {old}) \cup {ptr}
  /\ stayed' = IF ptr = old THEN stayed \cup {old}
               ELSE IF ptr = NULL THEN stayed ELSE stayed \ {old}
  /\ Record(grown)
  /\ items' = Forget(Append(items, ptr), old)
  /\ lists' = [lists EXCEPT ![l] = Regrown(@, ptr)]
  /\ mode' = IF ptr = NULL \/ ~Stored(grown) THEN "crashed" ELSE "open"

\* arena_free(): free() of every entry in order; free(NULL) does nothing
ArenaFree ==
  LET entries == {i \in DOMAIN items : items[i] # NULL} IN
  /\ mode = "open"
  /\ live' = live \ {items[i] : i \in entries}
  /\ mode' = IF /\ \A i \in entries : items[i] \in live
                /\ \A i, j \in entries : items[i] = items[j] => i = j
             THEN "freed" ELSE "corrupted"
  /\ room' = 0
  /\ UNCHANGED <<items, cap, lists, stayed>>

Terminated == mode \in Outcomes /\ UNCHANGED vars

Next ==
  \/ \E ptr \in Malloc, grown \in BOOLEAN : Alloc(ptr, grown) \/ ListInit(ptr, grown)
  \/ \E l \in DOMAIN lists :
       \/ ListStore(l)
       \/ \E ptr \in Addrs \cup {NULL}, grown \in BOOLEAN : ListGrow(l, ptr, grown)
  \/ ArenaFree
  \/ Terminated

Spec == Init /\ [][Next]_vars

-----------------------------------------------------------------------------
(* Properties                                                              *)

TypeOK ==
  /\ live \subseteq Addrs
  /\ items \in Seq(Addrs \cup {NULL})
  /\ cap \in Nat \ {0}
  /\ room \in Nat
  /\ lists \in Seq([items : Addrs \cup {NULL}, size : Nat, cap : Nat \ {0}, room : Nat])
  /\ stayed \subseteq Addrs
  /\ mode \in Outcomes \cup {"open"}

\* No block is freed twice and nothing else is freed, although addresses are given
\* out again and a block that moves leaves its old address in the list.
FreedOnce == mode # "corrupted"

\* No list of child nodes points at memory that was freed under it, or at memory
\* that another list uses as well.
ListsOwnTheirBlocks ==
  mode = "open" =>
    \A l \in DOMAIN lists : lists[l].items # NULL =>
      /\ lists[l].items \in live
      /\ \A k \in DOMAIN lists : lists[k].items = lists[l].items => k = l

\* Nothing is stored behind the end of a block: neither by the arena, nor by a list.
StoresInRoom ==
  mode = "open" =>
    /\ items # <<>> => Len(items) <= room
    /\ \A l \in DOMAIN lists : lists[l].size > 0 => lists[l].size <= lists[l].room

\* What arena_free() leaves allocated is what realloc() left in place when it last
\* grew: arena_realloc() forgets the new entry of such a block with the old one.
\* Everything else is freed.
LeaksWhatStayed == mode = "freed" => live = stayed
=============================================================================
