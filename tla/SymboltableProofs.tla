------------------------- MODULE SymboltableProofs -------------------------
(***************************************************************************)
(* Proofs about Symboltable for every tree of every program: any names,    *)
(* types and signatures, any nesting, any number of nodes.                 *)
(*                                                                         *)
(* What the second walk finds depends on all the first one did.  IInv says *)
(* what that leaves behind: the blocks around a node are nested scopes and *)
(* the current scope is the innermost of them; a scope holds exactly the   *)
(* names declared in its block, each with a place in the frame of the      *)
(* procedure; and no block but the global one is shared by two procedures. *)
(***************************************************************************)
EXTENDS Symboltable, GeneralLemmas, FiniteSetTheorems

-----------------------------------------------------------------------------
(* The inductive invariant                                                 *)

\* the blocks of B contain one another, from the global one inwards
IsChain(B, table) ==
  /\ B \in Seq(1..Len(table)) /\ B # <<>> /\ B[1] = 1
  /\ \A i \in 1..Len(B) - 1 : table[B[i + 1]].parent = B[i]
  /\ \A i, j \in 1..Len(B) : i < j => B[i] < B[j]

SymbolKinds == {"TABLE", "PROCEDURE", "VARIABLE", "PARAMETER"}

Decls ==
  [name : Names, block : Nat, proc : Nat, seen : Nat, kind : SymbolKinds, offset : Nat]

Typed ==
  /\ TypeOK
  /\ scopes \in Seq(ToSet(scopes)) /\ Len(scopes) > 0
  /\ proc.number \in Nat /\ proc.seen \in Nat /\ proc.body \in Nat
  /\ decls \in Seq(Decls)
  /\ uses \in Seq([name : Names, blocks : Seq(Nat), proc : Nat, seen : Nat])
  /\ bound \in Seq(ToSet(bound))

\* where the walk stands, and the scope that is current there
Nested ==
  /\ mode \notin {"build", "panic"} => open = <<>>
  /\ mode \in {"build", "panic"} /\ ~InBlock => head = 1
  /\ In("proc_pre") \/ In("proc_post") => Len(open) = 1
  /\ open # <<>> => proc.number = Len(frame) + 1
  /\ In("proc_pre") => proc.body = Len(scopes) + 1
  /\ In("proc_post") => proc.body \in 2..Len(scopes)
  /\ InBlock =>
       /\ IsChain(Around, scopes) /\ head = Last(Around) /\ open[1].block = proc.body
       /\ open[1].kind = "body" /\ \A i \in 2..Len(open) : open[i].kind = "block"

\* what is stored below rbp lies in the frame of the procedure, and apart
Framed ==
  /\ \A s \in slots :
       /\ s.low <= s.high /\ s.high <= FrameOf(s.proc)
       /\ s.proc \in 1..Len(frame) + 1 /\ (open = <<>> => s.proc <= Len(frame))
  /\ SlotsDisjoint

\* a scope holds exactly what was declared in its block, and a place for it
Declares(d, s, x, sym) == d.name = x /\ d.block = s /\ SameSymbol(sym, d)

Local == {"VARIABLE", "PARAMETER"}

Entered ==
  /\ \A s \in 1..Len(scopes) : \A x \in DOMAIN scopes[s].names :
       \E i \in DOMAIN decls : Declares(decls[i], s, x, scopes[s].names[x])
  /\ \A i \in DOMAIN decls :
       decls[i].block \in 1..Len(scopes) /\ decls[i].name \in DOMAIN scopes[decls[i].block].names
  /\ \A i \in DOMAIN decls : decls[i].kind \in Local =>
       /\ decls[i].block # 1
       /\ \E s \in slots : s.proc = decls[i].proc /\ s.high = decls[i].offset

\* A block other than the global one belongs to one procedure.
Owned ==
  /\ \A i \in DOMAIN uses : IsChain(uses[i].blocks, scopes)
  /\ \A i \in DOMAIN decls, j \in DOMAIN uses :
       decls[i].block # 1 /\ decls[i].block \in ToSet(uses[j].blocks) => decls[i].proc = uses[j].proc
  /\ open # <<>> =>
       /\ \A i \in DOMAIN decls : decls[i].block >= proc.body => decls[i].proc = proc.number
       /\ \A i \in DOMAIN uses : \A b \in ToSet(uses[i].blocks) :
            b >= proc.body => uses[i].proc = proc.number

\* the second walk has looked up the identifiers in the scopes around them
Resolved ==
  /\ mode \in {"build", "panic"} => bound = <<>>
  /\ Len(bound) <= Len(uses)
  /\ \A i \in DOMAIN bound : bound[i] = Lookup(Last(uses[i].blocks), uses[i].name)

IInv == Typed /\ Nested /\ Framed /\ Entered /\ Owned /\ Resolved

-----------------------------------------------------------------------------
(* Sizes                                                                   *)

LEMMA Sizes ==
  ASSUME NEW kind
  PROVE  /\ type_primitive_size(kind) \in {1, 4, 8}
         /\ align_16(type_primitive_size(kind)) = 16
<1>1. align_16(1) = 16 /\ align_16(4) = 16 /\ align_16(8) = 16
  BY DEF align_16
<1> QED
  BY <1>1 DEF type_primitive_size

-----------------------------------------------------------------------------
(* Recursive definitions                                                   *)

\* the offsets of the first n parameters behind locals of `from` bytes
AreTops(top, params, n, from) ==
  top = [j \in 0..n |->
           IF j = 0 THEN from ELSE top[j - 1] + type_primitive_size(params[j].type.kind)]

LEMMA TopsExist ==
  ASSUME NEW params, NEW n \in Nat, NEW from
  PROVE  \E top : AreTops(top, params, n, from)
<1> DEFINE size(j) == type_primitive_size(params[j].type.kind)
           Is(top, m) == top = [j \in 0..m |-> IF j = 0 THEN from ELSE top[j - 1] + size(j)]
           S == {m \in Nat : \E top : Is(top, m)}
<1> HIDE DEF size
<1>1. 0 \in S
  <2>1. Is([j \in 0..0 |-> from], 0)
    OBVIOUS
  <2> QED
    BY <2>1
<1>2. ASSUME NEW m \in Nat, m \in S PROVE m + 1 \in S
  <2>1. PICK f : Is(f, m)
    BY <1>2
  <2> DEFINE g == [j \in 0..m + 1 |-> IF j = m + 1 THEN f[m] + size(j) ELSE f[j]]
  <2>2. ASSUME NEW j \in 0..m + 1
        PROVE  g[j] = IF j = 0 THEN from ELSE g[j - 1] + size(j)
    <3>1. CASE j = m + 1
      BY <3>1
    <3>2. CASE j # m + 1
      <4>1. j \in 0..m /\ (j # 0 => j - 1 \in 0..m /\ j - 1 # m + 1)
        BY <3>2
      <4>2. f[j] = IF j = 0 THEN from ELSE f[j - 1] + size(j)
        BY <2>1, <4>1
      <4> QED
        BY <4>1, <4>2
    <3> QED
      BY <3>1, <3>2
  <2>3. g = [j \in 0..m + 1 |-> g[j]]
    OBVIOUS
  <2> HIDE DEF g
  <2>4. Is(g, m + 1)
    BY <2>2, <2>3
  <2> QED
    BY <2>4
<1> HIDE DEF S
<1>3. n \in S
  BY <1>1, <1>2, NatSetInduction
<1> QED
  BY <1>3 DEF S, size, AreTops

\* the top of parameter i lies its size above the one before
LEMMA ParamTops ==
  ASSUME NEW params, Len(params) \in Nat
  PROVE  /\ ParamTop(params, 0) = stack_size
         /\ \A i \in 1..Len(params) :
              ParamTop(params, i) = ParamTop(params, i - 1) + type_primitive_size(params[i].type.kind)
<1> DEFINE n == Len(params)
           top == CHOOSE f : AreTops(f, params, n, stack_size)
<1>1. \A i : ParamTop(params, i) = top[i]
  BY DEF ParamTop, AreTops
<1>2. n \in Nat
  OBVIOUS
<1> HIDE DEF n, top
<1>3. \E f : AreTops(f, params, n, stack_size)
  BY <1>2, TopsExist
<1>4. AreTops(top, params, n, stack_size)
  BY <1>3 DEF top
<1>5. top[0] = stack_size
  BY <1>2, <1>4 DEF AreTops
<1>6. ASSUME NEW i \in 1..n
      PROVE  top[i] = top[i - 1] + type_primitive_size(params[i].type.kind)
  <2>1. i \in 0..n /\ i # 0
    BY <1>2
  <2> QED
    BY <1>4, <2>1 DEF AreTops
<1> QED
  BY <1>1, <1>5, <1>6 DEF n

\* the scope after each of the first n parameters
AreEntered(entered, names, n) ==
  entered = [j \in 0..n |->
    IF j = 0 THEN names ELSE Enter(entered[j - 1], proc.params[j].ident, ParamSymbol(j))]

LEMMA EnteredExist ==
  ASSUME NEW names, NEW n \in Nat
  PROVE  \E entered : AreEntered(entered, names, n)
<1> DEFINE With(before, j) == Enter(before, proc.params[j].ident, ParamSymbol(j))
           Is(entered, m) ==
             entered = [j \in 0..m |-> IF j = 0 THEN names ELSE With(entered[j - 1], j)]
           S == {m \in Nat : \E entered : Is(entered, m)}
<1> HIDE DEF With
<1>1. 0 \in S
  <2>1. Is([j \in 0..0 |-> names], 0)
    OBVIOUS
  <2> QED
    BY <2>1
<1>2. ASSUME NEW m \in Nat, m \in S PROVE m + 1 \in S
  <2>1. PICK f : Is(f, m)
    BY <1>2
  <2> DEFINE g == [j \in 0..m + 1 |-> IF j = m + 1 THEN With(f[m], j) ELSE f[j]]
  <2>2. ASSUME NEW j \in 0..m + 1
        PROVE  g[j] = IF j = 0 THEN names ELSE With(g[j - 1], j)
    <3>1. CASE j = m + 1
      BY <3>1
    <3>2. CASE j # m + 1
      <4>1. j \in 0..m /\ (j # 0 => j - 1 \in 0..m /\ j - 1 # m + 1)
        BY <3>2
      <4>2. f[j] = IF j = 0 THEN names ELSE With(f[j - 1], j)
        BY <2>1, <4>1
      <4> QED
        BY <4>1, <4>2
    <3> QED
      BY <3>1, <3>2
  <2>3. g = [j \in 0..m + 1 |-> g[j]]
    OBVIOUS
  <2> HIDE DEF g
  <2>4. Is(g, m + 1)
    BY <2>2, <2>3
  <2> QED
    BY <2>4
<1> HIDE DEF S
<1>3. n \in S
  BY <1>1, <1>2, NatSetInduction
<1> QED
  BY <1>3 DEF S, With, AreEntered

\* What was in the scope stays, and each parameter's name is there, as some parameter
\* of that name if the scope did not have it.
LEMMA ParamsEntered ==
  ASSUME NEW names, Len(proc.params) \in Nat
  PROVE  LET after == WithParams(names) IN
         /\ DOMAIN after = DOMAIN names \cup {proc.params[i].ident : i \in 1..Len(proc.params)}
         /\ \A m \in DOMAIN names : after[m] = names[m]
         /\ \A m \in DOMAIN after : m \notin DOMAIN names =>
              \E i \in 1..Len(proc.params) :
                m = proc.params[i].ident /\ after[m] = ParamSymbol(i)
<1> DEFINE n == Len(proc.params)
           f == CHOOSE entered : AreEntered(entered, names, n)
           ident(j) == proc.params[j].ident
           Right(after, j) ==
             /\ DOMAIN after = DOMAIN names \cup {ident(i) : i \in 1..j}
             /\ \A m \in DOMAIN names : after[m] = names[m]
             /\ \A m \in DOMAIN after : m \notin DOMAIN names =>
                  \E i \in 1..j : m = ident(i) /\ after[m] = ParamSymbol(i)
           S == {j \in 0..n : Right(f[j], j)}
<1>1. WithParams(names) = f[n]
  BY DEF WithParams, AreEntered
<1>2. n \in Nat
  OBVIOUS
<1> HIDE DEF n, f, ident
<1>3. AreEntered(f, names, n)
  BY <1>2, EnteredExist DEF f
<1>4. f[0] = names
  BY <1>2, <1>3 DEF AreEntered
<1>5. ASSUME NEW j \in 0..n - 1 PROVE f[j + 1] = Enter(f[j], ident(j + 1), ParamSymbol(j + 1))
  <2>1. j + 1 \in 0..n /\ j + 1 # 0 /\ (j + 1) - 1 = j
    BY <1>2
  <2> QED
    BY <1>3, <2>1 DEF AreEntered, ident
<1>6. 0 \in S
  BY <1>2, <1>4
<1>7. ASSUME NEW j \in 0..n - 1, j \in S PROVE j + 1 \in S
  <2>1. 1..j + 1 = 1..j \cup {j + 1} /\ j + 1 \in 0..n
    BY <1>2
  <2>2. /\ DOMAIN f[j + 1] = DOMAIN f[j] \cup {ident(j + 1)}
        /\ \A m \in DOMAIN f[j] : f[j + 1][m] = f[j][m]
        /\ ident(j + 1) \notin DOMAIN f[j] => f[j + 1][ident(j + 1)] = ParamSymbol(j + 1)
    BY <1>5 DEF Enter
  <2>3. Right(f[j], j)
    BY <1>7
  <2>4. DOMAIN f[j + 1] = DOMAIN names \cup {ident(i) : i \in 1..j + 1}
    BY <2>1, <2>2, <2>3
  <2>5. \A m \in DOMAIN names : f[j + 1][m] = names[m]
    BY <2>2, <2>3
  <2>6. ASSUME NEW m \in DOMAIN f[j + 1], m \notin DOMAIN names
        PROVE  \E i \in 1..j + 1 : m = ident(i) /\ f[j + 1][m] = ParamSymbol(i)
    <3>1. CASE m \in DOMAIN f[j]
      BY <2>1, <2>2, <2>3, <2>6, <3>1
    <3>2. CASE m \notin DOMAIN f[j]
      BY <2>1, <2>2, <3>2
    <3> QED
      BY <3>1, <3>2
  <2> QED
    BY <2>1, <2>4, <2>5, <2>6
<1> HIDE DEF S
<1>8. 0..n \subseteq S
  BY <1>2, <1>6, <1>7, IntervalInduction
<1>9. n \in S
  BY <1>2, <1>8
<1> QED
  BY <1>1, <1>9 DEF S, n, ident

\* a parent is pushed before its children
ParentsFirst == Len(scopes) \in Nat /\ \A i \in 1..Len(scopes) : scopes[i].parent \in 0..i - 1

\* where the searches for x that begin in the first n scopes end
AreWalks(walk, x, n) ==
  walk = [i \in 0..n |->
    IF i = 0 \/ x \in DOMAIN scopes[i].names THEN i ELSE walk[scopes[i].parent]]

LEMMA WalksExist ==
  ASSUME ParentsFirst, NEW x
  PROVE  \E walk : AreWalks(walk, x, Len(scopes))
<1> DEFINE has(i) == x \in DOMAIN scopes[i].names
           up(i)  == scopes[i].parent
           Is(walk, m) == walk = [i \in 0..m |-> IF i = 0 \/ has(i) THEN i ELSE walk[up(i)]]
           n == Len(scopes)
           S == {m \in 0..n : \E walk : Is(walk, m)}
<1>1. n \in Nat /\ \A i \in 1..n : up(i) \in 0..i - 1
  BY DEF ParentsFirst
<1> HIDE DEF has, up, n
<1>2. 0 \in S
  <2>1. Is([i \in 0..0 |-> 0], 0)
    OBVIOUS
  <2>2. 0 \in 0..n
    BY <1>1
  <2> QED
    BY <2>1, <2>2
<1>3. ASSUME NEW m \in 0..n - 1, m \in S PROVE m + 1 \in S
  <2>1. PICK f : Is(f, m)
    BY <1>3
  <2> DEFINE g == [i \in 0..m + 1 |->
                     IF i = m + 1 THEN IF has(i) THEN i ELSE f[up(i)] ELSE f[i]]
  <2>2. ASSUME NEW i \in 0..m + 1
        PROVE  g[i] = IF i = 0 \/ has(i) THEN i ELSE g[up(i)]
    <3>1. CASE i = m + 1
      <4>1. up(i) \in 0..m /\ i # 0
        BY <1>1, <3>1
      <4> QED
        BY <3>1, <4>1
    <3>2. CASE i # m + 1
      <4>1. i \in 0..m /\ (i # 0 => up(i) \in 0..m)
        BY <1>1, <3>2
      <4>2. f[i] = IF i = 0 \/ has(i) THEN i ELSE f[up(i)]
        BY <2>1, <4>1
      <4> QED
        BY <4>1, <4>2
    <3> QED
      BY <3>1, <3>2
  <2>3. g = [i \in 0..m + 1 |-> g[i]]
    OBVIOUS
  <2> HIDE DEF g
  <2>4. Is(g, m + 1)
    BY <2>2, <2>3
  <2>5. m + 1 \in 0..n
    BY <1>1
  <2> QED
    BY <2>4, <2>5
<1> HIDE DEF S
<1>4. 0..n \subseteq S
  BY <1>1, <1>2, <1>3, IntervalInduction
<1>5. n \in S
  BY <1>1, <1>4
<1> QED
  BY <1>5 DEF S, has, up, n, AreWalks

\* The search looks into the scope it begins in and goes on in its parent.
LEMMA ScopeOfStep ==
  ASSUME ParentsFirst, NEW x
  PROVE  /\ ScopeOf(0, x) = 0
         /\ \A s \in 1..Len(scopes) :
              ScopeOf(s, x) = IF x \in DOMAIN scopes[s].names
                              THEN s ELSE ScopeOf(scopes[s].parent, x)
<1> DEFINE n == Len(scopes)
           f == CHOOSE walk : AreWalks(walk, x, n)
<1>1. \A s : ScopeOf(s, x) = f[s]
  BY DEF ScopeOf, AreWalks
<1>2. n \in Nat
  BY DEF ParentsFirst
<1>3. AreWalks(f, x, n)
  BY WalksExist
<1> HIDE DEF n, f
<1>4. f[0] = 0
  BY <1>2, <1>3 DEF AreWalks
<1>5. ASSUME NEW s \in 1..n
      PROVE  f[s] = IF x \in DOMAIN scopes[s].names THEN s ELSE f[scopes[s].parent]
  <2>1. s \in 0..n /\ s # 0
    BY <1>2
  <2> QED
    BY <1>3, <2>1 DEF AreWalks
<1> QED
  BY <1>1, <1>4, <1>5 DEF n

-----------------------------------------------------------------------------
(* The walk                                                                *)

\* the blocks around a node are the root and those of `open`
LEMMA AroundOpen ==
  ASSUME NEW S, NEW P, open \in Seq(P), \A e \in P : e.block \in S, 1 \in S
  PROVE  /\ Around \in Seq(S) /\ Len(open) \in Nat /\ Len(Around) = Len(open) + 1
         /\ DOMAIN Around = 1..Len(open) + 1
         /\ Around[1] = 1
         /\ \A i \in 1..Len(open) : Around[i + 1] = open[i].block
         /\ Last(Around) = IF open = <<>> THEN 1 ELSE Last(open).block
<1> DEFINE n == Len(open)
           inner == [i \in 1..n |-> open[i].block]
<1>1. n \in Nat /\ DOMAIN open = 1..n
  OBVIOUS
<1>2. Around = <<1>> \o inner
  BY <1>1 DEF Around
<1>3. \A i \in 1..n : open[i] \in P
  BY ElementOf
<1>4. \A i \in 1..n : open[i].block \in S
  BY <1>3
<1> HIDE DEF n
<1>5. inner \in Seq(S) /\ Len(inner) = n
  BY <1>1, <1>4
<1>6. \A i \in 1..n : inner[i] = open[i].block
  OBVIOUS
<1> HIDE DEF inner
<1>7. <<1>> \in Seq(S) /\ Len(<<1>>) = 1 /\ <<1>>[1] = 1
  OBVIOUS
<1>8. /\ <<1>> \o inner \in Seq(S) /\ Len(<<1>> \o inner) = 1 + n
      /\ DOMAIN (<<1>> \o inner) = 1..n + 1
      /\ (<<1>> \o inner)[1] = 1
      /\ \A i \in 1..n : (<<1>> \o inner)[i + 1] = inner[i]
  BY <1>1, <1>5, <1>7
<1>9. Last(Around) = IF open = <<>> THEN 1 ELSE Last(open).block
  <2>1. CASE n = 0
    <3>1. open = <<>>
      BY <2>1 DEF n
    <3> QED
      BY <1>2, <1>8, <2>1, <3>1 DEF Last
  <2>2. CASE n # 0
    <3>1. open # <<>> /\ n \in 1..n
      BY <1>1, <2>2 DEF n
    <3> QED
      BY <1>1, <1>2, <1>6, <1>8, <3>1 DEF Last, n
  <2> QED
    BY <2>1, <2>2
<1> QED
  BY <1>1, <1>2, <1>6, <1>8, <1>9 DEF n

Places(n) == [kind : {"proc_pre", "body", "block", "proc_post"}, block : 1..n]

\* entering a symbol leaves the tree of the scopes as it is
LEMMA Inserted ==
  ASSUME scopes \in Seq(ToSet(scopes)), NEW s \in 1..Len(scopes), NEW x, NEW sym,
         InsertSymbol(s, x, sym)
  PROVE  /\ scopes' \in Seq(ToSet(scopes')) /\ Len(scopes') = Len(scopes)
         /\ DOMAIN scopes = 1..Len(scopes) /\ DOMAIN scopes' = 1..Len(scopes)
         /\ \A i \in 1..Len(scopes) : scopes'[i].parent = scopes[i].parent
         /\ \A i \in 1..Len(scopes) : i # s => scopes'[i] = scopes[i]
         /\ scopes'[s].names = Enter(scopes[s].names, x, sym)
<1> DEFINE e == [scopes[s] EXCEPT !.names = Enter(scopes[s].names, x, sym)]
<1>1. scopes' = [scopes EXCEPT ![s] = e]
  BY DEF InsertSymbol
<1>2. e.parent = scopes[s].parent /\ e.names = Enter(scopes[s].names, x, sym)
  OBVIOUS
<1> HIDE DEF e
<1> QED
  BY <1>1, <1>2, Updated

\* Typed in parts
TypedScopes ==
  /\ scopes \in Seq(ToSet(scopes)) /\ Len(scopes) > 0
  /\ \A i \in 1..Len(scopes) : scopes[i].parent \in 0..i - 1
  /\ head \in 0..Len(scopes)
  /\ open \in Seq(Places(Len(scopes)))

TypedProc ==
  /\ frame \in Seq(Nat) /\ stack_size \in Nat
  /\ proc.number \in 0..Len(frame) + 1 /\ proc.seen \in Nat /\ proc.body \in Nat
  /\ proc.params \in {<<>>} \cup {t.params : t \in Signatures}

TypedMode ==
  /\ nodes \in 0..MaxNodes
  /\ mode \in {"build", "codegen", "done", "rejected", "panic"}

TypedSlots == \A s \in slots : s.proc \in Nat /\ s.low \in Nat /\ s.high \in Nat

TypedUses == uses \in Seq([name : Names, blocks : Seq(Nat), proc : Nat, seen : Nat])

TypedRest == decls \in Seq(Decls) /\ TypedUses /\ bound \in Seq(ToSet(bound))

LEMMA TypedParts == Typed <=> TypedScopes /\ TypedProc /\ TypedMode /\ TypedSlots /\ TypedRest
<1>1. scopes \in Seq(ToSet(scopes)) => DOMAIN scopes = 1..Len(scopes)
  OBVIOUS
<1>2. scopes \in Seq(ToSet(scopes)) =>
        ((\A i \in DOMAIN scopes : scopes[i].parent \in 0..i - 1)
           <=> \A i \in 1..Len(scopes) : scopes[i].parent \in 0..i - 1)
  BY <1>1
<1>3. ASSUME Typed PROVE TypedScopes
  <2>1. scopes \in Seq(ToSet(scopes)) /\ Len(scopes) > 0 /\ TypeOK
    BY <1>3 DEF Typed
  <2> QED
    BY <1>2, <2>1, Zenon DEF TypeOK, TypedScopes, Places
<1>4. ASSUME Typed PROVE TypedProc
  BY <1>4, Zenon DEF Typed, TypeOK, TypedProc
<1>5. ASSUME Typed PROVE TypedMode /\ TypedSlots /\ TypedRest
  BY <1>5, Zenon DEF Typed, TypeOK, TypedMode, TypedSlots, TypedRest, TypedUses
<1>6. ASSUME TypedScopes, TypedProc, TypedMode, TypedSlots, TypedRest PROVE Typed
  <2>1. TypeOK
    BY <1>2, <1>6, Zenon DEF TypeOK, TypedScopes, TypedProc, TypedMode, TypedSlots, Places
  <2>2. proc.number \in Nat
    BY <1>6 DEF TypedProc
  <2> QED
    BY <1>6, <2>1, <2>2, Zenon DEF Typed, TypedScopes, TypedProc, TypedRest, TypedUses
<1> QED
  BY <1>3, <1>4, <1>5, <1>6

LEMMA TypedPartsNext ==
  Typed' <=> TypedScopes' /\ TypedProc' /\ TypedMode' /\ TypedSlots' /\ TypedRest'
BY TypedParts, PTL

LEMMA AroundScopes ==
  ASSUME TypedScopes
  PROVE  /\ Around \in Seq(1..Len(scopes)) /\ Len(open) \in Nat /\ Len(Around) = Len(open) + 1
         /\ DOMAIN Around = 1..Len(open) + 1
         /\ Around[1] = 1
         /\ \A i \in 1..Len(open) : Around[i + 1] = open[i].block
         /\ Last(Around) = (IF open = <<>> THEN 1 ELSE Last(open).block)
         /\ Last(Around) \in 1..Len(scopes)
<1> DEFINE S == 1..Len(scopes)
<1>1. Len(scopes) \in Nat /\ 1 \in S /\ open \in Seq(Places(Len(scopes)))
  BY DEF TypedScopes
<1>4. \A e \in Places(Len(scopes)) : e.block \in S
  BY DEF Places
<1> HIDE DEF S
<1>2. /\ Around \in Seq(S) /\ Len(open) \in Nat /\ Len(Around) = Len(open) + 1
      /\ DOMAIN Around = 1..Len(open) + 1
      /\ Around[1] = 1
      /\ \A i \in 1..Len(open) : Around[i + 1] = open[i].block
      /\ Last(Around) = (IF open = <<>> THEN 1 ELSE Last(open).block)
  BY <1>1, <1>4, AroundOpen
<1>3. Last(Around) \in S
  BY <1>2 DEF Last
<1> QED
  BY <1>2, <1>3 DEF S

AroundOK ==
  /\ Around \in Seq(1..Len(scopes)) /\ Len(open) \in Nat /\ Len(Around) = Len(open) + 1
  /\ Around[1] = 1
  /\ \A i \in 1..Len(open) : Around[i + 1] = open[i].block

LEMMA AroundNext == TypedScopes' => AroundOK'
<1>1. TypedScopes => AroundOK
  BY AroundScopes DEF AroundOK
<1> QED
  BY <1>1, PTL

Base == Typed /\ Nested

\* what a step leaves alone that opens no block and closes none
Stays ==
  /\ UNCHANGED <<open, head, proc, frame>>
  /\ Len(scopes') = Len(scopes)
  /\ \A i \in 1..Len(scopes) : scopes'[i].parent = scopes[i].parent

LEMMA ChainKept ==
  ASSUME NEW B, NEW old, NEW new, IsChain(B, old),
         Len(old) \in Nat, Len(new) \in Nat, Len(new) >= Len(old),
         \A i \in 1..Len(old) : new[i].parent = old[i].parent
  PROVE  IsChain(B, new)
<1>1. B \in Seq(1..Len(new))
  BY DEF IsChain
<1>2. \A i \in 1..Len(B) : B[i] \in 1..Len(old)
  BY DEF IsChain
<1>3. ASSUME NEW i \in 1..Len(B) - 1 PROVE new[B[i + 1]].parent = B[i]
  <2>1. i + 1 \in 1..Len(B)
    <3>1. Len(B) \in Nat
      BY <1>1
    <3> QED
      BY <3>1
  <2>2. old[B[i + 1]].parent = B[i]
    BY DEF IsChain
  <2> QED
    BY <1>2, <2>1, <2>2
<1> QED
  BY <1>1, <1>3 DEF IsChain

LEMMA StaysNested ==
  ASSUME Base, Stays, Len(scopes) \in Nat,
         \/ mode' = mode
         \/ mode = "build" /\ mode' = "panic"
         \/ mode = "codegen" /\ mode' \in {"codegen", "done", "rejected"}
  PROVE  Nested'
<1>1. Around' = Around /\ \A kind : In(kind)' <=> In(kind)
  BY DEF Stays, Around, In
<1>2. InBlock' <=> InBlock
  BY <1>1 DEF InBlock
<1>3. IsChain(Around, scopes) => IsChain(Around, scopes)'
  BY <1>1, ChainKept DEF Stays
<1> QED
  BY <1>1, <1>2, <1>3 DEF Base, Nested, Stays

LEMMA StaysTyped ==
  ASSUME TypedScopes, Stays, scopes' \in Seq(ToSet(scopes'))
  PROVE  TypedScopes'
BY DEF TypedScopes, Stays

\* the current scope exists as long as the first walk goes on
LEMMA HeadExists ==
  ASSUME Base, mode \in {"build", "panic"}
  PROVE  /\ head \in 1..Len(scopes)
         /\ open = <<>> \/ InBlock => head = Last(Around)
<1>1. TypedScopes /\ Len(scopes) \in Nat /\ Len(scopes) > 0
  BY TypedParts DEF Base, TypedScopes
<1>2. CASE InBlock
  BY <1>1, <1>2, AroundScopes DEF Base, Nested
<1>3. CASE ~InBlock
  <2>1. head = 1
    BY <1>3 DEF Base, Nested
  <2> QED
    BY <1>1, <1>3, <2>1, AroundScopes
<1> QED
  BY <1>2, <1>3

LEMMA SymbolParts ==
  ASSUME NEW kind, NEW type, NEW offset
  PROVE  /\ Symbol(kind, type, offset).kind = kind
         /\ Symbol(kind, type, offset).type = type
         /\ Symbol(kind, type, offset).offset = offset
BY DEF Symbol

LEMMA DeclaredOK ==
  ASSUME Base, NEW n \in Names, NEW b \in Nat, NEW seen \in Nat, NEW sym,
         sym.kind \in SymbolKinds, sym.offset \in Nat
  PROVE  Declared(n, b, seen, sym) \in Decls
BY DEF Declared, Decls, Base, Typed

LEMMA DeclsAppended ==
  ASSUME Base, NEW d \in Decls, decls' = Append(decls, d), UNCHANGED <<uses, bound>>
  PROVE  TypedRest'
<1>1. decls \in Seq(Decls) /\ TypedRest
  BY TypedParts DEF Base, TypedRest
<1>2. decls' \in Seq(Decls)
  BY <1>1
<1> QED
  BY <1>1, <1>2 DEF TypedRest, TypedUses

\* the facts the walk's actions share
LEMMA InBuild ==
  ASSUME Base, NewNode
  PROVE  /\ TypedScopes /\ TypedProc /\ TypedMode /\ TypedSlots /\ TypedRest
         /\ mode = "build" /\ nodes \in Nat /\ nodes' \in 0..MaxNodes
         /\ head \in 1..Len(scopes) /\ Len(scopes) \in Nat
         /\ scopes \in Seq(ToSet(scopes))
         /\ Last(Around) \in Nat
<1>1. TypedScopes /\ TypedProc /\ TypedMode /\ TypedSlots /\ TypedRest
  BY TypedParts DEF Base
<1>2. mode = "build" /\ nodes \in Nat /\ nodes' \in 0..MaxNodes
  BY <1>1, LengthsAssumption DEF NewNode, TypedMode
<1> QED
  BY <1>1, <1>2, HeadExists, AroundScopes DEF TypedScopes

LEMMA TablePreBase == ASSUME Base, NEW n \in Names, TablePre(n) PROVE Base'
<1> DEFINE sym == Symbol("TABLE", Type("TABLE"), 0)
<1>1. /\ InsertSymbol(head, n, sym) /\ NewNode
      /\ decls' = Append(decls, Declared(n, Last(Around), nodes, sym))
      /\ UNCHANGED <<head, stack_size, open, proc, frame, uses, bound, mode, slots>>
  BY DEF TablePre
<1>2. sym.kind \in SymbolKinds /\ sym.offset \in Nat
  BY SymbolParts DEF SymbolKinds
<1> HIDE DEF sym
<1>3. Stays /\ scopes' \in Seq(ToSet(scopes')) /\ Len(scopes) \in Nat
  BY <1>1, InBuild, Inserted DEF Stays
<1>4. TypedRest'
  BY <1>1, <1>2, InBuild, DeclaredOK, DeclsAppended
<1>5. TypedMode' /\ TypedProc' /\ TypedSlots'
  BY <1>1, InBuild DEF TypedMode, TypedProc, TypedSlots
<1>6. TypedScopes' /\ Nested'
  BY <1>1, <1>3, StaysTyped, StaysNested, InBuild
<1> QED
  BY <1>4, <1>5, <1>6, TypedPartsNext DEF Base

LEMMA PanicBase ==
  ASSUME Base, mode = "build", Panic, nodes' \in 0..MaxNodes
  PROVE  Base'
<1>1. TypedScopes /\ TypedProc /\ TypedMode /\ TypedSlots /\ TypedRest
  BY TypedParts DEF Base
<1>2. Stays /\ scopes' \in Seq(ToSet(scopes')) /\ Len(scopes) \in Nat
  BY <1>1 DEF Panic, Stays, TypedScopes
<1>3. TypedScopes' /\ Nested'
  BY <1>1, <1>2, StaysTyped, StaysNested DEF Panic
<1>4. TypedProc' /\ TypedMode' /\ TypedSlots' /\ TypedRest'
  BY <1>1 DEF Panic, TypedProc, TypedMode, TypedSlots, TypedRest, TypedUses
<1> QED
  BY <1>3, <1>4, TypedPartsNext DEF Base

\* the slots a step may give out, as long as their bounds are numbers
LEMMA SlotAdded ==
  ASSUME TypedSlots, NEW p \in Nat, NEW low \in Nat, NEW high \in Nat,
         slots' = slots \cup {[proc |-> p, of |-> <<nodes, 0>>, low |-> low, high |-> high]}
  PROVE  TypedSlots'
BY DEF TypedSlots

LEMMA VarDeclBase == ASSUME Base, NEW n \in Names, NEW t \in Types, VarDecl(n, t) PROVE Base'
<1> DEFINE bytes == type_primitive_size(t.kind)
           size  == stack_size + align_16(bytes)
           sym   == Symbol("VARIABLE", t, size)
<1>1. /\ NewNode
      /\ \/ Panic
         \/ /\ stack_size' = size
            /\ InsertSymbol(head, n, sym)
            /\ slots' = slots \cup {[proc |-> proc.number, of |-> <<nodes, 0>>,
                                     low |-> size - bytes, high |-> size]}
            /\ decls' = Append(decls, Declared(n, Last(Around), nodes, sym))
            /\ UNCHANGED <<head, open, proc, frame, uses, bound, mode>>
  BY DEF VarDecl
<1>2. /\ stack_size \in Nat /\ size = stack_size + 16 /\ bytes \in {1, 4, 8}
      /\ proc.number \in Nat
  BY <1>1, InBuild, Sizes DEF TypedProc
<1>3. sym.kind \in SymbolKinds /\ sym.offset \in Nat
  BY <1>2, SymbolParts DEF SymbolKinds
<1> HIDE DEF sym, size, bytes
<1>4. CASE Panic
  BY <1>1, <1>4, InBuild, PanicBase
<1>5. CASE ~Panic
  <2>1. Stays /\ scopes' \in Seq(ToSet(scopes')) /\ Len(scopes) \in Nat
    BY <1>1, <1>5, InBuild, Inserted DEF Stays
  <2>2. TypedRest'
    BY <1>1, <1>3, <1>5, InBuild, DeclaredOK, DeclsAppended
  <2>3. TypedMode' /\ TypedProc'
    BY <1>1, <1>2, <1>5, InBuild DEF TypedMode, TypedProc
  <2>4. size - bytes \in Nat /\ size \in Nat
    BY <1>2
  <2>5. TypedSlots'
    BY <1>1, <1>2, <1>5, <2>4, InBuild, SlotAdded
  <2>6. TypedScopes' /\ Nested'
    BY <1>1, <1>5, <2>1, StaysTyped, StaysNested, InBuild
  <2> QED
    BY <2>2, <2>3, <2>5, <2>6, TypedPartsNext DEF Base
<1> QED
  BY <1>4, <1>5

LEMMA ArrayPreBase ==
  ASSUME Base, NEW t \in Types, NEW l \in ArrayLengths, ArrayPre(t, l)
  PROVE  Base'
<1> DEFINE bytes  == type_primitive_size(t.kind)
           offset == stack_size + align_16(bytes)
<1>1. /\ NewNode
      /\ \/ Panic
         \/ /\ stack_size' = stack_size + ArrayBytes(align_16(bytes), l)
            /\ slots' = slots \cup {[proc |-> proc.number, of |-> <<nodes, 0>>, low |-> offset,
                                     high |-> offset + l * bytes]}
            /\ UNCHANGED <<scopes, head, open, proc, frame, uses, bound, mode, decls>>
  BY DEF ArrayPre
<1>2. /\ stack_size \in Nat /\ offset = stack_size + 16 /\ bytes \in {1, 4, 8}
      /\ align_16(bytes) = 16 /\ proc.number \in Nat /\ l \in Nat
  BY <1>1, InBuild, Sizes, LengthsAssumption DEF TypedProc
<1> HIDE DEF offset, bytes
<1>4. CASE Panic
  BY <1>1, <1>4, InBuild, PanicBase
<1>5. CASE ~Panic
  <2>1. Stays /\ scopes' \in Seq(ToSet(scopes')) /\ Len(scopes) \in Nat
    BY <1>1, <1>5, InBuild DEF Stays
  <2>2. TypedRest'
    BY <1>1, <1>5, InBuild DEF TypedRest, TypedUses
  <2>3. ArrayBytes(16, l) = 16 * l + 16
    BY DEF ArrayBytes
  <2>4. stack_size' \in Nat
    BY <1>1, <1>2, <1>5, <2>3
  <2>5. TypedMode' /\ TypedProc'
    BY <1>1, <1>5, <2>4, InBuild DEF TypedMode, TypedProc
  <2>6. offset \in Nat /\ offset + l * bytes \in Nat
    BY <1>2
  <2>7. TypedSlots'
    BY <1>1, <1>2, <1>5, <2>6, InBuild, SlotAdded
  <2>8. TypedScopes' /\ Nested'
    BY <1>1, <1>5, <2>1, StaysTyped, StaysNested, InBuild
  <2> QED
    BY <2>2, <2>5, <2>7, <2>8, TypedPartsNext DEF Base
<1> QED
  BY <1>4, <1>5

LEMMA UseBase == ASSUME Base, NEW n \in Names, Use(n) PROVE Base'
<1> DEFINE u == [name |-> n, blocks |-> Around, proc |-> proc.number, seen |-> nodes]
<1>1. /\ NewNode /\ uses' = Append(uses, u)
      /\ UNCHANGED <<scopes, head, stack_size, open, proc, frame, bound, mode, slots, decls>>
  BY DEF Use
<1>2. Around \in Seq(Nat)
  <2>1. Around \in Seq(1..Len(scopes)) /\ 1..Len(scopes) \subseteq Nat
    BY <1>1, InBuild, AroundScopes
  <2> QED
    BY <2>1, SeqWider
<1>3. u \in [name : Names, blocks : Seq(Nat), proc : Nat, seen : Nat]
  BY <1>1, <1>2, InBuild DEF TypedProc
<1> HIDE DEF u
<1>4. uses \in Seq([name : Names, blocks : Seq(Nat), proc : Nat, seen : Nat])
  BY <1>1, InBuild DEF TypedRest, TypedUses
<1>5. uses' \in Seq([name : Names, blocks : Seq(Nat), proc : Nat, seen : Nat])
  BY <1>1, <1>3, <1>4
<1>6. TypedRest'
  BY <1>1, <1>5, InBuild DEF TypedRest, TypedUses
<1>7. TypedMode' /\ TypedProc' /\ TypedSlots'
  BY <1>1, InBuild DEF TypedMode, TypedProc, TypedSlots
<1>8. Stays /\ scopes' \in Seq(ToSet(scopes'))
  BY <1>1, InBuild DEF Stays
<1>9. TypedScopes' /\ Nested'
  BY <1>1, <1>8, StaysTyped, StaysNested, InBuild
<1> QED
  BY <1>6, <1>7, <1>9, TypedPartsNext DEF Base

\* one place is open
LEMMA OpenOne ==
  ASSUME NEW k \in {"proc_pre", "body", "block", "proc_post"}, NEW m \in Nat, NEW b \in 1..m,
         open' = <<[kind |-> k, block |-> b]>>
  PROVE  /\ open' \in Seq(Places(m)) /\ open' # <<>> /\ Len(open') = 1
         /\ open'[1].kind = k /\ open'[1].block = b
         /\ \A kind : In(kind)' <=> kind = k
<1> DEFINE e == [kind |-> k, block |-> b]
<1>1. e \in Places(m) /\ e.kind = k /\ e.block = b
  BY DEF Places
<1> HIDE DEF e
<1>2. open' = <<e>>
  BY DEF e
<1>3. open' \in Seq(Places(m)) /\ open' # <<>> /\ Len(open') = 1 /\ open'[1] = e
  BY <1>1, <1>2
<1>4. Last(open') = e
  BY <1>3 DEF Last
<1> QED
  BY <1>1, <1>3, <1>4 DEF In

LEMMA ProcPreBase ==
  ASSUME Base, NEW n \in Names, NEW t \in Signatures, NEW has_body \in BOOLEAN,
         ProcPre(n, t, has_body)
  PROVE  Base'
<1> DEFINE sym == Symbol("PROCEDURE", t, 0)
<1>1. /\ InsertSymbol(head, n, sym) /\ NewNode /\ open = <<>>
      /\ decls' = Append(decls, Declared(n, Last(Around), nodes, sym))
      /\ UNCHANGED <<head, frame, uses, bound, mode, slots>>
  BY DEF ProcPre
<1>2. sym.kind \in SymbolKinds /\ sym.offset \in Nat
  BY SymbolParts DEF SymbolKinds
<1> HIDE DEF sym
<1>3. /\ scopes' \in Seq(ToSet(scopes')) /\ Len(scopes) \in Nat /\ Len(scopes) > 0
      /\ Len(scopes') = Len(scopes)
      /\ \A i \in 1..Len(scopes) : scopes'[i].parent = scopes[i].parent
  BY <1>1, InBuild, Inserted DEF TypedScopes
<1>4. TypedRest'
  BY <1>1, <1>2, InBuild, DeclaredOK, DeclsAppended
<1>5. TypedMode' /\ TypedSlots'
  BY <1>1, InBuild DEF TypedMode, TypedSlots
<1>6. CASE UNCHANGED <<stack_size, open, proc>>
  <2>1. Stays
    BY <1>1, <1>3, <1>6 DEF Stays
  <2>2. TypedScopes' /\ Nested'
    BY <1>1, <1>3, <2>1, StaysTyped, StaysNested, InBuild
  <2>3. TypedProc'
    BY <1>1, <1>6, InBuild DEF TypedProc
  <2> QED
    BY <1>4, <1>5, <2>2, <2>3, TypedPartsNext DEF Base
<1>7. CASE /\ stack_size' = 0
           /\ open' = <<[kind |-> "proc_pre", block |-> 1]>>
           /\ proc' = [number |-> Len(frame) + 1, params |-> t.params,
                       body |-> Len(scopes) + 1, seen |-> nodes]
  <2>1. /\ open' \in Seq(Places(Len(scopes))) /\ open' # <<>> /\ Len(open') = 1
        /\ \A kind : In(kind)' <=> kind = "proc_pre"
    BY <1>3, <1>7, OpenOne
  <2>2. ~InBlock'
    BY <2>1 DEF InBlock
  <2>3. head = 1
    BY <1>1, InBuild, HeadExists, AroundScopes
  <2>4. TypedScopes'
    BY <1>1, <1>3, <2>1, InBuild DEF TypedScopes
  <2>5. /\ proc'.number = Len(frame) + 1 /\ proc'.params = t.params
        /\ proc'.body = Len(scopes) + 1 /\ proc'.seen = nodes
    BY <1>7
  <2>6. frame \in Seq(Nat) /\ Len(frame) \in Nat
    BY <1>1, InBuild DEF TypedProc
  <2>7. TypedProc'
    BY <1>1, <1>3, <1>7, <2>5, <2>6, InBuild DEF TypedProc
  <2>8. Nested'
    BY <1>1, <1>3, <2>1, <2>2, <2>3, <2>5, InBuild DEF Nested
  <2> QED
    BY <1>4, <1>5, <2>4, <2>7, <2>8, TypedPartsNext DEF Base
<1> QED
  BY <1>6, <1>7 DEF ProcPre

\* a scope for the block that begins
LEMMA Pushed ==
  ASSUME TypedScopes, Push
  PROVE  /\ scopes' \in Seq(ToSet(scopes')) /\ Len(scopes) \in Nat
         /\ Len(scopes') = Len(scopes) + 1
         /\ DOMAIN scopes = 1..Len(scopes) /\ DOMAIN scopes' = 1..Len(scopes) + 1
         /\ \A i \in 1..Len(scopes) : scopes'[i] = scopes[i]
         /\ scopes'[Len(scopes) + 1].parent = head
         /\ DOMAIN scopes'[Len(scopes) + 1].names = {}
<1> DEFINE e == [parent |-> head, names |-> [x \in {} |-> NoSymbol]]
<1>1. e.parent = head /\ DOMAIN e.names = {}
  OBVIOUS
<1>2. scopes' = Append(scopes, e)
  BY DEF Push
<1> HIDE DEF e
<1> QED
  BY <1>1, <1>2, Appended DEF TypedScopes

LEMMA BodyPreBase == ASSUME Base, BodyPre PROVE Base'
<1>1. /\ TypedScopes /\ TypedProc /\ TypedMode /\ TypedSlots /\ TypedRest
      /\ mode = "build" /\ Len(scopes) \in Nat /\ head = 1 /\ Len(scopes) > 0
      /\ proc.body = Len(scopes) + 1 /\ open # <<>>
  <2>1. In("proc_pre") /\ ~InBlock /\ mode = "build" /\ open # <<>>
    BY DEF BodyPre, In, InBlock
  <2> QED
    BY <2>1, TypedParts DEF Base, Nested, TypedScopes
<1> DEFINE m == Len(scopes) + 1
<1>2. /\ scopes' \in Seq(ToSet(scopes')) /\ Len(scopes') = m
      /\ \A i \in 1..Len(scopes) : scopes'[i] = scopes[i]
      /\ scopes'[m].parent = 1
  BY <1>1, Pushed DEF BodyPre
<1>3. /\ head' = m /\ open' = <<[kind |-> "body", block |-> m]>>
      /\ UNCHANGED <<stack_size, proc, frame, uses, bound, nodes, mode, slots, decls>>
  BY DEF BodyPre
<1>4. /\ open' \in Seq(Places(m)) /\ open' # <<>> /\ Len(open') = 1
      /\ open'[1].kind = "body" /\ open'[1].block = m
      /\ \A kind : In(kind)' <=> kind = "body"
  BY <1>1, <1>3, OpenOne
<1>5. TypedScopes'
  <2>1. \A i \in 1..m : i = m \/ i \in 1..Len(scopes)
    BY <1>1
  <2>2. m \in Nat /\ m > 1
    BY <1>1
  <2>3. \A i \in 1..m : scopes'[i].parent \in 0..i - 1
    BY <1>1, <1>2, <2>1, <2>2 DEF TypedScopes
  <2> HIDE DEF m
  <2> QED
    BY <1>2, <1>3, <1>4, <2>2, <2>3 DEF TypedScopes
<1> HIDE DEF m
<1>6. TypedProc' /\ TypedMode' /\ TypedSlots' /\ TypedRest'
  BY <1>1, <1>3 DEF TypedProc, TypedMode, TypedSlots, TypedRest, TypedUses
<1>7. /\ Around' \in Seq(1..m) /\ Len(Around') = 2 /\ Around'[1] = 1 /\ Around'[2] = m
      /\ Last(Around') = m
  <2>1. /\ Around' \in Seq(1..Len(scopes')) /\ Len(Around') = Len(open') + 1
        /\ Around'[1] = 1
        /\ \A i \in 1..Len(open') : Around'[i + 1] = open'[i].block
    BY <1>5, AroundNext DEF AroundOK
  <2>2. Around' \in Seq(1..m) /\ Len(Around') = 2 /\ Around'[1] = 1
    BY <1>2, <1>4, <2>1
  <2>3. Around'[2] = m
    <3>1. 1 \in 1..Len(open') /\ 1 + 1 = 2
      BY <1>4
    <3> QED
      BY <1>4, <2>1, <3>1
  <2> QED
    BY <2>2, <2>3 DEF Last
<1>8. IsChain(Around', scopes')
  <2>1. m > 1 /\ Around' # <<>>
    BY <1>1, <1>7 DEF m
  <2>2. \A i \in 1..Len(Around') - 1 : i = 1
    BY <1>7
  <2>3. \A i, j \in 1..Len(Around') : i < j => i = 1 /\ j = 2
    BY <1>7
  <2> QED
    BY <1>2, <1>7, <2>1, <2>2, <2>3 DEF IsChain
<1>9. Nested'
  <2>1. In("body")' /\ ~In("proc_pre")' /\ ~In("proc_post")' /\ InBlock'
    BY <1>4 DEF InBlock
  <2>2. proc.number = Len(frame) + 1 /\ proc.body = m
    BY <1>1 DEF Base, Nested, m
  <2> QED
    BY <1>1, <1>3, <1>4, <1>7, <1>8, <2>1, <2>2 DEF Nested
<1> QED
  BY <1>5, <1>6, <1>9, TypedPartsNext DEF Base

\* what holds inside a body
LEMMA InBody ==
  ASSUME Base, InBlock
  PROVE  /\ open # <<>> /\ Len(open) \in Nat /\ Len(open) > 0
         /\ open \in Seq(Places(Len(scopes)))
         /\ IsChain(Around, scopes) /\ head = Last(Around) /\ open[1].block = proc.body
         /\ open[1].kind = "body" /\ (\A i \in 2..Len(open) : open[i].kind = "block")
         /\ proc.number = Len(frame) + 1
         /\ (In("body") <=> Len(open) = 1)
         /\ ~In("proc_pre") /\ ~In("proc_post")
         /\ Len(Around) = Len(open) + 1
         /\ head = Around[Len(open) + 1] /\ Around[2] = proc.body
<1>1. open # <<>> /\ open \in Seq(Places(Len(scopes)))
  BY TypedParts DEF InBlock, In, Base, TypedScopes
<1>2. Len(open) \in Nat /\ Len(open) > 0
  BY <1>1
<1>3. /\ IsChain(Around, scopes) /\ head = Last(Around) /\ open[1].block = proc.body
      /\ open[1].kind = "body" /\ (\A i \in 2..Len(open) : open[i].kind = "block")
      /\ proc.number = Len(frame) + 1
  BY <1>1 DEF Base, Nested
<1>4. In("body") <=> Len(open) = 1
  <2>1. Last(open) = open[Len(open)]
    BY DEF Last
  <2>2. CASE Len(open) = 1
    BY <1>1, <1>3, <2>1, <2>2 DEF In
  <2>3. CASE Len(open) # 1
    <3>1. Len(open) \in 2..Len(open)
      <4>1. \A n \in Nat : n > 0 /\ n # 1 => n \in 2..n
        OBVIOUS
      <4> QED
        BY <1>2, <2>3, <4>1
    <3>2. Last(open).kind = "block"
      BY <1>3, <2>1, <3>1
    <3> QED
      BY <2>3, <3>2 DEF In
  <2> QED
    BY <2>2, <2>3
<1>5. ~In("proc_pre") /\ ~In("proc_post")
  BY DEF InBlock, In
<1>6. /\ Len(Around) = Len(open) + 1 /\ Around[1 + 1] = open[1].block
      /\ head = Around[Len(open) + 1]
  <2>1. 1 \in 1..Len(open)
    BY <1>2
  <2> QED
    BY <1>3, <2>1, TypedParts, AroundScopes DEF Base, Last
<1> QED
  BY <1>1, <1>2, <1>3, <1>4, <1>5, <1>6

LEMMA BlockPreBase == ASSUME Base, BlockPre PROVE Base'
<1> DEFINE m == Len(scopes) + 1
           n == Len(open)
           e == [kind |-> "block", block |-> m]
<1>1. /\ NewNode /\ InBlock /\ Push /\ head' = m /\ open' = Append(open, e)
      /\ UNCHANGED <<stack_size, proc, frame, uses, bound, mode, slots, decls>>
  BY DEF BlockPre
<1>2. /\ TypedScopes /\ TypedProc /\ TypedMode /\ TypedSlots /\ TypedRest
      /\ mode = "build" /\ Len(scopes) \in Nat /\ head \in 1..Len(scopes) /\ nodes' \in 0..MaxNodes
  BY <1>1, InBuild
<1>3. /\ scopes' \in Seq(ToSet(scopes')) /\ Len(scopes') = m
      /\ \A i \in 1..Len(scopes) : scopes'[i] = scopes[i]
      /\ scopes'[m].parent = head
  BY <1>1, <1>2, Pushed
<1>4. e \in Places(m) /\ e.kind = "block" /\ e.block = m
  BY <1>2 DEF Places
<1> HIDE DEF e
<1>5. /\ open \in Seq(Places(m)) /\ n \in Nat /\ n > 0
  <2>1. Places(Len(scopes)) \subseteq Places(m)
    BY <1>2 DEF Places
  <2> QED
    BY <1>1, <2>1, InBody, SeqWider
<1>6. /\ open' \in Seq(Places(m)) /\ Len(open') = n + 1 /\ open' # <<>>
      /\ (\A i \in 1..n : open'[i] = open[i]) /\ open'[n + 1] = e
  BY <1>1, <1>4, <1>5
<1>7. TypedScopes'
  <2>1. \A i \in 1..m : i = m \/ i \in 1..Len(scopes)
    BY <1>2
  <2>2. m \in Nat /\ m > 1
    BY <1>2
  <2>3. ASSUME NEW i \in 1..m PROVE scopes'[i].parent \in 0..i - 1
    <3>1. CASE i = m
      <4>1. head \in 0..m - 1
        BY <1>2, <2>2 DEF TypedScopes
      <4> QED
        BY <1>3, <3>1, <4>1
    <3>2. CASE i \in 1..Len(scopes)
      BY <1>2, <1>3, <3>2 DEF TypedScopes
    <3> QED
      BY <2>1, <3>1, <3>2
  <2> HIDE DEF m
  <2> QED
    BY <1>1, <1>3, <1>6, <2>2, <2>3 DEF TypedScopes
<1> HIDE DEF m
<1>8. TypedProc' /\ TypedMode' /\ TypedSlots' /\ TypedRest'
  BY <1>1, <1>2 DEF TypedProc, TypedMode, TypedSlots, TypedRest, TypedUses
<1>9. /\ Around' \in Seq(1..m) /\ Len(Around') = n + 2 /\ Len(Around) = n + 1
      /\ (\A i \in 1..n + 1 : Around'[i] = Around[i]) /\ Around'[n + 2] = m
      /\ Last(Around') = m
  <2>1. /\ Around' \in Seq(1..m) /\ Len(Around') = (n + 1) + 1 /\ Around'[1] = 1
        /\ \A i \in 1..n + 1 : Around'[i + 1] = open'[i].block
    BY <1>3, <1>6, <1>7, AroundNext DEF AroundOK
  <2>2. Around[1] = 1 /\ Len(Around) = n + 1 /\ \A i \in 1..n : Around[i + 1] = open[i].block
    BY <1>2, AroundScopes
  <2>3. ASSUME NEW i \in 1..n + 1 PROVE Around'[i] = Around[i]
    <3>1. CASE i = 1
      BY <2>1, <2>2, <3>1
    <3>2. CASE i # 1
      <4>1. i - 1 \in 1..n /\ i - 1 \in 1..n + 1 /\ (i - 1) + 1 = i
        BY <1>5, <3>2
      <4> QED
        BY <1>6, <2>1, <2>2, <4>1
    <3> QED
      BY <3>1, <3>2
  <2>4. Around'[n + 2] = m
    <3>1. n + 1 \in 1..n + 1 /\ (n + 1) + 1 = n + 2
      BY <1>5
    <3> QED
      BY <1>4, <1>6, <2>1, <3>1
  <2>5. (n + 1) + 1 = n + 2
    BY <1>5
  <2> QED
    BY <2>1, <2>2, <2>3, <2>4, <2>5 DEF Last
<1>10. IsChain(Around', scopes')
  <2>1. IsChain(Around, scopes) /\ head = Around[n + 1]
    BY <1>1, InBody
  <2>2. \A i \in 1..n + 1 : Around[i] \in 1..Len(scopes)
    BY <1>9, <2>1 DEF IsChain
  <2>3. ASSUME NEW i \in 1..Len(Around') - 1 PROVE scopes'[Around'[i + 1]].parent = Around'[i]
    <3>1. CASE i = n + 1
      <4>1. i + 1 = n + 2 /\ i \in 1..n + 1
        BY <1>5, <3>1
      <4> QED
        BY <1>3, <1>9, <2>1, <3>1, <4>1
    <3>2. CASE i # n + 1
      <4>1. i \in 1..Len(Around) - 1 /\ i \in 1..n + 1 /\ i + 1 \in 1..n + 1
        BY <1>5, <1>9, <3>2
      <4> QED
        BY <1>3, <1>9, <2>1, <2>2, <4>1 DEF IsChain
    <3> QED
      BY <3>1, <3>2
  <2>4. ASSUME NEW i \in 1..Len(Around'), NEW j \in 1..Len(Around'), i < j
        PROVE  Around'[i] < Around'[j]
    <3>1. i \in 1..n + 1
      BY <1>5, <1>9, <2>4
    <3>2. CASE j = n + 2
      BY <1>2, <1>9, <2>2, <3>1, <3>2 DEF m
    <3>3. CASE j # n + 2
      <4>1. j \in 1..n + 1 /\ j \in 1..Len(Around) /\ i \in 1..Len(Around)
        BY <1>5, <1>9, <3>1, <3>3
      <4> QED
        BY <1>9, <2>1, <2>4, <3>1, <4>1 DEF IsChain
    <3> QED
      BY <3>2, <3>3
  <2>5. Around' # <<>> /\ Around'[1] = 1 /\ Around' \in Seq(1..Len(scopes'))
    <3>1. 1 \in 1..n + 1 /\ n + 2 # 0
      BY <1>5
    <3> QED
      BY <1>3, <1>9, <2>1, <3>1 DEF IsChain
  <2> QED
    BY <2>3, <2>4, <2>5 DEF IsChain
<1>11. Nested'
  <2>1. In("block")' /\ ~In("proc_pre")' /\ ~In("proc_post")' /\ InBlock'
    <3>1. Last(open') = e
      BY <1>6 DEF Last
    <3> QED
      BY <1>4, <1>6, <3>1 DEF In, InBlock
  <2>2. /\ open'[1].block = proc.body /\ open'[1].kind = "body"
        /\ \A i \in 2..Len(open') : open'[i].kind = "block"
    <3>1. \A i \in 2..n + 1 : i \in 2..n \/ i = n + 1
      BY <1>5
    <3>2. 1 \in 1..n /\ \A i \in 2..n : i \in 1..n
      BY <1>5
    <3> QED
      BY <1>1, <1>4, <1>6, <3>1, <3>2, InBody
  <2>3. proc.number = Len(frame) + 1
    BY <1>1, InBody
  <2> QED
    BY <1>1, <1>2, <1>6, <1>9, <1>10, <2>1, <2>2, <2>3 DEF Nested
<1> QED
  BY <1>7, <1>8, <1>11, TypedPartsNext DEF Base

LEMMA BlockPostBase == ASSUME Base, BlockPost PROVE Base'
<1> DEFINE n == Len(open)
<1>1. /\ InBlock /\ mode = "build" /\ head' = scopes[head].parent
      /\ open' = IF In("body") THEN <<[kind |-> "proc_post", block |-> 1]>> ELSE Front(open)
      /\ UNCHANGED <<scopes, stack_size, proc, frame, uses, bound, nodes, mode, slots, decls>>
  BY DEF BlockPost, Pop
<1>2. /\ TypedScopes /\ TypedProc /\ TypedMode /\ TypedSlots /\ TypedRest
      /\ Len(scopes) \in Nat /\ Len(scopes) > 0 /\ head \in 1..Len(scopes)
  BY <1>1, TypedParts, HeadExists DEF Base, TypedScopes
<1>3. /\ n \in Nat /\ n > 0 /\ open \in Seq(Places(Len(scopes)))
      /\ IsChain(Around, scopes) /\ open[1].block = proc.body /\ open[1].kind = "body"
      /\ (\A i \in 2..n : open[i].kind = "block") /\ proc.number = Len(frame) + 1
      /\ (In("body") <=> n = 1) /\ Len(Around) = n + 1 /\ head = Around[n + 1]
      /\ Around[2] = proc.body
  BY <1>1, InBody
<1> HIDE DEF n
<1>4. head' = Around[n]
  <2>1. n \in 1..Len(Around) - 1
    BY <1>3
  <2> QED
    BY <1>1, <1>3, <2>1 DEF IsChain
<1>5. head' \in 0..Len(scopes)
  <2>1. n \in 1..Len(Around)
    BY <1>3
  <2> QED
    BY <1>3, <1>4, <2>1 DEF IsChain
<1>6. TypedProc' /\ TypedMode' /\ TypedSlots' /\ TypedRest'
  BY <1>1, <1>2 DEF TypedProc, TypedMode, TypedSlots, TypedRest, TypedUses
<1>7. CASE In("body")
  <2>1. /\ open' \in Seq(Places(Len(scopes))) /\ open' # <<>> /\ Len(open') = 1
        /\ \A kind : In(kind)' <=> kind = "proc_post"
    BY <1>1, <1>2, <1>7, OpenOne
  <2>2. TypedScopes'
    BY <1>1, <1>2, <1>5, <2>1 DEF TypedScopes
  <2>3. head' = 1 /\ proc.body \in 2..Len(scopes)
    <3>1. n = 1 /\ Len(Around) = 2 /\ Around[1] = 1 /\ Around \in Seq(1..Len(scopes))
      BY <1>3, <1>7 DEF IsChain
    <3>2. Around[1] < Around[2]
      <4>1. \A i, j \in 1..2 : i < j => Around[i] < Around[j]
        BY <1>3, <3>1 DEF IsChain
      <4> QED
        BY <4>1
    <3>3. Around[2] \in 1..Len(scopes)
      <4>1. 2 \in 1..Len(Around)
        BY <3>1
      <4> QED
        BY <3>1, <4>1, ElementOf
    <3> QED
      BY <1>2, <1>3, <1>4, <3>1, <3>2, <3>3
  <2>4. Nested'
    BY <1>1, <1>3, <2>1, <2>3 DEF Nested, InBlock
  <2> QED
    BY <1>6, <2>2, <2>4, TypedPartsNext DEF Base
<1>8. CASE ~In("body")
  <2>1. n \in Nat /\ n - 1 \in Nat /\ n - 1 > 0 /\ n > 1 /\ (n - 1) + 1 = n
    BY <1>3, <1>8
  <2>2. /\ open' \in Seq(Places(Len(scopes))) /\ Len(open') = n - 1 /\ open' # <<>>
        /\ \A i \in 1..n - 1 : open'[i] = open[i]
    <3>1. open' = SubSeq(open, 1, n - 1) /\ Len(open) = n
      BY <1>1, <1>8 DEF Front, n
    <3>2. open \in Seq(Places(Len(scopes)))
      BY <1>2 DEF TypedScopes
    <3>3. /\ open' \in Seq(Places(Len(scopes))) /\ Len(open') = n - 1
          /\ \A i \in 1..n - 1 : open'[i] = open[i]
      <4>1. n - 1 <= Len(open)
        BY <2>1, <3>1
      <4> QED
        BY <2>1, <3>1, <3>2, <4>1, Shortened
    <3> QED
      BY <2>1, <3>3
  <2>3. TypedScopes'
    BY <1>1, <1>2, <1>5, <2>2 DEF TypedScopes
  <2>4. /\ Around' \in Seq(1..Len(scopes)) /\ Len(Around') = n
        /\ \A i \in 1..n : Around'[i] = Around[i]
    <3>1. /\ Around' \in Seq(1..Len(scopes')) /\ Len(Around') = (n - 1) + 1 /\ Around'[1] = 1
          /\ \A i \in 1..n - 1 : Around'[i + 1] = open'[i].block
      BY <2>2, <2>3, AroundNext DEF AroundOK
    <3>2. Around[1] = 1 /\ \A i \in 1..n : Around[i + 1] = open[i].block
      BY <1>2, AroundScopes DEF n
    <3>3. ASSUME NEW i \in 1..n PROVE Around'[i] = Around[i]
      <4>1. CASE i = 1
        BY <3>1, <3>2, <4>1
      <4>2. CASE i # 1
        <5>1. i - 1 \in 1..n - 1 /\ i - 1 \in 1..n /\ (i - 1) + 1 = i
          BY <1>3, <4>2
        <5> QED
          BY <2>2, <3>1, <3>2, <5>1
      <4> QED
        BY <4>1, <4>2
    <3> QED
      BY <1>1, <2>1, <3>1, <3>3
  <2>5. IsChain(Around', scopes')
    <3>1. Around' # <<>> /\ 1 \in 1..n
      BY <2>1, <2>4
    <3>2. \A i \in 1..n : i \in 1..Len(Around)
      BY <1>3
    <3>3. \A i \in 1..n - 1 : i \in 1..Len(Around) - 1 /\ i \in 1..n /\ i + 1 \in 1..n
      BY <1>3
    <3> QED
      BY <1>1, <1>3, <2>4, <3>1, <3>2, <3>3 DEF IsChain
  <2>6. head' = Last(Around')
    BY <1>3, <1>4, <2>1, <2>4 DEF Last
  <2>7. /\ open'[1].block = proc.body /\ open'[1].kind = "body"
        /\ \A i \in 2..Len(open') : open'[i].kind = "block"
    <3>1. 1 \in 1..n - 1 /\ \A i \in 2..n - 1 : i \in 1..n - 1 /\ i \in 2..n
      BY <2>1
    <3> QED
      BY <1>3, <2>2, <3>1
  <2>8. InBlock' /\ ~In("proc_pre")' /\ ~In("proc_post")'
    <3>1. Last(open') = open'[n - 1] /\ (n - 1 = 1 \/ n - 1 \in 2..n - 1)
      BY <2>1, <2>2 DEF Last
    <3>2. Last(open').kind = "body" \/ Last(open').kind = "block"
      BY <2>2, <2>7, <3>1
    <3> QED
      BY <2>2, <3>2 DEF InBlock, In
  <2>9. Nested'
    BY <1>1, <1>3, <2>2, <2>5, <2>6, <2>7, <2>8 DEF Nested
  <2> QED
    BY <1>6, <2>3, <2>9, TypedPartsNext DEF Base
<1> QED
  BY <1>7, <1>8

\* places lie one behind the other, from the end of the locals on
LEMMA TopsGrow ==
  ASSUME stack_size \in Nat, NEW params, Len(params) \in Nat
  PROVE  \A j \in 0..Len(params) :
           /\ ParamTop(params, j) \in Nat /\ stack_size <= ParamTop(params, j)
           /\ \A i \in 0..j : ParamTop(params, i) <= ParamTop(params, j)
<1> DEFINE n == Len(params)
           top(j) == ParamTop(params, j)
           Good(j) == top(j) \in Nat /\ stack_size <= top(j)
                      /\ \A i \in 0..j : top(i) \in Nat /\ top(i) <= top(j)
           S == {j \in 0..n : Good(j)}
<1>1. n \in Nat /\ top(0) = stack_size
  BY ParamTops
<1>2. \A j \in 1..n : top(j - 1) \in Nat => top(j) \in Nat /\ top(j - 1) <= top(j)
  BY ParamTops, Sizes
<1> HIDE DEF n, top
<1>3. 0 \in S
  BY <1>1
<1>4. ASSUME NEW j \in 0..n - 1, j \in S PROVE j + 1 \in S
  <2>1. j + 1 \in 1..n /\ j + 1 \in 0..n /\ (j + 1) - 1 = j /\ j \in Nat
    BY <1>1
  <2>2. top(j + 1) \in Nat /\ top(j) <= top(j + 1) /\ Good(j)
    BY <1>2, <1>4, <2>1
  <2>3. \A i \in 0..j + 1 : i \in 0..j \/ i = j + 1
    BY <2>1
  <2>4. Good(j + 1)
    <3>1. ASSUME NEW i \in 0..j + 1 PROVE top(i) \in Nat /\ top(i) <= top(j + 1)
      <4>1. CASE i = j + 1
        BY <2>2, <4>1
      <4>2. CASE i \in 0..j
        BY <2>2, <4>2
      <4> QED
        BY <2>3, <4>1, <4>2
    <3> QED
      BY <2>2, <3>1
  <2> QED
    BY <2>1, <2>4
<1> HIDE DEF S
<1>5. 0..n \subseteq S
  BY <1>1, <1>3, <1>4, IntervalInduction
<1> QED
  BY <1>5 DEF S, n, top

LEMMA ParamsOK ==
  ASSUME TypedProc
  PROVE  /\ Len(proc.params) \in Nat /\ DOMAIN proc.params = 1..Len(proc.params)
         /\ \A i \in 1..Len(proc.params) : proc.params[i].ident \in Names
<1>1. CASE proc.params = <<>>
  BY <1>1
<1>2. CASE proc.params # <<>>
  <2>1. PICK t \in Signatures : proc.params = t.params
    BY <1>2 DEF TypedProc
  <2>2. /\ t.params \in Seq(ToSet(t.params))
        /\ \A i \in DOMAIN t.params : t.params[i].ident \in Names
    BY SignaturesAssumption
  <2> QED
    BY <2>1, <2>2
<1> QED
  BY <1>1, <1>2

\* the parameters enter the scope of the body
LEMMA ParamsInserted ==
  ASSUME TypedScopes, proc.body \in 1..Len(scopes),
         scopes' = [scopes EXCEPT ![proc.body].names = WithParams(@)]
  PROVE  /\ scopes' \in Seq(ToSet(scopes')) /\ Len(scopes') = Len(scopes) /\ Len(scopes) \in Nat
         /\ DOMAIN scopes = 1..Len(scopes) /\ DOMAIN scopes' = 1..Len(scopes)
         /\ \A i \in 1..Len(scopes) : scopes'[i].parent = scopes[i].parent
         /\ \A i \in 1..Len(scopes) : i # proc.body => scopes'[i] = scopes[i]
         /\ scopes'[proc.body].names = WithParams(scopes[proc.body].names)
<1> DEFINE e == [scopes[proc.body] EXCEPT !.names = WithParams(scopes[proc.body].names)]
<1>1. scopes' = [scopes EXCEPT ![proc.body] = e]
  OBVIOUS
<1>2. e.parent = scopes[proc.body].parent /\ e.names = WithParams(scopes[proc.body].names)
  OBVIOUS
<1> HIDE DEF e
<1>3. scopes \in Seq(ToSet(scopes))
  BY DEF TypedScopes
<1>4. /\ [scopes EXCEPT ![proc.body] = e] \in Seq(ToSet([scopes EXCEPT ![proc.body] = e]))
      /\ Len(scopes) \in Nat /\ Len([scopes EXCEPT ![proc.body] = e]) = Len(scopes)
      /\ DOMAIN scopes = 1..Len(scopes)
      /\ DOMAIN [scopes EXCEPT ![proc.body] = e] = 1..Len(scopes)
      /\ \A j \in 1..Len(scopes) :
           j # proc.body => [scopes EXCEPT ![proc.body] = e][j] = scopes[j]
      /\ [scopes EXCEPT ![proc.body] = e][proc.body] = e
  BY <1>3, Updated
<1>5. /\ scopes' \in Seq(ToSet(scopes'))
      /\ Len(scopes) \in Nat /\ Len(scopes') = Len(scopes)
      /\ DOMAIN scopes = 1..Len(scopes) /\ DOMAIN scopes' = 1..Len(scopes)
      /\ \A j \in 1..Len(scopes) : j # proc.body => scopes'[j] = scopes[j]
      /\ scopes'[proc.body] = e
  BY <1>1, <1>4, Zenon
<1>6. \A j \in 1..Len(scopes) : scopes'[j].parent = scopes[j].parent
  <2>1. ASSUME NEW j \in 1..Len(scopes) PROVE scopes'[j].parent = scopes[j].parent
    BY <1>2, <1>5
  <2> QED
    BY <2>1
<1> QED
  BY <1>2, <1>5, <1>6

LEMMA ProcPostBase == ASSUME Base, ProcPost PROVE Base'
<1> DEFINE n == Len(proc.params)
<1>1. /\ TypedScopes /\ TypedProc /\ TypedMode /\ TypedSlots /\ TypedRest
      /\ mode = "build" /\ In("proc_post") /\ head = 1 /\ proc.body \in 2..Len(scopes)
      /\ proc.number = Len(frame) + 1 /\ Len(scopes) \in Nat /\ Len(scopes) > 0
  <2>1. In("proc_post") /\ ~InBlock /\ mode = "build" /\ open # <<>>
    BY DEF ProcPost, In, InBlock
  <2> QED
    BY <2>1, TypedParts DEF Base, Nested, TypedScopes
<1>2. CASE Panic /\ UNCHANGED nodes
  BY <1>1, <1>2, PanicBase DEF TypedMode
<1>3. CASE ~(Panic /\ UNCHANGED nodes)
  <2>1. /\ scopes' = [scopes EXCEPT ![proc.body].names = WithParams(@)]
        /\ stack_size' = ParamTop(proc.params, n)
        /\ frame' = Append(frame, stack_size')
        /\ open' = <<>>
        /\ slots' = slots \cup
             {[proc |-> proc.number, of |-> <<proc.seen, i>>, high |-> ParamTop(proc.params, i),
               low |-> ParamTop(proc.params, i) - type_primitive_size(proc.params[i].type.kind)]
              : i \in DOMAIN proc.params}
        /\ decls' = decls \o
             [i \in DOMAIN proc.params |->
                Declared(proc.params[i].ident, proc.body, proc.seen, ParamSymbol(i))]
        /\ UNCHANGED <<head, proc, uses, bound, nodes, mode>>
    BY <1>3 DEF ProcPost
  <2>2. /\ n \in Nat /\ DOMAIN proc.params = 1..n
        /\ \A i \in 1..n : proc.params[i].ident \in Names
    BY <1>1, ParamsOK
  <2>3. /\ stack_size \in Nat /\ proc.number \in Nat /\ proc.seen \in Nat
        /\ frame \in Seq(Nat) /\ Len(frame) \in Nat
    BY <1>1 DEF TypedProc
  <2>4. \A i \in 1..n : /\ ParamTop(proc.params, i) \in Nat
                        /\ ParamTop(proc.params, i) - type_primitive_size(proc.params[i].type.kind)
                             \in Nat
    <3>1. ASSUME NEW i \in 1..n
          PROVE  /\ ParamTop(proc.params, i) \in Nat
                 /\ ParamTop(proc.params, i) - type_primitive_size(proc.params[i].type.kind)
                      = ParamTop(proc.params, i - 1)
                 /\ ParamTop(proc.params, i - 1) \in Nat
      <4> DEFINE size == type_primitive_size(proc.params[i].type.kind)
      <4>1. i \in 0..n /\ i - 1 \in 0..n
        BY <2>2
      <4>2. ParamTop(proc.params, i) \in Nat /\ ParamTop(proc.params, i - 1) \in Nat
        BY <2>2, <2>3, <4>1, TopsGrow
      <4>3. ParamTop(proc.params, i) = ParamTop(proc.params, i - 1) + size /\ size \in {1, 4, 8}
        BY <2>2, ParamTops, Sizes
      <4> HIDE DEF size
      <4>4. ParamTop(proc.params, i) - size = ParamTop(proc.params, i - 1)
        BY <4>2, <4>3
      <4> QED
        BY <4>2, <4>4 DEF size
    <3> QED
      BY <3>1
  <2>5. stack_size' \in Nat /\ frame' \in Seq(Nat) /\ Len(frame') = Len(frame) + 1
    <3>1. n \in 0..n
      BY <2>2
    <3>2. stack_size' \in Nat
      BY <2>1, <2>2, <2>3, <3>1, TopsGrow
    <3> QED
      BY <2>1, <2>3, <3>2
  <2>6. TypedProc'
    <3>1. proc' = proc
      BY <2>1
    <3>2. proc.number \in 0..Len(frame') + 1
      <4>1. proc.number \in 0..Len(frame) + 1
        BY <1>1 DEF TypedProc
      <4> QED
        BY <2>3, <2>5, <4>1
    <3> QED
      BY <1>1, <2>5, <3>1, <3>2 DEF TypedProc
  <2>7. TypedMode' /\ TypedSlots'
    BY <1>1, <2>1, <2>2, <2>3, <2>4 DEF TypedMode, TypedSlots
  <2>8. /\ scopes' \in Seq(ToSet(scopes')) /\ Len(scopes') = Len(scopes)
        /\ \A i \in 1..Len(scopes) : scopes'[i].parent = scopes[i].parent
    BY <1>1, <2>1, ParamsInserted
  <2>9. TypedScopes'
    <3>1. open' \in Seq(Places(Len(scopes')))
      BY <2>1
    <3> QED
      BY <1>1, <2>1, <2>8, <3>1 DEF TypedScopes
  <2>10. TypedRest'
    <3> DEFINE d(i) == Declared(proc.params[i].ident, proc.body, proc.seen, ParamSymbol(i))
               new == [i \in 1..n |-> d(i)]
    <3>1. ASSUME NEW i \in 1..n PROVE d(i) \in Decls
      <4>1. ParamSymbol(i).kind \in SymbolKinds /\ ParamSymbol(i).offset \in Nat
        BY <2>4, SymbolParts DEF ParamSymbol, SymbolKinds
      <4>2. proc.body \in Nat /\ proc.params[i].ident \in Names
        BY <1>1, <2>2
      <4> QED
        BY <2>3, <4>1, <4>2, DeclaredOK
    <3>2. decls' = decls \o new
      BY <2>1, <2>2
    <3> HIDE DEF d
    <3>3. new \in Seq(Decls)
      BY <2>2, <3>1
    <3> HIDE DEF new
    <3>4. decls' \in Seq(Decls)
      BY <1>1, <3>2, <3>3 DEF TypedRest
    <3> QED
      BY <1>1, <2>1, <3>4 DEF TypedRest, TypedUses
  <2>11. Nested'
    BY <1>1, <2>1 DEF Nested, In, InBlock
  <2> QED
    BY <2>6, <2>7, <2>9, <2>10, <2>11, TypedPartsNext DEF Base
<1> QED
  BY <1>2, <1>3

LEMMA BuildEndBase == ASSUME Base, BuildEnd PROVE Base'
<1>1. /\ mode = "build" /\ open = <<>> /\ head' = scopes[head].parent /\ mode' = "codegen"
      /\ UNCHANGED <<scopes, stack_size, open, proc, frame, uses, bound, nodes, slots, decls>>
  BY DEF BuildEnd, Pop
<1>2. /\ TypedScopes /\ TypedProc /\ TypedMode /\ TypedSlots /\ TypedRest
      /\ head \in 1..Len(scopes) /\ Len(scopes) \in Nat
  BY <1>1, TypedParts, HeadExists DEF Base, TypedScopes
<1>3. head' \in 0..Len(scopes)
  BY <1>1, <1>2 DEF TypedScopes
<1>4. TypedScopes' /\ TypedProc' /\ TypedMode' /\ TypedSlots' /\ TypedRest'
  BY <1>1, <1>2, <1>3
    DEF TypedScopes, TypedProc, TypedMode, TypedSlots, TypedRest, TypedUses
<1>5. Nested'
  BY <1>1 DEF Nested, In, InBlock
<1> QED
  BY <1>4, <1>5, TypedPartsNext DEF Base

LEMMA LookedUp ==
  ASSUME Base, LiteralIdent
  PROVE  /\ mode = "codegen" /\ bound' \in Seq(ToSet(bound')) /\ Len(bound) \in Nat
         /\ Len(bound) < Len(uses) /\ Len(bound') = Len(bound) + 1
         /\ DOMAIN bound = 1..Len(bound) /\ DOMAIN bound' = 1..Len(bound) + 1
         /\ \A i \in 1..Len(bound) : bound'[i] = bound[i]
         /\ bound'[Len(bound) + 1]
              = Lookup(Last(uses[Len(bound) + 1].blocks), uses[Len(bound) + 1].name)
         /\ mode' \in {"codegen", "rejected"}
         /\ UNCHANGED <<scopes, head, stack_size, open, proc, frame, uses, nodes, slots, decls>>
<1> DEFINE sym == Lookup(Last(uses[Len(bound) + 1].blocks), uses[Len(bound) + 1].name)
<1>1. /\ mode = "codegen" /\ Len(bound) < Len(uses) /\ bound' = Append(bound, sym)
      /\ mode' \in {"codegen", "rejected"}
      /\ UNCHANGED <<scopes, head, stack_size, open, proc, frame, uses, nodes, slots, decls>>
  BY DEF LiteralIdent
<1> HIDE DEF sym
<1>2. bound \in Seq(ToSet(bound))
  BY DEF Base, Typed
<1> QED
  BY <1>1, <1>2, Appended DEF sym

LEMMA CodegenBase == ASSUME Base, LiteralIdent \/ CodegenEnd \/ UNCHANGED vars PROVE Base'
<1>1. /\ TypedScopes /\ TypedProc /\ TypedMode /\ TypedSlots /\ TypedRest
      /\ scopes \in Seq(ToSet(scopes)) /\ Len(scopes) \in Nat
  BY TypedParts DEF Base, TypedScopes
<1>2. /\ UNCHANGED <<scopes, head, stack_size, open, proc, frame, uses, nodes, slots, decls>>
      /\ bound' \in Seq(ToSet(bound'))
      /\ \/ mode' = mode
         \/ mode = "codegen" /\ mode' \in {"codegen", "done", "rejected"}
  <2>1. CASE LiteralIdent
    BY <2>1, LookedUp
  <2>2. CASE CodegenEnd \/ UNCHANGED vars
    BY <1>1, <2>2 DEF CodegenEnd, vars, TypedRest
  <2> QED
    BY <2>1, <2>2
<1>3. Stays
  BY <1>2 DEF Stays
<1>4. TypedScopes' /\ Nested'
  BY <1>1, <1>2, <1>3, StaysTyped, StaysNested
<1>5. TypedProc' /\ TypedMode' /\ TypedSlots' /\ TypedRest'
  BY <1>1, <1>2 DEF TypedProc, TypedMode, TypedSlots, TypedRest, TypedUses
<1> QED
  BY <1>4, <1>5, TypedPartsNext DEF Base

LEMMA InitBase == Init => Base
<1> SUFFICES ASSUME Init PROVE Base
  OBVIOUS
<1> DEFINE e == [parent |-> 0, names |-> [n \in {} |-> NoSymbol]]
<1>1. e.parent = 0
  OBVIOUS
<1>2. scopes = <<e>>
  BY DEF Init
<1> HIDE DEF e
<1>3. scopes \in Seq(ToSet(scopes)) /\ Len(scopes) = 1 /\ scopes[1] = e
  BY <1>2, ToSetOf
<1>4. TypedScopes
  BY <1>1, <1>3 DEF Init, TypedScopes
<1>5. TypedProc
  BY DEF Init, TypedProc, NoProc
<1>6. TypedMode /\ TypedSlots /\ TypedRest
  BY LengthsAssumption DEF Init, TypedMode, TypedSlots, TypedRest, TypedUses
<1>7. Nested
  BY DEF Init, Nested, In, InBlock
<1> QED
  BY <1>4, <1>5, <1>6, <1>7, TypedParts DEF Base

LEMMA NextBase == Base /\ [Next]_vars => Base'
<1> SUFFICES ASSUME Base, [Next]_vars PROVE Base'
  OBVIOUS
<1>1. CASE Build
  BY <1>1, TablePreBase, UseBase, VarDeclBase, ProcPreBase, ArrayPreBase, BodyPreBase,
     BlockPreBase, BlockPostBase, ProcPostBase, BuildEndBase DEF Build
<1>2. CASE LiteralIdent \/ CodegenEnd \/ Terminated \/ UNCHANGED vars
  BY <1>2, CodegenBase DEF Terminated
<1> QED
  BY <1>1, <1>2 DEF Next

LEMMA BaseAlways == Spec => []Base
BY InitBase, NextBase, PTL DEF Spec

\* The walk keeps its scopes a tree whose parents come first, and the current scope
\* one of them; places, sizes and numbers stay what their types say.
THEOREM TypeCorrect == Spec => []TypeOK
<1>1. Base => TypeOK
  BY DEF Base, Typed
<1> QED
  BY <1>1, BaseAlways, PTL

-----------------------------------------------------------------------------
(* Frames                                                                  *)

SlotsPlaced ==
  \A s \in slots :
    /\ s.low <= s.high /\ s.high <= FrameOf(s.proc)
    /\ s.proc \in 1..Len(frame) + 1 /\ (open = <<>> => s.proc <= Len(frame))

LEMMA FramedParts == Framed <=> SlotsPlaced /\ SlotsDisjoint
BY DEF Framed, SlotsPlaced

LEMMA FramedPartsNext == Framed' <=> SlotsPlaced' /\ SlotsDisjoint'
BY FramedParts, PTL

\* nothing is given out, and no procedure ends; one may begin
LEMMA FramedKept ==
  ASSUME Framed, TypedProc, UNCHANGED <<slots, frame>>, open' = <<>> => open = <<>>,
         stack_size' = stack_size \/ open = <<>>
  PROVE  Framed'
<1>1. Len(frame) \in Nat
  BY DEF TypedProc
<1>2. \A s \in slots : FrameOf(s.proc)' = FrameOf(s.proc)
  BY <1>1 DEF Framed, FrameOf
<1>3. SlotsPlaced'
  BY <1>2 DEF Framed, SlotsPlaced
<1>4. SlotsDisjoint'
  BY DEF Framed, SlotsDisjoint
<1> QED
  BY <1>3, <1>4, FramedPartsNext

\* a slot is given out above everything the procedure has got so far
LEMMA FramedSlot ==
  ASSUME Framed, TypedProc, TypedSlots, NEW low \in Nat, NEW high \in Nat,
         proc.number = Len(frame) + 1, open' # <<>>, UNCHANGED frame, stack_size' \in Nat,
         stack_size <= low, low <= high, high <= stack_size',
         slots' = slots \cup {[proc |-> proc.number, of |-> <<nodes, 0>>, low |-> low, high |-> high]}
  PROVE  Framed'
<1> DEFINE new == [proc |-> proc.number, of |-> <<nodes, 0>>, low |-> low, high |-> high]
<1>1. new.proc = Len(frame) + 1 /\ new.low = low /\ new.high = high /\ slots' = slots \cup {new}
  OBVIOUS
<1>2. Len(frame) \in Nat /\ stack_size \in Nat /\ \A p \in 1..Len(frame) : frame[p] \in Nat
  BY DEF TypedProc
<1> HIDE DEF new
<1>3. \A s \in slots : s.proc \in Nat /\ s.low \in Nat /\ s.high \in Nat
  BY DEF TypedSlots
<1>4. ASSUME NEW s \in slots
      PROVE  /\ s.low <= s.high /\ s.high <= FrameOf(s.proc)' /\ s.proc \in 1..Len(frame) + 1
             /\ s.proc = Len(frame) + 1 => s.high <= low
  BY <1>2, <1>3 DEF Framed, FrameOf
<1>5. SlotsPlaced'
  BY <1>1, <1>2, <1>4 DEF SlotsPlaced, FrameOf
<1>6. SlotsDisjoint'
  <2> SUFFICES ASSUME NEW s \in slots', NEW t \in slots', s.proc = t.proc, s # t
               PROVE  s.high <= t.low \/ t.high <= s.low
    BY DEF SlotsDisjoint
  <2>1. CASE s \in slots /\ t \in slots
    BY <2>1 DEF Framed, SlotsDisjoint
  <2>2. CASE s = new /\ t \in slots
    BY <1>1, <1>4, <2>2
  <2>3. CASE s \in slots /\ t = new
    BY <1>1, <1>4, <2>3
  <2> QED
    BY <1>1, <2>1, <2>2, <2>3
<1> QED
  BY <1>5, <1>6, FramedPartsNext

LEMMA VarDeclFramed ==
  ASSUME Base, Framed, NEW n \in Names, NEW t \in Types, VarDecl(n, t)
  PROVE  Framed'
<1> DEFINE bytes == type_primitive_size(t.kind)
           size  == stack_size + align_16(bytes)
<1>1. /\ NewNode /\ InBlock
      /\ \/ Panic
         \/ /\ stack_size' = size
            /\ slots' = slots \cup {[proc |-> proc.number, of |-> <<nodes, 0>>,
                                     low |-> size - bytes, high |-> size]}
            /\ UNCHANGED <<open, frame>>
  BY DEF VarDecl
<1>2. /\ stack_size \in Nat /\ size = stack_size + 16 /\ bytes \in {1, 4, 8}
      /\ TypedProc /\ TypedSlots /\ proc.number = Len(frame) + 1 /\ open # <<>>
  BY <1>1, InBuild, InBody, Sizes DEF TypedProc
<1> HIDE DEF size, bytes
<1>3. CASE Panic
  BY <1>2, <1>3, FramedKept DEF Panic
<1>4. CASE ~Panic
  <2>1. size - bytes \in Nat /\ size \in Nat /\ stack_size <= size - bytes /\ size - bytes <= size
    BY <1>2
  <2> QED
    BY <1>1, <1>2, <1>4, <2>1, FramedSlot
<1> QED
  BY <1>3, <1>4

LEMMA ArrayPreFramed ==
  ASSUME Base, Framed, NEW t \in Types, NEW l \in ArrayLengths, ArrayPre(t, l)
  PROVE  Framed'
<1> DEFINE bytes  == type_primitive_size(t.kind)
           offset == stack_size + align_16(bytes)
<1>1. /\ NewNode /\ InBlock
      /\ \/ Panic
         \/ /\ stack_size' = stack_size + ArrayBytes(align_16(bytes), l)
            /\ slots' = slots \cup {[proc |-> proc.number, of |-> <<nodes, 0>>, low |-> offset,
                                     high |-> offset + l * bytes]}
            /\ UNCHANGED <<open, frame>>
  BY DEF ArrayPre
<1>2. /\ stack_size \in Nat /\ offset = stack_size + 16 /\ bytes \in {1, 4, 8}
      /\ align_16(bytes) = 16 /\ l \in Nat
      /\ TypedProc /\ TypedSlots /\ proc.number = Len(frame) + 1 /\ open # <<>>
  BY <1>1, InBuild, InBody, Sizes, LengthsAssumption DEF TypedProc
<1>3. ArrayBytes(16, l) = 16 * l + 16
  BY DEF ArrayBytes
<1> HIDE DEF offset, bytes
<1>4. CASE Panic
  BY <1>2, <1>4, FramedKept DEF Panic
<1>5. CASE ~Panic
  <2>1. l * bytes \in Nat /\ l * bytes <= 16 * l
    BY <1>2
  <2>2. /\ offset \in Nat /\ offset + l * bytes \in Nat /\ stack_size' \in Nat
        /\ stack_size <= offset /\ offset <= offset + l * bytes
        /\ offset + l * bytes <= stack_size'
    BY <1>1, <1>2, <1>3, <1>5, <2>1
  <2> QED
    BY <1>1, <1>2, <1>5, <2>2, FramedSlot
<1> QED
  BY <1>4, <1>5

LEMMA ProcPostFramed == ASSUME Base, Framed, ProcPost PROVE Framed'
<1> DEFINE n == Len(proc.params)
           top(i) == ParamTop(proc.params, i)
           slot(i) == [proc |-> proc.number, of |-> <<proc.seen, i>>, high |-> top(i),
                       low |-> top(i) - type_primitive_size(proc.params[i].type.kind)]
<1>1. /\ TypedProc /\ TypedSlots /\ open # <<>> /\ proc.number = Len(frame) + 1
  <2>1. open # <<>>
    BY DEF ProcPost, In
  <2> QED
    BY <2>1, TypedParts DEF Base, Nested
<1>2. CASE Panic
  BY <1>1, <1>2, FramedKept DEF Panic
<1>3. CASE ~Panic
  <2>1. /\ stack_size' = top(n) /\ frame' = Append(frame, stack_size') /\ open' = <<>>
        /\ slots' = slots \cup {slot(i) : i \in DOMAIN proc.params}
    BY <1>3 DEF ProcPost
  <2>2. n \in Nat /\ DOMAIN proc.params = 1..n /\ stack_size \in Nat /\ frame \in Seq(Nat)
    BY <1>1, ParamsOK DEF TypedProc
  <2>3. ASSUME NEW i \in 1..n PROVE slot(i).low = top(i - 1)
    <3> DEFINE size == type_primitive_size(proc.params[i].type.kind)
    <3>1. i - 1 \in 0..n
      BY <2>2
    <3>2. top(i - 1) \in Nat
      BY <2>2, <3>1, TopsGrow
    <3>3. top(i) = top(i - 1) + size /\ size \in {1, 4, 8}
      BY <2>2, ParamTops, Sizes
    <3>4. slot(i).low = top(i) - size
      OBVIOUS
    <3> HIDE DEF size, top, slot
    <3> QED
      BY <3>2, <3>3, <3>4
  <2>4. \A i \in 1..n : slot(i).proc = Len(frame) + 1 /\ slot(i).high = top(i)
    BY <1>1
  <2>5. \A j \in 0..n : /\ top(j) \in Nat /\ stack_size <= top(j)
                        /\ \A i \in 0..j : top(i) <= top(j)
    BY <2>2, TopsGrow
  <2> HIDE DEF n, top, slot
  <2>6. /\ Len(frame) \in Nat /\ Len(frame') = Len(frame) + 1 /\ frame'[Len(frame) + 1] = top(n)
        /\ \A p \in 1..Len(frame) : frame'[p] = frame[p]
    BY <2>1, <2>2
  <2>7. \A p \in 1..Len(frame) + 1 :
          FrameOf(p)' = IF p = Len(frame) + 1 THEN top(n) ELSE FrameOf(p)
    BY <2>6 DEF FrameOf
  <2>8. ASSUME NEW i \in 1..n
        PROVE  /\ i \in 0..n /\ i - 1 \in 0..n /\ n \in 0..n /\ i \in 0..n /\ i - 1 \in 0..i
    BY <2>2
  <2>9. ASSUME NEW s \in slots
        PROVE  /\ s.low <= s.high /\ s.high <= FrameOf(s.proc)' /\ s.proc \in 1..Len(frame) + 1
               /\ s.proc = Len(frame) + 1 => s.high <= stack_size
    <3>1. /\ s.proc \in 1..Len(frame) + 1 /\ s.low <= s.high /\ s.high <= FrameOf(s.proc)
          /\ s.high \in Nat
      BY <1>1 DEF Framed, TypedSlots
    <3>2. CASE s.proc = Len(frame) + 1
      <4>1. FrameOf(s.proc) = stack_size
        BY <2>6, <3>2 DEF FrameOf
      <4>2. n \in 0..n /\ stack_size <= top(n) /\ top(n) \in Nat
        BY <2>2, <2>5
      <4> QED
        BY <2>2, <2>7, <3>1, <3>2, <4>1, <4>2
    <3>3. CASE s.proc # Len(frame) + 1
      BY <2>7, <3>1, <3>3
    <3> QED
      BY <3>2, <3>3
  <2>10. SlotsPlaced'
    <3>1. ASSUME NEW i \in 1..n, NEW s, s = slot(i)
          PROVE  s.low <= s.high /\ s.high <= FrameOf(s.proc)' /\ s.proc \in 1..Len(frame) + 1
      <4>1. top(i - 1) <= top(i) /\ top(i) <= top(n)
        BY <2>5, <2>8
      <4>2. s.low = top(i - 1) /\ s.high = top(i) /\ s.proc = Len(frame) + 1
        BY <2>3, <2>4, <3>1
      <4>3. s.proc \in 1..Len(frame) + 1
        BY <2>6, <4>2
      <4>4. FrameOf(s.proc)' = top(n)
        BY <2>7, <4>2, <4>3
      <4> QED
        BY <4>1, <4>2, <4>3, <4>4
    <3>2. \A s \in slots' : s \in slots \/ \E i \in 1..n : s = slot(i)
      BY <2>1, <2>2
    <3>3. \A s \in slots' :
            /\ s.low <= s.high /\ s.high <= FrameOf(s.proc)' /\ s.proc \in 1..Len(frame) + 1
      BY <2>9, <3>1, <3>2
    <3> QED
      BY <2>6, <3>3 DEF SlotsPlaced
  <2>11. SlotsDisjoint'
    <3> SUFFICES ASSUME NEW s \in slots', NEW t \in slots', s.proc = t.proc, s # t
                 PROVE  s.high <= t.low \/ t.high <= s.low
      BY DEF SlotsDisjoint
    <3>1. CASE s \in slots /\ t \in slots
      BY <3>1 DEF Framed, SlotsDisjoint
    <3>2. ASSUME NEW i \in 1..n, NEW r \in slots, r.proc = slot(i).proc PROVE r.high <= slot(i).low
      <4>1. r.high <= stack_size /\ stack_size <= top(i - 1) /\ r.high \in Nat
        BY <1>1, <2>4, <2>5, <2>8, <2>9, <3>2 DEF TypedSlots
      <4> QED
        BY <2>2, <2>3, <2>5, <2>8, <4>1
    <3>3. ASSUME NEW i \in 1..n, NEW j \in 1..n, i < j PROVE slot(i).high <= slot(j).low
      <4>1. j - 1 \in 0..n /\ i \in 0..j - 1
        BY <2>2, <3>3
      <4> QED
        BY <2>3, <2>4, <2>5, <4>1
    <3>4. CASE \E i \in 1..n : s = slot(i)
      <4>1. PICK i \in 1..n : s = slot(i)
        BY <3>4
      <4>2. CASE t \in slots
        BY <3>2, <4>1, <4>2
      <4>3. CASE t \notin slots
        <5>1. PICK j \in 1..n : t = slot(j)
          BY <2>1, <2>2, <4>3
        <5>2. i < j \/ j < i
          BY <2>2, <4>1, <5>1
        <5> QED
          BY <3>3, <4>1, <5>1, <5>2
      <4> QED
        BY <4>2, <4>3
    <3>5. CASE s \in slots /\ \E i \in 1..n : t = slot(i)
      BY <3>2, <3>5
    <3> QED
      BY <2>1, <2>2, <3>1, <3>4, <3>5
  <2> QED
    BY <2>10, <2>11, FramedPartsNext
<1> QED
  BY <1>2, <1>3

LEMMA NextFramed == Base /\ Framed /\ [Next]_vars => Framed'
<1> SUFFICES ASSUME Base, Framed, [Next]_vars PROVE Framed'
  OBVIOUS
<1>1. TypedProc
  BY TypedParts DEF Base
<1>2. CASE \E n \in Names : TablePre(n) \/ Use(n)
  BY <1>1, <1>2, FramedKept DEF TablePre, Use
<1>3. CASE \E n \in Names, t \in Signatures, b \in BOOLEAN : ProcPre(n, t, b)
  BY <1>1, <1>3, FramedKept DEF ProcPre
<1>4. CASE BodyPre \/ BlockPre \/ BuildEnd
  <2>1. UNCHANGED <<slots, frame, stack_size>> /\ (open' = <<>> => open = <<>>)
    <3>1. CASE BodyPre \/ BuildEnd
      BY <3>1 DEF BodyPre, BuildEnd
    <3>2. CASE BlockPre
      <4>1. NewNode /\ open' = Append(open, [kind |-> "block", block |-> Len(scopes) + 1])
        BY <3>2 DEF BlockPre
      <4>2. open \in Seq(Places(Len(scopes)))
        BY TypedParts DEF Base, TypedScopes
      <4>3. open' # <<>>
        BY <4>1, <4>2
      <4> QED
        BY <3>2, <4>3 DEF BlockPre
    <3> QED
      BY <1>4, <3>1, <3>2
  <2> QED
    BY <1>1, <2>1, FramedKept
<1>5. CASE BlockPost
  <2>1. open' # <<>>
    <3>1. InBlock /\ open' = IF In("body") THEN <<[kind |-> "proc_post", block |-> 1]>>
                             ELSE Front(open)
      BY <1>5 DEF BlockPost
    <3>2. CASE In("body")
      BY <3>1, <3>2
    <3>3. CASE ~In("body")
      <4> DEFINE n == Len(open)
      <4>1. n \in Nat /\ n > 1 /\ open' = SubSeq(open, 1, n - 1) /\ open \in Seq(Places(Len(scopes)))
        <5>1. n \in Nat /\ n > 0 /\ n # 1 /\ open \in Seq(Places(Len(scopes)))
          BY <3>1, <3>3, InBody
        <5>2. open' = SubSeq(open, 1, n - 1)
          BY <3>1, <3>3 DEF Front
        <5> HIDE DEF n
        <5> QED
          BY <5>1, <5>2
      <4>2. Len(open') = n - 1 /\ n - 1 > 0
        <5>1. Len(open) = n
          OBVIOUS
        <5> HIDE DEF n
        <5> QED
          BY <4>1, <5>1
      <4> HIDE DEF n
      <4>3. Len(open') # 0
        BY <4>1, <4>2
      <4> QED
        BY <4>3
    <3> QED
      BY <3>2, <3>3
  <2> QED
    BY <1>1, <1>5, <2>1, FramedKept DEF BlockPost
<1>6. CASE LiteralIdent \/ CodegenEnd \/ Terminated \/ UNCHANGED vars
  BY <1>1, <1>6, FramedKept DEF LiteralIdent, CodegenEnd, Terminated, vars
<1> QED
  BY <1>2, <1>3, <1>4, <1>5, <1>6, VarDeclFramed, ArrayPreFramed, ProcPostFramed
    DEF Next, Build

LEMMA FramedAlways == Spec => []Framed
<1>1. Init => Framed
  BY DEF Init, Framed, SlotsDisjoint
<1> QED
  BY <1>1, NextFramed, BaseAlways, PTL DEF Spec

\* However a procedure nests its blocks, and whatever parameters it has, all it stores
\* below rbp lies within the bytes its prologue takes off rsp.
THEOREM SlotsAreInFrame == Spec => []SlotsInFrame
<1>1. Base /\ Framed => SlotsInFrame
  BY DEF Base, Typed, TypeOK, Framed, SlotsInFrame
<1> QED
  BY <1>1, BaseAlways, FramedAlways, PTL

\* No two variables, arrays or parameters of one procedure share a byte.
THEOREM SlotsAreDisjoint == Spec => []SlotsDisjoint
<1>1. Framed => SlotsDisjoint
  BY DEF Framed
<1> QED
  BY <1>1, FramedAlways, PTL

-----------------------------------------------------------------------------
(* Scopes and declarations                                                 *)

LocalPlaced(d, given) ==
  d.kind \in Local =>
    d.block # 1 /\ \E s \in given : s.proc = d.proc /\ s.high = d.offset

NamesDeclared ==
  \A s \in 1..Len(scopes) : \A x \in DOMAIN scopes[s].names :
    \E i \in 1..Len(decls) : Declares(decls[i], s, x, scopes[s].names[x])

DeclsEntered ==
  \A i \in 1..Len(decls) :
    /\ decls[i].block \in 1..Len(scopes)
    /\ decls[i].name \in DOMAIN scopes[decls[i].block].names

DeclsPlaced == \A i \in 1..Len(decls) : LocalPlaced(decls[i], slots)

DeclsTyped == decls \in Seq(Decls)

LEMMA EnteredParts ==
  DeclsTyped => (Entered <=> NamesDeclared /\ DeclsEntered /\ DeclsPlaced)
<1> SUFFICES ASSUME decls \in Seq(Decls)
             PROVE  Entered <=> NamesDeclared /\ DeclsEntered /\ DeclsPlaced
  BY DEF DeclsTyped
<1>1. DOMAIN decls = 1..Len(decls)
  OBVIOUS
<1> QED
  BY <1>1 DEF Entered, NamesDeclared, DeclsEntered, DeclsPlaced, LocalPlaced

LEMMA EnteredPartsNext ==
  DeclsTyped' => (Entered' <=> NamesDeclared' /\ DeclsEntered' /\ DeclsPlaced')
BY EnteredParts, PTL

\* a symbol is entered where its declaration stands
LEMMA EnteredInsert ==
  ASSUME TypedScopes, decls \in Seq(Decls), Entered,
         NEW h \in 1..Len(scopes), NEW x, NEW sym, NEW d \in Decls,
         InsertSymbol(h, x, sym), decls' = Append(decls, d), slots \subseteq slots',
         d.name = x, d.block = h, d.kind = sym.kind, d.offset = sym.offset,
         LocalPlaced(d, slots')
  PROVE  Entered'
<1> DEFINE n == Len(decls)
           m == Len(scopes)
<1>1. /\ n \in Nat /\ Len(decls') = n + 1 /\ decls' \in Seq(Decls)
      /\ (\A i \in 1..n : decls'[i] = decls[i]) /\ decls'[n + 1] = d
      /\ (\A i \in 1..n + 1 : i \in 1..n \/ i = n + 1)
      /\ (\A i \in 1..n : i \in 1..n + 1) /\ n + 1 \in 1..n + 1
  OBVIOUS
<1>2. /\ Len(scopes') = m
      /\ \A i \in 1..m : i # h => scopes'[i] = scopes[i]
      /\ scopes'[h].names = Enter(scopes[h].names, x, sym)
  BY Inserted DEF TypedScopes
<1>3. NamesDeclared /\ DeclsEntered /\ DeclsPlaced
  BY EnteredParts DEF DeclsTyped
<1> DEFINE old == scopes[h].names
<1>4. /\ DOMAIN scopes'[h].names = DOMAIN old \cup {x}
      /\ \A y \in DOMAIN old : scopes'[h].names[y] = old[y]
      /\ x \notin DOMAIN old => scopes'[h].names[x] = sym
  BY <1>2 DEF Enter
<1>5. Declares(d, h, x, sym)
  BY DEF Declares, SameSymbol
<1>6. NamesDeclared'
  <2> SUFFICES ASSUME NEW s \in 1..m, NEW y \in DOMAIN scopes'[s].names
               PROVE  \E i \in 1..n + 1 : Declares(decls'[i], s, y, scopes'[s].names[y])
    BY <1>1, <1>2 DEF NamesDeclared
  <2> HIDE DEF n, m
  <2>1. CASE y \in DOMAIN scopes[s].names
    <3>1. scopes'[s].names[y] = scopes[s].names[y]
      BY <1>2, <1>4, <2>1
    <3>2. PICK i \in 1..n : Declares(decls[i], s, y, scopes[s].names[y])
      BY <1>3, <2>1 DEF NamesDeclared, n, m
    <3> QED
      BY <1>1, <3>1, <3>2
  <2>2. CASE y \notin DOMAIN scopes[s].names
    <3>1. s = h /\ y = x /\ scopes'[s].names[y] = sym
      BY <1>2, <1>4, <2>2
    <3> QED
      BY <1>1, <1>5, <3>1
  <2> QED
    BY <2>1, <2>2
<1>7. DeclsEntered'
  <2> SUFFICES ASSUME NEW i \in 1..n + 1
               PROVE  /\ decls'[i].block \in 1..m
                      /\ decls'[i].name \in DOMAIN scopes'[decls'[i].block].names
    BY <1>1, <1>2 DEF DeclsEntered
  <2>1. CASE i \in 1..n
    <3>1. /\ decls[i].block \in 1..m
          /\ decls[i].name \in DOMAIN scopes[decls[i].block].names
      BY <1>3, <2>1 DEF DeclsEntered
    <3>2. decls'[i] = decls[i]
      BY <1>1, <2>1
    <3>3. CASE decls[i].block = h
      BY <1>4, <3>1, <3>2, <3>3
    <3>4. CASE decls[i].block # h
      BY <1>2, <3>1, <3>2, <3>4
    <3> QED
      BY <3>3, <3>4
  <2>2. CASE i = n + 1
    BY <1>1, <1>4, <2>2
  <2> QED
    BY <1>1, <2>1, <2>2
<1>8. DeclsPlaced'
  <2>1. \A i \in 1..n : LocalPlaced(decls[i], slots')
    BY <1>3 DEF DeclsPlaced, LocalPlaced
  <2> QED
    BY <1>1, <2>1 DEF DeclsPlaced
<1> QED
  BY <1>1, <1>6, <1>7, <1>8, EnteredPartsNext DEF DeclsTyped

\* no scope changes but for a new and empty one, and no declaration is met
LEMMA EnteredKept ==
  ASSUME TypedScopes, decls \in Seq(Decls), Entered, UNCHANGED decls, slots \subseteq slots',
         Len(scopes') \in Nat, Len(scopes') >= Len(scopes),
         \A i \in 1..Len(scopes) : scopes'[i] = scopes[i],
         \A i \in 1..Len(scopes') : i > Len(scopes) => DOMAIN scopes'[i].names = {}
  PROVE  Entered'
<1>1. NamesDeclared /\ DeclsEntered /\ DeclsPlaced /\ Len(scopes) \in Nat
  BY EnteredParts DEF TypedScopes, DeclsTyped
<1>2. NamesDeclared'
  BY <1>1 DEF NamesDeclared
<1>3. DeclsEntered'
  BY <1>1 DEF DeclsEntered
<1>4. DeclsPlaced'
  BY <1>1 DEF DeclsPlaced, LocalPlaced
<1> QED
  BY <1>2, <1>3, <1>4, EnteredPartsNext DEF DeclsTyped

LEMMA DeclaredParts ==
  ASSUME NEW n, NEW b, NEW seen, NEW sym
  PROVE  LET d == Declared(n, b, seen, sym) IN
         /\ d.name = n /\ d.block = b /\ d.seen = seen /\ d.kind = sym.kind
         /\ d.offset = sym.offset /\ d.proc = proc.number
BY DEF Declared

LEMMA GlobalEntered ==
  ASSUME Base, Entered, NEW n \in Names,
         TablePre(n) \/ \E t \in Signatures, b \in BOOLEAN : ProcPre(n, t, b)
  PROVE  Entered'
<1>1. PICK kind, type :
        /\ kind \in {"TABLE", "PROCEDURE"}
        /\ NewNode /\ InsertSymbol(head, n, Symbol(kind, type, 0))
        /\ decls' = Append(decls, Declared(n, Last(Around), nodes, Symbol(kind, type, 0)))
        /\ UNCHANGED slots /\ open = <<>>
  BY DEF TablePre, ProcPre
<1> DEFINE sym == Symbol(kind, type, 0)
           d == Declared(n, Last(Around), nodes, sym)
<1>2. sym.kind = kind /\ sym.offset = 0 /\ kind \in {"TABLE", "PROCEDURE"}
  BY <1>1, SymbolParts
<1>3. /\ TypedScopes /\ decls \in Seq(Decls) /\ mode = "build" /\ nodes \in Nat
      /\ head \in 1..Len(scopes) /\ Last(Around) \in Nat
  BY <1>1, InBuild DEF TypedRest
<1>4. head = Last(Around)
  BY <1>1, <1>3, HeadExists
<1>5. sym.kind \in SymbolKinds /\ sym.offset \in Nat /\ sym.kind \notin Local
  BY <1>2 DEF SymbolKinds, Local
<1> HIDE DEF sym
<1>6. d \in Decls
  BY <1>3, <1>5, DeclaredOK
<1>7. /\ d.name = n /\ d.block = head /\ d.kind = sym.kind /\ d.offset = sym.offset
  BY <1>4, DeclaredParts
<1>8. LocalPlaced(d, slots')
  BY <1>5, <1>7 DEF LocalPlaced
<1>9. InsertSymbol(head, n, sym) /\ decls' = Append(decls, d) /\ slots \subseteq slots'
  BY <1>1 DEF sym
<1> HIDE DEF d
<1> QED
  BY <1>3, <1>6, <1>7, <1>8, <1>9, EnteredInsert

\* the current scope of a body is at its body's or below
LEMMA BodyBelow ==
  ASSUME Base, InBlock
  PROVE  proc.body \in Nat /\ proc.body > 1 /\ head >= proc.body /\ head \in Nat /\ head # 1
<1> DEFINE n == Len(open)
<1>1. /\ n \in Nat /\ n > 0 /\ IsChain(Around, scopes) /\ Len(Around) = n + 1
      /\ head = Around[n + 1] /\ Around[2] = proc.body
  BY InBody
<1> HIDE DEF n
<1>2. 1 \in 1..n + 1 /\ 2 \in 1..n + 1 /\ n + 1 \in 1..n + 1
  BY <1>1
<1>3. /\ Around \in Seq(1..Len(scopes)) /\ Around[1] = 1
      /\ \A i, j \in 1..n + 1 : i < j => Around[i] < Around[j]
  BY <1>1 DEF IsChain
<1>4. Around[2] \in 1..Len(scopes) /\ Around[n + 1] \in 1..Len(scopes)
  BY <1>1, <1>2, <1>3, ElementOf
<1>5. Around[1] < Around[2] /\ (2 < n + 1 => Around[2] < Around[n + 1])
  BY <1>2, <1>3
<1>6. n + 1 = 2 \/ 2 < n + 1
  BY <1>1
<1>7. Around[2] = Around[n + 1] \/ Around[2] < Around[n + 1]
  BY <1>5, <1>6
<1> QED
  BY <1>1, <1>3, <1>4, <1>5, <1>7

LEMMA VarDeclEntered ==
  ASSUME Base, Entered, NEW n \in Names, NEW t \in Types, VarDecl(n, t)
  PROVE  Entered'
<1> DEFINE bytes == type_primitive_size(t.kind)
           size  == stack_size + align_16(bytes)
           sym   == Symbol("VARIABLE", t, size)
           d     == Declared(n, Last(Around), nodes, sym)
           slot  == [proc |-> proc.number, of |-> <<nodes, 0>>,
                     low |-> size - bytes, high |-> size]
<1>1. /\ NewNode /\ InBlock
      /\ \/ Panic
         \/ /\ InsertSymbol(head, n, sym)
            /\ slots' = slots \cup {slot}
            /\ decls' = Append(decls, d)
  BY DEF VarDecl
<1>2. /\ TypedScopes /\ decls \in Seq(Decls) /\ mode = "build" /\ nodes \in Nat
      /\ head \in 1..Len(scopes) /\ Last(Around) \in Nat /\ Len(scopes) \in Nat
      /\ stack_size \in Nat /\ size = stack_size + 16
  BY <1>1, InBuild, Sizes DEF TypedRest, TypedProc
<1>3. CASE Panic
  BY <1>2, <1>3, EnteredKept DEF Panic
<1>4. CASE ~Panic
  <2>1. head = Last(Around) /\ head # 1
    BY <1>1, <1>2, HeadExists, BodyBelow
  <2>2. sym.kind = "VARIABLE" /\ sym.offset = size
    BY SymbolParts
  <2>3. slot.proc = proc.number /\ slot.high = size
    OBVIOUS
  <2> HIDE DEF sym, size, slot
  <2>4. sym.kind \in SymbolKinds /\ sym.offset \in Nat
    BY <1>2, <2>2 DEF SymbolKinds
  <2>5. d \in Decls
    BY <1>2, <2>4, DeclaredOK
  <2>6. /\ d.name = n /\ d.block = head /\ d.kind = sym.kind /\ d.offset = sym.offset
        /\ d.proc = proc.number
    BY <2>1, DeclaredParts
  <2> HIDE DEF d
  <2>7. slots \subseteq slots' /\ slot \in slots'
    BY <1>1, <1>4
  <2>8. LocalPlaced(d, slots')
    BY <2>1, <2>2, <2>3, <2>6, <2>7 DEF LocalPlaced
  <2> QED
    BY <1>1, <1>2, <1>4, <2>5, <2>6, <2>7, <2>8, EnteredInsert
<1> QED
  BY <1>3, <1>4

LEMMA ParamSymbolParts ==
  ASSUME NEW i
  PROVE  /\ ParamSymbol(i).kind = "PARAMETER"
         /\ ParamSymbol(i).offset = ParamTop(proc.params, i)
BY SymbolParts DEF ParamSymbol

ParamDecl(i) == Declared(proc.params[i].ident, proc.body, proc.seen, ParamSymbol(i))

LEMMA ParamDeclParts ==
  ASSUME NEW i
  PROVE  LET d == ParamDecl(i) IN
         /\ d.name = proc.params[i].ident /\ d.block = proc.body /\ d.seen = proc.seen
         /\ d.kind = "PARAMETER" /\ d.offset = ParamTop(proc.params, i)
         /\ d.proc = proc.number /\ SameSymbol(ParamSymbol(i), d)
BY DeclaredParts, ParamSymbolParts DEF ParamDecl, SameSymbol

\* what proc_post() leaves when it does not end in a panic
ParamsGiven ==
  LET n == Len(proc.params) IN
  /\ scopes' = [scopes EXCEPT ![proc.body].names = WithParams(@)]
  /\ Len(decls') = Len(decls) + n /\ decls' \in Seq(Decls)
  /\ \A i \in 1..Len(decls) : decls'[i] = decls[i]
  /\ \A i \in 1..n : decls'[Len(decls) + i] = ParamDecl(i)
  /\ slots \subseteq slots'
  /\ \A i \in 1..n : \E s \in slots' :
       s.proc = proc.number /\ s.high = ParamTop(proc.params, i)
  /\ UNCHANGED <<proc, uses, bound, mode>> /\ open' = <<>>

LEMMA ProcPostParts ==
  ASSUME Base, ProcPost
  PROVE  /\ TypedScopes /\ TypedProc /\ decls \in Seq(Decls) /\ mode = "build" /\ open # <<>>
         /\ proc.body \in 2..Len(scopes) /\ Len(scopes) \in Nat /\ Len(decls) \in Nat
         /\ Len(proc.params) \in Nat
         /\ Panic \/ ParamsGiven
<1> DEFINE n == Len(proc.params)
           new == [i \in 1..n |-> ParamDecl(i)]
<1>1. In("proc_post") /\ mode = "build" /\ open # <<>>
  BY DEF ProcPost, In
<1>2. /\ TypedScopes /\ TypedProc /\ decls \in Seq(Decls) /\ proc.body \in 2..Len(scopes)
      /\ Len(scopes) \in Nat /\ Len(decls) \in Nat
  BY <1>1, TypedParts DEF Base, Nested, TypedScopes, TypedRest
<1>3. n \in Nat /\ DOMAIN proc.params = 1..n
  BY <1>2, ParamsOK
<1>4. CASE ~Panic
  <2>1. /\ scopes' = [scopes EXCEPT ![proc.body].names = WithParams(@)]
        /\ slots' = slots \cup
             {[proc |-> proc.number, of |-> <<proc.seen, i>>, high |-> ParamTop(proc.params, i),
               low |-> ParamTop(proc.params, i) - type_primitive_size(proc.params[i].type.kind)]
              : i \in DOMAIN proc.params}
        /\ decls' = decls \o [i \in DOMAIN proc.params |-> ParamDecl(i)]
        /\ UNCHANGED <<proc, uses, bound, mode>> /\ open' = <<>>
    BY <1>4 DEF ProcPost, ParamDecl
  <2>2. decls' = decls \o new
    BY <1>3, <2>1
  <2>3. decls' \in Seq(Decls)
    BY ProcPostBase DEF Base, Typed
  <2>4. ASSUME NEW i \in 1..n
        PROVE  \E s \in slots' : s.proc = proc.number /\ s.high = ParamTop(proc.params, i)
    <3> DEFINE size == type_primitive_size(proc.params[i].type.kind)
               top == ParamTop(proc.params, i)
               slot == [proc |-> proc.number, of |-> <<proc.seen, i>>, high |-> top, low |-> top - size]
    <3>1. slot \in slots'
      BY <1>3, <2>1
    <3>2. slot.proc = proc.number /\ slot.high = top
      OBVIOUS
    <3> HIDE DEF slot
    <3> QED
      BY <3>1, <3>2
  <2> DEFINE P == {ParamDecl(i) : i \in 1..n}
  <2>5. Len(new) = n /\ (\A i \in 1..n : new[i] = ParamDecl(i)) /\ new \in Seq(P)
    <3>1. \A i \in 1..n : ParamDecl(i) \in P
      OBVIOUS
    <3> HIDE DEF n, P
    <3> QED
      BY <1>3, <3>1
  <2> HIDE DEF new, n, P
  <2>7. /\ Len(decls \o new) = Len(decls) + Len(new)
        /\ \A i \in 1..Len(decls) : (decls \o new)[i] = decls[i]
        /\ \A i \in 1..Len(new) : (decls \o new)[Len(decls) + i] = new[i]
    <3>1. decls \in Seq(Decls) /\ new \in Seq(P)
      BY <1>2, <2>5
    <3> QED
      BY <3>1, Concatenated
  <2>6. /\ Len(decls') = Len(decls) + n
        /\ \A i \in 1..Len(decls) : decls'[i] = decls[i]
        /\ \A i \in 1..n : decls'[Len(decls) + i] = ParamDecl(i)
    BY <2>2, <2>5, <2>7
  <2> QED
    BY <1>1, <1>2, <1>3, <2>1, <2>3, <2>4, <2>6 DEF ParamsGiven, n
<1> QED
  BY <1>1, <1>2, <1>3, <1>4

LEMMA ProcPostEntered == ASSUME Base, Entered, ProcPost PROVE Entered'
<1> DEFINE n == Len(proc.params)
           m == Len(decls)
           k == Len(scopes)
           b == proc.body
<1>1. /\ TypedScopes /\ TypedProc /\ decls \in Seq(Decls) /\ b \in 2..k /\ k \in Nat
      /\ m \in Nat /\ n \in Nat
      /\ Panic \/ ParamsGiven
  BY ProcPostParts
<1>2. CASE Panic
  BY <1>1, <1>2, EnteredKept DEF Panic
<1>3. CASE ParamsGiven
  <2> DEFINE old == scopes[b].names
             new == WithParams(old)
  <2>1. /\ Len(scopes') = k
        /\ \A i \in 1..k : i # b => scopes'[i] = scopes[i]
        /\ scopes'[b].names = new
    <3>1. b \in 1..k
      BY <1>1
    <3> QED
      BY <1>1, <1>3, <3>1, ParamsInserted DEF ParamsGiven
  <2>2. /\ DOMAIN new = DOMAIN old \cup {proc.params[i].ident : i \in 1..n}
        /\ \A x \in DOMAIN old : new[x] = old[x]
        /\ \A x \in DOMAIN new : x \notin DOMAIN old =>
             \E i \in 1..n : x = proc.params[i].ident /\ new[x] = ParamSymbol(i)
    BY <1>1, ParamsEntered
  <2>3. /\ Len(decls') = m + n /\ decls' \in Seq(Decls)
        /\ \A i \in 1..m : decls'[i] = decls[i]
        /\ \A i \in 1..n : decls'[m + i] = ParamDecl(i)
        /\ slots \subseteq slots'
        /\ \A i \in 1..n : \E s \in slots' :
             s.proc = proc.number /\ s.high = ParamTop(proc.params, i)
    BY <1>3 DEF ParamsGiven
  <2>4. NamesDeclared /\ DeclsEntered /\ DeclsPlaced
    BY <1>1, EnteredParts DEF DeclsTyped
  <2> HIDE DEF n, m, k, b, new
  <2>5. /\ \A i \in 1..m : i \in 1..m + n
        /\ \A i \in 1..n : m + i \in 1..m + n
        /\ \A j \in 1..m + n : j \in 1..m \/ \E i \in 1..n : j = m + i
    <3>1. ASSUME NEW j \in 1..m + n, j \notin 1..m PROVE j - m \in 1..n /\ j = m + (j - m)
      BY <1>1, <3>1
    <3> QED
      BY <1>1, <3>1
  <2>6. NamesDeclared'
    <3> SUFFICES ASSUME NEW s \in 1..k, NEW x \in DOMAIN scopes'[s].names
                 PROVE  \E i \in 1..m + n : Declares(decls'[i], s, x, scopes'[s].names[x])
      BY <2>1, <2>3 DEF NamesDeclared
    <3>1. CASE x \in DOMAIN scopes[s].names
      <4>1. scopes'[s].names[x] = scopes[s].names[x]
        BY <2>1, <2>2, <3>1
      <4>2. PICK i \in 1..m : Declares(decls[i], s, x, scopes[s].names[x])
        BY <2>4, <3>1 DEF NamesDeclared, m, k
      <4> QED
        BY <2>3, <2>5, <4>1, <4>2
    <3>2. CASE x \notin DOMAIN scopes[s].names
      <4>1. s = b
        BY <2>1, <3>2
      <4>2. PICK i \in 1..n : x = proc.params[i].ident /\ new[x] = ParamSymbol(i)
        BY <2>1, <2>2, <3>2, <4>1
      <4>3. Declares(ParamDecl(i), s, x, scopes'[s].names[x])
        BY <2>1, <4>1, <4>2, ParamDeclParts DEF Declares, b
      <4> QED
        BY <2>3, <2>5, <4>3
    <3> QED
      BY <3>1, <3>2
  <2>7. DeclsEntered'
    <3> SUFFICES ASSUME NEW j \in 1..m + n
                 PROVE  /\ decls'[j].block \in 1..k
                        /\ decls'[j].name \in DOMAIN scopes'[decls'[j].block].names
      BY <2>1, <2>3 DEF DeclsEntered
    <3>1. CASE j \in 1..m
      <4>1. /\ decls[j].block \in 1..k
            /\ decls[j].name \in DOMAIN scopes[decls[j].block].names
        BY <2>4, <3>1 DEF DeclsEntered, m, k
      <4> QED
        BY <2>1, <2>2, <2>3, <3>1, <4>1
    <3>2. CASE \E i \in 1..n : j = m + i
      <4>1. PICK i \in 1..n : j = m + i
        BY <3>2
      <4>2. decls'[j].name = proc.params[i].ident /\ decls'[j].block = b
        BY <2>3, <4>1, ParamDeclParts DEF b
      <4>3. proc.params[i].ident \in DOMAIN new /\ b \in 1..k
        BY <1>1, <2>2
      <4> QED
        BY <2>1, <4>2, <4>3
    <3> QED
      BY <2>5, <3>1, <3>2
  <2>8. DeclsPlaced'
    <3>1. \A i \in 1..m : LocalPlaced(decls[i], slots')
      BY <2>3, <2>4 DEF DeclsPlaced, LocalPlaced, m
    <3>2. \A i \in 1..n : LocalPlaced(ParamDecl(i), slots')
      <4>1. b # 1
        BY <1>1
      <4> QED
        BY <2>3, <4>1, ParamDeclParts DEF LocalPlaced, b
    <3> QED
      BY <2>3, <2>5, <3>1, <3>2 DEF DeclsPlaced
  <2> QED
    BY <2>3, <2>6, <2>7, <2>8, EnteredPartsNext DEF DeclsTyped
<1> QED
  BY <1>1, <1>2, <1>3

LEMMA NextEntered == Base /\ Entered /\ [Next]_vars => Entered'
<1> SUFFICES ASSUME Base, Entered, [Next]_vars PROVE Entered'
  OBVIOUS
<1>1. TypedScopes /\ decls \in Seq(Decls) /\ Len(scopes) \in Nat
  BY TypedParts DEF Base, TypedScopes, TypedRest
<1>2. CASE \E n \in Names : \/ TablePre(n)
                            \/ \E t \in Signatures, b \in BOOLEAN : ProcPre(n, t, b)
  BY <1>2, GlobalEntered
<1>3. CASE BodyPre \/ BlockPre
  <2>1. Push /\ UNCHANGED <<decls, slots>>
    BY <1>3 DEF BodyPre, BlockPre
  <2>2. /\ Len(scopes') = Len(scopes) + 1
        /\ \A i \in 1..Len(scopes) : scopes'[i] = scopes[i]
        /\ DOMAIN scopes'[Len(scopes) + 1].names = {}
    BY <1>1, <2>1, Pushed
  <2>3. \A i \in 1..Len(scopes') : i > Len(scopes) => i = Len(scopes) + 1
    BY <1>1, <2>2
  <2>4. \A i \in 1..Len(scopes') : i > Len(scopes) => DOMAIN scopes'[i].names = {}
    BY <2>2, <2>3
  <2>5. Len(scopes') \in Nat /\ Len(scopes') >= Len(scopes)
    BY <1>1, <2>2
  <2> QED
    BY <1>1, <2>1, <2>2, <2>4, <2>5, EnteredKept
<1>4. CASE \E n \in Names : Use(n)
  BY <1>1, <1>4, EnteredKept DEF Use
<1>5. CASE \E t \in Types, l \in ArrayLengths : ArrayPre(t, l)
  BY <1>1, <1>5, EnteredKept DEF ArrayPre, Panic
<1>6. CASE BlockPost \/ BuildEnd \/ LiteralIdent \/ CodegenEnd \/ Terminated \/ UNCHANGED vars
  BY <1>1, <1>6, EnteredKept DEF BlockPost, BuildEnd, LiteralIdent, CodegenEnd, Terminated, vars
<1> QED
  BY <1>2, <1>3, <1>4, <1>5, <1>6, VarDeclEntered, ProcPostEntered DEF Next, Build

LEMMA EnteredAlways == Spec => []Entered
<1>1. Init => Entered
  <2> SUFFICES ASSUME Init PROVE Entered
    OBVIOUS
  <2>1. decls = <<>> /\ Len(scopes) = 1 /\ DOMAIN scopes[1].names = {}
    BY DEF Init
  <2> QED
    BY <2>1 DEF Entered
<1> QED
  BY <1>1, NextEntered, BaseAlways, PTL DEF Spec

-----------------------------------------------------------------------------
(* Blocks and procedures                                                   *)

UsesTyped == uses \in Seq([name : Names, blocks : Seq(Nat), proc : Nat, seen : Nat])

UsesChained == \A j \in 1..Len(uses) : IsChain(uses[j].blocks, scopes)

UsesOwned ==
  \A i \in 1..Len(decls), j \in 1..Len(uses) :
    decls[i].block # 1 /\ decls[i].block \in ToSet(uses[j].blocks) => decls[i].proc = uses[j].proc

\* the blocks from the body in hand on are those of the procedure in hand
DeclsInHand ==
  open # <<>> =>
    \A i \in 1..Len(decls) : decls[i].block >= proc.body => decls[i].proc = proc.number

UsesInHand ==
  open # <<>> =>
    \A j \in 1..Len(uses) : \A b \in ToSet(uses[j].blocks) :
      b >= proc.body => uses[j].proc = proc.number

LEMMA OwnedParts ==
  DeclsTyped /\ UsesTyped => (Owned <=> UsesChained /\ UsesOwned /\ DeclsInHand /\ UsesInHand)
<1> SUFFICES ASSUME DeclsTyped, UsesTyped
             PROVE  Owned <=> UsesChained /\ UsesOwned /\ DeclsInHand /\ UsesInHand
  OBVIOUS
<1>1. DOMAIN decls = 1..Len(decls) /\ DOMAIN uses = 1..Len(uses)
  BY DEF DeclsTyped, UsesTyped
<1> QED
  BY <1>1 DEF Owned, UsesChained, UsesOwned, DeclsInHand, UsesInHand

LEMMA OwnedPartsNext ==
  DeclsTyped' /\ UsesTyped' =>
    (Owned' <=> UsesChained' /\ UsesOwned' /\ DeclsInHand' /\ UsesInHand')
BY OwnedParts, PTL

LEMMA ChainBlocks ==
  ASSUME NEW B, NEW table, IsChain(B, table)
  PROVE  /\ Len(B) \in Nat /\ Len(B) > 0 /\ DOMAIN B = 1..Len(B)
         /\ \A i \in 1..Len(B) : B[i] \in 1..Len(table)
         /\ \A b \in ToSet(B) : \E i \in 1..Len(B) : b = B[i]
         /\ \A b \in ToSet(B) : b \in 1..Len(table)
         /\ Last(B) = B[Len(B)]
<1>1. B \in Seq(1..Len(table)) /\ B # <<>>
  BY DEF IsChain
<1>2. Len(B) \in Nat /\ Len(B) > 0 /\ DOMAIN B = 1..Len(B)
  BY <1>1
<1>3. \A i \in 1..Len(B) : B[i] \in 1..Len(table)
  BY <1>1, ElementOf
<1> QED
  BY <1>2, <1>3, ToSetOf DEF Last

\* Declarations are met in the global scope or in blocks of the procedure in hand, and
\* no identifier.
LEMMA OwnedKept ==
  ASSUME TypedScopes, DeclsTyped, DeclsTyped', UsesTyped, Entered, Owned, UNCHANGED uses,
         Len(scopes') \in Nat, Len(scopes') >= Len(scopes),
         \A i \in 1..Len(scopes) : scopes'[i].parent = scopes[i].parent,
         Len(decls') >= Len(decls), \A i \in 1..Len(decls) : decls'[i] = decls[i],
         \A i \in 1..Len(decls') : i > Len(decls) =>
           \/ decls'[i].block = 1
           \/ open # <<>> /\ decls'[i].block >= proc.body /\ decls'[i].proc = proc.number,
         \/ open' = <<>>
         \/ open # <<>> /\ proc' = proc /\ proc.body \in Nat /\ proc.body > 1
         \/ open = <<>> /\ proc'.body = Len(scopes) + 1
  PROVE  Owned'
<1> DEFINE n == Len(scopes)
           m == Len(decls)
           Old(i) == i \in 1..m /\ decls'[i] = decls[i]
           Outer(i) == i \in 1..Len(decls') /\ decls'[i].block = 1
           Inner(i) == /\ i \in 1..Len(decls') /\ open # <<>>
                       /\ decls'[i].block >= proc.body /\ decls'[i].proc = proc.number
<1>1. /\ UsesChained /\ UsesOwned /\ DeclsInHand /\ UsesInHand
      /\ n \in Nat /\ n > 0 /\ m \in Nat /\ Len(decls') \in Nat /\ UsesTyped'
  BY OwnedParts DEF TypedScopes, DeclsTyped, UsesTyped
<1>2. \A i \in 1..Len(decls') : Old(i) \/ Outer(i) \/ Inner(i)
  BY <1>1
<1>3. \A i \in 1..m : decls[i].block \in 1..n
  BY EnteredParts DEF DeclsEntered
<1>4. \A j \in 1..Len(uses) : \A b \in ToSet(uses[j].blocks) : b \in 1..n
  BY <1>1, ChainBlocks DEF UsesChained
<1>5. UsesChained'
  BY <1>1, ChainKept DEF UsesChained
<1> HIDE DEF n, m
<1>6. UsesOwned'
  <2> SUFFICES ASSUME NEW i \in 1..Len(decls'), NEW j \in 1..Len(uses),
                      decls'[i].block # 1, decls'[i].block \in ToSet(uses[j].blocks)
               PROVE  decls'[i].proc = uses[j].proc
    BY DEF UsesOwned
  <2>1. CASE Old(i)
    BY <1>1, <2>1 DEF UsesOwned, m
  <2>2. CASE Inner(i)
    BY <1>1, <2>2 DEF UsesInHand
  <2> QED
    BY <1>2, <2>1, <2>2
<1>7. DeclsInHand'
  <2> SUFFICES ASSUME open' # <<>>, NEW i \in 1..Len(decls'), decls'[i].block >= proc'.body
               PROVE  decls'[i].proc = proc'.number
    BY DEF DeclsInHand
  <2>1. CASE open # <<>> /\ proc' = proc /\ proc.body \in Nat /\ proc.body > 1
    <3>1. CASE Old(i)
      BY <1>1, <2>1, <3>1 DEF DeclsInHand, m
    <3>2. CASE Outer(i)
      BY <2>1, <3>2
    <3>3. CASE Inner(i)
      BY <2>1, <3>3
    <3> QED
      BY <1>2, <3>1, <3>2, <3>3
  <2>2. CASE open = <<>> /\ proc'.body = n + 1
    <3>1. Old(i) \/ Outer(i)
      BY <1>2, <2>2
    <3>2. decls'[i].block \in 1..n
      BY <1>1, <1>3, <3>1
    <3> QED
      BY <1>1, <2>2, <3>2
  <2> QED
    BY <2>1, <2>2 DEF n
<1>8. UsesInHand'
  <2> SUFFICES ASSUME open' # <<>>, NEW j \in 1..Len(uses), NEW b \in ToSet(uses[j].blocks),
                      b >= proc'.body
               PROVE  uses[j].proc = proc'.number
    BY DEF UsesInHand
  <2>1. CASE open # <<>> /\ proc' = proc /\ proc.body \in Nat /\ proc.body > 1
    BY <1>1, <2>1 DEF UsesInHand
  <2>2. CASE open = <<>> /\ proc'.body = n + 1
    <3>1. b \in 1..n
      BY <1>4
    <3> QED
      BY <1>1, <2>2, <3>1
  <2> QED
    BY <2>1, <2>2 DEF n
<1> QED
  BY <1>1, <1>5, <1>6, <1>7, <1>8, OwnedPartsNext

LEMMA DeclOwned ==
  ASSUME Base, Entered, Owned, TypedScopes, NEW d, UNCHANGED uses,
         scopes' \in Seq(ToSet(scopes')), Len(scopes') = Len(scopes),
         \A i \in 1..Len(scopes) : scopes'[i].parent = scopes[i].parent,
         decls' \in Seq(Decls), decls' = Append(decls, d),
         d.block = 1 \/ (open # <<>> /\ d.block >= proc.body /\ d.proc = proc.number),
         \/ open' = <<>>
         \/ open # <<>> /\ proc' = proc /\ proc.body \in Nat /\ proc.body > 1
         \/ open = <<>> /\ proc'.body = Len(scopes) + 1
  PROVE  Owned'
<1>1. decls \in Seq(Decls) /\ UsesTyped
  BY DEF Base, Typed, UsesTyped
<1>2. /\ Len(decls) \in Nat /\ Len(decls') = Len(decls) + 1
      /\ \A i \in 1..Len(decls) : decls'[i] = decls[i]
      /\ decls'[Len(decls) + 1] = d
  BY <1>1
<1>3. Len(decls') >= Len(decls)
  BY <1>2
<1>4. \A i \in 1..Len(decls') : i > Len(decls) => i = Len(decls) + 1
  BY <1>2
<1>5. \A i \in 1..Len(decls') : i > Len(decls) => decls'[i] = d
  BY <1>2, <1>4
<1>6. Len(scopes') \in Nat /\ Len(scopes') >= Len(scopes)
  BY DEF TypedScopes
<1> QED
  BY <1>1, <1>2, <1>3, <1>5, <1>6, OwnedKept DEF DeclsTyped

LEMMA GlobalOwned ==
  ASSUME Base, Entered, Owned, NEW n \in Names,
         TablePre(n) \/ \E t \in Signatures, b \in BOOLEAN : ProcPre(n, t, b)
  PROVE  Owned'
<1>1. PICK sym :
        /\ NewNode /\ InsertSymbol(head, n, sym)
        /\ decls' = Append(decls, Declared(n, Last(Around), nodes, sym))
        /\ open = <<>> /\ UNCHANGED uses
        /\ open' = <<>> \/ proc'.body = Len(scopes) + 1
  BY DEF TablePre, ProcPre
<1> DEFINE d == Declared(n, Last(Around), nodes, sym)
<1>2. /\ TypedScopes /\ mode = "build" /\ head \in 1..Len(scopes)
      /\ scopes \in Seq(ToSet(scopes))
  BY <1>1, InBuild
<1>3. d.block = 1
  <2>1. Last(Around) = 1
    BY <1>1, <1>2, AroundScopes
  <2> QED
    BY <2>1, DeclaredParts
<1>4. decls' = Append(decls, d) /\ decls' \in Seq(Decls)
  BY <1>1, TablePreBase, ProcPreBase DEF Base, Typed
<1> HIDE DEF d
<1>5. /\ scopes' \in Seq(ToSet(scopes')) /\ Len(scopes') = Len(scopes)
      /\ \A i \in 1..Len(scopes) : scopes'[i].parent = scopes[i].parent
  BY <1>1, <1>2, Inserted
<1> QED
  BY <1>1, <1>2, <1>3, <1>4, <1>5, DeclOwned

\* nothing new is declared or met, whether a scope is opened or not
LEMMA OwnedScopes ==
  ASSUME TypedScopes, DeclsTyped, UsesTyped, Entered, Owned, UNCHANGED <<uses, decls>>,
         Len(scopes') \in Nat, Len(scopes') >= Len(scopes),
         \A i \in 1..Len(scopes) : scopes'[i].parent = scopes[i].parent,
         \/ open' = <<>>
         \/ open # <<>> /\ proc' = proc /\ proc.body \in Nat /\ proc.body > 1
  PROVE  Owned'
<1>1. DeclsTyped' /\ Len(decls) \in Nat
  BY DEF DeclsTyped
<1>2. Len(decls') >= Len(decls) /\ \A i \in 1..Len(decls') : ~(i > Len(decls))
  BY <1>1
<1> QED
  BY <1>1, <1>2, OwnedKept

LEMMA VarDeclOwned ==
  ASSUME Base, Entered, Owned, NEW n \in Names, NEW t \in Types, VarDecl(n, t)
  PROVE  Owned'
<1>1. NewNode /\ InBlock
  BY DEF VarDecl
<1>2. /\ TypedScopes /\ mode = "build" /\ head \in 1..Len(scopes)
      /\ scopes \in Seq(ToSet(scopes)) /\ Len(scopes) \in Nat /\ DeclsTyped /\ UsesTyped
  BY <1>1, InBuild DEF TypedRest, TypedUses, DeclsTyped, UsesTyped
<1>3. open # <<>> /\ proc.body \in Nat /\ proc.body > 1 /\ head >= proc.body /\ head = Last(Around)
  BY <1>1, <1>2, InBody, BodyBelow, HeadExists
<1>4. CASE Panic
  BY <1>2, <1>3, <1>4, OwnedScopes DEF Panic
<1>5. CASE ~Panic
  <2>1. PICK sym : /\ InsertSymbol(head, n, sym)
                   /\ decls' = Append(decls, Declared(n, Last(Around), nodes, sym))
                   /\ UNCHANGED <<open, proc, uses>>
    BY <1>5 DEF VarDecl
  <2> DEFINE d == Declared(n, Last(Around), nodes, sym)
  <2>2. d.block >= proc.body /\ d.proc = proc.number
    BY <1>3, DeclaredParts
  <2>3. decls' = Append(decls, d) /\ decls' \in Seq(Decls)
    BY <2>1, VarDeclBase DEF Base, Typed
  <2> HIDE DEF d
  <2>4. /\ scopes' \in Seq(ToSet(scopes')) /\ Len(scopes') = Len(scopes)
        /\ \A i \in 1..Len(scopes) : scopes'[i].parent = scopes[i].parent
    BY <1>2, <2>1, Inserted
  <2> QED
    BY <1>2, <1>3, <2>1, <2>2, <2>3, <2>4, DeclOwned
<1> QED
  BY <1>4, <1>5

LEMMA ProcPostOwned == ASSUME Base, Entered, Owned, ProcPost PROVE Owned'
<1> DEFINE m == Len(decls)
           n == Len(proc.params)
<1>1. /\ TypedScopes /\ TypedProc /\ decls \in Seq(Decls) /\ mode = "build" /\ open # <<>>
      /\ proc.body \in 2..Len(scopes) /\ Len(scopes) \in Nat /\ m \in Nat /\ n \in Nat
      /\ Panic \/ ParamsGiven
  BY ProcPostParts
<1>2. UsesTyped
  BY DEF Base, Typed, UsesTyped
<1>3. CASE Panic
  <2>1. proc.body \in Nat /\ proc.body > 1
    BY <1>1
  <2> QED
    BY <1>1, <1>2, <1>3, <2>1, OwnedScopes DEF Panic, DeclsTyped
<1>4. CASE ParamsGiven
  <2>1. /\ Len(decls') = m + n /\ decls' \in Seq(Decls)
        /\ \A i \in 1..m : decls'[i] = decls[i]
        /\ \A i \in 1..n : decls'[m + i] = ParamDecl(i)
        /\ UNCHANGED uses /\ open' = <<>>
    BY <1>4 DEF ParamsGiven
  <2>2. /\ Len(scopes') = Len(scopes)
        /\ \A i \in 1..Len(scopes) : scopes'[i].parent = scopes[i].parent
    <3>1. proc.body \in 1..Len(scopes)
      BY <1>1
    <3> QED
      BY <1>1, <1>4, <3>1, ParamsInserted DEF ParamsGiven
  <2>3. ASSUME NEW i \in 1..Len(decls'), i > m
        PROVE  decls'[i].block >= proc.body /\ decls'[i].proc = proc.number
    <3> HIDE DEF m, n
    <3>1. i - m \in 1..n /\ i = m + (i - m)
      BY <1>1, <2>1, <2>3
    <3>2. decls'[i] = ParamDecl(i - m)
      BY <2>1, <3>1
    <3>3. decls'[i].block = proc.body /\ decls'[i].proc = proc.number
      BY <3>2, ParamDeclParts
    <3> QED
      BY <1>1, <3>3
  <2>4. Len(decls') >= m /\ Len(scopes') >= Len(scopes) /\ Len(scopes') \in Nat
    <3> HIDE DEF m, n
    <3> QED
      BY <1>1, <2>1, <2>2
  <2> QED
    BY <1>1, <1>2, <2>1, <2>2, <2>3, <2>4, OwnedKept DEF DeclsTyped
<1> QED
  BY <1>1, <1>3, <1>4

LEMMA UseOwned ==
  ASSUME Base, Entered, Owned, NEW x \in Names, Use(x)
  PROVE  Owned'
<1> DEFINE n == Len(uses)
           u == [name |-> x, blocks |-> Around, proc |-> proc.number, seen |-> nodes]
<1>1. /\ NewNode /\ InBlock /\ uses' = Append(uses, u)
      /\ UNCHANGED <<scopes, open, proc, decls>>
  BY DEF Use
<1>2. u.blocks = Around /\ u.proc = proc.number
  OBVIOUS
<1>3. DeclsTyped /\ UsesTyped
  BY DEF Base, Typed, DeclsTyped, UsesTyped
<1>4. UsesTyped'
  BY UseBase DEF Base, Typed, UsesTyped
<1>5. UsesChained /\ UsesOwned /\ DeclsInHand /\ UsesInHand /\ DeclsTyped'
  BY <1>1, <1>3, OwnedParts DEF DeclsTyped
<1> HIDE DEF u
<1>6. /\ n \in Nat /\ Len(uses') = n + 1
      /\ (\A j \in 1..n : uses'[j] = uses[j]) /\ uses'[n + 1] = u
      /\ \A j \in 1..n + 1 : j \in 1..n \/ j = n + 1
  BY <1>1, <1>3 DEF UsesTyped
<1> HIDE DEF n
<1>7. open # <<>> /\ IsChain(Around, scopes) /\ Around[2] = proc.body
  BY <1>1, InBody
<1>8. UsesChained'
  <2>1. ASSUME NEW j \in 1..n + 1 PROVE IsChain(uses'[j].blocks, scopes)
    <3>1. CASE j = n + 1
      BY <1>2, <1>6, <1>7, <3>1
    <3>2. CASE j \in 1..n
      BY <1>5, <1>6, <3>2 DEF UsesChained, n
    <3> QED
      BY <1>6, <3>1, <3>2
  <2> QED
    BY <1>1, <1>6, <2>1 DEF UsesChained
<1>9. UsesOwned'
  <2> SUFFICES ASSUME NEW i \in 1..Len(decls), NEW j \in 1..n + 1,
                      decls[i].block # 1, decls[i].block \in ToSet(uses'[j].blocks)
               PROVE  decls[i].proc = uses'[j].proc
    BY <1>1, <1>6 DEF UsesOwned
  <2>1. CASE j = n + 1
    <3>1. PICK k \in 1..Len(Around) : decls[i].block = Around[k]
      <4>1. uses'[j].blocks = Around
        BY <1>2, <1>6, <2>1
      <4> QED
        BY <1>7, <4>1, ChainBlocks
    <3>2. /\ Len(Around) \in Nat /\ Around[1] = 1
          /\ Around \in Seq(1..Len(scopes))
          /\ \A p, q \in 1..Len(Around) : p < q => Around[p] < Around[q]
      BY <1>7, ChainBlocks DEF IsChain
    <3>3. k # 1
      BY <3>1, <3>2
    <3>4. k = 2 \/ Around[2] < Around[k]
      <4>1. 2 \in 1..Len(Around) /\ (k = 2 \/ 2 < k)
        BY <3>1, <3>2, <3>3
      <4> QED
        BY <3>1, <3>2, <4>1
    <3>5. 2 \in 1..Len(Around)
      BY <3>1, <3>2, <3>3
    <3>6. Around[2] \in 1..Len(scopes) /\ Around[k] \in 1..Len(scopes)
      BY <3>2, <3>5, ElementOf
    <3>7. decls[i].block >= proc.body
      <4>1. decls[i].block = proc.body \/ proc.body < decls[i].block
        BY <1>7, <3>1, <3>4
      <4>2. decls[i].block \in Nat /\ proc.body \in Nat
        BY <1>7, <3>1, <3>6
      <4> QED
        BY <4>1, <4>2
    <3> QED
      BY <1>2, <1>5, <1>6, <1>7, <2>1, <3>7 DEF DeclsInHand
  <2>2. CASE j \in 1..n
    BY <1>5, <1>6, <2>2 DEF UsesOwned, n
  <2> QED
    BY <1>6, <2>1, <2>2
<1>10. DeclsInHand'
  BY <1>1, <1>5 DEF DeclsInHand
<1>11. UsesInHand'
  <2> SUFFICES ASSUME NEW j \in 1..n + 1, NEW b \in ToSet(uses'[j].blocks), b >= proc.body
               PROVE  uses'[j].proc = proc.number
    BY <1>1, <1>6 DEF UsesInHand
  <2>1. CASE j = n + 1
    BY <1>2, <1>6, <2>1
  <2>2. CASE j \in 1..n
    BY <1>5, <1>6, <1>7, <2>2 DEF UsesInHand, n
  <2> QED
    BY <1>6, <2>1, <2>2
<1> QED
  BY <1>4, <1>5, <1>8, <1>9, <1>10, <1>11, OwnedPartsNext

LEMMA NextOwned == Base /\ Entered /\ Owned /\ [Next]_vars => Owned'
<1> SUFFICES ASSUME Base, Entered, Owned, [Next]_vars PROVE Owned'
  OBVIOUS
<1>1. /\ TypedScopes /\ DeclsTyped /\ UsesTyped /\ Len(scopes) \in Nat /\ Len(scopes) > 0
      /\ scopes \in Seq(ToSet(scopes))
  BY TypedParts DEF Base, TypedScopes, TypedRest, TypedUses, DeclsTyped, UsesTyped
<1>2. CASE \E n \in Names : \/ TablePre(n)
                            \/ \E t \in Signatures, b \in BOOLEAN : ProcPre(n, t, b)
  BY <1>2, GlobalOwned
<1>3. CASE BodyPre \/ BlockPre
  <2>1. /\ Push /\ UNCHANGED <<decls, uses, proc>> /\ mode = "build"
        /\ In("proc_pre") \/ InBlock
    BY <1>3 DEF BodyPre, BlockPre, NewNode
  <2>2. /\ Len(scopes') = Len(scopes) + 1
        /\ \A i \in 1..Len(scopes) : scopes'[i] = scopes[i]
    BY <1>1, <2>1, Pushed
  <2>3. Len(scopes') \in Nat /\ Len(scopes') >= Len(scopes)
    BY <1>1, <2>2
  <2>4. open # <<>> /\ proc.body \in Nat /\ proc.body > 1
    <3>1. CASE In("proc_pre")
      <4>1. proc.body = Len(scopes) + 1 /\ open # <<>>
        BY <3>1 DEF Base, Nested, In
      <4> QED
        BY <1>1, <4>1
    <3>2. CASE InBlock
      BY <3>2, InBody, BodyBelow
    <3> QED
      BY <2>1, <3>1, <3>2
  <2> QED
    BY <1>1, <2>1, <2>2, <2>3, <2>4, OwnedScopes
<1>4. CASE BlockPost \/ \E t \in Types, l \in ArrayLengths : ArrayPre(t, l)
  <2>1. InBlock /\ UNCHANGED <<scopes, decls, uses, proc>>
    BY <1>4 DEF BlockPost, ArrayPre, Panic
  <2>2. open # <<>> /\ proc.body \in Nat /\ proc.body > 1
    BY <2>1, InBody, BodyBelow
  <2> QED
    BY <1>1, <2>1, <2>2, OwnedScopes
<1>5. CASE BuildEnd
  <2>1. open' = <<>> /\ UNCHANGED <<scopes, decls, uses>>
    BY <1>5 DEF BuildEnd
  <2> QED
    BY <1>1, <2>1, OwnedScopes
<1>6. CASE LiteralIdent \/ CodegenEnd \/ Terminated \/ UNCHANGED vars
  BY <1>6 DEF LiteralIdent, CodegenEnd, Terminated, vars, Owned
<1> QED
  BY <1>2, <1>3, <1>4, <1>5, <1>6, VarDeclOwned, ProcPostOwned, UseOwned DEF Next, Build

LEMMA OwnedAlways == Spec => []Owned
<1>1. Init => Owned
  BY DEF Init, Owned
<1> QED
  BY <1>1, NextOwned, BaseAlways, EnteredAlways, PTL DEF Spec

-----------------------------------------------------------------------------
(* The second walk                                                         *)

LEMMA LookupKept ==
  ASSUME UNCHANGED scopes
  PROVE  \A s, x : Lookup(s, x)' = Lookup(s, x)
BY DEF Lookup, ScopeOf

LEMMA NextResolved == Base /\ Base' /\ Resolved /\ [Next]_vars => Resolved'
<1> SUFFICES ASSUME Base, Base', Resolved, [Next]_vars PROVE Resolved'
  OBVIOUS
<1>1. Len(uses) \in Nat /\ Len(uses') \in Nat /\ bound \in Seq(ToSet(bound))
  BY DEF Base, Typed
<1>2. CASE Build
  <2>1. mode = "build" /\ bound' = bound
    BY <1>2 DEF Build, TablePre, Use, VarDecl, ProcPre, ArrayPre, BodyPre, BlockPre, BlockPost,
                ProcPost, BuildEnd, NewNode, Panic
  <2>2. bound' = <<>>
    BY <2>1 DEF Resolved
  <2> QED
    BY <1>1, <2>2 DEF Resolved
<1>3. CASE LiteralIdent
  <2> DEFINE n == Len(bound)
             Found(i) == Lookup(Last(uses[i].blocks), uses[i].name)
  <2>1. /\ mode' \in {"codegen", "rejected"} /\ n \in Nat /\ n < Len(uses)
        /\ Len(bound') = n + 1 /\ DOMAIN bound = 1..n /\ DOMAIN bound' = 1..n + 1
        /\ (\A i \in 1..n : bound'[i] = bound[i]) /\ bound'[n + 1] = Found(n + 1)
        /\ UNCHANGED <<scopes, uses>>
    BY <1>3, LookedUp
  <2>2. \A s, x : Lookup(s, x)' = Lookup(s, x)
    BY <2>1, LookupKept
  <2>3. \A i \in 1..n : bound[i] = Found(i)
    BY <2>1 DEF Resolved
  <2> HIDE DEF n, Found
  <2>4. \A i \in 1..n + 1 : i \in 1..n \/ i = n + 1
    BY <2>1
  <2>5. \A i \in DOMAIN bound' : bound'[i] = Found(i)
    BY <2>1, <2>3, <2>4
  <2>6. Len(bound') <= Len(uses) /\ UNCHANGED uses
    BY <1>1, <2>1
  <2> QED
    BY <2>1, <2>2, <2>5, <2>6 DEF Resolved, Found
<1>4. CASE CodegenEnd \/ Terminated \/ UNCHANGED vars
  <2>1. UNCHANGED <<scopes, uses, bound>> /\ (mode' \in {"build", "panic"} => mode' = mode)
    BY <1>4 DEF CodegenEnd, Terminated, vars
  <2>2. \A s, x : Lookup(s, x)' = Lookup(s, x)
    BY <2>1, LookupKept
  <2> QED
    BY <2>1, <2>2 DEF Resolved
<1> QED
  BY <1>2, <1>3, <1>4 DEF Next

LEMMA ResolvedAlways == Spec => []Resolved
<1>1. Init => Resolved
  BY DEF Init, Resolved
<1> QED
  BY <1>1, NextResolved, BaseAlways, PTL DEF Spec

\* A search that begins in the innermost of nested blocks ends at the innermost of them
\* that holds the name.
LEMMA Resolve ==
  ASSUME ParentsFirst, NEW B, IsChain(B, scopes), NEW x
  PROVE  LET found == ScopeOf(Last(B), x)
             Holds(i) == x \in DOMAIN scopes[B[i]].names
         IN \/ found = 0 /\ \A i \in 1..Len(B) : ~Holds(i)
            \/ \E k \in 1..Len(B) :
                 /\ found = B[k] /\ Holds(k)
                 /\ \A i \in 1..Len(B) : Holds(i) => i <= k
<1> DEFINE n == Len(B)
           Holds(i) == x \in DOMAIN scopes[B[i]].names
           None(p) == ScopeOf(B[p], x) = 0 /\ \A i \in 1..p : ~Holds(i)
           Some(p) == \E k \in 1..p : /\ ScopeOf(B[p], x) = B[k] /\ Holds(k)
                                      /\ \A i \in 1..p : Holds(i) => i <= k
           S == {p \in 1..n : None(p) \/ Some(p)}
<1>1. /\ n \in Nat /\ n > 0 /\ Last(B) = B[n] /\ B[1] = 1
      /\ \A i \in 1..n : B[i] \in 1..Len(scopes)
      /\ \A i \in 1..n - 1 : scopes[B[i + 1]].parent = B[i]
  BY ChainBlocks DEF IsChain
<1>2. \A i \in 1..n : ScopeOf(B[i], x) = IF Holds(i) THEN B[i] ELSE ScopeOf(scopes[B[i]].parent, x)
  BY <1>1, ScopeOfStep
<1>3. ScopeOf(scopes[B[1]].parent, x) = 0
  <2>1. 1 \in 1..Len(scopes)
    BY <1>1
  <2>2. scopes[1].parent \in 0..1 - 1
    BY <2>1 DEF ParentsFirst
  <2>3. scopes[1].parent = 0
    BY <2>2
  <2> QED
    BY <1>1, <2>3, ScopeOfStep
<1> HIDE DEF n, Holds
<1>4. 1 \in S
  <2>1. 1 \in 1..n /\ 1 \in 1..1 /\ \A i \in 1..1 : i = 1
    BY <1>1
  <2>2. CASE Holds(1)
    <3>1. ScopeOf(B[1], x) = B[1]
      BY <1>2, <2>1, <2>2
    <3> QED
      BY <2>1, <2>2, <3>1
  <2>3. CASE ~Holds(1)
    <3>1. ScopeOf(B[1], x) = 0
      BY <1>2, <1>3, <2>1, <2>3
    <3> QED
      BY <2>1, <2>3, <3>1
  <2> QED
    BY <2>2, <2>3
<1>5. ASSUME NEW p \in 1..n - 1, p \in S PROVE p + 1 \in S
  <2>1. /\ p + 1 \in 1..n /\ p \in 1..p /\ p + 1 \in 1..p + 1 /\ p \in Nat
        /\ \A i \in 1..p + 1 : i \in 1..p \/ i = p + 1
        /\ \A i \in 1..p : i \in 1..p + 1
    BY <1>1
  <2>2. CASE Holds(p + 1)
    <3>1. ScopeOf(B[p + 1], x) = B[p + 1]
      BY <1>2, <2>1, <2>2
    <3>2. \A i \in 1..p + 1 : i <= p + 1
      BY <2>1
    <3> QED
      BY <2>1, <2>2, <3>1, <3>2
  <2>3. CASE ~Holds(p + 1)
    <3>1. ScopeOf(B[p + 1], x) = ScopeOf(B[p], x)
      BY <1>1, <1>2, <2>1, <2>3
    <3>2. CASE None(p)
      BY <2>1, <2>3, <3>1, <3>2
    <3>3. CASE Some(p)
      BY <2>1, <2>3, <3>1, <3>3
    <3> QED
      BY <1>5, <2>1, <3>2, <3>3
  <2> QED
    BY <2>2, <2>3
<1> HIDE DEF S
<1>6. n \in S
  <2>1. 1..n \subseteq S
    BY <1>1, <1>4, <1>5, PlaceInduction
  <2>2. n \in 1..n
    BY <1>1
  <2> QED
    BY <2>1, <2>2
<1> QED
  BY <1>1, <1>6 DEF S, n, Holds

\* what the second walk has found is what a block around the identifier declares
LEMMA Found ==
  ASSUME Base, Entered, Owned, Resolved, NEW i \in 1..Len(bound)
  PROVE  LET u == uses[i]
             d(j) == decls[j]
         IN /\ i \in 1..Len(uses) /\ IsChain(u.blocks, scopes)
            /\ \/ /\ bound[i] = NoSymbol
                  /\ \A j \in 1..Len(decls) : ~(d(j).name = u.name /\ d(j).block \in ToSet(u.blocks))
               \/ \E j \in 1..Len(decls) :
                    /\ d(j).name = u.name /\ d(j).block \in ToSet(u.blocks)
                    /\ SameSymbol(bound[i], d(j))
                    /\ \A k \in 1..Len(decls) :
                         d(k).name = u.name /\ d(k).block \in ToSet(u.blocks)
                           => d(k).block <= d(j).block
<1> DEFINE u == uses[i]
           B == u.blocks
           x == u.name
           Holds(b) == x \in DOMAIN scopes[b].names
<1>1. /\ TypedScopes /\ DeclsTyped /\ UsesTyped /\ Len(bound) \in Nat /\ Len(uses) \in Nat
      /\ DOMAIN bound = 1..Len(bound)
  BY TypedParts DEF Base, Typed, DeclsTyped, UsesTyped
<1>2. NamesDeclared /\ DeclsEntered /\ UsesChained
  BY <1>1, EnteredParts, OwnedParts
<1>3. i \in 1..Len(uses) /\ bound[i] = Lookup(Last(B), x)
  BY <1>1 DEF Resolved
<1>4. IsChain(B, scopes)
  BY <1>2, <1>3 DEF UsesChained
<1>5. ParentsFirst
  BY <1>1 DEF TypedScopes, ParentsFirst
<1> HIDE DEF B, x
<1>6. \A k \in 1..Len(decls) : decls[k].name = x => Holds(decls[k].block)
  BY <1>2 DEF DeclsEntered
<1>7. /\ Len(B) \in Nat /\ (\A k \in 1..Len(B) : B[k] \in 1..Len(scopes)) /\ DOMAIN B = 1..Len(B)
      /\ \A b \in ToSet(B) : \E k \in 1..Len(B) : b = B[k]
  BY <1>4, ChainBlocks
<1>8. CASE ScopeOf(Last(B), x) = 0 /\ \A k \in 1..Len(B) : ~Holds(B[k])
  <2>1. bound[i] = NoSymbol
    BY <1>3, <1>8 DEF Lookup
  <2>2. \A j \in 1..Len(decls) : ~(decls[j].name = x /\ decls[j].block \in ToSet(B))
    BY <1>6, <1>7, <1>8
  <2> QED
    BY <1>3, <1>4, <2>1, <2>2 DEF B, x
<1>9. CASE \E k \in 1..Len(B) : /\ ScopeOf(Last(B), x) = B[k] /\ Holds(B[k])
                                /\ \A p \in 1..Len(B) : Holds(B[p]) => p <= k
  <2>1. PICK k \in 1..Len(B) : /\ ScopeOf(Last(B), x) = B[k] /\ Holds(B[k])
                               /\ \A p \in 1..Len(B) : Holds(B[p]) => p <= k
    BY <1>9
  <2>2. B[k] \in 1..Len(scopes) /\ B[k] # 0 /\ B[k] \in ToSet(B)
    BY <1>7, ToSetOf
  <2>3. bound[i] = scopes[B[k]].names[x]
    BY <1>3, <2>1, <2>2 DEF Lookup
  <2>4. PICK j \in 1..Len(decls) : Declares(decls[j], B[k], x, bound[i])
    BY <1>2, <2>1, <2>2, <2>3 DEF NamesDeclared
  <2>5. ASSUME NEW q \in 1..Len(decls), decls[q].name = x, decls[q].block \in ToSet(B)
        PROVE  decls[q].block <= B[k]
    <3>1. PICK p \in 1..Len(B) : decls[q].block = B[p]
      BY <1>7, <2>5
    <3>2. p <= k
      BY <1>6, <2>1, <2>5, <3>1
    <3>3. \A a, b \in 1..Len(B) : a < b => B[a] < B[b]
      BY <1>4 DEF IsChain
    <3>4. p = k \/ B[p] < B[k]
      BY <1>7, <3>2, <3>3
    <3>5. B[p] \in 1..Len(scopes)
      BY <1>7
    <3> QED
      BY <2>2, <3>1, <3>4, <3>5
  <2>6. decls[j].name = x /\ decls[j].block = B[k] /\ SameSymbol(bound[i], decls[j])
    BY <2>4 DEF Declares
  <2> QED
    BY <1>3, <1>4, <2>2, <2>5, <2>6 DEF B, x
<1> QED
  BY <1>4, <1>5, <1>8, <1>9, Resolve

\* Whichever scope a search ends at, what it finds is global or lies in the frame of the
\* procedure the identifier stands in: no block of another procedure is around it.
THEOREM OwnFrame == Spec => []UsesOwnFrame
<1>1. Base /\ Entered /\ Owned /\ Resolved => UsesOwnFrame
  <2> SUFFICES ASSUME Base, Entered, Owned, Resolved, NEW i \in DOMAIN bound,
                      bound[i].kind \in {"VARIABLE", "PARAMETER"}
               PROVE  \E s \in slots : s.proc = uses[i].proc /\ s.high = bound[i].offset
    BY DEF UsesOwnFrame
  <2>1. i \in 1..Len(bound) /\ DeclsTyped /\ UsesTyped
    <3>1. TypedRest
      BY TypedParts DEF Base
    <3> QED
      BY <3>1 DEF TypedRest, TypedUses, DeclsTyped, UsesTyped
  <2>2. NoSymbol.kind = "NONE"
    BY SymbolParts DEF NoSymbol
  <2>3. i \in 1..Len(uses)
    BY <2>1, Found
  <2>4. PICK j \in 1..Len(decls) : /\ decls[j].block \in ToSet(uses[i].blocks)
                                   /\ SameSymbol(bound[i], decls[j])
    BY <2>1, <2>2, Found
  <2>5. UsesOwned /\ DeclsPlaced
    BY <2>1, EnteredParts, OwnedParts
  <2>6. decls[j].block # 1 /\ \E s \in slots : s.proc = decls[j].proc /\ s.high = decls[j].offset
    BY <2>4, <2>5 DEF DeclsPlaced, LocalPlaced, Local, SameSymbol
  <2>7. decls[j].proc = uses[i].proc
    BY <2>3, <2>4, <2>5, <2>6 DEF UsesOwned
  <2> QED
    BY <2>4, <2>6, <2>7 DEF SameSymbol
<1> QED
  BY <1>1, BaseAlways, EnteredAlways, OwnedAlways, ResolvedAlways, PTL

\* Where no two declarations compete for an identifier, the second walk resolves it by the
\* rules of lexical scoping, however the blocks are nested.
THEOREM LexicalScoping == Spec => []LexicalWhenUnambiguous
<1>1. Base /\ Entered /\ Owned /\ Resolved => LexicalWhenUnambiguous
  <2> SUFFICES ASSUME Base, Entered, Owned, Resolved, NEW i \in DOMAIN bound,
                      Unambiguous(uses[i])
               PROVE  \/ \E d \in Candidates(uses[i]) :
                           Means(uses[i], d) /\ SameSymbol(bound[i], d)
                      \/ Candidates(uses[i]) = {} /\ bound[i] = NoSymbol
    BY DEF LexicalWhenUnambiguous
  <2> DEFINE u == uses[i]
             C == {decls[j] : j \in {k \in 1..Len(decls) :
                     decls[k].name = u.name /\ decls[k].block \in ToSet(u.blocks)}}
  <2>1. i \in 1..Len(bound) /\ decls \in Seq(Decls) /\ DOMAIN decls = 1..Len(decls)
    <3>1. TypedRest
      BY TypedParts DEF Base
    <3> QED
      BY <3>1 DEF TypedRest
  <2>2. Candidates(u) = C
    BY <2>1, ToSetOf DEF Candidates
  <2>3. \A d \in C : d.seen \in Nat /\ d.block \in Nat
    <3>1. \A k \in 1..Len(decls) : decls[k] \in Decls
      BY <2>1, ElementOf
    <3>2. \A d \in Decls : d.seen \in Nat /\ d.block \in Nat
      BY DEF Decls
    <3>3. C \subseteq Decls
      BY <3>1
    <3> QED
      BY <3>2, <3>3
  <2>4. CASE C = {} /\ bound[i] = NoSymbol
    BY <2>2, <2>4
  <2>5. CASE \E d \in C : SameSymbol(bound[i], d) /\ \A e \in C : e.block <= d.block
    <3>1. PICK d \in C : SameSymbol(bound[i], d) /\ \A e \in C : e.block <= d.block
      BY <2>5
    <3> HIDE DEF C
    <3>2. d.seen < u.seen
      BY <2>2 DEF Unambiguous
    <3>3. ASSUME NEW e \in C PROVE e.block < d.block \/ (e.block = d.block /\ e.seen <= d.seen)
      <4>1. e.block = d.block => e = d
        BY <2>2 DEF Unambiguous
      <4>2. e.block <= d.block
        BY <3>1
      <4> QED
        BY <2>3, <4>1, <4>2
    <3> QED
      BY <2>2, <3>1, <3>2, <3>3 DEF Means
  <2>6. \/ C = {} /\ bound[i] = NoSymbol
        \/ \E d \in C : SameSymbol(bound[i], d) /\ \A e \in C : e.block <= d.block
    <3>1. CASE /\ bound[i] = NoSymbol
               /\ \A j \in 1..Len(decls) :
                    ~(decls[j].name = u.name /\ decls[j].block \in ToSet(u.blocks))
      BY <3>1
    <3>2. CASE \E j \in 1..Len(decls) :
                 /\ decls[j].name = u.name /\ decls[j].block \in ToSet(u.blocks)
                 /\ SameSymbol(bound[i], decls[j])
                 /\ \A k \in 1..Len(decls) :
                      decls[k].name = u.name /\ decls[k].block \in ToSet(u.blocks)
                        => decls[k].block <= decls[j].block
      BY <3>2
    <3> QED
      BY <2>1, <3>1, <3>2, Found
  <2> QED
    BY <2>4, <2>5, <2>6
<1> QED
  BY <1>1, BaseAlways, EnteredAlways, OwnedAlways, ResolvedAlways, PTL

-----------------------------------------------------------------------------
(* Sums                                                                    *)
(*                                                                         *)
(* The sum of the sizes of slots that are apart is the number of the bytes *)
(* in them: counting bytes, it does not matter in which order the fold     *)
(* takes the slots.                                                        *)

Bytes(S) == UNION {s.low + 1..s.high : s \in S}

\* the slots in S are apart
Apart(S) ==
  /\ \A s \in S : s.low \in Nat /\ s.high \in Nat /\ s.low <= s.high
  /\ \A s, t \in S : s # t => s.high <= t.low \/ t.high <= s.low

LEMMA BytesWithout ==
  ASSUME NEW S, IsFiniteSet(S), Apart(S), NEW s \in S
  PROVE  /\ IsFiniteSet(Bytes(S)) /\ Cardinality(Bytes(S)) \in Nat
         /\ Cardinality(Bytes(S)) = (s.high - s.low) + Cardinality(Bytes(S \ {s}))
<1> DEFINE A == s.low + 1..s.high
           B == Bytes(S \ {s})
<1>1. s.low \in Nat /\ s.high \in Nat /\ s.low <= s.high
  BY DEF Apart
<1>2. Bytes(S) = A \cup B
  BY DEF Bytes
<1>3. A \cap B = {}
  <2> SUFFICES ASSUME NEW t \in S, t # s, NEW x \in A, x \in t.low + 1..t.high PROVE FALSE
    BY DEF Bytes
  <2>1. t.low \in Nat /\ t.high \in Nat /\ (s.high <= t.low \/ t.high <= s.low)
    BY DEF Apart
  <2> QED
    BY <1>1, <2>1
<1>4. IsFiniteSet(B)
  <2> DEFINE F == [t \in S \ {s} |-> t.low + 1..t.high]
             R == {t.low + 1..t.high : t \in S \ {s}}
  <2>1. IsFiniteSet(S \ {s})
    BY FS_RemoveElement
  <2>2. F \in Surjection(S \ {s}, R)
    BY DEF Surjection
  <2>3. IsFiniteSet(R)
    BY <2>1, <2>2, FS_Surjection
  <2>4. ASSUME NEW t \in S \ {s} PROVE IsFiniteSet(t.low + 1..t.high)
    <3>1. t.low + 1 \in Int /\ t.high \in Int
      BY DEF Apart
    <3> QED
      BY <3>1, FS_Interval
  <2> QED
    BY <2>3, <2>4, FS_UNION DEF Bytes
<1>5. IsFiniteSet(A) /\ Cardinality(A) = s.high - s.low
  <2>1. s.low + 1 \in Int /\ s.high \in Int
    BY <1>1
  <2>2. /\ IsFiniteSet(A)
        /\ Cardinality(A) = IF s.low + 1 > s.high THEN 0 ELSE s.high - (s.low + 1) + 1
    BY <2>1, FS_Interval
  <2> HIDE DEF A
  <2> QED
    BY <1>1, <2>2
<1> HIDE DEF A, B
<1>6. /\ IsFiniteSet(A \cup B)
      /\ Cardinality(A \cup B) = Cardinality(A) + Cardinality(B) - Cardinality(A \cap B)
  BY <1>4, <1>5, FS_Union
<1>7. Cardinality(A \cap B) = 0 /\ Cardinality(B) \in Nat /\ Cardinality(A \cup B) \in Nat
  BY <1>3, <1>4, <1>6, FS_EmptySet, FS_CardinalityType
<1> QED
  BY <1>1, <1>2, <1>5, <1>6, <1>7 DEF B

Taken(T) == CHOOSE s \in T : TRUE

\* sum adds up the sizes of the slots in every part of S
AreSums(sum, S) ==
  sum = [T \in SUBSET S |->
           IF T = {} THEN 0 ELSE (Taken(T).high - Taken(T).low) + sum[T \ {Taken(T)}]]

SizeSum(S) == MapThenSumSet(LAMBDA s : s.high - s.low, S)

LEMMA SumIsBytes ==
  ASSUME NEW S, IsFiniteSet(S), Apart(S)
  PROVE  SizeSum(S) = Cardinality(Bytes(S))
<1> DEFINE sum == CHOOSE f : AreSums(f, S)
           count == [T \in SUBSET S |-> Cardinality(Bytes(T))]
           K == {k \in Nat : \A T \in SUBSET S : Cardinality(T) = k => sum[T] = count[T]}
<1>1. SizeSum(S) = sum[S]
  BY DEF SizeSum, MapThenSumSet, MapThenFoldSet, AreSums, Taken
<1>2. \A T \in SUBSET S : T # {} => Taken(T) \in T
  BY DEF Taken
<1>3. \A T \in SUBSET S : IsFiniteSet(T) /\ Apart(T)
  BY FS_Subset DEF Apart
<1>4. count[{}] = 0
  BY FS_EmptySet DEF Bytes
<1>5. ASSUME NEW T \in SUBSET S, T # {}
      PROVE  count[T] = (Taken(T).high - Taken(T).low) + count[T \ {Taken(T)}]
  BY <1>2, <1>3, <1>5, BytesWithout
<1>6. AreSums(count, S)
  <2>1. \A T \in SUBSET S : count[T] =
          IF T = {} THEN 0 ELSE (Taken(T).high - Taken(T).low) + count[T \ {Taken(T)}]
    BY <1>4, <1>5
  <2>2. count = [T \in SUBSET S |-> count[T]]
    OBVIOUS
  <2> HIDE DEF count
  <2> QED
    BY <2>1, <2>2 DEF AreSums
<1> HIDE DEF count
<1>7. AreSums(sum, S)
  BY <1>6
<1> HIDE DEF sum
<1>8. 0 \in K
  <2>1. ASSUME NEW T \in SUBSET S, Cardinality(T) = 0 PROVE sum[T] = count[T]
    <3>1. T = {}
      BY <1>3, <2>1, FS_EmptySet
    <3> QED
      BY <1>4, <1>7, <3>1 DEF AreSums
  <2> QED
    BY <2>1
<1>9. ASSUME NEW k \in Nat, k \in K PROVE k + 1 \in K
  <2>1. ASSUME NEW T \in SUBSET S, Cardinality(T) = k + 1 PROVE sum[T] = count[T]
    <3>1. T # {}
      BY <2>1, FS_EmptySet
    <3>2. Cardinality(T \ {Taken(T)}) = k
      BY <1>2, <1>3, <2>1, <3>1, FS_RemoveElement
    <3>3. sum[T \ {Taken(T)}] = count[T \ {Taken(T)}]
      BY <1>9, <3>2
    <3>4. sum[T] = (Taken(T).high - Taken(T).low) + sum[T \ {Taken(T)}]
      BY <1>7, <3>1 DEF AreSums
    <3> QED
      BY <1>5, <3>1, <3>3, <3>4
  <2> QED
    BY <2>1
<1> HIDE DEF K
<1>10. Nat \subseteq K
  BY <1>8, <1>9, NatSetInduction
<1>11. Cardinality(S) \in K
  BY <1>10, FS_CardinalityType
<1>12. sum[S] = count[S]
  BY <1>11 DEF K
<1> QED
  BY <1>1, <1>12 DEF count

\* the slots of S lie on one another
IsPile(S, slot, top, n) ==
  /\ S = {slot[i] : i \in 1..n}
  /\ \A j \in 0..n : top[j] \in Nat
  /\ \A i \in 1..n :
       top[i - 1] <= top[i] /\ slot[i].low = top[i - 1] /\ slot[i].high = top[i]

\* slots piled on one another fill the bytes from the lowest to the highest
LEMMA PileBytes ==
  ASSUME NEW n \in Nat, NEW top, NEW slot, NEW S, IsPile(S, slot, top, n)
  PROVE  Bytes(S) = top[0] + 1..top[n]
<1> DEFINE Pile(k) == {slot[i] : i \in 1..k}
           K == {k \in 0..n : Bytes(Pile(k)) = top[0] + 1..top[k] /\ top[0] <= top[k]}
<1>0. /\ S = {slot[i] : i \in 1..n}
      /\ \A j \in 0..n : top[j] \in Nat
      /\ \A i \in 1..n :
           top[i - 1] <= top[i] /\ slot[i].low = top[i - 1] /\ slot[i].high = top[i]
  BY DEF IsPile
<1>1. 0 \in K
  <2>1. Bytes(Pile(0)) = {}
    BY DEF Bytes
  <2>2. 0 \in 0..n /\ top[0] \in Nat
    BY <1>0
  <2>3. top[0] + 1..top[0] = {} /\ top[0] <= top[0]
    BY <2>2
  <2> HIDE DEF Pile
  <2> QED
    BY <2>1, <2>2, <2>3
<1>2. ASSUME NEW k \in 0..n - 1, k \in K PROVE k + 1 \in K
  <2>1. k + 1 \in 1..n /\ k \in 0..n /\ k + 1 \in 0..n /\ (k + 1) - 1 = k /\ 0 \in 0..n
    OBVIOUS
  <2>2. /\ top[0] \in Nat /\ top[k] \in Nat /\ top[k + 1] \in Nat /\ top[k] <= top[k + 1]
        /\ slot[k + 1].low = top[k] /\ slot[k + 1].high = top[k + 1]
    BY <1>0, <2>1
  <2>3. 1..k + 1 = 1..k \cup {k + 1}
    BY <2>1
  <2>4. Pile(k + 1) = Pile(k) \cup {slot[k + 1]}
    BY <2>3
  <2>5. Bytes(Pile(k + 1)) = Bytes(Pile(k)) \cup (top[k] + 1..top[k + 1])
    BY <2>2, <2>4 DEF Bytes
  <2> HIDE DEF Pile
  <2>6. Bytes(Pile(k)) = top[0] + 1..top[k] /\ top[0] <= top[k]
    BY <1>2
  <2>7. top[0] + 1..top[k + 1] = (top[0] + 1..top[k]) \cup (top[k] + 1..top[k + 1])
    BY <2>2, <2>6
  <2>8. Bytes(Pile(k + 1)) = top[0] + 1..top[k + 1]
    BY <2>5, <2>6, <2>7, Zenon
  <2>9. top[0] <= top[k + 1]
    BY <2>2, <2>6
  <2> QED
    BY <2>1, <2>8, <2>9
<1> HIDE DEF K
<1>3. 0..n \subseteq K
  BY <1>1, <1>2, IntervalInduction
<1>4. n \in K
  BY <1>3
<1> QED
  BY <1>0, <1>4 DEF K

-----------------------------------------------------------------------------
(* Alignment                                                               *)
(*                                                                         *)
(* While the walk is in a procedure all it has given out are multiples of  *)
(* 16 bytes; only proc_post() adds others, all at once and on the top.     *)

IsParam(d, p) == d.kind = "PARAMETER" /\ d.proc = p

ParamSlots(p) ==
  {s \in slots : s.proc = p /\ \E i \in 1..Len(decls) : IsParam(decls[i], p) /\ s.high = decls[i].offset}

Aligned ==
  /\ open # <<>> => stack_size % 16 = 0
  /\ \A i \in 1..Len(decls) : decls[i].kind = "PARAMETER" => decls[i].proc \in 1..Len(frame)
  /\ FrameAlignedButParams

LEMMA ParamBytesAre ==
  ASSUME decls \in Seq(Decls), NEW p PROVE ParamBytes(p) = SizeSum(ParamSlots(p))
<1> DEFINE tops == {d.offset : d \in {e \in ToSet(decls) : e.kind = "PARAMETER" /\ e.proc = p}}
           S == {s \in slots : s.proc = p /\ s.high \in tops}
<1>1. ParamBytes(p) = SizeSum(S)
  BY DEF ParamBytes, SizeSum, MapThenSumSet, MapThenFoldSet
<1>2. ToSet(decls) = {decls[i] : i \in 1..Len(decls)}
  BY ToSetOf
<1>3. \A x : x \in tops <=> \E i \in 1..Len(decls) : IsParam(decls[i], p) /\ x = decls[i].offset
  BY <1>2 DEF IsParam
<1> HIDE DEF tops
<1>4. S = ParamSlots(p)
  BY <1>3 DEF ParamSlots
<1> QED
  BY <1>1, <1>4

LEMMA ParamBytesNext ==
  decls' \in Seq(Decls) => \A p : ParamBytes(p)' = SizeSum(ParamSlots(p)')
<1>1. decls \in Seq(Decls) => \A p : ParamBytes(p) = SizeSum(ParamSlots(p))
  BY ParamBytesAre
<1>2. (decls \in Seq(Decls) => \A p : ParamBytes(p) = SizeSum(ParamSlots(p)))'
  BY <1>1, PTL
<1> QED
  BY <1>2 DEF SizeSum, MapThenSumSet, MapThenFoldSet

\* what is given to one procedure leaves the parameters of another alone
LEMMA ParamSlotsKept ==
  ASSUME NEW p, Len(decls) \in Nat, Len(decls') \in Nat, Len(decls) <= Len(decls'),
         slots \subseteq slots', \A s \in slots' \ slots : s.proc # p,
         \A i \in 1..Len(decls) : decls'[i] = decls[i],
         \A i \in 1..Len(decls') : i > Len(decls) => ~IsParam(decls'[i], p)
  PROVE  ParamSlots(p)' = ParamSlots(p)
<1>1. \A i \in 1..Len(decls') : IsParam(decls'[i], p) => i \in 1..Len(decls) /\ decls'[i] = decls[i]
  OBVIOUS
<1>2. \A i \in 1..Len(decls) : i \in 1..Len(decls') /\ decls'[i] = decls[i]
  OBVIOUS
<1> QED
  BY <1>1, <1>2 DEF ParamSlots

\* no procedure ends
LEMMA AlignedKept ==
  ASSUME Base, Base', Aligned, UNCHANGED frame, open' # <<>> => stack_size' % 16 = 0,
         slots \subseteq slots', \A s \in slots' \ slots : s.proc = Len(frame) + 1,
         decls' = decls \/ \E d \in Decls : decls' = Append(decls, d) /\ d.kind # "PARAMETER"
  PROVE  Aligned'
<1>1. decls \in Seq(Decls) /\ decls' \in Seq(Decls) /\ frame \in Seq(Nat) /\ Len(frame) \in Nat
  BY DEF Base, Typed, TypeOK
<1>2. /\ Len(decls) \in Nat /\ Len(decls') \in Nat /\ Len(decls) <= Len(decls')
      /\ \A i \in 1..Len(decls) : decls'[i] = decls[i]
      /\ \A i \in 1..Len(decls') : i > Len(decls) => decls'[i].kind # "PARAMETER"
  BY <1>1
<1>3. ASSUME NEW p \in 1..Len(frame) PROVE ParamBytes(p)' = ParamBytes(p)
  <2>1. \A s \in slots' \ slots : s.proc # p
    BY <1>1
  <2>2. ParamSlots(p)' = ParamSlots(p)
    BY <1>2, <2>1, ParamSlotsKept DEF IsParam
  <2> QED
    BY <1>1, <2>2, ParamBytesAre, ParamBytesNext
<1>4. FrameAlignedButParams'
  <2>1. frame' = frame /\ DOMAIN frame = 1..Len(frame)
    BY <1>1
  <2>2. \A p \in 1..Len(frame) : (frame[p] - ParamBytes(p)) % 16 = 0
    BY <2>1 DEF Aligned, FrameAlignedButParams
  <2>3. \A p \in 1..Len(frame) : (frame[p] - ParamBytes(p)') % 16 = 0
    BY <1>3, <2>2
  <2>4. FrameAlignedButParams' <=> \A p \in DOMAIN frame' : (frame'[p] - ParamBytes(p)') % 16 = 0
    BY DEF FrameAlignedButParams
  <2> QED
    BY <2>1, <2>3, <2>4
<1>5. \A i \in 1..Len(decls') :
        decls'[i].kind = "PARAMETER" => decls'[i].proc \in 1..Len(frame')
  BY <1>2 DEF Aligned
<1> QED
  BY <1>4, <1>5 DEF Aligned

LEMMA VarDeclAligned ==
  ASSUME Base, Base', Aligned, NEW n \in Names, NEW t \in Types, VarDecl(n, t)
  PROVE  Aligned'
<1> DEFINE bytes == type_primitive_size(t.kind)
           size  == stack_size + align_16(bytes)
           sym   == Symbol("VARIABLE", t, size)
           d     == Declared(n, Last(Around), nodes, sym)
<1>1. /\ NewNode /\ InBlock
      /\ \/ Panic
         \/ /\ stack_size' = size
            /\ slots' = slots \cup {[proc |-> proc.number, of |-> <<nodes, 0>>,
                                     low |-> size - bytes, high |-> size]}
            /\ decls' = Append(decls, d)
            /\ UNCHANGED <<open, frame>>
  BY DEF VarDecl
<1>2. /\ stack_size \in Nat /\ size = stack_size + 16 /\ bytes \in {1, 4, 8}
      /\ proc.number = Len(frame) + 1 /\ open # <<>>
  BY <1>1, InBuild, InBody, Sizes DEF TypedProc
<1>3. sym.kind = "VARIABLE" /\ sym.offset = size
  BY SymbolParts
<1> HIDE DEF size, bytes, sym
<1>4. d \in Decls /\ d.kind # "PARAMETER"
  <2>1. sym.kind \in SymbolKinds /\ sym.offset \in Nat
    BY <1>2, <1>3 DEF SymbolKinds
  <2> QED
    BY <1>1, <1>3, <2>1, InBuild, DeclaredOK, DeclaredParts
<1> HIDE DEF d
<1>5. CASE Panic
  BY <1>5, AlignedKept DEF Panic, Aligned
<1>6. CASE ~Panic
  <2>1. stack_size % 16 = 0
    BY <1>2 DEF Aligned
  <2>2. stack_size' % 16 = 0
    BY <1>1, <1>2, <1>6, <2>1
  <2>3. \A s \in slots' \ slots : s.proc = Len(frame) + 1
    BY <1>1, <1>2, <1>6
  <2> QED
    BY <1>1, <1>4, <1>6, <2>2, <2>3, AlignedKept
<1> QED
  BY <1>5, <1>6

LEMMA ArrayPreAligned ==
  ASSUME Base, Base', Aligned, NEW t \in Types, NEW l \in ArrayLengths, ArrayPre(t, l)
  PROVE  Aligned'
<1> DEFINE bytes  == type_primitive_size(t.kind)
           offset == stack_size + align_16(bytes)
<1>1. /\ NewNode /\ InBlock
      /\ \/ Panic
         \/ /\ stack_size' = stack_size + ArrayBytes(align_16(bytes), l)
            /\ slots' = slots \cup {[proc |-> proc.number, of |-> <<nodes, 0>>, low |-> offset,
                                     high |-> offset + l * bytes]}
            /\ UNCHANGED <<open, frame, decls>>
  BY DEF ArrayPre
<1>2. /\ stack_size \in Nat /\ align_16(bytes) = 16 /\ l \in Nat
      /\ proc.number = Len(frame) + 1 /\ open # <<>>
  BY <1>1, InBuild, InBody, Sizes, LengthsAssumption DEF TypedProc
<1>3. ArrayBytes(16, l) = 16 * l + 16
  BY DEF ArrayBytes
<1> HIDE DEF offset, bytes
<1>4. CASE Panic
  BY <1>4, AlignedKept DEF Panic, Aligned
<1>5. CASE ~Panic
  <2>1. stack_size % 16 = 0
    BY <1>2 DEF Aligned
  <2>2. stack_size' % 16 = 0
    <3>1. stack_size' = stack_size + (16 * l + 16)
      BY <1>1, <1>2, <1>3, <1>5
    <3>2. (stack_size + (16 * l + 16)) % 16 = 0
      BY <1>2, <2>1
    <3> QED
      BY <3>1, <3>2
  <2>3. \A s \in slots' \ slots : s.proc = Len(frame) + 1
    BY <1>1, <1>2, <1>5
  <2> QED
    BY <1>1, <1>5, <2>2, <2>3, AlignedKept
<1> QED
  BY <1>4, <1>5

LEMMA GlobalAligned ==
  ASSUME Base, Base', Aligned, NEW n \in Names,
         TablePre(n) \/ \E t \in Signatures, b \in BOOLEAN : ProcPre(n, t, b)
  PROVE  Aligned'
<1>1. \E kind \in {"TABLE", "PROCEDURE"} : \E type :
        /\ NewNode /\ open = <<>>
        /\ decls' = Append(decls, Declared(n, Last(Around), nodes, Symbol(kind, type, 0)))
        /\ UNCHANGED <<frame, slots>>
        /\ open' # <<>> => stack_size' = 0
  <2>1. CASE TablePre(n)
    BY <2>1 DEF TablePre
  <2>2. CASE \E t \in Signatures, b \in BOOLEAN : ProcPre(n, t, b)
    BY <2>2 DEF ProcPre
  <2> QED
    BY <2>1, <2>2
<1>2. PICK kind \in {"TABLE", "PROCEDURE"} : \E type :
        /\ NewNode /\ open = <<>>
        /\ decls' = Append(decls, Declared(n, Last(Around), nodes, Symbol(kind, type, 0)))
        /\ UNCHANGED <<frame, slots>>
        /\ open' # <<>> => stack_size' = 0
  BY <1>1
<1>3. PICK type :
        /\ NewNode /\ open = <<>>
        /\ decls' = Append(decls, Declared(n, Last(Around), nodes, Symbol(kind, type, 0)))
        /\ UNCHANGED <<frame, slots>>
        /\ open' # <<>> => stack_size' = 0
  BY <1>2
<1> DEFINE sym == Symbol(kind, type, 0)
           d   == Declared(n, Last(Around), nodes, sym)
<1>4. sym.kind = kind /\ sym.offset = 0
  BY SymbolParts
<1> HIDE DEF sym
<1>5. d \in Decls /\ d.kind # "PARAMETER"
  <2>1. sym.kind \in SymbolKinds /\ sym.offset \in Nat
    BY <1>4 DEF SymbolKinds
  <2> QED
    BY <1>3, <1>4, <2>1, InBuild, DeclaredOK, DeclaredParts
<1>6. decls' = Append(decls, d)
  BY <1>3 DEF sym
<1> HIDE DEF d
<1> QED
  BY <1>3, <1>5, <1>6, AlignedKept

\* The parameters of the procedure that ends fill the bytes from the locals on to
\* the end of the frame.
LEMMA ProcPostBytes ==
  ASSUME Base, Base', Framed, Framed', Aligned, ProcPost, ~Panic, NEW p, p = Len(frame) + 1
  PROVE  ParamBytes(p)' = stack_size' - stack_size
<1> DEFINE n == Len(proc.params)
           m == Len(decls)
           top == [j \in 0..n |-> ParamTop(proc.params, j)]
           slot == [i \in 1..n |->
             [proc |-> proc.number, of |-> <<proc.seen, i>>, high |-> ParamTop(proc.params, i),
              low |-> ParamTop(proc.params, i) - type_primitive_size(proc.params[i].type.kind)]]
           S == {slot[i] : i \in 1..n}
<1>1. /\ TypedProc /\ decls \in Seq(Decls) /\ n \in Nat /\ m \in Nat /\ open # <<>>
      /\ ParamsGiven /\ proc.number = p /\ stack_size \in Nat /\ Len(frame) \in Nat
      /\ TypedSlots /\ DOMAIN proc.params = 1..n
  BY ProcPostParts, TypedParts, ParamsOK DEF Base, Nested, TypedProc
<1>2. stack_size' = top[n] /\ slots' = slots \cup S
  <2>1. n \in 0..n
    BY <1>1
  <2>2. stack_size' = ParamTop(proc.params, n)
    BY DEF ProcPost
  <2>3. slots' = slots \cup
          {[proc |-> proc.number, of |-> <<proc.seen, i>>, high |-> ParamTop(proc.params, i),
            low |-> ParamTop(proc.params, i) - type_primitive_size(proc.params[i].type.kind)]
           : i \in 1..n}
    BY <1>1 DEF ProcPost
  <2> QED
    BY <2>1, <2>2, <2>3
<1>3. /\ \A j \in 0..n : top[j] \in Nat /\ stack_size <= top[j]
      /\ top[0] = stack_size
      /\ \A i \in 1..n : top[i] = top[i - 1] + type_primitive_size(proc.params[i].type.kind)
  <2>1. \A i \in 1..n : i - 1 \in 0..n /\ i \in 0..n
    BY <1>1
  <2> QED
    BY <1>1, <2>1, TopsGrow, ParamTops
<1>4. ASSUME NEW i \in 1..n
      PROVE  /\ top[i - 1] \in Nat /\ top[i] \in Nat /\ top[i - 1] < top[i] /\ stack_size < top[i]
             /\ slot[i].low = top[i - 1] /\ slot[i].high = top[i] /\ slot[i].proc = p
             /\ top[i] = ParamTop(proc.params, i)
  <2> DEFINE size == type_primitive_size(proc.params[i].type.kind)
  <2>1. i - 1 \in 0..n /\ i \in 0..n
    BY <1>1
  <2>2. top[i - 1] \in Nat /\ top[i] \in Nat /\ stack_size <= top[i - 1] /\ top[i] = top[i - 1] + size
    BY <1>3, <2>1
  <2>3. size \in {1, 4, 8}
    BY Sizes
  <2>4. slot[i].low = top[i] - size /\ slot[i].high = top[i] /\ slot[i].proc = p
        /\ top[i] = ParamTop(proc.params, i)
    BY <1>1, <2>1
  <2> HIDE DEF size, top, slot
  <2>5. top[i] - size = top[i - 1] /\ top[i - 1] < top[i]
    BY <2>2, <2>3
  <2>6. stack_size < top[i]
    BY <1>1, <2>2, <2>3
  <2> QED
    BY <2>2, <2>4, <2>5, <2>6
<1>5. ASSUME NEW i \in 1..m PROVE ~IsParam(decls'[i], p)
  <2>1. decls'[i] = decls[i]
    BY <1>1 DEF ParamsGiven
  <2>2. decls[i].kind = "PARAMETER" => decls[i].proc \in 1..Len(frame)
    BY DEF Aligned
  <2> QED
    BY <1>1, <2>1, <2>2 DEF IsParam
<1>6. ASSUME NEW i \in 1..n
      PROVE  IsParam(decls'[m + i], p) /\ decls'[m + i].offset = top[i] /\ m + i \in 1..Len(decls')
  <2>1. decls'[m + i] = ParamDecl(i) /\ Len(decls') = m + n
    BY <1>1 DEF ParamsGiven
  <2>2. ParamDecl(i).kind = "PARAMETER" /\ ParamDecl(i).proc = p /\ ParamDecl(i).offset = top[i]
    BY <1>1, <1>4, ParamDeclParts
  <2> HIDE DEF top
  <2> QED
    BY <1>1, <2>1, <2>2 DEF IsParam
<1>7. ASSUME NEW s \in slots, s.proc = p PROVE s.high \in Nat /\ s.high <= stack_size
  BY <1>1, <1>7 DEF Framed, FrameOf, TypedSlots
<1> HIDE DEF top, slot
<1>8. ASSUME NEW i \in 1..Len(decls'), IsParam(decls'[i], p)
      PROVE  \E j \in 1..n : decls'[i].offset = top[j]
  <2>1. Len(decls') = m + n
    BY <1>1 DEF ParamsGiven
  <2>2. i \notin 1..m
    BY <1>5, <1>8
  <2>3. i - m \in 1..n /\ m + (i - m) = i
    BY <1>1, <2>1, <2>2
  <2> QED
    BY <1>6, <2>3
<1>9. ParamSlots(p)' = S
  <2>1. ASSUME NEW i \in 1..n PROVE slot[i] \in ParamSlots(p)'
    <3>1. slot[i] \in slots' /\ slot[i].proc = p
      BY <1>2, <1>4
    <3>2. m + i \in 1..Len(decls') /\ IsParam(decls'[m + i], p) /\ slot[i].high = decls'[m + i].offset
      BY <1>4, <1>6
    <3> QED
      BY <3>1, <3>2 DEF ParamSlots
  <2>2. ASSUME NEW s \in slots', s.proc = p, s \notin S,
               NEW i \in 1..Len(decls'), IsParam(decls'[i], p), s.high = decls'[i].offset
        PROVE  FALSE
    <3>1. PICK j \in 1..n : decls'[i].offset = top[j]
      BY <1>8, <2>2
    <3>2. s.high \in Nat /\ s.high <= stack_size
      BY <1>2, <1>7, <2>2
    <3> QED
      BY <1>1, <1>4, <2>2, <3>1, <3>2
  <2>3. ParamSlots(p)' \subseteq S
    BY <2>2 DEF ParamSlots
  <2> QED
    BY <2>1, <2>3
<1>10. IsFiniteSet(S)
  <2> DEFINE F == [i \in 1..n |-> slot[i]]
  <2>1. IsFiniteSet(1..n)
    BY <1>1, 1 \in Int, n \in Int, FS_Interval
  <2>2. F \in Surjection(1..n, S)
    BY DEF Surjection
  <2> QED
    BY <2>1, <2>2, FS_Surjection
<1>11. Apart(S)
  <2>1. \A s \in S : s \in slots' /\ s.proc = p /\ s.low \in Nat /\ s.high \in Nat /\ s.low <= s.high
    BY <1>2, <1>4
  <2>2. \A s, t \in S : s # t => s.high <= t.low \/ t.high <= s.low
    BY <2>1 DEF Framed, SlotsDisjoint
  <2> QED
    BY <2>1, <2>2 DEF Apart
<1>12. Bytes(S) = stack_size + 1..top[n]
  <2>1. IsPile(S, slot, top, n)
    BY <1>3, <1>4 DEF IsPile
  <2> HIDE DEF n, S
  <2> QED
    BY <1>1, <1>3, <2>1, PileBytes
<1>13. Cardinality(Bytes(S)) = top[n] - stack_size
  <2>1. n \in 0..n
    BY <1>1
  <2>2. stack_size + 1 \in Int /\ top[n] \in Int /\ stack_size <= top[n]
    BY <1>1, <1>3, <2>1
  <2>3. Cardinality(stack_size + 1..top[n])
          = IF stack_size + 1 > top[n] THEN 0 ELSE top[n] - (stack_size + 1) + 1
    BY <2>2, FS_Interval
  <2> QED
    BY <1>1, <1>12, <2>2, <2>3
<1> HIDE DEF S
<1>14. ParamBytes(p)' = SizeSum(S)
  BY <1>9, ParamBytesNext DEF Base, Typed
<1> QED
  BY <1>2, <1>10, <1>11, <1>13, <1>14, SumIsBytes

LEMMA ProcPostAligned ==
  ASSUME Base, Base', Framed, Framed', Aligned, ProcPost
  PROVE  Aligned'
<1> DEFINE n == Len(proc.params)
           m == Len(decls)
<1>1. CASE Panic
  BY <1>1, AlignedKept DEF Panic, Aligned
<1>2. CASE ~Panic
  <2>1. /\ decls \in Seq(Decls) /\ decls' \in Seq(Decls) /\ n \in Nat /\ m \in Nat /\ open # <<>>
        /\ ParamsGiven /\ proc.number = Len(frame) + 1 /\ stack_size \in Nat /\ stack_size' \in Nat
        /\ Len(frame) \in Nat /\ frame \in Seq(Nat)
    BY <1>2, ProcPostParts, TypedParts DEF Base, Typed, TypeOK, Nested, TypedProc
  <2>0. PICK p : p = Len(frame) + 1
    OBVIOUS
  <2>2. /\ Len(decls') = m + n
        /\ \A i \in 1..m : decls'[i] = decls[i]
        /\ \A i \in 1..n : decls'[m + i].proc = Len(frame) + 1
    BY <2>1, ParamDeclParts DEF ParamsGiven
  <2>3. /\ Len(frame') = Len(frame) + 1 /\ DOMAIN frame' = 1..Len(frame) + 1
        /\ \A q \in 1..Len(frame) : frame'[q] = frame[q]
        /\ frame'[Len(frame) + 1] = stack_size'
    <3>1. frame' = Append(frame, stack_size')
      BY <1>2 DEF ProcPost
    <3> QED
      BY <2>1, <3>1
  <2>4. \A s \in slots' \ slots : s.proc = Len(frame) + 1
    BY <1>2, <2>1 DEF ProcPost
  <2>5. slots \subseteq slots'
    BY <2>1 DEF ParamsGiven
  <2>6. ASSUME NEW i \in 1..Len(decls'), i > m PROVE decls'[i].proc = Len(frame) + 1
    <3>1. i - m \in 1..n /\ m + (i - m) = i
      BY <2>1, <2>2, <2>6
    <3> QED
      BY <2>2, <3>1
  <2>7. ASSUME NEW q \in 1..Len(frame) PROVE (frame'[q] - ParamBytes(q)') % 16 = 0
    <3>1. q # Len(frame) + 1
      BY <2>1
    <3>2. ParamSlots(q)' = ParamSlots(q)
      <4>1. \A s \in slots' \ slots : s.proc # q
        BY <2>4, <3>1
      <4>2. \A i \in 1..Len(decls') : i > m => ~IsParam(decls'[i], q)
        BY <2>6, <3>1 DEF IsParam
      <4>3. Len(decls') \in Nat /\ m <= Len(decls')
        BY <2>1, <2>2
      <4> QED
        BY <2>1, <2>2, <2>5, <4>1, <4>2, <4>3, ParamSlotsKept
    <3>3. ParamBytes(q)' = ParamBytes(q)
      BY <2>1, <3>2, ParamBytesAre, ParamBytesNext
    <3>4. (frame[q] - ParamBytes(q)) % 16 = 0
      BY <2>1 DEF Aligned, FrameAlignedButParams
    <3> QED
      BY <2>3, <3>3, <3>4
  <2>8. (frame'[p] - ParamBytes(p)') % 16 = 0
    <3>1. ParamBytes(p)' = stack_size' - stack_size
      BY <1>2, <2>0, ProcPostBytes
    <3>2. stack_size % 16 = 0
      BY <2>1 DEF Aligned
    <3>3. \A a, b \in Nat : a - (a - b) = b
      OBVIOUS
    <3>4. stack_size' - (stack_size' - stack_size) = stack_size
      BY <2>1, <3>3
    <3> QED
      BY <2>0, <2>3, <3>1, <3>2, <3>4
  <2>9. FrameAlignedButParams'
    <3>1. \A k \in Nat : \A q \in 1..k + 1 : q \in 1..k \/ q = k + 1
      OBVIOUS
    <3>2. ASSUME NEW q \in DOMAIN frame' PROVE (frame'[q] - ParamBytes(q)') % 16 = 0
      <4>1. q \in 1..Len(frame) \/ q = p
        BY <2>0, <2>1, <2>3, <3>1
      <4> QED
        BY <2>7, <2>8, <4>1
    <3> QED
      BY <3>2 DEF FrameAlignedButParams
  <2>10. \A i \in 1..Len(decls') :
           decls'[i].kind = "PARAMETER" => decls'[i].proc \in 1..Len(frame')
    <3>1. ASSUME NEW i \in 1..Len(decls'), decls'[i].kind = "PARAMETER"
          PROVE  decls'[i].proc \in 1..Len(frame')
      <4>1. CASE i > m
        BY <2>1, <2>3, <2>6, <4>1
      <4>2. CASE ~(i > m)
        <5>1. i \in 1..m
          BY <2>1, <4>2
        <5>2. decls[i].proc \in 1..Len(frame)
          BY <2>2, <3>1, <5>1 DEF Aligned
        <5> QED
          BY <2>1, <2>2, <2>3, <5>1, <5>2
      <4> QED
        BY <4>1, <4>2
    <3> QED
      BY <3>1
  <2>11. open' = <<>>
    BY <2>1 DEF ParamsGiven
  <2> QED
    BY <2>9, <2>10, <2>11 DEF Aligned
<1> QED
  BY <1>1, <1>2

LEMMA NextAligned == Base /\ Base' /\ Framed /\ Framed' /\ Aligned /\ [Next]_vars => Aligned'
<1> SUFFICES ASSUME Base, Base', Framed, Framed', Aligned, [Next]_vars PROVE Aligned'
  OBVIOUS
<1>1. CASE \/ \E n \in Names : Use(n)
           \/ BodyPre \/ BlockPre \/ BlockPost \/ BuildEnd
           \/ LiteralIdent \/ CodegenEnd \/ Terminated \/ UNCHANGED vars
  <2>1. UNCHANGED <<slots, frame, decls, stack_size>> /\ (open' # <<>> => open # <<>>)
    <3>1. CASE \E n \in Names : Use(n)
      BY <3>1 DEF Use
    <3>2. CASE BodyPre \/ BlockPre \/ BlockPost
      BY <3>2 DEF BodyPre, BlockPre, BlockPost, InBlock, In
    <3>3. CASE BuildEnd \/ LiteralIdent \/ CodegenEnd \/ Terminated \/ UNCHANGED vars
      BY <3>3 DEF BuildEnd, LiteralIdent, CodegenEnd, Terminated, vars
    <3> QED
      BY <1>1, <3>1, <3>2, <3>3
  <2> QED
    BY <2>1, AlignedKept DEF Aligned
<1>2. CASE \E n \in Names : TablePre(n) \/ \E t \in Signatures, b \in BOOLEAN : ProcPre(n, t, b)
  BY <1>2, GlobalAligned
<1>3. CASE \E n \in Names, t \in Types : VarDecl(n, t)
  BY <1>3, VarDeclAligned
<1>4. CASE \E t \in Types, l \in ArrayLengths : ArrayPre(t, l)
  BY <1>4, ArrayPreAligned
<1>5. CASE ProcPost
  BY <1>5, ProcPostAligned
<1> QED
  BY <1>1, <1>2, <1>3, <1>4, <1>5 DEF Next, Build

LEMMA AlignedAlways == Spec => []Aligned
<1>1. Init => Aligned
  BY DEF Init, Aligned, FrameAlignedButParams
<1> QED
  BY <1>1, NextAligned, BaseAlways, FramedAlways, PTL DEF Spec

\* However many variables, arrays and parameters a procedure has, the bytes of its
\* parameters are all that keeps its frame, and rsp with it, off a multiple of 16.
THEOREM FramesAreAligned == Spec => []FrameAlignedButParams
<1>1. Aligned => FrameAlignedButParams
  BY DEF Aligned
<1> QED
  BY <1>1, AlignedAlways, PTL
=============================================================================
