---------------------------- MODULE Symboltable ----------------------------
(***************************************************************************)
(* seronc/symboltable.c, and the lookups seronc/codegen.c makes in the     *)
(* scopes it leaves behind.                                                *)
(*                                                                         *)
(* symboltable_build() walks the tree once: it opens a scope for every     *)
(* block, enters every declaration into the scope it stands in and gives   *)
(* every variable, array and parameter a place below rbp.  codegen() walks *)
(* the same tree afterwards and resolves each identifier from the scope of *)
(* the block it stands in.  The tree is revealed node by node during the   *)
(* first walk; the identifiers in it are kept for the second.              *)
(*                                                                         *)
(* A scope is a map whose first entry of a name stays: that is what        *)
(* SymbolMap says of a hashtable, and Hashtable implements.                *)
(***************************************************************************)
EXTENDS SeronTypes, FiniteSets, SequencesExt

CONSTANTS
  Names,          \* identifiers
  Types,          \* the types of variables and array elements
  ArrayLengths,   \* the numbers of elements of array expressions
  Signatures,     \* the types of procedures
  MaxNodes        \* bound on the nodes of the tree

ASSUME TypesAssumption == \A t \in Types : t.kind \in TypeKinds
ASSUME LengthsAssumption == ArrayLengths \subseteq Nat /\ MaxNodes \in Nat
ASSUME SignaturesAssumption ==
  \A t \in Signatures :
    /\ t.params \in Seq(ToSet(t.params))
    /\ \A i \in DOMAIN t.params :
         t.params[i].ident \in Names /\ t.params[i].type.kind \in TypeKinds

VARIABLES
  scopes,      \* the hashtables pushed so far: [parent, names], parent 0 is NULL
  head,        \* Symboltable.head
  stack_size,  \* Symboltable.stack_size
  open,        \* the nodes the walk is inside of, below the root: [kind, block]
  proc,        \* the procedure the walk is in: [number, params, body, seen]
  frame,       \* DeclProc.stack_size of every procedure with a body left so far
  uses,        \* the identifiers met in expressions: [name, blocks, proc, seen]
  bound,       \* the symbols codegen() has found for the first of them
  nodes,       \* number of nodes met
  mode,        \* "build", "codegen", or how the compiler ended
  slots,       \* history: the memory given out, [proc, of, low, high], bytes below rbp;
               \* of is what it is for: the node that declares it and, if that is a
               \* procedure, the number of the parameter
  decls        \* history: the declarations, [name, block, proc, seen, kind, offset]

vars == <<scopes, head, stack_size, open, proc, frame, uses, bound, nodes, mode, slots, decls>>

NoProc == [number |-> 0, params |-> <<>>, body |-> 0, seen |-> 0]

-----------------------------------------------------------------------------
(* Scopes                                                                  *)

\* hashtable_insert(): a second entry of a name is refused
Enter(names, n, sym) ==
  [m \in DOMAIN names \cup {n} |-> IF m \in DOMAIN names THEN names[m] ELSE sym]

InsertSymbol(scope, n, sym) ==
  scopes' = [scopes EXCEPT ![scope].names = Enter(@, n, sym)]

Symbol(kind, type, offset) == [kind |-> kind, type |-> type, offset |-> offset]

NoSymbol == Symbol("NONE", Type("VOID"), 0)

\* variant: the search goes from the scope it begins in straight to the global one
ScopeOfNear(s, n) ==
  CASE s = 0 -> 0
    [] s # 0 /\ n \in DOMAIN scopes[s].names -> s
    [] s # 0 /\ n \notin DOMAIN scopes[s].names ->
         IF n \in DOMAIN scopes[1].names THEN 1 ELSE 0

\* symboltable_lookup(): the scope the search that begins in s ends at, 0 if none
ScopeOf(s, n) ==
  LET walk[i \in 0..Len(scopes)] ==
        IF i = 0 \/ n \in DOMAIN scopes[i].names THEN i ELSE walk[scopes[i].parent]
  IN walk[s]

Lookup(s, n) ==
  LET found == ScopeOf(s, n)
  IN IF found = 0 THEN NoSymbol ELSE scopes[found].names[n]

\* symboltable_push()
Push == scopes' = Append(scopes, [parent |-> head, names |-> [n \in {} |-> NoSymbol]])

\* variant: leaving a block leaves its scope current
PopNothing == UNCHANGED head

\* symboltable_pop()
Pop == head' = scopes[head].parent

-----------------------------------------------------------------------------
(* The first walk                                                          *)

\* one more node of the tree is met
NewNode ==
  /\ mode = "build"
  /\ nodes < MaxNodes
  /\ nodes' = nodes + 1

In(kind) == open # <<>> /\ Last(open).kind = kind

\* the blocks around the node in hand, outermost first; a block is known by the
\* number of the scope that Block.symboltable points to
Around == <<1>> \o [i \in DOMAIN open |-> open[i].block]

\* statements and expressions stand in the block of a body or in one nested in it
InBlock == In("body") \/ In("block")

\* PANIC("invalid type") of type_primitive_size()
Panic ==
  /\ mode' = "panic"
  /\ UNCHANGED <<scopes, head, stack_size, open, proc, frame, uses, bound, slots, decls>>

Declared(n, block, seen, sym) ==
  [name |-> n, block |-> block, proc |-> proc.number, seen |-> seen,
   kind |-> sym.kind, offset |-> sym.offset]

\* symboltable_build() up to the callback of the root block
Init ==
  /\ scopes = <<[parent |-> 0, names |-> [n \in {} |-> NoSymbol]]>>
  /\ head = 1
  /\ stack_size = 0
  /\ open = <<>>
  /\ proc = NoProc
  /\ frame = <<>>
  /\ uses = <<>>
  /\ bound = <<>>
  /\ nodes = 0
  /\ mode = "build"
  /\ slots = {}
  /\ decls = <<>>

\* table_pre()
TablePre(n) ==
  LET sym == Symbol("TABLE", Type("TABLE"), 0) IN
  /\ open = <<>>
  /\ NewNode
  /\ InsertSymbol(head, n, sym)
  /\ decls' = Append(decls, Declared(n, Last(Around), nodes, sym))
  /\ UNCHANGED <<head, stack_size, open, proc, frame, uses, bound, mode, slots>>

\* proc_pre() of a procedure, with its body or without
ProcPre(n, type, has_body) ==
  LET sym == Symbol("PROCEDURE", type, 0) IN
  /\ open = <<>>
  /\ NewNode
  /\ InsertSymbol(head, n, sym)
  /\ decls' = Append(decls, Declared(n, Last(Around), nodes, sym))
  /\ \/ /\ has_body
        /\ stack_size' = 0
        /\ open' = <<[kind |-> "proc_pre", block |-> 1]>>
        /\ proc' = [number |-> Len(frame) + 1, params |-> type.params,
                    body |-> Len(scopes) + 1, seen |-> nodes]
     \/ /\ ~has_body
        /\ UNCHANGED <<stack_size, open, proc>>
  /\ UNCHANGED <<head, frame, uses, bound, mode, slots>>

\* block_pre() of a procedure's body
BodyPre ==
  /\ In("proc_pre") /\ mode = "build"
  /\ Push
  /\ head' = Len(scopes) + 1
  /\ open' = <<[kind |-> "body", block |-> Len(scopes) + 1]>>
  /\ UNCHANGED <<stack_size, proc, frame, uses, bound, nodes, mode, slots, decls>>

\* block_pre() of a block in a body: a statement, the body of an if, else, while
\* or for, or the block expand.c puts around a for loop
BlockPre ==
  /\ InBlock
  /\ NewNode
  /\ Push
  /\ head' = Len(scopes) + 1
  /\ open' = Append(open, [kind |-> "block", block |-> Len(scopes) + 1])
  /\ UNCHANGED <<stack_size, proc, frame, uses, bound, mode, slots, decls>>

\* block_post()
BlockPost ==
  /\ InBlock /\ mode = "build"
  /\ Pop
  /\ open' = IF In("body") THEN <<[kind |-> "proc_post", block |-> 1]>> ELSE Front(open)
  /\ UNCHANGED <<scopes, stack_size, proc, frame, uses, bound, nodes, mode, slots, decls>>

\* vardecl(): the name is entered before the initialiser is walked
VarDecl(n, type) ==
  LET size == stack_size + align_16(type_primitive_size(type.kind))
      sym  == Symbol("VARIABLE", type, size)
  IN
  /\ InBlock
  /\ NewNode
  /\ \/ type.kind \notin Sized /\ Panic
     \/ /\ type.kind \in Sized
        /\ stack_size' = size
        /\ InsertSymbol(head, n, sym)
        /\ slots' = slots \cup {[proc |-> proc.number, of |-> <<nodes, 0>>,
                                 low |-> size - type_primitive_size(type.kind), high |-> size]}
        /\ decls' = Append(decls, Declared(n, Last(Around), nodes, sym))
        /\ UNCHANGED <<head, open, proc, frame, uses, bound, mode>>

\* variant: no room is left below the first element
ArrayBytesPacked(elem_size, length) == elem_size * length

ArrayBytes(elem_size, length) == elem_size * length + elem_size

\* array_pre(), and the places codegen's array() stores the elements at
ArrayPre(type, length) ==
  LET elem_size == align_16(type_primitive_size(type.kind))
      offset    == stack_size + elem_size
  IN
  /\ InBlock
  /\ NewNode
  /\ \/ type.kind \notin Sized /\ Panic
     \/ /\ type.kind \in Sized
        /\ stack_size' = stack_size + ArrayBytes(elem_size, length)
        /\ slots' = slots \cup {[proc |-> proc.number, of |-> <<nodes, 0>>, low |-> offset,
                                 high |-> offset + length * type_primitive_size(type.kind)]}
        /\ UNCHANGED <<scopes, head, open, proc, frame, uses, bound, mode, decls>>

\* an identifier in an expression: no callback, codegen will look it up
Use(n) ==
  /\ InBlock
  /\ NewNode
  /\ uses' = Append(uses, [name |-> n, blocks |-> Around, proc |-> proc.number, seen |-> nodes])
  /\ UNCHANGED <<scopes, head, stack_size, open, proc, frame, bound, mode, slots, decls>>

\* variant: parameters are laid out from the top of the frame, over the locals
ParamTopFromZero(params, i) ==
  LET top[j \in 0..Len(params)] ==
        IF j = 0 THEN 0 ELSE top[j - 1] + type_primitive_size(params[j].type.kind)
  IN top[i]

\* the offset of parameter i: behind the locals and the parameters before it
ParamTop(params, i) ==
  LET top[j \in 0..Len(params)] ==
        IF j = 0 THEN stack_size ELSE top[j - 1] + type_primitive_size(params[j].type.kind)
  IN top[i]

ParamSymbol(i) == Symbol("PARAMETER", proc.params[i].type, ParamTop(proc.params, i))

\* the scope of the body once the parameters have been entered, the first one first
WithParams(names) ==
  LET entered[j \in 0..Len(proc.params)] ==
        IF j = 0 THEN names ELSE Enter(entered[j - 1], proc.params[j].ident, ParamSymbol(j))
  IN entered[Len(proc.params)]

\* proc_post(): the parameters are entered after everything in the body
ProcPost ==
  /\ In("proc_post") /\ mode = "build"
  /\ \/ /\ \E i \in DOMAIN proc.params : proc.params[i].type.kind \notin Sized
        /\ Panic
        /\ UNCHANGED nodes
     \/ /\ \A i \in DOMAIN proc.params : proc.params[i].type.kind \in Sized
        /\ scopes' = [scopes EXCEPT ![proc.body].names = WithParams(@)]
        /\ stack_size' = ParamTop(proc.params, Len(proc.params))
        /\ frame' = Append(frame, stack_size')
        /\ open' = <<>>
        /\ slots' = slots \cup
             {[proc |-> proc.number, of |-> <<proc.seen, i>>, high |-> ParamTop(proc.params, i),
               low |-> ParamTop(proc.params, i) - type_primitive_size(proc.params[i].type.kind)]
              : i \in DOMAIN proc.params}
        /\ decls' = decls \o
             [i \in DOMAIN proc.params |->
                Declared(proc.params[i].ident, proc.body, proc.seen, ParamSymbol(i))]
        /\ UNCHANGED <<head, proc, uses, bound, nodes, mode>>

\* block_post() of the root: symboltable_build() returns, codegen() begins
BuildEnd ==
  /\ mode = "build" /\ open = <<>>
  /\ Pop
  /\ mode' = "codegen"
  /\ UNCHANGED <<scopes, stack_size, open, proc, frame, uses, bound, nodes, slots, decls>>

-----------------------------------------------------------------------------
(* The second walk                                                         *)

\* literal_ident() of the next identifier, in the scope of the block around it
LiteralIdent ==
  LET use == uses[Len(bound) + 1]
      sym == Lookup(Last(use.blocks), use.name)
  IN
  /\ mode = "codegen"
  /\ Len(bound) < Len(uses)
  /\ bound' = Append(bound, sym)
  /\ mode' = IF sym.kind \in {"NONE", "TABLE"} THEN "rejected" ELSE mode
  /\ UNCHANGED <<scopes, head, stack_size, open, proc, frame, uses, nodes, slots, decls>>

CodegenEnd ==
  /\ mode = "codegen"
  /\ Len(bound) = Len(uses)
  /\ mode' = "done"
  /\ UNCHANGED <<scopes, head, stack_size, open, proc, frame, uses, bound, nodes, slots, decls>>

Terminated ==
  /\ mode \in {"done", "rejected", "panic"}
  /\ UNCHANGED vars

-----------------------------------------------------------------------------
Build ==
  \/ \E n \in Names :
       \/ TablePre(n)
       \/ Use(n)
       \/ \E t \in Types : VarDecl(n, t)
       \/ \E t \in Signatures, b \in BOOLEAN : ProcPre(n, t, b)
  \/ \E t \in Types, l \in ArrayLengths : ArrayPre(t, l)
  \/ BodyPre \/ BlockPre \/ BlockPost \/ ProcPost \/ BuildEnd

Next == Build \/ LiteralIdent \/ CodegenEnd \/ Terminated

Spec == Init /\ [][Next]_vars

-----------------------------------------------------------------------------
(* Properties                                                              *)

TypeOK ==
  /\ \A i \in DOMAIN scopes : scopes[i].parent \in 0..i - 1
  /\ head \in 0..Len(scopes)
  /\ stack_size \in Nat
  /\ open \in Seq([kind : {"proc_pre", "body", "block", "proc_post"}, block : 1..Len(scopes)])
  /\ proc.number \in 0..Len(frame) + 1
  /\ proc.params \in {<<>>} \cup {t.params : t \in Signatures}
  /\ frame \in Seq(Nat)
  /\ nodes \in 0..MaxNodes
  /\ mode \in {"build", "codegen", "done", "rejected", "panic"}
  /\ \A s \in slots : s.proc \in Nat /\ s.low \in Nat /\ s.high \in Nat

\* the bytes a procedure reserves for its frame, or has reserved so far
FrameOf(p) == IF p <= Len(frame) THEN frame[p] ELSE stack_size

\* Everything a procedure stores below rbp lies within the bytes that its
\* prologue subtracts from rsp: calls and pushes below cannot overwrite it.
SlotsInFrame == \A s \in slots : 0 <= s.low /\ s.low <= s.high /\ s.high <= FrameOf(s.proc)

\* No two variables, arrays or parameters of a procedure share a byte, be they of
\* one size or of several: although blocks are left and others entered, parameters
\* are placed after the body, and arrays use offsets of their own.
SlotsDisjoint ==
  \A s, t \in slots : s.proc = t.proc /\ s # t => s.high <= t.low \/ t.high <= s.low

\* An identifier only ever means something global or a place in the frame of the
\* procedure it stands in, never a place in another frame.
UsesOwnFrame ==
  \A i \in DOMAIN bound :
    bound[i].kind \in {"VARIABLE", "PARAMETER"} =>
      \E s \in slots : s.proc = uses[i].proc /\ s.high = bound[i].offset

\* the declarations of u's name in the blocks around u
Candidates(u) ==
  {d \in ToSet(decls) : d.name = u.name /\ d.block \in ToSet(u.blocks)}

\* d is what lexical scoping makes of the use u: of the declarations above u, the
\* latest in the innermost block
Means(u, d) ==
  /\ d \in Candidates(u) /\ d.seen < u.seen
  /\ \A e \in Candidates(u) : e.seen < u.seen =>
       e.block < d.block \/ (e.block = d.block /\ e.seen <= d.seen)

SameSymbol(sym, d) == sym.kind = d.kind /\ sym.offset = d.offset

\* no declaration of u's name stands below u, and no two in one block
Unambiguous(u) ==
  /\ \A d \in Candidates(u) : d.seen < u.seen
  /\ \A d, e \in Candidates(u) : d.block = e.block => d = e

\* The scopes left by the first walk give the second one the meaning of the text:
\* where no two declarations compete, an identifier is resolved by the rules of
\* lexical scoping, and one declared nowhere around it is not found.
LexicalWhenUnambiguous ==
  \A i \in DOMAIN bound :
    LET u == uses[i] IN
    Unambiguous(u) =>
      \/ \E d \in Candidates(u) : Means(u, d) /\ SameSymbol(bound[i], d)
      \/ Candidates(u) = {} /\ bound[i] = NoSymbol

\* The comment in vardecl() ("shadowing is a feature, not a bug") and the two
\* declarations of e in examples/reference.sn: a variable declared a second time
\* is the one its name stands for from there on.
ShadowingLatest ==
  \A i \in DOMAIN bound :
    LET u == uses[i] IN
    \A d \in Candidates(u) :
      Means(u, d) /\ d.kind = "VARIABLE" => SameSymbol(bound[i], d)

\* the bytes of the parameters of procedure p
ParamBytes(p) ==
  LET tops == {d.offset : d \in {e \in ToSet(decls) : e.kind = "PARAMETER" /\ e.proc = p}}
  IN MapThenSumSet(LAMBDA s : s.high - s.low, {s \in slots : s.proc = p /\ s.high \in tops})

\* The comment in align_16() ("calculate padding for aligning stack, according to
\* sysv abi") is true of everything but parameters: a frame is off a multiple of 16
\* bytes, and with it rsp at the calls the procedure makes, by the sizes of the
\* parameters and by nothing else.
FrameAlignedButParams == \A p \in DOMAIN frame : (frame[p] - ParamBytes(p)) % 16 = 0
=============================================================================
