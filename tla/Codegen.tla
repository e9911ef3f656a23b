------------------------------ MODULE Codegen ------------------------------
(***************************************************************************)
(* seronc/codegen.c: the walk of the finished tree that writes assembly.   *)
(* Every function of the file that writes is an operator here: it takes a  *)
(* node and the struct `gen`, and returns `gen` with what it has written   *)
(* and the type it returns.  Once an error has ended the compiler, nothing *)
(* more is written.                                                        *)
(***************************************************************************)
EXTENDS Symboltable, Tree, Assembly

\* err says how the compiler came to an end: "diagnostic" with a message, "panic", or
\* "undefined": through a pointer that was never set
Gen == [text |-> <<>>, label_count |-> 0, data_count |-> 0, scope |-> 1, proc |-> "",
        type |-> NoType, err |-> "none"]

GoesOn(g) == g.err = "none"

gen_write(g, instruction) ==
  IF GoesOn(g) THEN [g EXCEPT !.text = Append(@, instruction)] ELSE g

Write2(g, i, j)    == gen_write(gen_write(g, i), j)
Write3(g, i, j, k) == gen_write(Write2(g, i, j), k)

Fail(g, err)     == IF GoesOn(g) THEN [g EXCEPT !.err = err] ELSE g
Returns(g, type) == [g EXCEPT !.type = type]

\* PANIC("invalid type") of subregister(), for a part of a register that is written next
NeedsSize(g, kind) == IF kind \in Sized THEN g ELSE Fail(g, "panic")

subregister(reg, kind) == Reg(reg, type_primitive_size(kind))

PushRax(g) == gen_write(g, Ins("push", Rax, None))

\* the register of argument i, "" if it goes on the stack
abi_register(i) ==
  IF i > 6 THEN "" ELSE <<"rdi", "rsi", "rdx", "rcx", "r8", "r9">>[i]

RECURSIVE Emit(_, _), EmitAddr(_, _)

EmitAll(nodes_, g) == FoldLeft(LAMBDA h, n : Emit(n, h), g, nodes_)

-----------------------------------------------------------------------------
(* Expressions                                                             *)

literal_ident(n, g, addr) ==
  LET sym == Lookup(g.scope, tree[n].name)
      place == Mem("rbp", -sym.offset)
  IN CASE sym.kind \in {"NONE", "TABLE"} -> Fail(g, "diagnostic")
       [] sym.kind = "PROCEDURE" ->
            Returns(gen_write(g, Ins("mov", Rax, Label(<<tree[n].name>>))), sym.type)
       [] OTHER ->
            IF addr THEN Returns(gen_write(g, Ins("lea", Rax, place)), Pointer(sym.type))
            ELSE Returns(gen_write(g, Ins("mov", subregister("rax", sym.type.kind), place)),
                         sym.type)

literal(n, g) ==
  CASE tree[n].op = "IDENT" -> literal_ident(n, g, FALSE)
    [] tree[n].op = "NUMBER" ->
         Returns(gen_write(g, Ins("mov", subregister("rax", tree[n].type.kind), Imm(tree[n].num))),
                 tree[n].type)
    [] tree[n].op = "STRING" ->
         [Returns(gen_write(g, Ins("mov", Rax, Label(<<"string", g.data_count>>))), Type("POINTER"))
            EXCEPT !.data_count = @ + 1]

HasPointee(type) == type.kind = "POINTER" /\ "pointee" \in DOMAIN type

unaryop(n, g) ==
  LET h    == Emit(tree[n].kids[1], g)
      part == subregister("rax", h.type.kind)
  IN CASE tree[n].op = "NEG" ->
            Write2(NeedsSize(h, h.type.kind), Ins("cmp", part, Imm(0)), Ins("sete", part, None))
       [] tree[n].op = "MINUS" ->
            gen_write(NeedsSize(h, h.type.kind), Ins("imul", part, Imm(-1)))
       [] tree[n].op = "DEREF" ->
            IF HasPointee(h.type)
            THEN Returns(gen_write(h, Ins("mov", part, Mem("rax", 0))), h.type.pointee)
            ELSE Fail(NeedsSize(h, h.type.kind), "undefined")
       [] tree[n].op = "ADDROF" -> EmitAddr(tree[n].kids[1], g)

\* pointer arithmetic: the operand that is no pointer is multiplied with the size of
\* what the pointer points to
Scaled(g, reg, kind, pointer) ==
  IF ~HasPointee(pointer) THEN Fail(g, "undefined")
  ELSE IF pointer.pointee.kind \notin Sized THEN Fail(g, "panic")
  ELSE gen_write(g, Ins("imul", subregister(reg, kind),
                        Imm(type_primitive_size(pointer.pointee.kind))))

Operands(g, lhs, rhs) ==
  CASE lhs.kind = "POINTER" /\ rhs.kind # "POINTER" -> Scaled(g, "rdi", rhs.kind, lhs)
    [] lhs.kind # "POINTER" /\ rhs.kind = "POINTER" -> Scaled(g, "rax", lhs.kind, rhs)
    [] OTHER -> IF lhs.kind = rhs.kind THEN g ELSE Fail(g, "diagnostic")

Arithmetic == [ADD |-> "add", SUB |-> "sub", BITWISE_OR |-> "or", BITWISE_AND |-> "and"]
Comparison == [EQ |-> "sete", NEQ |-> "setne", GT |-> "setg", GT_EQ |-> "setge",
               LT |-> "setl", LT_EQ |-> "setle"]
Logical    == [LOG_OR |-> "or", LOG_AND |-> "and"]

Operation(g, op, rax, rdi) ==
  CASE op \in DOMAIN Arithmetic -> gen_write(g, Ins(Arithmetic[op], rax, rdi))
    [] op = "MUL" -> gen_write(g, Ins("imul1", rdi, None))
    [] op = "DIV" -> gen_write(g, Ins("idiv", rdi, None))
    [] op \in DOMAIN Comparison ->
         Write2(g, Ins("cmp", rax, rdi), Ins(Comparison[op], Reg("rax", 1), None))
    [] op \in DOMAIN Logical ->
         Write3(g, Ins(Logical[op], rax, rdi), Ins("cmp", rax, Imm(0)),
                   Ins("setne", Reg("rax", 1), None))

\* variant: the left operand is evaluated first, and comes out as the right one
binop_swapped(n, g) ==
  LET left  == PushRax(Emit(tree[n].kids[1], g))
      right == gen_write(Emit(tree[n].kids[2], left), Ins("pop", Rdi, None))
      ready == Operands(right, right.type, left.type)
  IN Returns(Operation(ready, tree[n].op, subregister("rax", right.type.kind),
                       subregister("rdi", left.type.kind)), right.type)

\* the right operand waits on the stack for the left one
binop(n, g) ==
  LET rhs   == Emit(tree[n].kids[2], g)
      right == PushRax(NeedsSize(rhs, rhs.type.kind))
      lhs   == Emit(tree[n].kids[1], right)
      left  == gen_write(NeedsSize(lhs, lhs.type.kind), Ins("pop", Rdi, None))
      ready == Operands(left, lhs.type, rhs.type)
  IN Returns(Operation(ready, tree[n].op, subregister("rax", lhs.type.kind),
                       subregister("rdi", rhs.type.kind)),
             IF rhs.type.kind = "POINTER" THEN rhs.type ELSE lhs.type)

\* variant: the address stays on the stack
assign_unpopped(n, g) ==
  LET target == PushRax(EmitAddr(tree[n].kids[2], g))
      value  == Emit(tree[n].kids[1], target)
  IN Write2(IF target.type.kind = value.type.kind THEN value ELSE Fail(value, "diagnostic"),
            Ins("mov", Rdi, Mem("rsp", 0)),
            Ins("mov", Mem("rdi", 0), subregister("rax", value.type.kind)))

\* the type of an address is always POINTER, so a value of another kind is refused
assign(n, g) ==
  LET target == PushRax(EmitAddr(tree[n].kids[2], g))
      value  == Emit(tree[n].kids[1], target)
  IN Write2(IF target.type.kind = value.type.kind THEN value ELSE Fail(value, "diagnostic"),
            Ins("pop", Rdi, None),
            Ins("mov", Mem("rdi", 0), subregister("rax", value.type.kind)))

\* one argument; an argument without a parameter gets the type that memory holds which
\* was never set
Argument(g, n, params_, i) ==
  LET kind == params_[i].type.kind
  IN IF i > Len(params_) THEN Fail(g, "undefined")
     ELSE IF abi_register(i) = "" THEN PushRax(Emit(n, g))
     ELSE gen_write(Emit(n, NeedsSize(g, kind)),
                    Ins("mov", subregister(abi_register(i), kind), subregister("rax", kind)))

call(n, g) ==
  LET callee == PushRax(Emit(tree[n].kids[1], g))
      args   == Tail(tree[n].kids)
      passed == FoldLeftDomain(LAMBDA h, i : Argument(h, args[i], callee.type.params, i),
                               callee, args)
  IN IF callee.type.kind # "PROCEDURE" THEN Fail(callee, "undefined")
     ELSE Returns(Write2(passed, Ins("pop", Rax, None), Ins("call", Rax, None)),
                  callee.type.returntype)

\* variant: elements are counted from one
ElementOffset1(n, i) ==
  tree[n].offset + (Len(tree[n].kids) - i - 1) * type_primitive_size(tree[n].type.kind)

\* the place of element i of an array, counted from zero
ElementOffset(n, i) ==
  tree[n].offset + (Len(tree[n].kids) - i) * type_primitive_size(tree[n].type.kind)

array(n, g) ==
  LET part   == subregister("rax", tree[n].type.kind)
      stored == FoldLeftDomain(
                  LAMBDA h, i : gen_write(Emit(tree[n].kids[i], h),
                                  Ins("mov", Mem("rbp", -ElementOffset(n, i - 1)), part)),
                  g, tree[n].kids)
  IN Returns(gen_write(stored, Ins("lea", Rax, Mem("rbp", -ElementOffset(n, 0)))),
             Pointer(tree[n].type))

-----------------------------------------------------------------------------
(* Statements and declarations                                             *)

\* a label of the procedure in hand: nasm keeps those with a dot apart
Local(g, name, lbl) == Label(<<g.proc, name, lbl>>)
Here(label)         == Ins("label", label, None)

return_(n, g) ==
  gen_write(EmitAll(tree[n].kids, g), Ins("jmp", Local(g, ".return", 0), None))

block(n, g) ==
  [EmitAll(tree[n].kids, [g EXCEPT !.scope = tree[n].scope]) EXCEPT !.scope = g.scope]

vardecl(n, g) ==
  LET h    == Emit(tree[n].kids[1], g)
      kind == tree[n].type.kind
  IN IF tree[n].kids = <<>> THEN g
     ELSE gen_write(IF kind = h.type.kind THEN h ELSE Fail(h, "diagnostic"),
                    Ins("mov", Mem("rbp", -tree[n].offset), subregister("rax", kind)))

cond(n, g) ==
  LET lbl  == g.label_count
      test == Emit(tree[n].kids[1], [g EXCEPT !.label_count = @ + 1])
      then == Emit(tree[n].kids[2],
                Write2(NeedsSize(test, test.type.kind),
                  Ins("cmp", subregister("rax", test.type.kind), Imm(0)),
                  Ins("je", Local(g, ".else", lbl), None)))
      else == Write2(then, Ins("jmp", Local(g, ".end", lbl), None), Here(Local(g, ".else", lbl)))
  IN gen_write(EmitAll(Tail(Tail(tree[n].kids)), else), Here(Local(g, ".end", lbl)))

while_(n, g) ==
  LET lbl  == g.label_count
      body == Emit(tree[n].kids[2],
                Write2([g EXCEPT !.label_count = @ + 1],
                  Ins("jmp", Local(g, ".cond", lbl), None), Here(Local(g, ".while", lbl))))
      test == Emit(tree[n].kids[1], gen_write(body, Here(Local(g, ".cond", lbl))))
  IN Write2(NeedsSize(test, test.type.kind),
            Ins("cmp", subregister("rax", test.type.kind), Imm(0)),
            Ins("jne", Local(g, ".while", lbl), None))

\* parameter i is put in its place below rbp; those of the stack are above it, behind the
\* old rbp and the return address
Parameter(g, n, i) ==
  LET kind  == tree[n].type.params[i].type.kind
      place == Mem("rbp", -tree[n].params[i])
  IN IF abi_register(i) # ""
     THEN gen_write(g, Ins("mov", place, subregister(abi_register(i), kind)))
     ELSE Write2(g, Ins("mov", subregister("rax", kind), Mem("rbp", 16 + 8 * (i - 7))),
                    Ins("mov", place, subregister("rax", kind)))

proc_(n, g) ==
  LET label    == Label(<<tree[n].name>>)
      prologue == gen_write(Write3([g EXCEPT !.proc = tree[n].name],
                    Here(label), Ins("push", Rbp, None), Ins("mov", Rbp, Rsp)),
                    Ins("sub", Rsp, Imm(tree[n].offset)))
      entered  == FoldLeftDomain(LAMBDA h, i : Parameter(h, n, i), prologue, tree[n].params)
      body     == Emit(tree[n].kids[1], entered)
  IN IF tree[n].kids = <<>> THEN gen_write(g, Ins("extern", label, None))
     ELSE gen_write(Write3(body, Here(Local(body, ".return", 0)), Ins("mov", Rsp, Rbp),
                                 Ins("pop", Rbp, None)), Ins("ret", None, None))

-----------------------------------------------------------------------------
EmitAddr(n, g) ==
  CASE tree[n].kind = "UNARYOP" /\ tree[n].op = "DEREF"  -> Emit(tree[n].kids[1], g)
    [] tree[n].kind = "LITERAL" /\ tree[n].op = "IDENT"  -> literal_ident(n, g, TRUE)
    [] OTHER -> Fail(g, "panic")

\* statements return VOID
Emit(n, g) ==
  IF ~GoesOn(g) THEN g
  ELSE CASE tree[n].kind = "LITERAL"  -> literal(n, g)
         [] tree[n].kind = "GROUPING" -> Emit(tree[n].kids[1], g)
         [] tree[n].kind = "UNARYOP"  -> unaryop(n, g)
         [] tree[n].kind = "BINOP"    -> binop(n, g)
         [] tree[n].kind = "ASSIGN"   -> assign(n, g)
         [] tree[n].kind = "CALL"     -> call(n, g)
         [] tree[n].kind = "ARRAY"    -> array(n, g)
         [] tree[n].kind = "BLOCK"    -> Returns(block(n, g), NoType)
         [] tree[n].kind = "WHILE"    -> Returns(while_(n, g), NoType)
         [] tree[n].kind = "PROC"     -> Returns(proc_(n, g), NoType)
         [] tree[n].kind = "RETURN"   -> Returns(return_(n, g), NoType)
         [] tree[n].kind = "VARDECL"  -> Returns(vardecl(n, g), NoType)
         [] tree[n].kind = "IF"       -> Returns(cond(n, g), NoType)
         [] tree[n].kind = "TABLE"    -> Returns(g, NoType)
         [] OTHER                     -> Fail(g, "panic")   \* FOR and INDEX

codegen == Emit(root, Gen)
=============================================================================
