------------------------------ MODULE Backend ------------------------------
(***************************************************************************)
(* What main.c does with a file that has been parsed without an error:     *)
(* expand_ast(), symboltable_build() and codegen(), nasm, and the program  *)
(* that comes out, called by one in C as test/test.c calls test/test.sn.   *)
(*                                                                         *)
(* The two walks go node by node, codegen() in one step, the program       *)
(* instruction by instruction.                                             *)
(***************************************************************************)
EXTENDS Codegen, Machine

\* the source programs: [procs, entry, args, ints, as_bool, meaning]: the declarations as
\* nested nodes, the procedure that is called, the arguments it is called with, the C
\* program's array of ints, whether C takes the result for a bool, and what the call
\* returns for the arguments for which the text says so
CONSTANT Programs

VARIABLES
  program,   \* the number of the program
  stage,     \* what main() is in, or what it ended with
  args       \* the arguments of the call

backend_vars == <<program, stage, args, machine_vars, tree_vars, vars>>

-----------------------------------------------------------------------------
(* The tree parse() returns                                                *)

RECURSIVE Loaded(_, _)

\* source with its children put on the heap, itself the last
Loaded(heap, source) ==
  LET with == FoldLeft(LAMBDA h, kid : LET t == Loaded(h.tree, kid)
                                       IN [tree |-> t, kids |-> Append(h.kids, Len(t))],
                       [tree |-> heap, kids |-> <<>>], source.kids)
  IN Append(with.tree, [source EXCEPT !.kids = with.kids])

Source == Programs[program]

BackendInit ==
  /\ program \in DOMAIN Programs
  /\ tree = Loaded(<<>>, Node("BLOCK", "", "", 0, NoType, Source.procs))
  /\ root = Len(tree)
  /\ todo = <<Entering(root)>>
  /\ Init
  /\ Off
  /\ stage = "expand"
  /\ args = <<>>

-----------------------------------------------------------------------------
(* expand_ast() and symboltable_build()                                    *)

Expand ==
  /\ stage = "expand"
  /\ ExpandStep
  /\ UNCHANGED <<program, stage, args, machine_vars, vars>>

ExpandEnd ==
  /\ stage = "expand" /\ todo = <<>>
  /\ todo' = <<Entering(root)>>
  /\ stage' = "symbols"
  /\ UNCHANGED <<program, args, tree, root, machine_vars, vars>>

\* the callback before node n, and what it writes into the node
SymbolPre(n) ==
  CASE tree[n].kind = "BLOCK" /\ n # root ->
         (BodyPre \/ BlockPre) /\ tree' = [tree EXCEPT ![n].scope = head']
    [] tree[n].kind = "BLOCK" /\ n = root ->
         UNCHANGED vars /\ tree' = [tree EXCEPT ![n].scope = head]
    [] tree[n].kind = "VARDECL" ->
         VarDecl(tree[n].name, tree[n].type) /\ tree' = [tree EXCEPT ![n].offset = stack_size']
    [] tree[n].kind = "ARRAY" ->
         /\ ArrayPre(tree[n].type, Len(tree[n].kids))
         /\ tree' = [tree EXCEPT ![n].offset =
                       stack_size + align_16(type_primitive_size(tree[n].type.kind))]
    [] tree[n].kind = "PROC" ->
         ProcPre(tree[n].name, tree[n].type, tree[n].kids # <<>>) /\ UNCHANGED tree
    [] tree[n].kind = "TABLE" -> TablePre(tree[n].name) /\ UNCHANGED tree
    [] OTHER -> UNCHANGED <<tree, vars>>

\* the callback behind node n
SymbolPost(n) ==
  CASE tree[n].kind = "BLOCK" -> (IF n = root THEN BuildEnd ELSE BlockPost) /\ UNCHANGED tree
    [] tree[n].kind = "PROC" /\ tree[n].kids # <<>> ->
         /\ ProcPost
         /\ tree' = [tree EXCEPT ![n].offset = stack_size',
              ![n].params = [i \in DOMAIN proc.params |-> ParamTop(proc.params, i)]]
    [] OTHER -> UNCHANGED <<tree, vars>>

Symbols ==
  LET n == Head(todo).node IN
  /\ stage = "symbols" /\ mode = "build" /\ todo # <<>>
  /\ IF Head(todo).post
     THEN SymbolPost(n) /\ todo' = Tail(todo)
     ELSE SymbolPre(n) /\ todo' = Below(tree, n) \o Tail(todo)
  /\ stage' = IF mode' = "panic" THEN "panic" ELSE stage
  /\ UNCHANGED <<program, args, root, machine_vars>>

-----------------------------------------------------------------------------
(* codegen() and nasm                                                      *)

Refused(g) ==
  \/ ~GoesOn(g) /\ stage' = g.err
  \/ GoesOn(g) /\ (\E i \in DOMAIN g.text : ~Assembles(g.text[i])) /\ stage' = "nasm"

\* an error of codegen(), or of nasm
Refuse ==
  /\ stage = "symbols" /\ mode = "codegen"
  /\ LET g == codegen IN Refused(g)
  /\ UNCHANGED <<program, args, machine_vars, tree_vars, vars>>

\* the declaration of the procedure C calls
Entry == tree[CHOOSE n \in DOMAIN tree : tree[n].kind = "PROC" /\ tree[n].name = Source.entry]

Size(type) == type_primitive_size(type.kind)

\* an argument of C fills the lower bytes of a register, or of its place on the stack
Passed(x, size) == (Junk - (Junk % Values(size))) + (x % Values(size))

PassedAll(xs) == [i \in DOMAIN xs |-> Passed(xs[i], Size(Entry.type.params[i].type))]

\* nasm, ld, and the call of the procedure
Produce ==
  /\ stage = "symbols" /\ mode = "codegen"
  /\ stage' = "run"
  /\ args' \in Source.args
  /\ LET g == codegen IN
       /\ GoesOn(g)
       /\ \A i \in DOMAIN g.text : Assembles(g.text[i])
       /\ StartProgram(g.text, Source.entry, PassedAll(args'), Source.ints)
  /\ UNCHANGED <<program, tree_vars, vars>>

Go ==
  /\ stage = "run"
  /\ Execute
  /\ UNCHANGED <<program, stage, args, tree_vars, vars>>

Ended == stage \in {"diagnostic", "panic", "undefined", "nasm"} \/ state \in {"done", "wild", "trap"}

BackendStops == Ended /\ UNCHANGED backend_vars

Walks == Expand \/ ExpandEnd \/ Symbols

BackendNext ==
  Walks \/ Refuse \/ Produce \/ Go \/ BackendStops

\* neither the compiler nor the program ever waits for something.  What codegen() does
\* is one step here, which nothing below relies on.
BackendSpec ==
  /\ BackendInit /\ [][BackendNext]_backend_vars
  /\ WF_backend_vars(Walks) /\ WF_backend_vars(Go)

-----------------------------------------------------------------------------
(* Properties                                                              *)

BackendTypeOK ==
  /\ program \in DOMAIN Programs
  /\ stage \in {"expand", "symbols", "diagnostic", "panic", "undefined", "nasm", "run"}
  /\ state \in {"off", "running", "done", "wild", "trap"}
  /\ stage = "run" <=> state # "off"
  /\ stage = "run" => args \in Source.args
  /\ \A i \in DOMAIN todo : todo[i].node \in DOMAIN tree
  /\ \A n \in DOMAIN tree : tree[n].scope \in 0..Len(scopes) /\ tree[n].offset \in Nat
  /\ \A r \in Registers : regs[r] \in 0..Values(8) - 1
  /\ state = "running" => ip \in DOMAIN text
  /\ \A a \in DOMAIN mem : mem[a] \in 0..ByteBase - 1

\* expand_ast() leaves no for loop, and no index but below the target of an assignment,
\* although it rewrites the nodes under the walk's feet: codegen() panics on the others.
SugarOnlyInTargets ==
  stage = "symbols" =>
    \A n \in AllNodes : tree[n].kind \in {"FOR", "INDEX"} => n \in Targets

\* the nodes below n, and n
Beneath(n) == ReachedFrom({n}, [m \in DOMAIN tree |-> ToSet(tree[m].kids)])

\* the argument registers the code of n writes to
Clobbers(n) ==
  UNION {CASE tree[m].kind = "CALL" -> ToSet(ArgRegisters)
           [] tree[m].kind = "BINOP" /\ tree[m].op = "MUL" -> {"rdi", "rdx"}
           [] tree[m].kind \in {"BINOP", "ASSIGN"} /\ tree[m].op # "MUL" -> {"rdi"}
           [] OTHER -> {} : m \in Beneath(n)}

\* of every call the arguments have a register each, which no later one writes to
ArgumentsKept ==
  \A n \in AllNodes : tree[n].kind = "CALL" =>
    LET passed == Tail(tree[n].kids) IN
    /\ Len(passed) <= 6
    /\ \A i, j \in DOMAIN passed : i < j => abi_register(i) \notin Clobbers(passed[j])

IsBinop(n, ops) == tree[n].kind = "BINOP" /\ tree[n].op \in ops

\* a truth value is put in the lowest byte over the rest of the left operand.  It is
\* returned to a caller that reads a byte, or the operand is a name or a number that has
\* no more than a byte
TruthsReadable ==
  \A n \in AllNodes : IsBinop(n, DOMAIN Comparison \cup DOMAIN Logical) =>
    \/ \E m \in AllNodes : tree[m].kind = "RETURN" /\ n \in ToSet(tree[m].kids)
    \/ /\ \A k \in Beneath(n) \ {n} : tree[k].kind = "LITERAL" /\ tree[k].num < ByteBase
       /\ \A i \in DOMAIN args : args[i] \in 0..ByteBase - 1

\* there is no division, for which the upper half of the dividend is never set
NoDivision == ~\E n \in AllNodes : IsBinop(n, {"DIV"})

\* what the procedure has returned, read as its type or as the byte of a bool
Returned == Part("rax", IF Source.as_bool THEN 1 ELSE Size(Entry.type.returntype))

Meaning == Source.meaning[args] % Values(IF Source.as_bool THEN 1 ELSE Size(Entry.type.returntype))

\* A program that comes out of the compiler does what its text says, whatever the
\* registers hold when it is called, and returns to C with its stack and its rbp, but
\* for the three weaknesses named above: the value travels through pushes, scratch
\* registers, the frame and jumps that no type of the compiler relates.
CompiledRight ==
  /\ state \in {"done", "wild", "trap"} /\ args \in DOMAIN Source.meaning
  /\ ArgumentsKept /\ TruthsReadable /\ NoDivision
  => ReturnedWell(PassedAll(args)) /\ Returned = Meaning

\* the procedure the instruction at i belongs to
ProcAt(i) == CHOOSE n \in DOMAIN tree :
  /\ tree[n].kind = "PROC"
  /\ \E j \in 1..i : /\ text[j].op = "label" /\ text[j].dst.label = <<tree[n].name>>
                     /\ \A k \in j + 1..i : text[k].op = "label" => Len(text[k].dst.label) > 1

\* At every label of a loop, a condition or the end of a procedure rsp is where the
\* prologue has left it: what expressions push they pop, on every path, except the
\* arguments from the seventh on.
StackBalanced ==
  state = "running" /\ ArgumentsKept /\ text[ip].op = "label" /\ Len(text[ip].dst.label) > 1
    => regs["rsp"] = regs["rbp"] - tree[ProcAt(ip)].offset

\* the numbers of the procedures with a body, as Symboltable counts them
NumberOf(n) == Cardinality({m \in AllNodes : tree[m].kind = "PROC" /\ tree[m].kids # <<>> /\ m <= n})

\* What an instruction stores below rbp it stores in the place of one variable, parameter
\* or array of its procedure that the first walk has given out, and all of it there.
StoresInSlots ==
  LET i == text[ip] IN
  state = "running" /\ i.op = "mov" /\ i.dst.mode = "mem" /\ i.dst.reg = "rbp" =>
    \E s \in slots : /\ s.proc = NumberOf(ProcAt(ip))
                    /\ s.low <= -i.dst.num - i.src.size
                    /\ -i.dst.num <= s.high

\* The walks end, although expand_ast() puts new nodes before them, and a program ends
\* if its text does: its loops come to their condition, with the step of a for loop
\* done, and leave by it.
EndsWhatEnds ==
  /\ <>(stage = "panic" \/ mode = "codegen")
  /\ stage = "run" ~> Ended

\* examples/reference.sn:21 ("b = 2;  # Assignment") and test_while of test/test.sn: an
\* assignment to a variable of the type of the value compiles.
AssignmentCompiles == stage # "diagnostic"
=============================================================================
