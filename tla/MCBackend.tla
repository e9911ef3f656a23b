----------------------------- MODULE MCBackend -----------------------------
(* Backend with programs of test/test.sn and some more.                     *)
EXTENDS Backend

-----------------------------------------------------------------------------
(* Source text                                                             *)

CHAR == Type("CHAR")
INT  == Type("INT")
LONG == Type("LONG")

Id(name)          == Node("LITERAL", "IDENT", name, 0, NoType, <<>>)
Num(type, n)      == Node("LITERAL", "NUMBER", "", n, type, <<>>)
Str               == Node("LITERAL", "STRING", "", 0, NoType, <<>>)
Bin(op, lhs, rhs) == Node("BINOP", op, "", 0, NoType, <<lhs, rhs>>)
Un(op, expr)      == Node("UNARYOP", op, "", 0, NoType, <<expr>>)
Group(expr)       == Node("GROUPING", "", "", 0, NoType, <<expr>>)
Index(expr, i)    == Node("INDEX", "", "", 0, NoType, <<expr, i>>)
CallOf(f, passed) == Node("CALL", "", "", 0, NoType, <<f>> \o passed)
Array(type, exprs) == Node("ARRAY", "", "", 0, type, exprs)
Assign(target, value) == Node("ASSIGN", "", "", 0, NoType, <<value, target>>)
Let(name, type, init) == Node("VARDECL", "", name, 0, type, init)
Block(stmts)      == Node("BLOCK", "", "", 0, NoType, stmts)
If(test, then, else) == Node("IF", "", "", 0, NoType, <<test, Block(then)>> \o else)
While(test, stmts) == Node("WHILE", "", "", 0, NoType, <<test, Block(stmts)>>)
For(name, type, init, test, step, stmts) ==
  Node("FOR", "", name, 0, type, <<init, test, step, Block(stmts)>>)
Ret(exprs)        == Node("RETURN", "", "", 0, NoType, exprs)
Tab(name)         == Node("TABLE", "", name, 0, NoType, <<>>)

Par(ident, type) == [ident |-> ident, type |-> type]
Proc(name, pars, type, stmts) ==
  Node("PROC", "", name, 0, Procedure(pars, type), <<Block(stmts)>>)
Extern(name, pars, type) == Node("PROC", "", name, 0, Procedure(pars, type), <<>>)

-----------------------------------------------------------------------------
(* Programs                                                                *)

\* procs, of which the last one is called with xs and returns meaning[xs]
Program(procs, xs, ints, as_bool, meaning) ==
  [procs |-> procs, entry |-> Last(procs).name, args |-> xs, ints |-> ints,
   as_bool |-> as_bool, meaning |-> meaning]

\* the body of a procedure of parameters a, b and c of one type
Abc(type) == <<Par("a", type), Par("b", type), Par("c", type)>>
Of(k, type, result, stmts) == Proc("f", SubSeq(Abc(type), 1, k), result, stmts)

Ints == {-5, 0, 1, 3, 6}
Pairs == Ints \X Ints
Bits == {<<x, y>> : x, y \in 0..1}
a == Id("a")
b == Id("b")
c == Id("c")
I(n) == Num(INT, n)
L(n) == Num(LONG, n)

Truth(p) == IF p THEN 1 ELSE 0

Meant(op, x, y) ==
  CASE op = "ADD" -> x + y
    [] op = "SUB" -> x - y
    [] op = "MUL" -> x * y
    [] op = "BITWISE_OR"  -> (x % 65536) | (y % 65536)
    [] op = "BITWISE_AND" -> (x % 65536) & (y % 65536)
    [] op = "EQ"  -> Truth(x = y)   [] op = "NEQ"   -> Truth(x # y)
    [] op = "GT"  -> Truth(x > y)   [] op = "GT_EQ" -> Truth(x >= y)
    [] op = "LT"  -> Truth(x < y)   [] op = "LT_EQ" -> Truth(x <= y)
    [] op = "LOG_OR"  -> Truth(x # 0 \/ y # 0)
    [] op = "LOG_AND" -> Truth(x # 0 /\ y # 0)

\* test_add() and the others like it
Simple(op) ==
  Program(<<Of(2, INT, INT, <<Ret(<<Bin(op, a, b)>>)>>)>>, Pairs, <<>>, FALSE,
          [x \in Pairs |-> Meant(op, x[1], x[2])])

Compared(op) ==
  Program(<<Of(2, INT, CHAR, <<Ret(<<Bin(op, a, b)>>)>>)>>, Pairs, <<>>, FALSE,
          [x \in Pairs |-> Meant(op, x[1], x[2])])

Logically(op) ==
  Program(<<Of(2, INT, INT, <<Ret(<<Bin(op, a, b)>>)>>)>>, Bits, <<>>, TRUE,
          [x \in Bits |-> Meant(op, x[1], x[2])])

Triples == {<<x, y, z>> : x \in {-5, 3}, y \in {0, 3}, z \in {1, 6}}

\* an operation in another one, on either side
Nested(type, op1, op2, left) ==
  Program(<<Of(3, type, type,
              <<Ret(<<IF left THEN Bin(op1, Group(Bin(op2, a, b)), c)
                      ELSE Bin(op1, a, Bin(op2, b, c))>>)>>)>>,
          Triples, <<>>, FALSE,
          [x \in Triples |-> IF left THEN Meant(op1, Meant(op2, x[1], x[2]), x[3])
                             ELSE Meant(op1, x[1], Meant(op2, x[2], x[3]))])

AllNested ==
  <<Nested(INT, "SUB", "SUB", TRUE), Nested(INT, "SUB", "SUB", FALSE),
    Nested(INT, "SUB", "MUL", TRUE), Nested(INT, "MUL", "SUB", FALSE),
    Nested(CHAR, "SUB", "MUL", FALSE), Nested(CHAR, "MUL", "SUB", TRUE),
    Nested(LONG, "SUB", "SUB", FALSE), Nested(LONG, "MUL", "SUB", TRUE)>>

-----------------------------------------------------------------------------
(* Pointers, arrays and loops; xs is C's array                             *)

IntPtr == Pointer(INT)
At(i) == CallerFrame + 4 * i
Xs == Par("xs", IntPtr)
xs == Id("xs")
Data == <<3, 6, 0, 1>>
Places == {<<At(0), i>> : i \in 0..3}

Indexing(e) ==
  Program(<<Proc("f", <<Xs, Par("i", LONG)>>, INT, <<Ret(<<e>>)>>)>>, Places, Data, FALSE,
          [x \in Places |-> Data[x[2] + 1]])

OnArray(name, type, stmts, value) ==
  Program(<<Proc(name, <<Xs>>, type, stmts)>>, {<<At(0)>>, <<At(2)>>}, Data, FALSE,
          [x \in {<<p>> : p \in DOMAIN value} |-> value[x[1]]])

Advance(p) == Assign(Id(p), Bin("ADD", Id(p), L(1)))

PassedIndex ==
  Program(<<Extern("ident", <<Par("a", INT)>>, INT),
            Proc("f", <<Xs, Par("i", LONG)>>, INT,
                 <<Ret(<<CallOf(Id("ident"), <<Index(xs, Id("i"))>>)>>)>>)>>,
          Places, Data, FALSE, [x \in Places |-> Data[x[2] + 1]])

\* where the first zero is, and what lies behind it
Finds ==
  <<OnArray("while_", IntPtr,
     <<While(Un("DEREF", xs), <<Advance("xs")>>), Ret(<<xs>>)>>,
     [x \in {At(0), At(2)} |-> At(2)]),
   OnArray("for_", INT,
     <<For("p", IntPtr, xs, Un("DEREF", Id("p")), Advance("p"), <<Assign(xs, Id("p"))>>),
       Ret(<<Index(xs, L(1))>>)>>,
     [x \in {At(0), At(2)} |-> IF x = At(0) THEN 0 ELSE 1]),
   OnArray("if_in_while", IntPtr,
     <<While(Un("DEREF", xs), <<If(Bin("EQ", Un("DEREF", xs), I(6)), <<Ret(<<xs>>)>>, <<>>),
                                Advance("xs")>>), Ret(<<xs>>)>>,
     [x \in {} |-> 0])>>

-----------------------------------------------------------------------------
(* Sugar below sugar: what the walk meets below a node it has just replaced *)

\* the pointer name goes on to the next element
Behind(name) == Assign(Id(name), Un("ADDROF", Index(Id(name), L(1))))

\* a loop from an element up to a zero, with indexes in its condition and its step
Through(name, from, stmts) ==
  For(name, IntPtr, from, Index(Id(name), L(0)), Behind(name), stmts)

SugarBelowSugar ==
  <<\* a loop in a loop: n counts the rounds of the inner one, in ints
   OnArray("for_in_for", IntPtr,
     <<Let("n", IntPtr, <<xs>>),
       Through("p", Un("ADDROF", Index(xs, L(0))), <<Through("q", Id("p"), <<Behind("n")>>)>>),
       Ret(<<Id("n")>>)>>,
     [x \in {At(0), At(2)} |-> IF x = At(0) THEN At(3) ELSE At(2)]),
   \* an index in an index, on either side of it
   Program(<<Proc("f", <<Xs, Par("i", LONG)>>, INT,
       <<Let("ks", Pointer(LONG), <<Array(LONG, <<L(2), L(0), L(3), L(1)>>)>>),
         Let("rows", Pointer(IntPtr), <<Array(IntPtr, <<xs, Un("ADDROF", Index(xs, L(1)))>>)>>),
         Ret(<<Bin("SUB", Index(xs, Index(Id("ks"), Id("i"))),
                          Index(Group(Index(Id("rows"), L(1))), L(0)))>>)>>)>>,
     Places, Data, FALSE,
     [x \in Places |-> Data[<<2, 0, 3, 1>>[x[2] + 1] + 1] - Data[2]]),
   \* a loop whose body declares the loop's variable once more: the step is a statement of
   \* the body and steps that one (expand.c:14-21), so the loop is left by its return alone
   OnArray("redeclared", IntPtr,
     <<Through("p", xs,
         <<Let("p", IntPtr, <<xs>>),
           If(Index(Id("p"), L(0)), <<Behind("xs")>>, <<Block(<<Ret(<<xs>>)>>)>>)>>),
       Ret(<<Un("ADDROF", Index(xs, L(1)))>>)>>,
     [x \in {At(0), At(2)} |-> IF x = At(0) THEN At(2) ELSE At(3)])>>

-----------------------------------------------------------------------------
(* Frames                                                                  *)

\* array elements, by their own address and by an index; block scopes; a double pointer
Frames ==
  <<Program(<<Proc("f", <<Par("a", INT), Par("i", LONG), Par("b", INT)>>, INT,
       <<Let("before", INT, <<b>>),
         Let("ys", IntPtr, <<Array(INT, <<a, Bin("ADD", a, b), b>>)>>),
         Let("after", INT, <<a>>),
         Ret(<<Bin("SUB", Index(Id("ys"), Id("i")), Bin("ADD", Id("before"), Id("after")))>>)>>)>>,
     {<<x, i, y>> : x, y \in {-5, 6}, i \in 0..2}, <<>>, FALSE,
     [x \in {<<x, i, y>> : x, y \in {-5, 6}, i \in 0..2} |->
        <<x[1], x[1] + x[3], x[3]>>[x[2] + 1] - (x[3] + x[1])]),
   Program(<<Proc("f", <<Par("a", CHAR), Par("b", LONG)>>, LONG,
       <<Let("y", LONG, <<b>>), Let("c", CHAR, <<a>>), Let("unset", INT, <<>>),
         Block(<<Let("y", LONG, <<Bin("MUL", Id("y"), L(2))>>), Let("p", Pointer(CHAR), <<Un("ADDROF", c)>>)>>),
         Let("p", Pointer(LONG), <<Un("ADDROF", Id("y"))>>),
         Ret(<<Un("DEREF", Id("p"))>>)>>)>>,
     {<<1, 6>>, <<2, -5>>}, <<>>, FALSE, (<<1, 6>> :> 6) @@ (<<2, -5>> :> -5)),
   Program(<<Proc("f", <<Par("a", CHAR), Par("p", Pointer(Pointer(INT)))>>, IntPtr,
       <<Ret(<<Un("DEREF", Id("p"))>>)>>)>>,
     {<<1, 0>>, <<1, At(0)>>}, <<5, 0>>, FALSE, <<1, At(0)>> :> 5)>>

-----------------------------------------------------------------------------
(* Calls                                                                   *)

Minus == Proc("minus", <<Par("a", INT), Par("b", INT)>>, INT, <<Ret(<<Bin("SUB", a, b)>>)>>)
Twice == Proc("twice", <<Par("a", INT)>>, INT, <<Ret(<<Bin("ADD", a, a)>>)>>)
Ident == Extern("ident", <<Par("a", INT)>>, INT)

\* f(a, b) returns expr
Calling(procs, expr, meaning(_, _)) ==
  Program(procs \o <<Of(2, INT, INT, <<Ret(<<expr>>)>>)>>, Pairs, <<>>, FALSE,
          [x \in Pairs |-> meaning(x[1], x[2])])

Fptr == Procedure(<<Par("a", INT)>>, INT)

Calls ==
  <<Calling(<<Minus>>, CallOf(Id("minus"), <<b, a>>), LAMBDA x, y : y - x),
   Calling(<<Minus, Twice>>, Bin("ADD", CallOf(Id("twice"), <<Bin("MUL", a, b)>>),
                                 CallOf(Id("minus"), <<a, I(1)>>)),
           LAMBDA x, y : 2 * x * y + x - 1),
   Calling(<<Minus, Twice>>, CallOf(Id("minus"), <<CallOf(Id("twice"), <<b>>), a>>),
           LAMBDA x, y : 2 * y - x),
   \* the code of the second argument overwrites the first
   Calling(<<Minus, Twice>>, CallOf(Id("minus"), <<a, CallOf(Id("twice"), <<b>>)>>),
           LAMBDA x, y : x - 2 * y),
   Calling(<<Minus>>, CallOf(Id("minus"), <<a, Bin("ADD", b, I(1))>>), LAMBDA x, y : x - y - 1),
   Calling(<<Ident>>, Bin("SUB", CallOf(Id("ident"), <<b>>), a), LAMBDA x, y : y - x),
   Program(<<Proc("f", <<Par("p", Fptr), Par("a", INT)>>, INT,
               <<Ret(<<CallOf(Id("p"), <<a>>)>>)>>)>>,
           {ExternBase} \X Ints, <<>>, FALSE, [x \in {ExternBase} \X Ints |-> x[2]]),
   Program(<<Twice, Proc("f", <<Par("a", INT)>>, INT,
               <<Let("p", Fptr, <<Id("twice")>>), Ret(<<CallOf(Id("p"), <<a>>)>>)>>)>>,
           {<<i>> : i \in Ints}, <<>>, FALSE, [x \in {<<i>> : i \in Ints} |-> 2 * x[1]]),
   \* a recursion without an end
   Program(<<Proc("f", <<>>, INT, <<Ret(<<CallOf(Id("f"), <<>>)>>)>>)>>, {<<>>}, <<>>, FALSE,
           [x \in {} |-> 0])>>

ManyPars == <<Par("a1", INT), Par("a2", INT), Par("a3", INT), Par("a4", INT), Par("a5", INT),
              Par("a6", INT), Par("a7", CHAR), Par("a8", INT)>>
ManyArgs == {<<1, 2, 3, 4, 5, 6, 1, 8>>, <<0, -1, 0, 0, 5, 0, 3, 9>>}
ManySum(x) == x[1] + x[2] + x[6] + x[8]

\* test_add_many()
Many ==
  Proc("many", ManyPars, INT,
       <<Ret(<<FoldLeft(LAMBDA sum, p : Bin("ADD", sum, Id(p)), Id("a1"), <<"a2", "a6", "a8">>)>>)>>)

ManyArguments ==
  <<Program(<<Many>>, ManyArgs, <<>>, FALSE, [x \in ManyArgs |-> ManySum(x)]),
   \* the callee is taken from the stack behind the seventh argument
   Program(<<Many, Proc("f", ManyPars, INT,
               <<Ret(<<CallOf(Id("many"), [i \in DOMAIN ManyPars |-> Id(ManyPars[i].ident)])>>)>>)>>,
           ManyArgs, <<>>, FALSE, [x \in ManyArgs |-> ManySum(x)])>>

-----------------------------------------------------------------------------
(* Conditions, divisions, and what is refused                              *)

Chosen == {<<x, y, z>> : x, y \in {-5, 3}, z \in -2..1}

Conditions_ ==
  <<Program(<<Proc("f", <<Xs, Par("c", CHAR)>>, INT,
       <<If(c, <<Advance("xs")>>, <<Block(<<Advance("xs"), Advance("xs")>>)>>), Ret(<<Un("DEREF", xs)>>)>>)>>,
     {<<At(0), i>> : i \in -2..1}, Data, FALSE,
     [x \in {<<At(0), i>> : i \in -2..1} |-> IF x[2] # 0 THEN Data[2] ELSE Data[3]]),
   Program(<<Proc("f", <<Par("a", INT), Par("b", INT), Par("c", CHAR)>>, INT,
       <<If(c, <<Ret(<<a>>)>>, <<Block(<<Ret(<<b>>)>>)>>)>>)>>, Chosen, <<>>, FALSE,
     [x \in Chosen |-> IF x[3] # 0 THEN x[1] ELSE x[2]]),
   Program(<<Proc("f", <<Par("a", INT), Par("b", INT), Par("c", CHAR)>>, INT,
       <<If(Un("NEG", Bin("GT", c, Num(CHAR, 0))), <<Ret(<<Un("MINUS", a)>>)>>, <<>>), Ret(<<b>>)>>)>>,
     Chosen, <<>>, FALSE, [x \in Chosen |-> IF x[3] > 0 THEN x[2] ELSE -x[1]]),
   Program(<<Of(2, INT, INT, <<If(Bin("EQ", a, b), <<Ret(<<I(1)>>)>>, <<>>), Ret(<<I(2)>>)>>)>>,
     Pairs, <<>>, FALSE, [x \in Pairs |-> IF x[1] = x[2] THEN 1 ELSE 2]),
   Program(<<Of(1, CHAR, CHAR, <<Ret(<<Un("NEG", a)>>)>>)>>, {<<i>> : i \in 0..3}, <<>>, TRUE,
     [x \in {<<i>> : i \in 0..3} |-> Truth(x[1] = 0)])>>

Divided(type) ==
  Program(<<Of(2, type, type, <<Ret(<<Bin("DIV", a, b)>>)>>)>>, {<<6, 3>>, <<1, 0>>}, <<>>, FALSE,
          <<6, 3>> :> 2)

\* f() with these statements
Body(stmts) == Program(<<Of(1, INT, INT, stmts)>>, {<<1>>}, <<>>, FALSE, [x \in {} |-> 0])

Refusals ==
  <<Body(<<Un("NEG", a)>>),
   Body(<<Un("MINUS", Num(CHAR, 1))>>),
   Body(<<Assign(Index(a, I(1)), I(2))>>),
   Body(<<Id("x")>>),
   Body(<<Let("x", LONG, <<a>>)>>),
   Body(<<Bin("ADD", a, L(1))>>),
   Body(<<Un("DEREF", Str)>>),
   Body(<<Bin("ADD", Str, a)>>),
   Body(<<Bin("ADD", Un("DEREF", Un("ADDROF", a)), Str)>>),
   Body(<<CallOf(a, <<>>)>>),
   Body(<<Let("x", Type("VOID"), <<>>)>>),
   Program(<<Tab("t"), Ident, Of(1, INT, INT, <<CallOf(Id("ident"), <<a, a>>)>>)>>, {<<1>>}, <<>>,
           FALSE, [x \in {} |-> 0]),
   Program(<<Tab("t"), Of(1, INT, Type("VOID"), <<Str, Ret(<<>>)>>)>>, {<<1>>}, <<>>, TRUE,
           [x \in {} |-> 0])>>

-----------------------------------------------------------------------------
NoneOf == {}
SixtyNodes == 60

Each(operator(_), ops) == [i \in DOMAIN ops |-> operator(ops[i])]

MCPrograms ==
  Each(Simple, <<"ADD", "SUB", "MUL", "BITWISE_OR", "BITWISE_AND">>)
  \o Each(Compared, <<"EQ", "NEQ", "GT", "GT_EQ", "LT", "LT_EQ">>)
  \o Each(Logically, <<"LOG_OR", "LOG_AND">>)
  \o Each(Divided, <<CHAR, INT, LONG>>)
  \o Each(Indexing, <<Index(xs, Id("i")), Index(Id("i"), xs)>>)
  \o <<PassedIndex>>
  \o AllNested \o Finds \o SugarBelowSugar \o Frames \o Calls \o ManyArguments \o Conditions_ \o Refusals

\* test_while(), and the assignment of examples/reference.sn
Assignments ==
  <<Program(<<Of(1, INT, INT,
      <<Let("acc", INT, <<I(0)>>),
        While(a, <<Assign(a, Bin("SUB", a, I(1))), Assign(Id("acc"), Bin("ADD", Id("acc"), I(1)))>>),
        Ret(<<Id("acc")>>)>>)>>, {<<5>>}, <<>>, FALSE, <<5>> :> 5),
    Program(<<Of(0, INT, INT, <<Let("b", INT, <<I(1)>>), Assign(b, I(2)), Ret(<<I(0)>>)>>)>>,
      {<<>>}, <<>>, FALSE, <<>> :> 0)>>
=============================================================================
