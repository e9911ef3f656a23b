--------------------------- MODULE MCSymboltable ---------------------------
(* Small programs for the symbol table: every tree of up to MaxNodes nodes *)
(* over two names.                                                         *)
EXTENDS Symboltable

TwoTypes == {Type("VOID"), Type("LONG")}
IntType  == {Type("INT")}

Param(n, kind) == [ident |-> n, type |-> Type(kind)]

Signature(params) == Procedure(params, Type("VOID"))

IntParam == {Signature(<<>>), Signature(<<Param("x", "INT")>>)}

\* no parameters, two of different sizes, and one that has no size
FrameParams ==
  {Signature(<<>>),
   Signature(<<Param("x", "CHAR"), Param("y", "LONG")>>),
   Signature(<<Param("x", "VOID")>>)}
=============================================================================
