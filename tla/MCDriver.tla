------------------------------ MODULE MCDriver ------------------------------
(* Two compilers, started at any time: of the same source, of sources with *)
(* the same name in two directories, of sources with different names, and  *)
(* of one whose program is called like the assembly or the object of the   *)
(* other.                                                                  *)
EXTENDS Driver

x   == <<"x">>
y   == <<"y">>
x_s == <<"x", ".s">>
x_o == <<"x", ".o">>

Names == {x, y, x_s, x_o}

Source(d, b) == [dir |-> d, base |-> b]

NamesakeSources ==
  {s \in [Compilers -> {Source("a", x), Source("b", x)} \cup {Source("a", n) : n \in Names}] :
     s[CHOOSE c \in Compilers : TRUE] = Source("a", x)}
=============================================================================
