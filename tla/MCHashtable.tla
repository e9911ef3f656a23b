---------------------------- MODULE MCHashtable ----------------------------
(* Identifiers over two letters in a table of two buckets: most chains     *)
(* hold several of them, among them "a" and "b", which always collide.     *)
EXTENDS Hashtable, KeyHash

a == 97
b == 98

Short == {<<a>>, <<b>>, <<a, a>>, <<a, b>>}
Full  == {<<a, a, a>>, <<a, b, a>>, <<b, a, a>>}

MCSize == 2
HashOfShort == [k \in Short |-> hash(MCSize, k)]
HashOfAll   == [k \in Short \cup Full |-> hash(MCSize, k)]
AllKeys     == Short \cup Full
=============================================================================
