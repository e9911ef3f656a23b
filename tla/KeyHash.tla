------------------------------ MODULE KeyHash ------------------------------
(* hash() of seronc/hashtable.c: the character codes, weighted by position. *)
EXTENDS Naturals, SequencesExt

\* the first character has weight 0
hash(size, key) == FoldLeftDomain(LAMBDA sum, i : sum + key[i] * (i - 1), 0, key) % size
=============================================================================
