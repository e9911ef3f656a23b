----------------------------- MODULE SeronTypes -----------------------------
(* seronc/types.h and seronc/types.c: types, and the room a value takes.    *)
EXTENDS Integers, Sequences

TypeKinds == {"VOID", "CHAR", "INT", "LONG", "POINTER", "PROCEDURE", "TABLE", "OBJECT"}

\* a type of one of TypeKinds; pointers and procedures have more to them
Type(kind)  == [kind |-> kind]
Pointer(to) == [kind |-> "POINTER", pointee |-> to]
Procedure(params, returntype) ==
  [kind |-> "PROCEDURE", params |-> params, returntype |-> returntype]

\* the kinds type_primitive_size() knows; it panics on the others
Sized == TypeKinds \ {"VOID", "TABLE"}

\* for a kind in Sized
type_primitive_size(kind) ==
  IF kind = "CHAR" THEN 1 ELSE IF kind = "INT" THEN 4 ELSE 8

\* variant: sizes are cut down to a multiple of 16
align_16_down(i) == i - (i % 16)

\* variant: a size is padded to the next multiple of 4
align_4(i) == i + (4 - (i % 4))

\* the next multiple of 16 above i; i itself is never taken
align_16(i) == i + (16 - (i % 16))
=============================================================================
