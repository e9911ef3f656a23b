------------------------------ MODULE Assembly ------------------------------
(* The instructions codegen.c writes, and what nasm makes of them.          *)
EXTENDS Integers, Sequences

\* operands: a part of a register, a number, the memory at a register plus a
\* displacement, a label
Reg(reg, size)  == [mode |-> "reg", reg |-> reg, size |-> size, num |-> 0, label |-> <<>>]
Imm(num)        == [mode |-> "imm", reg |-> "", size |-> 0, num |-> num, label |-> <<>>]
Mem(reg, disp)  == [mode |-> "mem", reg |-> reg, size |-> 0, num |-> disp, label |-> <<>>]
Label(label)    == [mode |-> "label", reg |-> "", size |-> 0, num |-> 0, label |-> label]
None            == Imm(0)

Ins(op, dst, src) == [op |-> op, dst |-> dst, src |-> src]

Rax == Reg("rax", 8)
Rdi == Reg("rdi", 8)
Rsp == Reg("rsp", 8)
Rbp == Reg("rbp", 8)

SetOps == {"sete", "setne", "setg", "setge", "setl", "setle"}

\* nasm refuses operands no instruction has: registers of two sizes, a product with a
\* number in one byte, a condition stored in more than one byte
Assembles(i) ==
  /\ i.dst.mode = "reg" /\ i.src.mode = "reg" => i.dst.size = i.src.size
  /\ i.op = "imul" /\ i.src.mode = "imm" => i.dst.size # 1
  /\ i.op \in SetOps => i.dst.size = 1
=============================================================================
