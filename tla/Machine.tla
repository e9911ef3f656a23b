------------------------------ MODULE Machine ------------------------------
(***************************************************************************)
(* The processor that runs what codegen.c has written, as far as that uses *)
(* it: eight-byte registers of which smaller parts can be written, memory  *)
(* in bytes, and a stack that grows down.  A byte has ByteBase values, so  *)
(* that a qword fits in TLC's integers; sizes are those of the code.       *)
(*                                                                         *)
(* Memory and registers nobody has written hold `junk` in every byte.  A   *)
(* procedure that is only declared is some C function that returns its     *)
(* first argument and leaves junk in what the ABI lets it overwrite.       *)
(***************************************************************************)
EXTENDS Assembly, Bitwise, FiniteSets, SequencesExt

CONSTANT ByteBase      \* the number of values of a byte, 256 in the code

ASSUME ByteBaseAssumption == ByteBase \in {2, 4}

VARIABLES
  text,      \* the instructions
  regs,      \* the registers, as qwords
  mem,       \* the bytes written, by address
  flags,     \* what the last comparison found: [eq, less]
  ip,        \* the next instruction
  junk,      \* the value of a byte nobody has written
  state      \* "off", "running", or how the program ended

machine_vars == <<text, regs, mem, flags, ip, junk, state>>

Registers == {"rax", "rdi", "rsi", "rdx", "rcx", "r8", "r9", "rsp", "rbp"}

\* what a call may overwrite by the ABI
CallerSaved == Registers \ {"rsp", "rbp"}

Values(size) == ByteBase ^ size

Signed(v, size) == IF 2 * v >= Values(size) THEN v - Values(size) ELSE v

\* the qword of which every byte is junk
Junk == junk * ((Values(8) - 1) \div (ByteBase - 1))

-----------------------------------------------------------------------------
(* Memory                                                                  *)

\* where the stack begins, and the addresses of code and data above it
StackTop   == 1024
CallerFrame == StackTop - 32
CodeBase   == 2048
ExternBase == 4096
DataBase   == 8192

\* the address main() or a test is to return to
HaltAddress == CodeBase

\* nothing is mapped at the address zero
Accessible(a, size) == 8 <= a /\ a + size <= StackTop

Load(a, size) ==
  FoldLeftDomain(LAMBDA sum, i : sum + ByteBase ^ (i - 1) *
                   (IF a + i - 1 \in DOMAIN mem THEN mem[a + i - 1] ELSE junk),
                 0, [i \in 1..size |-> i])

Stored(m, a, size, v) ==
  [x \in DOMAIN m \cup a..a + size - 1 |->
     IF x \in a..a + size - 1 THEN (v \div ByteBase ^ (x - a)) % ByteBase ELSE m[x]]

\* the address of a label: a place in the text, a C function or a string
AddressOf(label) ==
  IF label[1] = "string" THEN DataBase + label[2]
  ELSE LET i == CHOOSE j \in DOMAIN text :
                  text[j].op \in {"label", "extern"} /\ text[j].dst.label = label
       IN IF text[i].op = "label" THEN CodeBase + i ELSE ExternBase + i

-----------------------------------------------------------------------------
(* Operands                                                                *)

Part(reg, size) == regs[reg] % Values(size)

Address(o) == (regs[o.reg] + o.num) % Values(8)

\* what an operand stands for where the other one has `size` bytes
Value(o, size) ==
  CASE o.mode = "reg"   -> Part(o.reg, o.size)
    [] o.mode = "imm"   -> o.num % Values(size)
    [] o.mode = "mem"   -> Load(Address(o), size)
    [] o.mode = "label" -> AddressOf(o.label)

\* a dword clears the rest of its register, a byte leaves it as it was
Written(old, size, v) ==
  IF size = 1 THEN (old - (old % Values(1))) + (v % Values(1)) ELSE v % Values(size)

Set(reg, size, v) == regs' = [regs EXCEPT ![reg] = Written(@, size, v)]

Onward == ip' = ip + 1

-----------------------------------------------------------------------------
(* Instructions; i is the one at ip                                        *)

Move(i) ==
  /\ i.op = "mov"
  /\ \/ /\ i.dst.mode = "reg"
        /\ Set(i.dst.reg, i.dst.size, Value(i.src, i.dst.size))
        /\ UNCHANGED mem
     \/ /\ i.dst.mode = "mem"
        /\ mem' = Stored(mem, Address(i.dst), i.src.size, Part(i.src.reg, i.src.size))
        /\ UNCHANGED regs
  /\ Onward /\ UNCHANGED <<flags, state>>

LoadAddress(i) ==
  /\ i.op = "lea"
  /\ Set(i.dst.reg, 8, Address(i.src))
  /\ Onward /\ UNCHANGED <<mem, flags, state>>

PushReg(i) ==
  /\ i.op = "push"
  /\ regs' = [regs EXCEPT !["rsp"] = @ - 8]
  /\ mem' = Stored(mem, regs["rsp"] - 8, 8, regs[i.dst.reg])
  /\ Onward /\ UNCHANGED <<flags, state>>

PopReg(i) ==
  /\ i.op = "pop"
  /\ regs' = [regs EXCEPT !["rsp"] = @ + 8, ![i.dst.reg] = Load(regs["rsp"], 8)]
  /\ Onward /\ UNCHANGED <<mem, flags, state>>

Arithmetics == {"add", "sub", "and", "or", "imul"}

Computed(op, a, b, size) ==
  CASE op = "add"  -> a + b
    [] op = "sub"  -> a - b
    [] op = "and"  -> a & b
    [] op = "or"   -> a | b
    [] op = "imul" -> Signed(a, size) * Signed(b, size)

Compute(i) ==
  LET size == i.dst.size IN
  /\ i.op \in Arithmetics
  /\ Set(i.dst.reg, size, Computed(i.op, Part(i.dst.reg, size), Value(i.src, size), size))
  /\ Onward /\ UNCHANGED <<mem, flags, state>>

\* imul with one operand: the product of twice the size, its upper half in rdx, or of
\* two bytes in ax
Multiply(i) ==
  LET size    == i.dst.size
      product == Signed(Part("rax", size), size) * Signed(Part(i.dst.reg, size), size)
  IN
  /\ i.op = "imul1"
  /\ regs' = IF size = 1
             THEN [regs EXCEPT !["rax"] = (@ - (@ % Values(2))) + (product % Values(2))]
             ELSE [regs EXCEPT !["rax"] = product % Values(size),
                               !["rdx"] = (product \div Values(size)) % Values(size)]
  /\ Onward /\ UNCHANGED <<mem, flags, state>>

\* the quotient rounded towards zero
Quotient(a, b) ==
  LET abs(x) == IF x < 0 THEN -x ELSE x
      q      == abs(a) \div abs(b)
  IN IF (a < 0) = (b < 0) THEN q ELSE -q

\* idiv: what is divided has twice the size, its upper half in rdx, or is ax; a trap if
\* the quotient has no room
Divide(i) ==
  LET size     == i.dst.size
      divisor  == Signed(Part(i.dst.reg, size), size)
      dividend == IF size = 1 THEN Signed(Part("rax", 2), 2)
                  ELSE Signed(Part("rdx", size), size) * Values(size) + Part("rax", size)
      quotient == Quotient(dividend, divisor)
      fits     == divisor # 0 /\ quotient \in -(Values(size) \div 2)..(Values(size) \div 2 - 1)
  IN
  /\ i.op = "idiv"
  /\ \/ /\ fits
        /\ regs' = IF size = 1
                   THEN [regs EXCEPT !["rax"] = (@ - (@ % Values(2))) + (quotient % Values(1))
                           + Values(1) * ((dividend - quotient * divisor) % Values(1))]
                   ELSE [regs EXCEPT !["rax"] = quotient % Values(size),
                           !["rdx"] = (dividend - quotient * divisor) % Values(size)]
        /\ Onward /\ UNCHANGED <<mem, flags, state>>
     \/ ~fits /\ state' = "trap" /\ UNCHANGED <<regs, mem, flags, ip>>

Compare(i) ==
  LET size == i.dst.size
      a    == Part(i.dst.reg, size)
      b    == Value(i.src, size)
  IN
  /\ i.op = "cmp"
  /\ flags' = [eq |-> a = b, less |-> Signed(a, size) < Signed(b, size)]
  /\ Onward /\ UNCHANGED <<regs, mem, state>>

Holds(op) ==
  CASE op \in {"sete", "je"}   -> flags.eq
    [] op \in {"setne", "jne"} -> ~flags.eq
    [] op = "setg"             -> ~flags.less /\ ~flags.eq
    [] op = "setge"            -> ~flags.less
    [] op = "setl"             -> flags.less
    [] op = "setle"            -> flags.less \/ flags.eq
    [] op = "jmp"              -> TRUE

SetCondition(i) ==
  /\ i.op \in SetOps
  /\ Set(i.dst.reg, 1, IF Holds(i.op) THEN 1 ELSE 0)
  /\ Onward /\ UNCHANGED <<mem, flags, state>>

Jump(i) ==
  /\ i.op \in {"jmp", "je", "jne"}
  /\ ip' = IF Holds(i.op) THEN AddressOf(i.dst.label) - CodeBase ELSE ip + 1
  /\ UNCHANGED <<regs, mem, flags, state>>

\* an address is an entry of the text, or of a C function
IsCode(a)   == a - CodeBase \in DOMAIN text
IsExtern(a) ==
  a = ExternBase \/ (a - ExternBase \in DOMAIN text /\ text[a - ExternBase].op = "extern")

Call(i) ==
  LET to == regs[i.dst.reg] IN
  /\ i.op = "call"
  /\ \/ /\ IsCode(to)
        /\ regs' = [regs EXCEPT !["rsp"] = @ - 8]
        /\ mem' = Stored(mem, regs["rsp"] - 8, 8, CodeBase + ip + 1)
        /\ ip' = to - CodeBase
     \/ /\ IsExtern(to)
        /\ regs' = [r \in Registers |-> IF r = "rax" THEN regs["rdi"]
                                        ELSE IF r \in CallerSaved THEN Junk ELSE regs[r]]
        /\ Onward /\ UNCHANGED mem
  /\ UNCHANGED <<flags, state>>

Return(i) ==
  LET to == Load(regs["rsp"], 8) IN
  /\ i.op = "ret"
  /\ regs' = [regs EXCEPT !["rsp"] = @ + 8]
  /\ ip' = to - CodeBase
  /\ state' = IF to = HaltAddress THEN "done" ELSE state
  /\ UNCHANGED <<mem, flags>>

Nop(i) ==
  /\ i.op \in {"label", "extern"}
  /\ Onward /\ UNCHANGED <<regs, mem, flags, state>>

\* i goes where there is no stack or no code
Strays(i) ==
  \/ i.dst.mode = "mem" /\ ~Accessible(Address(i.dst), i.src.size)
  \/ i.op = "mov" /\ i.src.mode = "mem" /\ ~Accessible(Address(i.src), i.dst.size)
  \/ i.op \in {"push", "call"} /\ ~Accessible(regs["rsp"] - 8, 8)
  \/ i.op = "call" /\ ~IsCode(regs[i.dst.reg]) /\ ~IsExtern(regs[i.dst.reg])
  \/ i.op = "ret" /\ ~IsCode(Load(regs["rsp"], 8)) /\ Load(regs["rsp"], 8) # HaltAddress

\* the operating system ends the program
Wild ==
  /\ state' = "wild"
  /\ UNCHANGED <<regs, mem, flags, ip>>

Execute ==
  /\ state = "running"
  /\ UNCHANGED <<text, junk>>
  /\ LET i == text[ip] IN
       \/ Strays(i) /\ Wild
       \/ /\ ~Strays(i)
          /\ \/ Move(i) \/ LoadAddress(i) \/ PushReg(i) \/ PopReg(i)
             \/ Compute(i) \/ Multiply(i) \/ Divide(i) \/ Compare(i) \/ SetCondition(i)
             \/ Jump(i) \/ Call(i) \/ Return(i) \/ Nop(i)

-----------------------------------------------------------------------------
(* The beginning                                                           *)

Off ==
  /\ text = <<>> /\ mem = [a \in {} |-> 0] /\ ip = 0 /\ state = "off"
  /\ junk \in {0, ByteBase - 1}
  /\ regs = [r \in Registers |-> Junk]
  /\ flags = [eq |-> FALSE, less |-> FALSE]

ArgRegisters == <<"rdi", "rsi", "rdx", "rcx", "r8", "r9">>

\* the sequence of qwords above the return address: the arguments from the seventh on
Stacked(args) == SubSeq(args, 7, Len(args))

EntryRsp(args) == CallerFrame - 8 * (Len(Stacked(args)) + 1)

\* a C program with an array of ints in its frame calls `name` with args
StartProgram(program_text, name, args, ints) ==
  LET array  == FoldLeftDomain(LAMBDA m, i : Stored(m, CallerFrame + 4 * (i - 1), 4, ints[i]),
                               mem, ints)
      called == Stored(array, EntryRsp(args), 8, HaltAddress)
      passed == [i \in 1..Len(args) |-> IF i <= 6 THEN ArgRegisters[i] ELSE "stack"]
  IN
  /\ text' = program_text
  /\ regs' = [r \in Registers |->
       IF r = "rsp" THEN EntryRsp(args)
       ELSE IF r \in ToSet(passed) THEN args[CHOOSE i \in DOMAIN args : passed[i] = r]
       ELSE regs[r]]
  /\ mem' = FoldLeftDomain(
       LAMBDA m, i : Stored(m, EntryRsp(args) + 8 * i, 8, Stacked(args)[i]), called, Stacked(args))
  /\ ip' = CHOOSE i \in DOMAIN program_text :
             program_text[i].op = "label" /\ program_text[i].dst.label = <<name>>
  /\ state' = "running"
  /\ UNCHANGED <<flags, junk>>

\* the program has returned to C, with the stack as it was and C's rbp
ReturnedWell(args) ==
  state = "done" /\ regs["rsp"] = EntryRsp(args) + 8 /\ regs["rbp"] = Junk
=============================================================================
