# Formal models of the seron compiler

`seronc` translates the Seron language to x86-64 NASM. It is a sequential C
program: one source file in, one assembly file out, then `nasm` and `cc`. There
are no threads and no messages, so what is hard about it is not concurrency but
control and bookkeeping: an error recovery that jumps between activations with
`setjmp`/`longjmp`, two records of one place in the text, a tree that is rewritten
under the walk that visits it, a scope chain that is built by one walk and used
by another, frame offsets that four functions have to agree on, values that
travel through pushes and registers between instructions no type relates, lists
that move in memory, and buffers met exactly at their limits. The one place where
processes meet is the file system: the compiler's children, and other compilers.

This directory holds TLA+ models of those parts, TLC configurations that check
them on small instances, and TLAPS proofs. Line numbers below are those of
`src/seronc/` unless a path is given.

## Inventory

| Part | State | Operations | Depends on |
|---|---|---|---|
| Lexer (`lexer.c`) | `src` pointer, `position`, the token in hand | `lexer_next`, `get_token_location` | nothing |
| Parser (`parser.c`) | current token, `ctx`, `errcount`, two `jmp_buf`s, and the C stack | one function per grammar rule, `parser_advance`, `parser_consume`, `parser_sync` | pulls tokens from the lexer one at a time, allocates nodes in the arena, reports to diagnostics |
| Traversal (`parser.c:268-466`) | a depth counter | `parser_traverse_ast`, `parser_dispatch_ast` with callbacks before and after a node | used by expansion, symbol table and the tree printer |
| Expansion (`expand.c`) | the tree, rewritten in place | `for_pre`, `index_pre` | traversal callbacks |
| Hashtable (`hashtable.c`) | buckets of chained entries, a parent | `hashtable_insert`, `hashtable_get` | arena |
| Symbol table (`symboltable.c`, `types.c`) | current scope `head`, running `stack_size`; leaves scopes in blocks and offsets in declarations | callbacks on block, variable, array, procedure, table | one hashtable per block |
| Code generation (`codegen.c`) | current scope, output buffers, label counter | one function per node kind | looks names up in the scopes the symbol table left |
| Arena (`lib/arena.h`) | list of allocations | alloc, realloc, free | malloc |
| Diagnostics (`diagnostics.c`) | none | print a message and the line of a token | `get_token_location` |
| Driver (`main.c`) | options, intermediate files in `/tmp/seron/` | stages, child processes | everything |

The stages run one after the other (`main.c`): parse (which pulls the lexer
along), expand, build the symbol table, generate code, assemble, link, run.

What makes each part correct:

* Lexer: the tokens are the text, in order and without overlap; a token's
  position is where it stands; the end is seen; every text is read to an end.
* Parser: an error resumes the innermost open block, or the next declaration;
  it never jumps to an activation that is gone; every text leads to an end; an
  accepted text has its brackets in pairs; lists stay in their arrays.
* Hashtable: it is a map in which the first insertion stays.
* Symbol table: nothing a procedure stores overlaps or leaves its frame; names
  mean what lexical scoping says; a name never means a place in another frame.
* Expansion and traversal: every child is visited once, in the order of
  evaluation; the rewritten tree means what the construct means.
* Code generation: the machine state the code leaves is the value of the
  expression; arguments survive the evaluation of later arguments.
* Arena: every allocation is freed exactly once.
* Driver: a failing stage stops the compiler; runs do not disturb each other.

## Modules

| Module | Contents |
|---|---|
| `Parser`, `MCParser` | all grammar rules and the recovery, as a stack of activations; the token streams TLC parses |
| `Lexer`, `MCLexer` | `lexer_next()` on every short text |
| `SymbolMap` | what `hashtable.h` promises |
| `Hashtable`, `KeyHash`, `MCHashtable` | `hashtable.c`, and the refinement to `SymbolMap` |
| `SeronTypes` | types and the room a value takes (`types.c`) |
| `Symboltable`, `MCSymboltable` | the callbacks of `symboltable.c`, and the lookups of the second walk |
| `Tree` | the nodes, the walk of `parser_traverse_ast()`, and `expand.c` |
| `Assembly` | the instructions that are written, and which of them nasm takes |
| `Codegen` | every function of `codegen.c` that writes |
| `Machine` | the processor that runs the result |
| `Backend`, `MCBackend` | expansion, symbol table, code generation, nasm and the running program, composed; 65 programs |
| `Arena`, `MCArena` | `arena.h`, and the lists of child nodes that grow in it |
| `Driver`, `MCDriver` | `dispatch()`: stages, files and child processes of several compilers |
| `ParserProofs`, `HashtableProofs`, `SymboltableProofs`, `LexerProofs`, `ArenaProofs`, `DriverProofs` | theorems about the modules they are named after |
| `BracketProofs` | the theorems about the brackets of the text and the parser's call stack, on top of `ParserProofs` |
| `GeneralLemmas` | facts about numbers and sequences that these proofs share |

How they are composed. The lexer's output is the parser's input: `Parser` takes
token streams (`Sources`) whose members are the kinds `Lexer` delivers, or
`LexError` where `lexer_next()` would exit. `Symboltable` uses a scope as a map in
which the first entry stays; `Hashtable` is shown to be one. `Backend` runs the
callbacks of `Symboltable` on the trees of `Tree`, gives both to `Codegen`, and
what `Codegen` has written to `Machine`. `Driver` takes all of that as one step
that may fail and is about what becomes of the result.

### Parser

The only functions that call `setjmp` are `rule_program` and `rule_stmt_block`.
`frames` has one entry for each of their activations on the C stack. An entry
is the list of what the activation still has to do: tokens to consume and rules
to run. A rule that calls no `setjmp` is unfolded into the frame it runs in, so
`rule_stmt_while` at the head of a frame becomes *consume `while`, an
expression, a block*. A `longjmp` cuts the stack at its frame and leaves only
that frame's loop, which is what it does to the C stack.

| In the model | In the code |
|---|---|
| `pos`, `Tok` | `Parser.tok`, always the next token |
| `AdvanceIn`, `Advance` | `parser_advance()`; at the end of the file it exits |
| `ParserConsume` | `parser_consume()`, `parser_expect_token()` |
| `ctx` | `Parser.ctx`, set in `rule_decl` and `rule_stmt` |
| `ctx_stmt.frame`, `.live` | the activation `ctx_stmt` was set by; whether it has returned |
| `Sync`, then `RecoverDecl` or `RecoverStmt` | `parser_sync()` |
| `BlockLoop` | one turn of the loop in `rule_stmt_block`, with its `setjmp` |
| `mode = "undefined"` | the code leaves what C defines |

`ctx_decl` needs no variable: the activation of `rule_program` outlives every
other. The tree the rules build is not in the state, because no decision of the
parser reads it. `errpos` is a history: the token of the last error.

A jump to an activation that has returned is undefined. The build resumes the
activation that now occupies the place on the stack, or crashes; the model
allows both where both can be. The uninitialised `Table.field_count` is any
member of `UninitCounts`.

### Lexer

One action per branch of `lexer_next()`. `src` and `position` are both state,
since the point is whether they agree. Texts are sequences of one-letter
strings; NUL stands behind the last. `toks` is a history of the tokens
delivered with the place each really begins at. `Overread` is how the lexer ends
where C gives its behaviour no meaning: a comment or a quote has taken it past the
terminator, or `atoll()` is given a number whose digits fill their buffer. What it
reads then is not modelled.

### Hashtable and SymbolMap

`buckets` holds the chains. An entry's `zero` says whether the lowest byte of
its address is 0, which is up to `malloc()` and decides what `strcmp()` finds
behind a key that fills its array. The refinement maps the chains to the map
of the first entry of every key; its abstract specification is the property
`IsSymbolMap`.

### Symboltable

The tree is revealed node by node during the first walk, so TLC explores every
tree of up to `MaxNodes` nodes; a node is one call of a callback, or an
identifier in an expression. `uses` keeps the identifiers for the second walk.
`slots` and `decls` are histories: the bytes below `rbp` given out, with what they were
given to (`of`: a node of the tree, or a parameter by its number, so that two things
given the very same bytes are two slots), and the declarations with their place in the
text. The blocks around a use or a
declaration are recorded from the walk's place in the tree, not from `head` or
the scopes' parents, so that the lexical meaning the properties speak of does not
come from the machinery they are about.

`ArrayPre` and `VarDecl` panic on a type without a size as `type_primitive_size()`
does. `Symboltable` has a specification of its own, which makes up the tree, and
lends its actions to `Backend`, where the tree is that of a program.

### Tree

A node's address is its index in `tree`; a rewritten node keeps its index, a node
that `expand.c` allocates gets the next one. `todo` is the C stack of the walk:
the nodes the activations of `parser_traverse_ast()` have yet to enter or leave.
One step is one call of the callback before a node or behind it. The children a
step puts on `todo` are those the callback has left, since the code calls it
before it looks at them. `Children` of an assignment is its value alone.

### Codegen, Assembly and Machine

Each function that writes is an operator from a node and the struct `gen` to the
`gen` it leaves, with the type it returns in `gen.type`. `err` stands for the
three ways a function does not return: a message, a panic, or a read through a
pointer nobody set. An instruction is an operation with two operands, a label is
the procedure it belongs to with its name and number, as nasm scopes labels that
begin with a dot. Sections and directives are left out.

`Machine` is external. It has what the instructions need: nine registers with their
lower parts (a dword clears the rest, a byte does not), memory by bytes, the
comparison's result, `imul` and `idiv` with their halves in `rdx` (or `ax`). A byte
has `ByteBase` values so that a qword is within TLC's integers; the sizes of types
are those of the code. All that nobody has written holds `junk`, which is zeros in
one half of the behaviours and ones in the other: what a program computes must not
depend on it. A procedure that is only declared is a C function that returns its
first argument and leaves junk where the ABI lets it.

### Backend

`program` picks one of `Programs`: declarations as nested nodes, a procedure to
call, arguments, and what the call returns by the text. `Expand` and `Symbols` go
node by node; the `CASE` of `SymbolPre` and `SymbolPost` is the table of callbacks of
`symboltable_build()`. `Produce` is `codegen()` with nasm and the linker, `Refuse` an
error in one of them. `Go` is one instruction. The caller is C, as in `test/test.c`:
an argument fills the lower bytes of its register, and junk the others.

### Arena

Addresses are a finite set and are given out again, which is the point: the list
of allocations may hold an old pointer equal to a new block. `Alloc` stands for any
allocation that is never grown, `ListInit`, `ListStore` and `ListGrow` for the
functions of `AstNodeList`, with `arena_realloc()` in `ListGrow`. Each action ends with
the growth of `Arena.items` and the store into it. `malloc()` and `realloc()` fail or
succeed at will, `realloc()` stays or moves. `mode` says how it ended: freed, a free of
what is not allocated (`corrupted`), a store through `NULL` (`crashed`), or `NON_NULL()`
(`panic`).

### Driver

Each compiler goes through `dispatch()` by its own `pc`. The name of a file is the
sequence of its parts, cut before every dot: `Name` puts an ending behind a base name as
`strcat()` does, so the program of `x.s.sn` and the assembly of `x.sn` are one file. `stages` are the calls of
`run_cmd_sync()` and `run()` still before it. A child reads its input in one step and
writes its output in another, so other compilers come between. Contents say whose
source they come from in the end and whether they are whole. `fopen()` empties the
assembly file and `fclose()` writes it, from the beginning; what another compiler has
written in between may stand behind it (`mixed`). `ForkFails` leaves `status`
uninitialised, so the compiler goes on as after success or failure. `mishap` and
`disturbed` are histories: who has missed a failure of its own, and whose files another
compiler wrote while it ran.

## Checks

| Run | Question | Result |
|---|---|---|
| `parser_texts` | eight properties of the rules and the recovery, and that a text is read to an end | hold |
| `parser_else` | does a statement's error jump to a live activation? | no |
| `lexer_texts` | tiling, positions, ends | hold |
| `lexer_comment` | is the end of the text seen behind a comment? | no |
| `hashtable_short` | is it a map, if no key fills its array? | yes |
| `hashtable_full` | is a duplicate refused for every legal key? | no |
| `symboltable_trees` | frames, slots and scopes | hold |
| `symboltable_shadow` | does redeclaring a variable shadow it? | no |
| `backend` | is the tree expanded, does the program do what its text says, does it keep to its stack and frame, and end? | yes, within stated limits |
| `backend_assign` | does an assignment to an `int` compile? | no |
| `arena_blocks` | is every block freed once, nothing stored outside, and what leaks? | hold |
| `driver_files` | is what a successful compiler made its own? | yes, within stated limits |

Some properties hold only with a limit in their statement, which is what the code
is really good for, and where it is at fault:

* `CompiledRight` asks for three things. `ArgumentsKept`: every argument of a call has
  a register, and no later argument's code writes to it. `TruthsReadable`: a
  comparison is returned to a caller that reads a byte, or its operands had no more
  than a byte. `NoDivision`: there is no `/`. Take one away and TLC shows the program
  that comes out wrong. So the property bounds the four defects behind them
  (`codegen.c:253`, `272`, `441`, `446`): everywhere else the values are right. It
  does not say how far one of them goes where it strikes.
* `LexicalWhenUnambiguous` leaves out names a declaration below the use, or a
  declaration against a parameter, competes for; there the code finds another symbol
  than lexical scoping does (`symboltable.c:141`, `codegen.c:504`).
* `StoresInRoom` is about the doublings. When one fails the code stores through `NULL`
  and the model ends (`crashed`), with no claim about it.
* `OwnProduct` leaves out a compiler that missed a failure of its own, or whose files
  another one wrote while it ran; `DisturbedByNamesake` says who can do that.
* `LeaksWhatStayed` says exactly what `arena_free()` does not free.
* `OnlyFullTablesOverflow`, `OnlyElseJumpsDead`, `FrameAlignedButParams` and
  `PositionsLackComments` say of a flaw exactly how far it goes.

Bounds, and why they are enough:

* `parser_texts`: three programs that between them use every rule and every
  alternative of it; every text that comes from one of them by cutting it off,
  deleting a token, or putting one of 14 tokens in place of or before another;
  tables and parameter lists of 0 to 3 entries with room for 2; and every
  continuation of up to four tokens, of the seven that decide where an error
  is caught, behind the beginning of a body and behind an `else`. The stack of
  a rule is as deep as its text is nested, so these reach every rule in every
  kind of surrounding block; one edit reaches every error, and a recovery meets
  the rest of a program behind it, so errors follow errors. `UninitCounts` is
  `{0, 1}`: the count that happens to be right, and one that is too high.
* `lexer_texts`: every text of up to four characters over one character of
  every sort the lexer distinguishes, with identifiers and numbers of at most
  three characters so that both limits are met and passed.
* `hashtable_short`, `hashtable_full`: two buckets and keys of up to three
  characters, where `MAX_IDENT_LEN` is 3. The tables have no bound: the keys
  are finitely many and refused when they are met again. Chains are reached with
  three entries, and `a` and `b` share a bucket in a table of any size, because
  the first character has weight 0 in `hash()`. In the `full` run chains grow
  without end, but the violation comes first.
* `symboltable_trees`: trees of up to five nodes over two names, with types of
  size 8 and none, arrays of one or two elements, and procedures with no parameter,
  two of different sizes, or one with no size. Five nodes are enough for a
  global name, a procedure, a nested block, a declaration in it and a use.
* `backend`: the procedures of `test/test.sn` and more, 65 programs. Each operator alone,
  each pair of two that differ in order and side, every statement, every type with a
  size, pointers and double pointers, arrays, calls nested in arguments, calls through
  a variable, eight parameters, recursion without an end, and one program for each
  error the compiler or nasm answers with. Sugar stands below sugar: a `for` in a `for`
  with an index in its start, condition and step, an index in an index on either side,
  so that the walk of `expand.c` must go on below what it has just replaced; and in one
  loop the body declares the loop's variable once more. Arguments are positive, negative and zero,
  with `ByteBase` 4; a byte then holds -2 to 1 and an `int` -128 to 127; results
  are compared modulo the width of their type. `MaxNodes` is 60, above the size of
  every program. A wrong register, offset, size or jump does not need a
  wider byte to show.
* `arena_blocks`: three addresses, five allocations, two lists, all capacities
  beginning with 1 where the code has 5. Addresses return, both lists grow twice, and
  the arena's own list grows three times. Addresses are symmetric.
* `driver_files`: two compilers, all pairs of targets, with the same source, sources of
  one name in two directories, of two names, and of `x.sn` beside `x.s.sn` or `x.o.sn`,
  whose programs are called like the assembly and the object of `x.sn`; files of an
  earlier day present or not. A compiler's files are disturbed by one other.

Every property of a passing run has a mutant: a changed form of a mapped
definition, standing next to it in the module and marked `variant`, under
which the run fails. Examples: setting the jump only on the way into a block
breaks `OnlyElseJumpsDead`; stopping recovery at a `;` it does not consume breaks
`OneErrorPerToken`; laying parameters out over the locals breaks
`SlotsDisjoint`; not going on below a node that a callback has replaced breaks
`SugarOnlyInTargets`; a search that skips the blocks
between the innermost and the global scope breaks `LexicalWhenUnambiguous`;
evaluating the left operand first breaks `CompiledRight`; losing the step of a `for`
loop breaks `EndsWhatEnds`; forgetting only the nearest entry of a moved block breaks
`FreedOnce`; not looking at a child's status breaks `NothingStale`.

Fairness. `Termination` of parser and lexer is checked under weak fairness of
`Next`. Each is one thread of one process that waits for nothing: as long as it
can take a step, it takes one. No fairness is asked of a single rule. In `Backend`
the walks and the running program have weak fairness each, for the same reason; they are
never enabled together. In `Driver` each compiler has weak fairness of its own steps, those
of its child included: processes the operating system schedules, of which one never waits
for another but a parent for its child. A child that runs for ever is not modelled,
since nasm and cc come to an end. A state in which the program is done or has exited
steps only to itself, so no run turns deadlock checking off.

### What the code does otherwise than it says

With a run that shows it:

* `parser_else`: an `else` not followed by `{` jumps through a `jmp_buf` of an
  activation that has returned. It is the only place (`OnlyElseJumpsDead`).
* `hashtable_full`: a key of 64 characters is not terminated, and is inserted
  a second time once it has a successor in its chain.
* `symboltable_shadow`: the second declaration of a name is given a place, but
  its name goes on to mean the first.
* `lexer_comment`: a comment on a last line without a line feed is skipped past the
  terminator.
* `backend_assign`: an assignment compares the type of the value with that of the
  target's address, so only pointers can be assigned. `test_while` of
  `test/test.sn` does not compile.

Stated by a property that holds, with the flaw as its limit:

* `Table.field_count` is never initialised and the fields are stored without a test
  of the capacity (`OnlyFullTablesOverflow`).
* Parameters are added to the frame without padding, so a frame is not a multiple of 16
  (`FrameAlignedButParams`).
* Comments do not count in `position` (`PositionsLackComments`).
* The code of a later argument overwrites earlier ones in their registers, and with a
  seventh argument `call` takes an argument for the callee (`ArgumentsKept`).
* `setcc` writes one byte of `rax` and the rest is read as part of the value
  (`TruthsReadable`). `&&` and `||` are bitwise and do not short-circuit.
* `idiv` is given whatever `edx` holds (`NoDivision`).
* An allocation that `realloc()` grows in place is never freed (`LeaksWhatStayed`).
* An index expression in the target of an assignment is not expanded, and code
  generation panics on it (`SugarOnlyInTargets`).
* Compilers share `/tmp/seron/`, whose files are named after the base name of the source
  alone: two sources of one name use the same ones, and the program of `x.s.sn` is the
  assembly of `x.sn` (`DisturbedByNamesake`). A
  failing `fork()`, `fprintf()` or `fclose()` is not noticed (`mishap`).

Visible in the actions without a property: a `'` at the end of the text takes the
terminator for its character and reads the one behind it (`lexer.c:135`,
`quote_past_end`); a number of exactly `MAX_NUMBER_LITERAL_LEN` digits is accepted, fills
its buffer, and is handed to `atoll()` without a terminator (`lexer.c:196`,
`number_unterminated`); a keyword is recognised by prefix, so
`iffy` begins an `if` (`lexer.c:80`); a list of exactly `MAX_PARAM_COUNT` parameters is
refused as having more (`parser.c:724`); a comma before a closing bracket is accepted
although the grammar comments have none (`parser.c:679`, `715`, `738`); `!` of an `int`
and `-` of a `char` are written in a form nasm refuses (`codegen.c`, `unaryop`).

## Proofs

`ParserProofs` proves, for every set of token streams over the token kinds,
every capacity above 0 and every set of initial counts:

* `TypeCorrect`: `Spec => []TypeOK`;
* `ParamListInBounds`: `Spec => []ParamsInBounds`, no parameter is stored
  behind `ProcSignature.params`;
* `NoTwoErrorsAtAToken`: `Spec => OneErrorPerToken`, an action property: an error is
  reported only at a token behind that of the error before;
* `ErrorsResumeInnermostBlock`: `Spec => []ResumesInnermostOpenBlock`, and
  `DeclErrorsLeaveNoBlock`: `Spec => []DeclJumpLeavesNoBlock`;
* `DeadJumpsFollowElse`: `Spec => OnlyElseJumpsDead`, an action property: a jump to an
  activation that has returned comes of the token behind an `else` and nowhere else;
* `FullTablesOverflow`: `Spec => OnlyFullTablesOverflow`, an action property: behind
  `Table.fields` is written only in a table whose fields, counted from the uninitialised
  `field_count`, do not fit.

Assumptions: `SourcesAssumption`, `CapacityAssumption` and `UninitAssumption`
of `Parser`; TLC evaluates them in every parser run.

`TypeOK` says that `frames` and each frame are never empty, and that is not
inductive: a rule at the head of a frame with nothing behind it would leave the
frame empty, and `}` on a stack of one frame would leave no stack. The
inductive invariant `IInv` adds why neither happens. Every frame is *plain*
symbols followed by the loop of its activation (`FrameOK`): `program` at the
bottom, `stmts` in every frame above. Only the loop removes itself, and the
bottom frame has no `stmts`, so `}` always leaves a frame behind. A statement's
jump never lands in frame 1 (`CtxOK`), and a parameter counter among the plain
symbols is below the capacity. The lemmas say how a frame and a stack survive
unfolding, pushing, cutting and a loop's turn; `RuleStep` covers all rules that
read on, go on or report an error; then there is a lemma for each action.

`OneErrorPerToken` compares the token of an error, `pos`, with that of the one before,
`errpos`. `Progress` says when they can be the same, and why no error follows then: either
the parser has moved past `errpos`, or it stands at a `proc` or `table` where
`parser_sync()` stops, and the next thing it does is to consume that token as the beginning
of a declaration.

The theorems about jumps rest on `JumpInv`, in four parts. `Waits`: every frame below the
top waits for its loop to go on, or for an `else` after the block above it. `Shape`: the
top frame is one of a few, simple symbols in front of one of a few tails. `Jumps`: `ctx` and
`ctx_stmt` belong to the top frame, but lag behind it between the call of a rule and the
line that sets them, where no rule can report an error. `Stranded`: while a statement's jump
is dead the parser is at a place that cannot fail, unless it has just read an `else`. That
last exception is the defect `parser_else` shows; the theorem says that there is no other.

`FullTablesOverflow` relates the count on the stack to the text read so far. `TableInv` says
where the count can be: on the stack of `rule_program`, at one of eight places of the table
in hand (`InTable`), and at each of them not above some initial count and the colons behind
the last `table`. At the place behind a field's type the field in hand is among them, in
front of its colon it is not yet. No other stack holds a count (`Tableless`), so one table's
never runs on into the next, and an error drops it. A colon read adds one to a set of places
in the text, and the proof counts that set (`OneMoreColon`).

`BracketProofs` proves for the same constants:

* `BracketsAreBalanced`: `Spec => []BracketsBalance`, what is read and what the stack still
  expects are together balanced, until the first error;
* `AcceptedIsBalanced`: what the parser accepts closes each bracket by its partner.

`BracketsBalance` needs little to be inductive (`BracketInv`: recovery follows an error);
the work is in the steps. A rule that runs behind an opening bracket it has read stands for
the one that closes it, any other for none (`BracketOf`). `BracketStep` says that the
symbols a rule puts in its place, with the token it reads, leave open what the rule stood
for; there is a lemma for each group of rules. That this is enough is a congruence: balance
is a run over the word letter by letter (`Bracket`), so a part of a word may be replaced by
one that leaves the same brackets open (`StillBalanced`). The run and the stack's word are
functions defined by recursion over a number; that they exist and are unique is proved first
(`Recursion`). For `AcceptedIsBalanced`, the parser accepts only with `rule_program` alone
on the stack and the text read to its end (`AcceptedInv`), so nothing is open.

`HashtableProofs` proves for any identifiers, any number of buckets and any hash:

* `TypeCorrect`: `TypeOK`;
* `OneEntry`: `OneEntryPerKey`, and `Refinement`: `IsSymbolMap`, the chains implement the
  map of `SymbolMap`. Both assume `ShortKeys`, that no identifier fills its array;
  without it they are false, as `hashtable_full` shows. `ShortKeys` makes a comparison
  of strings one of keys; then the entry a walk down a chain finds is the first of its
  key, and an insertion at the end of the chain is found by exactly its own key.

Assumptions: `KeysAssumption`, `SizeAssumption`, `HashAssumption`. That `KeyHash`, the hash
of `hashtable.c`, stays below the number of buckets is TLC's part.

`SymboltableProofs` proves, for every tree over any names, types, array lengths and
signatures and of any size:

* `TypeCorrect`: `TypeOK`;
* `SlotsAreInFrame`: `SlotsInFrame`, and `SlotsAreDisjoint`: `SlotsDisjoint`;
* `FramesAreAligned`: `FrameAlignedButParams`, with `Aligned`;
* `OwnFrame`: `UsesOwnFrame`, and `LexicalScoping`: `LexicalWhenUnambiguous`.

The invariant `IInv` has six parts, each for what the next needs. `Typed` and `Nested`: the
blocks around the walk are a chain of scopes from the global one inwards, and `head` is the
innermost of them. `Framed`: all slots of the procedure in hand lie below `stack_size`,
those of others below the frame they were given, so a new slot meets no other. `Entered`: a
scope has exactly the names declared in its block, each with the symbol of its first
declaration. `Owned`: no block but the global one is shared by two procedures, and what is
local to a procedure has a slot there. `Resolved`: each name the second walk has looked up
is bound to what its chain of scopes says. `Aligned` is the invariant of `FramesAreAligned`:
while a procedure is open its `stack_size` is a multiple of 16, and only procedures that
have ended have parameters. When one ends, its parameters are piled on the frame without a
gap, and the sum of their sizes is that pile's height. The sum is a fold over a set, in an
order nobody knows; since slots are disjoint it is the number of bytes in them
(`SumIsBytes`), and bytes can be counted in any order. Parameters are entered all at once
and a name is looked up along a chain of any length; the lemmas about `AreTops`,
`AreEntered` and `AreWalks` are inductions on that length, over a set of numbers where the
library's take a predicate (`GeneralLemmas`). Assumptions: those named in `Symboltable`, of
which the proofs use `LengthsAssumption` and `SignaturesAssumption`.

`LexerProofs` proves for every set of texts, any alphabet, any keywords and any limits:

* `TypeCorrect`: `TypeOK`. Until it ends, and where it ends other than by one of
  `Overread`, `src` is in the text or on the terminator;
* `TokensAreTheText`: `TokensTile`;
* `PositionsAreRightButForComments`: `PositionsLackComments`.

`IInv` adds to them `Skipped`, that what lies between the last token and `src` is blanks
and comments, and `Counted`, that `position` is behind `src` by exactly the number of
characters of the comments passed. Assumptions: `TextsAssumption` and `NulAssumption`.

`ArenaProofs` proves all five properties of `arena_blocks` for any number of addresses,
lists and allocations and any initial capacity: `TypeCorrect`, `FreesOnce`,
`LeaksOnlyWhatStayed`, `ListsOwn` and `Roomy`. Assumptions: `NullAssumption`,
`CapAssumption`, `BoundsAssumption`.

None of the five is inductive. That nothing is freed twice depends on what the list of
allocations holds while the arena is open: an allocated block has at most one entry, and
an entry is `NULL` or allocated (`EntriesOnce`), which holds only because the loop of
`arena_realloc()` clears every old entry before `malloc()` can give the address out again.
A block has no entry exactly if it stayed in place when it last grew (`NoEntryIfStayed`),
which gives the leak. The growing list of allocations is as long as its capacity says, or
was never allocated and has no entry (`RoomForEntries`); so is each list of nodes, and no
two share a block (`ListsOK`).

`DriverProofs` proves the four invariants of `driver_files`, for any
number of compilers, directories, base names and sources:

* `TypeCorrect`: `TypeOK`, with `Others`, that the calls a compiler has left are an
  end of its target's list.
* `DisturbsNamesakesOnly`: `DisturbedByNamesake`. No step changes a source or a target, so
  who was disturbed shared a path with another compiler. Two paths are one only if their
  directories and their names are; the endings are `.s`, `.o` and none, and two names of
  the same ending are one only if their base names are. There remain a program and
  an assembly or object (`ProgramOver`).
* `MakesItsOwn`: `OwnProduct`, and `NeverStale`: `NothingStale`. Both follow from one notion,
  `Sound(c, begun, good)`: the assembly a compiler has begun is in `begun`, the file
  its next call depends on is in `good`, and so is what its child has read and what it has
  made. `OwnStep` shows that a compiler hands this on along its stages, `OtherStep`
  that another one leaves it alone. For `OwnProduct` the sets hold the compiler's own
  contents and others do not write its files; for `NothingStale` they hold all that
  is not of an earlier day and others may write what they like of that.

Assumptions: `CompilersAssumption` (compilers are told from the three marks of contents
that are nobody's), `BasesAssumption` (names are sequences of parts) and
`SourcesAssumption`.

Only model-checked:

* Liveness, which is out of the prover's reach: `Termination` of parser, lexer and driver, and
  `EndsWhatEnds`.
* All of `Backend`: its code generation is a recursion over the tree and its machine has
  bitwise operations, neither of which the provers take.
* That `KeyHash` stays below the number of buckets: what a fold over a key computes.

## Not modelled

* Diagnostics: what is printed; the place it starts from is in `Lexer`.
* Values of literals, and the printing of tokens and trees, which no modelled decision
  depends on. The parser's tree is not built in `Parser`: its rules are control, and
  `Backend` starts from trees.
* The parsing of options and reading of the source (`main.c`), which are one step of
  `Driver` that may fail; what the compiler prints about its stages. The source files
  are not among the files of `Driver`: that the program of `x.sn.sn` is written over
  `x.sn` beside it does not show.
* `lib/ver.h`: macros. A panic is an outcome wherever one can be reached.
* The text of the assembly: `Assembly` has the instructions, not their layout, and
  no data section but the addresses of strings.
* `editor/`, `perf/`, `rule110/`, `assets/`, build files: no part of the compiler.

## Plan

Done, in this order: `Parser`, `Hashtable` with `SymbolMap`, `Symboltable`, `Lexer`,
`ParserProofs`, `Arena`, `Driver`, `Tree`, `Codegen` with `Machine`, `Backend`,
`ArenaProofs`, `DriverProofs`, `HashtableProofs`, `SymboltableProofs`, `LexerProofs`, in
`ParserProofs` the jumps, the places of errors and the tables, the alignment of frames in
`SymboltableProofs`, and `BracketProofs`.

Next:

1. `Expressions`: precedence and associativity of the tiers of `templ_binop` against a
   reference parse.
2. A `Codegen` whose recursion over the tree is a recursive function, so that theorems about
   `StackBalanced` come within the provers' reach.
