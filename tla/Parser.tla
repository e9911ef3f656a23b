------------------------------- MODULE Parser -------------------------------
(***************************************************************************)
(* The recursive-descent parser of seronc (seronc/parser.c), with its      *)
(* panic-mode error recovery by setjmp/longjmp.                            *)
(*                                                                         *)
(* The C call stack is a sequence of frames.  Frame 1 is the activation of *)
(* rule_program, every further frame an activation of rule_stmt_block:     *)
(* those are the two functions that call setjmp.  A frame holds what its   *)
(* activation still has to do, the next thing first; the rules that call   *)
(* no setjmp are unfolded into the frame of the activation they run in.    *)
(* A longjmp to a frame discards the frames above it and what the frame    *)
(* itself still had to do, and resumes its loop.                           *)
(*                                                                         *)
(* The tree the rules build is not part of the state: which tokens are     *)
(* read, in which order, and where control goes does not depend on it.     *)
(***************************************************************************)
EXTENDS Naturals, Sequences, SequencesExt

CONSTANTS
  Sources,            \* the token streams the lexer may deliver, TOK_EOF not included
  MAX_PARAM_COUNT,    \* capacity of ProcSignature.params and of Table.fields
  UninitCounts        \* values the uninitialised Table.field_count may hold

TypeKeywords == {"KW_TYPE_VOID", "KW_TYPE_CHAR", "KW_TYPE_INT", "KW_TYPE_LONG"}
Literals     == {"LITERAL_IDENT", "LITERAL_NUMBER", "LITERAL_STRING"}
UnaryOps     == {"MINUS", "BANG", "AMPERSAND", "ASTERISK"}
BinaryOps    == {"SLASH", "ASTERISK", "PLUS", "MINUS", "LT", "LT_EQ", "GT",
                 "GT_EQ", "EQ", "NEQ", "AMPERSAND", "PIPE", "LOG_AND", "LOG_OR"}
TokenKinds   == TypeKeywords \cup Literals \cup UnaryOps \cup BinaryOps \cup
  {"SEMICOLON", "COLON", "COMMA", "ASSIGN", "LPAREN", "RPAREN", "LBRACE",
   "RBRACE", "LBRACKET", "RBRACKET", "KW_PROC", "KW_VARDECL", "KW_IF",
   "KW_ELSE", "KW_ELSIF", "KW_WHILE", "KW_RETURN", "KW_TABLE", "KW_FOR"}

\* a place in the source where lexer_next() reports an error and exits
LexError == "LEX_ERROR"

ASSUME SourcesAssumption == Sources \subseteq Seq(TokenKinds \cup {LexError})
ASSUME CapacityAssumption == MAX_PARAM_COUNT \in Nat \ {0}
ASSUME UninitAssumption == UninitCounts \subseteq Nat /\ UninitCounts # {}

VARIABLES
  src,        \* the token stream being parsed
  pos,        \* index in src of the current token, Parser.tok
  frames,     \* activations of rule_program and rule_stmt_block, innermost last
  ctx,        \* Parser.ctx
  ctx_stmt,   \* the jmp_buf Parser.ctx_stmt: the frame whose loop it resumes,
              \* and whether the activation that set it is still on the stack.
              \* (Parser.ctx_decl always resumes frame 1, which never returns
              \* while a rule runs, so it needs no variable.)
  errcount,   \* Parser.errcount
  errpos,     \* history: pos at the last call of parser_sync(), 0 before the first
  mode        \* "parse", "recover" (inside parser_sync), or how the run ended

vars == <<src, pos, frames, ctx, ctx_stmt, errcount, errpos, mode>>

Outcomes == {"accepted", "rejected", "undefined"}

-----------------------------------------------------------------------------
(* What a frame still has to do: consume a token of a given kind, or run a *)
(* rule.  The two loops that fill an array carry the array's counter.      *)

Consume(k)     == [do |-> "consume", kind |-> k, n |-> 0]
Rule(r)        == [do |-> r, kind |-> "", n |-> 0]
Counting(r, n) == [do |-> r, kind |-> "", n |-> n]

Top       == Last(frames)
At(r)     == mode = "parse" /\ Top # <<>> /\ Head(Top).do = r
Unfold(s) == [frames EXCEPT ![Len(frames)] = s \o Tail(@)]

TokAt(i) == IF i > Len(src) THEN "EOF" ELSE src[i]
Tok      == TokAt(pos)

\* exit(EXIT_FAILURE), return to main(), or a state C gives no meaning to
Finish(outcome) ==
  /\ mode' = outcome
  /\ UNCHANGED <<src, pos, frames, errcount, errpos>>

\* variants of AdvanceIn that do not look for the end of the file
AdvanceUnchecked(m, fs) ==
  /\ pos' = pos + 1
  /\ mode' = m
  /\ frames' = fs
  /\ UNCHANGED <<src, errcount, errpos>>

AdvanceStaysAtEnd(m, fs) ==
  /\ pos' = IF Tok = "EOF" THEN pos ELSE pos + 1
  /\ mode' = IF TokAt(pos') = LexError THEN "rejected" ELSE m
  /\ frames' = fs
  /\ UNCHANGED <<src, errcount, errpos>>

\* parser_advance(), after which the frames are fs and the parser goes on in m
AdvanceIn(m, fs) ==
  \/ /\ Tok = "EOF"
     /\ Finish("rejected")
  \/ /\ Tok # "EOF"
     /\ pos' = pos + 1
     /\ mode' = IF TokAt(pos + 1) = LexError THEN "rejected" ELSE m
     /\ frames' = fs
     /\ UNCHANGED <<src, errcount, errpos>>

\* consume the current token, then carry on with s in place of the rule at hand
Advance(s) == AdvanceIn("parse", Unfold(s))

\* carry on with s in place of the rule at hand, without reading a token
Goto(s) ==
  /\ frames' = Unfold(s)
  /\ UNCHANGED <<src, pos, errcount, errpos, mode>>

\* parser_sync(): the skipping and the jump are RecoverDecl and RecoverStmt
Sync ==
  /\ errcount' = errcount + 1
  /\ errpos' = pos
  /\ mode' = "recover"
  /\ UNCHANGED <<src, pos, frames>>

\* an alternative of a rule, taken when the current token is one of ks
On(ks, step) == Tok \in ks /\ step

Otherwise(ks, step) == Tok \notin ks /\ step

-----------------------------------------------------------------------------
(* Right-hand sides used by more than one rule.                            *)

\* rule_expr_assign down to rule_expr_factor: the tiers only decide how the
\* tree nests, a binary operator of any tier continues the same run of operands
Assignment == <<Rule("unary"), Rule("binop_tail"), Rule("assign_tail")>>

\* rule_expr_index, rule_expr_call
Postfix == <<Rule("primary"), Rule("call_tail"), Rule("index_tail")>>

\* variant: the opening parenthesis is not consumed
SignatureUnopened == <<Counting("params", 0), Rule("type")>>

\* rule_util_paramlist and the return type
Signature == <<Consume("LPAREN"), Counting("params", 0), Rule("type")>>

Statement ==
  [k \in {"LBRACE", "KW_VARDECL", "KW_IF", "KW_WHILE", "KW_FOR", "KW_RETURN"} |->
     CASE k = "LBRACE"     -> <<Rule("block")>>
       [] k = "KW_VARDECL" -> <<Consume(k), Consume("LITERAL_IDENT"), Consume("COLON"),
                                Rule("type"), Rule("vardecl_init")>>
       [] k = "KW_IF"      -> <<Consume(k), Rule("expr"), Rule("block"), Rule("else_tail")>>
       [] k = "KW_WHILE"   -> <<Consume(k), Rule("expr"), Rule("block")>>
       [] k = "KW_FOR"     -> <<Consume(k), Consume("LITERAL_IDENT"), Consume("COLON"),
                                Rule("type"), Consume("ASSIGN"), Rule("expr"),
                                Consume("COMMA"), Rule("expr"), Consume("COMMA"),
                                Rule("expr"), Rule("block")>>
       [] k = "KW_RETURN"  -> <<Consume(k), Rule("exprstmt")>>]

-----------------------------------------------------------------------------
Init ==
  /\ src \in Sources
  /\ pos = 1
  /\ frames = << <<Rule("program")>> >>
  /\ ctx = "STMT"     \* zero-initialised: CONTEXT_STMT is the first enumerator
  /\ ctx_stmt = [frame |-> 0, live |-> FALSE]
  /\ errcount = 0
  /\ errpos = 0
  /\ mode = IF TokAt(1) = LexError THEN "rejected" ELSE "parse"

\* parser_consume(); at the end of the file parser_advance() exits
ParserConsume ==
  /\ At("consume")
  /\ \/ On({"EOF", Head(Top).kind}, Advance(<<>>))
     \/ Otherwise({"EOF", Head(Top).kind}, Sync)
  /\ UNCHANGED <<ctx, ctx_stmt>>

RuleProgram ==
  /\ At("program")
  /\ \/ On({"EOF"}, Finish(IF errcount = 0 THEN "accepted" ELSE "rejected"))
     \/ Otherwise({"EOF"}, Goto(<<Rule("decl"), Rule("program")>>))
  /\ UNCHANGED <<ctx, ctx_stmt>>

RuleDecl ==
  /\ At("decl")
  /\ ctx' = "DECL"
  /\ \/ On({"KW_PROC"}, Goto(<<Consume("KW_PROC"), Consume("LITERAL_IDENT")>>
                             \o Signature \o <<Rule("proc_body")>>))
     \/ \E c \in UninitCounts :
          On({"KW_TABLE"}, Goto(<<Consume("KW_TABLE"), Consume("LITERAL_IDENT"),
                                  Consume("LBRACE"), Counting("fields", c)>>))
     \/ Otherwise({"KW_PROC", "KW_TABLE"}, Sync)
  /\ UNCHANGED ctx_stmt

ProcBody ==
  /\ At("proc_body")
  /\ \/ On({"SEMICOLON"}, Advance(<<>>))
     \/ Otherwise({"SEMICOLON"}, Goto(<<Rule("block")>>))
  /\ UNCHANGED <<ctx, ctx_stmt>>

Params ==
  /\ At("params")
  /\ \/ On({"RPAREN"}, Advance(<<>>))
     \/ Otherwise({"RPAREN"},
          Goto(<<Rule("param"), Counting("param_stored", Head(Top).n)>>))
  /\ UNCHANGED <<ctx, ctx_stmt>>

\* variant: the limit is tested as the diagnostic words it
ParamLimitPassed(count) == count > MAX_PARAM_COUNT

ParamLimitReached(count) == count >= MAX_PARAM_COUNT

\* params[n] has been written: the limit is tested after the write
ParamStored ==
  LET count == Head(Top).n + 1 IN
  /\ At("param_stored")
  /\ \/ ParamLimitReached(count) /\ Sync
     \/ /\ ~ParamLimitReached(count)
        /\ \/ On({"COMMA"}, Advance(<<Counting("params", count)>>))
           \/ Otherwise({"COMMA"}, Goto(<<Counting("params", count)>>))
  /\ UNCHANGED <<ctx, ctx_stmt>>

Fields ==
  /\ At("fields")
  /\ \/ On({"RBRACE"}, Advance(<<>>))
     \/ Otherwise({"RBRACE"},
          Goto(<<Rule("param"), Counting("field_stored", Head(Top).n)>>))
  /\ UNCHANGED <<ctx, ctx_stmt>>

\* variant: the limit is met with the array one short of full
FieldStoredEarly ==
  LET count == Head(Top).n + 1 IN
  /\ At("field_stored")
  /\ \/ count >= MAX_PARAM_COUNT /\ Finish("undefined")
     \/ /\ count < MAX_PARAM_COUNT
        /\ Goto(<<Counting("fields", count)>>)
  /\ UNCHANGED <<ctx, ctx_stmt>>

\* fields[n] has been written, and nothing ever tests n
FieldStored ==
  LET count == Head(Top).n + 1 IN
  /\ At("field_stored")
  /\ \/ count > MAX_PARAM_COUNT /\ Finish("undefined")
     \/ /\ count <= MAX_PARAM_COUNT
        /\ \/ On({"COMMA"}, Advance(<<Counting("fields", count)>>))
           \/ Otherwise({"COMMA"}, Goto(<<Counting("fields", count)>>))
  /\ UNCHANGED <<ctx, ctx_stmt>>

Param ==
  /\ At("param")
  /\ Goto(<<Consume("LITERAL_IDENT"), Consume("COLON"), Rule("type")>>)
  /\ UNCHANGED <<ctx, ctx_stmt>>

RuleType ==
  /\ At("type")
  /\ \/ On({"ASTERISK"}, Advance(<<Rule("type")>>))
     \/ On({"KW_PROC"}, Goto(<<Consume("KW_PROC")>> \o Signature))
     \/ On({"LITERAL_IDENT"} \cup TypeKeywords, Advance(<<>>))
     \/ Otherwise({"ASTERISK", "KW_PROC", "LITERAL_IDENT"} \cup TypeKeywords, Sync)
  /\ UNCHANGED <<ctx, ctx_stmt>>

-----------------------------------------------------------------------------
(* Expressions                                                             *)

RuleExpr ==
  /\ At("expr")
  /\ \/ On({"LBRACKET"}, Advance(<<Rule("values")>>))
     \/ Otherwise({"LBRACKET"}, Goto(Assignment))
  /\ UNCHANGED <<ctx, ctx_stmt>>

Unary ==
  /\ At("unary")
  /\ \/ On(UnaryOps, Advance(Postfix))
     \/ Otherwise(UnaryOps, Goto(Postfix))
  /\ UNCHANGED <<ctx, ctx_stmt>>

BinopTail ==
  /\ At("binop_tail")
  /\ \/ On(BinaryOps, Advance(<<Rule("unary"), Rule("binop_tail")>>))
     \/ Otherwise(BinaryOps, Goto(<<>>))
  /\ UNCHANGED <<ctx, ctx_stmt>>

AssignTail ==
  /\ At("assign_tail")
  /\ \/ On({"ASSIGN"}, Advance(Assignment))
     \/ Otherwise({"ASSIGN"}, Goto(<<>>))
  /\ UNCHANGED <<ctx, ctx_stmt>>

Primary ==
  /\ At("primary")
  /\ \/ On(Literals, Advance(<<>>))
     \/ On({"LPAREN"}, Advance(<<Rule("grouping")>>))
     \/ Otherwise(Literals \cup {"LPAREN"}, Sync)
  /\ UNCHANGED <<ctx, ctx_stmt>>

Grouping ==
  /\ At("grouping")
  /\ \/ On({"RPAREN"}, Sync)
     \/ Otherwise({"RPAREN"}, Goto(<<Rule("expr"), Consume("RPAREN")>>))
  /\ UNCHANGED <<ctx, ctx_stmt>>

CallTail ==
  /\ At("call_tail")
  /\ \/ On({"LPAREN"}, Advance(<<Rule("args")>>))
     \/ Otherwise({"LPAREN"}, Goto(<<>>))
  /\ UNCHANGED <<ctx, ctx_stmt>>

IndexTail ==
  /\ At("index_tail")
  /\ \/ On({"LBRACKET"}, Advance(<<Rule("expr"), Consume("RBRACKET")>>))
     \/ Otherwise({"LBRACKET"}, Goto(<<>>))
  /\ UNCHANGED <<ctx, ctx_stmt>>

\* the loops of rule_util_arglist and rule_expr_array: a comma between two
\* elements is taken when it is there and not missed when it is not
ListLoop(loop, sep, close, after) ==
  \/ /\ At(loop)
     /\ \/ On({close}, Advance(after))
        \/ Otherwise({close}, Goto(<<Rule("expr"), Rule(sep)>>))
     /\ UNCHANGED <<ctx, ctx_stmt>>
  \/ /\ At(sep)
     /\ \/ On({"COMMA"}, Advance(<<Rule(loop)>>))
        \/ Otherwise({"COMMA"}, Goto(<<Rule(loop)>>))
     /\ UNCHANGED <<ctx, ctx_stmt>>

Args   == ListLoop("args", "args_sep", "RPAREN", <<>>)
Values == ListLoop("values", "values_sep", "RBRACKET", <<Rule("type")>>)

-----------------------------------------------------------------------------
(* Statements                                                              *)

\* variant: setjmp before the brace is read
BlockJumpsEarly ==
  /\ At("block")
  /\ frames' = Append(Unfold(<<>>), <<Consume("LBRACE"), Rule("stmts")>>)
  /\ ctx_stmt' = [frame |-> Len(frames) + 1, live |-> TRUE]
  /\ UNCHANGED <<src, pos, ctx, errcount, errpos, mode>>

\* a call of rule_stmt_block
Block ==
  /\ At("block")
  /\ frames' = Append(Unfold(<<>>), <<Consume("LBRACE"), Rule("stmts")>>)
  /\ UNCHANGED <<src, pos, ctx, ctx_stmt, errcount, errpos, mode>>

\* variant: setjmp only on the way into a block, not again after a nested one
SetJmpOnEntry ==
  ctx_stmt' = IF ctx_stmt.frame < Len(frames)
              THEN [frame |-> Len(frames), live |-> Tok # "RBRACE"]
              ELSE [ctx_stmt EXCEPT !.live = @ /\ Tok # "RBRACE"]

\* setjmp(ctx_stmt) in the innermost activation, which returns at once on "}"
SetJmp == ctx_stmt' = [frame |-> Len(frames), live |-> Tok # "RBRACE"]

\* one iteration of its loop: setjmp(ctx_stmt), then the next statement, the
\* return of the activation, or the missing brace
BlockLoop ==
  /\ At("stmts")
  /\ SetJmp
  /\ \/ On({"RBRACE"}, AdvanceIn("parse", Front(frames)))
     \/ On({"EOF"}, Finish("rejected"))
     \/ Otherwise({"RBRACE", "EOF"}, Goto(<<Rule("stmt"), Rule("stmts")>>))
  /\ UNCHANGED ctx

\* variant: the context is left as the declaration set it
KeepContext == UNCHANGED ctx

EnterStmtContext == ctx' = "STMT"

RuleStmt ==
  /\ At("stmt")
  /\ EnterStmtContext
  /\ \/ On(DOMAIN Statement, Goto(Statement[Tok]))
     \/ Otherwise(DOMAIN Statement, Goto(<<Rule("exprstmt")>>))
  /\ UNCHANGED ctx_stmt

\* rule_exprstmt, and what rule_stmt_return does after its keyword
ExprStmt ==
  /\ At("exprstmt")
  /\ \/ On({"SEMICOLON"}, Advance(<<>>))
     \/ Otherwise({"SEMICOLON"}, Goto(<<Rule("expr"), Consume("SEMICOLON")>>))
  /\ UNCHANGED <<ctx, ctx_stmt>>

VarDeclInit ==
  /\ At("vardecl_init")
  /\ \/ On({"SEMICOLON"}, Advance(<<>>))
     \/ Otherwise({"SEMICOLON"},
          Goto(<<Consume("ASSIGN"), Rule("expr"), Consume("SEMICOLON")>>))
  /\ UNCHANGED <<ctx, ctx_stmt>>

ElseTail ==
  /\ At("else_tail")
  /\ \/ On({"KW_ELSE"}, Advance(<<Rule("block")>>))
     \/ Otherwise({"KW_ELSE"}, Goto(<<>>))
  /\ UNCHANGED <<ctx, ctx_stmt>>

-----------------------------------------------------------------------------
(* parser_sync()                                                           *)

\* variant: a declaration is also looked for behind a semicolon
RecoverDeclToSemicolon == {"KW_PROC", "KW_TABLE", "SEMICOLON"}

RecoverDeclTokens == {"KW_PROC", "KW_TABLE"}

\* longjmp(ctx_decl): rule_program calls rule_decl again
RecoverDecl ==
  /\ mode = "recover" /\ ctx = "DECL"
  /\ \/ /\ Tok \in RecoverDeclTokens
        /\ frames' = << <<Rule("decl"), Rule("program")>> >>
        /\ mode' = "parse"
        /\ UNCHANGED <<src, pos, errcount, errpos>>
     \/ Otherwise(RecoverDeclTokens, AdvanceIn("recover", frames))
  /\ UNCHANGED <<ctx, ctx_stmt>>

\* longjmp(ctx_stmt).  When the activation that called setjmp has returned the
\* jump is undefined; the build resumes the activation now at its place on the
\* stack, if there is one, or dies.
RecoverStmt ==
  LET f == ctx_stmt.frame IN
  /\ mode = "recover" /\ ctx = "STMT"
  /\ \/ /\ Tok = "SEMICOLON"
        /\ f \in 1..Len(frames)
        /\ AdvanceIn("parse", Append(SubSeq(frames, 1, f - 1), <<Rule("stmts")>>))
     \/ Tok = "SEMICOLON" /\ ~ctx_stmt.live /\ Finish("undefined")
     \/ Otherwise({"SEMICOLON"}, AdvanceIn("recover", frames))
  /\ UNCHANGED <<ctx, ctx_stmt>>

\* the compiler has gone on to the next stage, or the process has exited
Terminated ==
  /\ mode \in Outcomes
  /\ UNCHANGED vars

-----------------------------------------------------------------------------
Declaration == RuleProgram \/ RuleDecl \/ ProcBody \/ Params \/ ParamStored
               \/ Fields \/ FieldStored \/ Param \/ RuleType
Expression  == RuleExpr \/ Unary \/ BinopTail \/ AssignTail \/ Primary
               \/ Grouping \/ CallTail \/ IndexTail \/ Args \/ Values
Stmt        == Block \/ BlockLoop \/ RuleStmt \/ ExprStmt \/ VarDeclInit \/ ElseTail
Recovery    == RecoverDecl \/ RecoverStmt

Next == ParserConsume \/ Declaration \/ Expression \/ Stmt \/ Recovery \/ Terminated

Spec == Init /\ [][Next]_vars

\* the parser is one thread of a process: whatever it can do next it does
FairSpec == Spec /\ WF_vars(Next)
-----------------------------------------------------------------------------
(* Properties                                                              *)

\* Types of the state: the current token is a position of the source or the end
\* of it, and there is always the activation of rule_program.
TypeOK ==
  /\ src \in Seq(TokenKinds \cup {LexError})
  /\ pos \in 1..Len(src) + 1
  /\ frames # <<>>
  /\ \A i \in DOMAIN frames : frames[i] # <<>>
  /\ ctx \in {"DECL", "STMT"}
  /\ ctx_stmt \in [frame : Nat, live : BOOLEAN]
  /\ errcount \in Nat /\ errpos \in Nat
  /\ mode \in {"parse", "recover"} \cup Outcomes

\* rule_util_paramlist never writes behind ProcSignature.params: when the
\* parameter in hand has been stored at index n, n is an index of the array.
ParamsInBounds ==
  \A i \in DOMAIN frames : \A j \in DOMAIN frames[i] :
    frames[i][j].do \in {"params", "param_stored"} => frames[i][j].n < MAX_PARAM_COUNT

\* an activation of rule_stmt_block that is past its opening brace
Opened(i) == i > 1 /\ frames[i][1] # Consume("LBRACE")

\* parser_sync() in a statement resumes the innermost block whose opening brace
\* has been read, whatever rules and nested blocks were begun and left since;
\* the jump after an "else" without block is the exception of OnlyElseJumpsDead.
ResumesInnermostOpenBlock ==
  mode = "recover" /\ ctx = "STMT" /\ ctx_stmt.live =>
    /\ Opened(ctx_stmt.frame)
    /\ \A i \in DOMAIN frames : Opened(i) => i <= ctx_stmt.frame

\* parser_sync() in a declaration never leaves a block whose statements are
\* being parsed: rule_decl is abandoned before its body's brace, or not at all.
DeclJumpLeavesNoBlock ==
  mode = "recover" /\ ctx = "DECL" => \A i \in DOMAIN frames : ~Opened(i)

\* The comment on ParserContext ("we always have to know if we're in a statement or
\* declaration, so we know where to jump to in case of an error"): the activation
\* a statement's error jumps to still exists.
StmtJumpLive == mode = "recover" /\ ctx = "STMT" => ctx_stmt.live

\* The only error that jumps to a block already left is a token other than "{"
\* behind "else": elsewhere a jmp_buf is set again before it can be used.
OnlyElseJumpsDead ==
  [][mode = "parse" /\ mode' = "recover" /\ ~StmtJumpLive'
       => pos > 1 /\ src[pos - 1] = "KW_ELSE"]_vars

Opener == [RPAREN |-> "LPAREN", RBRACE |-> "LBRACE", RBRACKET |-> "LBRACKET"]

\* the brackets that are open, the innermost first, when t is read behind those of
\* open; "unopened" stands for a bracket that closes nothing
Bracket(open, t) ==
  CASE t \in {"LPAREN", "LBRACE", "LBRACKET"} -> <<t>> \o open
    [] t \in DOMAIN Opener ->
         IF open # <<>> /\ Head(open) = Opener[t] THEN Tail(open) ELSE <<"unopened">> \o open
    [] OTHER -> open

\* the same behind all of s
OpenBehind(open, s) ==
  LET behind[i \in 0..Len(s)] == IF i = 0 THEN open ELSE Bracket(behind[i - 1], s[i])
  IN  behind[Len(s)]

\* s closes every bracket it opens, in order
Balanced(s) == OpenBehind(<<>>, s) = <<>>

\* the bracket a symbol of a frame will consume, itself or at the end of its loop
BracketOf(sym) ==
  CASE sym.do = "consume" -> sym.kind
    [] sym.do \in {"params", "param_stored", "args", "args_sep"} -> "RPAREN"
    [] sym.do \in {"fields", "field_stored", "stmts"} -> "RBRACE"
    [] sym.do \in {"values", "values_sep"} -> "RBRACKET"
    [] sym.do = "grouping" -> "RPAREN"
    [] OTHER -> ""

Brackets(fr) == [j \in DOMAIN fr |-> BracketOf(fr[j])]

\* those of a whole stack, in the order they will be consumed
Pending(fs) ==
  LET of[i \in 0..Len(fs)] == IF i = 0 THEN <<>> ELSE Brackets(fs[i]) \o of[i - 1]
  IN  of[Len(fs)]

\* Until the first error the call stack mirrors the text: the tokens read so far,
\* followed by the brackets the pending rules will still consume, are balanced.
\* So a program is accepted only if every bracket in it is closed by its partner.
BracketsBalance ==
  mode \in {"parse", "accepted"} /\ errcount = 0 => Balanced(SubSeq(src, 1, pos - 1) \o Pending(frames))

\* Recovery makes progress: every error is reported at a token behind that of the
\* error before, so no token has two, however recovery stops and rules fail again.
OneErrorPerToken == [][errcount' # errcount => errpos < pos]_vars

\* the fields read since the last "table": each has one colon at least
FieldsRead ==
  LET table(I) == \E i \in I : src[i] = "KW_TABLE" IN
  Cardinality({i \in 1..pos - 1 : src[i] = "COLON" /\ table(1..i) /\ ~table(i..pos - 1)})

\* While no error is being recovered from, the parser leaves what C defines only in
\* a table whose fields, counted from the uninitialised Table.field_count, do not
\* fit: the count of one table never runs on into the next, or into a procedure.
OnlyFullTablesOverflow ==
  [][mode = "parse" /\ mode' = "undefined"
       => FieldsRead > 0 /\ \E c \in UninitCounts : FieldsRead + c > MAX_PARAM_COUNT]_vars

\* Whatever the text, the parser ends: no rule loops without reading a token and
\* no recovery comes back to the place it started from.
Termination == <>(mode \in Outcomes)
=============================================================================
