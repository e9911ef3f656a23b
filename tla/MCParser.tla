------------------------------ MODULE MCParser ------------------------------
(* The token streams TLC parses: programs that use every rule of the       *)
(* grammar, every text that one slip of the pen makes of them, and every   *)
(* short text over the tokens the recovery is about.                       *)
EXTENDS Parser

Let(type, init)  == <<"KW_VARDECL", "LITERAL_IDENT", "COLON">> \o type \o init \o <<"SEMICOLON">>
Braces(body)     == <<"LBRACE">> \o body \o <<"RBRACE">>
Proc(name, pars, body) ==
  <<"KW_PROC">> \o name \o <<"LPAREN">> \o pars \o <<"RPAREN", "KW_TYPE_VOID">> \o body
Param1 == <<"LITERAL_IDENT", "COLON", "KW_TYPE_INT">>
Ident  == <<"LITERAL_IDENT">>

Programs == {
  \* proc f(a: int) void { if -a < 1 { ; } else { return; } }  proc f() void;
  Proc(Ident, Param1, Braces(
     <<"KW_IF", "MINUS", "LITERAL_IDENT", "LT", "LITERAL_NUMBER">> \o Braces(<<"SEMICOLON">>)
     \o <<"KW_ELSE">> \o Braces(<<"KW_RETURN", "SEMICOLON">>)))
  \o Proc(Ident, <<>>, <<"SEMICOLON">>),
  \* table t { a: int, } proc f() void { let p: *proc() void = [1, a] char; {} }
  <<"KW_TABLE", "LITERAL_IDENT", "LBRACE">> \o Param1 \o <<"COMMA", "RBRACE">>
  \o Proc(Ident, <<>>, Braces(
     Let(<<"ASTERISK">> \o Proc(<<>>, <<>>, <<>>),
         <<"ASSIGN", "LBRACKET", "LITERAL_NUMBER", "COMMA", "LITERAL_IDENT", "RBRACKET",
           "KW_TYPE_CHAR">>)
     \o Braces(<<>>))),
  \* proc f() void { for i: int = 0, i, i = f(1, s)[(2)] { let x: t; } while x { f(); } }
  Proc(Ident, <<>>, Braces(
     <<"KW_FOR", "LITERAL_IDENT", "COLON", "KW_TYPE_INT", "ASSIGN", "LITERAL_NUMBER", "COMMA",
       "LITERAL_IDENT", "COMMA", "LITERAL_IDENT", "ASSIGN", "LITERAL_IDENT", "LPAREN",
       "LITERAL_NUMBER", "COMMA", "LITERAL_STRING", "RPAREN", "LBRACKET", "LPAREN",
       "LITERAL_NUMBER", "RPAREN", "RBRACKET">>
     \o Braces(Let(Ident, <<>>))
     \o <<"KW_WHILE", "LITERAL_IDENT">>
     \o Braces(<<"LITERAL_IDENT", "LPAREN", "RPAREN", "SEMICOLON">>)))}

\* what is typed in place of, or in front of, a token
Slips == {"SEMICOLON", "COMMA", "LPAREN", "RPAREN", "LBRACE", "RBRACE", "RBRACKET",
          "LITERAL_IDENT", "ASTERISK", "KW_PROC", "KW_TABLE", "KW_IF", "KW_ELSE", LexError}

Edits(s) ==
  UNION {{SubSeq(s, 1, i - 1), RemoveAt(s, i)}
           \cup {ReplaceAt(s, i, t) : t \in Slips} \cup {InsertAt(s, i, t) : t \in Slips}
           : i \in DOMAIN s}

\* table t { a: int, a: int, ... } and proc f(a: int, a: int, ...) void;
List(n)    == FlattenSeq([i \in 1..n |-> Param1 \o <<"COMMA">>])
Table(n)   == <<"KW_TABLE", "LITERAL_IDENT", "LBRACE">> \o List(n) \o <<"RBRACE">>
Lists      == {Table(n) : n \in 0..3} \cup {Proc(Ident, List(n), <<"SEMICOLON">>) : n \in 0..3}

EditedPrograms == Lists \cup Programs \cup UNION {Edits(p) : p \in Programs}

\* the tokens that decide where an error inside a procedure is caught
BodyTokens == {"LBRACE", "RBRACE", "SEMICOLON", "KW_IF", "KW_ELSE", "LITERAL_IDENT", "KW_PROC"}

\* a procedure whose body has just begun, or is at the "else" of its first statement
BodyStarts == {<<"LBRACE">>, <<"LBRACE", "KW_IF", "LITERAL_IDENT", "LBRACE", "RBRACE", "KW_ELSE">>}

\* every text of up to 4 tokens behind them
ShortBodies == {Proc(Ident, <<>>, start \o b) : start \in BodyStarts, b \in SeqOf(BodyTokens, 4)}

AllTexts == EditedPrograms \cup ShortBodies
=============================================================================
