------------------------------- MODULE Lexer -------------------------------
(***************************************************************************)
(* seronc/lexer.c: the parser calls lexer_next() until it has TOK_EOF.     *)
(*                                                                         *)
(* The lexer keeps two places in the text: the pointer `src` it reads from *)
(* and the number `position` it stamps on the tokens for diagnostics.      *)
(* Most branches move both.  A character is a one-letter string; NUL ends  *)
(* the text, and what follows NUL is not the lexer's to read.              *)
(***************************************************************************)
EXTENDS Integers, Sequences, SequencesExt

CONSTANTS
  Texts,                    \* source files, sequences of characters
  Letters, Digits,          \* is_ident_head(), isdigit()
  Keywords,                 \* function from the keywords' texts to token kinds
  MAX_IDENT_LEN,
  MAX_NUMBER_LITERAL_LEN

ASSUME TextsAssumption == \A t \in Texts : t \in Seq(STRING)
ASSUME NulAssumption == "NUL" \notin Letters \cup Digits
ASSUME KeywordsAssumption ==
  /\ DOMAIN Keywords \subseteq Seq(Letters)
  \* of two keywords, none begins the other: the order of the tests does not matter
  /\ \A k, l \in DOMAIN Keywords : IsPrefix(k, l) => k = l

VARIABLES
  text,       \* the source file
  src,        \* Lexer.src, as an index of text
  position,   \* Lexer.position
  toks,       \* the tokens delivered: [kind, position, len], and start, a
              \* history: the index of the token's first character
  mode        \* "lex", or how it ended: "eof", "error" or one of Overread

vars == <<text, src, position, toks, mode>>

Blanks    == {" ", "\n", "\t", "\r"}
NumberSuffixes == {"L", "B", "I"}
IdentTail == Letters \cup Digits
NonAscii  == {"\\x80"}

Singles ==
  [c \in {"+", "-", "*", "/", "(", ")", "{", "}", "[", "]", ";", ",", ":"} |->
     CASE c = "+" -> "PLUS"     [] c = "-" -> "MINUS"    [] c = "*" -> "ASTERISK"
       [] c = "/" -> "SLASH"    [] c = "(" -> "LPAREN"   [] c = ")" -> "RPAREN"
       [] c = "{" -> "LBRACE"   [] c = "}" -> "RBRACE"   [] c = "[" -> "LBRACKET"
       [] c = "]" -> "RBRACKET" [] c = ";" -> "SEMICOLON" [] c = "," -> "COMMA"
       [] c = ":" -> "COLON"]

\* the kind of the character alone, the character that may follow, and of both
Doubles ==
  [c \in {"<", ">", "!", "=", "|", "&"} |->
     CASE c = "<" -> <<"LT", "=", "LT_EQ">>    [] c = ">" -> <<"GT", "=", "GT_EQ">>
       [] c = "!" -> <<"BANG", "=", "NEQ">>    [] c = "=" -> <<"ASSIGN", "=", "EQ">>
       [] c = "|" -> <<"PIPE", "|", "LOG_OR">> [] c = "&" -> <<"AMPERSAND", "&", "LOG_AND">>]

\* C gives no meaning to what follows: a comment or a quote has taken the lexer past
\* NUL, or atoll() reads behind the buffer of a number
Overread == {"comment_past_end", "quote_past_end", "number_unterminated"}

Char(i) == IF i <= Len(text) THEN text[i] ELSE "NUL"
Cur     == Char(src)

\* the first place from i on whose character is not in cs; NUL is in no cs
End(i, cs) == CHOOSE j \in i..Len(text) + 1 :
                Char(j) \notin cs /\ \A k \in i..j - 1 : Char(k) \in cs

-----------------------------------------------------------------------------
Init ==
  /\ text \in Texts
  /\ src = 1
  /\ position = 0
  /\ toks = <<>>
  /\ mode = "lex"

Stop(outcome) ==
  /\ mode' = outcome
  /\ UNCHANGED <<text, src, position, toks>>

\* lexer_next() returns a token of length len and has read the text before next
Deliver(kind, len, next) ==
  /\ toks' = Append(toks, [kind |-> kind, position |-> position, len |-> len, start |-> src])
  /\ src' = next
  /\ position' = position + len
  /\ UNCHANGED <<text, mode>>

Eof ==
  /\ mode = "lex" /\ Cur = "NUL"
  /\ toks' = Append(toks, [kind |-> "EOF", position |-> position, len |-> 1, start |-> src])
  /\ mode' = "eof"
  /\ UNCHANGED <<text, src, position>>

\* variant: a blank is skipped without being counted
BlankUncounted ==
  /\ mode = "lex" /\ Cur \in Blanks
  /\ src' = src + 1
  /\ UNCHANGED <<text, position, toks, mode>>

Blank ==
  /\ mode = "lex" /\ Cur \in Blanks
  /\ src' = src + 1
  /\ position' = position + 1
  /\ UNCHANGED <<text, toks, mode>>

\* variant: the comment's end is looked for, and then the comment begins again
CommentStuck ==
  /\ mode = "lex" /\ Cur = "#"
  /\ UNCHANGED <<text, src, position, toks, mode>>

\* the line feed is looked for without a look at NUL, and position stays behind
Comment ==
  /\ mode = "lex" /\ Cur = "#"
  /\ \/ \E j \in src + 1..Len(text) :
          /\ text[j] = "\n" /\ \A k \in src + 1..j - 1 : text[k] # "\n"
          /\ src' = j + 1
          /\ UNCHANGED <<text, position, toks, mode>>
     \/ (\A j \in src + 1..Len(text) : text[j] # "\n") /\ Stop("comment_past_end")

\* tokenize_single()
Single == mode = "lex" /\ Cur \in DOMAIN Singles /\ Deliver(Singles[Cur], 1, src + 1)

\* tokenize_double()
Double ==
  /\ mode = "lex" /\ Cur \in DOMAIN Doubles
  /\ \/ Char(src + 1) = Doubles[Cur][2] /\ Deliver(Doubles[Cur][3], 2, src + 2)
     \/ Char(src + 1) # Doubles[Cur][2] /\ Deliver(Doubles[Cur][1], 1, src + 1)

\* tokenize_char(): the character between the quotes may be NUL
CharLiteral ==
  /\ mode = "lex" /\ Cur = "'"
  /\ \/ Char(src + 1) = "NUL" /\ Stop("quote_past_end")
     \/ Char(src + 1) \in NonAscii /\ Stop("error")
     \/ /\ Char(src + 1) \notin NonAscii \cup {"NUL"}
        /\ \/ Char(src + 2) = "'" /\ Deliver("LITERAL_NUMBER", 3, src + 3)
           \/ Char(src + 2) # "'" /\ Stop("error")

\* variant: the length of a string token leaves out the quotes
StringLenBare(start, close) == close - start - 1

\* the quotes belong to the token
StringLen(start, close) == close - start + 1

\* tokenize_string()
StringLiteral ==
  /\ mode = "lex" /\ Cur = "\""
  /\ \/ \E j \in src + 1..Len(text) :
          /\ text[j] = "\"" /\ \A k \in src + 1..j - 1 : text[k] # "\""
          /\ Deliver("LITERAL_STRING", StringLen(src, j), j + 1)
     \/ (\A j \in src + 1..Len(text) : text[j] # "\"") /\ Stop("error")

\* tokenize_number(): as many digits as fit in the buffer leave it unterminated
\* for atoll()
Number ==
  LET digits == End(src + 1, Digits)
      next   == IF Char(digits) \in NumberSuffixes THEN digits + 1 ELSE digits
      len    == next - src
  IN
  /\ mode = "lex" /\ Cur \in Digits
  /\ \/ len > MAX_NUMBER_LITERAL_LEN /\ Stop("error")
     \/ digits - src = MAX_NUMBER_LITERAL_LEN /\ next = digits /\ Stop("number_unterminated")
     \/ /\ len <= MAX_NUMBER_LITERAL_LEN
        /\ digits - src < MAX_NUMBER_LITERAL_LEN
        /\ Deliver("LITERAL_NUMBER", len, next)

\* get_keyword(): the keyword that the text at i begins with
Keyword(i) == {k \in DOMAIN Keywords : IsPrefix(k, SubSeq(text, i, Len(text)))}

\* variant: one character too many belongs to the identifier
IdentEndAfter(i) == End(i + 1, IdentTail) + 1

IdentEnd(i) == End(i + 1, IdentTail)

\* tokenize_ident()
Ident ==
  LET next == IdentEnd(src)
      len  == next - src
  IN
  /\ mode = "lex" /\ Cur \in Letters
  /\ \/ len > MAX_IDENT_LEN /\ Stop("error")
     \/ /\ len <= MAX_IDENT_LEN
        /\ \/ Keyword(src) = {} /\ Deliver("LITERAL_IDENT", len, next)
           \/ \E k \in Keyword(src) : Deliver(Keywords[k], len, next)

Known == {"NUL", "#", "'", "\""} \cup Blanks \cup DOMAIN Singles \cup DOMAIN Doubles
         \cup Digits \cup Letters

Unknown == mode = "lex" /\ Cur \notin Known /\ Stop("error")

\* the parser asks for no token behind TOK_EOF, and an error ends the process
Terminated == mode # "lex" /\ UNCHANGED vars

Next == Eof \/ Blank \/ Comment \/ Single \/ Double \/ CharLiteral \/ StringLiteral
        \/ Number \/ Ident \/ Unknown \/ Terminated

Spec == Init /\ [][Next]_vars

\* lexer_next() runs to its end whenever it is called, and it is called until EOF
FairSpec == Spec /\ WF_vars(Next)

-----------------------------------------------------------------------------
(* Properties                                                              *)

TypeOK ==
  /\ src \in 1..Len(text) + 1
  /\ position \in 0..Len(text)
  /\ \A i \in DOMAIN toks :
       toks[i].start \in 1..Len(text) + 1 /\ toks[i].len \in 1..Len(text) + 1
  /\ mode \in {"lex", "eof", "error"} \cup Overread

\* the index behind the characters of token i; 1 for the place before all tokens
Behind(i) == IF i = 0 THEN 1 ELSE toks[i].start + toks[i].len

\* nothing but blanks and comments from i to j - 1
Skippable(i, j) ==
  \A k \in i..j - 1 : text[k] \in Blanks \/ \E h \in i..k :
    text[h] = "#" /\ \A m \in h..k : text[m] = "\n" => m = k

\* The tokens are the text, in order: no two share a character, and between a
\* token's end, by its own len, and the next token's start is nothing that could
\* be one.  Diagnostics underline len characters.
TokensTile ==
  \A i \in DOMAIN toks :
    Behind(i - 1) <= toks[i].start /\ Skippable(Behind(i - 1), toks[i].start)

\* the characters of comments, line feeds included, between token i - 1 and token i
CommentsBefore(i) ==
  {k \in Behind(i - 1)..toks[i].start - 1 : \E h \in Behind(i - 1)..k :
     text[h] = "#" /\ \A m \in h..k - 1 : text[m] # "\n"}

\* The two records of one place agree but for comments: a token's position is its
\* place in the text less all characters of comments in front of it.  So positions
\* and the lines they are reported on are right up to the first comment, and
\* TokenLocation ("index of the start of the line the token is located on") is too
\* low by just the comments behind that.
PositionsLackComments ==
  \A i \in DOMAIN toks :
    toks[i].position = toks[i].start - 1 - Cardinality(UNION {CommentsBefore(j) : j \in 1..i})

\* TOK_EOF ("end-of-file, should only appear once at the end of the tokenstream"):
\* the end of the text is recognised although it ends a comment.
CommentEndRecognised == mode # "comment_past_end"

\* Every text is read to its end or to an error.
Termination == <>(mode # "lex")
=============================================================================
