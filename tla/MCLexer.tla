------------------------------ MODULE MCLexer ------------------------------
(* Every text of up to four characters, of every sort that lexer_next()    *)
(* tells apart, with the keyword "if" and identifiers and numbers of up to *)
(* three characters.                                                       *)
EXTENDS Lexer

MCLetters  == {"i", "f", "L"}
MCDigits   == {"1"}
MCKeywords == [k \in {<<"i", "f">>} |-> "KW_IF"]

Alphabet == {"i", "f", "L", "1", " ", "\n", "#", ";", "=", "<", "'", "\"", "\\x80", "$"}
AllTexts == SeqOf(Alphabet, 4)
=============================================================================
