---------------------------- MODULE LexerProofs ----------------------------
(***************************************************************************)
(* Proofs about Lexer for every set of texts, every alphabet and every     *)
(* capacity of the buffers.                                                *)
(*                                                                         *)
(* The properties speak of the tokens; that the next token keeps them      *)
(* depends on what the lexer has skipped since the last one.  IInv says    *)
(* what: blanks and whole comments, whose characters make up all the       *)
(* difference between the two places the lexer keeps.                      *)
(***************************************************************************)
EXTENDS Lexer, GeneralLemmas, FiniteSetTheorems

\* the characters of comments from i to j - 1
CommentsIn(i, j) ==
  {k \in i..j - 1 : \E h \in i..k : text[h] = "#" /\ \A m \in h..k - 1 : text[m] # "\n"}

\* the characters of comments in front of the place the lexer reads from
CommentsSoFar ==
  (UNION {CommentsBefore(j) : j \in 1..Len(toks)}) \cup CommentsIn(Behind(Len(toks)), src)

Tokens == [kind : {t.kind : t \in ToSet(toks)}, position : Nat, len : Nat, start : Nat]

Typed ==
  /\ Len(text) \in Nat
  /\ src \in 1..Len(text) + 1
  /\ position \in 0..Len(text)
  /\ toks \in Seq(ToSet(toks))
  /\ \A i \in 1..Len(toks) :
       toks[i].start \in 1..src /\ toks[i].len \in 1..Len(text) + 1
  /\ mode \in {"lex", "eof", "error"} \cup Overread

\* since the last token: no token's first character, and no comment left open
Skipped ==
  mode = "lex" =>
    /\ Behind(Len(toks)) \in 1..src
    /\ Skippable(Behind(Len(toks)), src)
    /\ \A h \in Behind(Len(toks))..src - 1 :
         text[h] = "#" => \E m \in h..src - 1 : text[m] = "\n"

Counted == mode = "lex" => position = src - 1 - Cardinality(CommentsSoFar)

IInv == Typed /\ Skipped /\ Counted /\ TokensTile /\ PositionsLackComments


-----------------------------------------------------------------------------
(* Characters                                                              *)

LEMMA NotNul ==
  ASSUME Typed, NEW i \in Nat, Char(i) # "NUL"
  PROVE  i <= Len(text) /\ Char(i) = text[i]
BY DEF Char, Typed

LEMMA EndOf ==
  ASSUME Typed, NEW i \in 1..Len(text) + 1, NEW cs, "NUL" \notin cs
  PROVE  End(i, cs) \in i..Len(text) + 1
<1> DEFINE n == Len(text) + 1
           T == {j \in i..n : Char(j) \notin cs}
<1>1. n \in Nat /\ i \in Nat /\ n \in i..n /\ Char(n) = "NUL"
  BY DEF Typed, Char
<1>2. T \subseteq Nat /\ n \in T
  BY <1>1
<1>3. PICK j \in T : \A k \in T : j <= k
  BY <1>2, LeastOf
<1>4. /\ j \in i..n /\ Char(j) \notin cs
      /\ \A k \in i..j - 1 : Char(k) \in cs
  BY <1>1, <1>3
<1> HIDE DEF T
<1> QED
  BY <1>4 DEF End

-----------------------------------------------------------------------------
(* Comments                                                                *)

LEMMA Counting ==
  ASSUME NEW p \in Nat, p > 0, NEW S, S \subseteq 1..p - 1
  PROVE  /\ IsFiniteSet(S) /\ Cardinality(S) \in 0..p - 1
         /\ \A q \in Nat : q >= p => Cardinality(S \cup p..q) = Cardinality(S) + (q - p + 1)
<1>1. IsFiniteSet(1..p - 1) /\ Cardinality(1..p - 1) = p - 1
  BY FS_Interval
<1>2. IsFiniteSet(S) /\ Cardinality(S) \in Nat /\ Cardinality(S) <= p - 1
  BY <1>1, FS_Subset, FS_CardinalityType
<1>3. ASSUME NEW q \in Nat, q >= p
      PROVE  Cardinality(S \cup p..q) = Cardinality(S) + (q - p + 1)
  <2>1. IsFiniteSet(p..q) /\ Cardinality(p..q) = q - p + 1
    BY <1>3, FS_Interval
  <2>2. Cardinality(S \cap p..q) = 0
    <3>1. S \cap p..q = {}
      OBVIOUS
    <3> QED
      BY <3>1, FS_EmptySet
  <2>3. Cardinality(S \cup p..q) = Cardinality(S) + Cardinality(p..q) - Cardinality(S \cap p..q)
    BY <1>2, <2>1, FS_Union
  <2> QED
    BY <1>2, <1>3, <2>1, <2>2, <2>3
<1> QED
  BY <1>2, <1>3

LEMMA BeforeIsIn ==
  ASSUME NEW i
  PROVE  CommentsBefore(i) = CommentsIn(Behind(i - 1), toks[i].start)
BY DEF CommentsBefore, CommentsIn

LEMMA BehindPositive ==
  ASSUME Typed, NEW i \in 0..Len(toks)
  PROVE  Behind(i) \in Nat /\ Behind(i) > 0
BY DEF Typed, Behind

LEMMA SoFarBefore ==
  ASSUME Typed
  PROVE  CommentsSoFar \subseteq 1..src - 1
<1>1. src \in Nat /\ Len(toks) \in Nat
  BY DEF Typed
<1>2. ASSUME NEW j \in 1..Len(toks) PROVE CommentsBefore(j) \subseteq 1..src - 1
  <2>1. j - 1 \in 0..Len(toks) /\ toks[j].start \in 1..src
    BY <1>1 DEF Typed
  <2>2. Behind(j - 1) \in Nat /\ Behind(j - 1) > 0
    BY <2>1, BehindPositive
  <2> QED
    BY <1>1, <2>1, <2>2 DEF CommentsBefore
<1>3. CommentsIn(Behind(Len(toks)), src) \subseteq 1..src - 1
  <2>1. Behind(Len(toks)) \in Nat /\ Behind(Len(toks)) > 0
    BY <1>1, BehindPositive
  <2> QED
    BY <1>1, <2>1 DEF CommentsIn
<1> QED
  BY <1>2, <1>3 DEF CommentsSoFar

LEMMA TextKept ==
  ASSUME UNCHANGED text
  PROVE  /\ \A i, j : Skippable(i, j)' = Skippable(i, j)
         /\ \A i, j : CommentsIn(i, j)' = CommentsIn(i, j)
BY DEF Skippable, CommentsIn

LEMMA SoFarKept ==
  ASSUME Typed, UNCHANGED <<text, toks>>
  PROVE  /\ Behind(Len(toks))' = Behind(Len(toks))
         /\ CommentsSoFar' = (UNION {CommentsBefore(j) : j \in 1..Len(toks)})
                               \cup CommentsIn(Behind(Len(toks)), src')
<1>1. \A i : Behind(i)' = Behind(i)
  BY DEF Behind
<1>2. \A i : CommentsBefore(i)' = CommentsBefore(i)
  BY DEF CommentsBefore, Behind
<1>3. Behind(Len(toks))' = Behind(Len(toks))
  BY <1>1
<1>4. CommentsIn(Behind(Len(toks)), src)' = CommentsIn(Behind(Len(toks)), src')
  BY <1>3, TextKept DEF CommentsIn
<1> QED
  BY <1>2, <1>3, <1>4 DEF CommentsSoFar

LEMMA TokensKept ==
  ASSUME UNCHANGED <<text, toks>>, TokensTile, PositionsLackComments
  PROVE  TokensTile' /\ PositionsLackComments'
<1>1. \A i : Behind(i)' = Behind(i)
  BY DEF Behind
<1>2. \A i : CommentsBefore(i)' = CommentsBefore(i)
  BY DEF CommentsBefore, Behind
<1>3. TokensTile'
  BY <1>1, TextKept DEF TokensTile
<1>4. PositionsLackComments'
  BY <1>2 DEF PositionsLackComments
<1> QED
  BY <1>3, <1>4

-----------------------------------------------------------------------------
(* Steps                                                                   *)

LEMMA Stopped ==
  ASSUME IInv, mode' \in {"eof", "error"} \cup Overread, UNCHANGED <<text, src, position, toks>>
  PROVE  IInv'
<1>1. Typed'
  BY DEF IInv, Typed
<1>2. Skipped' /\ Counted'
  BY DEF Skipped, Counted, Overread
<1>3. TokensTile' /\ PositionsLackComments'
  BY TokensKept DEF IInv
<1> QED
  BY <1>1, <1>2, <1>3 DEF IInv

\* a place counted right is a place in the text
LEMMA PlaceOK ==
  ASSUME NEW p \in Nat, p > 0, NEW S, S \subseteq 1..p - 1
  PROVE  p - 1 - Cardinality(S) \in 0..p - 1
<1>1. Cardinality(S) \in 0..p - 1
  BY Counting
<1> QED
  BY <1>1

LEMMA Between ==
  ASSUME NEW a \in Nat, NEW b \in Nat, NEW c \in Nat, a <= b, b <= c
  PROVE  /\ \A k \in a..c - 1 : k \in a..b - 1 \/ k \in b..c - 1
         /\ \A k \in b..c - 1 : \A h \in b..k : h \in a..k
         /\ \A h \in a..c - 1 : \A m \in h..b - 1 : m \in h..c - 1
OBVIOUS

\* blanks and comments: what is skipped leaves the tokens alone
LEMMA SkippedOn ==
  ASSUME IInv, mode = "lex", UNCHANGED <<text, toks, mode>>,
         src' \in src + 1..Len(text) + 1, position' \in 0..Len(text),
         \A k \in src..src' - 1 : text[k] \in Blanks \/ \E h \in src..k :
           text[h] = "#" /\ \A m \in h..k : text[m] = "\n" => m = k,
         \A h \in src..src' - 1 : text[h] = "#" => \E m \in h..src' - 1 : text[m] = "\n",
         position' = src' - 1 - Cardinality(CommentsSoFar')
  PROVE  IInv'
<1> DEFINE b == Behind(Len(toks))
<1>1. /\ src \in Nat /\ Len(text) \in Nat /\ src' \in Nat /\ src < src'
      /\ b \in 1..src /\ Skippable(b, src)
      /\ \A h \in b..src - 1 : text[h] = "#" => \E m \in h..src - 1 : text[m] = "\n"
  BY DEF IInv, Typed, Skipped
<1>9. src \in Nat /\ src' \in Nat /\ src < src' /\ b \in Nat /\ b <= src
  <2> HIDE DEF b
  <2> QED
    BY <1>1
<1>10. /\ \A k \in b..src' - 1 : k \in b..src - 1 \/ k \in src..src' - 1
       /\ \A k \in src..src' - 1 : \A h \in src..k : h \in b..k
       /\ \A h \in b..src' - 1 : \A m \in h..src - 1 : m \in h..src' - 1
  <2> HIDE DEF b
  <2>1. src <= src'
    BY <1>9
  <2> QED
    BY <1>9, <2>1, Between
<1>2. Typed'
  <2>1. \A i \in 1..Len(toks) : toks[i].start \in 1..src'
    BY <1>1 DEF IInv, Typed
  <2> QED
    BY <1>1, <2>1 DEF IInv, Typed
<1>3. b' = b
  BY SoFarKept DEF IInv
<1> HIDE DEF b
<1>4. b' \in 1..src'
  BY <1>1, <1>3
<1>5. Skippable(b, src')
  <2> SUFFICES ASSUME NEW k \in b..src' - 1
               PROVE  text[k] \in Blanks \/ \E h \in b..k :
                        text[h] = "#" /\ \A m \in h..k : text[m] = "\n" => m = k
    BY DEF Skippable
  <2>1. CASE k \in b..src - 1
    BY <1>1, <2>1 DEF Skippable
  <2>2. CASE k \in src..src' - 1
    <3>1. \A h \in src..k : h \in b..k
      BY <1>10, <2>2
    <3> QED
      BY <2>2, <3>1
  <2> QED
    BY <1>10, <2>1, <2>2
<1>6. ASSUME NEW h \in b..src' - 1, text[h] = "#"
      PROVE  \E m \in h..src' - 1 : text[m] = "\n"
  <2>1. CASE h \in b..src - 1
    <3>1. \A m \in h..src - 1 : m \in h..src' - 1
      BY <1>10
    <3> QED
      BY <1>1, <1>6, <2>1, <3>1
  <2>2. CASE h \in src..src' - 1
    BY <1>6, <2>2
  <2> QED
    BY <1>10, <2>1, <2>2
<1>7. Skipped'
  <2>1. Skippable(b, src)'
    BY <1>3, <1>5, TextKept DEF Skippable
  <2> QED
    BY <1>3, <1>4, <1>6, <2>1 DEF Skipped, b
<1>8. Counted' /\ TokensTile' /\ PositionsLackComments'
  BY TokensKept DEF Counted, IInv
<1> QED
  BY <1>2, <1>7, <1>8 DEF IInv

LEMMA BlankStep == ASSUME IInv, Blank PROVE IInv'
<1> DEFINE b == Behind(Len(toks))
           U == UNION {CommentsBefore(j) : j \in 1..Len(toks)}
<1>1. /\ mode = "lex" /\ Cur \in Blanks /\ src' = src + 1 /\ position' = position + 1
      /\ UNCHANGED <<text, toks, mode>>
  BY DEF Blank
<1>2. Typed /\ src \in Nat /\ src > 0 /\ Len(text) \in Nat
  BY DEF IInv, Typed
<1>3. src <= Len(text) /\ text[src] \in Blanks /\ text[src] # "#"
  BY <1>1, <1>2, NotNul DEF Cur, Blanks
<1>4. /\ b \in 1..src /\ position = src - 1 - Cardinality(CommentsSoFar)
      /\ \A h \in b..src - 1 : text[h] = "#" => \E m \in h..src - 1 : text[m] = "\n"
  BY <1>1 DEF IInv, Skipped, Counted
<1>5. CommentsSoFar = U \cup CommentsIn(b, src) /\ CommentsSoFar' = U \cup CommentsIn(b, src')
  BY <1>1, <1>2, SoFarKept DEF CommentsSoFar
<1> HIDE DEF b, U
<1>6. CommentsIn(b, src') = CommentsIn(b, src)
  <2>1. (src + 1) - 1 = src /\ b \in Nat /\ b <= src
    BY <1>2, <1>4
  <2>2. ASSUME NEW h \in b..src, text[h] = "#" PROVE \E m \in h..src - 1 : text[m] = "\n"
    BY <1>2, <1>3, <1>4, <2>1, <2>2
  <2>3. \A k \in b..src : k \in b..src - 1 \/ k = src
    BY <1>2, <2>1
  <2>4. \A k \in b..src - 1 : k \in b..src
    BY <1>2, <2>1
  <2> QED
    BY <1>1, <2>1, <2>2, <2>3, <2>4 DEF CommentsIn
<1>7. position' = src' - 1 - Cardinality(CommentsSoFar')
  <2>1. Cardinality(CommentsSoFar) \in 0..src - 1
    BY <1>2, SoFarBefore, Counting
  <2>2. CommentsSoFar' = CommentsSoFar
    BY <1>5, <1>6
  <2> QED
    BY <1>1, <1>2, <1>4, <2>1, <2>2
<1>8. position' \in 0..Len(text) /\ src' \in src + 1..Len(text) + 1
  <2>1. position \in 0..src - 1
    BY <1>2, <1>4, SoFarBefore, PlaceOK
  <2> QED
    BY <1>1, <1>2, <1>3, <2>1
<1>9. \A k \in src..src' - 1 : k = src
  BY <1>1, <1>2
<1> QED
  BY <1>1, <1>3, <1>7, <1>8, <1>9, SkippedOn

LEMMA CommentStep == ASSUME IInv, Comment PROVE IInv'
<1> DEFINE b == Behind(Len(toks))
           U == UNION {CommentsBefore(j) : j \in 1..Len(toks)}
<1>1. /\ mode = "lex" /\ Cur = "#"
      /\ \/ \E j \in src + 1..Len(text) :
              /\ text[j] = "\n" /\ \A k \in src + 1..j - 1 : text[k] # "\n"
              /\ src' = j + 1
              /\ UNCHANGED <<text, position, toks, mode>>
         \/ Stop("comment_past_end")
  BY DEF Comment
<1>2. CASE Stop("comment_past_end")
  BY <1>2, Stopped DEF Stop, Overread
<1>3. CASE ~Stop("comment_past_end")
  <2>1. PICK j \in src + 1..Len(text) :
          /\ text[j] = "\n" /\ \A k \in src + 1..j - 1 : text[k] # "\n"
          /\ src' = j + 1
          /\ UNCHANGED <<text, position, toks, mode>>
    BY <1>1, <1>3
  <2>2. /\ Typed /\ src \in Nat /\ src > 0 /\ Len(text) \in Nat /\ src' - 1 = j
        /\ j \in Nat /\ src < j /\ j <= Len(text)
    BY <2>1 DEF IInv, Typed
  <2>3. text[src] = "#"
    BY <1>1, <2>2, NotNul DEF Cur
  <2>4. \A k \in src..j - 1 : text[k] # "\n"
    <3>1. \A k \in src..j - 1 : k = src \/ k \in src + 1..j - 1
      BY <2>2
    <3> QED
      BY <2>1, <2>3, <3>1
  <2>5. /\ b \in 1..src /\ position = src - 1 - Cardinality(CommentsSoFar)
        /\ \A h \in b..src - 1 : text[h] = "#" => \E m \in h..src - 1 : text[m] = "\n"
    BY <1>1 DEF IInv, Skipped, Counted
  <2>6. CommentsSoFar = U \cup CommentsIn(b, src) /\ CommentsSoFar' = U \cup CommentsIn(b, src')
    BY <2>1, <2>2, SoFarKept DEF CommentsSoFar
  <2> HIDE DEF b, U
  <2>7. CommentsIn(b, src') = CommentsIn(b, src) \cup src..j
    <3>1. /\ b \in Nat /\ b <= src
          /\ \A k \in b..j : k \in b..src - 1 \/ k \in src..j
          /\ \A k \in b..src - 1 : k \in b..j
          /\ \A k \in src..j : k \in b..j /\ src \in b..k /\ \A m \in src..k - 1 : m \in src..j - 1
      BY <2>2, <2>5
    <3>2. ASSUME NEW k \in src..j
          PROVE  k \in b..j /\ \E h \in b..k : text[h] = "#" /\ \A m \in h..k - 1 : text[m] # "\n"
      BY <2>3, <2>4, <3>1, <3>2
    <3> QED
      BY <2>2, <3>1, <3>2 DEF CommentsIn
  <2>8. /\ Cardinality(CommentsSoFar) \in 0..src - 1
        /\ Cardinality(CommentsSoFar \cup src..j) = Cardinality(CommentsSoFar) + (j - src + 1)
    <3>1. j >= src
      BY <2>2
    <3> QED
      BY <2>2, <3>1, SoFarBefore, Counting
  <2>9. position' = src' - 1 - Cardinality(CommentsSoFar')
    <3>1. CommentsSoFar' = CommentsSoFar \cup src..j
      BY <2>6, <2>7
    <3> QED
      BY <2>1, <2>2, <2>5, <2>8, <3>1
  <2>10. position' \in 0..Len(text) /\ src' \in src + 1..Len(text) + 1
    BY <2>1, <2>2 DEF Typed
  <2>11. ASSUME NEW k \in src..src' - 1
         PROVE  \E h \in src..k : text[h] = "#" /\ \A m \in h..k : text[m] = "\n" => m = k
    <3>1. src \in src..k /\ \A m \in src..k : m = k \/ m \in src..j - 1
      BY <2>2
    <3> QED
      BY <2>3, <2>4, <3>1
  <2>12. ASSUME NEW h \in src..src' - 1 PROVE \E m \in h..src' - 1 : text[m] = "\n"
    <3>1. j \in h..src' - 1
      BY <2>2
    <3> QED
      BY <2>1, <3>1
  <2> QED
    BY <1>1, <2>1, <2>9, <2>10, <2>11, <2>12, SkippedOn
<1> QED
  BY <1>2, <1>3

\* a token is delivered: the tokens stay in order, and its position is counted right
LEMMA TokenAdded ==
  ASSUME IInv, mode = "lex", UNCHANGED text, NEW kind, NEW len \in 1..Len(text) + 1,
         toks' = Append(toks, [kind |-> kind, position |-> position, len |-> len, start |-> src])
  PROVE  /\ TokensTile' /\ PositionsLackComments' /\ toks' \in Seq(ToSet(toks'))
         /\ \A i \in 1..Len(toks') :
              toks'[i].start \in 1..src /\ toks'[i].len \in 1..Len(text) + 1
         /\ Behind(Len(toks))' = src + len
         /\ (UNION {CommentsBefore(j) : j \in 1..Len(toks)})' = CommentsSoFar
<1> DEFINE t == [kind |-> kind, position |-> position, len |-> len, start |-> src]
<1>1. t.position = position /\ t.len = len /\ t.start = src /\ toks' = Append(toks, t)
  OBVIOUS
<1> HIDE DEF t
<1>2. PICK n \in Nat : n = Len(toks)
  BY DEF IInv, Typed
<1>3. /\ toks' \in Seq(ToSet(toks')) /\ Len(toks') = n + 1
      /\ DOMAIN toks = 1..n /\ DOMAIN toks' = 1..n + 1
      /\ (\A i \in 1..n : toks'[i] = toks[i]) /\ toks'[n + 1] = t
      /\ (\A i \in 1..n + 1 : i \in 1..n \/ i = n + 1)
      /\ n + 1 \in 1..n + 1 /\ (n + 1) - 1 = n
      /\ \A i \in 1..n : i \in 1..n + 1 /\ i - 1 \in 0..n
  BY <1>1, <1>2, Appended DEF IInv, Typed
<1>4. \A i \in 0..n : Behind(i)' = Behind(i)
  BY <1>2, <1>3 DEF Behind
<1>5. Behind(n + 1)' = src + len
  BY <1>1, <1>2, <1>3 DEF Behind
<1>6. \A i \in 1..n : CommentsBefore(i)' = CommentsBefore(i)
  <2>1. ASSUME NEW i \in 1..n PROVE CommentsBefore(i)' = CommentsBefore(i)
    <3>1. Behind(i - 1)' = Behind(i - 1) /\ toks'[i] = toks[i]
      BY <1>3, <1>4
    <3> QED
      BY <3>1 DEF CommentsBefore
  <2> QED
    BY <2>1
<1>7. CommentsBefore(n + 1)' = CommentsIn(Behind(n), src)
  <2>1. Behind((n + 1) - 1)' = Behind(n) /\ toks'[n + 1].start = src
    BY <1>1, <1>3, <1>4
  <2> QED
    BY <2>1 DEF CommentsBefore, CommentsIn
<1>8. UNION {CommentsBefore(j)' : j \in 1..n + 1} = CommentsSoFar
  <2>1. CommentsSoFar = (UNION {CommentsBefore(j) : j \in 1..n}) \cup CommentsIn(Behind(n), src)
    BY <1>2 DEF CommentsSoFar
  <2> QED
    BY <1>3, <1>6, <1>7, <2>1
<1>9. \A i \in 1..n : {CommentsBefore(j)' : j \in 1..i} = {CommentsBefore(j) : j \in 1..i}
  <2>1. \A i \in 1..n : \A j \in 1..i : j \in 1..n
    BY <1>2
  <2> QED
    BY <1>6, <2>1
<1>10. TokensTile'
  <2>1. ASSUME NEW i \in 1..n + 1
        PROVE  Behind(i - 1)' <= toks'[i].start /\ Skippable(Behind(i - 1), toks[i].start)'
    <3>1. CASE i \in 1..n
      <4>1. Behind(i - 1) <= toks[i].start /\ Skippable(Behind(i - 1), toks[i].start)
        BY <1>3, <3>1 DEF IInv, TokensTile
      <4>2. Behind(i - 1)' = Behind(i - 1) /\ toks'[i] = toks[i]
        BY <1>3, <1>4, <3>1
      <4> QED
        BY <4>1, <4>2, TextKept
    <3>2. CASE i = n + 1
      <4>1. Behind(n) \in 1..src /\ Skippable(Behind(n), src) /\ src \in Nat
        BY <1>2 DEF IInv, Skipped, Typed
      <4>2. Behind(i - 1)' = Behind(n) /\ toks'[i].start = src
        BY <1>1, <1>3, <1>4, <3>2
      <4>3. Behind(n) <= src
        BY <4>1
      <4> QED
        BY <4>1, <4>2, <4>3, TextKept
    <3> QED
      BY <1>3, <3>1, <3>2
  <2> QED
    BY <1>3, <2>1 DEF TokensTile
<1>11. PositionsLackComments'
  <2>1. ASSUME NEW i \in 1..n + 1
        PROVE  toks'[i].position
                 = toks'[i].start - 1 - Cardinality(UNION {CommentsBefore(j)' : j \in 1..i})
    <3>1. CASE i \in 1..n
      <4>1. toks[i].position
              = toks[i].start - 1 - Cardinality(UNION {CommentsBefore(j) : j \in 1..i})
        BY <1>3, <3>1 DEF IInv, PositionsLackComments
      <4> QED
        BY <1>3, <1>9, <3>1, <4>1
    <3>2. CASE i = n + 1
      BY <1>1, <1>3, <1>8, <3>2 DEF IInv, Counted
    <3> QED
      BY <1>3, <3>1, <3>2
  <2> QED
    BY <1>3, <2>1 DEF PositionsLackComments
<1>12. ASSUME NEW i \in 1..Len(toks')
       PROVE  toks'[i].start \in 1..src /\ toks'[i].len \in 1..Len(text) + 1
  <2>1. CASE i \in 1..n
    BY <1>2, <1>3, <2>1 DEF IInv, Typed
  <2>2. CASE i = n + 1
    <3>1. src \in 1..src
      BY DEF IInv, Typed
    <3> QED
      BY <1>1, <1>3, <2>2, <3>1
  <2> QED
    BY <1>3, <2>1, <2>2
<1> QED
  BY <1>3, <1>5, <1>8, <1>10, <1>11, <1>12

LEMMA NothingBetween == ASSUME NEW p \in Nat PROVE p..p - 1 = {}
OBVIOUS

LEMMA Delivered ==
  ASSUME IInv, mode = "lex", NEW kind, NEW len \in 1..Len(text) + 1, NEW next,
         next = src + len, next <= Len(text) + 1, Deliver(kind, len, next)
  PROVE  IInv'
<1>1. /\ UNCHANGED <<text, mode>> /\ src' = src + len /\ position' = position + len
      /\ toks' = Append(toks, [kind |-> kind, position |-> position, len |-> len, start |-> src])
  BY DEF Deliver
<1>2. Typed /\ src \in Nat /\ src > 0 /\ len \in Nat /\ len > 0 /\ Len(text) \in Nat
  BY DEF IInv, Typed
<1>3. /\ TokensTile' /\ PositionsLackComments' /\ toks' \in Seq(ToSet(toks'))
      /\ \A i \in 1..Len(toks') :
           toks'[i].start \in 1..src /\ toks'[i].len \in 1..Len(text) + 1
      /\ Behind(Len(toks))' = src'
      /\ (UNION {CommentsBefore(j) : j \in 1..Len(toks)})' = CommentsSoFar
  BY <1>1, TokenAdded
<1>4. CommentsSoFar' = CommentsSoFar
  <2>1. src' \in Nat
    BY <1>1, <1>2
  <2>2. CommentsIn(Behind(Len(toks)), src)' = {}
    <3>1. src'..src' - 1 = {}
      BY <2>1, NothingBetween
    <3> QED
      BY <1>3, <3>1 DEF CommentsIn
  <2> QED
    BY <1>3, <2>2 DEF CommentsSoFar
<1>5. position = src - 1 - Cardinality(CommentsSoFar) /\ Cardinality(CommentsSoFar) \in 0..src - 1
  BY <1>2, SoFarBefore, Counting DEF IInv, Counted
<1>6. position' = src' - 1 - Cardinality(CommentsSoFar') /\ position' \in 0..Len(text)
  BY <1>1, <1>2, <1>4, <1>5
<1>7. Typed'
  <2>1. src' \in 1..Len(text) + 1 /\ src <= src'
    BY <1>1, <1>2
  <2>2. \A i \in 1..Len(toks') : toks'[i].start \in 1..src'
    BY <1>2, <1>3, <2>1
  <2> QED
    BY <1>1, <1>2, <1>3, <1>6, <2>1, <2>2 DEF Typed
<1>8. Skipped'
  <2>1. Behind(Len(toks))' \in 1..src' /\ src'..src' - 1 = {}
    BY <1>1, <1>2, <1>3
  <2> QED
    BY <1>3, <2>1 DEF Skipped, Skippable
<1>9. Counted'
  BY <1>6 DEF Counted
<1> QED
  BY <1>3, <1>7, <1>8, <1>9 DEF IInv

LEMMA EofStep == ASSUME IInv, Eof PROVE IInv'
<1>1. /\ mode = "lex" /\ mode' = "eof" /\ UNCHANGED <<text, src, position>>
      /\ toks' = Append(toks, [kind |-> "EOF", position |-> position, len |-> 1, start |-> src])
  BY DEF Eof
<1>2. 1 \in 1..Len(text) + 1
  BY DEF IInv, Typed
<1>3. /\ TokensTile' /\ PositionsLackComments' /\ toks' \in Seq(ToSet(toks'))
      /\ \A i \in 1..Len(toks') :
           toks'[i].start \in 1..src /\ toks'[i].len \in 1..Len(text) + 1
  BY <1>1, <1>2, TokenAdded
<1>4. Typed' /\ Skipped' /\ Counted'
  BY <1>1, <1>3 DEF IInv, Typed, Skipped, Counted
<1> QED
  BY <1>3, <1>4 DEF IInv

\* the tokens of one character, two, or three
LEMMA ShortStep == ASSUME IInv, Single \/ Double \/ CharLiteral PROVE IInv'
<1>1. Typed /\ src \in Nat /\ src > 0 /\ Len(text) \in Nat /\ mode = "lex"
  BY DEF IInv, Typed, Single, Double, CharLiteral
<1>2. CASE Stop("quote_past_end") \/ Stop("error")
  BY <1>2, Stopped DEF Stop, Overread
<1>3. Char(src) # "NUL" => src <= Len(text)
  BY <1>1, NotNul
<1>4. CASE Single
  <2>1. Cur # "NUL"
    BY <1>4 DEF Single, Singles
  <2>2. src <= Len(text) /\ 1 \in 1..Len(text) + 1 /\ src + 1 <= Len(text) + 1
    BY <1>1, <1>3, <2>1 DEF Cur
  <2> QED
    BY <1>1, <1>4, <2>2, Delivered DEF Single
<1>5. CASE Double
  <2>1. Cur # "NUL" /\ Doubles[Cur][2] # "NUL"
    BY <1>5 DEF Double, Doubles
  <2>2. src <= Len(text) /\ 1 \in 1..Len(text) + 1 /\ src + 1 <= Len(text) + 1
    BY <1>1, <1>3, <2>1 DEF Cur
  <2>3. CASE Char(src + 1) = Doubles[Cur][2]
    <3>1. src + 1 <= Len(text)
      BY <1>1, <2>1, <2>3, NotNul
    <3>2. 2 \in 1..Len(text) + 1 /\ src + 2 <= Len(text) + 1
      BY <1>1, <3>1
    <3> QED
      BY <1>1, <1>5, <2>3, <3>2, Delivered DEF Double
  <2>4. CASE Char(src + 1) # Doubles[Cur][2]
    BY <1>1, <1>5, <2>2, <2>4, Delivered DEF Double
  <2> QED
    BY <2>3, <2>4
<1>6. CASE CharLiteral /\ ~(Stop("quote_past_end") \/ Stop("error"))
  <2>1. Char(src + 2) = "'" /\ Deliver("LITERAL_NUMBER", 3, src + 3)
    BY <1>6 DEF CharLiteral
  <2>2. src + 2 <= Len(text)
    BY <1>1, <2>1, NotNul
  <2>3. 3 \in 1..Len(text) + 1 /\ src + 3 <= Len(text) + 1
    BY <1>1, <2>2
  <2> QED
    BY <1>1, <2>1, <2>3, Delivered
<1> QED
  BY <1>2, <1>4, <1>5, <1>6

LEMMA StringStep == ASSUME IInv, StringLiteral PROVE IInv'
<1>1. Typed /\ src \in Nat /\ src > 0 /\ Len(text) \in Nat /\ mode = "lex"
  <2>1. mode = "lex"
    BY Zenon DEF StringLiteral
  <2> QED
    BY <2>1 DEF IInv, Typed
<1>2. CASE Stop("error")
  BY <1>2, Stopped DEF Stop
<1>3. CASE ~Stop("error")
  <2>1. PICK j \in src + 1..Len(text) : Deliver("LITERAL_STRING", StringLen(src, j), j + 1)
    BY <1>3 DEF StringLiteral
  <2>2. /\ StringLen(src, j) \in 1..Len(text) + 1 /\ j + 1 = src + StringLen(src, j)
        /\ j + 1 <= Len(text) + 1
    BY <1>1 DEF StringLen
  <2> QED
    BY <1>1, <2>1, <2>2, Delivered
<1> QED
  BY <1>2, <1>3

LEMMA WordStep == ASSUME IInv, Number \/ Ident PROVE IInv'
<1>1. Typed /\ src \in Nat /\ src > 0 /\ Len(text) \in Nat /\ mode = "lex"
  BY DEF IInv, Typed, Number, Ident
<1>2. CASE Stop("number_unterminated") \/ Stop("error")
  BY <1>2, Stopped DEF Stop, Overread
<1>3. Cur # "NUL" /\ "NUL" \notin IdentTail
  BY NulAssumption DEF Number, Ident, IdentTail
<1>4. src <= Len(text) /\ src + 1 \in 1..Len(text) + 1
  BY <1>1, <1>3, NotNul DEF Cur
<1>5. CASE Number /\ ~(Stop("number_unterminated") \/ Stop("error"))
  <2> DEFINE digits == End(src + 1, Digits)
             next   == IF Char(digits) \in NumberSuffixes THEN digits + 1 ELSE digits
             len    == next - src
  <2>1. Deliver("LITERAL_NUMBER", len, next)
    BY <1>5 DEF Number
  <2>2. digits \in src + 1..Len(text) + 1
    BY <1>1, <1>4, NulAssumption, EndOf
  <2>3. Char(digits) \in NumberSuffixes => digits <= Len(text)
    <3>1. digits \in Nat
      BY <1>1, <2>2
    <3> HIDE DEF digits
    <3> QED
      BY <1>1, <3>1, NotNul DEF NumberSuffixes
  <2> HIDE DEF digits
  <2>4. next \in src + 1..Len(text) + 1
    BY <1>1, <2>2, <2>3
  <2> HIDE DEF next
  <2>5. len \in 1..Len(text) + 1 /\ next = src + len /\ next <= Len(text) + 1
    BY <1>1, <2>4
  <2> QED
    BY <1>1, <2>1, <2>5, Delivered
<1>6. CASE Ident /\ ~(Stop("number_unterminated") \/ Stop("error"))
  <2> DEFINE next == IdentEnd(src)
             len  == next - src
  <2>1. PICK kind : Deliver(kind, len, next)
    BY <1>6 DEF Ident
  <2>2. next \in src + 1..Len(text) + 1
    BY <1>1, <1>3, <1>4, EndOf DEF IdentEnd
  <2> HIDE DEF next
  <2>3. len \in 1..Len(text) + 1 /\ next = src + len /\ next <= Len(text) + 1
    BY <1>1, <2>2
  <2> QED
    BY <1>1, <2>1, <2>3, Delivered
<1> QED
  BY <1>2, <1>5, <1>6

-----------------------------------------------------------------------------
(* Theorems                                                                *)

LEMMA InitOK == Init => IInv
<1> SUFFICES ASSUME Init PROVE IInv
  OBVIOUS
<1>1. Len(text) \in Nat /\ src = 1 /\ position = 0 /\ toks = <<>> /\ mode = "lex"
  BY TextsAssumption DEF Init
<1>2. Behind(Len(toks)) = 1 /\ 1..0 = {}
  BY <1>1 DEF Behind
<1>3. Typed /\ TokensTile /\ PositionsLackComments
  BY <1>1 DEF Typed, TokensTile, PositionsLackComments
<1>4. Skipped
  BY <1>1, <1>2 DEF Skipped, Skippable
<1>5. Counted
  <2>1. CommentsSoFar = {}
    BY <1>1, <1>2 DEF CommentsSoFar, CommentsIn
  <2> QED
    BY <1>1, <2>1, FS_EmptySet DEF Counted
<1> QED
  BY <1>3, <1>4, <1>5 DEF IInv

LEMMA NextOK == IInv /\ [Next]_vars => IInv'
<1> SUFFICES ASSUME IInv, [Next]_vars PROVE IInv'
  OBVIOUS
<1>1. CASE Unknown
  BY <1>1, Stopped DEF Unknown, Stop
<1>2. CASE Terminated \/ UNCHANGED vars
  <2>1. UNCHANGED vars
    BY <1>2 DEF Terminated
  <2>2. Typed'
    BY <2>1 DEF vars, IInv, Typed
  <2>3. TokensTile' /\ PositionsLackComments'
    BY <2>1, TokensKept DEF vars, IInv
  <2>4. \A i : Behind(i)' = Behind(i)
    BY <2>1 DEF vars, Behind
  <2>5. Skipped'
    BY <2>1, <2>4, TextKept DEF vars, IInv, Skipped
  <2>6. Counted'
    <3>1. CommentsSoFar' = CommentsSoFar
      BY <2>1, SoFarKept DEF vars, IInv, CommentsSoFar
    <3> QED
      BY <2>1, <3>1 DEF vars, IInv, Counted
  <2> QED
    BY <2>2, <2>3, <2>5, <2>6 DEF IInv
<1> QED
  BY <1>1, <1>2, EofStep, BlankStep, CommentStep, ShortStep, StringStep, WordStep DEF Next

LEMMA IInvAlways == Spec => []IInv
BY InitOK, NextOK, PTL DEF Spec

\* As long as the lexer goes on, and where it ends, its place is in the text or on the
\* NUL behind it, and the number it keeps for diagnostics stays within the text.  A
\* comment or a quote that takes it further ends it as one of Overread: the theorem is
\* about the places before.
THEOREM TypeCorrect == Spec => []TypeOK
<1>1. IInv => TypeOK
  <2> SUFFICES ASSUME IInv PROVE TypeOK
    OBVIOUS
  <2>1. DOMAIN toks = 1..Len(toks)
    BY DEF IInv, Typed
  <2> QED
    BY <2>1 DEF IInv, Typed, TypeOK
<1> QED
  BY <1>1, IInvAlways, PTL

\* The tokens are the text in order, with nothing but blanks and comments between them.
THEOREM TokensAreTheText == Spec => []TokensTile
<1>1. IInv => TokensTile
  BY DEF IInv
<1> QED
  BY <1>1, IInvAlways, PTL

\* A token's position is its place less the comments in front of it, and by nothing else.
THEOREM PositionsAreRightButForComments == Spec => []PositionsLackComments
<1>1. IInv => PositionsLackComments
  BY DEF IInv
<1> QED
  BY <1>1, IInvAlways, PTL
=============================================================================
