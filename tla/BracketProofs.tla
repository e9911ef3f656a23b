---------------------------- MODULE BracketProofs ----------------------------
(***************************************************************************)
(* Proofs that the call stack of the parser mirrors the brackets of the    *)
(* text, for every set of sources.                                         *)
(*                                                                         *)
(* BracketsBalance is inductive but for the errors: what a rule puts in    *)
(* its place, with the token it reads, leaves the same brackets open as    *)
(* what it stood for.  Whether a word is balanced does not change when a   *)
(* part of it is replaced by one that leaves the same brackets open.       *)
(***************************************************************************)
EXTENDS ParserProofs

Opens  == {"LPAREN", "LBRACE", "LBRACKET", "unopened"}
Stacks == Seq(Opens)

BracketKinds == {"LPAREN", "LBRACE", "LBRACKET", "RPAREN", "RBRACE", "RBRACKET"}

\* the tokens of the text and the brackets of the stack
Words == Seq(TokenKinds \cup {LexError, ""})

\* f[i] are the brackets open behind the first i letters of s
RunOf(f, open, s) ==
  /\ f[0] = open
  /\ \A i \in 1..Len(s) : f[i] = Bracket(f[i - 1], s[i])

Quiet(x) == BracketOf(x) \notin BracketKinds

\* s leaves open what the letter t leaves open
Yields(s, t) == \A open \in Stacks : OpenBehind(open, Brackets(s)) = Bracket(open, t)

\* a rule is replaced by symbols that, with the token read, yield its bracket
BracketStep ==
  \E s \in Seq(Symbol) :
    \/ Goto(s) /\ Yields(s, BracketOf(Head(Top)))
    \/ Advance(s) /\ Yields(<<Consume(Tok)>> \o s, BracketOf(Head(Top)))

Silent == {x \in Symbol : Quiet(x)}

\* the rules whose turn ends with the brackets open with which it began
QuietNames ==
  (RuleNames \ {"grouping", "args", "args_sep", "values", "values_sep"}) \cup {"program"}

BracketInv ==
  /\ BracketsBalance
  /\ mode = "recover" => errcount > 0

-----------------------------------------------------------------------------
(* Recursion                                                               *)

\* f starts at a and goes on by the functions G
Follows(f, n, a, G) == f[0] = a /\ \A i \in 1..n : f[i] = G[i][f[i - 1]]

\* a function whose value at a place depends on the one before
LEMMA Recursion ==
  ASSUME NEW n \in Nat, NEW V, NEW a \in V, NEW G \in [1..n -> [V -> V]]
  PROVE  \E f \in [0..n -> V] : Follows(f, n, a, G)
<1> DEFINE S == {m \in 0..n : \E f \in [0..m -> V] : Follows(f, m, a, G)}
<1>1. 0 \in S
  <2> DEFINE f == [i \in 0..0 |-> a]
  <2>1. f \in [0..0 -> V] /\ f[0] = a
    OBVIOUS
  <2> HIDE DEF f
  <2>2. Follows(f, 0, a, G)
    BY <2>1 DEF Follows
  <2> QED
    BY <2>1, <2>2
<1>2. ASSUME NEW m \in 0..n - 1, m \in S PROVE m + 1 \in S
  <2>1. PICK f \in [0..m -> V] : Follows(f, m, a, G)
    BY <1>2
  <2> DEFINE x == G[m + 1][f[m]]
             g == [i \in 0..m + 1 |-> IF i = m + 1 THEN x ELSE f[i]]
  <2>2. f[m] \in V /\ m + 1 \in 1..n /\ G[m + 1] \in [V -> V]
    OBVIOUS
  <2>3. x \in V
    BY <2>2
  <2>4. /\ g \in [0..m + 1 -> V] /\ g[m + 1] = x
        /\ \A i \in 0..m : g[i] = f[i]
    <3> HIDE DEF x
    <3> QED
      BY <2>3
  <2> HIDE DEF g
  <2>5. g[0] = a
    BY <2>1, <2>4 DEF Follows
  <2>6. ASSUME NEW i \in 1..m + 1 PROVE g[i] = G[i][g[i - 1]]
    <3>1. CASE i = m + 1
      <4>1. i - 1 = m /\ m \in 0..m
        BY <3>1
      <4>2. g[i - 1] = f[m]
        BY <2>4, <4>1
      <4> QED
        BY <2>4, <3>1, <4>2
    <3>2. CASE i # m + 1
      <4>1. i \in 1..m /\ i \in 0..m /\ i - 1 \in 0..m
        BY <3>2
      <4>2. g[i] = f[i] /\ g[i - 1] = f[i - 1]
        BY <2>4, <4>1
      <4>3. f[i] = G[i][f[i - 1]]
        BY <2>1, <4>1 DEF Follows
      <4> QED
        BY <4>2, <4>3
    <3> QED
      BY <3>1, <3>2
  <2>7. Follows(g, m + 1, a, G)
    BY <2>5, <2>6 DEF Follows
  <2>8. m + 1 \in 0..n
    OBVIOUS
  <2> QED
    BY <2>4, <2>7, <2>8
<1> HIDE DEF S
<1>3. 0..n \subseteq S
  BY <1>1, <1>2, IntervalInduction
<1>4. n \in S
  BY <1>3
<1> QED
  BY <1>4 DEF S

-----------------------------------------------------------------------------
(* The brackets open behind a word                                         *)

LEMMA BracketType == ASSUME NEW open \in Stacks, NEW t PROVE Bracket(open, t) \in Stacks
<1>1. CASE t \in {"LPAREN", "LBRACE", "LBRACKET"}
  <2>1. Bracket(open, t) = <<t>> \o open
    BY <1>1 DEF Bracket, Opener
  <2>2. <<t>> \in Seq(Opens)
    BY <1>1 DEF Opens
  <2> QED
    BY <2>1, <2>2 DEF Stacks
<1>2. CASE t \notin {"LPAREN", "LBRACE", "LBRACKET"} /\ t \in DOMAIN Opener
  <2>1. CASE open # <<>> /\ Head(open) = Opener[t]
    BY <1>2, <2>1 DEF Bracket, Stacks
  <2>2. CASE ~(open # <<>> /\ Head(open) = Opener[t])
    <3>1. Bracket(open, t) = <<"unopened">> \o open
      BY <1>2, <2>2 DEF Bracket
    <3>2. <<"unopened">> \in Seq(Opens)
      BY DEF Opens
    <3> QED
      BY <3>1, <3>2 DEF Stacks
  <2> QED
    BY <2>1, <2>2
<1>3. CASE t \notin {"LPAREN", "LBRACE", "LBRACKET"} /\ t \notin DOMAIN Opener
  BY <1>3 DEF Bracket
<1> QED
  BY <1>1, <1>2, <1>3

LEMMA QuietBracket ==
  ASSUME NEW open, NEW t, t \notin BracketKinds PROVE Bracket(open, t) = open
BY DEF Bracket, Opener, BracketKinds

\* A bracket and its partner.
LEMMA PairBracket ==
  ASSUME NEW open \in Stacks, NEW t \in {"RPAREN", "RBRACE", "RBRACKET"}
  PROVE  Bracket(Bracket(open, Opener[t]), t) = open
<1> DEFINE o == Opener[t]
           with == <<o>> \o open
<1>1. o \in {"LPAREN", "LBRACE", "LBRACKET"} /\ t \in DOMAIN Opener
      /\ t \notin {"LPAREN", "LBRACE", "LBRACKET"}
  BY DEF Opener
<1>2. Bracket(open, o) = with
  <2> HIDE DEF o
  <2>1. CASE o = "LPAREN"
    BY <2>1 DEF Bracket, Opener
  <2>2. CASE o = "LBRACE"
    BY <2>2 DEF Bracket, Opener
  <2>3. CASE o = "LBRACKET"
    BY <2>3 DEF Bracket, Opener
  <2> QED
    BY <1>1, <2>1, <2>2, <2>3
<1>3. with \in Seq(Opens) /\ with # <<>> /\ Head(with) = o /\ Tail(with) = open
  <2>1. o \in Opens /\ open \in Seq(Opens)
    BY <1>1 DEF Opens, Stacks
  <2> HIDE DEF o
  <2>2. with \in Seq(Opens) /\ Len(with) = Len(open) + 1 /\ with[1] = o
        /\ \A i \in 1..Len(open) : with[i + 1] = open[i]
    BY <2>1
  <2> HIDE DEF with
  <2>3. Tail(with) \in Seq(Opens) /\ Len(Tail(with)) = Len(open)
        /\ \A i \in 1..Len(open) : Tail(with)[i] = open[i]
    BY <2>1, <2>2
  <2>4. Tail(with) = open
    BY <2>1, <2>3, SeqEqual
  <2> QED
    BY <2>1, <2>2, <2>4
<1>4. Bracket(with, t) = Tail(with)
  BY <1>1, <1>3 DEF Bracket
<1> QED
  BY <1>2, <1>3, <1>4

\* The recursive definition says what it looks like.
LEMMA RunGives ==
  ASSUME NEW open \in Stacks, NEW S, NEW s \in Seq(S)
  PROVE  /\ OpenBehind(open, s) \in Stacks
         /\ \A f : RunOf(f, open, s) => OpenBehind(open, s) = f[Len(s)]
         /\ \E f \in [0..Len(s) -> Stacks] : RunOf(f, open, s)
<1> DEFINE n == Len(s)
           G == [i \in 1..n |-> [o \in Stacks |-> Bracket(o, s[i])]]
           Is(b) == b = [i \in 0..n |-> IF i = 0 THEN open ELSE Bracket(b[i - 1], s[i])]
           behind == CHOOSE b : Is(b)
<1>1. n \in Nat
  OBVIOUS
<1>2. G \in [1..n -> [Stacks -> Stacks]]
  BY BracketType
<1>3. \A i \in 1..n, o \in Stacks : G[i][o] = Bracket(o, s[i])
  OBVIOUS
<1>4. OpenBehind(open, s) = behind[n]
  BY DEF OpenBehind
<1> HIDE DEF n, G, behind
<1>5. PICK f \in [0..n -> Stacks] : Follows(f, n, open, G)
  <2> HIDE DEF Is
  <2> QED
    BY <1>1, <1>2, Recursion
<1>6. \A i \in 1..n : f[i - 1] \in Stacks /\ f[i] = Bracket(f[i - 1], s[i])
  <2>1. \A i \in 1..n : i - 1 \in 0..n
    BY <1>1
  <2> QED
    BY <1>3, <1>5, <2>1 DEF Follows
<1>7. Is(f)
  <2>1. \A i \in 0..n : f[i] = IF i = 0 THEN open ELSE Bracket(f[i - 1], s[i])
    BY <1>1, <1>5, <1>6 DEF Follows
  <2> QED
    BY <1>5, <2>1
<1>8. Is(behind)
  BY <1>7 DEF behind
<1>9. ASSUME NEW g, RunOf(g, open, s) PROVE \A i \in 0..n : g[i] = f[i]
  <2>1. \A i \in 1..n : g[i] = Bracket(g[i - 1], s[i])
    BY <1>9 DEF RunOf, n
  <2> DEFINE T == {i \in 0..n : g[i] = f[i]}
  <2>2. 0 \in T
    <3>1. g[0] = open /\ 0 \in 0..n
      BY <1>1, <1>9 DEF RunOf
    <3> QED
      BY <1>5, <3>1 DEF Follows
  <2>3. ASSUME NEW i \in 0..n - 1, i \in T PROVE i + 1 \in T
    <3>1. i + 1 \in 1..n /\ i + 1 - 1 = i /\ i + 1 \in 0..n
      BY <1>1
    <3>2. g[i + 1] = Bracket(g[i], s[i + 1])
      BY <2>1, <3>1
    <3> QED
      BY <1>6, <2>3, <3>1, <3>2
  <2> HIDE DEF T
  <2>4. 0..n \subseteq T
    BY <1>1, <2>2, <2>3, IntervalInduction
  <2> QED
    BY <2>4 DEF T
<1>10. RunOf(behind, open, s)
  <2>1. behind[0] = open
    BY <1>1, <1>8
  <2>2. ASSUME NEW i \in 1..n PROVE behind[i] = Bracket(behind[i - 1], s[i])
    <3>1. i \in 0..n /\ i # 0
      BY <1>1
    <3> QED
      BY <1>8, <3>1
  <2> QED
    BY <2>1, <2>2 DEF RunOf, n
<1>11. behind[n] = f[n] /\ n \in 0..n
  BY <1>1, <1>9, <1>10
<1>12. RunOf(f, open, s)
  BY <1>5, <1>6 DEF Follows, RunOf, n
<1> QED
  BY <1>4, <1>5, <1>9, <1>11, <1>12 DEF n

LEMMA OpenBehindNone == ASSUME NEW open \in Stacks PROVE OpenBehind(open, <<>>) = open
<1>1. RunOf([i \in 0..0 |-> open], open, <<>>) /\ <<>> \in Seq({})
  BY DEF RunOf
<1>2. OpenBehind(open, <<>>) = [i \in 0..0 |-> open][Len(<<>>)]
  BY <1>1, RunGives
<1> QED
  BY <1>2

LEMMA OpenBehindOne ==
  ASSUME NEW open \in Stacks, NEW t PROVE OpenBehind(open, <<t>>) = Bracket(open, t)
<1> DEFINE f == [i \in 0..1 |-> IF i = 0 THEN open ELSE Bracket(open, t)]
<1>1. RunOf(f, open, <<t>>) /\ <<t>> \in Seq({t}) /\ Len(<<t>>) = 1 /\ f[1] = Bracket(open, t)
  BY DEF RunOf
<1> HIDE DEF f
<1> QED
  BY <1>1, RunGives

\* What is open behind two words in a row.
LEMMA OpenBehindBoth ==
  ASSUME NEW open \in Stacks, NEW S, NEW s \in Seq(S), NEW T, NEW t \in Seq(T)
  PROVE  OpenBehind(open, s \o t) = OpenBehind(OpenBehind(open, s), t)
<1> DEFINE m == Len(s)
           n == Len(t)
           st == s \o t
<1>1. m \in Nat /\ n \in Nat /\ Len(st) = m + n
      /\ (\A i \in 1..m : st[i] = s[i]) /\ (\A i \in 1..n : st[m + i] = t[i])
  BY Concatenated
<1>2. st \in Seq(S \cup T)
  OBVIOUS
<1>3. PICK f \in [0..m -> Stacks] : RunOf(f, open, s)
  BY RunGives
<1>4. OpenBehind(open, s) = f[m] /\ f[m] \in Stacks
  BY <1>1, <1>3, RunGives
<1>5. PICK g \in [0..n -> Stacks] : RunOf(g, f[m], t)
  BY <1>4, RunGives
<1>6. OpenBehind(f[m], t) = g[n]
  BY <1>4, <1>5, RunGives
<1> DEFINE h == [i \in 0..m + n |-> IF i <= m THEN f[i] ELSE g[i - m]]
<1>7. h[0] = open
  BY <1>1, <1>3 DEF RunOf
<1>8. ASSUME NEW i \in 1..m + n PROVE h[i] = Bracket(h[i - 1], st[i])
  <2>1. CASE i <= m
    <3>1. i \in 1..m /\ i \in 0..m + n /\ i - 1 \in 0..m + n /\ i - 1 <= m
      BY <1>1, <2>1
    <3> QED
      BY <1>1, <1>3, <2>1, <3>1 DEF RunOf
  <2>2. CASE i = m + 1
    <3>1. 1 \in 1..n /\ i \in 0..m + n /\ i - 1 \in 0..m + n /\ i - 1 = m /\ i - m = 1 /\ ~(i <= m)
      BY <1>1, <2>2
    <3>2. h[i] = g[1] /\ h[i - 1] = f[m] /\ st[i] = t[1]
      BY <1>1, <2>2, <3>1
    <3>3. g[1] = Bracket(g[0], t[1]) /\ g[0] = f[m]
      BY <1>5, <3>1 DEF RunOf
    <3> QED
      BY <3>2, <3>3
  <2>3. CASE i > m + 1
    <3> DEFINE j == i - m
    <3>1. j \in 1..n /\ i = m + j /\ i \in 0..m + n /\ i - 1 \in 0..m + n /\ ~(i <= m)
          /\ ~(i - 1 <= m) /\ i - 1 - m = j - 1
      BY <1>1, <2>3
    <3>2. h[i] = g[j] /\ h[i - 1] = g[j - 1] /\ st[i] = t[j]
      BY <1>1, <3>1
    <3>3. g[j] = Bracket(g[j - 1], t[j])
      BY <1>5, <3>1 DEF RunOf
    <3> QED
      BY <3>2, <3>3
  <2> QED
    BY <1>1, <2>1, <2>2, <2>3
<1>9. h[m + n] = g[n]
  <2>1. CASE n = 0
    BY <1>1, <1>5, <2>1 DEF RunOf
  <2>2. CASE n # 0
    BY <1>1, <2>2
  <2> QED
    BY <2>1, <2>2
<1> HIDE DEF h
<1>10. RunOf(h, open, st)
  BY <1>1, <1>7, <1>8 DEF RunOf
<1> HIDE DEF st
<1>11. OpenBehind(open, st) = h[m + n]
  <2>1. OpenBehind(open, st) = h[Len(st)]
    BY <1>2, <1>10, RunGives, Zenon
  <2> QED
    BY <1>1, <2>1
<1> QED
  BY <1>4, <1>6, <1>9, <1>11 DEF st

-----------------------------------------------------------------------------
(* Words of symbols                                                        *)

LEMMA SymbolLetters ==
  ASSUME NEW x \in Symbol PROVE BracketOf(x) \in TokenKinds \cup {""}
<1>1. x.do = "consume" => x.kind \in {""} \cup TokenKinds
  <2>1. CASE x \in Plain
    BY <2>1 DEF Plain
  <2>2. CASE x = Rule("program") \/ x = Rule("stmts")
    BY <2>2, Dos
  <2> QED
    BY <2>1, <2>2 DEF Symbol
<1>2. {"RPAREN", "RBRACE", "RBRACKET"} \subseteq TokenKinds
  BY DEF TokenKinds
<1>3. /\ x.do = "consume" => BracketOf(x) = x.kind
      /\ x.do # "consume" => BracketOf(x) \in {"", "RPAREN", "RBRACE", "RBRACKET"}
  BY DEF BracketOf
<1> QED
  BY <1>1, <1>2, <1>3

LEMMA BracketsAre ==
  ASSUME NEW S, NEW s \in Seq(S)
  PROVE  /\ Len(Brackets(s)) = Len(s) /\ Len(s) \in Nat
         /\ Brackets(s) \in Seq({BracketOf(x) : x \in S})
         /\ \A i \in 1..Len(s) : Brackets(s)[i] = BracketOf(s[i])
<1>1. Len(s) \in Nat /\ DOMAIN s = 1..Len(s) /\ \A i \in 1..Len(s) : s[i] \in S
  OBVIOUS
<1>2. Brackets(s) \in [1..Len(s) -> {BracketOf(x) : x \in S}]
  BY <1>1 DEF Brackets
<1>3. \A i \in 1..Len(s) : Brackets(s)[i] = BracketOf(s[i])
  BY <1>1 DEF Brackets
<1> QED
  BY <1>1, <1>2, <1>3

LEMMA BracketsOne == ASSUME NEW x PROVE Brackets(<<x>>) = <<BracketOf(x)>>
BY DEF Brackets

LEMMA BracketsOf == \A k : BracketOf(Consume(k)) = k
BY DEF BracketOf, Consume

LEMMA BracketsBoth ==
  ASSUME NEW S, NEW s \in Seq(S), NEW T, NEW t \in Seq(T)
  PROVE  Brackets(s \o t) = Brackets(s) \o Brackets(t)
<1> DEFINE L == {BracketOf(x) : x \in S \cup T}
           l == Brackets(s \o t)
           r == Brackets(s) \o Brackets(t)
<1>1. s \o t \in Seq(S \cup T) /\ Len(s) \in Nat /\ Len(t) \in Nat
      /\ Len(s \o t) = Len(s) + Len(t)
      /\ (\A i \in 1..Len(s) : (s \o t)[i] = s[i])
      /\ (\A i \in 1..Len(t) : (s \o t)[Len(s) + i] = t[i])
  BY Concatenated
<1>2. l \in Seq(L) /\ Len(l) = Len(s) + Len(t)
      /\ \A i \in 1..Len(s) + Len(t) : l[i] = BracketOf((s \o t)[i])
  BY <1>1, BracketsAre
<1>3. /\ Brackets(s) \in Seq({BracketOf(x) : x \in S}) /\ Len(Brackets(s)) = Len(s)
      /\ Brackets(t) \in Seq({BracketOf(x) : x \in T}) /\ Len(Brackets(t)) = Len(t)
      /\ (\A i \in 1..Len(s) : Brackets(s)[i] = BracketOf(s[i]))
      /\ (\A i \in 1..Len(t) : Brackets(t)[i] = BracketOf(t[i]))
  BY BracketsAre
<1>4. /\ Len(r) = Len(s) + Len(t)
      /\ (\A i \in 1..Len(s) : r[i] = BracketOf(s[i]))
      /\ (\A i \in 1..Len(t) : r[Len(s) + i] = BracketOf(t[i]))
  <2> DEFINE U == {BracketOf(x) : x \in S}
             V == {BracketOf(x) : x \in T}
             u == Brackets(s)
             v == Brackets(t)
  <2>1. u \in Seq(U) /\ v \in Seq(V)
    BY <1>3
  <2> HIDE DEF U, V, u, v
  <2>2. /\ Len(u \o v) = Len(u) + Len(v)
        /\ \A i \in 1..Len(u) : (u \o v)[i] = u[i]
        /\ \A i \in 1..Len(v) : (u \o v)[Len(u) + i] = v[i]
    BY <2>1, Concatenated
  <2> USE DEF u, v
  <2> HIDE DEF r
  <2>3. r = u \o v
    BY DEF r
  <2> QED
    BY <1>3, <2>2, <2>3
<1>5. r \in Seq(L)
  <2>1. Brackets(s) \in Seq(L) /\ Brackets(t) \in Seq(L)
    BY <1>3
  <2> HIDE DEF L
  <2> QED
    BY <2>1
<1> HIDE DEF L, l, r
<1>6. ASSUME NEW i \in 1..Len(l) PROVE l[i] = r[i]
  <2>1. CASE i <= Len(s)
    BY <1>1, <1>2, <1>4, <2>1
  <2>2. CASE i > Len(s)
    <3>1. i - Len(s) \in 1..Len(t) /\ i = Len(s) + (i - Len(s)) /\ i \in 1..Len(s) + Len(t)
      BY <1>1, <1>2, <2>2
    <3> QED
      BY <1>1, <1>2, <1>4, <3>1
  <2> QED
    BY <1>1, <2>1, <2>2
<1>7. l = r
  BY <1>2, <1>4, <1>5, <1>6, SeqEqual
<1> QED
  BY <1>7 DEF l, r

\* Symbols without a bracket leave everything open that was.
LEMMA YieldsNone ==
  ASSUME NEW S, NEW s \in Seq(S), \A i \in 1..Len(s) : Quiet(s[i]),
         NEW t, t \notin BracketKinds
  PROVE  Yields(s, t)
<1> SUFFICES ASSUME NEW open \in Stacks
             PROVE  OpenBehind(open, Brackets(s)) = Bracket(open, t)
  BY DEF Yields
<1> DEFINE f == [i \in 0..Len(s) |-> open]
           w == Brackets(s)
           L == {BracketOf(x) : x \in S}
<1>1. w \in Seq(L) /\ Len(w) = Len(s) /\ Len(s) \in Nat
      /\ \A i \in 1..Len(s) : w[i] = BracketOf(s[i])
  BY BracketsAre
<1> HIDE DEF w, L
<1>2. \A i \in 1..Len(w) : Bracket(open, w[i]) = open
  BY <1>1, QuietBracket DEF Quiet
<1>3. RunOf(f, open, w)
  BY <1>1, <1>2 DEF RunOf
<1>4. f[Len(w)] = open
  BY <1>1
<1> HIDE DEF f
<1>5. OpenBehind(open, w) = open
  BY <1>1, <1>3, <1>4, RunGives
<1> QED
  BY <1>5, QuietBracket DEF w

\* One bracket among symbols without.
LEMMA YieldsOne ==
  ASSUME NEW S, NEW s \in Seq(S), NEW k \in 1..Len(s),
         \A i \in 1..Len(s) : i # k => Quiet(s[i])
  PROVE  Yields(s, BracketOf(s[k]))
<1> SUFFICES ASSUME NEW open \in Stacks
             PROVE  OpenBehind(open, Brackets(s)) = Bracket(open, BracketOf(s[k]))
  BY DEF Yields
<1> DEFINE with == Bracket(open, BracketOf(s[k]))
           f == [i \in 0..Len(s) |-> IF i < k THEN open ELSE with]
           w == Brackets(s)
           L == {BracketOf(x) : x \in S}
<1>1. w \in Seq(L) /\ Len(w) = Len(s) /\ Len(s) \in Nat
      /\ \A i \in 1..Len(s) : w[i] = BracketOf(s[i])
  BY BracketsAre
<1> HIDE DEF w, L
<1>2. ASSUME NEW i \in 1..Len(s), i # k, NEW o PROVE Bracket(o, w[i]) = o
  BY <1>1, <1>2, QuietBracket DEF Quiet
<1>3. Bracket(open, w[k]) = with
  BY <1>1
<1> HIDE DEF with
<1>4. \A i \in 1..Len(s) : f[i] = Bracket(f[i - 1], w[i])
  BY <1>1, <1>2, <1>3
<1>5. f[0] = open /\ f[Len(s)] = with
  BY <1>1
<1> HIDE DEF f
<1>6. RunOf(f, open, w)
  BY <1>1, <1>4, <1>5 DEF RunOf
<1>7. OpenBehind(open, w) = with
  BY <1>1, <1>5, <1>6, RunGives
<1> QED
  BY <1>7 DEF w, with

\* A bracket and its partner among symbols without.
LEMMA YieldsPair ==
  ASSUME NEW S, NEW s \in Seq(S), NEW k \in 1..Len(s), NEW m \in 1..Len(s), k < m,
         BracketOf(s[m]) \in {"RPAREN", "RBRACE", "RBRACKET"},
         BracketOf(s[k]) = Opener[BracketOf(s[m])],
         \A i \in 1..Len(s) : i # k /\ i # m => Quiet(s[i]),
         NEW t, t \notin BracketKinds
  PROVE  Yields(s, t)
<1> SUFFICES ASSUME NEW open \in Stacks
             PROVE  OpenBehind(open, Brackets(s)) = Bracket(open, t)
  BY DEF Yields
<1> DEFINE with == Bracket(open, BracketOf(s[k]))
           f == [i \in 0..Len(s) |-> IF i < k \/ i >= m THEN open ELSE with]
           w == Brackets(s)
           L == {BracketOf(x) : x \in S}
<1>1. w \in Seq(L) /\ Len(w) = Len(s) /\ Len(s) \in Nat
      /\ \A i \in 1..Len(s) : w[i] = BracketOf(s[i])
  BY BracketsAre
<1> HIDE DEF w, L
<1>2. ASSUME NEW i \in 1..Len(s), i # k, i # m, NEW o PROVE Bracket(o, w[i]) = o
  BY <1>1, <1>2, QuietBracket DEF Quiet
<1>3. Bracket(open, w[k]) = with /\ Bracket(with, w[m]) = open
  BY <1>1, PairBracket
<1> HIDE DEF with
<1>4. ASSUME NEW i \in 1..Len(s) PROVE f[i] = Bracket(f[i - 1], w[i])
  <2>1. i \in 0..Len(s) /\ i - 1 \in 0..Len(s)
    BY <1>1
  <2>2. CASE i = k
    BY <1>3, <2>1, <2>2
  <2>3. CASE i = m
    <3>1. f[i] = open /\ f[i - 1] = with
      BY <2>1, <2>3
    <3> QED
      BY <1>3, <2>3, <3>1
  <2>4. CASE i # k /\ i # m
    <3>1. f[i] = f[i - 1]
      BY <2>1, <2>4
    <3> QED
      BY <1>2, <2>4, <3>1
  <2> QED
    BY <2>2, <2>3, <2>4
<1>5. f[0] = open /\ f[Len(s)] = open
  BY <1>1
<1> HIDE DEF f
<1>6. RunOf(f, open, w)
  BY <1>1, <1>4, <1>5 DEF RunOf
<1>7. OpenBehind(open, w) = open
  BY <1>1, <1>5, <1>6, RunGives
<1> QED
  BY <1>7, QuietBracket DEF w

-----------------------------------------------------------------------------
(* The brackets of a stack                                                 *)

LEMMA FrameWord == ASSUME NEW s \in Seq(Symbol) PROVE Brackets(s) \in Words
<1>1. Brackets(s) \in Seq({BracketOf(x) : x \in Symbol})
  BY BracketsAre
<1>2. {BracketOf(x) : x \in Symbol} \subseteq TokenKinds \cup {LexError, ""}
  BY SymbolLetters
<1> QED
  BY <1>1, <1>2, SeqWider DEF Words

LEMMA WordsBoth ==
  ASSUME NEW s \in Words, NEW t \in Words
  PROVE  /\ s \o t \in Words
         /\ \A open \in Stacks : OpenBehind(open, s \o t) = OpenBehind(OpenBehind(open, s), t)
<1> DEFINE L == TokenKinds \cup {LexError, ""}
<1>1. s \in Seq(L) /\ t \in Seq(L)
  BY DEF Words
<1> HIDE DEF L
<1>2. s \o t \in Seq(L)
  BY <1>1
<1>3. \A open \in Stacks : OpenBehind(open, s \o t) = OpenBehind(OpenBehind(open, s), t)
  BY <1>1, OpenBehindBoth
<1> QED
  BY <1>2, <1>3 DEF Words, L

Before(fr, w) == Brackets(fr) \o w

\* P[i] are the brackets of the frames up to i
Collects(P, fs) ==
  /\ P[0] = <<>>
  /\ \A i \in 1..Len(fs) : P[i] = Before(fs[i], P[i - 1])

LEMMA PendingGives ==
  ASSUME NEW fs \in Seq(Seq(Symbol))
  PROVE  /\ Pending(fs) \in Words
         /\ \A P : Collects(P, fs) => Pending(fs) = P[Len(fs)]
         /\ \E P \in [0..Len(fs) -> Words] : Collects(P, fs)
<1> DEFINE n == Len(fs)
           G == [i \in 1..n |-> [w \in Words |-> Before(fs[i], w)]]
           Is(q) == q = [i \in 0..n |-> IF i = 0 THEN <<>> ELSE Before(fs[i], q[i - 1])]
           of == CHOOSE q : Is(q)
<1>1. n \in Nat /\ <<>> \in Words
  BY DEF Words
<1>2. G \in [1..n -> [Words -> Words]]
  <2>1. ASSUME NEW i \in 1..n, NEW w \in Words PROVE Before(fs[i], w) \in Words
    <3>1. fs[i] \in Seq(Symbol)
      BY ElementOf
    <3> QED
      BY <3>1, FrameWord, WordsBoth DEF Before
  <2> QED
    BY <2>1
<1>3. \A i \in 1..n, w \in Words : G[i][w] = Before(fs[i], w)
  OBVIOUS
<1>4. Pending(fs) = of[n]
  BY DEF Pending, Before
<1> HIDE DEF n, G, of
<1>5. PICK P \in [0..n -> Words] : Follows(P, n, <<>>, G)
  <2> HIDE DEF Is
  <2> QED
    BY <1>1, <1>2, Recursion
<1>6. \A i \in 1..n : P[i - 1] \in Words /\ P[i] = Before(fs[i], P[i - 1])
  <2>1. \A i \in 1..n : i - 1 \in 0..n
    BY <1>1
  <2> QED
    BY <1>3, <1>5, <2>1 DEF Follows
<1>7. Is(P)
  <2>1. \A i \in 0..n : P[i] = IF i = 0 THEN <<>> ELSE Before(fs[i], P[i - 1])
    BY <1>1, <1>5, <1>6 DEF Follows
  <2> QED
    BY <1>5, <2>1
<1>8. Is(of)
  BY <1>7 DEF of
<1>9. ASSUME NEW Q, Collects(Q, fs) PROVE \A i \in 0..n : Q[i] = P[i]
  <2>1. \A i \in 1..n : Q[i] = Before(fs[i], Q[i - 1])
    BY <1>9 DEF Collects, n
  <2> DEFINE T == {i \in 0..n : Q[i] = P[i]}
  <2>2. 0 \in T
    <3>1. Q[0] = <<>> /\ 0 \in 0..n
      BY <1>1, <1>9 DEF Collects
    <3> QED
      BY <1>5, <3>1 DEF Follows
  <2>3. ASSUME NEW i \in 0..n - 1, i \in T PROVE i + 1 \in T
    <3>1. i + 1 \in 1..n /\ i + 1 - 1 = i /\ i + 1 \in 0..n
      BY <1>1
    <3>2. Q[i + 1] = Before(fs[i + 1], Q[i])
      BY <2>1, <3>1
    <3> QED
      BY <1>6, <2>3, <3>1, <3>2
  <2> HIDE DEF T
  <2>4. 0..n \subseteq T
    BY <1>1, <2>2, <2>3, IntervalInduction
  <2> QED
    BY <2>4 DEF T
<1>10. Collects(of, fs)
  <2>1. of[0] = <<>>
    BY <1>1, <1>8
  <2>2. ASSUME NEW i \in 1..n PROVE of[i] = Before(fs[i], of[i - 1])
    <3>1. i \in 0..n /\ i # 0
      BY <1>1
    <3> QED
      BY <1>8, <3>1
  <2> QED
    BY <2>1, <2>2 DEF Collects, n
<1>11. of[n] = P[n] /\ n \in 0..n
  BY <1>1, <1>9, <1>10
<1>12. Collects(P, fs)
  BY <1>5, <1>6 DEF Follows, Collects, n
<1> QED
  BY <1>4, <1>5, <1>9, <1>11, <1>12 DEF n

\* The brackets of the top frame come first.
LEMMA PendingAbove ==
  ASSUME NEW fs \in Seq(Seq(Symbol)), NEW fr \in Seq(Symbol)
  PROVE  Pending(Append(fs, fr)) = Brackets(fr) \o Pending(fs)
<1> DEFINE n == Len(fs)
           gs == Append(fs, fr)
           F == Seq(Symbol)
<1>1. fs \in Seq(F) /\ fr \in F
  OBVIOUS
<1> HIDE DEF F
<1>2. n \in Nat /\ gs \in Seq(F) /\ Len(gs) = n + 1 /\ gs[n + 1] = fr
      /\ \A i \in 1..n : gs[i] = fs[i]
  BY <1>1
<1> HIDE DEF gs
<1>3. PICK P \in [0..n + 1 -> Words] : Collects(P, gs)
  BY <1>2, PendingGives DEF F
<1>4. Pending(gs) = P[n + 1]
  BY <1>2, <1>3, PendingGives DEF F
<1>5. Collects(P, fs)
  BY <1>2, <1>3 DEF Collects
<1>6. Pending(fs) = P[n]
  BY <1>5, PendingGives
<1>7. P[n + 1] = Before(fr, P[n])
  BY <1>2, <1>3 DEF Collects
<1> QED
  BY <1>4, <1>6, <1>7 DEF gs, Before

LEMMA OpenAbove ==
  ASSUME NEW fs \in Seq(Seq(Symbol)), NEW fr \in Seq(Symbol), NEW open \in Stacks
  PROVE  OpenBehind(open, Pending(Append(fs, fr)))
           = OpenBehind(OpenBehind(open, Brackets(fr)), Pending(fs))
<1>1. Brackets(fr) \in Words /\ Pending(fs) \in Words
  BY FrameWord, PendingGives
<1>2. Pending(Append(fs, fr)) = Brackets(fr) \o Pending(fs)
  BY PendingAbove
<1>3. OpenBehind(open, Brackets(fr) \o Pending(fs))
        = OpenBehind(OpenBehind(open, Brackets(fr)), Pending(fs))
  BY <1>1, WordsBoth
<1> QED
  BY <1>2, <1>3

LEMMA BalancedIs ==
  ASSUME NEW fs \in Seq(Seq(Symbol)), NEW w \in Words
  PROVE  Balanced(w \o Pending(fs)) <=> OpenBehind(OpenBehind(<<>>, w), Pending(fs)) = <<>>
<1>1. <<>> \in Stacks /\ Pending(fs) \in Words
  BY PendingGives DEF Stacks
<1> QED
  BY <1>1, WordsBoth DEF Balanced

\* What the frame fr in place of the top of a stack leaves open.
LEMMA OpenTop ==
  ASSUME NEW fs \in Seq(Seq(Symbol)), NEW s \in Seq(Symbol), NEW t \in Seq(Symbol),
         NEW open \in Stacks
  PROVE  OpenBehind(open, Pending(Append(fs, s \o t)))
           = OpenBehind(OpenBehind(OpenBehind(open, Brackets(s)), Brackets(t)), Pending(fs))
<1>1. s \o t \in Seq(Symbol)
  OBVIOUS
<1>2. Brackets(s) \in Words /\ Brackets(t) \in Words /\ Brackets(s \o t) = Brackets(s) \o Brackets(t)
  BY FrameWord, BracketsBoth
<1>3. OpenBehind(open, Brackets(s \o t)) = OpenBehind(OpenBehind(open, Brackets(s)), Brackets(t))
  BY <1>2, WordsBoth
<1> QED
  BY <1>1, <1>3, OpenAbove

-----------------------------------------------------------------------------
(* Steps                                                                   *)

Below == SubSeq(frames, 1, Len(frames) - 1)

\* the brackets open behind what has been read
Open == OpenBehind(<<>>, SubSeq(src, 1, pos - 1))

\* The stack, taken apart.
LEMMA StackIs ==
  ASSUME IInv
  PROVE  /\ Below \in Seq(Seq(Symbol)) /\ frames = Append(Below, Top)
         /\ Front(frames) = Below
         /\ Top \in Seq(Symbol) /\ Tail(Top) \in Seq(Symbol) /\ Head(Top) \in Symbol
         /\ Top = <<Head(Top)>> \o Tail(Top)
         /\ \A s \in Seq(Symbol) : Unfold(s) = Append(Below, s \o Tail(Top))
<1> DEFINE F == Seq(Symbol)
           n == Len(frames)
<1>1. frames \in Seq(F) /\ n \in Nat /\ n >= 1 /\ Top = frames[n] /\ Top \in F /\ Top # <<>>
  BY FramesAre
<1>2. Tail(Top) \in F /\ Head(Top) \in Symbol /\ Top = <<Head(Top)>> \o Tail(Top)
  <2>1. Top \in Seq(Symbol) /\ Top # <<>>
    BY <1>1
  <2>2. /\ Head(Top) \in Symbol /\ Head(Top) = Top[1] /\ Tail(Top) \in Seq(Symbol)
        /\ Len(Top) \in Nat /\ Len(Top) >= 1 /\ Len(Tail(Top)) = Len(Top) - 1
        /\ \A i \in 1..Len(Tail(Top)) : Tail(Top)[i] = Top[i + 1]
    BY <2>1
  <2> DEFINE r == <<Head(Top)>> \o Tail(Top)
  <2>3. /\ r \in Seq(Symbol) /\ Len(r) = Len(Top) /\ r[1] = Head(Top)
        /\ \A i \in 1..Len(Tail(Top)) : r[1 + i] = Tail(Top)[i]
    BY <2>2
  <2> HIDE DEF r
  <2>4. ASSUME NEW i \in 1..Len(Top) PROVE Top[i] = r[i]
    <3>1. CASE i = 1
      BY <2>2, <2>3, <3>1
    <3>2. CASE i # 1
      <4>1. i - 1 \in 1..Len(Tail(Top)) /\ 1 + (i - 1) = i /\ (i - 1) + 1 = i
        BY <2>2, <3>2
      <4> QED
        BY <2>2, <2>3, <4>1
    <3> QED
      BY <3>1, <3>2
  <2>5. Top = r
    BY <2>1, <2>3, <2>4, SeqEqual
  <2> QED
    BY <2>2, <2>5 DEF r
<1>3. /\ Below \in Seq(F) /\ Len(Below) = n - 1
      /\ \A i \in 1..n - 1 : Below[i] = frames[i]
  <2> HIDE DEF F
  <2>1. n - 1 \in Nat /\ n - 1 <= Len(frames)
    BY <1>1
  <2> QED
    BY <1>1, <2>1, Shortened DEF Below
<1>4. Front(frames) = Below
  BY DEF Front, Below
<1>5. ASSUME NEW fs \in Seq(F), Len(fs) = n, \A i \in 1..n - 1 : fs[i] = frames[i]
      PROVE  fs = Append(Below, fs[n])
  <2> HIDE DEF F
  <2> DEFINE r == Append(Below, fs[n])
  <2>1. fs[n] \in F
    BY <1>1, <1>5
  <2>2. r \in Seq(F) /\ Len(r) = n /\ r[n] = fs[n] /\ \A i \in 1..n - 1 : r[i] = Below[i]
    BY <1>1, <1>3, <2>1
  <2> HIDE DEF r
  <2>3. ASSUME NEW i \in 1..Len(fs) PROVE fs[i] = r[i]
    <3>1. i = n \/ i \in 1..n - 1
      BY <1>1, <1>5
    <3> QED
      BY <1>3, <1>5, <2>2, <3>1
  <2>4. fs = r
    BY <1>5, <2>2, <2>3, SeqEqual
  <2> QED
    BY <2>4 DEF r
<1>6. ASSUME NEW s \in Seq(Symbol) PROVE Unfold(s) = Append(Below, s \o Tail(Top))
  <2> DEFINE new == s \o Tail(Top)
             fs == [frames EXCEPT ![n] = new]
  <2>1. new \in F
    BY <1>2
  <2> HIDE DEF new, F
  <2>2. fs \in Seq(F) /\ Len(fs) = n /\ fs[n] = new /\ \A i \in 1..n - 1 : fs[i] = frames[i]
    BY <1>1, <2>1
  <2>3. Unfold(s) = fs
    BY <1>1 DEF Unfold, new
  <2> HIDE DEF fs
  <2>4. fs = Append(Below, fs[n])
    BY <1>5, <2>2
  <2> QED
    BY <2>2, <2>3, <2>4 DEF new
<1>7. frames = Append(Below, Top)
  BY <1>1, <1>5
<1> QED
  BY <1>1, <1>2, <1>3, <1>4, <1>6, <1>7

\* Balance, from the rule at hand on.
LEMMA BalanceIs ==
  ASSUME IInv
  PROVE  /\ Open \in Stacks /\ SubSeq(src, 1, pos - 1) \in Words
         /\ Balanced(SubSeq(src, 1, pos - 1) \o Pending(frames)) <=>
              OpenBehind(OpenBehind(Bracket(Open, BracketOf(Head(Top))), Brackets(Tail(Top))),
                         Pending(Below)) = <<>>
<1> DEFINE L == TokenKinds \cup {LexError, ""}
           w == SubSeq(src, 1, pos - 1)
           b == <<Head(Top)>>
<1>1. src \in Seq(L) /\ pos \in 1..Len(src) + 1
  <2>1. src \in Seq(TokenKinds \cup {LexError}) /\ TokenKinds \cup {LexError} \subseteq L
    BY DEF IInv, RestOK
  <2> QED
    BY <2>1, SeqWider DEF IInv, RestOK
<1> HIDE DEF L
<1>2. w \in Seq(L)
  BY <1>1
<1>3. w \in Words
  BY <1>2 DEF L, Words
<1>4. <<>> \in Stacks
  BY DEF Stacks
<1>5. Open \in Stacks /\ Open = OpenBehind(<<>>, w)
  BY <1>2, <1>4, RunGives DEF Open
<1> HIDE DEF w
<1>6. Below \in Seq(Seq(Symbol)) /\ frames = Append(Below, Top) /\ Top = b \o Tail(Top)
      /\ b \in Seq(Symbol) /\ Tail(Top) \in Seq(Symbol)
  BY StackIs
<1>7. OpenBehind(Open, Brackets(b)) = Bracket(Open, BracketOf(Head(Top)))
  <2>1. Brackets(b) = <<BracketOf(Head(Top))>>
    BY DEF Brackets
  <2> QED
    BY <1>5, <2>1, OpenBehindOne
<1> HIDE DEF b
<1>8. OpenBehind(Open, Pending(frames))
        = OpenBehind(OpenBehind(OpenBehind(Open, Brackets(b)), Brackets(Tail(Top))), Pending(Below))
  <2>1. OpenBehind(Open, Pending(Append(Below, b \o Tail(Top))))
          = OpenBehind(OpenBehind(OpenBehind(Open, Brackets(b)), Brackets(Tail(Top))),
                       Pending(Below))
    BY <1>5, <1>6, OpenTop
  <2> QED
    BY <1>6, <2>1
<1>9. frames \in Seq(Seq(Symbol))
  BY FramesAre
<1>10. Balanced(w \o Pending(frames)) <=> OpenBehind(Open, Pending(frames)) = <<>>
  BY <1>3, <1>5, <1>9, BalancedIs
<1> QED
  BY <1>3, <1>5, <1>7, <1>8, <1>10 DEF w

\* The brackets open behind one more token.
LEMMA ReadOne ==
  ASSUME IInv, pos <= Len(src)
  PROVE  /\ SubSeq(src, 1, pos) \in Words
         /\ OpenBehind(<<>>, SubSeq(src, 1, pos)) = Bracket(Open, Tok)
<1> DEFINE L == TokenKinds \cup {LexError, ""}
           v == SubSeq(src, 1, pos - 1)
           w == SubSeq(src, 1, pos)
           t == <<Tok>>
<1>1. src \in Seq(L) /\ pos \in 1..Len(src) + 1 /\ Len(src) \in Nat
  <2>1. src \in Seq(TokenKinds \cup {LexError}) /\ TokenKinds \cup {LexError} \subseteq L
    BY DEF IInv, RestOK
  <2>2. src \in Seq(L)
    BY <2>1, SeqWider
  <2> HIDE DEF L
  <2> QED
    BY <2>2 DEF IInv, RestOK
<1>2. Tok = src[pos] /\ Tok \in L
  <2> HIDE DEF L
  <2> QED
    BY <1>1 DEF Tok, TokAt
<1> HIDE DEF L
<1>3. /\ v \in Seq(L) /\ Len(v) = pos - 1 /\ (\A i \in 1..pos - 1 : v[i] = src[i])
      /\ w \in Seq(L) /\ Len(w) = pos /\ (\A i \in 1..pos : w[i] = src[i])
      /\ t \in Seq(L) /\ Len(t) = 1 /\ t[1] = Tok
  BY <1>1, <1>2
<1> HIDE DEF v, w, t
<1>4. v \o t \in Seq(L) /\ Len(v \o t) = pos /\ (\A i \in 1..pos - 1 : (v \o t)[i] = v[i])
      /\ (v \o t)[pos] = Tok
  <2>1. v \o t \in Seq(L) /\ Len(v \o t) = pos /\ (\A i \in 1..pos - 1 : (v \o t)[i] = v[i])
    <3>1. v \o t \in Seq(L)
      BY <1>3
    <3>2. /\ Len(v \o t) = Len(v) + Len(t)
          /\ \A i \in 1..Len(v) : (v \o t)[i] = v[i]
      <4>1. v \in Seq(L) /\ t \in Seq(L)
        BY <1>3
      <4> QED
        BY <4>1, Concatenated
    <3> QED
      BY <1>1, <1>3, <3>1, <3>2
  <2>2. (v \o t)[Len(v) + 1] = t[1] /\ Len(v) + 1 = pos
    <3>1. 1 \in 1..Len(t)
      BY <1>3
    <3>2. (v \o t)[Len(v) + 1] = t[1]
      BY <1>3, <3>1, Concatenated
    <3> QED
      BY <1>1, <1>3, <3>2
  <2> QED
    BY <1>3, <2>1, <2>2
<1>5. \A i \in 1..Len(w) : w[i] = (v \o t)[i]
  BY <1>1, <1>2, <1>3, <1>4
<1>6. w = v \o t
  BY <1>1, <1>3, <1>4, <1>5, SeqEqual
<1>7. <<>> \in Stacks
  BY DEF Stacks
<1>8. OpenBehind(<<>>, w) = OpenBehind(OpenBehind(<<>>, v), t)
  BY <1>3, <1>6, <1>7, OpenBehindBoth
<1>9. OpenBehind(<<>>, v) = Open /\ Open \in Stacks
  BY BalanceIs DEF Open, v
<1>10. OpenBehind(Open, t) = Bracket(Open, Tok)
  BY <1>9, OpenBehindOne DEF t
<1> QED
  BY <1>3, <1>8, <1>9, <1>10 DEF w, L, Words

\* A new stack that leaves open, behind what is read then, what the old one did.
LEMMA StillBalanced ==
  ASSUME IInv, BracketInv, mode = "parse",
         errcount' = errcount, mode' # "recover",
         NEW fs \in Seq(Seq(Symbol)), frames' = fs,
         NEW w \in Words, SubSeq(src', 1, pos' - 1) = w,
         OpenBehind(OpenBehind(<<>>, w), Pending(fs)) =
           OpenBehind(OpenBehind(Bracket(Open, BracketOf(Head(Top))), Brackets(Tail(Top))),
                      Pending(Below))
  PROVE  BracketInv'
<1>1. CASE errcount = 0
  <2>1. Balanced(SubSeq(src, 1, pos - 1) \o Pending(frames))
    BY <1>1 DEF BracketInv, BracketsBalance
  <2>2. Balanced(w \o Pending(fs))
    BY <2>1, BalanceIs, BalancedIs
  <2> QED
    BY <2>2 DEF BracketInv, BracketsBalance
<1>2. CASE errcount # 0
  BY <1>2 DEF BracketInv, BracketsBalance
<1> QED
  BY <1>1, <1>2

\* How the text read and the mode change when a token is read.
LEMMA ReadIs ==
  ASSUME IInv, NEW fs, AdvanceIn("parse", fs)
  PROVE  \/ mode' = "rejected"
         \/ /\ mode' # "recover" /\ errcount' = errcount /\ frames' = fs
            /\ pos <= Len(src)
            /\ SubSeq(src', 1, pos' - 1) = SubSeq(src, 1, pos)
<1>1. CASE Tok = "EOF" /\ Finish("rejected")
  BY <1>1 DEF Finish
<1>2. CASE Tok # "EOF" /\ ~(Tok = "EOF" /\ Finish("rejected"))
  <2>1. /\ mode' = IF TokAt(pos + 1) = LexError THEN "rejected" ELSE "parse"
        /\ pos' = pos + 1 /\ src' = src /\ errcount' = errcount /\ frames' = fs
    BY <1>2 DEF AdvanceIn
  <2>2. pos \in Nat /\ Len(src) \in Nat /\ ~(pos > Len(src))
    BY <1>2 DEF IInv, RestOK, Tok, TokAt
  <2>3. pos' - 1 = pos /\ pos <= Len(src)
    BY <2>1, <2>2
  <2> QED
    BY <2>1, <2>3
<1> QED
  BY <1>1, <1>2 DEF AdvanceIn

LEMMA EndKeepsBrackets ==
  ASSUME IInv, BracketInv, mode' \in Outcomes,
         mode' = "accepted" => mode \in {"parse", "accepted"} /\ UNCHANGED <<src, pos, frames, errcount>>
  PROVE  BracketInv'
BY DEF BracketInv, BracketsBalance, Outcomes

LEMMA SyncKeepsBrackets == ASSUME IInv, Sync PROVE BracketInv'
BY DEF IInv, RestOK, Sync, BracketInv, BracketsBalance

\* A rule replaced by what yields its bracket.
LEMMA RuleKeepsBrackets ==
  ASSUME IInv, BracketInv, mode = "parse", BracketStep PROVE BracketInv'
<1>1. /\ Below \in Seq(Seq(Symbol)) /\ Tail(Top) \in Seq(Symbol)
      /\ \A s \in Seq(Symbol) : Unfold(s) = Append(Below, s \o Tail(Top))
  BY StackIs
<1>2. Open \in Stacks /\ SubSeq(src, 1, pos - 1) \in Words
  BY BalanceIs
<1>3. ASSUME NEW s \in Seq(Symbol) PROVE Append(Below, s \o Tail(Top)) \in Seq(Seq(Symbol))
  <2> DEFINE F == Seq(Symbol)
  <2>1. s \o Tail(Top) \in F
    BY <1>1
  <2>2. Below \in Seq(F)
    BY <1>1
  <2> HIDE DEF F
  <2>3. Append(Below, s \o Tail(Top)) \in Seq(F)
    BY <2>1, <2>2
  <2> QED
    BY <2>3 DEF F
<1>4. ASSUME NEW s \in Seq(Symbol), Goto(s), Yields(s, BracketOf(Head(Top))) PROVE BracketInv'
  <2> DEFINE fs == Append(Below, s \o Tail(Top))
  <2>1. /\ frames' = fs /\ fs \in Seq(Seq(Symbol)) /\ errcount' = errcount /\ mode' # "recover"
        /\ SubSeq(src', 1, pos' - 1) = SubSeq(src, 1, pos - 1)
    BY <1>1, <1>3, <1>4 DEF Goto
  <2>2. OpenBehind(Open, Brackets(s)) = Bracket(Open, BracketOf(Head(Top)))
    BY <1>2, <1>4 DEF Yields
  <2>3. OpenBehind(Open, Pending(fs))
          = OpenBehind(OpenBehind(OpenBehind(Open, Brackets(s)), Brackets(Tail(Top))), Pending(Below))
    BY <1>1, <1>2, OpenTop
  <2> HIDE DEF fs
  <2> QED
    BY <1>2, <2>1, <2>2, <2>3, StillBalanced DEF Open
<1>5. ASSUME NEW s \in Seq(Symbol), Advance(s),
             Yields(<<Consume(Tok)>> \o s, BracketOf(Head(Top)))
      PROVE  BracketInv'
  <2> DEFINE fs == Append(Below, s \o Tail(Top))
             w == SubSeq(src, 1, pos)
             c == <<Consume(Tok)>>
  <2>1. AdvanceIn("parse", fs) /\ fs \in Seq(Seq(Symbol))
    BY <1>1, <1>3, <1>5 DEF Advance
  <2>2. CASE mode' = "rejected"
    BY <2>2, EndKeepsBrackets DEF Outcomes
  <2>3. CASE mode' # "rejected"
    <3>1. /\ mode' # "recover" /\ errcount' = errcount /\ frames' = fs /\ pos <= Len(src)
          /\ SubSeq(src', 1, pos' - 1) = w
      BY <2>1, <2>3, ReadIs
    <3>2. w \in Words /\ OpenBehind(<<>>, w) = Bracket(Open, Tok) /\ Bracket(Open, Tok) \in Stacks
      BY <1>2, <3>1, ReadOne, BracketType
    <3>3. OpenBehind(Open, Brackets(c \o s)) = Bracket(Open, BracketOf(Head(Top)))
      BY <1>2, <1>5 DEF Yields
    <3>4. Brackets(c \o s) = <<Tok>> \o Brackets(s)
      <4>1. c \in Seq({Consume(Tok)})
        OBVIOUS
      <4>2. Brackets(c) = <<Tok>>
        BY BracketsOne, BracketsOf
      <4> HIDE DEF c
      <4> QED
        BY <4>1, <4>2, BracketsBoth
    <3>5. OpenBehind(Open, <<Tok>> \o Brackets(s)) = OpenBehind(Bracket(Open, Tok), Brackets(s))
      <4> DEFINE U == {BracketOf(x) : x \in Symbol}
                 b == Brackets(s)
                 t == <<Tok>>
      <4>1. t \in Seq({Tok}) /\ b \in Seq(U)
        BY BracketsAre
      <4>2. OpenBehind(Open, t) = Bracket(Open, Tok)
        BY <1>2, OpenBehindOne
      <4> HIDE DEF U, b, t
      <4>3. OpenBehind(Open, t \o b) = OpenBehind(OpenBehind(Open, t), b)
        BY <1>2, <4>1, OpenBehindBoth
      <4> USE DEF b, t
      <4> QED
        BY <4>2, <4>3
    <3>6. OpenBehind(Bracket(Open, Tok), Pending(fs))
            = OpenBehind(OpenBehind(OpenBehind(Bracket(Open, Tok), Brackets(s)), Brackets(Tail(Top))),
                         Pending(Below))
      BY <1>1, <3>2, OpenTop
    <3> HIDE DEF fs, w, c
    <3> QED
      BY <2>1, <3>1, <3>2, <3>3, <3>4, <3>5, <3>6, StillBalanced
  <2> QED
    BY <2>2, <2>3
<1> QED
  BY <1>4, <1>5 DEF BracketStep

-----------------------------------------------------------------------------
(* The rules                                                               *)

LEMMA QuietIs ==
  ASSUME NEW x PROVE /\ Quiet(x) <=> BracketOf(x) \notin BracketKinds
                     /\ x.do \in QuietNames => Quiet(x)
<1>1. x.do \in QuietNames => BracketOf(x) = ""
  BY DEF QuietNames, RuleNames, BracketOf
<1> QED
  BY <1>1 DEF Quiet, BracketKinds

LEMMA SilentRule == ASSUME NEW r \in QuietNames PROVE Rule(r) \in Silent
<1>1. r \in RuleNames \/ r = "program"
  BY DEF QuietNames
<1>2. Rule(r) \in Symbol
  BY <1>1, PlainRule DEF Symbol
<1>3. Quiet(Rule(r))
  BY QuietIs, Dos
<1> QED
  BY <1>2, <1>3 DEF Silent

LEMMA SilentConsume == ASSUME NEW k \in TokenKinds \ BracketKinds PROVE Consume(k) \in Silent
BY PlainConsume, BracketsOf DEF Silent, Quiet, Symbol

LEMMA BracketStepGoto ==
  ASSUME NEW s \in Seq(Symbol), Goto(s), Yields(s, BracketOf(Head(Top))) PROVE BracketStep
BY DEF BracketStep

LEMMA BracketStepAdvance ==
  ASSUME NEW s \in Seq(Symbol), Advance(s), Yields(<<Consume(Tok)>> \o s, BracketOf(Head(Top)))
  PROVE  BracketStep
BY DEF BracketStep

\* Symbols without a bracket in place of one without.
LEMMA GotoQuiet ==
  ASSUME NEW s \in Seq(Silent), Goto(s), Quiet(Head(Top)) PROVE BracketStep
<1>1. s \in Seq(Symbol) /\ \A i \in 1..Len(s) : Quiet(s[i])
  BY DEF Silent
<1> QED
  BY <1>1, YieldsNone, BracketStepGoto DEF Quiet

\* the token read and the symbols behind it
LEMMA TokenBefore ==
  ASSUME NEW s \in Seq(Symbol)
  PROVE  LET r == <<Consume(Tok)>> \o s IN
         /\ r \in Seq(Symbol \cup {Consume(Tok)}) /\ Len(r) = Len(s) + 1 /\ Len(s) \in Nat
         /\ r[1] = Consume(Tok) /\ \A i \in 2..Len(r) : i - 1 \in 1..Len(s) /\ r[i] = s[i - 1]
<1> DEFINE c == Consume(Tok)
           S == Symbol \cup {c}
           t == <<c>>
           r == t \o s
<1>1. t \in Seq(S) /\ s \in Seq(S) /\ Len(t) = 1 /\ t[1] = c /\ Len(s) \in Nat
  OBVIOUS
<1> HIDE DEF S, t
<1>2. r \in Seq(S)
  BY <1>1
<1>3. /\ Len(r) = Len(t) + Len(s) /\ (\A i \in 1..Len(t) : r[i] = t[i])
      /\ \A i \in 1..Len(s) : r[Len(t) + i] = s[i]
  BY <1>1, Concatenated
<1> HIDE DEF r
<1>4. ASSUME NEW i \in 2..Len(r) PROVE i - 1 \in 1..Len(s) /\ r[i] = s[i - 1]
  <2>1. i - 1 \in 1..Len(s) /\ i = 1 + (i - 1)
    BY <1>1, <1>3
  <2> QED
    BY <1>1, <1>3, <2>1
<1> QED
  BY <1>1, <1>2, <1>3, <1>4 DEF S, r, t

LEMMA AdvanceQuiet ==
  ASSUME NEW s \in Seq(Silent), Advance(s), Tok \notin BracketKinds, Quiet(Head(Top))
  PROVE  BracketStep
<1> DEFINE r == <<Consume(Tok)>> \o s
<1>1. s \in Seq(Symbol) /\ \A i \in 1..Len(s) : Quiet(s[i])
  BY DEF Silent
<1>2. Quiet(Consume(Tok))
  BY BracketsOf DEF Quiet
<1>3. r \in Seq(Symbol \cup {Consume(Tok)}) /\ \A i \in 1..Len(r) : Quiet(r[i])
  BY <1>1, <1>2, TokenBefore
<1> HIDE DEF r
<1>4. Yields(r, BracketOf(Head(Top)))
  BY <1>3, YieldsNone DEF Quiet
<1> QED
  BY <1>1, <1>4, BracketStepAdvance DEF r

\* The bracket the rule stood for is read.
LEMMA AdvanceSame ==
  ASSUME NEW s \in Seq(Silent), Advance(s), Tok = BracketOf(Head(Top))
  PROVE  BracketStep
<1> DEFINE r == <<Consume(Tok)>> \o s
<1>1. s \in Seq(Symbol) /\ \A i \in 1..Len(s) : Quiet(s[i])
  BY DEF Silent
<1>2. /\ r \in Seq(Symbol \cup {Consume(Tok)}) /\ 1 \in 1..Len(r) /\ r[1] = Consume(Tok)
      /\ \A i \in 1..Len(r) : i # 1 => Quiet(r[i])
  BY <1>1, TokenBefore
<1> HIDE DEF r
<1>3. Yields(r, BracketOf(r[1]))
  BY <1>2, YieldsOne
<1>4. BracketOf(r[1]) = BracketOf(Head(Top))
  BY <1>2, BracketsOf
<1> QED
  BY <1>1, <1>3, <1>4, BracketStepAdvance DEF r

\* A rule goes on, and leaves its bracket to what comes last.
LEMMA GotoLast ==
  ASSUME NEW a \in Silent, NEW b \in Symbol, BracketOf(b) = BracketOf(Head(Top)),
         Goto(<<a, b>>) \/ Goto(<<b>>)
  PROVE  BracketStep
<1>1. CASE Goto(<<a, b>>)
  <2> DEFINE s == <<a, b>>
  <2>1. s \in Seq(Symbol) /\ 2 \in 1..Len(s) /\ s[2] = b /\ \A i \in 1..Len(s) : i # 2 => Quiet(s[i])
    BY DEF Silent
  <2> HIDE DEF s
  <2>2. Yields(s, BracketOf(s[2]))
    BY <2>1, YieldsOne
  <2> QED
    BY <1>1, <2>1, <2>2, BracketStepGoto DEF s
<1>2. CASE Goto(<<b>>)
  <2> DEFINE s == <<b>>
  <2>1. s \in Seq(Symbol) /\ 1 \in 1..Len(s) /\ s[1] = b /\ \A i \in 1..Len(s) : i # 1 => Quiet(s[i])
    OBVIOUS
  <2> HIDE DEF s
  <2>2. Yields(s, BracketOf(s[1]))
    BY <2>1, YieldsOne
  <2> QED
    BY <1>2, <2>1, <2>2, BracketStepGoto DEF s
<1> QED
  BY <1>1, <1>2

LEMMA AdvanceLast ==
  ASSUME NEW b \in Symbol, BracketOf(b) = BracketOf(Head(Top)), Tok \notin BracketKinds,
         Advance(<<b>>)
  PROVE  BracketStep
<1> DEFINE s == <<b>>
           r == <<Consume(Tok)>> \o s
<1>1. s \in Seq(Symbol) /\ Len(s) = 1 /\ s[1] = b
  OBVIOUS
<1>2. Quiet(Consume(Tok))
  BY BracketsOf DEF Quiet
<1> HIDE DEF s
<1>3. /\ r \in Seq(Symbol \cup {Consume(Tok)}) /\ Len(r) = Len(s) + 1 /\ r[1] = Consume(Tok)
      /\ \A i \in 2..Len(r) : r[i] = s[i - 1]
  BY <1>1, TokenBefore
<1> HIDE DEF r
<1>4. Len(r) = 2 /\ r[2] = b
  BY <1>1, <1>3
<1>5. 2 \in 1..Len(r) /\ \A i \in 1..Len(r) : i # 2 => Quiet(r[i])
  <2>1. r[1] = Consume(Tok)
    BY <1>3
  <2>2. \A i \in 1..Len(r) : i # 2 => i = 1
    BY <1>4
  <2> QED
    BY <1>2, <1>4, <2>1, <2>2
<1>6. Yields(r, BracketOf(r[2]))
  BY <1>3, <1>5, YieldsOne
<1> QED
  BY <1>1, <1>6, <1>4, BracketStepAdvance DEF r, s

\* An opening bracket is read, and its partner waited for.
LEMMA AdvanceOpens ==
  ASSUME NEW a \in Silent, NEW b \in Symbol,
         BracketOf(b) \in {"RPAREN", "RBRACE", "RBRACKET"}, Tok = Opener[BracketOf(b)],
         Quiet(Head(Top)), Advance(<<a, b>>) \/ Advance(<<b>>)
  PROVE  BracketStep
<1>1. BracketOf(Consume(Tok)) = Opener[BracketOf(b)]
  BY BracketsOf
<1>2. CASE Advance(<<a, b>>)
  <2> DEFINE s == <<a, b>>
             r == <<Consume(Tok)>> \o s
  <2>1. s \in Seq(Symbol) /\ Len(s) = 2 /\ s[1] = a /\ s[2] = b /\ Quiet(a)
    BY DEF Silent
  <2> HIDE DEF s
  <2>2. /\ r \in Seq(Symbol \cup {Consume(Tok)}) /\ Len(r) = Len(s) + 1 /\ r[1] = Consume(Tok)
        /\ \A i \in 2..Len(r) : r[i] = s[i - 1]
    BY <2>1, TokenBefore
  <2> HIDE DEF r
  <2>3. r \in Seq(Symbol \cup {Consume(Tok)}) /\ Len(r) = 3 /\ r[1] = Consume(Tok) /\ r[2] = a /\ r[3] = b
    BY <2>1, <2>2
  <2>4. 1 \in 1..Len(r) /\ 3 \in 1..Len(r) /\ \A i \in 1..Len(r) : i # 1 /\ i # 3 => Quiet(r[i])
    BY <2>1, <2>3
  <2>5. Yields(r, BracketOf(Head(Top)))
    BY <1>1, <2>3, <2>4, YieldsPair DEF Quiet
  <2> QED
    BY <1>2, <2>1, <2>5, BracketStepAdvance DEF r, s
<1>3. CASE Advance(<<b>>)
  <2> DEFINE s == <<b>>
             r == <<Consume(Tok)>> \o s
  <2>1. s \in Seq(Symbol) /\ Len(s) = 1 /\ s[1] = b
    OBVIOUS
  <2> HIDE DEF s
  <2>2. /\ r \in Seq(Symbol \cup {Consume(Tok)}) /\ Len(r) = Len(s) + 1 /\ r[1] = Consume(Tok)
        /\ \A i \in 2..Len(r) : r[i] = s[i - 1]
    BY <2>1, TokenBefore
  <2> HIDE DEF r
  <2>3. r \in Seq(Symbol \cup {Consume(Tok)}) /\ Len(r) = 2 /\ r[1] = Consume(Tok) /\ r[2] = b
    BY <2>1, <2>2
  <2>4. 1 \in 1..Len(r) /\ 2 \in 1..Len(r) /\ \A i \in 1..Len(r) : i # 1 /\ i # 2 => Quiet(r[i])
    BY <2>3
  <2>5. Yields(r, BracketOf(Head(Top)))
    BY <1>1, <2>3, <2>4, YieldsPair DEF Quiet
  <2> QED
    BY <1>3, <2>1, <2>5, BracketStepAdvance DEF r, s
<1> QED
  BY <1>2, <1>3

LEMMA SilentSymbols ==
  /\ StatementSymbols \subseteq Silent
  /\ Rule("decl") \in Silent /\ Rule("program") \in Silent /\ Rule("stmt") \in Silent
  /\ Rule("block") \in Silent /\ Rule("param") \in Silent /\ Rule("type") \in Silent
  /\ Rule("proc_body") \in Silent /\ Rule("expr") \in Silent /\ Rule("unary") \in Silent
  /\ Rule("binop_tail") \in Silent /\ Rule("assign_tail") \in Silent
  /\ Rule("primary") \in Silent /\ Rule("call_tail") \in Silent
  /\ Rule("index_tail") \in Silent /\ Rule("exprstmt") \in Silent
  /\ Consume("KW_PROC") \in Silent /\ Consume("KW_TABLE") \in Silent
  /\ Consume("LITERAL_IDENT") \in Silent /\ Consume("COLON") \in Silent
  /\ Consume("ASSIGN") \in Silent /\ Consume("SEMICOLON") \in Silent
<1>1. /\ Rule("decl") \in Silent /\ Rule("program") \in Silent /\ Rule("stmt") \in Silent
      /\ Rule("block") \in Silent /\ Rule("param") \in Silent /\ Rule("type") \in Silent
      /\ Rule("proc_body") \in Silent /\ Rule("expr") \in Silent /\ Rule("unary") \in Silent
      /\ Rule("binop_tail") \in Silent /\ Rule("assign_tail") \in Silent
      /\ Rule("primary") \in Silent /\ Rule("call_tail") \in Silent
      /\ Rule("index_tail") \in Silent /\ Rule("exprstmt") \in Silent
  BY SilentRule DEF QuietNames, RuleNames
<1>2. /\ Consume("KW_PROC") \in Silent /\ Consume("KW_TABLE") \in Silent
      /\ Consume("LITERAL_IDENT") \in Silent /\ Consume("COLON") \in Silent
      /\ Consume("ASSIGN") \in Silent /\ Consume("SEMICOLON") \in Silent
  BY SilentConsume DEF TokenKinds, Literals, BracketKinds
<1>3. /\ Consume("COMMA") \in Silent /\ Consume("KW_VARDECL") \in Silent
      /\ Consume("KW_IF") \in Silent /\ Consume("KW_WHILE") \in Silent
      /\ Consume("KW_FOR") \in Silent /\ Consume("KW_RETURN") \in Silent
  BY SilentConsume DEF TokenKinds, Literals, BracketKinds
<1>4. Rule("vardecl_init") \in Silent /\ Rule("else_tail") \in Silent
  BY SilentRule DEF QuietNames, RuleNames
<1> QED
  BY <1>1, <1>2, <1>3, <1>4 DEF StatementSymbols

LEMMA SilentWords ==
  /\ <<>> \in Seq(Silent)
  /\ \A a \in Silent : <<a>> \in Seq(Silent)
  /\ \A a, b \in Silent : <<a, b>> \in Seq(Silent)
  /\ \A a, b, c \in Silent : <<a, b, c>> \in Seq(Silent)
OBVIOUS

\* the brackets of the symbols that have one
LEMMA BracketsOfRules ==
  /\ \A n : BracketOf(Counting("params", n)) = "RPAREN" /\ BracketOf(Counting("param_stored", n)) = "RPAREN"
  /\ \A n : BracketOf(Counting("fields", n)) = "RBRACE" /\ BracketOf(Counting("field_stored", n)) = "RBRACE"
  /\ BracketOf(Rule("args")) = "RPAREN" /\ BracketOf(Rule("args_sep")) = "RPAREN"
  /\ BracketOf(Rule("values")) = "RBRACKET" /\ BracketOf(Rule("values_sep")) = "RBRACKET"
  /\ BracketOf(Rule("grouping")) = "RPAREN" /\ BracketOf(Rule("stmts")) = "RBRACE"
  /\ \A x : /\ x.do = "consume" => BracketOf(x) = x.kind
            /\ x.do \in {"params", "param_stored", "args", "args_sep", "grouping"} => BracketOf(x) = "RPAREN"
            /\ x.do \in {"fields", "field_stored", "stmts"} => BracketOf(x) = "RBRACE"
            /\ x.do \in {"values", "values_sep"} => BracketOf(x) = "RBRACKET"
<1>1. \A n : BracketOf(Counting("params", n)) = "RPAREN" /\ BracketOf(Counting("param_stored", n)) = "RPAREN"
  BY DEF BracketOf, Counting
<1>2. \A n : BracketOf(Counting("fields", n)) = "RBRACE" /\ BracketOf(Counting("field_stored", n)) = "RBRACE"
  BY DEF BracketOf, Counting
<1>3. /\ BracketOf(Rule("args")) = "RPAREN" /\ BracketOf(Rule("args_sep")) = "RPAREN"
      /\ BracketOf(Rule("values")) = "RBRACKET" /\ BracketOf(Rule("values_sep")) = "RBRACKET"
      /\ BracketOf(Rule("grouping")) = "RPAREN" /\ BracketOf(Rule("stmts")) = "RBRACE"
  BY DEF BracketOf, Rule
<1>4. \A x : /\ x.do = "consume" => BracketOf(x) = x.kind
             /\ x.do \in {"params", "param_stored", "args", "args_sep", "grouping"} => BracketOf(x) = "RPAREN"
             /\ x.do \in {"fields", "field_stored", "stmts"} => BracketOf(x) = "RBRACE"
             /\ x.do \in {"values", "values_sep"} => BracketOf(x) = "RBRACKET"
  BY DEF BracketOf
<1> QED
  BY <1>1, <1>2, <1>3, <1>4

\* The turn of a rule without bracket.
LEMMA QuietTurn ==
  ASSUME Head(Top).do \in QuietNames,
         \E s \in Seq(Silent) : Goto(s) \/ (Tok \notin BracketKinds /\ Advance(s))
  PROVE  BracketStep
BY QuietIs, GotoQuiet, AdvanceQuiet

\* a rule ends its turn so, or reports an error, or the parser ends
Turn == BracketStep \/ Sync \/ mode' \in {"rejected", "undefined"}

LEMMA ConsumeTurn == ASSUME IInv, ParserConsume PROVE Turn
<1>1. Head(Top).do = "consume" /\ BracketOf(Head(Top)) = Head(Top).kind
  BY BracketsOfRules DEF ParserConsume, At
<1>2. CASE Sync
  BY <1>2 DEF Turn
<1>3. CASE Advance(<<>>) /\ Tok = Head(Top).kind
  BY <1>1, <1>3, SilentWords, AdvanceSame DEF Turn
<1>4. CASE Advance(<<>>) /\ Tok = "EOF"
  BY <1>4 DEF Advance, AdvanceIn, Finish, Turn
<1> QED
  BY <1>2, <1>3, <1>4 DEF ParserConsume, On, Otherwise

LEMMA ProcBodyTurn == ASSUME ProcBody PROVE Turn
<1>1. Head(Top).do \in QuietNames
  BY DEF ProcBody, At, QuietNames, RuleNames
<1>2. <<Rule("block")>> \in Seq(Silent) /\ <<>> \in Seq(Silent)
  BY SilentSymbols, SilentWords
<1>3. Goto(<<Rule("block")>>) \/ (Tok \notin BracketKinds /\ Advance(<<>>))
  BY DEF ProcBody, On, Otherwise, BracketKinds
<1> QED
  BY <1>1, <1>2, <1>3, QuietTurn DEF Turn

LEMMA ParamTurn == ASSUME Param PROVE Turn
<1>1. Head(Top).do \in QuietNames
  BY DEF Param, At, QuietNames, RuleNames
<1>2. <<Consume("LITERAL_IDENT"), Consume("COLON"), Rule("type")>> \in Seq(Silent)
  BY SilentSymbols, SilentWords
<1> QED
  BY <1>1, <1>2, QuietTurn DEF Turn, Param

LEMMA BinopTailTurn == ASSUME BinopTail PROVE Turn
<1>1. Head(Top).do \in QuietNames
  BY DEF BinopTail, At, QuietNames, RuleNames
<1>2. <<Rule("unary"), Rule("binop_tail")>> \in Seq(Silent) /\ <<>> \in Seq(Silent)
  BY SilentSymbols, SilentWords
<1>3. Goto(<<>>) \/ (Tok \notin BracketKinds /\ Advance(<<Rule("unary"), Rule("binop_tail")>>))
  BY DEF BinopTail, On, Otherwise, BracketKinds, BinaryOps
<1> QED
  BY <1>1, <1>2, <1>3, QuietTurn DEF Turn

LEMMA UnaryTurn == ASSUME Unary PROVE Turn
<1>1. Head(Top).do \in QuietNames
  BY DEF Unary, At, QuietNames, RuleNames
<1>2. Postfix \in Seq(Silent)
  BY SilentSymbols, SilentWords DEF Postfix
<1>3. Goto(Postfix) \/ (Tok \notin BracketKinds /\ Advance(Postfix))
  BY DEF Unary, On, Otherwise, BracketKinds, UnaryOps
<1> QED
  BY <1>1, <1>2, <1>3, QuietTurn DEF Turn

LEMMA AssignmentSilent == Assignment \in Seq(Silent)
BY SilentSymbols, SilentWords DEF Assignment

LEMMA AssignTailTurn == ASSUME AssignTail PROVE Turn
<1>1. Head(Top).do \in QuietNames
  BY DEF AssignTail, At, QuietNames, RuleNames
<1>2. Goto(<<>>) \/ (Tok \notin BracketKinds /\ Advance(Assignment))
  BY DEF AssignTail, On, Otherwise, BracketKinds
<1> QED
  BY <1>1, <1>2, AssignmentSilent, SilentWords, QuietTurn DEF Turn

LEMMA ExprStmtTurn == ASSUME ExprStmt PROVE Turn
<1>1. Head(Top).do \in QuietNames
  BY DEF ExprStmt, At, QuietNames, RuleNames
<1>2. <<Rule("expr"), Consume("SEMICOLON")>> \in Seq(Silent) /\ <<>> \in Seq(Silent)
  BY SilentSymbols, SilentWords
<1>3. Goto(<<Rule("expr"), Consume("SEMICOLON")>>) \/ (Tok \notin BracketKinds /\ Advance(<<>>))
  BY DEF ExprStmt, On, Otherwise, BracketKinds
<1> QED
  BY <1>1, <1>2, <1>3, QuietTurn DEF Turn

LEMMA VarDeclInitTurn == ASSUME VarDeclInit PROVE Turn
<1> DEFINE init == <<Consume("ASSIGN"), Rule("expr"), Consume("SEMICOLON")>>
<1>1. Head(Top).do \in QuietNames
  BY DEF VarDeclInit, At, QuietNames, RuleNames
<1>2. init \in Seq(Silent) /\ <<>> \in Seq(Silent)
  BY SilentSymbols, SilentWords
<1>3. Goto(init) \/ (Tok \notin BracketKinds /\ Advance(<<>>))
  BY DEF VarDeclInit, On, Otherwise, BracketKinds
<1> HIDE DEF init
<1> QED
  BY <1>1, <1>2, <1>3, QuietTurn DEF Turn

LEMMA ElseTailTurn == ASSUME ElseTail PROVE Turn
<1>1. Head(Top).do \in QuietNames
  BY DEF ElseTail, At, QuietNames, RuleNames
<1>2. <<Rule("block")>> \in Seq(Silent) /\ <<>> \in Seq(Silent)
  BY SilentSymbols, SilentWords
<1>3. Goto(<<>>) \/ (Tok \notin BracketKinds /\ Advance(<<Rule("block")>>))
  BY DEF ElseTail, On, Otherwise, BracketKinds
<1> QED
  BY <1>1, <1>2, <1>3, QuietTurn DEF Turn

LEMMA RuleStmtTurn == ASSUME RuleStmt PROVE Turn
<1>1. Head(Top).do \in QuietNames
  BY DEF RuleStmt, At, QuietNames, RuleNames
<1>2. <<Rule("exprstmt")>> \in Seq(Silent)
  BY SilentSymbols, SilentWords
<1>3. CASE Goto(<<Rule("exprstmt")>>)
  BY <1>1, <1>2, <1>3, QuietTurn DEF Turn
<1>4. CASE Tok \in DOMAIN Statement /\ Goto(Statement[Tok])
  <2>1. Statement[Tok] \in Seq(Silent)
    BY <1>4, SilentSymbols, StatementOf
  <2> QED
    BY <1>1, <1>4, <2>1, QuietTurn DEF Turn
<1> QED
  BY <1>3, <1>4 DEF RuleStmt, On, Otherwise

LEMMA RuleProgramTurn == ASSUME RuleProgram PROVE Turn \/ Finish("accepted")
<1>1. Head(Top).do \in QuietNames
  BY DEF RuleProgram, At, QuietNames, RuleNames
<1>2. <<Rule("decl"), Rule("program")>> \in Seq(Silent)
  BY SilentSymbols, SilentWords
<1>3. CASE Goto(<<Rule("decl"), Rule("program")>>)
  BY <1>1, <1>2, <1>3, QuietTurn DEF Turn
<1>4. CASE Finish("rejected")
  BY <1>4 DEF Finish, Turn
<1> QED
  BY <1>3, <1>4 DEF RuleProgram, On, Otherwise

\* A list: its bracket is read, or its loop goes on.
LEMMA ListTurn ==
  ASSUME NEW b \in Symbol, BracketOf(b) = BracketOf(Head(Top)), NEW a \in Silent,
         Goto(<<a, b>>) \/ Goto(<<b>>) \/ (Tok = "COMMA" /\ Advance(<<b>>))
  PROVE  Turn
<1>1. "COMMA" \notin BracketKinds
  BY DEF BracketKinds
<1>2. CASE Tok = "COMMA" /\ Advance(<<b>>)
  BY <1>1, <1>2, AdvanceLast DEF Turn
<1>3. CASE Goto(<<a, b>>) \/ Goto(<<b>>)
  BY <1>3, GotoLast DEF Turn
<1> QED
  BY <1>2, <1>3

LEMMA CloseTurn ==
  ASSUME NEW s \in Seq(Silent), Tok = BracketOf(Head(Top)), Advance(s) PROVE Turn
BY AdvanceSame DEF Turn

\* the symbols with a bracket
LEMMA SymbolsWith ==
  /\ \A r \in {"args", "args_sep", "values", "values_sep", "grouping"} : Rule(r) \in Symbol
  /\ Rule("stmts") \in Symbol
  /\ \A k \in BracketKinds : Consume(k) \in Symbol
  /\ \A n \in Nat : Counting("fields", n) \in Symbol /\ Counting("field_stored", n) \in Symbol
  /\ \A n \in Nat : n < MAX_PARAM_COUNT =>
       Counting("params", n) \in Symbol /\ Counting("param_stored", n) \in Symbol
<1>1. \A r \in {"args", "args_sep", "values", "values_sep", "grouping"} : Rule(r) \in Symbol
  BY PlainRule DEF Symbol, RuleNames
<1>2. \A k \in BracketKinds : Consume(k) \in Symbol
  BY PlainConsume DEF Symbol, TokenKinds, BracketKinds
<1>3. \A n \in Nat : Counting("fields", n) \in Symbol /\ Counting("field_stored", n) \in Symbol
  BY PlainFields DEF Symbol, FieldLoops
<1>4. \A n \in Nat : n < MAX_PARAM_COUNT =>
        Counting("params", n) \in Symbol /\ Counting("param_stored", n) \in Symbol
  BY PlainParams DEF Symbol, ParamLoops
<1> QED
  BY <1>1, <1>2, <1>3, <1>4 DEF Symbol

LEMMA ParamsTurn == ASSUME IInv, Params PROVE Turn
<1> DEFINE b == Counting("param_stored", Head(Top).n)
           a == Rule("param")
<1>1. Head(Top).do = "params"
  BY DEF Params, At
<1>2. Head(Top).n \in Nat /\ Head(Top).n < MAX_PARAM_COUNT
  <2>1. Head(Top) \in Plain
    BY <1>1, HeadPlain DEF IInv, Loops
  <2> QED
    BY <1>1, <2>1 DEF Plain, ParamLoops
<1>3. BracketOf(Head(Top)) = "RPAREN" /\ BracketOf(b) = "RPAREN" /\ b \in Symbol /\ a \in Silent
  BY <1>1, <1>2, BracketsOfRules, SymbolsWith, SilentSymbols
<1>4. Goto(<<a, b>>) \/ (Tok = "RPAREN" /\ Advance(<<>>))
  BY DEF Params, On, Otherwise
<1> HIDE DEF a, b
<1> QED
  BY <1>3, <1>4, ListTurn, CloseTurn, SilentWords

LEMMA ParamStoredTurn == ASSUME IInv, ParamStored PROVE Turn
<1> DEFINE count == Head(Top).n + 1
           b == Counting("params", count)
<1>1. Head(Top).do = "param_stored"
  BY DEF ParamStored, At
<1>2. Head(Top).n \in Nat
  <2>1. Head(Top) \in Plain
    BY <1>1, HeadPlain DEF IInv, Loops
  <2> QED
    BY <2>1 DEF Plain
<1>3. CASE Sync
  BY <1>3 DEF Turn
<1>4. CASE ~ParamLimitReached(count) /\ (Goto(<<b>>) \/ (Tok = "COMMA" /\ Advance(<<b>>)))
  <2>1. count \in Nat /\ count < MAX_PARAM_COUNT
    BY <1>2, <1>4, CapacityAssumption DEF ParamLimitReached
  <2> HIDE DEF count
  <2>2. BracketOf(Head(Top)) = "RPAREN" /\ BracketOf(b) = "RPAREN" /\ b \in Symbol
        /\ Rule("param") \in Silent
    BY <1>1, <2>1, BracketsOfRules, SymbolsWith, SilentSymbols
  <2> HIDE DEF b
  <2> QED
    BY <1>4, <2>2, ListTurn
<1> QED
  BY <1>3, <1>4 DEF ParamStored, On, Otherwise

LEMMA FieldsTurn == ASSUME IInv, Fields PROVE Turn
<1> DEFINE b == Counting("field_stored", Head(Top).n)
           a == Rule("param")
<1>1. Head(Top).do = "fields"
  BY DEF Fields, At
<1>2. Head(Top).n \in Nat
  <2>1. Head(Top) \in Plain
    BY <1>1, HeadPlain DEF IInv, Loops
  <2> QED
    BY <2>1 DEF Plain
<1>3. BracketOf(Head(Top)) = "RBRACE" /\ BracketOf(b) = "RBRACE" /\ b \in Symbol /\ a \in Silent
  BY <1>1, <1>2, BracketsOfRules, SymbolsWith, SilentSymbols
<1>4. Goto(<<a, b>>) \/ (Tok = "RBRACE" /\ Advance(<<>>))
  BY DEF Fields, On, Otherwise
<1> HIDE DEF a, b
<1> QED
  BY <1>3, <1>4, ListTurn, CloseTurn, SilentWords

LEMMA FieldStoredTurn == ASSUME IInv, FieldStored PROVE Turn
<1> DEFINE count == Head(Top).n + 1
           b == Counting("fields", count)
<1>1. Head(Top).do = "field_stored"
  BY DEF FieldStored, At
<1>2. Head(Top).n \in Nat
  <2>1. Head(Top) \in Plain
    BY <1>1, HeadPlain DEF IInv, Loops
  <2> QED
    BY <2>1 DEF Plain
<1>3. CASE Finish("undefined")
  BY <1>3 DEF Finish, Turn
<1>4. CASE Goto(<<b>>) \/ (Tok = "COMMA" /\ Advance(<<b>>))
  <2>1. count \in Nat
    BY <1>2
  <2> HIDE DEF count
  <2>2. BracketOf(Head(Top)) = "RBRACE" /\ BracketOf(b) = "RBRACE" /\ b \in Symbol
        /\ Rule("param") \in Silent
    BY <1>1, <2>1, BracketsOfRules, SymbolsWith, SilentSymbols
  <2> HIDE DEF b
  <2> QED
    BY <1>4, <2>2, ListTurn
<1> QED
  BY <1>3, <1>4 DEF FieldStored, On, Otherwise

LEMMA ArgsTurn == ASSUME Args PROVE Turn
<1> DEFINE a == Rule("expr")
           b == Rule("args_sep")
           c == Rule("args")
<1>1. a \in Silent /\ b \in Symbol /\ c \in Symbol
      /\ BracketOf(b) = "RPAREN" /\ BracketOf(c) = "RPAREN"
  BY BracketsOfRules, SymbolsWith, SilentSymbols
<1>2. BracketOf(Head(Top)) = "RPAREN"
  BY BracketsOfRules DEF Args, ListLoop, At
<1>3. \/ Goto(<<a, b>>) \/ (Tok = "RPAREN" /\ Advance(<<>>))
      \/ Goto(<<c>>) \/ (Tok = "COMMA" /\ Advance(<<c>>))
  BY DEF Args, ListLoop, On, Otherwise
<1> HIDE DEF a, b, c
<1> QED
  BY <1>1, <1>2, <1>3, ListTurn, CloseTurn, SilentWords

LEMMA ValuesTurn == ASSUME Values PROVE Turn
<1> DEFINE a == Rule("expr")
           b == Rule("values_sep")
           c == Rule("values")
           t == <<Rule("type")>>
<1>1. a \in Silent /\ b \in Symbol /\ c \in Symbol /\ t \in Seq(Silent)
      /\ BracketOf(b) = "RBRACKET" /\ BracketOf(c) = "RBRACKET"
  BY BracketsOfRules, SymbolsWith, SilentSymbols, SilentWords
<1>2. BracketOf(Head(Top)) = "RBRACKET"
  BY BracketsOfRules DEF Values, ListLoop, At
<1>3. \/ Goto(<<a, b>>) \/ (Tok = "RBRACKET" /\ Advance(t))
      \/ Goto(<<c>>) \/ (Tok = "COMMA" /\ Advance(<<c>>))
  BY DEF Values, ListLoop, On, Otherwise
<1> HIDE DEF a, b, c, t
<1> QED
  BY <1>1, <1>2, <1>3, ListTurn, CloseTurn

LEMMA GroupingTurn == ASSUME Grouping PROVE Turn
<1> DEFINE a == Rule("expr")
           b == Consume("RPAREN")
<1>1. a \in Silent /\ b \in Symbol /\ BracketOf(b) = "RPAREN"
  BY BracketsOf, SymbolsWith, SilentSymbols DEF BracketKinds
<1>2. BracketOf(Head(Top)) = "RPAREN"
  BY BracketsOfRules DEF Grouping, At
<1>3. Goto(<<a, b>>) \/ Sync
  BY DEF Grouping, On, Otherwise
<1> HIDE DEF a, b
<1> QED
  BY <1>1, <1>2, <1>3, ListTurn DEF Turn

\* the opening bracket of each closing one
LEMMA OpenerIs ==
  Opener["RPAREN"] = "LPAREN" /\ Opener["RBRACE"] = "LBRACE" /\ Opener["RBRACKET"] = "LBRACKET"
BY DEF Opener

LEMMA RuleExprTurn == ASSUME RuleExpr PROVE Turn
<1> DEFINE b == Rule("values")
<1>1. Head(Top).do \in QuietNames
  BY DEF RuleExpr, At, QuietNames, RuleNames
<1>2. b \in Symbol /\ BracketOf(b) = "RBRACKET" /\ Rule("expr") \in Silent
  BY BracketsOfRules, SymbolsWith, SilentSymbols
<1>3. Goto(Assignment) \/ (Tok = "LBRACKET" /\ Advance(<<b>>))
  BY DEF RuleExpr, On, Otherwise
<1> HIDE DEF b
<1>4. CASE Goto(Assignment)
  BY <1>1, <1>4, AssignmentSilent, QuietTurn DEF Turn
<1>5. CASE Tok = "LBRACKET" /\ Advance(<<b>>)
  BY <1>1, <1>2, <1>5, QuietIs, OpenerIs, AdvanceOpens DEF Turn
<1> QED
  BY <1>3, <1>4, <1>5

LEMMA PrimaryTurn == ASSUME Primary PROVE Turn
<1> DEFINE b == Rule("grouping")
<1>1. Head(Top).do \in QuietNames
  BY DEF Primary, At, QuietNames, RuleNames
<1>2. b \in Symbol /\ BracketOf(b) = "RPAREN" /\ Rule("expr") \in Silent
  BY BracketsOfRules, SymbolsWith, SilentSymbols
<1>3. Sync \/ (Tok \notin BracketKinds /\ Advance(<<>>)) \/ (Tok = "LPAREN" /\ Advance(<<b>>))
  BY DEF Primary, On, Otherwise, Literals, BracketKinds
<1> HIDE DEF b
<1>4. CASE Tok \notin BracketKinds /\ Advance(<<>>)
  BY <1>1, <1>4, SilentWords, QuietTurn DEF Turn
<1>5. CASE Tok = "LPAREN" /\ Advance(<<b>>)
  BY <1>1, <1>2, <1>5, QuietIs, OpenerIs, AdvanceOpens DEF Turn
<1> QED
  BY <1>3, <1>4, <1>5 DEF Turn

LEMMA CallTailTurn == ASSUME CallTail PROVE Turn
<1> DEFINE b == Rule("args")
<1>1. Head(Top).do \in QuietNames
  BY DEF CallTail, At, QuietNames, RuleNames
<1>2. b \in Symbol /\ BracketOf(b) = "RPAREN" /\ Rule("expr") \in Silent
  BY BracketsOfRules, SymbolsWith, SilentSymbols
<1>3. Goto(<<>>) \/ (Tok = "LPAREN" /\ Advance(<<b>>))
  BY DEF CallTail, On, Otherwise
<1> HIDE DEF b
<1>4. CASE Goto(<<>>)
  BY <1>1, <1>4, SilentWords, QuietTurn DEF Turn
<1>5. CASE Tok = "LPAREN" /\ Advance(<<b>>)
  BY <1>1, <1>2, <1>5, QuietIs, OpenerIs, AdvanceOpens DEF Turn
<1> QED
  BY <1>3, <1>4, <1>5

LEMMA IndexTailTurn == ASSUME IndexTail PROVE Turn
<1> DEFINE a == Rule("expr")
           b == Consume("RBRACKET")
<1>1. Head(Top).do \in QuietNames
  BY DEF IndexTail, At, QuietNames, RuleNames
<1>2. b \in Symbol /\ BracketOf(b) = "RBRACKET" /\ a \in Silent
  BY BracketsOf, SymbolsWith, SilentSymbols DEF BracketKinds
<1>3. Goto(<<>>) \/ (Tok = "LBRACKET" /\ Advance(<<a, b>>))
  BY DEF IndexTail, On, Otherwise
<1> HIDE DEF a, b
<1>4. CASE Goto(<<>>)
  BY <1>1, <1>4, SilentWords, QuietTurn DEF Turn
<1>5. CASE Tok = "LBRACKET" /\ Advance(<<a, b>>)
  BY <1>1, <1>2, <1>5, QuietIs, OpenerIs, AdvanceOpens DEF Turn
<1> QED
  BY <1>3, <1>4, <1>5

\* A signature opens and closes its parenthesis, whatever stands around it.
LEMMA SignatureYields ==
  ASSUME NEW front \in Seq(Silent), NEW behind \in Seq(Silent), NEW t, t \notin BracketKinds
  PROVE  LET s == front \o Signature \o behind IN s \in Seq(Symbol) /\ Yields(s, t)
<1> DEFINE sig == Signature
           f == front \o sig
           s == f \o behind
           n == Len(front)
<1>1. /\ sig \in Seq(Symbol) /\ Len(sig) = 3
      /\ BracketOf(sig[1]) = "LPAREN" /\ BracketOf(sig[2]) = "RPAREN" /\ Quiet(sig[3])
  <2>1. Consume("LPAREN") \in Symbol /\ Counting("params", 0) \in Symbol
    BY SymbolsWith, CapacityAssumption DEF BracketKinds
  <2>2. Rule("type") \in Symbol /\ Quiet(Rule("type"))
    BY SilentSymbols DEF Silent
  <2>3. BracketOf(Consume("LPAREN")) = "LPAREN" /\ BracketOf(Counting("params", 0)) = "RPAREN"
    BY BracketsOf, BracketsOfRules
  <2> QED
    BY <2>1, <2>2, <2>3 DEF Signature
<1>2. /\ front \in Seq(Symbol) /\ (\A i \in 1..n : Quiet(front[i])) /\ n \in Nat
      /\ behind \in Seq(Symbol) /\ (\A i \in 1..Len(behind) : Quiet(behind[i])) /\ Len(behind) \in Nat
  BY DEF Silent
<1> HIDE DEF sig
<1>3. f \in Seq(Symbol)
  BY <1>1, <1>2
<1>4. /\ Len(f) = n + 3 /\ (\A i \in 1..n : f[i] = front[i])
      /\ (\A i \in 1..3 : f[n + i] = sig[i])
  <2>1. /\ Len(f) = Len(front) + Len(sig) /\ (\A i \in 1..Len(front) : f[i] = front[i])
        /\ \A i \in 1..Len(sig) : f[Len(front) + i] = sig[i]
    <3>1. front \in Seq(Symbol) /\ sig \in Seq(Symbol)
      BY <1>1, <1>2
    <3> QED
      BY <3>1, Concatenated
  <2> HIDE DEF f
  <2> QED
    BY <1>1, <2>1
<1> HIDE DEF f
<1>5. s \in Seq(Symbol)
  BY <1>2, <1>3
<1>6. /\ Len(s) = Len(f) + Len(behind) /\ (\A i \in 1..Len(f) : s[i] = f[i])
      /\ \A i \in 1..Len(behind) : s[Len(f) + i] = behind[i]
  BY <1>2, <1>3, Concatenated
<1> HIDE DEF s, n
<1>7. n + 1 \in 1..Len(s) /\ n + 2 \in 1..Len(s) /\ n + 1 < n + 2 /\ n + 3 \in 1..Len(s)
      /\ n + 1 \in 1..Len(f) /\ n + 2 \in 1..Len(f) /\ n + 3 \in 1..Len(f)
  BY <1>2, <1>4, <1>6
<1>8. BracketOf(s[n + 1]) = "LPAREN" /\ BracketOf(s[n + 2]) = "RPAREN" /\ Quiet(s[n + 3])
  <2>1. s[n + 1] = f[n + 1] /\ s[n + 2] = f[n + 2] /\ s[n + 3] = f[n + 3]
    BY <1>6, <1>7
  <2>2. f[n + 1] = sig[1] /\ f[n + 2] = sig[2] /\ f[n + 3] = sig[3]
    BY <1>4
  <2> QED
    BY <1>1, <2>1, <2>2
<1>9. ASSUME NEW i \in 1..Len(s), i # n + 1, i # n + 2 PROVE Quiet(s[i])
  <2>1. i \in 1..n \/ i = n + 3 \/ i - Len(f) \in 1..Len(behind)
    BY <1>2, <1>4, <1>6, <1>9
  <2>2. CASE i \in 1..n
    <3>1. i \in 1..Len(f)
      BY <1>2, <1>4, <2>2
    <3>2. s[i] = front[i]
      BY <1>4, <1>6, <2>2, <3>1
    <3> QED
      BY <1>2, <2>2, <3>2
  <2>3. CASE i - Len(f) \in 1..Len(behind)
    <3>1. Len(f) + (i - Len(f)) = i
      BY <1>2, <1>4
    <3>2. s[i] = behind[i - Len(f)]
      BY <1>6, <2>3, <3>1
    <3> QED
      BY <1>2, <2>3, <3>2
  <2> QED
    BY <1>8, <2>1, <2>2, <2>3
<1>10. Yields(s, t)
  BY <1>5, <1>7, <1>8, <1>9, OpenerIs, YieldsPair
<1> QED
  BY <1>5, <1>10 DEF s, f, sig

LEMMA RuleTypeTurn == ASSUME RuleType PROVE Turn
<1> DEFINE front == <<Consume("KW_PROC")>>
           s == front \o Signature
<1>1. Head(Top).do \in QuietNames
  BY DEF RuleType, At, QuietNames, RuleNames
<1>2. \/ Sync \/ Goto(s)
      \/ Tok \notin BracketKinds /\ (Advance(<<Rule("type")>>) \/ Advance(<<>>))
  BY DEF RuleType, On, Otherwise, TypeKeywords, BracketKinds
<1>3. CASE Goto(s)
  <2>1. front \in Seq(Silent)
    BY SilentSymbols, SilentWords
  <2>2. s \o <<>> = s
    <3>1. front \in Seq(Simple \cup Silent) /\ Signature \in Seq(Simple \cup Silent)
      BY <2>1, SignatureSimple
    <3> HIDE DEF front
    <3>2. s \in Seq(Simple \cup Silent)
      BY <3>1
    <3> HIDE DEF s
    <3> QED
      BY <3>2, ConcatEmptySeq
  <2>3. s \in Seq(Symbol) /\ Yields(s, BracketOf(Head(Top)))
    <3> HIDE DEF front
    <3> QED
      BY <1>1, <2>1, <2>2, SilentWords, QuietIs, SignatureYields
  <2> HIDE DEF s
  <2> QED
    BY <1>3, <2>3, BracketStepGoto DEF Turn
<1>4. CASE Tok \notin BracketKinds /\ (Advance(<<Rule("type")>>) \/ Advance(<<>>))
  <2>1. <<Rule("type")>> \in Seq(Silent) /\ <<>> \in Seq(Silent)
    BY SilentSymbols, SilentWords
  <2> QED
    BY <1>1, <1>4, <2>1, QuietTurn DEF Turn
<1> QED
  BY <1>2, <1>3, <1>4 DEF Turn

LEMMA RuleDeclTurn == ASSUME RuleDecl PROVE Turn
<1> DEFINE front == <<Consume("KW_PROC"), Consume("LITERAL_IDENT")>>
           behind == <<Rule("proc_body")>>
           proc == front \o Signature \o behind
           table(c) == <<Consume("KW_TABLE"), Consume("LITERAL_IDENT"),
                         Consume("LBRACE"), Counting("fields", c)>>
<1>1. Quiet(Head(Top))
  <2>1. Head(Top).do \in QuietNames
    BY DEF RuleDecl, At, QuietNames, RuleNames
  <2> QED
    BY <2>1, QuietIs
<1>2. Sync \/ Goto(proc) \/ \E c \in UninitCounts : Goto(table(c))
  BY DEF RuleDecl, On, Otherwise
<1>3. CASE Goto(proc)
  <2>1. front \in Seq(Silent) /\ behind \in Seq(Silent)
    BY SilentSymbols, SilentWords
  <2> HIDE DEF front, behind
  <2>2. proc \in Seq(Symbol) /\ Yields(proc, BracketOf(Head(Top)))
    BY <1>1, <2>1, SignatureYields DEF Quiet
  <2> HIDE DEF proc
  <2> QED
    BY <1>3, <2>2, BracketStepGoto DEF Turn
<1>4. ASSUME NEW c \in UninitCounts, Goto(table(c)) PROVE Turn
  <2> DEFINE s == table(c)
  <2>1. Consume("KW_TABLE") \in Silent /\ Consume("LITERAL_IDENT") \in Silent
    BY SilentSymbols
  <2>2. Consume("LBRACE") \in Symbol /\ Counting("fields", c) \in Symbol
    BY SymbolsWith, UninitAssumption DEF BracketKinds
  <2>3. BracketOf(Consume("LBRACE")) = "LBRACE" /\ BracketOf(Counting("fields", c)) = "RBRACE"
    BY BracketsOf, BracketsOfRules
  <2>4. /\ s \in Seq(Symbol) /\ Len(s) = 4 /\ Quiet(s[1]) /\ Quiet(s[2])
        /\ BracketOf(s[3]) = "LBRACE" /\ BracketOf(s[4]) = "RBRACE"
    BY <2>1, <2>2, <2>3 DEF Silent
  <2> HIDE DEF s
  <2>5. 3 \in 1..Len(s) /\ 4 \in 1..Len(s) /\ \A i \in 1..Len(s) : i # 3 /\ i # 4 => Quiet(s[i])
    BY <2>4
  <2>6. Yields(s, BracketOf(Head(Top)))
    <3>1. BracketOf(Head(Top)) \notin BracketKinds
      BY <1>1, QuietIs
    <3>2. 3 < 4 /\ BracketOf(s[3]) = Opener[BracketOf(s[4])]
      BY <2>4, OpenerIs
    <3> QED
      BY <2>4, <2>5, <3>1, <3>2, YieldsPair
  <2> QED
    BY <1>4, <2>4, <2>6, BracketStepGoto DEF Turn, s
<1> QED
  BY <1>2, <1>3, <1>4 DEF Turn

\* rule_stmt_block waits for its brace and for the one that closes it.
LEMMA BlockBrackets == ASSUME IInv, BracketInv, Block PROVE BracketInv'
<1> DEFINE fresh == <<Consume("LBRACE"), Rule("stmts")>>
           gs == Append(Below, Tail(Top))
           fs == Append(gs, fresh)
           F == Seq(Symbol)
<1>1. Below \in Seq(F) /\ Tail(Top) \in F
      /\ Unfold(<<>>) = Append(Below, <<>> \o Tail(Top))
  <2>1. <<>> \in Seq(Symbol)
    OBVIOUS
  <2> QED
    BY <2>1, StackIs
<1>2. <<>> \o Tail(Top) = Tail(Top)
  BY <1>1, EmptyBefore
<1>3. /\ mode = "parse" /\ mode' # "recover" /\ errcount' = errcount
      /\ frames' = fs /\ SubSeq(src', 1, pos' - 1) = SubSeq(src, 1, pos - 1)
  BY <1>1, <1>2 DEF Block, At
<1>4. fresh \in F /\ Yields(fresh, "")
  <2>1. Consume("LBRACE") \in Symbol /\ Rule("stmts") \in Symbol
        /\ BracketOf(Consume("LBRACE")) = "LBRACE" /\ BracketOf(Rule("stmts")) = "RBRACE"
    BY SymbolsWith, BracketsOf, BracketsOfRules DEF BracketKinds
  <2>2. /\ fresh \in Seq(Symbol) /\ Len(fresh) = 2
        /\ BracketOf(fresh[1]) = "LBRACE" /\ BracketOf(fresh[2]) = "RBRACE"
    BY <2>1
  <2> HIDE DEF fresh
  <2>3. 1 \in 1..Len(fresh) /\ 2 \in 1..Len(fresh) /\ 1 < 2
        /\ \A i \in 1..Len(fresh) : i # 1 /\ i # 2 => Quiet(fresh[i])
    BY <2>2
  <2>4. BracketOf(fresh[1]) = Opener[BracketOf(fresh[2])] /\ "" \notin BracketKinds
    BY <2>2, OpenerIs DEF BracketKinds
  <2> QED
    BY <2>2, <2>3, <2>4, YieldsPair
<1> HIDE DEF fresh
<1>5. gs \in Seq(F) /\ fs \in Seq(F)
  <2> HIDE DEF F
  <2>1. gs \in Seq(F)
    BY <1>1
  <2>2. fresh \in F
    BY <1>4
  <2>3. ASSUME NEW q \in Seq(F), NEW f \in F
        PROVE  Append(q, f) \in Seq(F)
    OBVIOUS
  <2> HIDE DEF gs
  <2>4. Append(gs, fresh) \in Seq(F)
    BY <2>1, <2>2, <2>3
  <2> QED
    BY <2>1, <2>4
<1>6. Open \in Stacks /\ SubSeq(src, 1, pos - 1) \in Words
  BY BalanceIs
<1>7. Bracket(Open, BracketOf(Head(Top))) = Open
  <2>1. Head(Top).do \in QuietNames
    BY DEF Block, At, QuietNames, RuleNames
  <2> QED
    BY <2>1, QuietIs, QuietBracket
<1>8. OpenBehind(Open, Pending(fs)) = OpenBehind(OpenBehind(Open, Brackets(fresh)), Pending(gs))
  <2> HIDE DEF gs
  <2> QED
    BY <1>4, <1>5, <1>6, OpenAbove
<1>9. OpenBehind(Open, Brackets(fresh)) = Open
  BY <1>4, <1>6, QuietBracket DEF Yields, BracketKinds
<1>10. OpenBehind(Open, Pending(gs)) = OpenBehind(OpenBehind(Open, Brackets(Tail(Top))), Pending(Below))
  BY <1>1, <1>6, OpenAbove
<1> HIDE DEF fs, gs
<1> QED
  BY <1>3, <1>5, <1>6, <1>7, <1>8, <1>9, <1>10, StillBalanced DEF Open

\* The loop of a block ends with the bracket it stands for.
LEMMA BlockLoopBrackets == ASSUME IInv, BracketInv, BlockLoop PROVE BracketInv' \/ Turn
<1> DEFINE F == Seq(Symbol)
<1>1. Head(Top).do = "stmts" /\ Head(Top).do \in Loops /\ mode = "parse"
  BY DEF BlockLoop, At, Loops
<1>2. BracketOf(Head(Top)) = "RBRACE"
  BY <1>1, BracketsOfRules
<1>3. CASE Finish("rejected")
  BY <1>3 DEF Finish, Turn
<1>4. CASE Goto(<<Rule("stmt"), Rule("stmts")>>)
  <2> DEFINE a == Rule("stmt")
             b == Rule("stmts")
  <2>1. a \in Silent /\ b \in Symbol /\ BracketOf(b) = "RBRACE"
    BY SilentSymbols, SymbolsWith, BracketsOfRules
  <2>2. Goto(<<a, b>>)
    BY <1>4
  <2> HIDE DEF a, b
  <2> QED
    BY <1>2, <2>1, <2>2, ListTurn
<1>5. CASE Tok = "RBRACE" /\ AdvanceIn("parse", Front(frames))
  <2>1. Below \in Seq(F) /\ Front(frames) = Below
    BY StackIs
  <2>2. Tail(Top) = <<>>
    <3>1. Top = <<LoopAt(Len(frames))>>
      BY <1>1, TopFrame, LoopAlone DEF IInv
    <3> QED
      BY <3>1
  <2>3. CASE mode' = "rejected"
    BY <2>3 DEF Turn
  <2>4. CASE mode' # "rejected"
    <3>1. /\ mode' # "recover" /\ errcount' = errcount /\ frames' = Below /\ pos <= Len(src)
          /\ SubSeq(src', 1, pos' - 1) = SubSeq(src, 1, pos)
      BY <1>5, <2>1, <2>4, ReadIs
    <3>2. SubSeq(src, 1, pos) \in Words
          /\ OpenBehind(<<>>, SubSeq(src, 1, pos)) = Bracket(Open, "RBRACE")
      BY <1>5, <3>1, ReadOne
    <3>3. Bracket(Open, "RBRACE") \in Stacks
      BY BalanceIs, BracketType
    <3>4. OpenBehind(Bracket(Open, "RBRACE"), Brackets(Tail(Top))) = Bracket(Open, "RBRACE")
      <4>1. Brackets(Tail(Top)) = <<>>
        BY <2>2 DEF Brackets
      <4> QED
        BY <3>3, <4>1, OpenBehindNone
    <3> DEFINE w == SubSeq(src, 1, pos)
    <3> HIDE DEF w
    <3>5. /\ w \in Words /\ OpenBehind(<<>>, w) = Bracket(Open, "RBRACE")
          /\ SubSeq(src', 1, pos' - 1) = w
      BY <3>1, <3>2 DEF w
    <3> QED
      BY <1>1, <1>2, <2>1, <3>1, <3>4, <3>5, StillBalanced
  <2> QED
    BY <2>3, <2>4
<1> QED
  BY <1>3, <1>4, <1>5 DEF BlockLoop, On, Otherwise

\* Recovery follows an error, which is counted.
LEMMA RecoveryBrackets == ASSUME IInv, BracketInv, Recovery PROVE BracketInv'
<1>1. errcount' = errcount /\ mode = "recover"
  <2>1. CASE RecoverDecl
    BY <2>1 DEF RecoverDecl, Otherwise, AdvanceIn, Finish
  <2>2. CASE RecoverStmt
    BY <2>2 DEF RecoverStmt, Otherwise, AdvanceIn, Finish
  <2> QED
    BY <2>1, <2>2 DEF Recovery
<1>2. errcount > 0 /\ errcount # 0
  BY <1>1 DEF BracketInv, IInv, RestOK
<1> QED
  BY <1>1, <1>2 DEF BracketInv, BracketsBalance

LEMMA TurnKeepsBrackets ==
  ASSUME IInv, BracketInv, mode = "parse", Turn PROVE BracketInv'
BY RuleKeepsBrackets, SyncKeepsBrackets, EndKeepsBrackets DEF Turn, Outcomes

\* The steps these proofs distinguish.
LEMMA Turns ==
  ASSUME IInv, [Next]_vars
  PROVE  \/ mode = "parse" /\ Turn
         \/ mode = "parse" /\ RuleProgram /\ Finish("accepted")
         \/ Block \/ BlockLoop \/ Recovery
         \/ UNCHANGED vars
<1>1. CASE ParserConsume
  BY <1>1, ConsumeTurn DEF ParserConsume, At
<1>2. CASE RuleProgram
  BY <1>2, RuleProgramTurn DEF RuleProgram, At
<1>3. CASE Declaration /\ ~RuleProgram
  <2>1. mode = "parse"
    BY <1>3 DEF Declaration, RuleDecl, ProcBody, Params, ParamStored, Fields, FieldStored,
       Param, RuleType, At
  <2> QED
    BY <1>3, <2>1, RuleDeclTurn, ProcBodyTurn, ParamsTurn, ParamStoredTurn, FieldsTurn,
       FieldStoredTurn, ParamTurn, RuleTypeTurn DEF Declaration
<1>4. CASE Expression
  <2>1. mode = "parse"
    BY <1>4 DEF Expression, RuleExpr, Unary, BinopTail, AssignTail, Primary, Grouping,
       CallTail, IndexTail, Args, Values, ListLoop, At
  <2> QED
    BY <1>4, <2>1, RuleExprTurn, UnaryTurn, BinopTailTurn, AssignTailTurn, PrimaryTurn,
       GroupingTurn, CallTailTurn, IndexTailTurn, ArgsTurn, ValuesTurn DEF Expression
<1>5. CASE RuleStmt \/ ExprStmt \/ VarDeclInit \/ ElseTail
  <2>1. mode = "parse"
    BY <1>5 DEF RuleStmt, ExprStmt, VarDeclInit, ElseTail, At
  <2> QED
    BY <1>5, <2>1, RuleStmtTurn, ExprStmtTurn, VarDeclInitTurn, ElseTailTurn
<1> QED
  BY <1>1, <1>2, <1>3, <1>4, <1>5 DEF Next, Stmt, Terminated

LEMMA NextBracketInv == ASSUME IInv, BracketInv, [Next]_vars PROVE BracketInv'
<1>1. CASE mode = "parse" /\ Turn
  BY <1>1, TurnKeepsBrackets
<1>2. CASE mode = "parse" /\ Finish("accepted")
  BY <1>2, EndKeepsBrackets DEF Finish, Outcomes
<1>3. CASE Block
  BY <1>3, BlockBrackets
<1>4. CASE BlockLoop
  <2>1. mode = "parse"
    BY <1>4 DEF BlockLoop, At
  <2> QED
    BY <1>4, <2>1, BlockLoopBrackets, TurnKeepsBrackets
<1>5. CASE Recovery
  BY <1>5, RecoveryBrackets
<1>6. CASE UNCHANGED vars
  BY <1>6 DEF vars, BracketInv, BracketsBalance
<1> QED
  BY <1>1, <1>2, <1>3, <1>4, <1>5, <1>6, Turns

\* rule_program alone waits for no bracket.
LEMMA ProgramYields == Yields(<<Rule("program")>>, "")
<1> DEFINE fr == <<Rule("program")>>
<1>1. Quiet(Rule("program")) /\ fr \in Seq(Symbol)
  BY SilentSymbols DEF Silent
<1>2. \A i \in 1..Len(fr) : Quiet(fr[i])
  BY <1>1
<1>3. "" \notin BracketKinds
  BY DEF BracketKinds
<1> HIDE DEF fr
<1>4. Yields(fr, "")
  BY <1>1, <1>2, <1>3, YieldsNone
<1> QED
  BY <1>4 DEF fr

LEMMA PendingNone == Pending(<<>>) = <<>>
<1> DEFINE P == [i \in 0..0 |-> <<>>]
<1>1. P[0] = <<>> /\ Len(<<>>) = 0 /\ <<>> \in Seq(Seq(Symbol))
  OBVIOUS
<1> HIDE DEF P
<1>2. Collects(P, <<>>)
  BY <1>1 DEF Collects
<1>3. Pending(<<>>) = P[Len(<<>>)]
  BY <1>1, <1>2, PendingGives
<1> QED
  BY <1>1, <1>3

LEMMA InitBracketInv == ASSUME Init PROVE BracketInv
<1> DEFINE fr == <<Rule("program")>>
<1>1. fr \in Seq(Symbol) /\ Append(<<>>, fr) = <<fr>> /\ <<fr>> \in Seq(Seq(Symbol))
      /\ <<>> \in Seq(Seq(Symbol)) /\ <<>> \in Stacks
  BY SilentSymbols DEF Silent, Stacks
<1>2. Yields(fr, "")
  BY ProgramYields
<1> HIDE DEF fr
<1>3. OpenBehind(<<>>, Brackets(fr)) = <<>>
  BY <1>1, <1>2, QuietBracket DEF Yields, BracketKinds
<1>4. OpenBehind(<<>>, Pending(<<fr>>)) = OpenBehind(<<>>, Pending(<<>>))
  BY <1>1, <1>3, OpenAbove
<1>5. OpenBehind(<<>>, <<>>) = <<>>
  BY <1>1, OpenBehindNone
<1>6. SubSeq(src, 1, pos - 1) = <<>> /\ <<>> \in Words
  BY DEF Init, Words
<1>7. Balanced(<<>> \o Pending(<<fr>>))
  BY <1>1, <1>4, <1>5, <1>6, PendingNone, BalancedIs
<1> QED
  BY <1>6, <1>7 DEF fr, Init, BracketInv, BracketsBalance

\* Whatever the text, until the first error the tokens read and the brackets the
\* call stack waits for are balanced: a program the parser accepts closes every
\* bracket it opens by its partner.
THEOREM BracketsAreBalanced == Spec => []BracketsBalance
<1>1. BracketInv => BracketsBalance
  BY DEF BracketInv
<1> QED
  BY <1>1, InitBracketInv, NextBracketInv, Invariance, PTL DEF Spec

\* where the parser accepts: rule_program is alone and the text is read
AcceptedInv ==
  mode = "accepted" =>
    errcount = 0 /\ pos = Len(src) + 1 /\ frames = << <<Rule("program")>> >>

LEMMA NotAccepted ==
  ASSUME (mode = "parse" /\ Turn) \/ Block \/ BlockLoop \/ Recovery
  PROVE  mode' # "accepted"
<1>1. CASE mode = "parse" /\ Turn
  BY <1>1 DEF Turn, BracketStep, Goto, Advance, AdvanceIn, Finish, Sync
<1>2. CASE Block
  BY <1>2 DEF Block, At
<1>3. CASE BlockLoop
  BY <1>3 DEF BlockLoop, At, On, Otherwise, Goto, AdvanceIn, Finish
<1>4. CASE RecoverDecl
  BY <1>4 DEF RecoverDecl, Otherwise, AdvanceIn, Finish
<1>5. CASE RecoverStmt
  BY <1>5 DEF RecoverStmt, Otherwise, AdvanceIn, Finish
<1> QED
  BY <1>1, <1>2, <1>3, <1>4, <1>5 DEF Recovery

LEMMA NextAcceptedInv == ASSUME IInv, AcceptedInv, [Next]_vars PROVE AcceptedInv'
<1>1. CASE RuleProgram /\ Finish("accepted")
  <2>1. Top = <<Rule("program")>> /\ Len(frames) = 1
    <3>1. Head(Top).do = "program" /\ Head(Top).do \in Loops
      BY <1>1 DEF RuleProgram, At, Loops
    <3>2. Top = <<LoopAt(Len(frames))>> /\ Head(Top) = LoopAt(Len(frames))
      BY <3>1, TopFrame, LoopAlone DEF IInv
    <3>3. LoopAt(Len(frames)) = Rule("program") /\ Len(frames) = 1
      BY <3>1, <3>2, Dos DEF LoopAt
    <3> QED
      BY <3>2, <3>3
  <2>2. frames = << <<Rule("program")>> >>
    <3> DEFINE F == Seq(Symbol)
               fr == <<Rule("program")>>
    <3>1. frames \in Seq(F) /\ frames[1] = fr
      BY <2>1, FramesAre
    <3> HIDE DEF F, fr
    <3>2. frames = <<fr>>
      BY <2>1, <3>1
    <3> QED
      BY <3>2 DEF fr
  <2>3. Tok = "EOF" /\ errcount = 0
    <3>1. Head(Top).do = "program" /\ mode = "parse"
      BY <1>1 DEF RuleProgram, At
    <3>2. ~Goto(<<Rule("decl"), Rule("program")>>) /\ ~Finish("rejected")
      BY <1>1, <3>1 DEF Goto, Finish
    <3> QED
      BY <1>1, <3>2 DEF RuleProgram, On, Otherwise
  <2>4. pos = Len(src) + 1
    <3>1. "EOF" \notin TokenKinds \cup {LexError}
      BY DEF TokenKinds, TypeKeywords, Literals, UnaryOps, BinaryOps, LexError
    <3>2. src \in Seq(TokenKinds \cup {LexError}) /\ pos \in 1..Len(src) + 1
      BY DEF IInv, RestOK
    <3>3. ASSUME pos \in 1..Len(src) PROVE FALSE
      <4>1. src[pos] \in TokenKinds \cup {LexError}
        BY <3>2, <3>3, ElementOf
      <4>2. src[pos] = "EOF"
        BY <2>3, <3>2, <3>3 DEF Tok, TokAt
      <4> QED
        BY <3>1, <4>1, <4>2
    <3>4. Len(src) \in Nat
      BY <3>2
    <3> QED
      BY <3>2, <3>3, <3>4
  <2> QED
    BY <1>1, <2>2, <2>3, <2>4 DEF AcceptedInv, Finish
<1>2. CASE mode' # "accepted"
  BY <1>2 DEF AcceptedInv
<1>3. CASE UNCHANGED vars
  BY <1>3 DEF vars, AcceptedInv
<1>4. CASE (mode = "parse" /\ Turn) \/ Block \/ BlockLoop \/ Recovery
  BY <1>2, <1>4, NotAccepted
<1> QED
  BY <1>1, <1>3, <1>4, Turns

\* What is open when the parser accepts is nothing.
LEMMA AcceptedBrackets ==
  ASSUME IInv, BracketInv, AcceptedInv, mode = "accepted" PROVE Balanced(src)
<1> DEFINE L == TokenKinds \cup {LexError}
           fr == <<Rule("program")>>
<1>1. src \in Seq(L) /\ SubSeq(src, 1, pos - 1) = src
  <2>1. src \in Seq(L) /\ pos = Len(src) + 1
    BY DEF IInv, RestOK, AcceptedInv
  <2> HIDE DEF L
  <2>2. pos - 1 = Len(src)
    BY <2>1
  <2> QED
    BY <2>1, <2>2, SubSeqFull
<1>2. frames = <<fr>> /\ fr \in Seq(Symbol) /\ Append(<<>>, fr) = <<fr>>
      /\ <<>> \in Seq(Seq(Symbol)) /\ <<>> \in Stacks
  BY SilentSymbols DEF AcceptedInv, Silent, Stacks
<1>3. Yields(fr, "")
  BY ProgramYields
<1> HIDE DEF fr
<1>4. Pending(frames) = Brackets(fr)
  <2>1. Brackets(fr) \in Words /\ Pending(<<fr>>) = Brackets(fr) \o Pending(<<>>)
    BY <1>2, FrameWord, PendingAbove
  <2>2. Brackets(fr) \o <<>> = Brackets(fr)
    BY <2>1, ConcatEmptySeq DEF Words
  <2> QED
    BY <1>2, <2>1, <2>2, PendingNone
<1>5. Balanced(src \o Brackets(fr))
  BY <1>1, <1>4 DEF BracketInv, BracketsBalance, AcceptedInv
<1>6. OpenBehind(<<>>, src \o Brackets(fr)) = OpenBehind(OpenBehind(<<>>, src), Brackets(fr))
  <2> DEFINE U == {BracketOf(x) : x \in Symbol}
             b == Brackets(fr)
  <2>1. b \in Seq(U)
    BY <1>2, BracketsAre
  <2> HIDE DEF L, U, b
  <2>2. OpenBehind(<<>>, src \o b) = OpenBehind(OpenBehind(<<>>, src), b)
    BY <1>1, <1>2, <2>1, OpenBehindBoth
  <2> QED
    BY <2>2 DEF b
<1>7. OpenBehind(<<>>, src) \in Stacks
  <2> HIDE DEF L
  <2> QED
    BY <1>1, <1>2, RunGives
<1>8. OpenBehind(OpenBehind(<<>>, src), Brackets(fr)) = OpenBehind(<<>>, src)
  BY <1>3, <1>7, QuietBracket DEF Yields, BracketKinds
<1> QED
  BY <1>5, <1>6, <1>8 DEF Balanced

\* A program the parser accepts closes every bracket it opens by its partner,
\* however long it is and however deep its brackets nest.
THEOREM AcceptedIsBalanced == Spec => [](mode = "accepted" => Balanced(src))
<1>1. ASSUME Init PROVE AcceptedInv
  BY <1>1 DEF Init, AcceptedInv
<1>2. IInv /\ BracketInv /\ AcceptedInv => (mode = "accepted" => Balanced(src))
  BY AcceptedBrackets
<1> QED
  BY <1>1, <1>2, NextAcceptedInv, InitBracketInv, NextBracketInv, Invariance, PTL DEF Spec
=============================================================================
