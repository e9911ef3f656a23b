---------------------------- MODULE ParserProofs ----------------------------
(***************************************************************************)
(* Proofs about Parser for every set of sources and every capacity.        *)
(*                                                                         *)
(* TypeOK is not inductive: that a frame never runs empty holds because    *)
(* every frame ends in the loop of its activation, which no rule but the   *)
(* loop itself removes, and that frame 1 is never popped because "stmts"   *)
(* stands in no other place than the end of a frame above it.  IInv says   *)
(* so, and carries the bound of the parameter counters.                    *)
(*                                                                         *)
(* Three more invariants rest on it: Progress, for the errors reported at  *)
(* a token, JumpInv, for where parser_sync() jumps to, and TableInv, for   *)
(* the count of the fields of a table.                                     *)
(***************************************************************************)
EXTENDS Parser, GeneralLemmas, SequenceTheorems, FiniteSetTheorems

Loops == {"program", "stmts"}

RuleNames ==
  {"decl", "proc_body", "param", "type", "expr", "unary", "binop_tail", "assign_tail",
   "primary", "grouping", "call_tail", "index_tail", "args", "args_sep", "values",
   "values_sep", "block", "stmt", "exprstmt", "vardecl_init", "else_tail"}

ParamLoops == {"params", "param_stored"}
FieldLoops == {"fields", "field_stored"}

\* the symbols that are no loops; a parameter counter is below the capacity
Plain ==
  {x \in [do : {"consume"} \cup RuleNames \cup ParamLoops \cup FieldLoops,
          kind : {""} \cup TokenKinds, n : Nat] :
     x.do \in ParamLoops => x.n < MAX_PARAM_COUNT}

\* the symbols that no table puts on the stack
Common == {x \in Plain : x.do \notin FieldLoops}

\* rules that open a block or come back to a declaration or a statement
Special == {"decl", "proc_body", "block", "stmt", "else_tail"}

\* what all other rules put in their place
Simple == {x \in Plain : x.do \notin Special /\ x # Consume("LBRACE")}

Fieldless == {x \in Simple : x.do \notin FieldLoops}

LoopAt(i) == IF i = 1 THEN Rule("program") ELSE Rule("stmts")

\* a frame: plain symbols, then the loop of the activation
FrameOK(i, fr) ==
  /\ fr \in Seq(Plain \cup {LoopAt(i)})
  /\ fr # <<>>
  /\ fr[Len(fr)] = LoopAt(i)
  /\ \A j \in 1..Len(fr) - 1 : fr[j] \in Plain

StackOK(fs) ==
  /\ fs \in Seq(Seq(Plain \cup {Rule("program"), Rule("stmts")}))
  /\ fs # <<>>
  /\ \A i \in 1..Len(fs) : FrameOK(i, fs[i])

\* the jmp_buf ctx_stmt never resumes rule_program
CtxOK ==
  /\ ctx \in {"DECL", "STMT"}
  /\ ctx_stmt \in [frame : Nat \ {1}, live : BOOLEAN]

\* the tokens, the error count and the mode
RestOK ==
  /\ src \in Seq(TokenKinds \cup {LexError})
  /\ pos \in 1..Len(src) + 1
  /\ errcount \in Nat /\ errpos \in Nat
  /\ mode \in {"parse", "recover"} \cup Outcomes

IInv == RestOK /\ CtxOK /\ StackOK(frames)

\* What most rules do: read on, go on or report an error.  Where the token in hand
\* is the one to consume, it is read.
SimpleStep ==
  /\ mode = "parse" /\ Head(Top).do \notin Special \cup Loops
  /\ UNCHANGED <<ctx, ctx_stmt>>
  /\ \/ \E s \in Seq(Simple) : Advance(s)
     \/ /\ Head(Top) # Consume(Tok)
        /\ Sync \/ Finish("undefined") \/ \E s \in Seq(Simple) : Goto(s)
  /\ Head(Top).do = "consume" => Advance(<<>>) \/ Sync

\* the same of the rules that have no part in a table
FieldlessStep ==
  /\ mode = "parse" /\ Head(Top).do \notin Special \cup Loops
  /\ UNCHANGED <<ctx, ctx_stmt>>
  /\ \/ \E s \in Seq(Fieldless) : Advance(s)
     \/ /\ Head(Top) # Consume(Tok)
        /\ Sync \/ \E s \in Seq(Fieldless) : Goto(s)
  /\ Head(Top).do = "consume" => Advance(<<>>) \/ Sync

-----------------------------------------------------------------------------
(* Stacks                                                                  *)

\* The symbols the rules put on the stack are plain.
LEMMA PlainRule == ASSUME NEW r \in RuleNames PROVE Rule(r) \in Plain
BY DEF Rule, Plain, RuleNames, ParamLoops, FieldLoops

LEMMA PlainConsume == ASSUME NEW k \in TokenKinds PROVE Consume(k) \in Plain
BY DEF Consume, Plain, ParamLoops

LEMMA PlainFields == ASSUME NEW r \in FieldLoops, NEW n \in Nat PROVE Counting(r, n) \in Plain
BY DEF Counting, Plain, ParamLoops, FieldLoops

LEMMA PlainParams ==
  ASSUME NEW r \in ParamLoops, NEW n \in Nat, n < MAX_PARAM_COUNT
  PROVE  Counting(r, n) \in Plain
BY DEF Counting, Plain, ParamLoops

LEMMA CommonRule == ASSUME NEW r \in RuleNames PROVE Rule(r) \in Common
BY PlainRule DEF Rule, Common, RuleNames, FieldLoops

LEMMA CommonConsume == ASSUME NEW k \in TokenKinds PROVE Consume(k) \in Common
BY PlainConsume DEF Consume, Common, FieldLoops

LEMMA SimpleIsPlain == Simple \subseteq Plain /\ Seq(Simple) \subseteq Seq(Plain)
BY DEF Simple

LEMMA CommonIsPlain == Common \subseteq Plain /\ Seq(Common) \subseteq Seq(Plain)
BY DEF Common

LEMMA FieldlessIs ==
  /\ Fieldless \subseteq Simple /\ Seq(Fieldless) \subseteq Seq(Simple)
  /\ Fieldless \subseteq Common /\ Seq(Fieldless) \subseteq Seq(Common)
<1>1. Fieldless \subseteq Simple /\ Fieldless \subseteq Common
  BY DEF Fieldless, Simple, Common
<1> QED
  BY <1>1

LEMMA FieldlessRule == ASSUME NEW r \in RuleNames \ Special PROVE Rule(r) \in Fieldless
BY CommonRule DEF Common, Fieldless, Simple, Rule, Consume, RuleNames

LEMMA FieldlessConsume ==
  ASSUME NEW k \in TokenKinds \ {"LBRACE"} PROVE Consume(k) \in Fieldless
BY CommonConsume DEF Common, Fieldless, Simple, Consume, Special

LEMMA FieldlessParams ==
  ASSUME NEW r \in ParamLoops, NEW n \in Nat, n < MAX_PARAM_COUNT
  PROVE  Counting(r, n) \in Fieldless
BY PlainParams DEF Fieldless, Simple, Counting, Consume, ParamLoops, FieldLoops, Special

LEMMA SimpleRule == ASSUME NEW r \in RuleNames \ Special PROVE Rule(r) \in Simple
BY FieldlessRule, FieldlessIs

LEMMA SimpleConsume ==
  ASSUME NEW k \in TokenKinds \ {"LBRACE"} PROVE Consume(k) \in Simple
BY FieldlessConsume, FieldlessIs

LEMMA SimpleFields ==
  ASSUME NEW r \in FieldLoops, NEW n \in Nat PROVE Counting(r, n) \in Simple
BY PlainFields DEF Simple, Counting, Consume, FieldLoops, Special

\* A loop is not a plain symbol.
LEMMA LoopNotPlain == \A i : LoopAt(i) \notin Plain
BY DEF LoopAt, Rule, Plain, RuleNames, ParamLoops, FieldLoops

LEMMA LoopInLoops == \A i : LoopAt(i).do \in Loops
<1>1. Rule("program").do = "program" /\ Rule("stmts").do = "stmts"
  BY DEF Rule
<1> QED
  BY <1>1 DEF LoopAt, Loops

\* A length that is neither 0 nor 1.
LEMMA TwoOrMore ==
  \A n \in Nat : n >= 1 /\ n # 1 => n >= 2 /\ n > 1 /\ 1 \in 1..n - 1 /\ n - 1 \in 1..n
OBVIOUS

\* Replacing the first, plain symbol of a frame by plain symbols leaves a frame.
LEMMA UnfoldFrame ==
  ASSUME NEW i \in Nat, NEW fr, FrameOK(i, fr), Head(fr).do \notin Loops,
         NEW s \in Seq(Plain)
  PROVE  FrameOK(i, s \o Tail(fr))
<1> DEFINE U == Plain \cup {LoopAt(i)}
           new == s \o Tail(fr)
<1>a. Len(fr) \in Nat /\ Len(fr) >= 1
  BY DEF FrameOK
<1>1. fr \in Seq(U) /\ fr # <<>> /\ Len(fr) \in Nat /\ Len(fr) >= 1
  BY <1>a DEF FrameOK
<1>2. Len(fr) >= 2
  <2>1. ASSUME Len(fr) = 1 PROVE FALSE
    <3>1. Head(fr) = LoopAt(i)
      BY <1>1, <2>1 DEF FrameOK
    <3> QED
      BY <3>1, LoopInLoops
  <2>2. Len(fr) # 1
    BY <2>1
  <2> HIDE DEF U, new
  <2> QED
    BY <1>a, <2>2, TwoOrMore
<1>3. Tail(fr) \in Seq(U) /\ Len(Tail(fr)) = Len(fr) - 1
      /\ \A j \in 1..Len(fr) - 1 : Tail(fr)[j] = fr[j + 1]
  BY <1>1
<1>4. s \in Seq(U) /\ Len(s) \in Nat
  OBVIOUS
<1>5. new \in Seq(U) /\ Len(new) = Len(s) + Len(fr) - 1
  BY <1>1, <1>3, <1>4
<1>6. \A j \in 1..Len(new) : new[j] = IF j <= Len(s) THEN s[j] ELSE fr[j - Len(s) + 1]
  BY <1>1, <1>3, <1>4, <1>5
<1>7. new # <<>>
  <2>1. Len(new) # 0 /\ Len(<<>>) = 0
    BY <1>1, <1>2, <1>4, <1>5
  <2> HIDE DEF new
  <2> QED
    BY <2>1
<1>8. new[Len(new)] = LoopAt(i)
  BY <1>1, <1>2, <1>4, <1>5, <1>6 DEF FrameOK
<1>9. ASSUME NEW j \in 1..Len(new) - 1 PROVE new[j] \in Plain
  <2>1. CASE j <= Len(s)
    BY <1>4, <1>5, <1>6, <1>9, <2>1
  <2>2. CASE j > Len(s)
    <3>1. j - Len(s) + 1 \in 1..Len(fr) - 1
      BY <1>1, <1>4, <1>5, <2>2
    <3> QED
      BY <1>1, <1>4, <1>5, <1>6, <2>2, <3>1 DEF FrameOK
  <2> QED
    BY <1>4, <2>1, <2>2
<1> QED
  BY <1>5, <1>7, <1>8, <1>9 DEF FrameOK

\* The loop of an activation is first in its frame only when it is alone there.
LEMMA LoopAlone ==
  ASSUME NEW i \in Nat, NEW fr, FrameOK(i, fr), Head(fr).do \in Loops
  PROVE  fr = <<LoopAt(i)>> /\ Head(fr) = LoopAt(i)
<1>1. fr \in Seq(Plain \cup {LoopAt(i)}) /\ Len(fr) \in Nat /\ Len(fr) >= 1
  BY DEF FrameOK
<1>2. \A x \in Plain : x.do \notin Loops
  BY DEF Plain, Loops, RuleNames, ParamLoops, FieldLoops
<1>3. ASSUME Len(fr) # 1 PROVE FALSE
  <2>1. 1 \in 1..Len(fr) - 1
    BY <1>1, <1>3, TwoOrMore
  <2>2. fr[1] \in Plain
    BY <2>1 DEF FrameOK
  <2> QED
    BY <1>1, <1>2, <2>2
<1>4. fr[1] = LoopAt(i) /\ Len(fr) = 1
  BY <1>3 DEF FrameOK
<1> QED
  BY <1>1, <1>4

\* Plain symbols in front of the loop of an activation are a frame of it.
LEMMA LoopFrame ==
  ASSUME NEW i \in Nat, NEW s \in Seq(Plain)
  PROVE  FrameOK(i, Append(s, LoopAt(i)))
<1> DEFINE fr == Append(s, LoopAt(i))
<1>1. fr \in Seq(Plain \cup {LoopAt(i)}) /\ Len(fr) = Len(s) + 1
  OBVIOUS
<1>2. fr # <<>>
  <2>1. Len(fr) # 0 /\ Len(<<>>) = 0
    BY <1>1
  <2> HIDE DEF fr
  <2> QED
    BY <2>1
<1>3. fr[Len(fr)] = LoopAt(i) /\ \A j \in 1..Len(fr) - 1 : fr[j] \in Plain
  BY <1>1
<1> QED
  BY <1>1, <1>2, <1>3 DEF FrameOK

LEMMA PairFrame ==
  ASSUME NEW i \in Nat, NEW x \in Plain
  PROVE  FrameOK(i, <<x, LoopAt(i)>>)
<1> DEFINE l  == LoopAt(i)
           U  == Plain \cup {l}
           fr == <<x, l>>
<1>1. x \in U /\ l \in U
  OBVIOUS
<1> HIDE DEF l, U
<1>2. fr \in Seq(U) /\ Len(fr) = 2 /\ fr[1] = x /\ fr[2] = l
  BY <1>1
<1>3. fr # <<>>
  OBVIOUS
<1> HIDE DEF fr
<1>4. \A j \in 1..Len(fr) - 1 : fr[j] \in Plain
  BY <1>2
<1>5. fr[Len(fr)] = l
  BY <1>2
<1> QED
  BY <1>2, <1>3, <1>4, <1>5 DEF fr, l, U, FrameOK

LEMMA FrameIsSeq ==
  ASSUME NEW i \in Nat, NEW fr, FrameOK(i, fr)
  PROVE  fr \in Seq(Plain \cup {Rule("program"), Rule("stmts")})
BY DEF FrameOK, LoopAt

LEMMA TopFrame ==
  ASSUME StackOK(frames)
  PROVE  /\ Len(frames) \in Nat /\ Len(frames) >= 1
         /\ Top = frames[Len(frames)]
         /\ FrameOK(Len(frames), Top)
<1> DEFINE F == Seq(Plain \cup {Rule("program"), Rule("stmts")})
<1>0. frames \in Seq(F) /\ frames # <<>>
  BY DEF StackOK
<1> HIDE DEF F
<1>1. Len(frames) \in Nat /\ Len(frames) >= 1
  BY <1>0, NotEmpty, Zenon
<1> QED
  BY <1>1 DEF StackOK, Top, Last

LEMMA ReplaceTop ==
  ASSUME NEW fs, StackOK(fs), NEW fr, FrameOK(Len(fs), fr)
  PROVE  StackOK([fs EXCEPT ![Len(fs)] = fr])
<1> DEFINE F == Seq(Plain \cup {Rule("program"), Rule("stmts")})
           new == [fs EXCEPT ![Len(fs)] = fr]
<1>1. fs \in Seq(F) /\ Len(fs) \in Nat /\ Len(fs) >= 1
  BY DEF StackOK
<1>2. fr \in F
  BY <1>1, FrameIsSeq
<1> HIDE DEF F
<1>3. new \in Seq(F) /\ Len(new) = Len(fs)
  BY <1>1, <1>2
<1>4. new # <<>>
  <2>1. Len(new) # 0 /\ Len(<<>>) = 0
    BY <1>1, <1>3
  <2> HIDE DEF new
  <2> QED
    BY <2>1
<1>5. ASSUME NEW i \in 1..Len(new) PROVE FrameOK(i, new[i])
  <2>1. CASE i = Len(fs)
    BY <1>1, <2>1
  <2>2. CASE i # Len(fs)
    <3>1. i \in 1..Len(fs)
      BY <1>3
    <3>2. new[i] = fs[i]
      BY <1>1, <2>2, <3>1
    <3> QED
      BY <3>1, <3>2 DEF StackOK
  <2> QED
    BY <2>1, <2>2
<1> QED
  BY <1>3, <1>4, <1>5 DEF StackOK, F

LEMMA PushFrame ==
  ASSUME NEW fs, StackOK(fs), NEW fr, FrameOK(Len(fs) + 1, fr)
  PROVE  StackOK(Append(fs, fr))
<1> DEFINE F == Seq(Plain \cup {Rule("program"), Rule("stmts")})
           new == Append(fs, fr)
<1>1. fs \in Seq(F) /\ Len(fs) \in Nat /\ Len(fs) >= 1
  BY DEF StackOK
<1>2. fr \in F
  BY <1>1, FrameIsSeq
<1> HIDE DEF F
<1>3. new \in Seq(F) /\ Len(new) = Len(fs) + 1
  BY <1>1, <1>2
<1>4. new # <<>>
  <2>1. Len(new) # 0 /\ Len(<<>>) = 0
    BY <1>1, <1>3
  <2> HIDE DEF new
  <2> QED
    BY <2>1
<1>5. \A i \in 1..Len(new) : FrameOK(i, new[i])
  BY <1>1, <1>3 DEF StackOK
<1> QED
  BY <1>3, <1>4, <1>5 DEF StackOK, F

\* The n outermost frames of a stack.
LEMMA CutFrames ==
  ASSUME NEW fs, StackOK(fs), NEW n \in 1..Len(fs)
  PROVE  StackOK(SubSeq(fs, 1, n)) /\ Len(SubSeq(fs, 1, n)) = n
<1> DEFINE F == Seq(Plain \cup {Rule("program"), Rule("stmts")})
           new == SubSeq(fs, 1, n)
<1>1. fs \in Seq(F) /\ Len(fs) \in Nat /\ Len(fs) >= 1
  BY DEF StackOK
<1> HIDE DEF F
<1>2. new \in Seq(F) /\ Len(new) = n /\ \A i \in 1..n : new[i] = fs[i]
  BY <1>1
<1>3. new # <<>>
  <2>1. Len(new) # 0 /\ Len(<<>>) = 0
    BY <1>1, <1>2
  <2> HIDE DEF new
  <2> QED
    BY <2>1
<1>4. \A i \in 1..Len(new) : FrameOK(i, new[i])
  BY <1>1, <1>2 DEF StackOK
<1> QED
  BY <1>2, <1>3, <1>4 DEF StackOK, F

\* A rule that is no loop is replaced by plain symbols.
LEMMA UnfoldStack ==
  ASSUME StackOK(frames), Head(Top).do \notin Loops, NEW s \in Seq(Plain)
  PROVE  StackOK(Unfold(s))
<1>1. FrameOK(Len(frames), s \o Tail(Top))
  BY TopFrame, UnfoldFrame
<1> QED
  BY <1>1, TopFrame, ReplaceTop DEF Unfold

\* A loop is replaced by plain symbols and itself.
LEMMA UnfoldLoop ==
  ASSUME StackOK(frames), Head(Top).do \in Loops, NEW s \in Seq(Plain)
  PROVE  StackOK(Unfold(Append(s, LoopAt(Len(frames)))))
<1> DEFINE new == Append(s, LoopAt(Len(frames)))
<1>1. Top = <<LoopAt(Len(frames))>>
  BY TopFrame, LoopAlone
<1>2. new \o Tail(Top) = new
  BY <1>1, TopFrame
<1>3. FrameOK(Len(frames), new)
  BY TopFrame, LoopFrame
<1> HIDE DEF new
<1>4. Unfold(new) = [frames EXCEPT ![Len(frames)] = new]
  BY <1>2, TopFrame DEF Unfold
<1>5. StackOK([frames EXCEPT ![Len(frames)] = new])
  BY <1>3, ReplaceTop
<1> QED
  BY <1>4, <1>5 DEF new

\* The symbol at hand is plain unless it is a loop.
LEMMA HeadPlain ==
  ASSUME StackOK(frames), Head(Top).do \notin Loops
  PROVE  Head(Top) \in Plain
<1>1. FrameOK(Len(frames), Top) /\ Len(frames) \in Nat
  BY TopFrame
<1>2. Len(Top) \in Nat /\ Len(Top) >= 1 /\ Head(Top) = Top[1]
  BY <1>1 DEF FrameOK
<1>3. ASSUME Len(Top) = 1 PROVE FALSE
  <2>1. Head(Top) = LoopAt(Len(frames))
    BY <1>1, <1>2, <1>3 DEF FrameOK
  <2> QED
    BY <2>1, LoopInLoops
<1>4. 1 \in 1..Len(Top) - 1
  BY <1>2, <1>3, TwoOrMore
<1> QED
  BY <1>1, <1>2, <1>4 DEF FrameOK

-----------------------------------------------------------------------------
(* The ways a rule ends its turn                                           *)

\* Reading a token keeps the position inside the source.
LEMMA AdvanceInStep ==
  ASSUME IInv, CtxOK', NEW m \in {"parse", "recover"}, NEW fs, StackOK(fs), AdvanceIn(m, fs)
  PROVE  IInv'
<1>1. CASE Tok = "EOF" /\ Finish("rejected")
  BY <1>1 DEF IInv, RestOK, Finish, Outcomes
<1>2. CASE Tok # "EOF" /\ ~(Tok = "EOF" /\ Finish("rejected"))
  <2>1. pos' = pos + 1 /\ src' = src /\ errcount' = errcount /\ errpos' = errpos
        /\ frames' = fs
    BY <1>2 DEF AdvanceIn
  <2>2. mode' = "rejected" \/ mode' = m
    BY <1>2 DEF AdvanceIn
  <2>3. pos' \in 1..Len(src) + 1
    BY <1>2, <2>1 DEF IInv, RestOK, Tok, TokAt
  <2> QED
    BY <2>1, <2>2, <2>3 DEF IInv, RestOK, Outcomes
<1> QED
  BY <1>1, <1>2 DEF AdvanceIn

LEMMA FinishStep ==
  ASSUME IInv, CtxOK', NEW outcome \in Outcomes, Finish(outcome)
  PROVE  IInv'
BY DEF IInv, RestOK, Finish

\* A rule that is no loop reads on, goes on, or reports an error.
LEMMA RuleStep ==
  ASSUME IInv, CtxOK', Head(Top).do \notin Loops,
         Sync \/ \E s \in Seq(Plain) : Advance(s) \/ Goto(s)
  PROVE  IInv'
<1>1. CASE Sync
  BY <1>1 DEF IInv, RestOK, Sync
<1>2. ASSUME NEW s \in Seq(Plain), Advance(s) PROVE IInv'
  <2>1. StackOK(Unfold(s))
    BY UnfoldStack DEF IInv
  <2> QED
    BY <1>2, <2>1, AdvanceInStep DEF Advance
<1>3. ASSUME NEW s \in Seq(Plain), Goto(s) PROVE IInv'
  <2>1. StackOK(Unfold(s))
    BY UnfoldStack DEF IInv
  <2> QED
    BY <1>3, <2>1 DEF IInv, RestOK, Goto
<1> QED
  BY <1>1, <1>2, <1>3

LEMMA KeepCtx == ASSUME CtxOK, UNCHANGED <<ctx, ctx_stmt>> PROVE CtxOK'
BY DEF CtxOK

-----------------------------------------------------------------------------
(* The rules                                                               *)

LEMMA EmptyPlain == <<>> \in Seq(Plain)
OBVIOUS

LEMMA EmptySimple == <<>> \in Seq(Simple)
OBVIOUS

LEMMA EmptyFieldless == <<>> \in Seq(Fieldless)
OBVIOUS

LEMMA SimpleRuleStep ==
  ASSUME mode = "parse", Head(Top).do \notin Special \cup Loops \cup {"consume"},
         UNCHANGED <<ctx, ctx_stmt>>,
         Sync \/ Finish("undefined") \/ \E s \in Seq(Simple) : Advance(s) \/ Goto(s)
  PROVE  SimpleStep
<1>1. Head(Top) # Consume(Tok)
  BY DEF Consume
<1> QED
  BY <1>1 DEF SimpleStep

LEMMA FieldlessRuleStep ==
  ASSUME mode = "parse", Head(Top).do \notin Special \cup Loops \cup {"consume"},
         UNCHANGED <<ctx, ctx_stmt>>,
         Sync \/ \E s \in Seq(Fieldless) : Advance(s) \/ Goto(s)
  PROVE  FieldlessStep
<1>1. Head(Top) # Consume(Tok)
  BY DEF Consume
<1> QED
  BY <1>1 DEF FieldlessStep

LEMMA FieldlessIsSimple == FieldlessStep => SimpleStep
BY FieldlessIs DEF FieldlessStep, SimpleStep

LEMMA SimpleTypes == ASSUME IInv, SimpleStep PROVE IInv'
<1>1. CtxOK'
  BY KeepCtx DEF SimpleStep, IInv
<1>2. CASE Finish("undefined")
  BY <1>1, <1>2, FinishStep DEF Outcomes
<1>3. CASE ~Finish("undefined")
  <2>1. Head(Top).do \notin Loops
    BY DEF SimpleStep
  <2>2. Sync \/ \E s \in Seq(Plain) : Advance(s) \/ Goto(s)
    BY <1>3, SimpleIsPlain DEF SimpleStep
  <2> QED
    BY <1>1, <2>1, <2>2, RuleStep
<1> QED
  BY <1>2, <1>3

\* rule_util_paramlist starts with an empty array, which has room.
LEMMA SignatureFieldless == Signature \in Seq(Fieldless)
<1>1. Consume("LPAREN") \in Fieldless
  BY FieldlessConsume DEF TokenKinds
<1>2. Counting("params", 0) \in Fieldless
  BY FieldlessParams, CapacityAssumption DEF ParamLoops
<1>3. Rule("type") \in Fieldless
  BY FieldlessRule DEF RuleNames, Special
<1> QED
  BY <1>1, <1>2, <1>3 DEF Signature

LEMMA PostfixFieldless == Postfix \in Seq(Fieldless)
<1>1. Rule("primary") \in Fieldless /\ Rule("call_tail") \in Fieldless /\ Rule("index_tail") \in Fieldless
  BY FieldlessRule DEF RuleNames, Special
<1> QED
  BY <1>1 DEF Postfix

LEMMA AssignmentFieldless == Assignment \in Seq(Fieldless)
<1>1. Rule("unary") \in Fieldless /\ Rule("binop_tail") \in Fieldless /\ Rule("assign_tail") \in Fieldless
  BY FieldlessRule DEF RuleNames, Special
<1> QED
  BY <1>1 DEF Assignment

LEMMA SignatureSimple == Signature \in Seq(Simple)
BY SignatureFieldless, FieldlessIs

\* the symbols rule_stmt puts on the stack
StatementSymbols ==
  {Consume("LITERAL_IDENT"), Consume("COLON"), Consume("ASSIGN"), Consume("COMMA"),
   Consume("KW_VARDECL"), Consume("KW_IF"), Consume("KW_WHILE"), Consume("KW_FOR"),
   Consume("KW_RETURN"), Rule("block"), Rule("type"), Rule("vardecl_init"), Rule("expr"),
   Rule("else_tail"), Rule("exprstmt")}

LEMMA StatementOf ==
  ASSUME NEW S, StatementSymbols \subseteq S, NEW k \in DOMAIN Statement
  PROVE  Statement[k] \in Seq(S)
<1>1. /\ Consume("LITERAL_IDENT") \in S /\ Consume("COLON") \in S
      /\ Consume("ASSIGN") \in S /\ Consume("COMMA") \in S
      /\ Consume("KW_VARDECL") \in S /\ Consume("KW_IF") \in S
      /\ Consume("KW_WHILE") \in S /\ Consume("KW_FOR") \in S
      /\ Consume("KW_RETURN") \in S
  BY DEF StatementSymbols
<1>2. /\ Rule("block") \in S /\ Rule("type") \in S /\ Rule("vardecl_init") \in S
      /\ Rule("expr") \in S /\ Rule("else_tail") \in S /\ Rule("exprstmt") \in S
  BY DEF StatementSymbols
<1>3. k \in {"LBRACE", "KW_VARDECL", "KW_IF", "KW_WHILE", "KW_FOR", "KW_RETURN"}
  BY DEF Statement
<1>4. CASE k = "LBRACE"
  <2>1. Statement["LBRACE"] =
          <<Rule("block")>>
    BY DEF Statement
  <2> QED
    BY <1>1, <1>2, <1>4, <2>1
<1>5. CASE k = "KW_VARDECL"
  <2>1. Statement["KW_VARDECL"] =
          <<Consume("KW_VARDECL"), Consume("LITERAL_IDENT"), Consume("COLON"),
             Rule("type"), Rule("vardecl_init")>>
    BY DEF Statement
  <2> QED
    BY <1>1, <1>2, <1>5, <2>1
<1>6. CASE k = "KW_IF"
  <2>1. Statement["KW_IF"] =
          <<Consume("KW_IF"), Rule("expr"), Rule("block"), Rule("else_tail")>>
    BY DEF Statement
  <2> QED
    BY <1>1, <1>2, <1>6, <2>1
<1>7. CASE k = "KW_WHILE"
  <2>1. Statement["KW_WHILE"] =
          <<Consume("KW_WHILE"), Rule("expr"), Rule("block")>>
    BY DEF Statement
  <2> QED
    BY <1>1, <1>2, <1>7, <2>1
<1>8. CASE k = "KW_FOR"
  <2>1. Statement["KW_FOR"] =
          <<Consume("KW_FOR"), Consume("LITERAL_IDENT"), Consume("COLON"),
             Rule("type"), Consume("ASSIGN"), Rule("expr"), Consume("COMMA"), Rule("expr"),
             Consume("COMMA"), Rule("expr"), Rule("block")>>
    BY DEF Statement
  <2> QED
    BY <1>1, <1>2, <1>8, <2>1
<1>9. CASE k = "KW_RETURN"
  <2>1. Statement["KW_RETURN"] =
          <<Consume("KW_RETURN"), Rule("exprstmt")>>
    BY DEF Statement
  <2> QED
    BY <1>1, <1>2, <1>9, <2>1
<1> QED
  BY <1>3, <1>4, <1>5, <1>6, <1>7, <1>8, <1>9

LEMMA StatementCommon == ASSUME NEW k \in DOMAIN Statement PROVE Statement[k] \in Seq(Common)
<1>1. /\ Consume("LITERAL_IDENT") \in Common /\ Consume("COLON") \in Common
      /\ Consume("ASSIGN") \in Common /\ Consume("COMMA") \in Common
      /\ Consume("KW_VARDECL") \in Common /\ Consume("KW_IF") \in Common
      /\ Consume("KW_WHILE") \in Common /\ Consume("KW_FOR") \in Common
      /\ Consume("KW_RETURN") \in Common
  BY CommonConsume DEF TokenKinds, Literals
<1>2. /\ Rule("block") \in Common /\ Rule("type") \in Common /\ Rule("vardecl_init") \in Common
      /\ Rule("expr") \in Common /\ Rule("else_tail") \in Common /\ Rule("exprstmt") \in Common
  BY CommonRule DEF RuleNames
<1>3. StatementSymbols \subseteq Common
  BY <1>1, <1>2 DEF StatementSymbols
<1> QED
  BY <1>3, StatementOf

LEMMA StatementPlain == ASSUME NEW k \in DOMAIN Statement PROVE Statement[k] \in Seq(Plain)
BY StatementCommon, CommonIsPlain

-----------------------------------------------------------------------------
(* Every action preserves the invariant.                                   *)

LEMMA ParserConsumeStep == ASSUME IInv, ParserConsume PROVE FieldlessStep
<1>1. mode = "parse" /\ Head(Top).do = "consume" /\ UNCHANGED <<ctx, ctx_stmt>>
  BY DEF ParserConsume, At
<1>2. Advance(<<>>) \/ (Head(Top) # Consume(Tok) /\ Sync)
  BY DEF ParserConsume, On, Otherwise, Consume
<1> QED
  BY <1>1, <1>2, EmptyFieldless DEF FieldlessStep, Special, Loops

LEMMA ProcBodyStep == ASSUME IInv, ProcBody PROVE IInv'
<1>1. Head(Top).do = "proc_body" /\ Head(Top).do \notin Loops
  BY DEF ProcBody, At, Loops
<1>2. CtxOK'
  BY KeepCtx DEF ProcBody, IInv
<1>3. Rule("block") \in Plain
  BY PlainRule DEF RuleNames
<1>4. /\ <<Rule("block")>> \in Seq(Plain)
  BY <1>3
<1>5. Sync \/ \E s \in Seq(Plain) : Advance(s) \/ Goto(s)
  BY <1>4, EmptyPlain DEF ProcBody, On, Otherwise
<1> QED
  BY <1>1, <1>2, <1>5, RuleStep

LEMMA ParamStep == ASSUME IInv, Param PROVE FieldlessStep
<1>1. mode = "parse" /\ Head(Top).do = "param"
  BY DEF Param, At
<1>2. UNCHANGED <<ctx, ctx_stmt>>
  BY DEF Param
<1>3. Rule("type") \in Fieldless
  BY FieldlessRule DEF RuleNames, Special
<1>4. Consume("LITERAL_IDENT") \in Fieldless /\ Consume("COLON") \in Fieldless
  BY FieldlessConsume DEF TokenKinds, Literals
<1>5. /\ <<Consume("LITERAL_IDENT"), Consume("COLON"), Rule("type")>> \in Seq(Fieldless)
  BY <1>3, <1>4
<1>6. Sync \/ \E s \in Seq(Fieldless) : Advance(s) \/ Goto(s)
  BY <1>5, EmptyFieldless DEF Param, On, Otherwise
<1> QED
  BY <1>1, <1>2, <1>6, FieldlessRuleStep DEF Special, Loops

LEMMA RuleTypeStep == ASSUME IInv, RuleType PROVE FieldlessStep
<1>1. mode = "parse" /\ Head(Top).do = "type"
  BY DEF RuleType, At
<1>2. UNCHANGED <<ctx, ctx_stmt>>
  BY DEF RuleType
<1>3. Rule("type") \in Fieldless
  BY FieldlessRule DEF RuleNames, Special
<1>4. Consume("KW_PROC") \in Fieldless
  BY FieldlessConsume DEF TokenKinds, Literals
<1>5. /\ <<Rule("type")>> \in Seq(Fieldless)
      /\ <<Consume("KW_PROC")>> \o Signature \in Seq(Fieldless)
  BY <1>3, <1>4, SignatureFieldless
<1>6. Sync \/ \E s \in Seq(Fieldless) : Advance(s) \/ Goto(s)
  BY <1>5, EmptyFieldless DEF RuleType, On, Otherwise
<1> QED
  BY <1>1, <1>2, <1>6, FieldlessRuleStep DEF Special, Loops

LEMMA RuleExprStep == ASSUME IInv, RuleExpr PROVE FieldlessStep
<1>1. mode = "parse" /\ Head(Top).do = "expr"
  BY DEF RuleExpr, At
<1>2. UNCHANGED <<ctx, ctx_stmt>>
  BY DEF RuleExpr
<1>3. Rule("values") \in Fieldless
  BY FieldlessRule DEF RuleNames, Special
<1>4. /\ <<Rule("values")>> \in Seq(Fieldless)
  BY <1>3
<1>5. Sync \/ \E s \in Seq(Fieldless) : Advance(s) \/ Goto(s)
  BY <1>4, AssignmentFieldless, EmptyFieldless DEF RuleExpr, On, Otherwise
<1> QED
  BY <1>1, <1>2, <1>5, FieldlessRuleStep DEF Special, Loops

LEMMA UnaryStep == ASSUME IInv, Unary PROVE FieldlessStep
<1>1. mode = "parse" /\ Head(Top).do = "unary"
  BY DEF Unary, At
<1>2. UNCHANGED <<ctx, ctx_stmt>>
  BY DEF Unary
<1>3. Sync \/ \E s \in Seq(Fieldless) : Advance(s) \/ Goto(s)
  BY PostfixFieldless, EmptyFieldless DEF Unary, On, Otherwise
<1> QED
  BY <1>1, <1>2, <1>3, FieldlessRuleStep DEF Special, Loops

LEMMA BinopTailStep == ASSUME IInv, BinopTail PROVE FieldlessStep
<1>1. mode = "parse" /\ Head(Top).do = "binop_tail"
  BY DEF BinopTail, At
<1>2. UNCHANGED <<ctx, ctx_stmt>>
  BY DEF BinopTail
<1>3. Rule("unary") \in Fieldless /\ Rule("binop_tail") \in Fieldless
  BY FieldlessRule DEF RuleNames, Special
<1>4. /\ <<Rule("unary"), Rule("binop_tail")>> \in Seq(Fieldless)
  BY <1>3
<1>5. Sync \/ \E s \in Seq(Fieldless) : Advance(s) \/ Goto(s)
  BY <1>4, EmptyFieldless DEF BinopTail, On, Otherwise
<1> QED
  BY <1>1, <1>2, <1>5, FieldlessRuleStep DEF Special, Loops

LEMMA AssignTailStep == ASSUME IInv, AssignTail PROVE FieldlessStep
<1>1. mode = "parse" /\ Head(Top).do = "assign_tail"
  BY DEF AssignTail, At
<1>2. UNCHANGED <<ctx, ctx_stmt>>
  BY DEF AssignTail
<1>3. Sync \/ \E s \in Seq(Fieldless) : Advance(s) \/ Goto(s)
  BY AssignmentFieldless, EmptyFieldless DEF AssignTail, On, Otherwise
<1> QED
  BY <1>1, <1>2, <1>3, FieldlessRuleStep DEF Special, Loops

LEMMA PrimaryStep == ASSUME IInv, Primary PROVE FieldlessStep
<1>1. mode = "parse" /\ Head(Top).do = "primary"
  BY DEF Primary, At
<1>2. UNCHANGED <<ctx, ctx_stmt>>
  BY DEF Primary
<1>3. Rule("grouping") \in Fieldless
  BY FieldlessRule DEF RuleNames, Special
<1>4. /\ <<Rule("grouping")>> \in Seq(Fieldless)
  BY <1>3
<1>5. Sync \/ \E s \in Seq(Fieldless) : Advance(s) \/ Goto(s)
  BY <1>4, EmptyFieldless DEF Primary, On, Otherwise
<1> QED
  BY <1>1, <1>2, <1>5, FieldlessRuleStep DEF Special, Loops

LEMMA GroupingStep == ASSUME IInv, Grouping PROVE FieldlessStep
<1>1. mode = "parse" /\ Head(Top).do = "grouping"
  BY DEF Grouping, At
<1>2. UNCHANGED <<ctx, ctx_stmt>>
  BY DEF Grouping
<1>3. Rule("expr") \in Fieldless
  BY FieldlessRule DEF RuleNames, Special
<1>4. Consume("RPAREN") \in Fieldless
  BY FieldlessConsume DEF TokenKinds, Literals
<1>5. /\ <<Rule("expr"), Consume("RPAREN")>> \in Seq(Fieldless)
  BY <1>3, <1>4
<1>6. Sync \/ \E s \in Seq(Fieldless) : Advance(s) \/ Goto(s)
  BY <1>5, EmptyFieldless DEF Grouping, On, Otherwise
<1> QED
  BY <1>1, <1>2, <1>6, FieldlessRuleStep DEF Special, Loops

LEMMA CallTailStep == ASSUME IInv, CallTail PROVE FieldlessStep
<1>1. mode = "parse" /\ Head(Top).do = "call_tail"
  BY DEF CallTail, At
<1>2. UNCHANGED <<ctx, ctx_stmt>>
  BY DEF CallTail
<1>3. Rule("args") \in Fieldless
  BY FieldlessRule DEF RuleNames, Special
<1>4. /\ <<Rule("args")>> \in Seq(Fieldless)
  BY <1>3
<1>5. Sync \/ \E s \in Seq(Fieldless) : Advance(s) \/ Goto(s)
  BY <1>4, EmptyFieldless DEF CallTail, On, Otherwise
<1> QED
  BY <1>1, <1>2, <1>5, FieldlessRuleStep DEF Special, Loops

LEMMA IndexTailStep == ASSUME IInv, IndexTail PROVE FieldlessStep
<1>1. mode = "parse" /\ Head(Top).do = "index_tail"
  BY DEF IndexTail, At
<1>2. UNCHANGED <<ctx, ctx_stmt>>
  BY DEF IndexTail
<1>3. Rule("expr") \in Fieldless
  BY FieldlessRule DEF RuleNames, Special
<1>4. Consume("RBRACKET") \in Fieldless
  BY FieldlessConsume DEF TokenKinds, Literals
<1>5. /\ <<Rule("expr"), Consume("RBRACKET")>> \in Seq(Fieldless)
  BY <1>3, <1>4
<1>6. Sync \/ \E s \in Seq(Fieldless) : Advance(s) \/ Goto(s)
  BY <1>5, EmptyFieldless DEF IndexTail, On, Otherwise
<1> QED
  BY <1>1, <1>2, <1>6, FieldlessRuleStep DEF Special, Loops

LEMMA ExprStmtStep == ASSUME IInv, ExprStmt PROVE FieldlessStep
<1>1. mode = "parse" /\ Head(Top).do = "exprstmt"
  BY DEF ExprStmt, At
<1>2. UNCHANGED <<ctx, ctx_stmt>>
  BY DEF ExprStmt
<1>3. Rule("expr") \in Fieldless
  BY FieldlessRule DEF RuleNames, Special
<1>4. Consume("SEMICOLON") \in Fieldless
  BY FieldlessConsume DEF TokenKinds, Literals
<1>5. /\ <<Rule("expr"), Consume("SEMICOLON")>> \in Seq(Fieldless)
  BY <1>3, <1>4
<1>6. Sync \/ \E s \in Seq(Fieldless) : Advance(s) \/ Goto(s)
  BY <1>5, EmptyFieldless DEF ExprStmt, On, Otherwise
<1> QED
  BY <1>1, <1>2, <1>6, FieldlessRuleStep DEF Special, Loops

LEMMA VarDeclInitStep == ASSUME IInv, VarDeclInit PROVE FieldlessStep
<1>1. mode = "parse" /\ Head(Top).do = "vardecl_init"
  BY DEF VarDeclInit, At
<1>2. UNCHANGED <<ctx, ctx_stmt>>
  BY DEF VarDeclInit
<1>3. Rule("expr") \in Fieldless
  BY FieldlessRule DEF RuleNames, Special
<1>4. Consume("ASSIGN") \in Fieldless /\ Consume("SEMICOLON") \in Fieldless
  BY FieldlessConsume DEF TokenKinds, Literals
<1>5. /\ <<Consume("ASSIGN"), Rule("expr"), Consume("SEMICOLON")>> \in Seq(Fieldless)
  BY <1>3, <1>4
<1>6. Sync \/ \E s \in Seq(Fieldless) : Advance(s) \/ Goto(s)
  BY <1>5, EmptyFieldless DEF VarDeclInit, On, Otherwise
<1> QED
  BY <1>1, <1>2, <1>6, FieldlessRuleStep DEF Special, Loops

LEMMA ElseTailStep == ASSUME IInv, ElseTail PROVE IInv'
<1>1. Head(Top).do = "else_tail" /\ Head(Top).do \notin Loops
  BY DEF ElseTail, At, Loops
<1>2. CtxOK'
  BY KeepCtx DEF ElseTail, IInv
<1>3. Rule("block") \in Plain
  BY PlainRule DEF RuleNames
<1>4. /\ <<Rule("block")>> \in Seq(Plain)
  BY <1>3
<1>5. Sync \/ \E s \in Seq(Plain) : Advance(s) \/ Goto(s)
  BY <1>4, EmptyPlain DEF ElseTail, On, Otherwise
<1> QED
  BY <1>1, <1>2, <1>5, RuleStep

\* The counter of a parameter list in hand is below the capacity.
LEMMA ParamsStep == ASSUME IInv, Params PROVE FieldlessStep
<1>1. mode = "parse" /\ Head(Top).do = "params"
  BY DEF Params, At
<1>2. UNCHANGED <<ctx, ctx_stmt>>
  BY DEF Params
<1>3. Head(Top).n \in Nat /\ Head(Top).n < MAX_PARAM_COUNT
  BY <1>1, HeadPlain DEF IInv, Plain, ParamLoops, Loops
<1>4. Rule("param") \in Fieldless
  BY FieldlessRule DEF RuleNames, Special
<1>5. Counting("param_stored", Head(Top).n) \in Fieldless
  BY <1>3, FieldlessParams DEF ParamLoops
<1>6. <<Rule("param"), Counting("param_stored", Head(Top).n)>> \in Seq(Fieldless)
  BY <1>4, <1>5
<1>7. Sync \/ \E s \in Seq(Fieldless) : Advance(s) \/ Goto(s)
  BY <1>6, EmptyFieldless DEF Params, On, Otherwise
<1> QED
  BY <1>1, <1>2, <1>7, FieldlessRuleStep DEF Special, Loops

\* The list goes on only below the limit: the next parameter has a place.
LEMMA ParamStoredStep == ASSUME IInv, ParamStored PROVE FieldlessStep
<1> DEFINE count == Head(Top).n + 1
<1>1. mode = "parse" /\ Head(Top).do = "param_stored"
  BY DEF ParamStored, At
<1>2. UNCHANGED <<ctx, ctx_stmt>>
  BY DEF ParamStored
<1>3. Head(Top).n \in Nat
  BY <1>1, HeadPlain DEF IInv, Plain, Loops
<1>4. CASE ParamLimitReached(count)
  <2>1. Sync
    BY <1>4 DEF ParamStored
  <2> QED
    BY <1>1, <1>2, <2>1, FieldlessRuleStep DEF Special, Loops
<1>5. CASE ~ParamLimitReached(count)
  <2>1. count \in Nat /\ count < MAX_PARAM_COUNT
    BY <1>3, <1>5, CapacityAssumption DEF ParamLimitReached
  <2>2. Counting("params", count) \in Fieldless
    BY <2>1, FieldlessParams DEF ParamLoops
  <2>3. <<Counting("params", count)>> \in Seq(Fieldless)
    BY <2>2
  <2>4. \E s \in Seq(Fieldless) : Advance(s) \/ Goto(s)
    BY <1>5, <2>3 DEF ParamStored, On, Otherwise
  <2> QED
    BY <1>1, <1>2, <2>4, FieldlessRuleStep DEF Special, Loops
<1> QED
  BY <1>4, <1>5

LEMMA FieldsStep == ASSUME IInv, Fields PROVE SimpleStep
<1>1. mode = "parse" /\ Head(Top).do = "fields"
  BY DEF Fields, At
<1>2. UNCHANGED <<ctx, ctx_stmt>>
  BY DEF Fields
<1>3. Head(Top).n \in Nat
  BY <1>1, HeadPlain DEF IInv, Plain, Loops
<1>4. Rule("param") \in Simple /\ Counting("field_stored", Head(Top).n) \in Simple
  BY <1>3, SimpleRule, SimpleFields DEF RuleNames, FieldLoops, Special
<1>5. <<Rule("param"), Counting("field_stored", Head(Top).n)>> \in Seq(Simple)
  BY <1>4
<1>6. Sync \/ \E s \in Seq(Simple) : Advance(s) \/ Goto(s)
  BY <1>5, EmptySimple DEF Fields, On, Otherwise
<1> QED
  BY <1>1, <1>2, <1>6, SimpleRuleStep DEF Special, Loops

LEMMA FieldStoredStep == ASSUME IInv, FieldStored PROVE SimpleStep
<1> DEFINE count == Head(Top).n + 1
<1>1. mode = "parse" /\ Head(Top).do = "field_stored"
  BY DEF FieldStored, At
<1>2. UNCHANGED <<ctx, ctx_stmt>>
  BY DEF FieldStored
<1>3. count \in Nat
  <2>1. Head(Top).n \in Nat
    BY <1>1, HeadPlain DEF IInv, Plain, Loops
  <2> QED
    BY <2>1
<1>4. <<Counting("fields", count)>> \in Seq(Simple)
  BY <1>3, SimpleFields DEF FieldLoops
<1>5. Finish("undefined") \/ \E s \in Seq(Simple) : Advance(s) \/ Goto(s)
  BY <1>4 DEF FieldStored, On, Otherwise
<1> QED
  BY <1>1, <1>2, <1>5, SimpleRuleStep DEF Special, Loops

LEMMA ListLoopStep ==
  ASSUME IInv, NEW loop \in RuleNames \ Special, NEW sep \in RuleNames \ Special, NEW close,
         NEW after \in Seq(Fieldless), ListLoop(loop, sep, close, after)
  PROVE  FieldlessStep
<1>1. mode = "parse" /\ Head(Top).do \in {loop, sep} /\ UNCHANGED <<ctx, ctx_stmt>>
  BY DEF ListLoop, At
<1>2. Rule("expr") \in Fieldless /\ Rule(loop) \in Fieldless /\ Rule(sep) \in Fieldless
  BY FieldlessRule DEF RuleNames, Special
<1>3. <<Rule("expr"), Rule(sep)>> \in Seq(Fieldless) /\ <<Rule(loop)>> \in Seq(Fieldless)
  BY <1>2
<1>4. \E s \in Seq(Fieldless) : Advance(s) \/ Goto(s)
  BY <1>3 DEF ListLoop, On, Otherwise
<1> QED
  BY <1>1, <1>4, FieldlessRuleStep DEF RuleNames, Loops

LEMMA ArgsStep == ASSUME IInv, Args PROVE FieldlessStep
<1>1. {"args", "args_sep"} \subseteq RuleNames \ Special
  BY DEF RuleNames, Special
<1> QED
  BY <1>1, EmptyFieldless, ListLoopStep DEF Args

LEMMA ValuesStep == ASSUME IInv, Values PROVE FieldlessStep
<1>1. {"values", "values_sep"} \subseteq RuleNames \ Special
  BY DEF RuleNames, Special
<1>2. Rule("type") \in Fieldless
  BY FieldlessRule DEF RuleNames, Special
<1>3. <<Rule("type")>> \in Seq(Fieldless)
  BY <1>2
<1> QED
  BY <1>1, <1>3, ListLoopStep DEF Values

LEMMA RuleDeclStep == ASSUME IInv, RuleDecl PROVE IInv'
<1>1. Head(Top).do = "decl" /\ Head(Top).do \notin Loops
  BY DEF RuleDecl, At, Loops
<1>2. CtxOK'
  BY DEF RuleDecl, IInv, CtxOK
<1>3. /\ Consume("KW_PROC") \in Plain /\ Consume("LITERAL_IDENT") \in Plain
      /\ Consume("KW_TABLE") \in Plain /\ Consume("LBRACE") \in Plain
  BY PlainConsume DEF TokenKinds, Literals
<1>4. Rule("proc_body") \in Plain
  BY PlainRule DEF RuleNames
<1> DEFINE proc == <<Consume("KW_PROC"), Consume("LITERAL_IDENT")>>
                   \o Signature \o <<Rule("proc_body")>>
           table(c) == <<Consume("KW_TABLE"), Consume("LITERAL_IDENT"),
                         Consume("LBRACE"), Counting("fields", c)>>
<1>5. proc \in Seq(Plain)
  <2>1. <<Consume("KW_PROC"), Consume("LITERAL_IDENT")>> \in Seq(Plain)
        /\ <<Rule("proc_body")>> \in Seq(Plain)
    BY <1>3, <1>4
  <2> QED
    BY <2>1, SignatureSimple, SimpleIsPlain
<1>6. ASSUME NEW c \in UninitCounts PROVE table(c) \in Seq(Plain)
  <2>1. Counting("fields", c) \in Plain
    BY UninitAssumption, PlainFields DEF FieldLoops
  <2> QED
    BY <1>3, <2>1
<1>7. Sync \/ Goto(proc) \/ \E c \in UninitCounts : Goto(table(c))
  BY DEF RuleDecl, On, Otherwise
<1> HIDE DEF proc, table
<1>8. Sync \/ \E s \in Seq(Plain) : Advance(s) \/ Goto(s)
  BY <1>5, <1>6, <1>7
<1> QED
  BY <1>1, <1>2, <1>8, RuleStep

LEMMA RuleStmtStep == ASSUME IInv, RuleStmt PROVE IInv'
<1>1. Head(Top).do = "stmt" /\ Head(Top).do \notin Loops
  BY DEF RuleStmt, At, Loops
<1>2. CtxOK'
  BY DEF RuleStmt, EnterStmtContext, IInv, CtxOK
<1>3. Rule("exprstmt") \in Plain
  BY PlainRule DEF RuleNames
<1>4. <<Rule("exprstmt")>> \in Seq(Plain)
  BY <1>3
<1>5. Sync \/ \E s \in Seq(Plain) : Advance(s) \/ Goto(s)
  BY <1>4, StatementPlain DEF RuleStmt, On, Otherwise
<1> QED
  BY <1>1, <1>2, <1>5, RuleStep

\* One more turn of a loop.
LEMMA LoopTurnStep ==
  ASSUME IInv, CtxOK', NEW r \in Loops, Head(Top).do = r, NEW t \in RuleNames,
         Goto(<<Rule(t), Rule(r)>>)
  PROVE  IInv'
<1> DEFINE s == <<Rule(t)>>
<1>1. s \in Seq(Plain)
  BY PlainRule
<1>2. LoopAt(Len(frames)) = Rule(r)
  <2>1. Head(Top) = LoopAt(Len(frames))
    BY TopFrame, LoopAlone DEF IInv
  <2> QED
    BY <2>1 DEF LoopAt, Rule, Loops
<1>3. <<Rule(t), Rule(r)>> = Append(s, LoopAt(Len(frames)))
  BY <1>2
<1>4. StackOK(Unfold(<<Rule(t), Rule(r)>>))
  <2>1. StackOK(Unfold(Append(s, LoopAt(Len(frames)))))
    BY <1>1, UnfoldLoop DEF IInv
  <2> QED
    BY <1>3, <2>1
<1> QED
  BY <1>4 DEF IInv, RestOK, Goto

LEMMA RuleProgramStep == ASSUME IInv, RuleProgram PROVE IInv'
<1>1. CtxOK'
  BY KeepCtx DEF RuleProgram, IInv
<1>2. CASE Finish("accepted") \/ Finish("rejected")
  BY <1>1, <1>2, FinishStep DEF Outcomes
<1>3. CASE Goto(<<Rule("decl"), Rule("program")>>)
  <2>1. "program" \in Loops /\ "decl" \in RuleNames /\ Head(Top).do = "program"
    BY DEF RuleProgram, At, Loops, RuleNames
  <2> QED
    BY <1>1, <1>3, <2>1, LoopTurnStep
<1> QED
  BY <1>2, <1>3 DEF RuleProgram, On, Otherwise

\* rule_stmt_block: its frame waits for the brace, then for the statements.
LEMMA BlockStep == ASSUME IInv, Block PROVE IInv'
<1>1. Head(Top).do \notin Loops
  BY DEF Block, At, Loops
<1>2. CtxOK'
  BY KeepCtx DEF Block, IInv
<1>3. StackOK(Unfold(<<>>)) /\ Len(Unfold(<<>>)) = Len(frames)
      /\ Len(frames) \in Nat /\ Len(frames) >= 1
  <2>1. StackOK(Unfold(<<>>)) /\ Len(frames) \in Nat /\ Len(frames) >= 1
    BY <1>1, EmptyPlain, UnfoldStack, TopFrame DEF IInv
  <2>2. frames \in Seq(Seq(Plain \cup {Rule("program"), Rule("stmts")}))
    BY DEF IInv, StackOK
  <2> QED
    BY <2>1, <2>2 DEF Unfold
<1>4. FrameOK(Len(frames) + 1, <<Consume("LBRACE"), Rule("stmts")>>)
  <2>1. Consume("LBRACE") \in Plain
    BY PlainConsume DEF TokenKinds
  <2>2. LoopAt(Len(frames) + 1) = Rule("stmts") /\ Len(frames) + 1 \in Nat
    BY <1>3 DEF LoopAt
  <2>3. FrameOK(Len(frames) + 1, <<Consume("LBRACE"), LoopAt(Len(frames) + 1)>>)
    BY <2>1, <2>2, PairFrame
  <2> QED
    BY <2>2, <2>3
<1>5. StackOK(frames')
  BY <1>3, <1>4, PushFrame DEF Block
<1> QED
  BY <1>2, <1>5 DEF Block, IInv, RestOK

\* The loop of rule_stmt_block runs in a frame above that of rule_program, so
\* "}" leaves a frame behind.
LEMMA BlockLoopStep == ASSUME IInv, BlockLoop PROVE IInv'
<1>1. Head(Top).do = "stmts" /\ Head(Top).do \in Loops
  BY DEF BlockLoop, At, Loops
<1>2. Len(frames) \in Nat /\ Len(frames) >= 1 /\ Head(Top) = LoopAt(Len(frames))
  BY <1>1, TopFrame, LoopAlone DEF IInv
<1>3. Len(frames) # 1
  <2>1. LoopAt(1).do = "program"
    BY DEF LoopAt, Rule
  <2> QED
    BY <1>1, <1>2, <2>1
<1>4. CtxOK'
  BY <1>2, <1>3 DEF BlockLoop, SetJmp, IInv, CtxOK
<1>5. CASE AdvanceIn("parse", Front(frames))
  <2>1. Len(frames) - 1 \in 1..Len(frames)
    <3>1. Len(frames) \in Nat /\ Len(frames) >= 1
      BY <1>2
    <3> QED
      BY <1>3, <3>1, TwoOrMore
  <2>2. StackOK(Front(frames))
    BY <2>1, CutFrames DEF IInv, Front
  <2> QED
    BY <1>4, <1>5, <2>2, AdvanceInStep
<1>6. CASE Finish("rejected")
  BY <1>4, <1>6, FinishStep DEF Outcomes
<1>7. CASE Goto(<<Rule("stmt"), Rule("stmts")>>)
  <2>1. "stmts" \in Loops /\ "stmt" \in RuleNames
    BY DEF Loops, RuleNames
  <2> QED
    BY <1>1, <1>4, <1>7, <2>1, LoopTurnStep
<1> QED
  BY <1>5, <1>6, <1>7 DEF BlockLoop, On, Otherwise

\* longjmp(ctx_decl) leaves the frame of rule_program, at its next declaration.
LEMMA RecoverDeclStep == ASSUME IInv, RecoverDecl PROVE IInv'
<1>1. CtxOK'
  BY KeepCtx DEF RecoverDecl, IInv
<1>2. CASE AdvanceIn("recover", frames)
  BY <1>1, <1>2, AdvanceInStep DEF IInv
<1>3. CASE frames' = << <<Rule("decl"), Rule("program")>> >> /\ mode' = "parse"
           /\ UNCHANGED <<src, pos, errcount, errpos>>
  <2> DEFINE fr == <<Rule("decl"), Rule("program")>>
  <2>1. Rule("decl") \in Plain
    BY PlainRule DEF RuleNames
  <2>2. LoopAt(1) = Rule("program")
    BY DEF LoopAt
  <2>3. FrameOK(1, <<Rule("decl"), LoopAt(1)>>)
    BY <2>1, PairFrame
  <2>4. FrameOK(1, fr)
    BY <2>2, <2>3
  <2>5. fr \in Seq(Plain \cup {Rule("program"), Rule("stmts")})
    BY <2>4, FrameIsSeq
  <2> HIDE DEF fr
  <2>6. StackOK(<<fr>>)
    BY <2>4, <2>5 DEF StackOK
  <2> QED
    BY <1>1, <1>3, <2>6 DEF fr, IInv, RestOK
<1> QED
  BY <1>2, <1>3 DEF RecoverDecl, Otherwise

\* longjmp(ctx_stmt) cuts the stack at a frame of rule_stmt_block.
LEMMA RecoverStmtStep == ASSUME IInv, RecoverStmt PROVE IInv'
<1> DEFINE f == ctx_stmt.frame
           cut == SubSeq(frames, 1, f - 1)
<1>1. CtxOK'
  BY KeepCtx DEF RecoverStmt, IInv
<1>2. CASE AdvanceIn("recover", frames)
  BY <1>1, <1>2, AdvanceInStep DEF IInv
<1>3. CASE Finish("undefined")
  BY <1>1, <1>3, FinishStep DEF Outcomes
<1>4. CASE f \in 1..Len(frames) /\ AdvanceIn("parse", Append(cut, <<Rule("stmts")>>))
  <2>1. f \in Nat \ {1} /\ Len(frames) \in Nat
    BY TopFrame DEF IInv, CtxOK
  <2> HIDE DEF f
  <2>2. f - 1 \in 1..Len(frames) /\ f - 1 + 1 = f
    BY <1>4, <2>1
  <2>3. StackOK(cut) /\ Len(cut) = f - 1
    BY <2>2, CutFrames DEF IInv
  <2>4. FrameOK(f, <<Rule("stmts")>>)
    <3>1. LoopAt(f) = Rule("stmts") /\ Append(<<>>, Rule("stmts")) = <<Rule("stmts")>>
      BY <2>1 DEF LoopAt
    <3> QED
      BY <2>1, <3>1, EmptyPlain, LoopFrame
  <2> HIDE DEF cut
  <2>5. StackOK(Append(cut, <<Rule("stmts")>>))
    BY <2>2, <2>3, <2>4, PushFrame
  <2> QED
    BY <1>1, <1>4, <2>5, AdvanceInStep
<1> QED
  BY <1>2, <1>3, <1>4 DEF RecoverStmt, Otherwise

-----------------------------------------------------------------------------
(* The theorems                                                            *)

\* The first token is there before any rule runs.
LEMMA InitIInv == ASSUME Init PROVE IInv
<1> DEFINE fr == <<Rule("program")>>
<1>1. src \in Seq(TokenKinds \cup {LexError})
  BY SourcesAssumption DEF Init
<1>2. FrameOK(1, fr)
  <2>1. Append(<<>>, LoopAt(1)) = fr
    BY DEF LoopAt
  <2> QED
    BY <2>1, EmptyPlain, LoopFrame
<1>3. fr \in Seq(Plain \cup {Rule("program"), Rule("stmts")})
  BY <1>2, FrameIsSeq
<1> HIDE DEF fr
<1>4. StackOK(<<fr>>)
  BY <1>2, <1>3 DEF StackOK
<1>5. Len(src) \in Nat
  BY <1>1
<1>6. RestOK
  BY <1>1, <1>5 DEF Init, RestOK, Outcomes
<1>7. CtxOK
  BY DEF Init, CtxOK
<1> QED
  BY <1>4, <1>6, <1>7 DEF fr, Init, IInv

\* The steps the proofs distinguish.
LEMMA RuleSteps ==
  ASSUME IInv, [Next]_vars
  PROVE  \/ FieldlessStep \/ Fields \/ FieldStored
         \/ RuleProgram \/ RuleDecl \/ ProcBody
         \/ Block \/ BlockLoop \/ RuleStmt \/ ElseTail
         \/ Recovery
         \/ UNCHANGED vars
<1>1. CASE ParserConsume
  BY <1>1, ParserConsumeStep
<1>2. CASE Declaration
  BY <1>2, ParamsStep, ParamStoredStep, ParamStep, RuleTypeStep DEF Declaration
<1>3. CASE Expression
  BY <1>3, RuleExprStep, UnaryStep, BinopTailStep, AssignTailStep, PrimaryStep,
     GroupingStep, CallTailStep, IndexTailStep, ArgsStep, ValuesStep DEF Expression
<1>4. CASE Stmt
  BY <1>4, ExprStmtStep, VarDeclInitStep DEF Stmt
<1> QED
  BY <1>1, <1>2, <1>3, <1>4 DEF Next, Terminated

LEMMA Steps ==
  ASSUME IInv, [Next]_vars
  PROVE  \/ SimpleStep
         \/ RuleProgram \/ RuleDecl \/ ProcBody
         \/ Block \/ BlockLoop \/ RuleStmt \/ ElseTail
         \/ Recovery
         \/ UNCHANGED vars
BY RuleSteps, FieldlessIsSimple, FieldsStep, FieldStoredStep

LEMMA NextIInv == ASSUME IInv, [Next]_vars PROVE IInv'
<1>1. CASE SimpleStep
  BY <1>1, SimpleTypes
<1>2. CASE RuleProgram \/ RuleDecl \/ ProcBody
  BY <1>2, RuleProgramStep, RuleDeclStep, ProcBodyStep
<1>3. CASE Block \/ BlockLoop \/ RuleStmt \/ ElseTail
  BY <1>3, BlockStep, BlockLoopStep, RuleStmtStep, ElseTailStep
<1>4. CASE Recovery
  BY <1>4, RecoverDeclStep, RecoverStmtStep DEF Recovery
<1>5. CASE UNCHANGED vars
  BY <1>5 DEF vars, IInv, RestOK, CtxOK, StackOK
<1> QED
  BY <1>1, <1>2, <1>3, <1>4, <1>5, Steps

\* The inductive invariant holds in every reachable state of the parser.
THEOREM Invariance == Spec => []IInv
BY InitIInv, NextIInv, PTL DEF Spec

\* The parser never runs a frame to its end nor returns from rule_program while
\* a rule is at hand, and its position stays within the source or at its end,
\* whatever the token stream.
THEOREM TypeCorrect == Spec => []TypeOK
<1>1. ASSUME IInv PROVE TypeOK
  <2>1. frames # <<>> /\ \A i \in DOMAIN frames : frames[i] # <<>>
    <3>1. DOMAIN frames = 1..Len(frames)
      BY <1>1 DEF IInv, StackOK
    <3> QED
      BY <1>1, <3>1 DEF IInv, StackOK, FrameOK
  <2> QED
    BY <1>1, <2>1 DEF IInv, RestOK, CtxOK, TypeOK
<1> QED
  BY <1>1, Invariance, PTL

\* rule_util_paramlist writes inside ProcSignature.params, whatever its capacity
\* and however many procedure types are nested in each other's parameters.
THEOREM ParamListInBounds == Spec => []ParamsInBounds
<1>1. ASSUME IInv, NEW i \in DOMAIN frames, NEW j \in DOMAIN frames[i],
             frames[i][j].do \in ParamLoops
      PROVE  frames[i][j].n < MAX_PARAM_COUNT
  <2>1. DOMAIN frames = 1..Len(frames)
    BY <1>1 DEF IInv, StackOK
  <2>2. FrameOK(i, frames[i])
    BY <1>1, <2>1 DEF IInv, StackOK
  <2>3. frames[i] \in Seq(Plain \cup {LoopAt(i)})
    BY <2>2 DEF FrameOK
  <2>4. frames[i][j] \in Plain \cup {LoopAt(i)}
    BY <1>1, <2>3
  <2>5. LoopAt(i).do \notin ParamLoops
    BY LoopInLoops DEF Loops, ParamLoops
  <2> QED
    BY <1>1, <2>4, <2>5 DEF Plain
<1>2. ASSUME IInv PROVE ParamsInBounds
  BY <1>1, <1>2 DEF ParamsInBounds, ParamLoops
<1> QED
  BY <1>2, Invariance, PTL

-----------------------------------------------------------------------------
(* The frames after a step                                                 *)

Symbol == Plain \cup {Rule("program"), Rule("stmts")}

LEMMA FramesAre ==
  ASSUME IInv
  PROVE  /\ frames \in Seq(Seq(Symbol)) /\ Len(frames) \in Nat /\ Len(frames) >= 1
         /\ \A i \in 1..Len(frames) : frames[i] # <<>>
         /\ Top = frames[Len(frames)] /\ Top \in Seq(Symbol) /\ Top # <<>>
<1>1. /\ Len(frames) \in Nat /\ Len(frames) >= 1 /\ Top = frames[Len(frames)]
      /\ frames \in Seq(Seq(Symbol))
  BY TopFrame DEF IInv, StackOK, Symbol
<1>2. \A i \in 1..Len(frames) : frames[i] # <<>>
  BY DEF IInv, StackOK, FrameOK
<1>3. Top \in Seq(Symbol)
  BY <1>1
<1> QED
  BY <1>1, <1>2, <1>3

LEMMA Unfolded ==
  ASSUME IInv, NEW s \in Seq(Symbol), frames' = Unfold(s)
  PROVE  /\ Len(frames') = Len(frames) /\ Top' = s \o Tail(Top)
         /\ frames' \in Seq(Seq(Symbol))
         /\ \A i \in 1..Len(frames) - 1 : frames'[i] = frames[i]
<1> DEFINE new == s \o Tail(Top)
           F   == Seq(Symbol)
           n   == Len(frames)
<1>1. frames \in Seq(F) /\ n \in Nat /\ n >= 1 /\ Top = frames[n] /\ new \in F
  BY FramesAre
<1>2. frames' = [frames EXCEPT ![n] = new]
  BY <1>1 DEF Unfold
<1> HIDE DEF new, F
<1>3. /\ frames' \in Seq(F) /\ Len(frames') = n /\ frames'[n] = new
      /\ \A i \in 1..n - 1 : frames'[i] = frames[i]
  BY <1>1, <1>2
<1>4. Top' = new
  BY <1>1, <1>3 DEF Top, Last
<1> QED
  BY <1>3, <1>4 DEF new, F

-----------------------------------------------------------------------------
(* One error for a token                                                   *)
(*                                                                         *)
(* An error at the token where the last one was reported would break       *)
(* OneErrorPerToken.  Recovery leaves that token behind, or stops at a     *)
(* keyword that the next declaration begins with and consumes.             *)

Progress ==
  /\ errpos <= pos
  /\ mode = "parse" =>
       \/ errpos < pos
       \/ Tok \in RecoverDeclTokens /\ (Head(Top).do = "decl" \/ Head(Top) = Consume(Tok))

\* an error is reported, or none is and the parser stays where it is
Still == Sync \/ UNCHANGED <<pos, errcount, errpos>>

\* no error is reported, or it is at a token behind the last one's
ErrorForward == errcount' # errcount => errpos < pos

LEMMA ProgressRead ==
  ASSUME IInv, Progress, NEW m, NEW fs, AdvanceIn(m, fs)
  PROVE  Progress' /\ ErrorForward
<1>1. pos \in Nat /\ errpos \in Nat
  BY DEF IInv, RestOK
<1>2. CASE Finish("rejected")
  BY <1>2 DEF Finish, Progress, ErrorForward
<1>3. CASE pos' = pos + 1 /\ errpos' = errpos /\ errcount' = errcount
  BY <1>1, <1>3 DEF Progress, ErrorForward
<1> QED
  BY <1>2, <1>3 DEF AdvanceIn

LEMMA ProgressKept ==
  ASSUME IInv, Progress, errpos < pos, Still
  PROVE  Progress' /\ ErrorForward
<1>1. pos \in Nat /\ errpos \in Nat
  BY DEF IInv, RestOK
<1>2. CASE Sync
  BY <1>1, <1>2 DEF Sync, Progress, ErrorForward
<1>3. CASE UNCHANGED <<pos, errcount, errpos>>
  BY <1>1, <1>3 DEF Progress, ErrorForward
<1> QED
  BY <1>2, <1>3 DEF Still

LEMMA ProgressDecl == ASSUME IInv, Progress, RuleDecl PROVE Progress' /\ ErrorForward
<1>1. CASE Sync /\ Tok \notin RecoverDeclTokens
  <2>1. errpos < pos
    BY <1>1 DEF Progress, RuleDecl, At
  <2> QED
    BY <1>1, <2>1, ProgressKept DEF Still
<1>2. ASSUME NEW s \in Seq(Symbol), s # <<>>, Head(s) = Consume(Tok),
             Tok \in RecoverDeclTokens, Goto(s)
      PROVE  Progress' /\ ErrorForward
  <2>1. Top' = s \o Tail(Top)
    BY <1>2, Unfolded DEF Goto
  <2>2. Head(Top') = Consume(Tok)
    BY <1>2, <2>1, FramesAre
  <2>3. pos' = pos /\ UNCHANGED <<errcount, errpos>> /\ Tok' = Tok
    BY <1>2 DEF Goto, Tok, TokAt
  <2> QED
    BY <1>2, <2>2, <2>3 DEF Progress, ErrorForward
<1>3. /\ Consume("KW_PROC") \in Symbol /\ Consume("LITERAL_IDENT") \in Symbol
      /\ Consume("KW_TABLE") \in Symbol /\ Consume("LBRACE") \in Symbol
      /\ Rule("proc_body") \in Symbol
  BY PlainConsume, PlainRule DEF Symbol, TokenKinds, Literals, RuleNames
<1>4. Signature \in Seq(Symbol)
  BY SignatureSimple, SimpleIsPlain, SeqWider DEF Symbol
<1> DEFINE proc == <<Consume("KW_PROC"), Consume("LITERAL_IDENT")>>
                   \o Signature \o <<Rule("proc_body")>>
           table(c) == <<Consume("KW_TABLE"), Consume("LITERAL_IDENT"),
                         Consume("LBRACE"), Counting("fields", c)>>
<1>5. CASE Tok = "KW_PROC" /\ Goto(proc)
  <2> DEFINE u == <<Consume("KW_PROC"), Consume("LITERAL_IDENT")>>
             v == <<Rule("proc_body")>>
  <2>1. u \in Seq(Symbol) /\ v \in Seq(Symbol) /\ u # <<>> /\ Head(u) = Consume("KW_PROC")
    BY <1>3
  <2> HIDE DEF u, v
  <2>2. u \o Signature \o v \in Seq(Symbol) /\ u \o Signature \o v # <<>>
        /\ Head(u \o Signature \o v) = Consume("KW_PROC")
    BY <1>4, <2>1
  <2>3. proc = u \o Signature \o v
    BY DEF u, v
  <2> HIDE DEF proc
  <2>4. proc \in Seq(Symbol) /\ proc # <<>> /\ Head(proc) = Consume(Tok)
    BY <1>5, <2>2, <2>3
  <2> QED
    BY <1>2, <1>5, <2>4 DEF RecoverDeclTokens
<1>6. ASSUME NEW c \in UninitCounts, Tok = "KW_TABLE", Goto(table(c))
      PROVE  Progress' /\ ErrorForward
  <2>1. Counting("fields", c) \in Symbol
    BY UninitAssumption, PlainFields DEF FieldLoops, Symbol
  <2>2. table(c) \in Seq(Symbol) /\ table(c) # <<>> /\ Head(table(c)) = Consume("KW_TABLE")
    BY <1>3, <2>1
  <2> HIDE DEF table
  <2>3. Head(table(c)) = Consume(Tok)
    BY <1>6, <2>2
  <2> QED
    BY <1>2, <1>6, <2>2, <2>3 DEF RecoverDeclTokens
<1>7. \/ Sync /\ Tok \notin RecoverDeclTokens
      \/ Tok = "KW_PROC" /\ Goto(proc)
      \/ \E c \in UninitCounts : Tok = "KW_TABLE" /\ Goto(table(c))
  BY DEF RuleDecl, On, Otherwise, RecoverDeclTokens
<1> HIDE DEF proc, table
<1> QED
  BY <1>1, <1>5, <1>6, <1>7

LEMMA ProgressRecovers == ASSUME IInv, Progress, Recovery PROVE Progress' /\ ErrorForward
<1>1. pos \in Nat /\ errpos \in Nat
  BY DEF IInv, RestOK
<1>2. ASSUME NEW m, NEW fs, AdvanceIn(m, fs) PROVE Progress' /\ ErrorForward
  BY <1>2, ProgressRead
<1>3. CASE Finish("undefined")
  BY <1>3 DEF Finish, Progress, ErrorForward
<1>4. CASE /\ Tok \in RecoverDeclTokens /\ frames' = << <<Rule("decl"), Rule("program")>> >>
           /\ UNCHANGED <<src, pos, errcount, errpos>>
  <2>1. Top' = <<Rule("decl"), Rule("program")>>
    BY <1>4 DEF Top, Last
  <2>2. Head(Top').do = "decl"
    <3>1. Head(Top') = Rule("decl")
      BY <2>1
    <3>2. Rule("decl").do = "decl"
      BY DEF Rule
    <3> QED
      BY <3>1, <3>2, Zenon
  <2>3. Tok' = Tok
    BY <1>4 DEF Tok, TokAt
  <2> QED
    BY <1>4, <2>2, <2>3 DEF Progress, ErrorForward
<1> QED
  BY <1>2, <1>3, <1>4 DEF Recovery, RecoverDecl, RecoverStmt, Otherwise

LEMMA NextProgress == ASSUME IInv, Progress, [Next]_vars PROVE Progress' /\ ErrorForward
<1>1. ASSUME Still, Head(Top).do # "decl", Head(Top) # Consume(Tok), mode = "parse"
      PROVE  Progress' /\ ErrorForward
  BY <1>1, ProgressKept DEF Progress
<1>2. ASSUME NEW m, NEW fs, AdvanceIn(m, fs) PROVE Progress' /\ ErrorForward
  BY <1>2, ProgressRead
<1>3. Consume(Tok).do = "consume"
  BY DEF Consume
<1>4. CASE SimpleStep
  BY <1>1, <1>2, <1>4 DEF SimpleStep, Special, Advance, Goto, Finish, Still
<1>5. CASE RuleProgram \/ ProcBody \/ ElseTail
  BY <1>1, <1>2, <1>3, <1>5
     DEF RuleProgram, ProcBody, ElseTail, At, On, Otherwise, Advance, Goto, Finish, Still
<1>6. CASE Block \/ BlockLoop \/ RuleStmt
  BY <1>1, <1>2, <1>3, <1>6
     DEF Block, BlockLoop, RuleStmt, At, On, Otherwise, Goto, Finish, Still
<1>7. CASE UNCHANGED vars
  BY <1>7 DEF vars, Progress, ErrorForward, Tok, TokAt, Top
<1> QED
  BY <1>4, <1>5, <1>6, <1>7, ProgressDecl, ProgressRecovers, Steps

\* However the errors lie, the parser reports no two of them at one token: each is
\* reported behind the token of the one before.
THEOREM NoTwoErrorsAtAToken == Spec => OneErrorPerToken
<1>1. ASSUME Init PROVE Progress
  BY <1>1 DEF Init, Progress
<1>2. ASSUME IInv, Progress, [Next]_vars PROVE [errcount' # errcount => errpos < pos]_vars
  BY <1>2, NextProgress DEF ErrorForward
<1> QED
  BY <1>1, <1>2, Invariance, NextProgress, PTL DEF Spec, OneErrorPerToken

-----------------------------------------------------------------------------
(* Where an error jumps to                                                 *)
(*                                                                         *)
(* Which block is open depends on what each frame waits for, which TypeOK  *)
(* does not say.  JumpInv does: a frame below the top waits for the loop of   *)
(* its activation, or for an "else" first; the top frame ends in one of a  *)
(* few tails; and ctx and ctx_stmt lag behind the stack only where no rule *)
(* can report an error.                                                    *)

AtProgram   == <<Rule("program")>>
AtDecl      == <<Rule("decl"), Rule("program")>>
AtBody      == <<Rule("proc_body"), Rule("program")>>
AtProcBlock == <<Rule("block"), Rule("program")>>
Fresh       == <<Consume("LBRACE"), Rule("stmts")>>
AtLoop      == <<Rule("stmts")>>
AtStmt      == <<Rule("stmt"), Rule("stmts")>>
AtElse      == <<Rule("else_tail"), Rule("stmts")>>
AtBlock     == <<Rule("block"), Rule("stmts")>>
AtIfBlock   == <<Rule("block"), Rule("else_tail"), Rule("stmts")>>

\* symbols of S in front of one of the tails
IsFrame(S, tails, fr) == \E s \in Seq(S) : \E t \in tails : fr = s \o t

DeclTails == {AtProgram, AtBody, AtProcBlock}
StmtTails == {AtLoop, AtElse, AtBlock, AtIfBlock}

DeclFrame(fr) == IsFrame(Simple \cup {Consume("LBRACE")}, DeclTails, fr)
StmtFrame(fr) == IsFrame(Simple, StmtTails, fr)

\* the innermost of n frames
Shape(n, fr) ==
  IF n = 1 THEN fr = AtDecl \/ DeclFrame(fr) ELSE fr \in {Fresh, AtStmt} \/ StmtFrame(fr)

\* the other frames
Waits(fs) ==
  \A i \in 1..Len(fs) - 1 : fs[i] \in IF i = 1 THEN {AtProgram} ELSE {AtLoop, AtElse}

\* rule_stmt_block sets the jump when it comes to its loop, rule_stmt and rule_decl
\* the context when they begin: until then both are those of the code around them
Jumps(n, top, c, jmp, m) ==
  /\ n = 1 => ~jmp.live /\ (c = "DECL" \/ (m # "recover" /\ top \in {AtProgram, AtDecl}))
  /\ n > 1 /\ c = "DECL" =>
       n = 2 /\ (top = Fresh \/ (m # "recover" /\ top \in {AtLoop, AtStmt}))
  /\ jmp.live =>
       \/ jmp.frame = n /\ top # Fresh
       \/ jmp.frame = n - 1 /\ n > 2 /\ (top = Fresh \/ (m # "recover" /\ top = AtLoop))
  /\ n > 1 /\ m = "parse" /\ top = AtStmt => jmp.live

AfterElse == pos > 1 /\ src[pos - 1] = "KW_ELSE"

\* the activation the jump was set by has returned: no error can come of it but
\* behind an "else"
Stranded ==
  ctx = "STMT" /\ ~ctx_stmt.live /\ Len(frames) > 1 =>
    Top \in {AtLoop, AtElse} \/ (Top \in {Fresh, AtBlock} /\ AfterElse)

JumpInv ==
  /\ Waits(frames)
  /\ Shape(Len(frames), Top)
  /\ Jumps(Len(frames), Top, ctx, ctx_stmt, mode)
  /\ mode = "parse" => Stranded

LEMMA SymbolsAre ==
  /\ Simple \subseteq Symbol /\ Simple \cup {Consume("LBRACE")} \subseteq Symbol
  /\ DeclTails \subseteq Seq(Symbol) /\ StmtTails \subseteq Seq(Symbol)
<1>1. Rule("program") \in Symbol /\ Rule("stmts") \in Symbol
  BY DEF Symbol
<1>2. /\ Rule("proc_body") \in Plain /\ Rule("block") \in Plain /\ Rule("else_tail") \in Plain
      /\ Consume("LBRACE") \in Plain
  BY PlainRule, PlainConsume DEF RuleNames, TokenKinds
<1>3. Simple \cup {Consume("LBRACE")} \subseteq Symbol
  BY <1>2, SimpleIsPlain DEF Symbol
<1>4. {Rule("proc_body"), Rule("block"), Rule("else_tail")} \subseteq Symbol
  BY <1>2 DEF Symbol
<1>5. DeclTails \subseteq Seq(Symbol)
  BY <1>1, <1>4 DEF DeclTails, AtProgram, AtBody, AtProcBlock
<1>6. StmtTails \subseteq Seq(Symbol)
  BY <1>1, <1>4 DEF StmtTails, AtLoop, AtElse, AtBlock, AtIfBlock
<1> QED
  BY <1>3, <1>5, <1>6

\* the first symbols, which tell these frames apart
LEMMA HeadOf == \A a, b, c : Head(<<a>>) = a /\ Head(<<a, b>>) = a /\ Head(<<a, b, c>>) = a
OBVIOUS

LEMMA Dos == (\A r : Rule(r).do = r) /\ (\A k : Consume(k).do = "consume" /\ Consume(k).kind = k)
BY DEF Rule, Consume

LEMMA Heads ==
  /\ Head(Fresh) = Consume("LBRACE") /\ Consume("LBRACE").do = "consume"
  /\ Head(AtProgram).do = "program" /\ Head(AtDecl).do = "decl" /\ Head(AtBody).do = "proc_body"
  /\ Head(AtProcBlock).do = "block" /\ Head(AtLoop).do = "stmts" /\ Head(AtStmt).do = "stmt"
  /\ Head(AtElse).do = "else_tail" /\ Head(AtBlock).do = "block" /\ Head(AtIfBlock).do = "block"
<1>1. /\ Head(Fresh) = Consume("LBRACE") /\ Head(AtProgram) = Rule("program")
      /\ Head(AtDecl) = Rule("decl") /\ Head(AtBody) = Rule("proc_body")
      /\ Head(AtProcBlock) = Rule("block")
  BY HeadOf, Zenon DEF Fresh, AtProgram, AtDecl, AtBody, AtProcBlock
<1>2. /\ Head(AtLoop) = Rule("stmts") /\ Head(AtStmt) = Rule("stmt")
      /\ Head(AtElse) = Rule("else_tail") /\ Head(AtBlock) = Rule("block")
      /\ Head(AtIfBlock) = Rule("block")
  BY HeadOf, Zenon DEF AtLoop, AtStmt, AtElse, AtBlock, AtIfBlock
<1> QED
  BY <1>1, <1>2, Dos, Zenon

\* and what they leave
LEMMA TailOf ==
  /\ \A a : Tail(<<a>>) = <<>>
  /\ \A a, b : Tail(<<a, b>>) = <<b>>
  /\ \A a, b, c : Tail(<<a, b, c>>) = <<b, c>>
OBVIOUS

LEMMA Tails ==
  /\ <<>> \o Tail(Fresh) = AtLoop /\ <<>> \o Tail(AtBody) = AtProgram
  /\ <<>> \o Tail(AtProcBlock) = AtProgram /\ <<>> \o Tail(AtElse) = AtLoop
  /\ <<>> \o Tail(AtBlock) = AtLoop /\ <<>> \o Tail(AtIfBlock) = AtElse
  /\ Tail(AtDecl) = AtProgram /\ Tail(AtStmt) = AtLoop
  /\ <<Rule("block")>> \o Tail(AtBody) = AtProcBlock
  /\ <<Rule("block")>> \o Tail(AtElse) = AtBlock
  /\ <<Rule("decl"), Rule("program")>> \o Tail(AtProgram) = AtDecl
  /\ <<Rule("stmt"), Rule("stmts")>> \o Tail(AtLoop) = AtStmt
<1>1. /\ Tail(Fresh) = AtLoop /\ Tail(AtElse) = AtLoop /\ Tail(AtBlock) = AtLoop
      /\ Tail(AtStmt) = AtLoop
  BY TailOf, Zenon DEF Fresh, AtElse, AtLoop, AtBlock, AtStmt
<1>0. /\ Tail(AtBody) = AtProgram /\ Tail(AtProcBlock) = AtProgram /\ Tail(AtDecl) = AtProgram
  BY TailOf, Zenon DEF AtBody, AtProgram, AtProcBlock, AtDecl
<1>2. Tail(AtIfBlock) = AtElse /\ Tail(AtProgram) = <<>> /\ Tail(AtLoop) = <<>>
  <2>1. Tail(AtIfBlock) = AtElse
    BY TailOf, Zenon DEF AtIfBlock, AtElse
  <2>2. Tail(AtProgram) = <<>> /\ Tail(AtLoop) = <<>>
    BY TailOf, Zenon DEF AtProgram, AtLoop
  <2> QED
    BY <2>1, <2>2
<1>3. <<>> \o AtLoop = AtLoop /\ <<>> \o AtProgram = AtProgram /\ <<>> \o AtElse = AtElse
  <2>1. <<>> \o AtLoop = AtLoop
    BY EmptyJoined, Zenon DEF AtLoop
  <2>2. <<>> \o AtProgram = AtProgram
    BY EmptyJoined, Zenon DEF AtProgram
  <2>3. <<>> \o AtElse = AtElse
    BY Joined, Zenon DEF AtElse
  <2> QED
    BY <2>1, <2>2, <2>3
<1>4. <<Rule("block")>> \o AtProgram = AtProcBlock /\ <<Rule("block")>> \o AtLoop = AtBlock
  BY Joined, Zenon DEF AtProgram, AtProcBlock, AtLoop, AtBlock
<1>5. /\ <<Rule("decl"), Rule("program")>> \o <<>> = AtDecl
      /\ <<Rule("stmt"), Rule("stmts")>> \o <<>> = AtStmt
  BY Joined, Zenon DEF AtDecl, AtStmt
<1> QED
  BY <1>0, <1>1, <1>2, <1>3, <1>4, <1>5, Zenon

LEMMA FrameHead ==
  ASSUME NEW S, NEW U, S \subseteq U, NEW tails, tails \subseteq Seq(U),
         NEW fr, IsFrame(S, tails, fr)
  PROVE  \/ fr \in tails
         \/ /\ Head(fr) \in S
            /\ \A u \in Seq(S) : IsFrame(S, tails, u \o Tail(fr))
<1>1. PICK s \in Seq(S), t \in tails : fr = s \o t
  BY DEF IsFrame
<1>2. s \in Seq(U) /\ t \in Seq(U)
  BY <1>1, SeqWider
<1>3. CASE s = <<>>
  BY <1>1, <1>2, <1>3
<1>4. CASE s # <<>>
  <2>1. Head(s) \in S /\ Tail(s) \in Seq(S) /\ Tail(s) \in Seq(U)
    BY <1>4, SeqWider
  <2>2. Head(fr) = Head(s) /\ Tail(fr) = Tail(s) \o t
    BY <1>1, <1>2, <1>4
  <2>3. ASSUME NEW u \in Seq(S) PROVE IsFrame(S, tails, u \o Tail(fr))
    <3>1. u \in Seq(U)
      BY SeqWider
    <3>2. u \o Tail(fr) = (u \o Tail(s)) \o t
      <4> DEFINE v == Tail(s)
      <4>0. u \in Seq(U) /\ v \in Seq(U) /\ t \in Seq(U)
        BY <1>2, <2>1, <3>1
      <4> HIDE DEF v
      <4>1. (u \o v) \o t = u \o (v \o t)
        BY <4>0, ConcatAssociative, SMTT(20)
      <4> QED
        BY <2>2, <4>1, Zenon DEF v
    <3>3. u \o Tail(s) \in Seq(S)
      BY <2>1
    <3> QED
      BY <3>2, <3>3 DEF IsFrame
  <2> QED
    BY <2>1, <2>2, <2>3
<1> QED
  BY <1>3, <1>4

\* a tail with simple symbols before it, or none
LEMMA FrameOf ==
  /\ \A t \in DeclTails : DeclFrame(t)
  /\ \A t \in StmtTails : StmtFrame(t)
  /\ \A s \in Seq(Simple) : \A t \in StmtTails : StmtFrame(s \o t)
  /\ \A s \in Seq(Simple \cup {Consume("LBRACE")}) : \A t \in DeclTails : DeclFrame(s \o t)
<1>1. \A S, tails : \A s \in Seq(S) : \A t \in tails : IsFrame(S, tails, s \o t)
  BY DEF IsFrame
<1>2. \A t \in DeclTails \cup StmtTails : <<>> \o t = t
  BY SymbolsAre
<1>3. <<>> \in Seq(Simple) /\ <<>> \in Seq(Simple \cup {Consume("LBRACE")})
  OBVIOUS
<1>4. \A t \in DeclTails : DeclFrame(<<>> \o t)
  BY <1>1, <1>3 DEF DeclFrame
<1>5. \A t \in StmtTails : StmtFrame(<<>> \o t)
  BY <1>1, <1>3 DEF StmtFrame
<1>6. \A s \in Seq(Simple) : \A t \in StmtTails : StmtFrame(s \o t)
  BY <1>1, Zenon DEF StmtFrame
<1>7. \A s \in Seq(Simple \cup {Consume("LBRACE")}) : \A t \in DeclTails : DeclFrame(s \o t)
  BY <1>1, Zenon DEF DeclFrame
<1>8. (\A t \in DeclTails : DeclFrame(t)) /\ (\A t \in StmtTails : StmtFrame(t))
  BY <1>2, <1>4, <1>5
<1> QED
  BY <1>6, <1>7, <1>8

LEMMA StmtFrameHead ==
  ASSUME NEW fr, StmtFrame(fr)
  PROVE  /\ \/ fr \in StmtTails
            \/ /\ Head(fr) \in Simple
               /\ \A u \in Seq(Simple) : StmtFrame(u \o Tail(fr))
         /\ Head(fr) # Consume("LBRACE") /\ fr # Fresh /\ fr # AtStmt
<1>1. fr \in StmtTails
      \/ (Head(fr) \in Simple /\ \A u \in Seq(Simple) : StmtFrame(u \o Tail(fr)))
  BY SymbolsAre, FrameHead DEF StmtFrame
<1>2. \A x \in Simple : x # Consume("LBRACE") /\ x.do # "stmt"
  BY DEF Simple, Special
<1>3. \A t \in StmtTails : Head(t).do \in {"stmts", "else_tail", "block"}
  BY Heads DEF StmtTails
<1> QED
  BY <1>1, <1>2, <1>3, Heads

LEMMA DeclFrameHead ==
  ASSUME NEW fr, DeclFrame(fr)
  PROVE  \/ fr \in DeclTails
         \/ /\ Head(fr).do \notin Special \cup Loops
            /\ \A u \in Seq(Simple) : DeclFrame(u \o Tail(fr))
<1>1. fr \in DeclTails
      \/ /\ Head(fr) \in Simple \cup {Consume("LBRACE")}
         /\ \A u \in Seq(Simple \cup {Consume("LBRACE")}) : DeclFrame(u \o Tail(fr))
  BY SymbolsAre, FrameHead DEF DeclFrame
<1>2. \A x \in Simple \cup {Consume("LBRACE")} : x.do \notin Special \cup Loops
  BY Heads DEF Simple, Plain, Special, Loops, RuleNames, ParamLoops, FieldLoops
<1>3. Seq(Simple) \subseteq Seq(Simple \cup {Consume("LBRACE")})
  BY SeqWider
<1> QED
  BY <1>1, <1>2, <1>3

\* what the symbol at hand says of the frame it is in
LEMMA TopsAre ==
  ASSUME IInv, JumpInv
  PROVE  /\ Head(Top).do = "program" => Len(frames) = 1 /\ Top = AtProgram
         /\ Head(Top).do = "decl" => Len(frames) = 1 /\ Top = AtDecl
         /\ Head(Top).do = "proc_body" => Len(frames) = 1 /\ Top = AtBody
         /\ Head(Top).do = "block" => \/ Len(frames) = 1 /\ Top = AtProcBlock
                                      \/ Len(frames) # 1 /\ Top \in {AtBlock, AtIfBlock}
         /\ Head(Top).do = "stmts" => Len(frames) # 1 /\ Top = AtLoop
         /\ Head(Top).do = "stmt" => Len(frames) # 1 /\ Top = AtStmt
         /\ Head(Top).do = "else_tail" => Len(frames) # 1 /\ Top = AtElse
         /\ Head(Top).do \notin Special \cup Loops =>
              \/ /\ Len(frames) = 1
                 /\ \A u \in Seq(Simple) : DeclFrame(u \o Tail(Top))
              \/ Len(frames) # 1 /\ Top = Fresh
              \/ /\ Len(frames) # 1 /\ Head(Top) \in Simple
                 /\ \A u \in Seq(Simple) : StmtFrame(u \o Tail(Top))
<1>1. CASE Len(frames) = 1
  <2>1. \/ Top \in {AtDecl, AtProgram, AtBody, AtProcBlock}
        \/ /\ Head(Top).do \notin Special \cup Loops
           /\ \A u \in Seq(Simple) : DeclFrame(u \o Tail(Top))
    BY <1>1, DeclFrameHead, Zenon DEF JumpInv, Shape, DeclTails
  <2>2. CASE Top \in {AtDecl, AtProgram, AtBody, AtProcBlock}
    BY <1>1, <2>2, Heads DEF Special, Loops
  <2>3. CASE /\ Head(Top).do \notin Special \cup Loops
             /\ \A u \in Seq(Simple) : DeclFrame(u \o Tail(Top))
    BY <1>1, <2>3 DEF Special, Loops
  <2> QED
    BY <2>1, <2>2, <2>3
<1>2. CASE Len(frames) # 1
  <2>1. \/ Top \in {Fresh, AtStmt, AtLoop, AtElse, AtBlock, AtIfBlock}
        \/ /\ Head(Top) \in Simple
           /\ \A u \in Seq(Simple) : StmtFrame(u \o Tail(Top))
    BY <1>2, StmtFrameHead, Zenon DEF JumpInv, Shape, StmtTails
  <2>2. CASE Top \in {Fresh, AtStmt, AtLoop, AtElse, AtBlock, AtIfBlock}
    BY <1>2, <2>2, Heads DEF Special, Loops
  <2>3. CASE /\ Head(Top) \in Simple
             /\ \A u \in Seq(Simple) : StmtFrame(u \o Tail(Top))
    <3>1. Head(Top).do \notin Special \cup Loops
      BY <2>3 DEF Simple, Plain, Special, Loops, RuleNames, ParamLoops, FieldLoops
    <3> QED
      BY <1>2, <2>3, <3>1 DEF Special, Loops
  <2> QED
    BY <2>1, <2>2, <2>3
<1> QED
  BY <1>1, <1>2

\* An error may follow where a rule is not at its beginning; what holds while
\* parsing holds when the run has ended.
LEMMA JumpsTo ==
  ASSUME NEW n, NEW top, NEW c, NEW jmp, NEW m1, NEW m2, Jumps(n, top, c, jmp, m1),
         \/ m2 # "recover" /\ (m2 = "parse" => m1 = "parse")
         \/ m1 = "recover" /\ m2 = "recover"
         \/ /\ m2 = "recover" /\ n = 1 => c = "DECL"
            /\ m2 = "recover" /\ n # 1 => top \notin {AtLoop, AtStmt}
            /\ m2 = "recover"
  PROVE  Jumps(n, top, c, jmp, m2)
BY DEF Jumps

LEMMA EndKeepsJumps ==
  ASSUME JumpInv, UNCHANGED <<frames, ctx, ctx_stmt>>, mode' \in Outcomes
  PROVE  JumpInv'
<1>1. mode' # "parse" /\ mode' # "recover"
  BY DEF Outcomes
<1>2. Jumps(Len(frames), Top, ctx, ctx_stmt, mode')
  BY <1>1, JumpsTo, Zenon DEF JumpInv
<1>3. Top' = Top
  BY DEF Top
<1> QED
  BY <1>1, <1>2, <1>3 DEF JumpInv

LEMMA SyncKeepsJumps ==
  ASSUME JumpInv, Sync, Jumps(Len(frames), Top, ctx', ctx_stmt', "recover")
  PROVE  JumpInv'
BY DEF JumpInv, Sync, Top

\* Reading on, or going on, in the frame at hand.
LEMMA UnfoldKeepsJumps ==
  ASSUME IInv, JumpInv, mode = "parse", NEW s \in Seq(Symbol), NEW new, new = s \o Tail(Top),
         Goto(s) \/ (Advance(s) /\ UNCHANGED <<ctx, ctx_stmt>>),
         Shape(Len(frames), new),
         Jumps(Len(frames), new, ctx', ctx_stmt', "parse"),
         ctx' = "STMT" /\ ~ctx_stmt'.live /\ Len(frames) > 1 =>
           \/ new \in {AtLoop, AtElse}
           \/ new = AtBlock /\ Tok = "KW_ELSE" /\ ~Goto(s)
  PROVE  JumpInv'
<1>1. CASE Finish("rejected") /\ UNCHANGED <<ctx, ctx_stmt>>
  BY <1>1, EndKeepsJumps DEF Finish, Outcomes
<1>2. CASE /\ frames' = Unfold(s) /\ mode' \in {"parse", "rejected"}
           /\ Goto(s) \/ (pos' = pos + 1 /\ src' = src /\ ~Goto(s))
  <2>1. /\ Len(frames') = Len(frames) /\ Top' = new
        /\ \A i \in 1..Len(frames) - 1 : frames'[i] = frames[i]
    BY <1>2, Unfolded
  <2>2. Waits(frames')
    BY <2>1 DEF JumpInv, Waits
  <2>3. Jumps(Len(frames), new, ctx', ctx_stmt', mode')
    <3>1. mode' # "recover"
      BY <1>2
    <3> QED
      BY <3>1, JumpsTo, Zenon
  <2>4. ASSUME ~Goto(s), Tok = "KW_ELSE" PROVE AfterElse'
    <3>1. pos \in Nat /\ pos >= 1 /\ pos' = pos + 1 /\ src' = src
      BY <1>2, <2>4 DEF IInv, RestOK
    <3>2. src[pos] = "KW_ELSE"
      BY <2>4 DEF Tok, TokAt
    <3>3. pos' > 1 /\ pos' - 1 = pos
      BY <3>1
    <3> QED
      BY <3>1, <3>2, <3>3 DEF AfterElse
  <2>5. Stranded'
    BY <2>1, <2>4 DEF Stranded
  <2> QED
    BY <2>1, <2>2, <2>3, <2>5 DEF JumpInv
<1>3. \/ Finish("rejected") /\ UNCHANGED <<ctx, ctx_stmt>>
      \/ /\ frames' = Unfold(s) /\ mode' \in {"parse", "rejected"}
         /\ Goto(s) \/ (pos' = pos + 1 /\ src' = src /\ ~Goto(s))
  BY DEF Goto, Advance, AdvanceIn
<1> QED
  BY <1>1, <1>2, <1>3

LEMMA SimpleSymbols == ASSUME NEW s \in Seq(Simple) PROVE s \in Seq(Symbol)
BY SimpleIsPlain, SeqWider DEF Symbol

LEMMA FrameNames ==
  /\ AtLoop \notin {Fresh, AtStmt, AtElse, AtBlock, AtIfBlock}
  /\ AtElse \notin {Fresh, AtStmt, AtLoop}
  /\ AtBlock \notin {Fresh, AtStmt, AtLoop, AtElse}
  /\ AtIfBlock \notin {Fresh, AtStmt, AtLoop, AtElse}
  /\ AtStmt \notin {Fresh, AtLoop, AtElse}
  /\ Fresh \notin {AtLoop, AtStmt, AtElse, AtBlock}
  /\ AtProcBlock \notin {AtProgram, AtDecl} /\ AtBody \notin {AtProgram, AtDecl}
BY Heads

\* A rule at hand in a frame of rule_program that has left its beginning, or of
\* a statement: no loop, no declaration, no statement is about to begin.
LEMMA SimpleKeepsJumps == ASSUME IInv, JumpInv, SimpleStep PROVE JumpInv'
<1>a. /\ mode = "parse" /\ Head(Top).do \notin Special \cup Loops
      /\ ctx' = ctx /\ ctx_stmt' = ctx_stmt
  BY DEF SimpleStep
<1>b. Top \notin {AtProgram, AtDecl, AtLoop, AtStmt, AtElse, AtBlock}
  BY <1>a, Heads DEF Special, Loops
<1>c. Jumps(Len(frames), Top, ctx, ctx_stmt, "parse")
  BY <1>a DEF JumpInv
<1>d. Len(frames) = 1 => ctx = "DECL"
  BY <1>b, <1>c DEF Jumps
<1>1. CASE Finish("undefined")
  BY <1>1, <1>a, EndKeepsJumps DEF Finish, Outcomes
<1>2. CASE Sync
  <2>1. Jumps(Len(frames), Top, ctx, ctx_stmt, "recover")
    BY <1>b, <1>c, <1>d, JumpsTo, Zenon
  <2> QED
    BY <1>2, <1>a, <2>1, SyncKeepsJumps
<1>3. ASSUME NEW s \in Seq(Simple), Advance(s) \/ Goto(s),
             Top = Fresh => Advance(<<>>)
      PROVE  JumpInv'
  <2> DEFINE new == s \o Tail(Top)
  <2>0. s \in Seq(Symbol) /\ (Goto(s) \/ (Advance(s) /\ UNCHANGED <<ctx, ctx_stmt>>))
    BY <1>3, <1>a, SimpleSymbols
  <2>1. CASE Len(frames) = 1 /\ DeclFrame(new)
    <3>1. Shape(Len(frames), new)
      BY <2>1 DEF Shape
    <3>2. Jumps(Len(frames), new, ctx', ctx_stmt', "parse")
      BY <1>a, <1>c, <1>d, <2>1 DEF Jumps
    <3>3. ~(Len(frames) > 1)
      BY <2>1
    <3> QED
      BY <1>a, <2>0, <3>1, <3>2, <3>3, UnfoldKeepsJumps, Zenon
  <2>2. CASE Len(frames) # 1 /\ Top = Fresh
    <3>1. <<>> \o Tail(Top) = AtLoop /\ Advance(<<>>)
      BY <1>3, <2>2, Tails
    <3>2. Shape(Len(frames), AtLoop)
      BY <2>2, FrameOf DEF Shape, StmtTails
    <3>3. Jumps(Len(frames), AtLoop, ctx', ctx_stmt', "parse")
      BY <1>a, <1>c, <2>2, FrameNames DEF Jumps
    <3>4. <<>> \in Seq(Symbol)
      OBVIOUS
    <3> QED
      BY <1>a, <3>1, <3>2, <3>3, <3>4, UnfoldKeepsJumps
  <2>3. CASE Len(frames) # 1 /\ Head(Top) \in Simple /\ StmtFrame(new)
    <3>1. Shape(Len(frames), new) /\ new \notin {Fresh, AtStmt}
      BY <2>3, StmtFrameHead DEF Shape
    <3>2. Top # Fresh
      BY <2>3, Heads DEF Simple
    <3>3. Jumps(Len(frames), new, ctx', ctx_stmt', "parse")
      BY <1>a, <1>b, <1>c, <2>3, <3>1, <3>2 DEF Jumps
    <3>4. ~(ctx = "STMT" /\ ~ctx_stmt.live /\ Len(frames) > 1)
      BY <1>a, <1>b, <3>2 DEF JumpInv, Stranded
    <3> QED
      BY <1>a, <2>0, <3>1, <3>3, <3>4, UnfoldKeepsJumps, Zenon
  <2> QED
    BY <1>3, <1>a, <2>1, <2>2, <2>3, TopsAre
<1>4. Top = Fresh => Head(Top).do = "consume"
  BY Heads
<1> QED
  BY <1>1, <1>2, <1>3, <1>4 DEF SimpleStep

LEMMA RuleSymbols ==
  /\ <<Rule("block")>> \in Seq(Symbol) /\ <<>> \in Seq(Symbol)
  /\ <<Rule("decl"), Rule("program")>> \in Seq(Symbol)
  /\ <<Rule("stmt"), Rule("stmts")>> \in Seq(Symbol)
<1>1. /\ Rule("block") \in Symbol /\ Rule("decl") \in Symbol /\ Rule("stmt") \in Symbol
      /\ Rule("program") \in Symbol /\ Rule("stmts") \in Symbol
  BY PlainRule DEF Symbol, RuleNames
<1> QED
  BY <1>1

LEMMA ProgramKeepsJumps == ASSUME IInv, JumpInv, RuleProgram PROVE JumpInv'
<1>1. /\ mode = "parse" /\ Len(frames) = 1 /\ Top = AtProgram
      /\ ctx' = ctx /\ ctx_stmt' = ctx_stmt
  BY TopsAre DEF RuleProgram, At
<1>2. CASE Finish("accepted") \/ Finish("rejected")
  BY <1>1, <1>2, EndKeepsJumps DEF Finish, Outcomes
<1>3. CASE Goto(<<Rule("decl"), Rule("program")>>)
  <2>1. Shape(Len(frames), AtDecl)
    BY <1>1 DEF Shape
  <2>2. Jumps(Len(frames), AtDecl, ctx', ctx_stmt', "parse")
    BY <1>1 DEF JumpInv, Jumps
  <2>3. AtDecl = <<Rule("decl"), Rule("program")>> \o Tail(Top)
    BY <1>1, Tails
  <2>4. ~(Len(frames) > 1)
    BY <1>1
  <2> QED
    BY <1>1, <1>3, <2>1, <2>2, <2>3, <2>4, RuleSymbols, UnfoldKeepsJumps, Zenon
<1> QED
  BY <1>2, <1>3 DEF RuleProgram, On, Otherwise

LEMMA DeclKeepsJumps == ASSUME IInv, JumpInv, RuleDecl PROVE JumpInv'
<1>1. /\ mode = "parse" /\ Len(frames) = 1 /\ Top = AtDecl
      /\ ctx' = "DECL" /\ ctx_stmt' = ctx_stmt
  BY TopsAre DEF RuleDecl, At
<1>a. ~ctx_stmt.live
  BY <1>1 DEF JumpInv, Jumps
<1>2. CASE Sync
  <2>1. Jumps(Len(frames), Top, ctx', ctx_stmt', "recover")
    BY <1>1, <1>a DEF Jumps
  <2> QED
    BY <1>2, <2>1, SyncKeepsJumps
<1>3. ASSUME NEW s \in Seq(Symbol), DeclFrame(s \o AtProgram), Goto(s) PROVE JumpInv'
  <2>1. Tail(Top) = AtProgram
    BY <1>1, Tails
  <2> DEFINE new == s \o AtProgram
  <2>2. Shape(Len(frames), new)
    BY <1>1, <1>3 DEF Shape
  <2>3. Jumps(Len(frames), new, ctx', ctx_stmt', "parse")
    BY <1>1, <1>a DEF Jumps
  <2>4. ~(Len(frames) > 1)
    BY <1>1
  <2>5. new = s \o Tail(Top)
    BY <2>1
  <2> QED
    BY <1>1, <1>3, <2>2, <2>3, <2>4, <2>5, UnfoldKeepsJumps, Zenon
<1> DEFINE Wide == Simple \cup {Consume("LBRACE")}
<1>4. /\ Consume("KW_PROC") \in Wide /\ Consume("LITERAL_IDENT") \in Wide
      /\ Consume("KW_TABLE") \in Wide /\ Consume("LBRACE") \in Wide
  BY SimpleConsume DEF TokenKinds, Literals
<1>5. Signature \in Seq(Wide) /\ Simple \subseteq Wide
  BY SignatureSimple, SeqWider
<1> DEFINE proc == <<Consume("KW_PROC"), Consume("LITERAL_IDENT")>>
                   \o Signature \o <<Rule("proc_body")>>
           table(c) == <<Consume("KW_TABLE"), Consume("LITERAL_IDENT"),
                         Consume("LBRACE"), Counting("fields", c)>>
<1>6. Wide \subseteq Symbol /\ \A u \in Seq(Wide) : u \in Seq(Symbol)
  BY SymbolsAre, SeqWider
<1>7. \A u \in Seq(Wide) : \A t \in DeclTails : DeclFrame(u \o t)
  BY FrameOf
<1> HIDE DEF Wide
<1>8. CASE Goto(proc)
  <2> DEFINE u == <<Consume("KW_PROC"), Consume("LITERAL_IDENT")>>
             v == <<Rule("proc_body")>>
  <2>1. Rule("proc_body") \in Symbol /\ Rule("program") \in Symbol
    BY PlainRule DEF Symbol, RuleNames
  <2>2. u \in Seq(Wide) /\ v \in Seq(Symbol) /\ AtProgram \in Seq(Symbol)
    BY <1>4, <2>1 DEF AtProgram
  <2>3. v \o AtProgram = AtBody
    BY Joined, Zenon DEF AtProgram, AtBody
  <2> DEFINE w == u \o Signature
  <2> HIDE DEF u, v
  <2>4. w \in Seq(Wide)
    BY <1>5, <2>2
  <2>5. w \in Seq(Symbol)
    BY <1>6, <2>4
  <2>6. proc = w \o v
    BY DEF u, v
  <2> HIDE DEF proc, w
  <2>7. proc \in Seq(Symbol)
    BY <2>2, <2>5, <2>6
  <2>8. proc \o AtProgram = w \o AtBody
    <3>1. (w \o v) \o AtProgram = w \o (v \o AtProgram)
      BY <2>2, <2>5, ConcatAssociative
    <3> QED
      BY <2>3, <2>6, <3>1, Zenon
  <2>9. DeclFrame(proc \o AtProgram)
    BY <1>7, <2>4, <2>8 DEF DeclTails
  <2> QED
    BY <1>3, <1>8, <2>7, <2>9
<1>9. ASSUME NEW c \in UninitCounts, Goto(table(c)) PROVE JumpInv'
  <2>1. Counting("fields", c) \in Wide
    BY UninitAssumption, SimpleFields DEF FieldLoops, Wide
  <2>2. table(c) \in Seq(Wide)
    BY <1>4, <2>1
  <2> HIDE DEF table
  <2>3. DeclFrame(table(c) \o AtProgram) /\ table(c) \in Seq(Symbol)
    BY <1>6, <1>7, <2>2 DEF DeclTails
  <2> QED
    BY <1>3, <1>9, <2>3
<1>10. Sync \/ Goto(proc) \/ \E c \in UninitCounts : Goto(table(c))
  BY DEF RuleDecl, On, Otherwise
<1> HIDE DEF proc, table
<1> QED
  BY <1>2, <1>8, <1>9, <1>10

LEMMA BodyKeepsJumps == ASSUME IInv, JumpInv, ProcBody PROVE JumpInv'
<1>1. /\ mode = "parse" /\ Len(frames) = 1 /\ Top = AtBody
      /\ ctx' = ctx /\ ctx_stmt' = ctx_stmt
  BY TopsAre DEF ProcBody, At
<1>2. ~ctx_stmt.live /\ ctx = "DECL"
  BY <1>1, FrameNames DEF JumpInv, Jumps
<1>3. ASSUME NEW s \in Seq(Symbol), NEW new, new \in {AtProgram, AtProcBlock},
             new = s \o Tail(Top), Advance(s) \/ Goto(s)
      PROVE  JumpInv'
  <2>1. Shape(Len(frames), new)
    BY <1>1, <1>3, FrameOf DEF Shape, DeclTails
  <2>2. Jumps(Len(frames), new, ctx', ctx_stmt', "parse")
    BY <1>1, <1>2 DEF Jumps
  <2>3. ~(Len(frames) > 1) /\ (Goto(s) \/ (Advance(s) /\ UNCHANGED <<ctx, ctx_stmt>>))
    BY <1>1, <1>3
  <2> QED
    BY <1>1, <1>3, <2>1, <2>2, <2>3, UnfoldKeepsJumps, Zenon
<1>4. <<>> \o Tail(Top) = AtProgram /\ <<Rule("block")>> \o Tail(Top) = AtProcBlock
  BY <1>1, Tails
<1>5. Advance(<<>>) \/ Goto(<<Rule("block")>>)
  BY DEF ProcBody, On, Otherwise
<1> QED
  BY <1>3, <1>4, <1>5, RuleSymbols

LEMMA ElseKeepsJumps == ASSUME IInv, JumpInv, ElseTail PROVE JumpInv'
<1>1. /\ mode = "parse" /\ Len(frames) # 1 /\ Top = AtElse
      /\ ctx' = ctx /\ ctx_stmt' = ctx_stmt
  BY TopsAre DEF ElseTail, At
<1>2. <<>> \o Tail(Top) = AtLoop /\ <<Rule("block")>> \o Tail(Top) = AtBlock
  BY <1>1, Tails
<1>3. Jumps(Len(frames), AtElse, ctx, ctx_stmt, "parse")
  BY <1>1 DEF JumpInv
<1>4. CASE Tok = "KW_ELSE" /\ Advance(<<Rule("block")>>)
  <2>1. Shape(Len(frames), AtBlock)
    BY <1>1, FrameOf DEF Shape, StmtTails
  <2>2. Jumps(Len(frames), AtBlock, ctx', ctx_stmt', "parse")
    BY <1>1, <1>3, FrameNames DEF Jumps
  <2>3. ~Goto(<<Rule("block")>>) \/ JumpInv'
    <3>1. CASE Goto(<<Rule("block")>>)
      <4>1. pos \in Nat
        BY DEF IInv, RestOK
      <4>2. pos' = pos /\ mode' = mode
        BY <3>1 DEF Goto
      <4>3. Tok = "EOF" \/ pos' = pos + 1
        BY <1>4 DEF Advance, AdvanceIn
      <4> QED
        BY <1>4, <4>1, <4>2, <4>3
    <3> QED
      BY <3>1
  <2> QED
    BY <1>1, <1>2, <1>4, <2>1, <2>2, <2>3, RuleSymbols, UnfoldKeepsJumps
<1>5. CASE Goto(<<>>)
  <2>1. Shape(Len(frames), AtLoop)
    BY <1>1, FrameOf DEF Shape, StmtTails
  <2>2. Jumps(Len(frames), AtLoop, ctx', ctx_stmt', "parse")
    BY <1>1, <1>3, FrameNames DEF Jumps
  <2> QED
    BY <1>1, <1>2, <1>5, <2>1, <2>2, RuleSymbols, UnfoldKeepsJumps
<1> QED
  BY <1>4, <1>5 DEF ElseTail, On, Otherwise

\* what rule_stmt puts in its place leads back to the loop by way of a block, of a
\* block and its "else", or of neither
LEMMA StatementFrame ==
  ASSUME NEW k \in DOMAIN Statement
  PROVE  Statement[k] \in Seq(Symbol) /\ StmtFrame(Statement[k] \o AtLoop)
<1>1. /\ Consume("LITERAL_IDENT") \in Simple /\ Consume("COLON") \in Simple
      /\ Consume("ASSIGN") \in Simple /\ Consume("COMMA") \in Simple
      /\ Consume("KW_VARDECL") \in Simple /\ Consume("KW_IF") \in Simple
      /\ Consume("KW_WHILE") \in Simple /\ Consume("KW_FOR") \in Simple
      /\ Consume("KW_RETURN") \in Simple
  BY SimpleConsume DEF TokenKinds, Literals
<1>2. /\ Rule("type") \in Simple /\ Rule("vardecl_init") \in Simple
      /\ Rule("expr") \in Simple /\ Rule("exprstmt") \in Simple
  BY SimpleRule DEF RuleNames, Special
<1>3. AtLoop \in Seq(Symbol) /\ Rule("block") \in Symbol /\ Rule("else_tail") \in Symbol
  BY PlainRule DEF Symbol, RuleNames, AtLoop
<1>4. k \in {"LBRACE", "KW_VARDECL", "KW_IF", "KW_WHILE", "KW_FOR", "KW_RETURN"}
  BY DEF Statement
<1>5. Statement[k] \in Seq(Symbol)
  BY StatementPlain, SeqWider DEF Symbol
<1>6. ASSUME Statement[k] \in Seq(Simple) PROVE StmtFrame(Statement[k] \o AtLoop)
  BY <1>6, FrameOf DEF StmtTails
<1>7. ASSUME NEW s \in Seq(Simple), NEW t \in Seq(Symbol), t \o AtLoop \in StmtTails,
             Statement[k] = s \o t
      PROVE  StmtFrame(Statement[k] \o AtLoop)
  <2>1. (s \o t) \o AtLoop = s \o (t \o AtLoop)
    BY <1>3, SimpleSymbols, ConcatAssociative
  <2> QED
    BY <1>7, <2>1, FrameOf
<1>8. <<Rule("block")>> \in Seq(Symbol) /\ <<Rule("block")>> \o AtLoop \in StmtTails
  <2>1. <<Rule("block")>> \o AtLoop = AtBlock
    BY Joined, Zenon DEF AtLoop, AtBlock
  <2> QED
    BY <1>3, <2>1 DEF StmtTails
<1>9. CASE k = "LBRACE"
  <2>1. Statement["LBRACE"] = <<Rule("block")>>
    BY DEF Statement
  <2>2. <<>> \o <<Rule("block")>> = <<Rule("block")>>
    BY Joined, Zenon
  <2> QED
    BY <1>5, <1>7, <1>8, <1>9, <2>1, <2>2, EmptySimple
<1>10. CASE k = "KW_VARDECL"
  <2>1. Statement["KW_VARDECL"] =
          <<Consume("KW_VARDECL"), Consume("LITERAL_IDENT"), Consume("COLON"),
             Rule("type"), Rule("vardecl_init")>>
    BY DEF Statement
  <2> QED
    BY <1>1, <1>2, <1>5, <1>6, <1>10, <2>1
<1>11. CASE k = "KW_RETURN"
  <2>1. Statement["KW_RETURN"] = <<Consume("KW_RETURN"), Rule("exprstmt")>>
    BY DEF Statement
  <2> QED
    BY <1>1, <1>2, <1>5, <1>6, <1>11, <2>1
<1>12. CASE k = "KW_IF"
  <2> DEFINE s == <<Consume("KW_IF"), Rule("expr")>>
             t == <<Rule("block"), Rule("else_tail")>>
  <2>1. Statement["KW_IF"] = <<Consume("KW_IF"), Rule("expr"), Rule("block"), Rule("else_tail")>>
    BY DEF Statement
  <2>2. <<Consume("KW_IF"), Rule("expr"), Rule("block"), Rule("else_tail")>> = s \o t
    BY JoinedTwo
  <2>3. t \o AtLoop = AtIfBlock
    BY JoinedOne, Zenon DEF AtLoop, AtIfBlock
  <2>4. s \in Seq(Simple) /\ t \in Seq(Symbol)
    BY <1>1, <1>2, <1>3
  <2>5. Statement[k] = s \o t
    BY <1>12, <2>1, <2>2, Zenon
  <2> HIDE DEF s, t
  <2>6. t \o AtLoop \in StmtTails
    BY <2>3 DEF StmtTails
  <2> QED
    BY <1>5, <1>7, <2>4, <2>5, <2>6
<1>13. CASE k = "KW_WHILE"
  <2> DEFINE s == <<Consume("KW_WHILE"), Rule("expr")>>
  <2>1. Statement["KW_WHILE"] = <<Consume("KW_WHILE"), Rule("expr"), Rule("block")>>
    BY DEF Statement
  <2>2. <<Consume("KW_WHILE"), Rule("expr"), Rule("block")>> = s \o <<Rule("block")>>
    BY JoinedOne
  <2>3. s \in Seq(Simple)
    BY <1>1, <1>2
  <2>4. Statement[k] = s \o <<Rule("block")>>
    BY <1>13, <2>1, <2>2, Zenon
  <2> HIDE DEF s
  <2> QED
    BY <1>5, <1>7, <1>8, <2>3, <2>4
<1>14. CASE k = "KW_FOR"
  <2> DEFINE s == <<Consume("KW_FOR"), Consume("LITERAL_IDENT"), Consume("COLON"),
                     Rule("type"), Consume("ASSIGN"), Rule("expr"), Consume("COMMA"),
                     Rule("expr"), Consume("COMMA"), Rule("expr")>>
             all == <<Consume("KW_FOR"), Consume("LITERAL_IDENT"), Consume("COLON"),
                       Rule("type"), Consume("ASSIGN"), Rule("expr"), Consume("COMMA"),
                       Rule("expr"), Consume("COMMA"), Rule("expr"), Rule("block")>>
  <2>1. Statement["KW_FOR"] = all
    BY DEF Statement
  <2>2. all = s \o <<Rule("block")>>
    BY JoinedEleven
  <2>3. s \in Seq(Simple)
    BY <1>1, <1>2
  <2> HIDE DEF s, all
  <2>4. Statement[k] = s \o <<Rule("block")>>
    BY <1>14, <2>1, <2>2, Zenon
  <2> QED
    BY <1>5, <1>7, <1>8, <2>3, <2>4
<1> QED
  BY <1>4, <1>5, <1>9, <1>10, <1>11, <1>12, <1>13, <1>14

LEMMA StmtKeepsJumps == ASSUME IInv, JumpInv, RuleStmt PROVE JumpInv'
<1>1. /\ mode = "parse" /\ Len(frames) # 1 /\ Top = AtStmt
      /\ ctx' = "STMT" /\ ctx_stmt' = ctx_stmt
  BY TopsAre DEF RuleStmt, EnterStmtContext, At
<1>2. Len(frames) > 1
  <2>1. Len(frames) \in Nat /\ Len(frames) >= 1
    BY FramesAre
  <2> QED
    BY <1>1, <2>1, TwoOrMore
<1>3. ctx_stmt.live /\ ctx_stmt.frame = Len(frames)
  BY <1>1, <1>2, FrameNames DEF JumpInv, Jumps
<1>4. ASSUME NEW s \in Seq(Symbol), StmtFrame(s \o AtLoop), Goto(s) PROVE JumpInv'
  <2> DEFINE new == s \o AtLoop
  <2>1. new = s \o Tail(Top)
    BY <1>1, Tails
  <2>2. Shape(Len(frames), new) /\ new # Fresh /\ new # AtStmt
    BY <1>1, <1>4, StmtFrameHead DEF Shape
  <2> HIDE DEF new
  <2>3. Jumps(Len(frames), new, ctx', ctx_stmt', "parse")
    BY <1>1, <1>3, <2>2 DEF Jumps
  <2> QED
    BY <1>1, <1>3, <1>4, <2>1, <2>2, <2>3, UnfoldKeepsJumps, Zenon
<1>5. <<Rule("exprstmt")>> \in Seq(Simple)
  <2>1. Rule("exprstmt") \in Simple
    BY SimpleRule DEF RuleNames, Special
  <2> QED
    BY <2>1
<1>6. StmtFrame(<<Rule("exprstmt")>> \o AtLoop) /\ <<Rule("exprstmt")>> \in Seq(Symbol)
  BY <1>5, SimpleSymbols, FrameOf DEF StmtTails
<1> QED
  BY <1>4, <1>6, StatementFrame DEF RuleStmt, On, Otherwise

\* A block is entered: the frame it is in waits for what follows the block.
LEMMA BlockKeepsJumps == ASSUME IInv, JumpInv, Block PROVE JumpInv'
<1> DEFINE n    == Len(frames)
           fs   == Unfold(<<>>)
<1>1. mode = "parse" /\ mode' = mode /\ ctx' = ctx /\ ctx_stmt' = ctx_stmt
      /\ src' = src /\ pos' = pos
  BY DEF Block, At
<1>2. \/ n = 1 /\ Top = AtProcBlock
      \/ n # 1 /\ Top \in {AtBlock, AtIfBlock}
  BY TopsAre DEF Block, At
<1>3. /\ frames \in Seq(Seq(Symbol)) /\ n \in Nat /\ n >= 1
      /\ <<>> \o Tail(Top) \in Seq(Symbol) /\ Fresh \in Seq(Symbol)
  <2>1. Consume("LBRACE") \in Symbol /\ Rule("stmts") \in Symbol
    BY PlainConsume DEF Symbol, TokenKinds
  <2>2. Fresh \in Seq(Symbol)
    BY <2>1 DEF Fresh
  <2> QED
    BY <2>2, FramesAre
<1>4. fs = [frames EXCEPT ![n] = <<>> \o Tail(Top)]
  BY FramesAre DEF Unfold
<1>5. /\ n = 1 => <<>> \o Tail(Top) = AtProgram
      /\ n # 1 => <<>> \o Tail(Top) \in {AtLoop, AtElse}
  BY <1>2, Tails
<1>6. frames' = Append(fs, Fresh)
  BY DEF Block, Fresh
<1> DEFINE new == <<>> \o Tail(Top)
           F   == Seq(Symbol)
<1> HIDE DEF fs, new, F
<1>7. /\ fs \in Seq(F) /\ Len(fs) = n /\ fs[n] = new
      /\ \A i \in 1..n : i # n => fs[i] = frames[i]
  BY <1>3, <1>4 DEF new, F
<1>8. /\ frames' \in Seq(F) /\ Len(frames') = n + 1 /\ frames'[n + 1] = Fresh
      /\ \A i \in 1..n : frames'[i] = fs[i]
  BY <1>3, <1>6, <1>7 DEF F
<1>9. Top' = Fresh
  BY <1>3, <1>8 DEF Top, Last
<1>10. Waits(frames')
  <2>1. ASSUME NEW i \in 1..Len(frames') - 1
        PROVE  frames'[i] \in IF i = 1 THEN {AtProgram} ELSE {AtLoop, AtElse}
    <3>1. i \in 1..n /\ frames'[i] = fs[i]
      BY <1>3, <1>8, <2>1
    <3>2. CASE i = n
      BY <1>5, <1>7, <3>1, <3>2 DEF new
    <3>3. CASE i # n
      <4>1. i \in 1..n - 1 /\ fs[i] = frames[i]
        BY <1>3, <1>7, <3>1, <3>3
      <4> QED
        BY <3>1, <4>1 DEF JumpInv, Waits
    <3> QED
      BY <3>2, <3>3
  <2> QED
    BY <2>1 DEF Waits
<1>11. n + 1 # 1 /\ n + 1 > 1 /\ (n # 1 => n > 1 /\ n + 1 > 2) /\ n + 1 - 1 = n
       /\ (n = 1 => n + 1 = 2)
  <2>1. n \in Nat /\ n >= 1
    BY <1>3
  <2> HIDE DEF n
  <2> QED
    BY <2>1
<1>12. Jumps(n, Top, ctx, ctx_stmt, "parse")
  BY <1>1 DEF JumpInv
<1>13. CASE n = 1
  <2>1. ctx = "DECL" /\ ~ctx_stmt.live
    BY <1>2, <1>12, <1>13, FrameNames DEF Jumps
  <2>2. Jumps(n + 1, Fresh, ctx, ctx_stmt, "parse")
    BY <1>11, <1>13, <2>1, FrameNames DEF Jumps
  <2>3. Stranded'
    BY <1>1, <2>1 DEF Stranded
  <2>4. Shape(n + 1, Fresh)
    BY <1>11 DEF Shape
  <2> QED
    BY <1>1, <1>8, <1>9, <1>10, <2>2, <2>3, <2>4 DEF JumpInv
<1>14. CASE n # 1
  <2>1. ctx # "DECL" /\ (ctx_stmt.live => ctx_stmt.frame = n)
    <3>1. Top \notin {Fresh, AtLoop, AtStmt}
      BY <1>2, <1>14, FrameNames
    <3> QED
      BY <1>11, <1>12, <1>14, <3>1 DEF Jumps
  <2>2. Jumps(n + 1, Fresh, ctx, ctx_stmt, "parse")
    BY <1>11, <1>14, <2>1, FrameNames DEF Jumps
  <2>3. Stranded'
    <3>1. Stranded
      BY <1>1 DEF JumpInv
    <3>2. CASE ctx = "STMT" /\ ~ctx_stmt.live
      <4>1. AfterElse
        BY <1>2, <1>11, <1>14, <3>1, <3>2, FrameNames DEF Stranded
      <4>2. AfterElse'
        BY <1>1, <4>1 DEF AfterElse
      <4> QED
        BY <1>9, <4>2 DEF Stranded
    <3>3. CASE ~(ctx = "STMT" /\ ~ctx_stmt.live)
      BY <1>1, <3>3 DEF Stranded
    <3> QED
      BY <3>2, <3>3
  <2>4. Shape(n + 1, Fresh)
    BY <1>11 DEF Shape
  <2> QED
    BY <1>1, <1>8, <1>9, <1>10, <2>2, <2>3, <2>4 DEF JumpInv
<1> QED
  BY <1>13, <1>14

\* Cutting the stack at a frame that waits.
LEMMA Cut ==
  ASSUME IInv, JumpInv, NEW n \in 1..Len(frames)
  PROVE  LET fs == SubSeq(frames, 1, n) IN
         /\ fs \in Seq(Seq(Symbol)) /\ Len(fs) = n /\ \A i \in 1..n : fs[i] = frames[i]
         /\ Waits(fs)
<1> DEFINE fs == SubSeq(frames, 1, n)
           F  == Seq(Symbol)
<1>1. frames \in Seq(F) /\ n \in Nat /\ n <= Len(frames) /\ Len(frames) \in Nat
  BY FramesAre
<1> HIDE DEF F
<1>2. fs \in Seq(F) /\ Len(fs) = n /\ \A i \in 1..n : fs[i] = frames[i]
  BY <1>1, Shortened
<1> HIDE DEF fs
<1>3. ASSUME NEW i \in 1..Len(fs) - 1
      PROVE  fs[i] \in IF i = 1 THEN {AtProgram} ELSE {AtLoop, AtElse}
  <2>1. i \in 1..n /\ i \in 1..Len(frames) - 1
    BY <1>1, <1>2, <1>3
  <2> QED
    BY <1>2, <2>1 DEF JumpInv, Waits
<1> QED
  BY <1>2, <1>3 DEF Waits, F, fs

\* A turn of the loop: the jump is set for it, and it goes on, or its activation
\* returns to a frame that waits.
LEMMA LoopKeepsJumps == ASSUME IInv, JumpInv, BlockLoop PROVE JumpInv'
<1> DEFINE n == Len(frames)
<1>1. mode = "parse" /\ n # 1 /\ Top = AtLoop /\ ctx' = ctx
      /\ ctx_stmt' = [frame |-> n, live |-> Tok # "RBRACE"]
  BY TopsAre DEF BlockLoop, SetJmp, At
<1>2. n \in Nat /\ n >= 1 /\ n > 1 /\ n >= 2 /\ n - 1 \in 1..n
  <2>1. n \in Nat /\ n >= 1
    BY FramesAre
  <2> HIDE DEF n
  <2> QED
    BY <1>1, <2>1, TwoOrMore
<1>3. ctx_stmt'.frame = n /\ (ctx_stmt'.live <=> Tok # "RBRACE")
  BY <1>1
<1>4. Jumps(n, AtLoop, ctx, ctx_stmt, "parse")
  BY <1>1 DEF JumpInv
<1>5. ctx = "DECL" => n = 2
  BY <1>2, <1>4, FrameNames DEF Jumps
<1>6. CASE Tok = "RBRACE" /\ AdvanceIn("parse", Front(frames))
  <2>1. /\ frames' = SubSeq(frames, 1, n - 1) /\ mode' \in {"parse", "rejected"}
    BY <1>6 DEF AdvanceIn, Front
  <2>2. /\ frames' \in Seq(Seq(Symbol)) /\ Len(frames') = n - 1
        /\ \A i \in 1..n - 1 : frames'[i] = frames[i]
        /\ Waits(frames')
    BY <1>2, <2>1, Cut
  <2>3. Top' = frames[n - 1]
    <3>1. Top' = frames'[n - 1]
      BY <2>2 DEF Top, Last
    <3>2. n - 1 \in 1..n - 1
      BY <1>2
    <3> QED
      BY <2>2, <3>1, <3>2
  <2>4. Top' \in IF n - 1 = 1 THEN {AtProgram} ELSE {AtLoop, AtElse}
    <3>1. n - 1 \in 1..n - 1
      BY <1>2
    <3> QED
      BY <2>3, <3>1 DEF JumpInv, Waits
  <2>5. Shape(n - 1, Top')
    BY <2>4, FrameOf DEF Shape, DeclTails, StmtTails
  <2>6. ~ctx_stmt'.live
    BY <1>3, <1>6
  <2>7. n = 2 <=> n - 1 = 1
    BY <1>2
  <2>8. mode' # "recover"
    BY <2>1
  <2>9. Jumps(n - 1, Top', ctx', ctx_stmt', mode')
    BY <1>1, <1>5, <2>4, <2>6, <2>7, <2>8, FrameNames DEF Jumps
  <2>10. Stranded'
    <3>1. Len(frames') > 1 => Top' \in {AtLoop, AtElse}
      <4>1. n - 1 > 1 => n - 1 # 1
        <5>1. \A k \in Int : k > 1 => k # 1
          OBVIOUS
        <5>2. n - 1 \in Int
          BY <1>2
        <5> HIDE DEF n
        <5> QED
          BY <5>1, <5>2
      <4> QED
        BY <2>2, <2>4, <4>1
    <3> QED
      BY <3>1 DEF Stranded
  <2> QED
    BY <2>2, <2>5, <2>9, <2>10 DEF JumpInv
<1>7. CASE Finish("rejected")
  <2>1. frames' = frames /\ Top' = Top /\ mode' = "rejected"
    BY <1>7 DEF Finish, Top
  <2>2. Jumps(n, AtLoop, ctx', ctx_stmt', "rejected")
    BY <1>1, <1>2, <1>3, <1>5, FrameNames DEF Jumps
  <2> QED
    BY <1>1, <2>1, <2>2 DEF JumpInv
<1>8. CASE Tok # "RBRACE" /\ Goto(<<Rule("stmt"), Rule("stmts")>>)
  <2>1. AtStmt = <<Rule("stmt"), Rule("stmts")>> \o Tail(Top)
    BY <1>1, Tails
  <2>2. Shape(n, AtStmt)
    BY <1>1 DEF Shape
  <2>3. ctx_stmt'.live
    BY <1>3, <1>8
  <2>4. Jumps(n, AtStmt, ctx', ctx_stmt', "parse")
    BY <1>1, <1>2, <1>3, <1>5, <2>3, FrameNames DEF Jumps
  <2> QED
    BY <1>1, <1>8, <2>1, <2>2, <2>3, <2>4, RuleSymbols, UnfoldKeepsJumps, Zenon
<1> QED
  BY <1>6, <1>7, <1>8 DEF BlockLoop, On, Otherwise

\* No jump of a statement is left over when a declaration's is taken.
LEMMA RecoverDeclKeepsJumps == ASSUME IInv, JumpInv, RecoverDecl PROVE JumpInv'
<1>1. mode = "recover" /\ ctx = "DECL" /\ ctx' = ctx /\ ctx_stmt' = ctx_stmt
  BY DEF RecoverDecl
<1>2. ~ctx_stmt.live
  <2> DEFINE n == Len(frames)
  <2>1. n \in Nat /\ n >= 1
    BY FramesAre
  <2>2. Jumps(n, Top, "DECL", ctx_stmt, "recover")
    BY <1>1 DEF JumpInv
  <2> HIDE DEF n
  <2>3. n # 1 => n > 1 /\ ~(n = 2 /\ n > 2)
    BY <2>1, TwoOrMore
  <2> QED
    BY <2>2, <2>3 DEF Jumps
<1>3. CASE /\ frames' = << <<Rule("decl"), Rule("program")>> >>
           /\ mode' = "parse"
  <2>1. frames' = <<AtDecl>>
    BY <1>3 DEF AtDecl
  <2>2. Len(frames') = 1 /\ Top' = AtDecl
    BY <2>1 DEF Top, Last
  <2>3. Waits(frames') /\ Shape(Len(frames'), Top')
    BY <2>2 DEF Waits, Shape
  <2>4. Jumps(Len(frames'), Top', ctx', ctx_stmt', mode')
    BY <1>1, <1>2, <2>2 DEF Jumps
  <2>5. Stranded'
    BY <2>2 DEF Stranded
  <2> QED
    BY <2>3, <2>4, <2>5 DEF JumpInv
<1>4. CASE /\ frames' = frames /\ mode' \in {"recover", "rejected"}
  <2>1. Top' = Top /\ mode' # "parse"
    BY <1>4 DEF Top
  <2>2. Jumps(Len(frames), Top, ctx, ctx_stmt, mode')
    BY <1>1, <1>4, JumpsTo, Zenon DEF JumpInv
  <2> QED
    BY <1>1, <1>4, <2>1, <2>2 DEF JumpInv
<1> QED
  BY <1>3, <1>4 DEF RecoverDecl, Otherwise, AdvanceIn, Finish

\* The loop that is resumed becomes the innermost one.
LEMMA RecoverStmtKeepsJumps == ASSUME IInv, JumpInv, RecoverStmt PROVE JumpInv'
<1> DEFINE f == ctx_stmt.frame
           n == Len(frames)
           cut == SubSeq(frames, 1, f - 1)
<1>1. mode = "recover" /\ ctx = "STMT" /\ ctx' = ctx /\ ctx_stmt' = ctx_stmt
  BY DEF RecoverStmt
<1>2. CASE /\ frames' = frames /\ mode' \in {"recover", "rejected", "undefined"}
  <2>1. Top' = Top /\ mode' # "parse"
    BY <1>2 DEF Top
  <2>2. Jumps(Len(frames), Top, ctx, ctx_stmt, mode')
    BY <1>1, <1>2, JumpsTo, Zenon DEF JumpInv
  <2> QED
    BY <1>1, <1>2, <2>1, <2>2 DEF JumpInv
<1>3. CASE /\ f \in 1..n /\ frames' = Append(cut, <<Rule("stmts")>>)
           /\ mode' \in {"parse", "rejected"}
  <2>1. n \in Nat /\ f \in Nat /\ f # 1 /\ f \in 1..n
    BY <1>3, FramesAre DEF IInv, CtxOK
  <2> HIDE DEF f, n
  <2>2. f - 1 \in 1..n /\ f > 1 /\ f - 1 + 1 = f /\ f - 1 \in Nat
    BY <2>1
  <2>3. /\ cut \in Seq(Seq(Symbol)) /\ Len(cut) = f - 1
        /\ \A i \in 1..f - 1 : cut[i] = frames[i]
    BY <2>2, Cut DEF n
  <2>4. AtLoop \in Seq(Symbol)
    BY DEF AtLoop, Symbol
  <2>5. frames' = Append(cut, AtLoop)
    BY <1>3 DEF AtLoop
  <2> DEFINE F == Seq(Symbol)
  <2> HIDE DEF cut, F
  <2>6. /\ frames' \in Seq(F) /\ Len(frames') = f /\ frames'[f] = AtLoop
        /\ \A i \in 1..f - 1 : frames'[i] = cut[i]
    BY <2>2, <2>3, <2>4, <2>5 DEF F
  <2>7. Top' = AtLoop
    BY <2>6 DEF Top, Last
  <2>8. Waits(frames')
    <3>1. ASSUME NEW i \in 1..Len(frames') - 1
          PROVE  frames'[i] \in IF i = 1 THEN {AtProgram} ELSE {AtLoop, AtElse}
      <4>1. i \in 1..f - 1 /\ i \in 1..n - 1
        BY <2>1, <2>6, <3>1
      <4>2. frames'[i] = frames[i]
        BY <2>3, <2>6, <4>1
      <4> QED
        BY <4>1, <4>2 DEF JumpInv, Waits, n
    <3> QED
      BY <3>1 DEF Waits
  <2>9. Shape(f, AtLoop)
    BY <2>1, FrameOf DEF Shape, StmtTails
  <2>10. Jumps(f, AtLoop, ctx', ctx_stmt', mode')
    <3>1. ctx_stmt'.frame = f /\ ctx' # "DECL"
      BY <1>1 DEF f
    <3> QED
      BY <2>1, <3>1, FrameNames DEF Jumps
  <2>11. Stranded'
    BY <2>7 DEF Stranded
  <2> QED
    BY <2>6, <2>7, <2>8, <2>9, <2>10, <2>11 DEF JumpInv
<1> QED
  BY <1>2, <1>3 DEF RecoverStmt, Otherwise, AdvanceIn, Finish

LEMMA InitJumpInv == ASSUME Init PROVE JumpInv
<1>1. Len(frames) = 1 /\ Top = AtProgram
  BY DEF Init, Top, Last, AtProgram
<1>2. Waits(frames) /\ Shape(1, AtProgram)
  BY <1>1, FrameOf DEF Waits, Shape, DeclTails
<1>3. Jumps(1, AtProgram, ctx, ctx_stmt, mode)
  BY DEF Init, Jumps
<1>4. Stranded
  BY <1>1 DEF Stranded
<1> QED
  BY <1>1, <1>2, <1>3, <1>4 DEF JumpInv

LEMMA NextJumpInv == ASSUME IInv, JumpInv, [Next]_vars PROVE JumpInv'
<1>1. CASE UNCHANGED vars
  BY <1>1 DEF vars, JumpInv, Top, Stranded, AfterElse
<1>2. CASE Recovery
  BY <1>2, RecoverDeclKeepsJumps, RecoverStmtKeepsJumps DEF Recovery
<1> QED
  BY <1>1, <1>2, Steps, SimpleKeepsJumps, ProgramKeepsJumps, DeclKeepsJumps, BodyKeepsJumps,
     BlockKeepsJumps, LoopKeepsJumps, StmtKeepsJumps, ElseKeepsJumps

LEMMA JumpInvariance == Spec => []JumpInv
BY InitJumpInv, NextJumpInv, Invariance, PTL DEF Spec

\* a frame that waits, or that is past its brace, is an open block
LEMMA OpenFrames ==
  ASSUME IInv, JumpInv
  PROVE  /\ DOMAIN frames = 1..Len(frames)
         /\ \A i \in 1..Len(frames) - 1 : i # 1 => frames[i][1] # Consume("LBRACE")
         /\ Len(frames) # 1 => (frames[Len(frames)][1] = Consume("LBRACE") <=> Top = Fresh)
<1>1. \A fr \in Seq(Symbol) : fr # <<>> => Head(fr) = fr[1]
  OBVIOUS
<1>2. DOMAIN frames = 1..Len(frames)
  BY FramesAre
<1>3. ASSUME NEW i \in 1..Len(frames) - 1, i # 1 PROVE frames[i][1] # Consume("LBRACE")
  <2>1. frames[i] \in {AtLoop, AtElse}
    BY <1>3 DEF JumpInv, Waits
  <2>2. i \in 1..Len(frames)
    BY <1>3, FramesAre
  <2>3. Head(frames[i]) = frames[i][1]
    BY <1>1, <2>2, FramesAre
  <2> QED
    BY <2>1, <2>3, Heads
<1>4. ASSUME Len(frames) # 1
      PROVE  frames[Len(frames)][1] = Consume("LBRACE") <=> Top = Fresh
  <2>1. Head(Top) = frames[Len(frames)][1]
    BY <1>1, FramesAre
  <2>2. Top \in {Fresh, AtStmt} \/ StmtFrame(Top)
    BY <1>4 DEF JumpInv, Shape
  <2> QED
    BY <2>1, <2>2, Heads, StmtFrameHead
<1> QED
  BY <1>2, <1>3, <1>4

\* Wherever an error in a statement is reported, parser_sync() jumps to the innermost
\* block whose brace has been read, for every text and every nesting of blocks.
THEOREM ErrorsResumeInnermostBlock == Spec => []ResumesInnermostOpenBlock
<1>1. ASSUME IInv, JumpInv, mode = "recover", ctx = "STMT", ctx_stmt.live
      PROVE  /\ Opened(ctx_stmt.frame)
             /\ \A i \in DOMAIN frames : Opened(i) => i <= ctx_stmt.frame
  <2> DEFINE n == Len(frames)
  <2>1. n \in Nat /\ n >= 1 /\ n # 1
    BY <1>1, FramesAre DEF JumpInv, Jumps
  <2>2. \/ ctx_stmt.frame = n /\ Top # Fresh
        \/ ctx_stmt.frame = n - 1 /\ n > 2 /\ Top = Fresh
    BY <1>1 DEF JumpInv, Jumps
  <2>3. /\ DOMAIN frames = 1..n
        /\ \A i \in 1..n - 1 : i # 1 => frames[i][1] # Consume("LBRACE")
        /\ frames[n][1] = Consume("LBRACE") <=> Top = Fresh
    BY <1>1, <2>1, OpenFrames
  <2> HIDE DEF n
  <2>4. n > 1
    BY <2>1, TwoOrMore
  <2>5. CASE ctx_stmt.frame = n /\ Top # Fresh
    BY <2>1, <2>3, <2>4, <2>5 DEF Opened
  <2>6. CASE ctx_stmt.frame = n - 1 /\ n > 2 /\ Top = Fresh
    <3>1. n - 1 \in 1..n - 1 /\ n - 1 > 1 /\ n - 1 # 1 /\ \A i \in 1..n : i # n => i <= n - 1
      BY <2>1, <2>6
    <3>2. ~Opened(n)
      BY <2>3, <2>6 DEF Opened
    <3> QED
      BY <2>3, <2>6, <3>1, <3>2 DEF Opened
  <2> QED
    BY <2>2, <2>5, <2>6
<1>2. IInv /\ JumpInv => ResumesInnermostOpenBlock
  BY <1>1 DEF ResumesInnermostOpenBlock
<1> QED
  BY <1>2, Invariance, JumpInvariance, PTL

\* An error in a declaration never makes parser_sync() drop a block whose
\* statements are being parsed, for every text.
THEOREM DeclErrorsLeaveNoBlock == Spec => []DeclJumpLeavesNoBlock
<1>1. ASSUME IInv, JumpInv, mode = "recover", ctx = "DECL", NEW i \in DOMAIN frames
      PROVE  ~Opened(i)
  <2> DEFINE n == Len(frames)
  <2>1. n \in Nat /\ n >= 1 /\ DOMAIN frames = 1..n
    BY <1>1, FramesAre, OpenFrames
  <2>2. n # 1 => n = 2 /\ Top = Fresh /\ frames[n][1] = Consume("LBRACE")
    <3>1. n > 1 => n = 2 /\ Top = Fresh
      BY <1>1 DEF JumpInv, Jumps
    <3>2. n # 1 => n > 1
      BY <2>1, TwoOrMore
    <3> QED
      BY <1>1, <3>1, <3>2, OpenFrames
  <2> HIDE DEF n
  <2>3. i = 1 \/ (i = 2 /\ n = 2)
    BY <1>1, <2>1, <2>2
  <2> QED
    BY <2>2, <2>3 DEF Opened
<1>2. IInv /\ JumpInv => DeclJumpLeavesNoBlock
  BY <1>1 DEF DeclJumpLeavesNoBlock
<1> QED
  BY <1>2, Invariance, JumpInvariance, PTL

\* For every text, the only error that finds the block it would jump to already left
\* is a token other than "{" behind "else".
THEOREM DeadJumpsFollowElse == Spec => OnlyElseJumpsDead
<1>1. ASSUME IInv, JumpInv, [Next]_vars, mode = "parse", mode' = "recover",
             ctx' = "STMT", ~ctx_stmt'.live
      PROVE  AfterElse
  <2>1. CASE SimpleStep
    <3>1. /\ Head(Top).do \notin Special \cup Loops /\ ctx' = ctx /\ ctx_stmt' = ctx_stmt
      BY <2>1 DEF SimpleStep
    <3>2. Top \notin {AtProgram, AtDecl, AtLoop, AtElse, AtBlock}
      BY <3>1, Heads DEF Special, Loops
    <3>3. Len(frames) # 1
      BY <1>1, <3>1, <3>2 DEF JumpInv, Jumps
    <3>4. Len(frames) > 1
      <4>1. Len(frames) \in Nat /\ Len(frames) >= 1
        BY <1>1, FramesAre
      <4> QED
        BY <3>3, <4>1, TwoOrMore
    <3> QED
      BY <1>1, <3>1, <3>2, <3>4 DEF JumpInv, Stranded
  <2>2. CASE RuleDecl
    BY <1>1, <2>2 DEF RuleDecl
  <2>3. CASE RuleProgram \/ ProcBody \/ ElseTail
    BY <1>1, <2>3 DEF RuleProgram, ProcBody, ElseTail, On, Otherwise, Advance, AdvanceIn,
                      Goto, Finish
  <2>4. CASE Block \/ BlockLoop \/ RuleStmt
    BY <1>1, <2>4 DEF Block, BlockLoop, RuleStmt, On, Otherwise, AdvanceIn, Goto, Finish
  <2>5. CASE Recovery \/ UNCHANGED vars
    BY <1>1, <2>5 DEF Recovery, RecoverDecl, RecoverStmt, vars
  <2> QED
    BY <1>1, <2>1, <2>2, <2>3, <2>4, <2>5, Steps
<1>2. ASSUME IInv, JumpInv, [Next]_vars
      PROVE  [mode = "parse" /\ mode' = "recover" /\ ~StmtJumpLive'
                => pos > 1 /\ src[pos - 1] = "KW_ELSE"]_vars
  BY <1>1, <1>2 DEF StmtJumpLive, AfterElse
<1> QED
  BY <1>2, Invariance, JumpInvariance, PTL DEF Spec, OnlyElseJumpsDead

-----------------------------------------------------------------------------
(* Tables                                                                  *)
(*                                                                         *)
(* Table.field_count starts anywhere and nothing tests it, so what bounds  *)
(* it is what has been read.  TableInv ties the count in hand to the       *)
(* colons behind the last "table": it is on the stack of rule_program only *)
(* while that table is read, at a place that tells whether the colon of    *)
(* the field in hand is among them.                                        *)

TableRead == \E i \in 1..pos - 1 : src[i] = "KW_TABLE"

\* n fields are some uninitialised count and fields that have been read
Fits(n) == \E c \in UninitCounts : n <= c + FieldsRead

AtTable(n) == <<Consume("KW_TABLE"), Consume("LITERAL_IDENT"), Consume("LBRACE"),
                Counting("fields", n), Rule("program")>>
AtName(n)  == <<Consume("LITERAL_IDENT"), Consume("LBRACE"), Counting("fields", n), Rule("program")>>
AtBrace(n) == <<Consume("LBRACE"), Counting("fields", n), Rule("program")>>
AtFields(n) == <<Counting("fields", n), Rule("program")>>
AtField(n)  == <<Rule("param"), Counting("field_stored", n), Rule("program")>>
AtFieldName(n) == <<Consume("LITERAL_IDENT"), Consume("COLON"), Rule("type"),
                    Counting("field_stored", n), Rule("program")>>
AtColon(n)  == <<Consume("COLON"), Rule("type"), Counting("field_stored", n), Rule("program")>>
AtStored(n) == <<Counting("field_stored", n), Rule("program")>>

\* what a type is read with: rule_util_type and the parameters of a procedure type
TypeSymbols ==
  {x \in Plain : \/ x.do \in {"param", "type"} \cup ParamLoops
                 \/ x.do = "consume" /\ x.kind # "KW_TABLE"}

InTable(fr) ==
  \E n \in Nat :
    \/ n \in UninitCounts /\ fr = AtTable(n)
    \/ /\ TableRead /\ Fits(n)
       /\ fr \in {AtName(n), AtBrace(n), AtFields(n), AtField(n), AtFieldName(n), AtColon(n)}
    \/ /\ TableRead /\ FieldsRead > 0 /\ Fits(n + 1)
       /\ IsFrame(TypeSymbols, {AtStored(n)}, fr)

\* the symbols of a frame no table is read in
Tableless == Common \cup {Rule("program"), Rule("stmts")}

TableInv ==
  mode = "parse" => Top \in Seq(Tableless) \/ (Len(frames) = 1 /\ InTable(Top))

\* the colons FieldsRead counts
Colons(p) ==
  {i \in 1..p - 1 : /\ src[i] = "COLON"
                    /\ \E t \in 1..i : src[t] = "KW_TABLE"
                    /\ ~\E t \in i..p - 1 : src[t] = "KW_TABLE"}

LEMMA FieldsReadAre ==
  /\ FieldsRead = Cardinality(Colons(pos))
  /\ src' = src => FieldsRead' = Cardinality(Colons(pos'))
BY DEF FieldsRead, Colons

LEMMA ColonsFinite ==
  ASSUME NEW p \in Nat PROVE IsFiniteSet(Colons(p)) /\ Cardinality(Colons(p)) \in Nat
<1>1. 1 \in Int /\ p - 1 \in Int
  OBVIOUS
<1>2. IsFiniteSet(1..p - 1)
  BY <1>1, FS_Interval
<1>3. Colons(p) \in SUBSET (1..p - 1)
  BY DEF Colons
<1> QED
  BY <1>2, <1>3, FS_Subset, FS_CardinalityType

\* A colon behind a "table" adds one to the fields, another token but "table" none.
LEMMA OneMoreColon ==
  ASSUME NEW p \in Nat, p >= 1, src[p] # "KW_TABLE"
  PROVE  Cardinality(Colons(p + 1)) =
           IF src[p] = "COLON" /\ \E i \in 1..p - 1 : src[i] = "KW_TABLE"
           THEN Cardinality(Colons(p)) + 1 ELSE Cardinality(Colons(p))
<1>1. \A i : i \in 1..p + 1 - 1 <=> i \in 1..p - 1 \/ i = p
  OBVIOUS
<1>2. ASSUME NEW i \in 1..p - 1 PROVE i \in Colons(p + 1) <=> i \in Colons(p)
  <2>1. \A t : t \in i..p + 1 - 1 <=> t \in i..p - 1 \/ t = p
    OBVIOUS
  <2> QED
    BY <1>1, <2>1 DEF Colons
<1>3. p \in Colons(p + 1) <=> src[p] = "COLON" /\ \E i \in 1..p - 1 : src[i] = "KW_TABLE"
  <2>1. \A t : (t \in 1..p <=> t \in 1..p - 1 \/ t = p) /\ (t \in p..p + 1 - 1 <=> t = p)
    OBVIOUS
  <2> QED
    BY <1>1, <2>1 DEF Colons
<1>4. p \notin Colons(p) /\ Colons(p + 1) \subseteq 1..p + 1 - 1 /\ Colons(p) \subseteq 1..p - 1
  BY DEF Colons
<1>5. CASE p \in Colons(p + 1)
  <2>1. Colons(p + 1) = Colons(p) \cup {p}
    BY <1>1, <1>2, <1>4, <1>5
  <2>2. Cardinality(Colons(p) \cup {p}) = Cardinality(Colons(p)) + 1
    BY <1>4, ColonsFinite, FS_AddElement
  <2> QED
    BY <1>3, <1>5, <2>1, <2>2
<1>6. CASE p \notin Colons(p + 1)
  <2>1. Colons(p + 1) = Colons(p)
    BY <1>1, <1>2, <1>4, <1>6
  <2> QED
    BY <1>3, <1>6, <2>1
<1> QED
  BY <1>5, <1>6

\* What fits still fits when the parser goes on, and one field more behind a colon.
LEMMA FitsNext ==
  ASSUME IInv, src' = src, pos' = pos \/ (pos' = pos + 1 /\ Tok \notin {"EOF", "KW_TABLE"}),
         TableRead
  PROVE  /\ TableRead' /\ FieldsRead' \in Nat /\ FieldsRead \in Nat /\ FieldsRead' >= FieldsRead
         /\ \A n \in Nat : Fits(n) => Fits(n)'
         /\ pos' = pos + 1 /\ Tok = "COLON" =>
              FieldsRead' > 0 /\ \A n \in Nat : Fits(n) => Fits(n + 1)'
<1>1. pos \in Nat /\ pos >= 1 /\ Len(src) \in Nat
  BY DEF IInv, RestOK
<1>2. FieldsRead \in Nat /\ FieldsRead' \in Nat
  BY <1>1, FieldsReadAre, ColonsFinite
<1>3. TableRead'
  BY <1>1 DEF TableRead
<1>4. /\ FieldsRead' >= FieldsRead
      /\ pos' = pos + 1 /\ Tok = "COLON" => FieldsRead' = FieldsRead + 1
  <2>1. CASE pos' = pos
    BY <1>1, <1>2, <2>1, FieldsReadAre
  <2>2. CASE pos' = pos + 1 /\ Tok \notin {"EOF", "KW_TABLE"}
    <3>1. src[pos] = Tok
      BY <2>2 DEF Tok, TokAt
    <3>2. FieldsRead' = Cardinality(Colons(pos + 1))
      BY <2>2, FieldsReadAre
    <3> QED
      BY <1>1, <1>2, <2>2, <3>1, <3>2, OneMoreColon, FieldsReadAre DEF TableRead
  <2> QED
    BY <2>1, <2>2
<1>5. UninitCounts \subseteq Nat
  BY UninitAssumption
<1>6. ASSUME NEW n \in Nat, Fits(n)
      PROVE  Fits(n)' /\ (pos' = pos + 1 /\ Tok = "COLON" => Fits(n + 1)')
  <2>1. PICK c \in UninitCounts : n <= c + FieldsRead
    BY <1>6 DEF Fits
  <2>0. \A k, r, q \in Nat : n <= k + r /\ q >= r => n <= k + q
    BY <1>6
  <2>2. c \in Nat /\ n <= c + FieldsRead'
    <3>1. c \in Nat
      BY <1>5
    <3> QED
      BY <1>2, <1>4, <2>0, <2>1, <3>1, Zenon
  <2>3. pos' = pos + 1 /\ Tok = "COLON" => n + 1 <= c + FieldsRead'
    BY <1>2, <1>4, <1>6, <2>1, <2>2
  <2> QED
    BY <2>2, <2>3 DEF Fits
<1>7. pos' = pos + 1 /\ Tok = "COLON" => FieldsRead' > 0
  BY <1>2, <1>4
<1> QED
  BY <1>2, <1>3, <1>4, <1>6, <1>7, Zenon
\* The rules a table is read with, told by the symbol at hand.
TableWords == {"consume", "param", "type"} \cup ParamLoops \cup FieldLoops

LEMMA TableRules ==
  ASSUME [Next]_vars, mode = "parse", Head(Top).do \in TableWords
  PROVE  \/ ParserConsume \/ Param \/ RuleType \/ Params \/ ParamStored \/ Fields \/ FieldStored
         \/ UNCHANGED vars
<1>1. ~(RuleProgram \/ RuleDecl \/ ProcBody)
  BY DEF RuleProgram, RuleDecl, ProcBody, At, TableWords, ParamLoops, FieldLoops
<1>2. ~(RuleExpr \/ Unary \/ BinopTail \/ AssignTail \/ Primary)
  BY DEF RuleExpr, Unary, BinopTail, AssignTail, Primary, At, TableWords, ParamLoops, FieldLoops
<1>3. ~(Grouping \/ CallTail \/ IndexTail \/ Args \/ Values)
  BY DEF Grouping, CallTail, IndexTail, Args, Values, ListLoop, At, TableWords, ParamLoops,
         FieldLoops
<1>4. ~Stmt
  BY DEF Stmt, Block, BlockLoop, RuleStmt, ExprStmt, VarDeclInit, ElseTail, At, TableWords,
         ParamLoops, FieldLoops
<1>5. ~Recovery /\ ~Terminated
  BY DEF Recovery, RecoverDecl, RecoverStmt, Terminated, Outcomes
<1> QED
  BY <1>1, <1>2, <1>3, <1>4, <1>5 DEF Next, Declaration, Expression

LEMMA TypeSymbolsAre ==
  /\ TypeSymbols \subseteq Symbol
  /\ Rule("type") \in TypeSymbols /\ Rule("param") \in TypeSymbols
  /\ Consume("LITERAL_IDENT") \in TypeSymbols /\ Consume("COLON") \in TypeSymbols
  /\ Consume("KW_PROC") \in TypeSymbols
  /\ \A r \in ParamLoops, n \in Nat : n < MAX_PARAM_COUNT => Counting(r, n) \in TypeSymbols
  /\ Signature \in Seq(TypeSymbols)
<1>1. TypeSymbols \subseteq Symbol
  BY DEF TypeSymbols, Symbol
<1>2. Rule("type") \in TypeSymbols /\ Rule("param") \in TypeSymbols
  BY PlainRule, Dos DEF TypeSymbols, RuleNames
<1>3. /\ Consume("LITERAL_IDENT") \in TypeSymbols /\ Consume("COLON") \in TypeSymbols
      /\ Consume("KW_PROC") \in TypeSymbols /\ Consume("LPAREN") \in TypeSymbols
  BY PlainConsume, Dos DEF TypeSymbols, TokenKinds, Literals
<1>4. ASSUME NEW r \in ParamLoops, NEW n \in Nat, n < MAX_PARAM_COUNT
      PROVE  Counting(r, n) \in TypeSymbols
  BY <1>4, PlainParams DEF TypeSymbols, Counting
<1>5. Counting("params", 0) \in TypeSymbols
  BY <1>4, CapacityAssumption DEF ParamLoops
<1>6. Signature \in Seq(TypeSymbols)
  BY <1>2, <1>3, <1>5 DEF Signature
<1> QED
  BY <1>1, <1>2, <1>3, <1>4, <1>6

\* Reading a type reads no "table" and puts nothing but types on the stack.
LEMMA TypeSteps ==
  ASSUME IInv, [Next]_vars, mode = "parse", mode' = "parse", Head(Top) \in TypeSymbols
  PROVE  \/ UNCHANGED vars
         \/ \E s \in Seq(TypeSymbols) :
              /\ frames' = Unfold(s) /\ src' = src
              /\ pos' = pos \/ (pos' = pos + 1 /\ Tok \notin {"EOF", "KW_TABLE"})
<1> DEFINE Step == \E s \in Seq(TypeSymbols) :
              /\ frames' = Unfold(s) /\ src' = src
              /\ pos' = pos \/ (pos' = pos + 1 /\ Tok \notin {"EOF", "KW_TABLE"})
<1>0. Head(Top).do \in {"consume", "param", "type"} \cup ParamLoops
  BY DEF TypeSymbols
<1>1. ASSUME NEW s \in Seq(TypeSymbols), Goto(s) \/ (Advance(s) /\ Tok # "KW_TABLE") PROVE Step
  BY <1>1 DEF Goto, Advance, AdvanceIn, Finish
<1>2. ~Sync
  BY DEF Sync
<1>3. <<>> \in Seq(TypeSymbols)
  OBVIOUS
<1> HIDE DEF Step
<1>4. ASSUME ParserConsume PROVE Step
  <2>1. Head(Top).kind # "KW_TABLE"
    BY <1>4 DEF ParserConsume, At, TypeSymbols, ParamLoops
  <2> QED
    BY <1>1, <1>2, <1>3, <1>4, <2>1 DEF ParserConsume, On, Otherwise
<1>5. ASSUME Param PROVE Step
  <2>1. <<Consume("LITERAL_IDENT"), Consume("COLON"), Rule("type")>> \in Seq(TypeSymbols)
    BY TypeSymbolsAre
  <2> QED
    BY <1>1, <1>5, <2>1 DEF Param
<1>6. ASSUME RuleType PROVE Step
  <2>1. /\ <<Rule("type")>> \in Seq(TypeSymbols)
        /\ <<Consume("KW_PROC")>> \o Signature \in Seq(TypeSymbols)
    BY TypeSymbolsAre
  <2>2. \/ Tok = "ASTERISK" /\ Advance(<<Rule("type")>>)
        \/ Goto(<<Consume("KW_PROC")>> \o Signature)
        \/ Tok \in {"LITERAL_IDENT"} \cup TypeKeywords /\ Advance(<<>>)
    BY <1>2, <1>6 DEF RuleType, On, Otherwise
  <2> QED
    BY <1>1, <1>3, <2>1, <2>2 DEF TypeKeywords
<1>7. ASSUME Params PROVE Step
  <2>1. Head(Top).n \in Nat /\ Head(Top).n < MAX_PARAM_COUNT
    BY <1>7 DEF Params, At, TypeSymbols, Plain, ParamLoops
  <2>2. <<Rule("param"), Counting("param_stored", Head(Top).n)>> \in Seq(TypeSymbols)
    BY <2>1, TypeSymbolsAre DEF ParamLoops
  <2> QED
    BY <1>1, <1>3, <1>7, <2>2 DEF Params, On, Otherwise
<1>8. ASSUME ParamStored PROVE Step
  <2> DEFINE count == Head(Top).n + 1
  <2>1. Head(Top).n \in Nat
    BY DEF TypeSymbols, Plain
  <2>2. ~ParamLimitReached(count)
    BY <1>2, <1>8 DEF ParamStored
  <2>3. count \in Nat /\ count < MAX_PARAM_COUNT
    BY <2>1, <2>2, CapacityAssumption DEF ParamLimitReached
  <2>4. <<Counting("params", count)>> \in Seq(TypeSymbols)
    BY <2>3, TypeSymbolsAre DEF ParamLoops
  <2> QED
    BY <1>1, <1>8, <2>2, <2>4 DEF ParamStored, On, Otherwise
<1>9. ~Fields /\ ~FieldStored
  BY <1>0 DEF Fields, FieldStored, At, ParamLoops
<1> QED
  BY <1>0, <1>4, <1>5, <1>6, <1>7, <1>8, <1>9, TableRules DEF Step, TableWords

\* the frames of a table, by their first symbol, and what that leaves
LEMMA TableFrames ==
  ASSUME NEW n
  PROVE  /\ Head(AtTable(n)) = Consume("KW_TABLE") /\ <<>> \o Tail(AtTable(n)) = AtName(n)
         /\ Head(AtName(n)) = Consume("LITERAL_IDENT") /\ <<>> \o Tail(AtName(n)) = AtBrace(n)
         /\ Head(AtBrace(n)) = Consume("LBRACE") /\ <<>> \o Tail(AtBrace(n)) = AtFields(n)
         /\ Head(AtFields(n)) = Counting("fields", n) /\ Tail(AtFields(n)) = AtProgram
         /\ Head(AtField(n)) = Rule("param") /\ Tail(AtField(n)) = AtStored(n)
         /\ Head(AtFieldName(n)) = Consume("LITERAL_IDENT")
         /\ <<>> \o Tail(AtFieldName(n)) = AtColon(n)
         /\ Head(AtColon(n)) = Consume("COLON")
         /\ <<>> \o Tail(AtColon(n)) = <<Rule("type")>> \o AtStored(n)
         /\ Head(AtStored(n)) = Counting("field_stored", n) /\ Tail(AtStored(n)) = AtProgram
<1>1. Head(AtTable(n)) = Consume("KW_TABLE") /\ Tail(AtTable(n)) = AtName(n)
  BY DEF AtTable, AtName
<1>2. Head(AtName(n)) = Consume("LITERAL_IDENT") /\ Tail(AtName(n)) = AtBrace(n)
  BY DEF AtName, AtBrace
<1>3. Head(AtBrace(n)) = Consume("LBRACE") /\ Tail(AtBrace(n)) = AtFields(n)
  BY DEF AtBrace, AtFields
<1>4. Head(AtFields(n)) = Counting("fields", n) /\ Tail(AtFields(n)) = AtProgram
  BY DEF AtFields, AtProgram
<1>5. Head(AtField(n)) = Rule("param") /\ Tail(AtField(n)) = AtStored(n)
  BY DEF AtField, AtStored
<1>6. Head(AtStored(n)) = Counting("field_stored", n) /\ Tail(AtStored(n)) = AtProgram
  BY DEF AtStored, AtProgram
<1>7. Head(AtFieldName(n)) = Consume("LITERAL_IDENT") /\ Tail(AtFieldName(n)) = AtColon(n)
  BY DEF AtFieldName, AtColon
<1>8. Head(AtColon(n)) = Consume("COLON")
      /\ Tail(AtColon(n)) = <<Rule("type"), Counting("field_stored", n), Rule("program")>>
  BY DEF AtColon
<1>9. <<>> \o Tail(AtColon(n)) = <<Rule("type")>> \o AtStored(n)
  <2> DEFINE s == Counting("field_stored", n)
  <2>1. <<Rule("type")>> \o <<s, Rule("program")>> = <<Rule("type"), s, Rule("program")>>
    BY OneBefore
  <2>2. <<Rule("type"), s, Rule("program")>> \in Seq({Rule("type"), s, Rule("program")})
    OBVIOUS
  <2>3. <<>> \o <<Rule("type"), s, Rule("program")>> = <<Rule("type"), s, Rule("program")>>
    BY <2>2, EmptyBefore
  <2> QED
    BY <1>8, <2>1, <2>3, Zenon DEF AtStored
<1>10. /\ <<>> \o AtName(n) = AtName(n) /\ <<>> \o AtBrace(n) = AtBrace(n)
       /\ <<>> \o AtFields(n) = AtFields(n) /\ <<>> \o AtColon(n) = AtColon(n)
  <2> DEFINE T == {Consume("LITERAL_IDENT"), Consume("LBRACE"), Consume("COLON"), Rule("type"),
                   Counting("fields", n), Counting("field_stored", n), Rule("program")}
  <2>1. /\ AtName(n) \in Seq(T) /\ AtBrace(n) \in Seq(T) /\ AtFields(n) \in Seq(T)
        /\ AtColon(n) \in Seq(T)
    BY DEF AtName, AtBrace, AtFields, AtColon
  <2> QED
    BY <2>1, EmptyBefore
<1> QED
  BY <1>1, <1>2, <1>3, <1>4, <1>5, <1>6, <1>7, <1>8, <1>9, <1>10

LEMMA TablelessAre ==
  /\ Common \subseteq Tableless /\ Tableless \subseteq Symbol /\ Seq(Common) \subseteq Seq(Tableless)
  /\ AtProgram \in Seq(Tableless) /\ AtDecl \in Seq(Tableless) /\ AtLoop \in Seq(Tableless)
  /\ AtElse \in Seq(Tableless) /\ AtStmt \in Seq(Tableless) /\ Fresh \in Seq(Tableless)
  /\ \A x \in Tableless : x.do \notin FieldLoops
<1>1. Common \subseteq Tableless /\ Tableless \subseteq Symbol
  BY DEF Tableless, Common, Symbol
<1>2. /\ Rule("program") \in Tableless /\ Rule("stmts") \in Tableless
      /\ Rule("decl") \in Tableless /\ Rule("stmt") \in Tableless
      /\ Rule("else_tail") \in Tableless /\ Consume("LBRACE") \in Tableless
  BY CommonRule, CommonConsume DEF Tableless, RuleNames, TokenKinds
<1>3. /\ AtProgram \in Seq(Tableless) /\ AtDecl \in Seq(Tableless) /\ AtLoop \in Seq(Tableless)
      /\ AtElse \in Seq(Tableless) /\ AtStmt \in Seq(Tableless) /\ Fresh \in Seq(Tableless)
  BY <1>2 DEF AtProgram, AtDecl, AtLoop, AtElse, AtStmt, Fresh
<1>4. \A x \in Tableless : x.do \notin FieldLoops
  BY Dos DEF Tableless, Common, FieldLoops
<1> QED
  BY <1>1, <1>3, <1>4

\* A rule that goes on with symbols of no table leaves a frame of no table.
LEMMA UnfoldTableless ==
  ASSUME IInv, Top \in Seq(Tableless), NEW s \in Seq(Common),
         Sync \/ Advance(s) \/ Goto(s)
  PROVE  TableInv'
<1>1. ASSUME frames' = Unfold(s) PROVE TableInv'
  <2>1. s \in Seq(Tableless) /\ s \in Seq(Symbol)
    BY TablelessAre
  <2>2. Top' = s \o Tail(Top) /\ Top # <<>>
    BY <1>1, <2>1, Unfolded, FramesAre
  <2>3. Top' \in Seq(Tableless)
    BY <2>1, <2>2
  <2> QED
    BY <2>3 DEF TableInv
<1>2. ASSUME mode' # "parse" PROVE TableInv'
  BY <1>2 DEF TableInv
<1>3. frames' = Unfold(s) \/ mode' # "parse"
  BY DEF Sync, Advance, AdvanceIn, Goto, Finish
<1> QED
  BY <1>1, <1>2, <1>3

\* While no table is read, none comes on the stack but by rule_decl.
LEMMA TablelessKept ==
  ASSUME IInv, JumpInv, mode = "parse", Top \in Seq(Tableless), [Next]_vars
  PROVE  TableInv'
<1>1. CASE UNCHANGED vars
  BY <1>1 DEF vars, TableInv, Top
<1>2. CASE FieldlessStep
  <2>0. <<>> \in Seq(Common)
    OBVIOUS
  <2>1. \E s \in Seq(Common) : Sync \/ Advance(s) \/ Goto(s)
    BY <1>2, <2>0, FieldlessIs DEF FieldlessStep
  <2> QED
    BY <2>1, UnfoldTableless
<1>3. Head(Top) \in Tableless
  BY FramesAre
<1>4. ~Fields /\ ~FieldStored
  BY <1>3, TablelessAre DEF Fields, FieldStored, At, FieldLoops
<1>5. ASSUME mode' # "parse" PROVE TableInv'
  BY <1>5 DEF TableInv
<1>6. ASSUME Top' \in Seq(Tableless) PROVE TableInv'
  BY <1>6 DEF TableInv
<1>7. CASE ProcBody \/ ElseTail
  <2>1. <<>> \in Seq(Common)
    OBVIOUS
  <2>2. Rule("block") \in Common
    BY CommonRule DEF RuleNames
  <2>3. <<Rule("block")>> \in Seq(Common)
    BY <2>2
  <2>4. \E s \in Seq(Common) : Advance(s) \/ Goto(s)
    BY <1>7, <2>1, <2>3 DEF ProcBody, ElseTail, On, Otherwise
  <2> QED
    BY <2>4, UnfoldTableless
<1>8. CASE RuleStmt
  <2>1. Rule("exprstmt") \in Common
    BY CommonRule DEF RuleNames
  <2>2. <<Rule("exprstmt")>> \in Seq(Common)
    BY <2>1
  <2>3. \E s \in Seq(Common) : Goto(s)
    BY <1>8, <2>2, StatementCommon DEF RuleStmt, On, Otherwise
  <2> QED
    BY <2>3, UnfoldTableless
<1>9. CASE RuleProgram
  <2>1. Top = AtProgram
    BY <1>9, TopsAre DEF RuleProgram, At
  <2>2. CASE Goto(<<Rule("decl"), Rule("program")>>)
    <3>1. Top' = <<Rule("decl"), Rule("program")>> \o Tail(Top)
      BY <2>2, RuleSymbols, Unfolded DEF Goto
    <3>2. Top' = AtDecl
      BY <2>1, <3>1, Tails
    <3> QED
      BY <1>6, <3>2, TablelessAre
  <2>3. Goto(<<Rule("decl"), Rule("program")>>) \/ mode' # "parse"
    BY <1>9 DEF RuleProgram, On, Otherwise, Finish
  <2> QED
    BY <1>5, <2>2, <2>3
<1>10. CASE Block
  <2>1. Top' = Fresh
    <3>1. Unfold(<<>>) \in Seq(Seq(Symbol))
      <4>1. <<>> \o Tail(Top) \in Seq(Symbol)
        BY FramesAre
      <4> DEFINE F == Seq(Symbol)
                 fr == <<>> \o Tail(Top)
      <4>2. frames \in Seq(F) /\ fr \in F /\ Unfold(<<>>) = [frames EXCEPT ![Len(frames)] = fr]
        BY <4>1, FramesAre DEF Unfold
      <4> HIDE DEF F, fr
      <4>3. Unfold(<<>>) \in Seq(F)
        BY <4>2
      <4> QED
        BY <4>3 DEF F
    <3>2. frames' = Append(Unfold(<<>>), Fresh)
      BY <1>10 DEF Block, Fresh
    <3> DEFINE fs == Unfold(<<>>)
               F  == Seq(Symbol)
    <3>3. fs \in Seq(F) /\ frames' = Append(fs, Fresh)
      BY <3>1, <3>2
    <3> HIDE DEF fs, F
    <3>4. frames'[Len(frames')] = Fresh
      BY <3>3
    <3> QED
      BY <3>4 DEF Top, Last
  <2> QED
    BY <1>6, <2>1, TablelessAre
<1>11. CASE BlockLoop
  <2>1. Top = AtLoop /\ Len(frames) # 1
    BY <1>11, TopsAre DEF BlockLoop, At
  <2>2. CASE Goto(<<Rule("stmt"), Rule("stmts")>>)
    <3>1. Top' = <<Rule("stmt"), Rule("stmts")>> \o Tail(Top)
      BY <2>2, RuleSymbols, Unfolded DEF Goto
    <3>2. Top' = AtStmt
      BY <2>1, <3>1, Tails
    <3> QED
      BY <1>6, <3>2, TablelessAre
  <2>3. CASE frames' = Front(frames)
    <3> DEFINE n == Len(frames)
    <3>1. n \in Nat /\ n >= 1 /\ n - 1 \in 1..n
      <4>1. n \in Nat /\ n >= 1
        BY FramesAre
      <4> HIDE DEF n
      <4> QED
        BY <2>1, <4>1, TwoOrMore DEF n
    <3>2. /\ frames' \in Seq(Seq(Symbol)) /\ Len(frames') = n - 1
          /\ \A i \in 1..n - 1 : frames'[i] = frames[i]
      BY <2>3, <3>1, Cut DEF Front
    <3>3. n - 1 \in 1..n - 1
      BY <3>1
    <3>4. Top' = frames[n - 1]
      BY <3>2, <3>3 DEF Top, Last
    <3>5. Top' \in {AtProgram, AtLoop, AtElse}
      BY <3>3, <3>4 DEF JumpInv, Waits
    <3> QED
      BY <1>6, <3>5, TablelessAre
  <2>4. \/ Goto(<<Rule("stmt"), Rule("stmts")>>) \/ frames' = Front(frames) \/ mode' # "parse"
    BY <1>11 DEF BlockLoop, On, Otherwise, Finish, AdvanceIn
  <2> QED
    BY <1>5, <2>2, <2>3, <2>4
<1>12. CASE RuleDecl
  <2>1. Len(frames) = 1 /\ Top = AtDecl
    BY <1>12, TopsAre DEF RuleDecl, At
  <2> DEFINE proc == <<Consume("KW_PROC"), Consume("LITERAL_IDENT")>>
                     \o Signature \o <<Rule("proc_body")>>
             table(c) == <<Consume("KW_TABLE"), Consume("LITERAL_IDENT"),
                           Consume("LBRACE"), Counting("fields", c)>>
  <2>2. /\ Consume("KW_PROC") \in Common /\ Consume("LITERAL_IDENT") \in Common
        /\ Rule("proc_body") \in Common
    BY CommonRule, CommonConsume DEF RuleNames, TokenKinds, Literals
  <2>3. proc \in Seq(Common)
    <3>1. /\ <<Consume("KW_PROC"), Consume("LITERAL_IDENT")>> \in Seq(Common)
          /\ <<Rule("proc_body")>> \in Seq(Common)
      BY <2>2
    <3> QED
      BY <3>1, SignatureFieldless, FieldlessIs
  <2>4. CASE Goto(proc)
    BY <2>3, <2>4, UnfoldTableless
  <2>5. ASSUME NEW c \in UninitCounts, Goto(table(c)) PROVE TableInv'
    <3>1. c \in Nat
      BY UninitAssumption
    <3>2. /\ Consume("KW_TABLE") \in Symbol /\ Consume("LITERAL_IDENT") \in Symbol
          /\ Consume("LBRACE") \in Symbol /\ Counting("fields", c) \in Symbol
      BY <3>1, PlainConsume, PlainFields DEF Symbol, TokenKinds, Literals, FieldLoops
    <3>3. table(c) \in Seq(Symbol)
      BY <3>2
    <3>4. Len(frames') = 1 /\ Top' = table(c) \o Tail(Top)
      BY <2>1, <2>5, <3>3, Unfolded DEF Goto
    <3>5. table(c) \o AtProgram = AtTable(c)
      BY FourBefore, Zenon DEF AtProgram, AtTable
    <3>6. Tail(Top) = AtProgram
      BY <2>1, Tails
    <3>7. Top' = AtTable(c)
      BY <3>4, <3>5, <3>6
    <3>8. InTable(Top)'
      BY <3>1, <3>7 DEF InTable
    <3> QED
      BY <3>4, <3>8 DEF TableInv
  <2>6. Goto(proc) \/ (\E c \in UninitCounts : Goto(table(c))) \/ mode' # "parse"
    BY <1>12 DEF RuleDecl, On, Otherwise, Sync
  <2> HIDE DEF proc, table
  <2> QED
    BY <1>5, <2>4, <2>5, <2>6
<1>13. CASE Recovery
  BY <1>13 DEF Recovery, RecoverDecl, RecoverStmt
<1> QED
  BY <1>1, <1>2, <1>4, <1>7, <1>8, <1>9, <1>10, <1>11, <1>12, <1>13, RuleSteps

\* What the parser reads of a table keeps the count of its fields and the colons
\* behind its "table" together.
LEMMA TableKept ==
  ASSUME IInv, mode = "parse", mode' = "parse", Len(frames) = 1, InTable(Top), [Next]_vars
  PROVE  TableInv'
<1>1. PICK n \in Nat :
        \/ n \in UninitCounts /\ Top = AtTable(n)
        \/ /\ TableRead /\ Fits(n)
           /\ Top \in {AtName(n), AtBrace(n), AtFields(n), AtField(n), AtFieldName(n), AtColon(n)}
        \/ /\ TableRead /\ FieldsRead > 0 /\ Fits(n + 1)
           /\ IsFrame(TypeSymbols, {AtStored(n)}, Top)
  BY DEF InTable
<1>2. CASE UNCHANGED vars
  BY <1>2 DEF vars, TableInv, InTable, TableRead, Fits, FieldsRead, Top
<1>u. ~(UNCHANGED vars) =>
        (Head(Top).do \in TableWords =>
           \/ ParserConsume \/ Param \/ RuleType \/ Params \/ ParamStored \/ Fields \/ FieldStored)
  BY TableRules
<1>w. (\A k : Consume(k).do = "consume" /\ Consume(k).kind = k) /\ (\A r : Rule(r).do = r)
      /\ Counting("fields", n).do = "fields" /\ Counting("field_stored", n).do = "field_stored"
      /\ Counting("field_stored", n).n = n /\ Counting("fields", n).n = n
  BY DEF Consume, Rule, Counting
<1>3. ~Sync
  BY DEF Sync
<1>e. <<>> \in Seq(Symbol)
  OBVIOUS
\* a token of the table's head or of a field's name is read
<1>4. ASSUME NEW k, Head(Top) = Consume(k), ~(UNCHANGED vars)
      PROVE  /\ Tok = k /\ Tok # "EOF" /\ src' = src /\ pos' = pos + 1
             /\ Len(frames') = 1 /\ Top' = <<>> \o Tail(Top)
  <2>1. ParserConsume
    BY <1>4, <1>u, <1>w DEF Param, RuleType, Params, ParamStored, Fields, FieldStored, At,
                            TableWords
  <2>2. Tok \in {"EOF", k} /\ Advance(<<>>)
    BY <1>3, <1>4, <1>w, <2>1 DEF ParserConsume, On, Otherwise
  <2>3. Tok # "EOF" /\ src' = src /\ pos' = pos + 1 /\ frames' = Unfold(<<>>)
    BY <2>2 DEF Advance, AdvanceIn, Finish
  <2> QED
    BY <1>e, <2>2, <2>3, Unfolded
<1>5. ASSUME TableRead', Len(frames') = 1,
             \/ /\ Fits(n)'
                /\ Top' \in {AtName(n), AtBrace(n), AtFields(n), AtField(n), AtFieldName(n), AtColon(n)}
             \/ FieldsRead' > 0 /\ Fits(n + 1)' /\ IsFrame(TypeSymbols, {AtStored(n)}, Top')
             \/ Fits(n + 1)' /\ Top' = AtFields(n + 1)
      PROVE  TableInv'
  <2>1. n + 1 \in Nat
    OBVIOUS
  <2> QED
    BY <1>5, <2>1 DEF TableInv, InTable
<1>6. CASE n \in UninitCounts /\ Top = AtTable(n) /\ ~(UNCHANGED vars)
  <2>1. /\ Tok = "KW_TABLE" /\ src' = src /\ pos' = pos + 1 /\ Tok # "EOF"
        /\ Len(frames') = 1 /\ Top' = AtName(n)
    BY <1>4, <1>6, TableFrames
  <2>2. pos \in Nat /\ pos >= 1 /\ src[pos] = "KW_TABLE"
    BY <2>1 DEF IInv, RestOK, Tok, TokAt
  <2>3. TableRead'
    <3>1. pos \in 1..pos' - 1
      BY <2>1, <2>2
    <3> QED
      BY <2>1, <2>2, <3>1 DEF TableRead
  <2>4. FieldsRead' \in Nat
    <3>1. pos' \in Nat
      BY <2>1, <2>2
    <3> QED
      BY <2>1, <3>1, FieldsReadAre, ColonsFinite
  <2>5. Fits(n)'
    <3>0. \A k, r \in Nat : k <= k + r
      OBVIOUS
    <3>1. n <= n + FieldsRead'
      BY <2>4, <3>0
    <3> QED
      BY <1>6, <3>1 DEF Fits
  <2> QED
    BY <1>5, <2>1, <2>3, <2>5
<1>7. CASE TableRead /\ Fits(n) /\ Top \in {AtName(n), AtBrace(n), AtFieldName(n)} /\ ~(UNCHANGED vars)
  <2>1. /\ Head(Top) \in {Consume("LITERAL_IDENT"), Consume("LBRACE")}
        /\ <<>> \o Tail(Top) \in {AtBrace(n), AtFields(n), AtColon(n)}
    BY <1>7, TableFrames
  <2>2. /\ Tok \in {"LITERAL_IDENT", "LBRACE"} /\ src' = src /\ pos' = pos + 1
        /\ Len(frames') = 1 /\ Top' \in {AtBrace(n), AtFields(n), AtColon(n)}
    BY <1>4, <1>7, <2>1
  <2>3. TableRead' /\ Fits(n)'
    BY <1>7, <2>2, FitsNext
  <2> QED
    BY <1>5, <2>2, <2>3
<1>8. CASE TableRead /\ Fits(n) /\ Top = AtColon(n) /\ ~(UNCHANGED vars)
  <2>1. Head(Top) = Consume("COLON") /\ <<>> \o Tail(Top) = <<Rule("type")>> \o AtStored(n)
    BY <1>8, TableFrames
  <2>2. /\ Tok = "COLON" /\ src' = src /\ pos' = pos + 1
        /\ Len(frames') = 1 /\ Top' = <<Rule("type")>> \o AtStored(n)
    BY <1>4, <1>8, <2>1
  <2>3. TableRead' /\ FieldsRead' > 0 /\ Fits(n + 1)'
    BY <1>8, <2>2, FitsNext
  <2>4. <<Rule("type")>> \in Seq(TypeSymbols)
    BY TypeSymbolsAre
  <2>5. IsFrame(TypeSymbols, {AtStored(n)}, Top')
    BY <2>2, <2>4 DEF IsFrame
  <2> QED
    BY <1>5, <2>2, <2>3, <2>5
<1>9. CASE TableRead /\ Fits(n) /\ Top = AtFields(n) /\ ~(UNCHANGED vars)
  <2>1. Head(Top) = Counting("fields", n) /\ Tail(Top) = AtProgram
    BY <1>9, TableFrames
  <2>2. Fields
    BY <1>9, <1>u, <1>w, <2>1 DEF ParserConsume, Param, RuleType, Params, ParamStored, FieldStored,
                                  At, TableWords, FieldLoops
  <2> DEFINE s == <<Rule("param"), Counting("field_stored", n)>>
  <2>3. CASE Advance(<<>>)
    <3>1. frames' = Unfold(<<>>)
      BY <2>3 DEF Advance, AdvanceIn, Finish
    <3>2. Top' = <<>> \o Tail(Top)
      BY <1>e, <3>1, Unfolded
    <3>3. Top' = AtProgram
      BY <2>1, <3>2, TablelessAre, EmptyBefore
    <3> QED
      BY <3>3, TablelessAre DEF TableInv
  <2>4. CASE Goto(s)
    <3>1. s \in Seq(Symbol)
      <4>1. Rule("param") \in Symbol /\ Counting("field_stored", n) \in Symbol
        BY PlainRule, PlainFields DEF Symbol, RuleNames, FieldLoops
      <4> QED
        BY <4>1
    <3>2. src' = src /\ pos' = pos /\ Len(frames') = 1 /\ Top' = s \o Tail(Top)
      BY <2>4, <3>1, Unfolded DEF Goto
    <3>3. s \o AtProgram = AtField(n)
      BY JoinedOne, Zenon DEF AtProgram, AtField
    <3>4. TableRead' /\ Fits(n)'
      BY <1>9, <3>2, FitsNext
    <3> QED
      BY <1>5, <2>1, <3>2, <3>3, <3>4
  <2>5. Advance(<<>>) \/ Goto(s)
    BY <1>w, <2>1, <2>2 DEF Fields, On, Otherwise
  <2> QED
    BY <2>3, <2>4, <2>5
<1>10. CASE TableRead /\ Fits(n) /\ Top = AtField(n) /\ ~(UNCHANGED vars)
  <2>1. Head(Top) = Rule("param") /\ Tail(Top) = AtStored(n)
    BY <1>10, TableFrames
  <2>2. Param
    BY <1>10, <1>u, <1>w, <2>1 DEF ParserConsume, Fields, RuleType, Params, ParamStored, FieldStored,
                                   At, TableWords
  <2> DEFINE s == <<Consume("LITERAL_IDENT"), Consume("COLON"), Rule("type")>>
  <2>3. s \in Seq(Symbol)
    BY TypeSymbolsAre
  <2>4. src' = src /\ pos' = pos /\ Len(frames') = 1 /\ Top' = s \o Tail(Top)
    BY <2>2, <2>3, Unfolded DEF Param, Goto
  <2>5. s \o AtStored(n) = AtFieldName(n)
    BY ThreeBefore, Zenon DEF AtStored, AtFieldName
  <2>6. TableRead' /\ Fits(n)'
    BY <1>10, <2>4, FitsNext
  <2> QED
    BY <1>5, <2>1, <2>4, <2>5, <2>6
<1>11. CASE /\ TableRead /\ FieldsRead > 0 /\ Fits(n + 1) /\ IsFrame(TypeSymbols, {AtStored(n)}, Top)
            /\ ~(UNCHANGED vars)
  <2>1. AtStored(n) \in Seq(Symbol)
    <3>1. Counting("field_stored", n) \in Symbol /\ Rule("program") \in Symbol
      BY PlainFields DEF Symbol, FieldLoops
    <3> QED
      BY <3>1 DEF AtStored
  <2>2. \/ Top = AtStored(n)
        \/ /\ Head(Top) \in TypeSymbols
           /\ \A u \in Seq(TypeSymbols) : IsFrame(TypeSymbols, {AtStored(n)}, u \o Tail(Top))
    <3>1. {AtStored(n)} \subseteq Seq(Symbol) /\ TypeSymbols \subseteq Symbol
      BY <2>1, TypeSymbolsAre
    <3>2. \/ Top \in {AtStored(n)}
          \/ /\ Head(Top) \in TypeSymbols
             /\ \A u \in Seq(TypeSymbols) : IsFrame(TypeSymbols, {AtStored(n)}, u \o Tail(Top))
      BY <1>11, <3>1, FrameHead
    <3> QED
      BY <3>2
  <2>3. CASE /\ Head(Top) \in TypeSymbols
             /\ \A u \in Seq(TypeSymbols) : IsFrame(TypeSymbols, {AtStored(n)}, u \o Tail(Top))
    <3>1. PICK s \in Seq(TypeSymbols) :
            /\ frames' = Unfold(s) /\ src' = src
            /\ pos' = pos \/ (pos' = pos + 1 /\ Tok \notin {"EOF", "KW_TABLE"})
      BY <1>11, <2>3, TypeSteps
    <3>2. s \in Seq(Symbol)
      BY TypeSymbolsAre
    <3>3. Len(frames') = 1 /\ Top' = s \o Tail(Top)
      BY <3>1, <3>2, Unfolded
    <3>4. IsFrame(TypeSymbols, {AtStored(n)}, Top')
      BY <2>3, <3>3
    <3>5. TableRead' /\ FieldsRead' > 0 /\ Fits(n + 1)'
      <4>1. n + 1 \in Nat
        OBVIOUS
      <4>2. /\ TableRead' /\ FieldsRead' \in Nat /\ FieldsRead \in Nat
            /\ FieldsRead' >= FieldsRead /\ \A k \in Nat : Fits(k) => Fits(k)'
        BY <1>11, <3>1, FitsNext
      <4>3. FieldsRead' > 0
        BY <1>11, <4>2
      <4> QED
        BY <1>11, <4>1, <4>2, <4>3
    <3> QED
      BY <1>5, <3>3, <3>4, <3>5
  <2>4. CASE Top = AtStored(n)
    <3>1. Head(Top) = Counting("field_stored", n) /\ Tail(Top) = AtProgram
      BY <2>4, TableFrames
    <3>2. FieldStored
      BY <1>11, <1>u, <1>w, <3>1 DEF ParserConsume, Fields, RuleType, Params, ParamStored, Param,
                                     At, TableWords, FieldLoops
    <3> DEFINE s == <<Counting("fields", n + 1)>>
    <3>3. Goto(s) \/ (Advance(s) /\ Tok = "COMMA")
      BY <1>w, <3>1, <3>2 DEF FieldStored, On, Otherwise, Finish
    <3>4. s \in Seq(Symbol)
      <4>1. n + 1 \in Nat
        OBVIOUS
      <4>2. Counting("fields", n + 1) \in Symbol
        BY <4>1, PlainFields DEF Symbol, FieldLoops
      <4> QED
        BY <4>2
    <3>5. /\ frames' = Unfold(s) /\ src' = src
          /\ pos' = pos \/ (pos' = pos + 1 /\ Tok \notin {"EOF", "KW_TABLE"})
      BY <3>3 DEF Goto, Advance, AdvanceIn, Finish
    <3>6. Len(frames') = 1 /\ Top' = s \o Tail(Top)
      BY <3>4, <3>5, Unfolded
    <3>7. s \o AtProgram = AtFields(n + 1)
      BY Joined, Zenon DEF AtProgram, AtFields
    <3>8. TableRead' /\ Fits(n + 1)'
      <4>1. n + 1 \in Nat
        OBVIOUS
      <4> QED
        BY <1>11, <3>5, <4>1, FitsNext
    <3> QED
      BY <1>5, <3>1, <3>6, <3>7, <3>8
  <2> QED
    BY <2>2, <2>3, <2>4
<1> QED
  BY <1>1, <1>2, <1>6, <1>7, <1>8, <1>9, <1>10, <1>11

LEMMA InitTableInv == ASSUME Init PROVE TableInv
<1>1. Top = AtProgram
  BY DEF Init, Top, Last, AtProgram
<1> QED
  BY <1>1, TablelessAre DEF TableInv

LEMMA NextTableInv == ASSUME IInv, JumpInv, TableInv, [Next]_vars PROVE TableInv'
<1>1. CASE mode' # "parse"
  BY <1>1 DEF TableInv
<1>2. CASE mode = "parse" /\ mode' = "parse"
  BY <1>2, TablelessKept, TableKept DEF TableInv
<1>3. CASE mode # "parse" /\ mode' = "parse"
  <2>1. RecoverDecl \/ RecoverStmt
    <3>1. ~(ParserConsume \/ Declaration \/ UNCHANGED vars)
      BY <1>3 DEF ParserConsume, Declaration, RuleProgram, RuleDecl, ProcBody, Params, ParamStored,
                  Fields, FieldStored, Param, RuleType, At, vars
    <3>2. ~Expression
      BY <1>3 DEF Expression, RuleExpr, Unary, BinopTail, AssignTail, Primary, Grouping, CallTail,
                  IndexTail, Args, Values, ListLoop, At
    <3>3. ~Stmt
      BY <1>3 DEF Stmt, Block, BlockLoop, RuleStmt, ExprStmt, VarDeclInit, ElseTail, At
    <3> QED
      BY <3>1, <3>2, <3>3 DEF Next, Recovery, Terminated
  <2>2. ASSUME Top' \in Seq(Tableless) PROVE TableInv'
    BY <2>2 DEF TableInv
  <2>3. CASE RecoverDecl
    <3>1. frames' = << <<Rule("decl"), Rule("program")>> >>
      BY <1>3, <2>3 DEF RecoverDecl, Otherwise, AdvanceIn, Finish
    <3>2. Top' = AtDecl
      BY <3>1 DEF Top, Last, AtDecl
    <3> QED
      BY <2>2, <3>2, TablelessAre
  <2>4. CASE RecoverStmt
    <3> DEFINE f   == ctx_stmt.frame
               fs  == SubSeq(frames, 1, f - 1)
               F   == Seq(Symbol)
    <3>1. f \in 1..Len(frames) /\ frames' = Append(fs, AtLoop)
      BY <1>3, <2>4 DEF RecoverStmt, Otherwise, AdvanceIn, Finish, AtLoop
    <3>2. fs \in Seq(F)
      <4>1. f - 1 \in Nat /\ f - 1 <= Len(frames) /\ frames \in Seq(F)
        BY <3>1, FramesAre
      <4> HIDE DEF f, F
      <4> QED
        BY <4>1, Shortened
    <3> HIDE DEF fs, F
    <3>3. frames'[Len(frames')] = AtLoop
      BY <3>1, <3>2
    <3>4. Top' = AtLoop
      BY <3>3 DEF Top, Last
    <3> QED
      BY <2>2, <3>4, TablelessAre
  <2> QED
    BY <2>1, <2>3, <2>4
<1> QED
  BY <1>1, <1>2, <1>3

LEMMA TableInvariance == Spec => []TableInv
BY InitTableInv, NextTableInv, Invariance, JumpInvariance, PTL DEF Spec

\* For every text and every value Table.field_count may start with, the parser writes
\* behind Table.fields only in a table that has, with that value, more fields than fit:
\* no count survives an error in its table, and no other table or procedure sees it.
THEOREM FullTablesOverflow == Spec => OnlyFullTablesOverflow
<1>1. ASSUME IInv, JumpInv, TableInv, [Next]_vars, mode = "parse", mode' = "undefined"
      PROVE  FieldsRead > 0 /\ \E c \in UninitCounts : FieldsRead + c > MAX_PARAM_COUNT
  <2>1. FieldStored /\ Finish("undefined")
    <3>1. ~(FieldlessStep \/ Fields \/ ProcBody \/ ElseTail)
      BY <1>1 DEF FieldlessStep, Fields, ProcBody, ElseTail, On, Otherwise, Sync, Advance,
                  AdvanceIn, Goto, Finish
    <3>2. ~(RuleProgram \/ RuleDecl \/ RuleStmt)
      BY <1>1 DEF RuleProgram, RuleDecl, RuleStmt, On, Otherwise, Sync, Goto, Finish
    <3>3. ~(Block \/ BlockLoop \/ Recovery \/ UNCHANGED vars)
      BY <1>1 DEF Block, BlockLoop, Recovery, RecoverDecl, RecoverStmt, On, Otherwise, AdvanceIn,
                  Goto, Finish, vars
    <3>4. FieldStored
      BY <1>1, <3>1, <3>2, <3>3, RuleSteps
    <3> QED
      BY <1>1, <3>4 DEF FieldStored, On, Otherwise, Advance, AdvanceIn, Goto, Finish
  <2>2. Head(Top).do = "field_stored" /\ Head(Top).n + 1 > MAX_PARAM_COUNT
    BY <1>1, <2>1 DEF FieldStored, At, On, Otherwise, Advance, AdvanceIn, Goto, Finish
  <2>3. Top \notin Seq(Tableless)
    <3>1. ASSUME Top \in Seq(Tableless) PROVE FALSE
      <4>1. Head(Top) \in Tableless
        BY <1>1, <3>1, FramesAre
      <4> QED
        BY <2>2, <4>1, TablelessAre DEF FieldLoops
    <3> QED
      BY <3>1
  <2>4. PICK n \in Nat :
        \/ n \in UninitCounts /\ Top = AtTable(n)
        \/ /\ TableRead /\ Fits(n)
           /\ Top \in {AtName(n), AtBrace(n), AtFields(n), AtField(n), AtFieldName(n), AtColon(n)}
        \/ /\ TableRead /\ FieldsRead > 0 /\ Fits(n + 1)
           /\ IsFrame(TypeSymbols, {AtStored(n)}, Top)
    BY <1>1, <2>3 DEF TableInv, InTable
  <2>5. (\A k : Consume(k).do = "consume") /\ (\A r : Rule(r).do = r)
        /\ Counting("fields", n).do = "fields" /\ Counting("field_stored", n).n = n
    BY DEF Consume, Rule, Counting
  <2>6. /\ FieldsRead > 0 /\ Fits(n + 1) /\ IsFrame(TypeSymbols, {AtStored(n)}, Top)
    BY <2>2, <2>4, <2>5, TableFrames
  <2>7. Head(Top) = Counting("field_stored", n)
    <3>1. {AtStored(n)} \subseteq Seq(Symbol) /\ TypeSymbols \subseteq Symbol
      <4>1. Counting("field_stored", n) \in Symbol /\ Rule("program") \in Symbol
        BY <2>4, PlainFields DEF Symbol, FieldLoops
      <4> QED
        BY <4>1, TypeSymbolsAre DEF AtStored
    <3>2. Top \in {AtStored(n)} \/ Head(Top) \in TypeSymbols
      BY <2>6, <3>1, FrameHead
    <3>3. \A x \in TypeSymbols : x.do # "field_stored"
      BY DEF TypeSymbols, ParamLoops
    <3> QED
      BY <2>2, <3>2, <3>3, TableFrames
  <2>8. FieldsRead \in Nat
    <3>1. pos \in Nat
      BY <1>1 DEF IInv, RestOK
    <3> QED
      BY <3>1, FieldsReadAre, ColonsFinite
  <2>9. PICK c \in UninitCounts : n + 1 <= c + FieldsRead
    BY <2>6 DEF Fits
  <2>10. n + 1 > MAX_PARAM_COUNT
    BY <2>2, <2>5, <2>7
  <2>11. c \in Nat /\ MAX_PARAM_COUNT \in Nat
    BY UninitAssumption, CapacityAssumption
  <2>12. FieldsRead + c > MAX_PARAM_COUNT
    BY <2>4, <2>8, <2>9, <2>10, <2>11
  <2> QED
    BY <2>6, <2>12
<1>2. ASSUME IInv, JumpInv, TableInv, [Next]_vars
      PROVE  [mode = "parse" /\ mode' = "undefined"
                => FieldsRead > 0 /\ \E c \in UninitCounts : FieldsRead + c > MAX_PARAM_COUNT]_vars
  BY <1>1, <1>2
<1> QED
  BY <1>2, Invariance, JumpInvariance, TableInvariance, PTL DEF Spec, OnlyFullTablesOverflow
=============================================================================
