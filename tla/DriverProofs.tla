---------------------------- MODULE DriverProofs ----------------------------
(***************************************************************************)
(* Proofs about Driver for any number of compilers and any sources.        *)
(*                                                                         *)
(* A compiler writes only files that its target asks for, called after its *)
(* source, and neither changes.  So whoever disturbs another one is told   *)
(* by what two names with endings have in common (NamesMeet).              *)
(*                                                                         *)
(* What a compiler makes is right because of what the files hold on the    *)
(* way: the assembly it has begun, then the file its next call depends on, *)
(* then what the child has read (Sound).  A step of the compiler hands     *)
(* this on (OwnStep), a step of another one leaves it alone (OtherStep).   *)
(***************************************************************************)
EXTENDS Driver, TLAPS

-----------------------------------------------------------------------------
(* Types and stages                                                        *)

\* what is left of Stages() on the way through
AllStages ==
  {<<>>, <<"assemble">>, <<"assemble", "link_cc">>, <<"link_cc">>,
   <<"assemble", "link_cc", "run">>, <<"link_cc", "run">>, <<"run">>}

\* the calls a compiler may have before it when it makes one
Left(t) ==
  IF t = "OBJECT" THEN {<<"assemble">>}
  ELSE IF t = "BINARY" THEN {<<"assemble", "link_cc">>, <<"link_cc">>}
  ELSE IF t = "RUN" THEN {<<"assemble", "link_cc", "run">>, <<"link_cc", "run">>, <<"run">>}
  ELSE {}

Calling == {"call", "child", "read"}

Contents == Content \cup {NoFile}

Types ==
  /\ target \in [Compilers -> Targets]
  /\ source \in [Compilers -> [dir : Dirs, base : Bases]]
  /\ files \in [AllPaths -> Contents]
  /\ pc \in [Compilers -> {"idle"} \cup Running \cup Ended]
  /\ stages \in [Compilers -> AllStages]
  /\ held \in [Compilers -> Contents]
  /\ product \in [Compilers -> Contents]

StagesOK ==
  \A c \in Compilers :
    /\ pc[c] \in {"begin", "write"} => stages[c] = Stages(target[c])
    /\ pc[c] \in Calling => stages[c] \in Left(target[c])
    /\ pc[c] \in {"child", "read"} => Head(stages[c]) # "run"

\* the file the next call depends on
Needed(c) ==
  IF Head(stages[c]) = "assemble" THEN Asm(c)
  ELSE IF Head(stages[c]) = "link_cc" THEN Obj(c) ELSE Bin(c)

Shape == Types /\ StagesOK

\* A compiler's files exist in every directory it uses.
LEMMA PathsExist ==
  ASSUME Types, NEW c \in Compilers
  PROVE  {Asm(c), Obj(c), Bin(c)} \subseteq AllPaths
<1>1. source[c].dir \in Dirs /\ source[c].base \in Bases
  BY DEF Types
<1>2. ASSUME NEW ext \in Extensions
      PROVE  Rel(c, ext) \in AllPaths /\ Tmp(c, ext) \in AllPaths
  <2> DEFINE called(b) == {Name(b, x) : x \in Extensions}
  <2>1. Name(source[c].base, ext) \in called(source[c].base)
    BY <1>2
  <2>2. Name(source[c].base, ext) \in UNION {called(b) : b \in Bases}
    <3> HIDE DEF called
    <3> QED
      BY <1>1, <2>1
  <2> QED
    BY <1>1, <2>2 DEF AllPaths, Rel, Tmp
<1>3. <<".s">> \in Extensions /\ <<".o">> \in Extensions /\ <<>> \in Extensions
  BY DEF Extensions
<1> QED
  BY <1>2, <1>3 DEF Asm, Obj, Bin

\* What a call depends on is among the files the compiler writes, and is what the
\* last call has made.
LEMMA NeededPath ==
  ASSUME Types, NEW c \in Compilers, stages[c] \in Left(target[c])
  PROVE  /\ Needed(c) \in Paths(c)
         /\ stages[c] # <<>>
         /\ Head(stages[c]) \in {"assemble", "link_cc"} => Needed(c) = Input(c)
<1>1. target[c] \in {"OBJECT", "BINARY", "RUN"}
  BY DEF Types, Targets, Left
<1>2. CASE target[c] = "OBJECT"
  BY <1>2 DEF Left, Needed, Paths, Stages, Input, ToSet
<1>3. CASE target[c] = "BINARY"
  BY <1>3 DEF Left, Needed, Paths, Stages, Input, ToSet
<1>4. CASE target[c] = "RUN"
  BY <1>4 DEF Left, Needed, Paths, Stages, Input, ToSet
<1> QED
  BY <1>1, <1>2, <1>3, <1>4

\* The lists of calls are short.
LEMMA Calls3 ==
  /\ Tail(<<"assemble", "link_cc", "run">>) = <<"link_cc", "run">>
  /\ Tail(<<"assemble", "link_cc">>) = <<"link_cc">>
  /\ Tail(<<"link_cc", "run">>) = <<"run">>
  /\ Tail(<<"assemble">>) = <<>> /\ Tail(<<"link_cc">>) = <<>> /\ Tail(<<"run">>) = <<>>
  /\ Len(<<>>) = 0 /\ Len(<<"assemble", "link_cc", "run">>) = 3
  /\ Len(<<"assemble", "link_cc">>) = 2 /\ Len(<<"link_cc", "run">>) = 2
  /\ Len(<<"assemble">>) = 1 /\ Len(<<"link_cc">>) = 1 /\ Len(<<"run">>) = 1
  OBVIOUS

\* The rest of the calls after one that has succeeded.
LEMMA NextCall ==
  ASSUME NEW t, NEW s \in Left(t)
  PROVE  /\ Tail(s) \in AllStages
         /\ Len(s) # 1 =>
              /\ Tail(s) \in Left(t)
              /\ \/ Head(s) = "assemble" /\ Head(Tail(s)) = "link_cc"
                 \/ Head(s) = "link_cc" /\ Head(Tail(s)) = "run"
         /\ Len(s) = 1 =>
              \/ Head(s) = "assemble" /\ t = "OBJECT"
              \/ Head(s) = "link_cc" /\ t = "BINARY"
              \/ Head(s) = "run" /\ t = "RUN"
<1>1. CASE s = <<"assemble">> /\ t = "OBJECT"
  BY <1>1, Calls3 DEF AllStages
<1>2. CASE s = <<"assemble", "link_cc">> /\ t = "BINARY"
  BY <1>2, Calls3 DEF AllStages, Left
<1>3. CASE s = <<"link_cc">> /\ t = "BINARY"
  BY <1>3, Calls3 DEF AllStages
<1>4. CASE s = <<"assemble", "link_cc", "run">> /\ t = "RUN"
  BY <1>4, Calls3 DEF AllStages, Left
<1>5. CASE s = <<"link_cc", "run">> /\ t = "RUN"
  BY <1>5, Calls3 DEF AllStages, Left
<1>6. CASE s = <<"run">> /\ t = "RUN"
  BY <1>6, Calls3 DEF AllStages
<1> QED
  BY <1>1, <1>2, <1>3, <1>4, <1>5, <1>6 DEF Left

\* The product of a compiler is what its last call has written or run.
LEMMA LastCall ==
  ASSUME Types, NEW c \in Compilers, stages[c] \in Left(target[c]), Len(stages[c]) = 1
  PROVE  Result(c) = IF Head(stages[c]) = "run" THEN Bin(c) ELSE Output(c)
<1>1. \/ Head(stages[c]) = "assemble" /\ target[c] = "OBJECT"
      \/ Head(stages[c]) = "link_cc" /\ target[c] = "BINARY"
      \/ Head(stages[c]) = "run" /\ target[c] = "RUN"
  BY NextCall
<1> QED
  BY <1>1 DEF Output, Result

-----------------------------------------------------------------------------
(* Every step keeps the shape of the state                                 *)

Mixed == [of |-> "mixed", whole |-> FALSE]

Files(c) == {Asm(c), Obj(c), Bin(c)}

\* A step of c writes at most one file, one of its own.
LEMMA StepWrites ==
  ASSUME Shape, NEW c \in Compilers, Step(c)
  PROVE  /\ target' = target /\ source' = source
         /\ mishap \subseteq mishap' /\ disturbed \subseteq disturbed'
         /\ \/ files' = files
            \/ \E path \in Files(c), content \in Contents :
                 /\ Write(c, path, content)
                 /\ \/ content \in {Begun(c), Whole(c), Mixed, NoFile}
                    \/ pc[c] = "read" /\ content = held[c]
                    \/ c \in mishap'
<1> USE DEF Files
<1>1. {Begun(c), Whole(c), Mixed, NoFile} \subseteq Contents /\ held[c] \in Contents
  BY DEF Begun, Whole, Mixed, NoFile, Content, Contents, Shape, Types
<1>2. Output(c) \in {Asm(c), Obj(c), Bin(c)}
  BY DEF Output
<1>3. Asm(c) \in AllPaths /\ files[Asm(c)] \in Contents
  BY PathsExist DEF Shape, Types
<1>4. CASE Begin(c)
  BY <1>4 DEF Begin
<1>5. CASE Open(c)
  BY <1>1, <1>5 DEF Open, Write
<1>6. CASE Close(c)
  <2>1. /\ target' = target /\ source' = source
        /\ mishap \subseteq mishap' /\ disturbed \subseteq disturbed'
    BY <1>6 DEF Close, Write
  <2>2. \/ \E content \in Written(c, files[Asm(c)]) : Write(c, Asm(c), content)
        \/ Write(c, Asm(c), files[Asm(c)]) /\ c \in mishap'
    BY <1>6 DEF Close
  <2>3. Written(c, files[Asm(c)]) \subseteq {Whole(c), Mixed}
    BY DEF Written, Mixed
  <2> QED
    BY <1>1, <1>3, <2>1, <2>2, <2>3
<1>7. CASE Fork(c)
  BY <1>7 DEF Fork
<1>8. CASE ForkFails(c)
  BY <1>8 DEF ForkFails
<1>9. CASE ChildReads(c)
  BY <1>9 DEF ChildReads
<1>10. CASE ChildSucceeds(c)
  BY <1>1, <1>2, <1>10 DEF ChildSucceeds, Write
<1>11. CASE ChildFails(c)
  BY <1>1, <1>2, <1>11 DEF ChildFails, Write
<1>12. CASE Run(c)
  BY <1>12 DEF Run
<1> QED
  BY <1>4, <1>5, <1>6, <1>7, <1>8, <1>9, <1>10, <1>11, <1>12 DEF Step

\* The calls of dispatch() follow each other, and a failure ends them.
LEMMA AdvanceShape ==
  ASSUME Shape, NEW c \in Compilers, NEW failed \in BOOLEAN, pc[c] \in Calling,
         Advance(c, failed), target' = target, files' \in [AllPaths -> Contents]
  PROVE  /\ pc' \in [Compilers -> {"idle"} \cup Running \cup Ended]
         /\ stages' \in [Compilers -> AllStages]
         /\ product' \in [Compilers -> Contents]
         /\ StagesOK'
<1>1. stages[c] \in Left(target[c])
  BY DEF Shape, StagesOK
<1>2. /\ pc' = [pc EXCEPT ![c] = AfterStatus(c, failed)]
      /\ stages' = [stages EXCEPT ![c] = Tail(stages[c])]
      /\ product' = IF AfterStatus(c, failed) = "success"
                    THEN [product EXCEPT ![c] = files'[Result(c)]] ELSE product
  BY DEF Advance, Goto
<1>3. /\ AfterStatus(c, failed) \in {"success", "failure", "call"}
      /\ AfterStatus(c, failed) = "call" => Len(stages[c]) # 1
  BY DEF AfterStatus
<1>4. Tail(stages[c]) \in AllStages /\ (Len(stages[c]) # 1 => Tail(stages[c]) \in Left(target[c]))
  BY <1>1, NextCall
<1>5. Result(c) \in AllPaths
  BY PathsExist DEF Shape, Result
<1>6. product' \in [Compilers -> Contents]
  BY <1>2, <1>5 DEF Shape, Types
<1>7. /\ pc' \in [Compilers -> {"idle"} \cup Running \cup Ended]
      /\ stages' \in [Compilers -> AllStages]
      /\ pc'[c] \in {"success", "failure", "call"}
      /\ pc'[c] = "call" => stages'[c] \in Left(target[c])
      /\ \A d \in Compilers : d # c => pc'[d] = pc[d] /\ stages'[d] = stages[d]
  BY <1>2, <1>3, <1>4 DEF Shape, Types, Running, Ended
<1>8. StagesOK'
  BY <1>7 DEF Shape, StagesOK, Calling
<1> QED
  BY <1>6, <1>7, <1>8

\* Types and stages are kept when a compiler goes from one place to another and its
\* stages stay.
LEMMA GotoShape ==
  ASSUME Shape, NEW c \in Compilers, NEW place \in Running \cup Ended,
         Goto(c, place), stages' = stages, target' = target,
         place \in {"begin", "write"} => stages[c] = Stages(target[c]),
         place \in Calling => stages[c] \in Left(target[c]),
         place \in {"child", "read"} => Head(stages[c]) # "run"
  PROVE  pc' \in [Compilers -> {"idle"} \cup Running \cup Ended] /\ StagesOK'
<1>1. /\ pc' \in [Compilers -> {"idle"} \cup Running \cup Ended]
      /\ pc'[c] = place
      /\ \A d \in Compilers : d # c => pc'[d] = pc[d]
  BY DEF Goto, Shape, Types
<1> QED
  BY <1>1 DEF Shape, StagesOK

\* After codegen() come the calls of dispatch(), if there are any.
LEMMA StagesLeft ==
  ASSUME NEW t \in Targets, Stages(t) # <<>>
  PROVE  Stages(t) \in Left(t)
BY DEF Targets, Stages, Left

\* Only a compiler that is asked for assembly has no call to make.
LEMMA NoneLeft ==
  ASSUME NEW t \in Targets, Stages(t) = <<>>
  PROVE  t = "ASSEMBLY"
<1>1. CASE t = "OBJECT"
  <2>1. Stages(t) = <<"assemble">>
    BY <1>1 DEF Stages
  <2> QED
    BY <2>1, Calls3
<1>2. CASE t = "BINARY"
  <2>1. Stages(t) = <<"assemble", "link_cc">>
    BY <1>2 DEF Stages
  <2> QED
    BY <2>1, Calls3
<1>3. CASE t = "RUN"
  <2>1. Stages(t) = <<"assemble", "link_cc", "run">>
    BY <1>3 DEF Stages
  <2> QED
    BY <2>1, Calls3
<1> QED
  BY <1>1, <1>2, <1>3 DEF Targets

LEMMA StepShape ==
  ASSUME Shape, NEW c \in Compilers, Step(c)
  PROVE  Shape'
<1>1. target' = target /\ source' = source
  BY StepWrites
<1>2. files' \in [AllPaths -> Contents]
  BY StepWrites, PathsExist DEF Files, Write, Shape, Types
<1>3. Types /\ StagesOK
  BY DEF Shape
<1>4. NoFile \in Contents /\ held[c] \in Contents
  BY <1>3 DEF Contents, NoFile, Types
<1>5. CASE Begin(c)
  <2>1. stages' = [stages EXCEPT ![c] = Stages(target[c])]
    BY <1>5 DEF Begin
  <2>2. Stages(target[c]) \in AllStages
    BY <1>3 DEF Types, Targets, Stages, AllStages
  <2>3. /\ pc' \in [Compilers -> {"idle"} \cup Running \cup Ended]
        /\ pc'[c] \in {"begin", "failure"}
        /\ \A d \in Compilers : d # c => pc'[d] = pc[d]
    BY <1>3, <1>5 DEF Begin, Goto, Fail, Types, Running, Ended
  <2>4. /\ stages' \in [Compilers -> AllStages]
        /\ stages'[c] = Stages(target[c])
        /\ \A d \in Compilers : d # c => stages'[d] = stages[d]
    BY <1>3, <2>1, <2>2 DEF Types
  <2>5. StagesOK'
    BY <1>1, <1>3, <2>3, <2>4 DEF StagesOK, Calling
  <2> QED
    BY <1>1, <1>2, <1>3, <1>5, <2>3, <2>4, <2>5 DEF Shape, Types, Begin
<1>6. CASE Open(c)
  <2>1. /\ stages' = stages /\ held' = held /\ product' = product
        /\ Goto(c, "write") \/ Goto(c, "failure")
        /\ stages[c] = Stages(target[c])
    BY <1>3, <1>6 DEF Open, Fail, StagesOK
  <2>2. pc' \in [Compilers -> {"idle"} \cup Running \cup Ended] /\ StagesOK'
    BY <1>1, <2>1, GotoShape DEF Running, Ended, Calling
  <2> QED
    BY <1>1, <1>2, <1>3, <2>1, <2>2 DEF Shape, Types
<1>7. CASE Close(c)
  <2>1. /\ stages' = stages /\ held' = held
        /\ stages[c] = Stages(target[c]) /\ target[c] \in Targets
    BY <1>3, <1>7 DEF Close, StagesOK, Types
  <2>2. \/ Goto(c, "success") /\ product' = [product EXCEPT ![c] = files'[Result(c)]]
        \/ Goto(c, "call") /\ product' = product /\ stages[c] # <<>>
    BY <1>7 DEF Close
  <2>3. product' \in [Compilers -> Contents]
    BY <1>2, <1>3, <2>2, PathsExist DEF Types, Result
  <2>4. pc' \in [Compilers -> {"idle"} \cup Running \cup Ended] /\ StagesOK'
    BY <1>1, <2>1, <2>2, StagesLeft, GotoShape DEF Running, Ended, Calling
  <2> QED
    BY <1>1, <1>2, <1>3, <2>1, <2>3, <2>4 DEF Shape, Types
<1>8. CASE Fork(c)
  <2>1. /\ stages' = stages /\ held' = held /\ product' = product /\ Goto(c, "child")
        /\ stages[c] \in Left(target[c]) /\ Head(stages[c]) # "run"
    BY <1>3, <1>8 DEF Fork, Calls, StagesOK, Calling
  <2>2. pc' \in [Compilers -> {"idle"} \cup Running \cup Ended] /\ StagesOK'
    BY <1>1, <2>1, GotoShape DEF Running, Ended, Calling
  <2> QED
    BY <1>1, <1>2, <1>3, <2>1, <2>2 DEF Shape, Types
<1>9. CASE ForkFails(c)
  <2>1. held' = held /\ pc[c] = "call" /\ \E failed \in BOOLEAN : Advance(c, failed)
    BY <1>9 DEF ForkFails, Calls
  <2> QED
    BY <1>1, <1>2, <1>3, <2>1, AdvanceShape DEF Shape, Types, Calling
<1>10. CASE ChildReads(c)
  <2>1. /\ stages' = stages /\ product' = product /\ Goto(c, "read")
        /\ stages[c] \in Left(target[c]) /\ Head(stages[c]) # "run"
        /\ held' = [held EXCEPT ![c] = files[Input(c)]]
    BY <1>3, <1>10 DEF ChildReads, StagesOK, Calling
  <2>2. pc' \in [Compilers -> {"idle"} \cup Running \cup Ended] /\ StagesOK'
    BY <1>1, <2>1, GotoShape DEF Running, Ended, Calling
  <2>3. held' \in [Compilers -> Contents]
    BY <1>3, <2>1, PathsExist DEF Types, Input
  <2> QED
    BY <1>1, <1>2, <1>3, <2>1, <2>2, <2>3 DEF Shape, Types
<1>11. CASE ChildSucceeds(c) \/ ChildFails(c)
  <2>1. /\ pc[c] \in Calling /\ held' = [held EXCEPT ![c] = NoFile]
        /\ \E failed \in BOOLEAN : Advance(c, failed)
    BY <1>11 DEF ChildSucceeds, ChildFails, Calling
  <2>2. held' \in [Compilers -> Contents]
    BY <1>3, <1>4, <2>1 DEF Types
  <2> QED
    BY <1>1, <1>2, <1>3, <2>1, <2>2, AdvanceShape DEF Shape, Types
<1>12. CASE Run(c)
  <2>1. held' = held /\ pc[c] = "call"
    BY <1>12 DEF Run, Calls
  <2>2. CASE Advance(c, FALSE)
    BY <1>1, <1>2, <1>3, <2>1, <2>2, AdvanceShape DEF Shape, Types, Calling
  <2>3. CASE Fail(c) /\ UNCHANGED <<stages, product>>
    <3>1. pc' \in [Compilers -> {"idle"} \cup Running \cup Ended] /\ StagesOK'
      BY <1>1, <2>3, GotoShape DEF Fail, Running, Ended, Calling
    <3> QED
      BY <1>1, <1>2, <1>3, <2>1, <2>3, <3>1 DEF Shape, Types
  <2> QED
    BY <1>12, <2>2, <2>3 DEF Run
<1> QED
  BY <1>5, <1>6, <1>7, <1>8, <1>9, <1>10, <1>11, <1>12 DEF Step

-----------------------------------------------------------------------------
(* What a compiler makes                                                   *)

\* The assembly a compiler has begun is in the set begun; what its next call depends
\* on, what its child has read and what it has made are in the set good.
Sound(c, begun, good) ==
  /\ pc[c] = "write" => files[Asm(c)] \in begun
  /\ pc[c] \in Calling => files[Needed(c)] \in good
  /\ pc[c] = "read" => held[c] \in good
  /\ pc[c] = "success" => product[c] \in good

\* A compiler that has failed has nothing to be sound.
LEMMA FailedSound ==
  ASSUME Shape, NEW c \in Compilers, NEW begun, NEW good,
         Goto(c, "failure") \/ Goto(c, "begin")
  PROVE  Sound(c, begun, good)'
<1>1. pc'[c] \in {"failure", "begin"}
  BY DEF Goto, Shape, Types
<1> QED
  BY <1>1 DEF Sound, Calling

\* A call that succeeds and leaves something good hands it to the next call, or it is
\* the product.
LEMMA AdvanceSound ==
  ASSUME Shape, NEW c \in Compilers, NEW begun, NEW good, pc[c] \in Calling,
         Advance(c, FALSE), target' = target, source' = source,
         files'[IF Head(stages[c]) = "run" THEN Bin(c) ELSE Output(c)] \in good
  PROVE  Sound(c, begun, good)'
<1>1. stages[c] \in Left(target[c])
  BY DEF Shape, StagesOK
<1>2. CASE Len(stages[c]) = 1
  <2>1. pc'[c] = "success" /\ product'[c] = files'[Result(c)]
    BY <1>2 DEF Advance, AfterStatus, Goto, Shape, Types
  <2>2. Result(c) = IF Head(stages[c]) = "run" THEN Bin(c) ELSE Output(c)
    BY <1>1, <1>2, LastCall DEF Shape
  <2> QED
    BY <2>1, <2>2 DEF Sound, Calling
<1>3. CASE Len(stages[c]) # 1
  <2>1. pc'[c] = "call" /\ stages'[c] = Tail(stages[c])
    BY <1>3 DEF Advance, AfterStatus, Goto, Shape, Types
  <2>2. \/ Head(stages[c]) = "assemble" /\ Head(Tail(stages[c])) = "link_cc"
        \/ Head(stages[c]) = "link_cc" /\ Head(Tail(stages[c])) = "run"
    BY <1>1, <1>3, NextCall
  <2>3. Obj(c)' = Obj(c) /\ Bin(c)' = Bin(c)
    BY DEF Obj, Bin, Rel, Tmp
  <2>4. Needed(c)' = Output(c) /\ Head(stages[c]) # "run"
    BY <2>1, <2>2, <2>3 DEF Needed, Output
  <2> QED
    BY <2>1, <2>4 DEF Sound
<1> QED
  BY <1>2, <1>3

\* A compiler that misses no failure of its own goes on from what is good to what is
\* good.
LEMMA OwnStep ==
  ASSUME Shape, NEW c \in Compilers, Step(c), c \notin mishap',
         NEW begun, NEW good, Begun(c) \in begun, Whole(c) \in good,
         begun = {Begun(c)} \/ Mixed \in good, Sound(c, begun, good)
  PROVE  Sound(c, begun, good)'
<1>1. target' = target /\ source' = source
  BY StepWrites
<1>2. Asm(c)' = Asm(c) /\ Obj(c)' = Obj(c) /\ Bin(c)' = Bin(c)
  BY <1>1 DEF Asm, Obj, Bin, Rel, Tmp
<1>3. {Asm(c), Obj(c), Bin(c)} \subseteq AllPaths /\ Types /\ StagesOK
  BY PathsExist DEF Shape
<1>4. ASSUME NEW place, Goto(c, place)
      PROVE  pc'[c] = place
  BY <1>3, <1>4 DEF Goto, Types
<1>5. CASE Begin(c)
  BY <1>5, FailedSound DEF Begin, Fail
<1>6. CASE Open(c)
  <2>1. CASE Write(c, Asm(c), Begun(c)) /\ Goto(c, "write")
    BY <1>2, <1>3, <1>4, <2>1 DEF Sound, Write, Types, Calling
  <2>2. CASE Fail(c)
    BY <2>2, FailedSound DEF Fail
  <2> QED
    BY <1>6, <2>1, <2>2 DEF Open
<1>7. CASE Close(c)
  <2>1. pc[c] = "write" /\ stages' = stages /\ stages[c] = Stages(target[c]) /\ target[c] \in Targets
    BY <1>3, <1>7 DEF Close, StagesOK, Types
  <2>2. \E content \in Written(c, files[Asm(c)]) : Write(c, Asm(c), content)
    <3>1. mishap' = mishap \/ mishap' = mishap \cup {c}
      BY <1>7 DEF Close
    <3> QED
      BY <1>7 DEF Close
  <2>3. Written(c, files[Asm(c)]) \subseteq good
    BY <2>1 DEF Written, Sound, Mixed
  <2>4. files'[Asm(c)] \in good
    BY <1>3, <2>2, <2>3 DEF Write, Types
  <2>5. CASE stages[c] = <<>>
    <3>1. Goto(c, "success") /\ product' = [product EXCEPT ![c] = files'[Result(c)]]
      BY <1>7, <2>5 DEF Close
    <3>2. target[c] = "ASSEMBLY"
      BY <2>1, <2>5, NoneLeft
    <3>3. pc'[c] = "success" /\ product'[c] = files'[Asm(c)]
      BY <1>3, <1>4, <3>1, <3>2 DEF Result, Types
    <3> QED
      BY <2>4, <3>3 DEF Sound, Calling
  <2>6. CASE stages[c] # <<>>
    <3>1. pc'[c] = "call"
      BY <1>4, <1>7, <2>6 DEF Close
    <3>2. Head(stages[c]) = "assemble"
      BY <2>1, <2>6 DEF Targets, Stages
    <3>3. Needed(c)' = Asm(c)
      BY <1>2, <2>1, <3>2 DEF Needed
    <3> QED
      BY <2>4, <3>1, <3>3 DEF Sound
  <2> QED
    BY <2>5, <2>6
<1>8. ASSUME pc[c] \in Calling, files' = files, stages' = stages, NEW place \in {"child", "read"},
             Goto(c, place), place = "read" => held'[c] \in good
      PROVE  Sound(c, begun, good)'
  <2>1. Needed(c)' = Needed(c) /\ files'[Needed(c)] \in good
    BY <1>2, <1>8 DEF Needed, Sound
  <2> QED
    BY <1>4, <1>8, <2>1 DEF Sound
<1>9. CASE Fork(c)
  BY <1>8, <1>9 DEF Fork, Calls, Calling
<1>10. CASE ForkFails(c)
  <2>1. PICK failed \in BOOLEAN :
          Advance(c, failed) /\ mishap' = IF failed THEN mishap ELSE mishap \cup {c}
    BY <1>10 DEF ForkFails
  <2>2. Goto(c, "failure")
    BY <2>1 DEF Advance, AfterStatus
  <2> QED
    BY <2>2, FailedSound
<1>11. CASE ChildReads(c)
  <2>1. stages[c] \in Left(target[c]) /\ Head(stages[c]) # "run" /\ pc[c] \in Calling
    BY <1>3, <1>11 DEF ChildReads, StagesOK, Calling
  <2>2. Head(stages[c]) \in {"assemble", "link_cc"}
    BY <2>1, Calls3 DEF Left
  <2>3. held'[c] = files[Needed(c)]
    BY <1>3, <1>11, <2>1, <2>2, NeededPath DEF ChildReads, Types
  <2> QED
    BY <1>8, <1>11, <2>1, <2>3 DEF ChildReads, Sound
<1>12. CASE ChildSucceeds(c)
  <2>1. Head(stages[c]) # "run" /\ pc[c] \in Calling /\ held[c] \in good
    BY <1>3, <1>12 DEF ChildSucceeds, StagesOK, Sound, Calling
  <2>2. files'[Output(c)] = held[c]
    BY <1>3, <1>12 DEF ChildSucceeds, Write, Output, Types
  <2>3. /\ Advance(c, FALSE)
        /\ files'[IF Head(stages[c]) = "run" THEN Bin(c) ELSE Output(c)] \in good
    BY <1>12, <2>1, <2>2 DEF ChildSucceeds
  <2> QED
    BY <1>1, <2>1, <2>3, AdvanceSound
<1>13. CASE ChildFails(c)
  <2>1. Goto(c, "failure")
    BY <1>13 DEF ChildFails, Advance, AfterStatus
  <2> QED
    BY <2>1, FailedSound
<1>14. CASE Run(c)
  <2>1. pc[c] \in Calling /\ Head(stages[c]) = "run" /\ files' = files
    BY <1>14 DEF Run, Calls, Calling
  <2>2. files'[Bin(c)] \in good
    BY <2>1 DEF Sound, Needed
  <2>3. CASE Advance(c, FALSE)
    BY <1>1, <2>1, <2>2, <2>3, AdvanceSound
  <2>4. CASE Fail(c)
    BY <2>4, FailedSound DEF Fail
  <2> QED
    BY <1>14, <2>3, <2>4 DEF Run
<1> QED
  BY <1>5, <1>6, <1>7, <1>9, <1>10, <1>11, <1>12, <1>13, <1>14 DEF Step

\* A step of one compiler leaves the others where they are.
LEMMA StepLocal ==
  ASSUME Shape, NEW d \in Compilers, Step(d), NEW c \in Compilers, c # d
  PROVE  /\ pc'[c] = pc[c] /\ stages'[c] = stages[c]
         /\ held'[c] = held[c] /\ product'[c] = product[c]
<1>1. ASSUME NEW failed, Advance(d, failed)
      PROVE  pc'[c] = pc[c] /\ stages'[c] = stages[c] /\ product'[c] = product[c]
  BY <1>1 DEF Advance, Goto, Shape, Types
<1>2. ASSUME NEW place, Goto(d, place)
      PROVE  pc'[c] = pc[c]
  BY <1>2 DEF Goto, Shape, Types
<1>3. CASE Begin(d) \/ Open(d) \/ Fork(d) \/ ChildReads(d)
  BY <1>2, <1>3 DEF Begin, Open, Fork, ChildReads, Fail, Shape, Types
<1>4. CASE Close(d)
  BY <1>2, <1>4 DEF Close, Shape, Types
<1>5. CASE ForkFails(d) \/ ChildSucceeds(d) \/ ChildFails(d) \/ Run(d)
  BY <1>1, <1>2, <1>5 DEF ForkFails, ChildSucceeds, ChildFails, Run, Fail, Shape, Types
<1> QED
  BY <1>3, <1>4, <1>5 DEF Step

\* A compiler stays sound when another one leaves its files alone, or writes what will
\* do for it.
LEMMA OtherStep ==
  ASSUME Shape, NEW d \in Compilers, Step(d), NEW c \in Compilers, c # d,
         NEW begun, NEW good, Sound(c, begun, good),
         pc[c] \in Running =>
           \A path \in Paths(c) : files'[path] = files[path] \/ files'[path] \in begun \cap good
  PROVE  Sound(c, begun, good)'
<1>1. target' = target /\ source' = source
  BY StepWrites
<1>2. /\ pc'[c] = pc[c] /\ stages'[c] = stages[c]
      /\ held'[c] = held[c] /\ product'[c] = product[c]
  BY StepLocal
<1>3. Asm(c)' = Asm(c) /\ Obj(c)' = Obj(c) /\ Bin(c)' = Bin(c)
  BY <1>1 DEF Asm, Obj, Bin, Rel, Tmp
<1>4. Needed(c)' = Needed(c)
  BY <1>2, <1>3 DEF Needed
<1>5. pc[c] = "write" => Asm(c) \in Paths(c) /\ pc[c] \in Running
  BY DEF Paths, Running
<1>6. pc[c] \in Calling => Needed(c) \in Paths(c) /\ pc[c] \in Running
  BY NeededPath DEF Shape, StagesOK, Calling, Running
<1> QED
  BY <1>2, <1>3, <1>4, <1>5, <1>6 DEF Sound

-----------------------------------------------------------------------------
(* The invariants                                                          *)

Fresh == {x \in Contents : x.of # "earlier"}

IInv ==
  /\ Shape
  /\ mishap = {} => \A c \in Compilers : Sound(c, Fresh, Fresh)
  /\ \A c \in Compilers : c \notin mishap \cup disturbed => Sound(c, {Begun(c)}, {Whole(c)})

LEMMA FreshContents ==
  ASSUME NEW c \in Compilers
  PROVE  {Begun(c), Whole(c), Mixed, NoFile} \subseteq Fresh
BY CompilersAssumption DEF Fresh, Begun, Whole, Mixed, NoFile, Content, Contents

LEMMA InitIInv == Init => IInv
<1> SUFFICES ASSUME Init PROVE IInv
  OBVIOUS
<1>1. Types
  <2>1. PICK old \in {NoFile, [of |-> "earlier", whole |-> TRUE]} : files = [p \in AllPaths |-> old]
    BY DEF Init
  <2>2. [of |-> "earlier", whole |-> TRUE] \in Contents /\ NoFile \in Contents
    BY DEF Content, Contents
  <2>3. old \in Contents
    BY <2>1, <2>2
  <2> QED
    BY <2>1, <2>2, <2>3, SourcesAssumption DEF Init, Types, AllStages, Contents
<1>2. StagesOK
  BY DEF Init, StagesOK, Calling
<1>3. ASSUME NEW c \in Compilers, NEW begun, NEW good
      PROVE  Sound(c, begun, good)
  BY DEF Init, Sound, Calling
<1> QED
  BY <1>1, <1>2, <1>3 DEF IInv, Shape

LEMMA StepIInv ==
  ASSUME IInv, NEW d \in Compilers, Step(d)
  PROVE  IInv'
<1>1. Shape /\ Shape' /\ mishap \subseteq mishap' /\ disturbed \subseteq disturbed'
  BY StepShape, StepWrites DEF IInv
<1>2. ASSUME mishap' = {}, NEW c \in Compilers
      PROVE  Sound(c, Fresh, Fresh)'
  <2>1. \A e \in Compilers : Sound(e, Fresh, Fresh)
    BY <1>1, <1>2 DEF IInv
  <2>2. CASE c = d
    BY <1>1, <1>2, <2>1, <2>2, FreshContents, OwnStep
  <2>3. CASE c # d
    <3>1. ASSUME NEW path \in Paths(c)
          PROVE  files'[path] = files[path] \/ files'[path] \in Fresh
      <4>1. CASE files' = files
        BY <4>1
      <4>2. ASSUME NEW p \in Files(d), NEW content \in Contents, Write(d, p, content),
                   \/ content \in {Begun(d), Whole(d), Mixed, NoFile}
                   \/ pc[d] = "read" /\ content = held[d]
            PROVE  files'[path] = files[path] \/ files'[path] \in Fresh
        <5>1. content \in Fresh
          BY <2>1, <4>2, FreshContents DEF Sound
        <5>2. files \in [AllPaths -> Contents] /\ path \in AllPaths
          BY <1>1, PathsExist DEF Shape, Types, Paths
        <5> QED
          BY <4>2, <5>1, <5>2 DEF Write
      <4> QED
        BY <1>1, <1>2, <4>1, <4>2, StepWrites
    <3> QED
      BY <1>1, <2>1, <2>3, <3>1, OtherStep
  <2> QED
    BY <2>2, <2>3
<1>3. ASSUME NEW c \in Compilers, c \notin mishap' \cup disturbed'
      PROVE  Sound(c, {Begun(c)}, {Whole(c)})'
  <2>1. Sound(c, {Begun(c)}, {Whole(c)})
    BY <1>1, <1>3 DEF IInv
  <2>2. CASE c = d
    BY <1>1, <1>3, <2>1, <2>2, OwnStep
  <2>3. CASE c # d
    <3>1. ASSUME pc[c] \in Running, NEW path \in Paths(c)
          PROVE  files'[path] = files[path]
      <4>1. CASE files' = files
        BY <4>1
      <4>2. ASSUME NEW p \in Files(d), NEW content, Write(d, p, content)
            PROVE  files'[path] = files[path]
        <5>1. p # path
          BY <1>3, <2>3, <3>1, <4>2 DEF Write
        <5>2. files \in [AllPaths -> Contents] /\ path \in AllPaths
          BY <1>1, PathsExist DEF Shape, Types, Paths
        <5> QED
          BY <4>2, <5>1, <5>2 DEF Write
      <4> QED
        BY <1>1, <4>1, <4>2, StepWrites
    <3> QED
      BY <1>1, <2>1, <2>3, <3>1, OtherStep
  <2> QED
    BY <2>2, <2>3
<1> QED
  BY <1>1, <1>2, <1>3 DEF IInv

LEMMA StutterIInv ==
  ASSUME IInv, UNCHANGED vars
  PROVE  IInv'
<1>1. Shape'
  BY DEF vars, IInv, Shape, Types, StagesOK
<1>2. ASSUME NEW c \in Compilers
      PROVE  Asm(c)' = Asm(c) /\ Needed(c)' = Needed(c)
  BY DEF vars, Asm, Obj, Bin, Rel, Tmp, Needed
<1>3. ASSUME NEW c \in Compilers, NEW begun, NEW good, Sound(c, begun, good)
      PROVE  Sound(c, begun, good)'
  BY <1>2, <1>3 DEF vars, Sound
<1> QED
  BY <1>1, <1>3 DEF vars, IInv

\* The invariant the properties below follow from: types, the calls left to every
\* compiler, and what the files hold that its next call depends on.
THEOREM Invariance == Spec => []IInv
<1>1. IInv /\ [Next]_vars => IInv'
  BY StepIInv, StutterIInv DEF Next, Terminated
<1> QED
  BY InitIInv, <1>1, PTL DEF Spec

\* The product of main(): a compiler that reports success and missed no failure has
\* made the whole of its own source, whatever the others do, unless one of them wrote
\* its files while it ran.
THEOREM MakesItsOwn == Spec => []OwnProduct
<1>1. IInv => OwnProduct
  BY DEF IInv, Sound, OwnProduct
<1> QED
  BY Invariance, <1>1, PTL

\* As long as no failure is missed, nothing an earlier compiler has left under /tmp or
\* beside the source is taken for the product of this one, whatever stages fail and
\* whatever the others do.
THEOREM NeverStale == Spec => []NothingStale
<1>1. IInv => NothingStale
  BY DEF IInv, Sound, NothingStale, Fresh
<1> QED
  BY Invariance, <1>1, PTL

-----------------------------------------------------------------------------
(* Who disturbs whom                                                       *)

\* Names with endings are the same if names and endings are, or if one name is the
\* other one with its ending.
LEMMA NamesMeet ==
  ASSUME NEW S, NEW a \in Seq(S), NEW b \in Seq(S),
         NEW e \in Extensions, NEW f \in Extensions, Name(a, e) = Name(b, f)
  PROVE  \/ e = f /\ a = b
         \/ e = <<>> /\ a = Name(b, f)
         \/ f = <<>> /\ b = Name(a, e)
<1>0. Name(a, <<>>) = a /\ Name(b, <<>>) = b
  BY DEF Name
<1>1. CASE e = <<>>
  BY <1>0, <1>1
<1>2. CASE f = <<>>
  BY <1>0, <1>2
<1>3. CASE e # <<>> /\ f # <<>>
  <2>1. PICK u \in {".s", ".o"}, v \in {".s", ".o"} : e = <<u>> /\ f = <<v>>
    BY <1>3 DEF Extensions
  <2> DEFINE T == S \cup {".s", ".o"}
  <2>0. a \in Seq(T) /\ b \in Seq(T) /\ u \in T /\ v \in T
    OBVIOUS
  <2> HIDE DEF T
  <2>2. Append(a, u) = Append(b, v)
    BY <2>0, <2>1 DEF Name
  <2>3. Len(a) = Len(b)
    BY <2>0, <2>2
  <2>4. u = v
    BY <2>0, <2>2, <2>3
  <2>5. \A i \in 1..Len(a) : a[i] = b[i]
    BY <2>0, <2>2, <2>3
  <2>6. a = b
    BY <2>0, <2>3, <2>5
  <2> QED
    BY <2>1, <2>4, <2>6
<1> QED
  BY <1>1, <1>2, <1>3

\* where c has a file with this ending
Lies(c, dir, ext) ==
  \/ ext = <<".s">> /\ dir = IF target[c] = "ASSEMBLY" THEN source[c].dir ELSE TEMP_DIR
  \/ ext = <<".o">> /\ \/ target[c] = "OBJECT" /\ dir = source[c].dir
                       \/ target[c] \in {"BINARY", "RUN"} /\ dir = TEMP_DIR
  \/ ext = <<>> /\ \/ target[c] = "BINARY" /\ dir = source[c].dir
                   \/ target[c] = "RUN" /\ dir = TEMP_DIR

LEMMA PathsAre ==
  ASSUME Types, NEW c \in Compilers, NEW path \in Paths(c)
  PROVE  \E dir, ext : /\ ext \in Extensions /\ Lies(c, dir, ext)
                       /\ path = <<dir, Name(source[c].base, ext)>>
<1>1. <<".s">> \in Extensions /\ <<".o">> \in Extensions /\ <<>> \in Extensions
  BY DEF Extensions
<1>2. target[c] \in Targets
  BY DEF Types
<1>3. CASE path = Asm(c)
  BY <1>1, <1>3 DEF Asm, Rel, Tmp, Lies
<1>4. CASE path = Obj(c) /\ "assemble" \in ToSet(Stages(target[c]))
  <2>1. target[c] # "ASSEMBLY"
    BY <1>4 DEF Stages, ToSet
  <2> QED
    BY <1>1, <1>2, <1>4, <2>1 DEF Obj, Rel, Tmp, Lies, Targets
<1>5. CASE path = Bin(c) /\ "link_cc" \in ToSet(Stages(target[c]))
  <2>1. target[c] # "ASSEMBLY" /\ target[c] # "OBJECT"
    BY <1>5 DEF Stages, ToSet
  <2> QED
    BY <1>1, <1>2, <1>5, <2>1 DEF Bin, Rel, Tmp, Lies, Targets
<1> QED
  BY <1>3, <1>4, <1>5 DEF Paths

Clash(c, d) == SameName(c, d) \/ ProgramOver(c, d) \/ ProgramOver(d, c)

\* a program called like a file of another compiler
LEMMA ProgramMeets ==
  ASSUME Types, NEW c \in Compilers, NEW d \in Compilers, NEW dir, NEW ext \in Extensions,
         Lies(c, dir, <<>>), Lies(d, dir, ext), source[c].base = Name(source[d].base, ext), ext # <<>>
  PROVE  ProgramOver(c, d)
<1>1. source[c].dir # TEMP_DIR /\ source[d].dir # TEMP_DIR
  BY TempDirAssumption DEF Types
<1>2. target[c] \in Targets /\ target[d] \in Targets /\ <<".s">> # <<>> /\ <<".o">> # <<>>
  BY DEF Types
<1>3. target[c] \in {"BINARY", "RUN"} /\ dir = IF target[c] = "RUN" THEN TEMP_DIR ELSE source[c].dir
  BY <1>2 DEF Lies
<1>4. CASE ext = <<".s">>
  <2>1. dir = IF target[d] = "ASSEMBLY" THEN source[d].dir ELSE TEMP_DIR
    BY <1>2, <1>4 DEF Lies
  <2> QED
    BY <1>1, <1>3, <1>4, <2>1 DEF ProgramOver, ProgramNamed
<1>5. CASE ext = <<".o">>
  <2>1. \/ target[d] = "OBJECT" /\ dir = source[d].dir
        \/ target[d] \in {"BINARY", "RUN"} /\ dir = TEMP_DIR
    BY <1>2, <1>5 DEF Lies
  <2> QED
    BY <1>1, <1>3, <1>5, <2>1 DEF ProgramOver, ProgramNamed
<1> QED
  BY <1>4, <1>5 DEF Extensions

LEMMA PathsMeet ==
  ASSUME Types, NEW c \in Compilers, NEW d \in Compilers, NEW path \in Paths(c) \cap Paths(d)
  PROVE  Clash(c, d)
<1>1. PICK dir, e : /\ e \in Extensions /\ Lies(c, dir, e)
                    /\ path = <<dir, Name(source[c].base, e)>>
  BY PathsAre
<1>2. PICK dir2, f : /\ f \in Extensions /\ Lies(d, dir2, f)
                     /\ path = <<dir2, Name(source[d].base, f)>>
  BY PathsAre
<1>3. dir2 = dir /\ Name(source[c].base, e) = Name(source[d].base, f)
  <2>1. path[1] = dir /\ path[2] = Name(source[c].base, e)
    BY <1>1
  <2>2. path[1] = dir2 /\ path[2] = Name(source[d].base, f)
    BY <1>2
  <2> QED
    BY <2>1, <2>2
<1>4. source[c].base \in Seq(STRING) /\ source[d].base \in Seq(STRING)
  BY BasesAssumption DEF Types
<1>5. \/ e = f /\ source[c].base = source[d].base
      \/ e = <<>> /\ source[c].base = Name(source[d].base, f)
      \/ f = <<>> /\ source[d].base = Name(source[c].base, e)
  BY <1>1, <1>2, <1>3, <1>4, NamesMeet
<1>6. CASE source[c].base = source[d].base /\ e = f
  <2>1. source[c].dir # TEMP_DIR /\ source[d].dir # TEMP_DIR
    BY TempDirAssumption DEF Types
  <2>2. <<".s">> # <<".o">> /\ <<".s">> # <<>> /\ <<".o">> # <<>>
    OBVIOUS
  <2>3. CASE e = <<".s">>
    BY <1>1, <1>2, <1>3, <1>6, <2>1, <2>2, <2>3 DEF Lies, SameName, Clash
  <2>4. CASE e # <<".s">>
    BY <1>1, <1>2, <1>6, <2>4 DEF Lies, SameName, Clash
  <2> QED
    BY <2>3, <2>4
<1>7. CASE e = <<>> /\ f # <<>> /\ source[c].base = Name(source[d].base, f)
  BY <1>1, <1>2, <1>3, <1>7, ProgramMeets DEF Clash
<1>8. CASE f = <<>> /\ e # <<>> /\ source[d].base = Name(source[c].base, e)
  BY <1>1, <1>2, <1>3, <1>8, ProgramMeets DEF Clash
<1>9. ASSUME e = <<>>, f = <<>> PROVE source[c].base = source[d].base
  BY <1>3, <1>4, <1>9 DEF Name
<1> QED
  BY <1>5, <1>6, <1>7, <1>8, <1>9

\* The children write what the target asks for.
LEMMA OutputPath ==
  ASSUME Shape, NEW c \in Compilers, pc[c] \in {"child", "read"}
  PROVE  Output(c) \in Paths(c)
<1>1. stages[c] \in Left(target[c]) /\ Head(stages[c]) # "run"
  BY DEF Shape, StagesOK, Calling
<1>2. CASE target[c] = "OBJECT"
  BY <1>1, <1>2 DEF Left, Output, Paths, Stages, ToSet
<1>3. CASE target[c] = "BINARY"
  BY <1>1, <1>3 DEF Left, Output, Paths, Stages, ToSet
<1>4. CASE target[c] = "RUN"
  BY <1>1, <1>4 DEF Left, Output, Paths, Stages, ToSet
<1> QED
  BY <1>1, <1>2, <1>3, <1>4 DEF Left

\* Whoever is disturbed by a write to one of c's files has a file called like it.
LEMMA WriteStep ==
  ASSUME Types, NEW c \in Compilers, NEW path \in Paths(c), NEW content,
         Write(c, path, content), UNCHANGED <<source, target>>, DisturbedByNamesake
  PROVE  DisturbedByNamesake'
<1>1. ASSUME NEW d, NEW e, Clash(d, e)
      PROVE  Clash(d, e)'
  BY <1>1 DEF Clash, SameName, ProgramOver, ProgramNamed
<1> SUFFICES ASSUME NEW d \in disturbed'
             PROVE  \E e \in Compilers \ {d} : Clash(d, e)'
  BY DEF DisturbedByNamesake, Clash
<1>2. CASE d \in disturbed
  <2>1. \E e \in Compilers \ {d} : Clash(d, e)
    BY <1>2 DEF DisturbedByNamesake, Clash
  <2> QED
    BY <1>1, <2>1
<1>3. CASE d \notin disturbed
  <2>1. d \in Compilers \ {c} /\ path \in Paths(d)
    BY <1>3 DEF Write
  <2>2. Clash(d, c)
    BY <2>1, PathsMeet
  <2> QED
    BY <1>1, <2>1, <2>2
<1> QED
  BY <1>2, <1>3

LEMMA StepNamesake ==
  ASSUME IInv, NEW c \in Compilers, Step(c), DisturbedByNamesake
  PROVE  DisturbedByNamesake'
<1>1. UNCHANGED <<source, target>> /\ Types
  BY StepWrites DEF IInv, Shape
<1>2. ASSUME UNCHANGED disturbed PROVE DisturbedByNamesake'
  BY <1>1, <1>2 DEF DisturbedByNamesake, SameName, ProgramOver, ProgramNamed
<1>3. ASSUME NEW path \in Paths(c), NEW content, Write(c, path, content)
      PROVE  DisturbedByNamesake'
  BY <1>1, <1>3, WriteStep
<1>4. Asm(c) \in Paths(c)
  BY DEF Paths
<1>5. CASE Begin(c) \/ Fork(c) \/ ForkFails(c) \/ ChildReads(c) \/ Run(c)
  BY <1>2, <1>5 DEF Begin, Fork, ForkFails, ChildReads, Run
<1>6. CASE Open(c)
  BY <1>2, <1>3, <1>4, <1>6 DEF Open
<1>7. CASE Close(c)
  <2>1. \E content : Write(c, Asm(c), content)
    BY <1>7 DEF Close
  <2> QED
    BY <1>3, <1>4, <2>1
<1>8. CASE ChildSucceeds(c)
  BY <1>3, <1>8, OutputPath DEF ChildSucceeds, IInv
<1>9. CASE ChildFails(c)
  <2>1. Write(c, Output(c), NoFile) \/ UNCHANGED disturbed
    BY <1>9 DEF ChildFails
  <2>2. Output(c) \in Paths(c)
    BY <1>9, OutputPath DEF ChildFails, IInv
  <2> QED
    BY <1>2, <1>3, <2>1, <2>2
<1> QED
  BY <1>5, <1>6, <1>7, <1>8, <1>9 DEF Step

\* A compiler's files are only written by another one if their sources have one name, or
\* the program of one is called like the assembly or the object of the other, for any
\* number of compilers, in any order and with any failures.
THEOREM DisturbsNamesakesOnly == Spec => []DisturbedByNamesake
<1>1. Init => DisturbedByNamesake
  BY DEF Init, DisturbedByNamesake
<1>2. IInv /\ DisturbedByNamesake /\ [Next]_vars => DisturbedByNamesake'
  <2>1. CASE UNCHANGED vars
    BY <2>1 DEF vars, DisturbedByNamesake, SameName, ProgramOver, ProgramNamed
  <2>2. CASE Terminated
    BY <2>1, <2>2 DEF Terminated
  <2> QED
    BY <2>1, <2>2, StepNamesake DEF Next
<1> QED
  BY Invariance, <1>1, <1>2, PTL DEF Spec

-----------------------------------------------------------------------------
(* TypeOK                                                                  *)

\* the calls a compiler may have before it at all
Rests(t) == {<<>>} \cup Left(t)

\* what the other proofs do not need
Others ==
  /\ source \in Sources
  /\ mishap \subseteq Compilers /\ disturbed \subseteq Compilers
  /\ \A c \in Compilers : stages[c] \in Rests(target[c])

LEMMA SuffixOf ==
  ASSUME NEW S, NEW s \in Seq(S), NEW t \in Seq(S), Len(s) <= Len(t),
         \A i \in 1..Len(s) : s[i] = t[Len(t) - Len(s) + i]
  PROVE  IsSuffix(s, t)
<1> DEFINE m == Len(s)
           n == Len(t)
           r == [i \in 1..m |-> s[(m - i) + 1]]
           q == [i \in 1..n |-> t[(n - i) + 1]]
<1>1. m \in Nat /\ n \in Nat /\ m <= n
  OBVIOUS
<1>2. Reverse(s) = r /\ Reverse(t) = q
  BY DEF Reverse
<1>3. ASSUME NEW i \in 1..m PROVE i \in 1..n /\ s[(m - i) + 1] = t[(n - i) + 1]
  <2>1. (m - i) + 1 \in 1..m /\ (n - i) + 1 = n - m + ((m - i) + 1) /\ i \in 1..n
    <3> HIDE DEF m, n
    <3> QED
      BY <1>1
  <2> QED
    BY <2>1
<1>4. /\ \A i \in 1..m : (m - i) + 1 \in 1..m
      /\ \A i \in 1..n : (n - i) + 1 \in 1..n
  <2> HIDE DEF m, n
  <2> QED
    BY <1>1
<1>5. r \in [1..m -> S] /\ q \in [1..n -> S]
  <2>1. (\A i \in 1..m : s[i] \in S) /\ (\A i \in 1..n : t[i] \in S)
    OBVIOUS
  <2> HIDE DEF m, n
  <2> QED
    BY <1>4, <2>1
<1>6. \A i \in 1..m : r[i] = q[i]
  BY <1>3
<1> HIDE DEF r, q, m, n
<1>7. r \in Seq(S) /\ q \in Seq(S) /\ Len(r) = m /\ Len(q) = n
  <2>1. \A k \in Nat : \A f \in [1..k -> S] : f \in Seq(S) /\ Len(f) = k
    OBVIOUS
  <2> QED
    BY <1>1, <1>5, <2>1
<1>8. IsPrefix(r, q)
  <2>1. SubSeq(q, 1, m) = SubSeq(r, 1, m)
    BY <1>1, <1>6, <1>7
  <2> QED
    BY <1>1, <1>7, <2>1 DEF IsPrefix
<1> QED
  BY <1>2, <1>8 DEF IsSuffix

Call == {"assemble", "link_cc", "run"}

LEMMA RestIsSuffix ==
  ASSUME NEW t \in Targets, NEW s \in Rests(t)
  PROVE  IsSuffix(s, Stages(t))
<1> DEFINE Lists == {<<>>, <<"assemble">>, <<"link_cc">>, <<"run">>, <<"assemble", "link_cc">>,
                     <<"link_cc", "run">>, <<"assemble", "link_cc", "run">>}
<1>1. s \in Seq(Call) /\ Stages(t) \in Seq(Call)
  <2>1. /\ "assemble" \in Call /\ "link_cc" \in Call /\ "run" \in Call
        /\ s \in Lists
    BY DEF Rests, Left, Call
  <2>2. Stages(t) \in Lists
    BY DEF Stages, Targets
  <2>3. \A a, b, c \in Call :
          /\ <<>> \in Seq(Call)
          /\ <<a>> \in Seq(Call)
          /\ <<a, b>> \in Seq(Call)
          /\ <<a, b, c>> \in Seq(Call)
    OBVIOUS
  <2>4. \A l \in Lists : l \in Seq(Call)
    <3> HIDE DEF Call
    <3> QED
      BY <2>1, <2>3, Zenon
  <2> HIDE DEF Lists
  <2> QED
    BY <2>1, <2>2, <2>4
<1>2. Len(s) <= Len(Stages(t)) /\ \A i \in 1..Len(s) : s[i] = Stages(t)[Len(Stages(t)) - Len(s) + i]
  <2>1. CASE s = <<>>
    BY <1>1, <2>1
  <2>2. CASE t = "OBJECT" /\ s = <<"assemble">>
    BY <2>2 DEF Stages
  <2>3. CASE t = "BINARY" /\ s # <<>>
    <3>1. Stages(t) = <<"assemble", "link_cc">>
      BY <2>3 DEF Stages
    <3>2. CASE s = <<"assemble", "link_cc">>
      BY <3>1, <3>2
    <3>3. CASE s = <<"link_cc">>
      BY <3>1, <3>3
    <3> QED
      BY <2>3, <3>2, <3>3 DEF Rests, Left
  <2>4. CASE t = "RUN" /\ s # <<>>
    <3>1. Stages(t) = <<"assemble", "link_cc", "run">>
      BY <2>4 DEF Stages
    <3>2. CASE s = <<"assemble", "link_cc", "run">>
      BY <3>1, <3>2
    <3>3. CASE s = <<"link_cc", "run">>
      BY <3>1, <3>3
    <3>4. CASE s = <<"run">>
      BY <3>1, <3>4
    <3> QED
      BY <2>4, <3>2, <3>3, <3>4 DEF Rests, Left
  <2> QED
    BY <2>1, <2>2, <2>3, <2>4 DEF Rests, Left, Targets
<1> QED
  BY <1>1, <1>2, SuffixOf

LEMMA RestAdvanced ==
  ASSUME NEW t, NEW s \in Left(t)
  PROVE  Tail(s) \in Rests(t)
<1>1. CASE Len(s) # 1
  BY <1>1, NextCall DEF Rests
<1>2. CASE Len(s) = 1
  <2>1. s \in {<<"assemble">>, <<"link_cc">>, <<"run">>, <<"assemble", "link_cc">>,
              <<"link_cc", "run">>, <<"assemble", "link_cc", "run">>}
    BY DEF Left
  <2>2. s \in {<<"assemble">>, <<"link_cc">>, <<"run">>}
    BY <1>2, <2>1, Calls3
  <2>3. Tail(s) = <<>>
    BY <2>2, Calls3
  <2> QED
    BY <2>3 DEF Rests
<1> QED
  BY <1>1, <1>2

LEMMA StepOthers ==
  ASSUME Shape, Others, NEW c \in Compilers, Step(c)
  PROVE  Others'
<1>1. target' = target /\ source' = source
  BY StepWrites
<1>2. disturbed' \subseteq Compilers
  <2>1. disturbed' = disturbed \/ \E path, content : Write(c, path, content)
    BY DEF Step, Begin, Open, Close, Fork, ForkFails, ChildReads, ChildSucceeds, ChildFails, Run
  <2> QED
    BY <2>1 DEF Others, Write
<1>3. mishap' = mishap \/ mishap' = mishap \cup {c}
  BY DEF Step, Begin, Open, Close, Fork, ForkFails, ChildReads, ChildSucceeds, ChildFails, Run
<1>4. \/ stages' = stages
      \/ stages' = [stages EXCEPT ![c] = Stages(target[c])]
      \/ stages' = [stages EXCEPT ![c] = Tail(@)] /\ stages[c] \in Left(target[c])
  <2>1. pc[c] \in Calling => stages[c] \in Left(target[c])
    BY DEF Shape, StagesOK
  <2> QED
    BY <2>1 DEF Step, Begin, Open, Close, Fork, ForkFails, ChildReads, ChildSucceeds, ChildFails,
                Run, Advance, Calls, Calling
<1>5. Stages(target[c]) \in Rests(target[c])
  BY DEF Shape, Types, Targets, Stages, Rests, Left
<1>6. stages[c] \in Left(target[c]) => Tail(stages[c]) \in Rests(target[c])
  BY RestAdvanced
<1>7. \A d \in Compilers : stages'[d] \in Rests(target[d])
  BY <1>4, <1>5, <1>6 DEF Others, Shape, Types
<1> QED
  BY <1>1, <1>2, <1>3, <1>7 DEF Others

\* Types, and that the calls a compiler has before it are the last of those its target
\* asks for: no stage is left out or made twice.
THEOREM TypeCorrect == Spec => []TypeOK
<1>1. Init => Others
  BY DEF Init, Others, Rests
<1>2. IInv /\ Others /\ [Next]_vars => Others'
  <2>1. CASE UNCHANGED vars
    BY <2>1 DEF vars, Others
  <2>2. CASE Terminated
    BY <2>1, <2>2 DEF Terminated
  <2> QED
    BY <2>1, <2>2, StepOthers DEF Next, IInv
<1>3. IInv /\ Others => TypeOK
  <2> SUFFICES ASSUME IInv, Others PROVE TypeOK
    OBVIOUS
  <2>1. Types /\ StagesOK
    BY DEF IInv, Shape
  <2>2. \A c \in Compilers : pc[c] \in {"call", "child", "read"} => stages[c] # <<>>
    BY <2>1, NeededPath DEF StagesOK, Calling
  <2>3. \A c \in Compilers : IsSuffix(stages[c], Stages(target[c]))
    BY <2>1, RestIsSuffix DEF Others, Types
  <2> QED
    BY <2>1, <2>2, <2>3 DEF Others, Types, Contents, TypeOK
<1> QED
  BY Invariance, <1>1, <1>2, <1>3, PTL DEF Spec
=============================================================================
