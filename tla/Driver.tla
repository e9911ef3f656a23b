------------------------------- MODULE Driver -------------------------------
(***************************************************************************)
(* seronc/main.c: what becomes of the files when compilers run, one after  *)
(* another or side by side.  A compiler writes its assembly, has nasm and  *)
(* cc turn it into an object and a program, and may run the program.  The  *)
(* intermediate files lie under TEMP_DIR and are named after the base name *)
(* of the source alone.                                                    *)
(*                                                                         *)
(* The name of a file is the sequence of its parts, cut before every dot:  *)
(* "x.s" is <<"x", ".s">>, as the assembly of x.sn and as the program of   *)
(* x.s.sn.                                                                 *)
(*                                                                         *)
(* The file system, fork(), nasm and cc are external: a child process      *)
(* reads its input, then writes its output or fails.                       *)
(***************************************************************************)
EXTENDS Sequences, FiniteSets, SequencesExt

CONSTANTS
  Compilers,   \* compilers that run at some time
  Dirs,        \* directories of source files
  Bases,       \* base names of source files, without ".sn"
  Sources,     \* the sources the compilers may be given, functions to [dir, base]
  TEMP_DIR

\* compilers are told from the marks of contents that are nobody's
ASSUME CompilersAssumption == Compilers \cap {"earlier", "mixed", "none"} = {}
ASSUME BasesAssumption == Bases \subseteq Seq(STRING)
ASSUME TempDirAssumption == TEMP_DIR \notin Dirs
ASSUME SourcesAssumption == Sources \subseteq [Compilers -> [dir : Dirs, base : Bases]]

Targets == {"BINARY", "ASSEMBLY", "OBJECT", "RUN"}

VARIABLES
  target,     \* CompilerOptions.target of every compiler
  source,     \* compiler_ctx.filename of every compiler: [dir, base]
  files,      \* what every file holds
  pc,         \* where a compiler stands
  stages,     \* the calls in dispatch() a compiler has before it
  held,       \* what the child of a compiler has read
  mishap,     \* history: the compilers that missed the failure of one of their calls
  disturbed,  \* history: the compilers whose files another one wrote while they ran
  product     \* what a compiler that succeeded has made or run

vars == <<target, source, files, pc, stages, held, mishap, disturbed, product>>

\* Contents: whose source it came from in the end, and whether all of it is there.
\* "earlier" is a compiler of an earlier day, "mixed" several at once.
Content == [of : Compilers \cup {"earlier", "mixed"}, whole : BOOLEAN]
NoFile  == [of |-> "none", whole |-> FALSE]
Whole(c)    == [of |-> c, whole |-> TRUE]
Begun(c)    == [of |-> c, whole |-> FALSE]

Running == {"begin", "write", "call", "child", "read"}
Ended   == {"success", "failure"}

-----------------------------------------------------------------------------
(* dispatch()                                                              *)

\* strcat() of the base name and an ending
Name(base, ext) == base \o ext

Rel(c, ext) == <<source[c].dir, Name(source[c].base, ext)>>

\* variant: every compiler uses the same intermediate files
TmpShared(c, ext) == <<TEMP_DIR, Name(CHOOSE b \in Bases : TRUE, ext)>>

Tmp(c, ext) == <<TEMP_DIR, Name(source[c].base, ext)>>

Asm(c) == IF target[c] = "ASSEMBLY" THEN Rel(c, <<".s">>) ELSE Tmp(c, <<".s">>)
Obj(c) == IF target[c] = "OBJECT" THEN Rel(c, <<".o">>) ELSE Tmp(c, <<".o">>)
Bin(c) == IF target[c] = "BINARY" THEN Rel(c, <<>>) ELSE Tmp(c, <<>>)

\* the calls that follow codegen()
Stages(t) ==
  CASE t = "ASSEMBLY" -> <<>>
    [] t = "OBJECT"   -> <<"assemble">>
    [] t = "BINARY"   -> <<"assemble", "link_cc">>
    [] t = "RUN"      -> <<"assemble", "link_cc", "run">>

\* the file a call reads, and the one it writes
Input(c)  == IF Head(stages[c]) = "assemble" THEN Asm(c) ELSE Obj(c)
Output(c) == IF Head(stages[c]) = "assemble" THEN Obj(c) ELSE Bin(c)

Paths(c) ==
  {Asm(c)} \cup
  (IF "assemble" \in ToSet(Stages(target[c])) THEN {Obj(c)} ELSE {}) \cup
  (IF "link_cc" \in ToSet(Stages(target[c])) THEN {Bin(c)} ELSE {})

Result(c) ==
  CASE target[c] = "ASSEMBLY" -> Asm(c)
    [] target[c] = "OBJECT"   -> Obj(c)
    [] OTHER                  -> Bin(c)

Write(c, path, content) ==
  /\ files' = [files EXCEPT ![path] = content]
  /\ disturbed' = disturbed \cup {d \in Compilers \ {c} : pc[d] \in Running /\ path \in Paths(d)}

Goto(c, place) == pc' = [pc EXCEPT ![c] = place]

Fail(c) == Goto(c, "failure")

\* variant: the child's exit status is not looked at
AfterStatusUnread(c, failed) == IF Len(stages[c]) = 1 THEN "success" ELSE "call"

\* variant: the last call is not told from the others
AfterStatusUncounted(c, failed) == IF failed THEN "failure" ELSE "call"

\* what a nonzero result of run_cmd_sync() does to the compiler, and a zero one
AfterStatus(c, failed) ==
  IF failed THEN "failure" ELSE IF Len(stages[c]) = 1 THEN "success" ELSE "call"

\* variant: a call that failed is made again
AdvanceRetries(c, failed) ==
  /\ Goto(c, IF failed THEN "call" ELSE AfterStatus(c, failed))
  /\ stages' = IF failed THEN stages ELSE [stages EXCEPT ![c] = Tail(@)]
  /\ product' = IF pc'[c] = "success"
                THEN [product EXCEPT ![c] = files'[Result(c)]] ELSE product

\* the compiler moves on to the next call, or is through
Advance(c, failed) ==
  /\ Goto(c, AfterStatus(c, failed))
  /\ stages' = [stages EXCEPT ![c] = Tail(@)]
  /\ product' = IF AfterStatus(c, failed) = "success"
                THEN [product EXCEPT ![c] = files'[Result(c)]] ELSE product

-----------------------------------------------------------------------------
Extensions == {<<>>, <<".s">>, <<".o">>}

AllPaths ==
  (Dirs \cup {TEMP_DIR}) \X UNION {{Name(b, ext) : ext \in Extensions} : b \in Bases}

Init ==
  /\ target \in [Compilers -> Targets]
  /\ source \in Sources
  /\ \E old \in {NoFile, [of |-> "earlier", whole |-> TRUE]} : files = [p \in AllPaths |-> old]
  /\ pc = [c \in Compilers |-> "idle"]
  /\ stages = [c \in Compilers |-> <<>>]
  /\ held = [c \in Compilers |-> NoFile]
  /\ mishap = {}
  /\ disturbed = {}
  /\ product = [c \in Compilers |-> NoFile]

\* main() up to dispatch(): an error in the source ends the compiler
Begin(c) ==
  /\ pc[c] = "idle"
  /\ \/ Goto(c, "begin")
     \/ Fail(c)
  /\ stages' = [stages EXCEPT ![c] = Stages(target[c])]
  /\ UNCHANGED <<target, source, files, held, mishap, disturbed, product>>

\* fopen() in gen_write_to_file(): it empties the file, or fails and is noticed
Open(c) ==
  /\ pc[c] = "begin"
  /\ \/ Write(c, Asm(c), Begun(c)) /\ Goto(c, "write")
     \/ Fail(c) /\ UNCHANGED <<files, disturbed>>
  /\ UNCHANGED <<target, source, stages, held, mishap, product>>

\* variant: the file is not closed before the next stage
WrittenUnflushed(c, now) == {now}

\* what stands in the file when fclose() has written the buffers out from its
\* beginning: if another compiler has written there in between, a rest of that may
\* stand behind it
Written(c, now) ==
  {Whole(c)} \cup (IF now = Begun(c) THEN {} ELSE {[of |-> "mixed", whole |-> FALSE]})

\* fprintf() and fclose(), whose results are not looked at
Close(c) ==
  /\ pc[c] = "write"
  /\ \/ /\ \E content \in Written(c, files[Asm(c)]) : Write(c, Asm(c), content)
        /\ UNCHANGED mishap
     \/ /\ Write(c, Asm(c), files[Asm(c)])
        /\ mishap' = mishap \cup {c}
  /\ \/ /\ stages[c] = <<>>
        /\ Goto(c, "success")
        /\ product' = [product EXCEPT ![c] = files'[Result(c)]]
     \/ /\ stages[c] # <<>>
        /\ Goto(c, "call")
        /\ UNCHANGED product
  /\ UNCHANGED <<target, source, stages, held>>

Calls(c, names) == pc[c] = "call" /\ Head(stages[c]) \in names

\* fork() in run_cmd_sync()
Fork(c) ==
  /\ Calls(c, {"assemble", "link_cc"})
  /\ Goto(c, "child")
  /\ UNCHANGED <<target, source, files, stages, held, mishap, disturbed, product>>

\* fork() fails: wait() finds no child and leaves status uninitialised
ForkFails(c) ==
  /\ Calls(c, {"assemble", "link_cc"})
  /\ UNCHANGED <<target, source, files, held, disturbed>>
  /\ \E failed \in BOOLEAN :
       /\ Advance(c, failed)
       /\ mishap' = IF failed THEN mishap ELSE mishap \cup {c}

\* the child reads its input
ChildReads(c) ==
  /\ pc[c] = "child"
  /\ Goto(c, "read")
  /\ held' = [held EXCEPT ![c] = files[Input(c)]]
  /\ UNCHANGED <<target, source, files, stages, mishap, disturbed, product>>

\* the child writes its output and exits with 0, and wait() returns
ChildSucceeds(c) ==
  /\ pc[c] = "read"
  /\ held[c] # NoFile
  /\ Write(c, Output(c), held[c])
  /\ held' = [held EXCEPT ![c] = NoFile]
  /\ Advance(c, FALSE)
  /\ UNCHANGED <<target, source, mishap>>

\* the child is not found, refuses its input or is killed; its output is left as it
\* was or removed
ChildFails(c) ==
  /\ pc[c] \in {"child", "read"}
  /\ \/ Write(c, Output(c), NoFile)
     \/ UNCHANGED <<files, disturbed>>
  /\ held' = [held EXCEPT ![c] = NoFile]
  /\ Advance(c, TRUE)
  /\ UNCHANGED <<target, source, mishap>>

\* run(): the compiler becomes the program, if there is one that can be executed
Run(c) ==
  /\ Calls(c, {"run"})
  /\ UNCHANGED <<target, source, files, held, mishap, disturbed>>
  /\ \/ /\ files[Bin(c)] # NoFile
        /\ Advance(c, FALSE)
     \/ /\ Fail(c)
        /\ UNCHANGED <<stages, product>>

Terminated ==
  /\ \A c \in Compilers : pc[c] \in Ended
  /\ UNCHANGED vars

Step(c) ==
  \/ Begin(c) \/ Open(c) \/ Close(c)
  \/ Fork(c) \/ ForkFails(c) \/ ChildReads(c) \/ ChildSucceeds(c) \/ ChildFails(c)
  \/ Run(c)

Next == (\E c \in Compilers : Step(c)) \/ Terminated

\* a process that can go on does
Fairness == \A c \in Compilers : WF_vars(Step(c))

Spec == Init /\ [][Next]_vars /\ Fairness

-----------------------------------------------------------------------------
(* Properties                                                              *)

TypeOK ==
  /\ target \in [Compilers -> Targets]
  /\ source \in Sources
  /\ files \in [AllPaths -> Content \cup {NoFile}]
  /\ pc \in [Compilers -> {"idle"} \cup Running \cup Ended]
  /\ \A c \in Compilers : pc[c] \in {"call", "child", "read"} => stages[c] # <<>>
  /\ \A c \in Compilers : IsSuffix(stages[c], Stages(target[c]))
  /\ held \in [Compilers -> Content \cup {NoFile}]
  /\ mishap \subseteq Compilers /\ disturbed \subseteq Compilers
  /\ product \in [Compilers -> Content \cup {NoFile}]

\* A compiler that reports success has made, or run, what its own source says and
\* all of it, unless a call of its own failed unseen or another compiler wrote one of
\* its files while it ran.
OwnProduct ==
  \A c \in Compilers :
    pc[c] = "success" /\ c \notin mishap /\ c \notin disturbed => product[c] = Whole(c)

\* What an earlier compiler has left is never taken for new, whatever other compilers
\* do and whichever stages fail, unless a failure was missed.
NothingStale ==
  mishap = {} => \A c \in Compilers : pc[c] = "success" => product[c].of # "earlier"

\* Both work on sources of one name, and both by way of TEMP_DIR or both beside them.
SameName(c, d) ==
  /\ source[c].base = source[d].base
  /\ \/ target[c] # "ASSEMBLY" /\ target[d] # "ASSEMBLY"
     \/ target[c] = "ASSEMBLY" /\ target[d] = "ASSEMBLY" /\ source[c].dir = source[d].dir

\* The program of c has the name of the assembly or the object of d, and lies in the
\* directory d has that in: x.s.sn, and x.sn.
ProgramNamed(c, d, ext, last) ==
  /\ source[c].base = Name(source[d].base, ext)
  /\ \/ target[c] = "RUN" /\ target[d] \notin {"ASSEMBLY", last}
     \/ target[c] = "BINARY" /\ target[d] = last /\ source[c].dir = source[d].dir

ProgramOver(c, d) ==
  ProgramNamed(c, d, <<".s">>, "ASSEMBLY") \/ ProgramNamed(c, d, <<".o">>, "OBJECT")

\* Compilers disturb one another only if their sources have one name, wherever they
\* lie, or the program of one is called like an intermediate file of the other.
DisturbedByNamesake ==
  \A c \in disturbed : \E d \in Compilers \ {c} :
    SameName(c, d) \/ ProgramOver(c, d) \/ ProgramOver(d, c)

\* Every compiler comes to an end: it never waits for a child that is not there.
Termination == \A c \in Compilers : <>(pc[c] \in Ended)
=============================================================================
