-------------------------------- MODULE Tree --------------------------------
(***************************************************************************)
(* The tree between the stages: its nodes (seronc/parser.h), the walk that *)
(* expand.c and symboltable.c hang their callbacks on                      *)
(* (parser_traverse_ast() and parser_dispatch_ast() of parser.c), and the  *)
(* expansion of for and index (expand.c), which rewrites the nodes while   *)
(* the walk stands on them.                                                *)
(*                                                                         *)
(* A node's address is its index in `tree`.  `todo` is the C stack of the  *)
(* walk: the nodes that the activations of parser_traverse_ast() will      *)
(* still enter, or leave (`post`), the next one first.                     *)
(***************************************************************************)
EXTENDS SeronTypes, SequencesExt

VARIABLES
  tree,      \* the nodes
  root,      \* the node parse() has returned
  todo       \* what is left of the walk: [node, post]

tree_vars == <<tree, root, todo>>

\* kids are the children in the order of the struct, FOR's being var_expr, condition,
\* assign and body, ASSIGN's value and target, CALL's the callee and the arguments;
\* offset is the place below rbp, of a procedure its stack_size; params the places of
\* its parameters
Node(kind, op, name, num, type, kids) ==
  [kind |-> kind, op |-> op, name |-> name, num |-> num, type |-> type, kids |-> kids,
   scope |-> 0, offset |-> 0, params |-> <<>>]

NoType == Type("VOID")

\* the children parser_traverse_ast() visits: of an assignment only the value.  A FOR
\* never gets here, since for_pre() has made a block of it.
Children(t, n) == IF t[n].kind = "ASSIGN" THEN SubSeq(t[n].kids, 1, 1) ELSE t[n].kids

Entering(n) == [node |-> n, post |-> FALSE]
Leaving(n)  == [node |-> n, post |-> TRUE]

\* the children of n, as the callback before n has left them, then the callback behind
Below(t, n) == [i \in DOMAIN Children(t, n) |-> Entering(Children(t, n)[i])] \o <<Leaving(n)>>

-----------------------------------------------------------------------------
(* expand.c                                                                *)

\* variant: the step is lost
WithoutStep(body, step) == body

WithStep(body, step) == [body EXCEPT !.kids = Append(@, step)]

\* for_pre(): a block of the variable and a while loop, whose body ends with the step
ForPre(n) ==
  LET for     == tree[n]
      body    == for.kids[4]
      vardecl == Len(tree) + 1
      while   == Len(tree) + 2
  IN [tree EXCEPT ![n] = Node("BLOCK", "", "", 0, NoType, <<vardecl, while>>),
                  ![body] = WithStep(@, for.kids[3])]
     \o <<Node("VARDECL", "", for.name, 0, for.type, <<for.kids[1]>>),
          Node("WHILE", "", "", 0, NoType, <<for.kids[2], body>>)>>

\* variant: the operand is a node that was never allocated
IndexPreUnset(n) ==
  [tree EXCEPT ![n] = Node("UNARYOP", "DEREF", "", 0, NoType, <<Len(tree) + 2>>)]
  \o <<Node("BINOP", "ADD", "", 0, NoType, tree[n].kids)>>

\* index_pre()
IndexPre(n) ==
  [tree EXCEPT ![n] = Node("UNARYOP", "DEREF", "", 0, NoType, <<Len(tree) + 1>>)]
  \o <<Node("BINOP", "ADD", "", 0, NoType, tree[n].kids)>>

\* the callback of expand_ast()'s table for a node, if there is one
ExpandPre(n) ==
  CASE tree[n].kind = "FOR"   -> ForPre(n)
    [] tree[n].kind = "INDEX" -> IndexPre(n)
    [] OTHER                  -> tree

\* variant: the walk does not go below a node that the callback has replaced
ExpandStepPast ==
  LET n == Head(todo).node IN
  /\ todo # <<>>
  /\ \/ /\ Head(todo).post
        /\ todo' = Tail(todo)
        /\ UNCHANGED tree
     \/ /\ ~Head(todo).post
        /\ tree' = ExpandPre(n)
        /\ todo' = (IF tree' = tree THEN Below(tree', n) ELSE <<Leaving(n)>>) \o Tail(todo)
  /\ UNCHANGED root

\* one callback of expand_ast()
ExpandStep ==
  LET n == Head(todo).node IN
  /\ todo # <<>>
  /\ \/ /\ Head(todo).post
        /\ todo' = Tail(todo)
        /\ UNCHANGED tree
     \/ /\ ~Head(todo).post
        /\ tree' = ExpandPre(n)
        /\ todo' = Below(tree', n) \o Tail(todo)
  /\ UNCHANGED root

-----------------------------------------------------------------------------
(* What an expanded tree looks like                                        *)

\* the nodes reached from those in s, next[n] being the nodes right below n
ReachedFrom(s, next) ==
  LET grow[k \in 0..Len(tree)] ==
        IF k = 0 THEN s ELSE LET r == grow[k - 1] IN r \cup UNION {next[n] : n \in r}
  IN grow[Len(tree)]

\* every node below the root
AllNodes == ReachedFrom({root}, [n \in DOMAIN tree |-> ToSet(tree[n].kids)])

\* the nodes below the targets of assignments
Targets ==
  ReachedFrom({tree[n].kids[2] : n \in {m \in AllNodes : tree[m].kind = "ASSIGN"}},
              [n \in DOMAIN tree |-> ToSet(tree[n].kids)])
=============================================================================
