-------------------------------- MODULE Tree --------------------------------
(***************************************************************************)
(* The list nodes of the syntax tree: node_new, node_add_child and         *)
(* node_delete of src/src/node.c, ast_nterm of src/src/ast.c, and the      *)
(* actions of the six right-recursive list rules of src/src/sysy.y.        *)
(*                                                                         *)
(* A right-recursive rule reduces when all the items are on the parser's   *)
(* stack, from the last one to the first, so the list holds them in        *)
(* reverse, and grows, and may move, as the parser works back through the  *)
(* source; the passes read the children from the last to the first.        *)
(*                                                                         *)
(* An item and the nodes below it are one node, "item" its place in the    *)
(* source.  The CompUnit above the list stands for all the nodes there.    *)
(***************************************************************************)
EXTENDS Integers, Sequences, SequencesExt, FiniteSets

CONSTANT MaxItems     \* bound on the items of the list

ASSUME TreeAssumption == MaxItems \in Nat

VARIABLES stage,     \* where the compiler is
          heap,      \* the nodes that are allocated, by address
          allocs,    \* addresses given out so far
          stack,     \* the items on the parser's stack, which are reduced already
          list,      \* the list under construction, Null before there is one
          comp_unit  \* the root, Null before there is one

tree == <<stage, heap, allocs, stack, list, comp_unit>>

Null == 0

TreeInit == /\ stage = "read"
            /\ heap = [p \in {} |-> Null]
            /\ allocs = 0
            /\ stack = <<>>
            /\ list = Null /\ comp_unit = Null

node_new(item, capacity) == [item |-> item, capacity |-> capacity, children |-> <<>>]

\* slip: room for one more is found where there is none
Grown_Late(node) ==
    IF Len(node.children) > node.capacity + 1
    THEN [node EXCEPT !.capacity = 2 * Len(node.children)] ELSE node

\* The array is reallocated with twice the size when the new child is one too many.
Grown(node) ==
    IF Len(node.children) > node.capacity
    THEN [node EXCEPT !.capacity = 2 * Len(node.children)] ELSE node

Appended(node, child) == Grown([node EXCEPT !.children = Append(@, child)])

\* ast_nterm(kind, 1, child)
ast_nterm(child) == Appended(node_new(0, 1), child)

Fresh == allocs + 1

\* malloc
New(node) == /\ heap' = [p \in DOMAIN heap \cup {Fresh} |->
                            IF p = Fresh THEN node ELSE heap[p]]
             /\ allocs' = Fresh

\* realloc leaves the node where it is, or moves it and frees the old one.
Moves(root, node) == IF node.capacity = heap[root].capacity THEN {root}
                                                            ELSE {root, Fresh}

Replace(root, to, node) ==
    /\ heap' = [p \in (DOMAIN heap \ {root}) \cup {to} |->
                   IF p = to THEN node ELSE heap[p]]
    /\ allocs' = IF to = root THEN allocs ELSE Fresh
-----------------------------------------------------------------------------
\* The parser reduces one more item.
Item == /\ stage = "read" /\ list = Null
        /\ Len(stack) < MaxItems
        /\ New(node_new(Len(stack) + 1, 0))
        /\ stack' = Append(stack, Fresh)
        /\ UNCHANGED <<stage, list, comp_unit>>

\* The rule with one item, at the end of the list.
LastItem == /\ stage = "read" /\ list = Null /\ stack # <<>>
            /\ New(ast_nterm(Last(stack)))
            /\ stack' = Front(stack)
            /\ list' = Fresh
            /\ UNCHANGED <<stage, comp_unit>>

\* slip: the value of the rule is the list it was given, not the one it got back
Root_Given(root, to) == root

Root(root, to) == to

\* The rule with an item and a list: $$ = node_add_child($3, $1).
MoreItems == /\ stage = "read" /\ list # Null /\ stack # <<>>
             /\ LET node == Appended(heap[list], Last(stack))
                IN  \E to \in Moves(list, node) : /\ Replace(list, to, node)
                                                  /\ list' = Root(list, to)
             /\ stack' = Front(stack)
             /\ UNCHANGED <<stage, comp_unit>>

CompUnit == /\ stage = "read" /\ list # Null /\ stack = <<>>
            /\ New(ast_nterm(list))
            /\ comp_unit' = Fresh
            /\ stage' = "visit"
            /\ UNCHANGED <<stack, list>>

\* A syntax error: main returns, and nothing frees what the stack holds.
SyntaxError == /\ stage = "read"
               /\ stage' = "error"
               /\ UNCHANGED <<heap, allocs, stack, list, comp_unit>>

\* slip: the children are not freed with their node
Below_Itself(p) == {p}

\* The nodes node_delete reaches from p.
Below(p) ==
    LET below[q \in DOMAIN heap] ==
            {q} \cup UNION {below[c] : c \in Range(heap[q].children) \cap DOMAIN heap}
    IN  below[p]

node_delete == /\ stage \in {"done", "rejected"}
               /\ heap' = [p \in DOMAIN heap \ Below(comp_unit) |-> heap[p]]
               /\ stage' = "end"
               /\ UNCHANGED <<allocs, stack, list, comp_unit>>

Parse == Item \/ LastItem \/ MoreItems \/ CompUnit \/ SyntaxError
-----------------------------------------------------------------------------
\* No pointer of the parser or of a node dangles, no node has two parents, no array
\* holds more than it has room for, and main frees every node of a program without
\* syntax errors.
Held == Range(stack) \cup ({list, comp_unit} \ {Null})

TreeSound ==
    IF stage = "end" THEN heap = [p \in {} |-> Null]
    ELSE /\ Held \subseteq DOMAIN heap
         /\ \A p \in DOMAIN heap :
               LET children == heap[p].children
               IN  /\ Range(children) \subseteq DOMAIN heap \ Range(stack)
                   /\ IsInjective(children)
                   /\ Len(children) <= heap[p].capacity
                   /\ \A q \in DOMAIN heap \ {p} :
                         Range(children) \cap Range(heap[q].children) = {}
=============================================================================
