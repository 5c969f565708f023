------------------------ MODULE SymbolTableScoping ------------------------
(***************************************************************************)
(* SymbolTable implements Scoping: the queue of every level, polled in     *)
(* order, names the same scopes the tree has.                              *)
(***************************************************************************)
EXTENDS SymbolTable

Indents == {p \in 1 .. Len(log) : log[p].op = "indent"}
Adds    == {p \in 1 .. Len(log) : log[p].op = "add"}

\* Where in the queues the scope opened by call p is: the table as it was just
\* after the call, or initially for the global scope, tells its level and scope.
LevelOf(p) == snap[p + 1].level
ScopeOf(p) == snap[p + 1].levels[LevelOf(p)].scope

\* The scope that is open at a level.
FrameAt(l) == CHOOSE p \in {0} \cup Indents :
                  LevelOf(p) = l /\ ScopeOf(p) = symbols.levels[l].scope

pathBar == [i \in 1 .. symbols.level + 1 |-> FrameAt(i - 1)]

\* The item that call p added is the one that was allocated next at that call.
framesBar ==
    [f \in {0} \cup Indents |->
        {p \in Adds : \E item \in symbols.levels[LevelOf(f)].scopes[ScopeOf(f)] :
                          item.id = snap[p].count}]

Tree == INSTANCE Scoping WITH path <- pathBar, frames <- framesBar

\* Every behaviour of the queues is a walk over the tree.
ImplementsTree == Tree!Spec
=============================================================================
