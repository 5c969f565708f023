------------------------------ MODULE Symbols ------------------------------
(***************************************************************************)
(* The symbol table of src/src/symbols.c, as values and operators on them. *)
(*                                                                         *)
(* The table serves two traversals of one syntax tree.  The semantic pass  *)
(* opens every scope with symbols_indent and closes it with symbols_leave; *)
(* the IR pass reopens it with symbols_enter and destroys it with          *)
(* symbols_dedent.  A scope is not stored in the tree: each nesting level  *)
(* keeps a queue of the scopes opened at it, and the second traversal      *)
(* finds a scope again only because it polls every queue in order.         *)
(*                                                                         *)
(* One struct of the C code is one record here and one function one        *)
(* operator, under the same name.  What is abstracted:                     *)
(*   - an item of the hash table is a record with a unique "id" (its       *)
(*     address); ids grow in allocation order, so "the first item of the   *)
(*     bucket chain" (htable_strsym_insert prepends) is "the greatest id"; *)
(*   - the chain of items a scope links (struct pair_t) is the set of      *)
(*     those items, NULL being the empty set;                              *)
(*   - the payload of a symbol is its tag.                                 *)
(***************************************************************************)
EXTENDS Integers

CONSTANTS Name,   \* identifiers of the compiled program
          NoSym   \* the null struct symbol_t * a failed lookup returns

Tag == {"CONSTANT", "VARIABLE", "FUNCTION"}

Item == [id : Nat, key : Name, level : Nat, scope : Nat, tag : Tag]

ASSUME NoSymAssumption == NoSym \notin Item

\* struct level_t: a queue of scopes.  "mem" is "freed" once the level has been
\* freed by level_delete; the pointer to it stays in the vector of levels.
level_new == [begin |-> 0, end |-> 0, scope |-> -1,
              scopes |-> [k \in {} |-> {}], mem |-> "held"]

level_empty(v) == v.begin = v.end

level_offer(v, link) ==
    LET scopes == [k \in 0 .. v.end |-> IF k = v.end THEN link ELSE v.scopes[k]]
    IN  [begin |-> v.begin, end |-> v.end + 1, scope |-> v.end,
         scopes |-> scopes, mem |-> v.mem]

\* What level_poll returns, and the level it leaves behind.
PolledLink(v) == IF level_empty(v) THEN {} ELSE v.scopes[v.begin]

\* slip: a stack instead of a queue
level_poll_Last(v) == [v EXCEPT !.end = @ - 1]

level_poll(v) == IF level_empty(v) THEN v ELSE [v EXCEPT !.begin = @ + 1]

level_delete(v) == [begin |-> v.begin, end |-> v.end, scope |-> v.scope,
                    scopes |-> v.scopes, mem |-> "freed"]

level_at(v) == v.scopes[v.scope]

\* The three updates of a level that are written out in the functions below: an
\* item is linked to the current scope, the next scope becomes the current one,
\* the oldest scope is polled and the level freed with its last one.
level_link(v, item) ==
    LET scopes == [v.scopes EXCEPT ![v.scope] = @ \cup {item}]
    IN  [begin |-> v.begin, end |-> v.end, scope |-> v.scope,
         scopes |-> scopes, mem |-> v.mem]

\* slips: the wrap to the first scope is forgotten; the scope is not advanced
level_next_NoWrap(v) == [v EXCEPT !.scope = @ + 1]
level_next_Stay(v) == v

level_next(v) == [v EXCEPT !.scope = (@ + 1) % v.end]

\* slip: the level is not freed with its last scope
level_drop_Kept(v) == level_poll(v)

level_drop(v) == LET polled == level_poll(v)
                 IN  IF level_empty(polled) THEN level_delete(polled) ELSE polled
-----------------------------------------------------------------------------
\* struct _symbols_t.  "count" is the number of items allocated so far.
symbols_indent(s) ==
    LET l == s.level + 1
        grown == [k \in 0 .. (IF l = s.depth THEN l ELSE s.depth - 1) |->
                     IF k = s.depth THEN level_new ELSE s.levels[k]]
        levels == [grown EXCEPT ![l] = level_offer(@, {})]
    IN  [table |-> s.table, levels |-> levels, level |-> l, count |-> s.count,
         depth |-> IF l = s.depth THEN l + 1 ELSE s.depth]

symbols_new ==
    symbols_indent([table |-> {}, levels |-> [k \in {} |-> level_new],
                    depth |-> 0, level |-> -1, count |-> 0])

symbols_level(s) == s.level
symbols_scope(s) == s.levels[s.level].scope

\* slip: the stamp is the scope at the head of the queue
NewItem_Begin(s, key, tag) ==
    [id |-> s.count, key |-> key, level |-> symbols_level(s),
     scope |-> s.levels[s.level].begin, tag |-> tag]

\* The item symbols_add allocates: the constructors symbol_constant,
\* symbol_variable and symbol_function stamp it with the current level and scope.
NewItem(s, key, tag) ==
    [id |-> s.count, key |-> key, level |-> symbols_level(s),
     scope |-> symbols_scope(s), tag |-> tag]

symbols_add(s, key, tag) ==
    LET new == NewItem(s, key, tag)
        levels == [s.levels EXCEPT ![s.level] = level_link(@, new)]
    IN  [table |-> s.table \cup {new}, levels |-> levels, depth |-> s.depth,
         level |-> s.level, count |-> s.count + 1]

symbols_here(s, item) ==
    /\ s.level = item.level
    /\ s.levels[s.level].scope = item.scope

\* slip: any scope of the level will do
symbols_saw_Level(s, item) == s.level >= item.level

symbols_saw(s, item) ==
    /\ s.level >= item.level
    /\ s.levels[item.level].scope = item.scope

symbols_lookup(s, key) == {item \in s.table : item.key = key}

Seen(s, key) == {item \in symbols_lookup(s, key) : symbols_saw(s, item)}

Newest(items) == CHOOSE item \in items : \A other \in items : other.id <= item.id

symbols_get(s, key) == IF Seen(s, key) = {} THEN NoSym ELSE Newest(Seen(s, key))
-----------------------------------------------------------------------------
\* The last level a run of pops reaches from "level": pops go on while the level
\* is above 0 and the scope just popped links some item.  A scope that links
\* nothing is the one a block (or a function without parameters) opened; those
\* above it are the declarations inside that block.
LastPopped(level, links) ==
    CHOOSE p \in 0 .. level :
        /\ p > 1 => links[p] = {}
        /\ \A q \in p + 1 .. level : q > 1 /\ links[q] # {}

LeaveStop(s) == LastPopped(s.level, [l \in 0 .. s.level |-> level_at(s.levels[l])])

\* slips: the declarations of the block are not left with it; one scope too many is
symbols_leave_OneLevel(s) == [s EXCEPT !.level = @ - 1]
symbols_leave_TooFar(s) == [s EXCEPT !.level = LeaveStop(s) - 2]

symbols_leave(s) == [s EXCEPT !.level = LeaveStop(s) - 1]

\* Entering has a defined result: the next level exists, and is not freed.
CanEnter(s) == /\ s.level + 1 < s.depth
               /\ s.levels[s.level + 1].mem = "held"

symbols_enter(s) ==
    LET l == s.level + 1
        levels == [s.levels EXCEPT ![l] = level_next(@)]
    IN  [table |-> s.table, levels |-> levels, depth |-> s.depth,
         level |-> l, count |-> s.count]

DedentStop(s) == LastPopped(s.level, [l \in 0 .. s.level |-> PolledLink(s.levels[l])])

\* There is a level to pop, and for every level the call pops the assertion of
\* symbols_dedent holds.
DedentAsserts(s) == /\ s.level >= 0
                    /\ \A l \in DedentStop(s) .. s.level :
                          /\ s.levels[l].mem = "held"
                          /\ s.levels[l].scope = s.levels[l].begin

\* The symbols a dedent unlinks from the table and frees.
\* slip: only those of the innermost scope
Unlinked_Innermost(s) == PolledLink(s.levels[s.level])

Unlinked(s) == UNION {PolledLink(s.levels[l]) : l \in DedentStop(s) .. s.level}

symbols_dedent(s) ==
    LET stop == DedentStop(s)
        levels == [l \in 0 .. s.depth - 1 |->
                      IF l \in stop .. s.level THEN level_drop(s.levels[l])
                                               ELSE s.levels[l]]
    IN  [table |-> s.table \ Unlinked(s), levels |-> levels, depth |-> s.depth,
         level |-> stop - 1, count |-> s.count]
-----------------------------------------------------------------------------
\* A record of struct level_t, or of struct _symbols_t, is its fields.
IsLevel(v) == v = [begin |-> v.begin, end |-> v.end, scope |-> v.scope,
                   scopes |-> v.scopes, mem |-> v.mem]

IsSymbols(s) == s = [table |-> s.table, levels |-> s.levels, depth |-> s.depth,
                     level |-> s.level, count |-> s.count]

\* Their types.  Every level has had a scope, and its current scope is one of them.
LevelOK(v) == /\ IsLevel(v)
              /\ v.end \in Nat \ {0}
              /\ v.begin \in 0 .. v.end
              /\ v.scope \in 0 .. v.end - 1
              /\ v.scopes \in [0 .. v.end - 1 -> SUBSET Item]
              /\ v.mem \in {"held", "freed"}

SymbolsOK(s) == /\ IsSymbols(s)
                /\ s.table \in SUBSET Item
                /\ s.count \in Nat
                /\ s.depth \in Nat \ {0}
                /\ s.level \in -1 .. s.depth - 1
                /\ DOMAIN s.levels = 0 .. s.depth - 1
                /\ \A l \in 0 .. s.depth - 1 : LevelOK(s.levels[l])

\* The scopes that are open, from the global one to the current one.
Path(s) == [l \in 0 .. s.level |-> s.levels[l].scope]

\* What symbols_get can return.
Visible(s) == {item \in s.table : symbols_saw(s, item)}
=============================================================================
