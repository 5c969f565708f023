---------------------------- MODULE SymbolTable ----------------------------
(***************************************************************************)
(* The symbol table under the workflow its comment prescribes              *)
(* (src/src/symbols.c, lines 272-277):                                     *)
(*                                                                         *)
(*    indent() => leave() => enter() => leave() ... => enter() => dedent() *)
(*                                                                         *)
(* The two passes of the compiler walk the same tree in the same order, so *)
(* a client is a sequence of calls ("log") that the build traversal makes  *)
(* and the visit traversal repeats, enter() for indent() and dedent() for  *)
(* leave().  Nothing else is assumed of the client: it may add a symbol to *)
(* the current scope at any time.                                          *)
(***************************************************************************)
EXTENDS Symbols, Sequences

CONSTANTS MaxCalls,   \* bound on the indents and adds of the build traversal
          MaxScopes   \* scopes one level holds: 2^15 in the code (int16_t scope)

ASSUME BoundAssumption == MaxCalls \in Nat /\ MaxScopes \in Nat \ {0}

VARIABLES symbols,   \* the table, g_symbols
          mode,      \* "build", "visit" or "over"
          log,       \* the calls of the build traversal, in order
          pos,       \* the next call of the log the visit repeats
          snap       \* history: snap[p] is the table the build had before call p

vars == <<symbols, mode, log, pos, snap>>

Call == [op : {"indent", "leave"}] \cup [op : {"add"}, key : Name]

\* What one call of the build traversal makes of a table.
Apply(call, s) == CASE call.op = "indent" -> symbols_indent(s)
                    [] call.op = "leave"  -> symbols_leave(s)
                    [] call.op = "add"    -> symbols_add(s, call.key, "VARIABLE")

Init == /\ symbols = symbols_new
        /\ mode = "build"
        /\ log = <<>>
        /\ pos = 1
        /\ snap = <<symbols_new>>

Build(call) == /\ mode = "build"
               /\ symbols' = Apply(call, symbols)
               /\ log' = Append(log, call)
               /\ snap' = Append(snap, symbols')
               /\ UNCHANGED <<mode, pos>>

\* indent() opens a scope at a level that still counts its scopes in 16 bits.
RoomAbove(s) == s.level + 1 < s.depth => s.levels[s.level + 1].end < MaxScopes

Indent == /\ Len(log) < MaxCalls
          /\ RoomAbove(symbols)
          /\ Build([op |-> "indent"])

Add(key) == /\ Len(log) < MaxCalls
            /\ Build([op |-> "add", key |-> key])

Leave == symbols.level > 0 /\ Build([op |-> "leave"])

\* semantic() has returned, ir() starts: every scope but the global one is left.
Turn == /\ mode = "build"
        /\ symbols.level = 0
        /\ mode' = "visit"
        /\ UNCHANGED <<symbols, log, pos, snap>>

Visiting(op) == mode = "visit" /\ pos <= Len(log) /\ log[pos].op = op

Visit(op) == /\ Visiting(op)
             /\ pos' = pos + 1
             /\ UNCHANGED <<mode, log, snap>>

Enter == /\ Visit("indent")
         /\ CanEnter(symbols)
         /\ symbols' = symbols_enter(symbols)

\* slip: the visit does not go on to the next node
Recall_Again == Visiting("add") /\ UNCHANGED vars

\* The visit meets a definition again: it only looks the symbol up.
Recall == Visit("add") /\ UNCHANGED symbols

Dedent == /\ Visit("leave")
          /\ DedentAsserts(symbols)
          /\ symbols' = symbols_dedent(symbols)

\* symbols_delete: one more dedent, which destroys the global scope.
Delete == /\ mode = "visit"
          /\ pos = Len(log) + 1
          /\ DedentAsserts(symbols)
          /\ symbols' = symbols_dedent(symbols)
          /\ mode' = "over"
          /\ UNCHANGED <<log, pos, snap>>

Revisit == Enter \/ Recall \/ Dedent \/ Delete

\* The program has ended; anything else that cannot go on is a deadlock.
Over == mode = "over" /\ UNCHANGED vars

Next == \/ Indent
        \/ \E key \in Name : Add(key)
        \/ Leave
        \/ Turn
        \/ Revisit
        \/ Over

\* A traversal is one thread that runs to its end; how long the build goes on is
\* the input's choice, so only the visit is fair.
Fairness == WF_vars(Revisit)

Spec == Init /\ [][Next]_vars /\ Fairness
-----------------------------------------------------------------------------
\* No level has more scopes than its counter holds.
Fits(s) == \A l \in 0 .. s.depth - 1 : s.levels[l].end <= MaxScopes

\* Types: in particular every level has had a scope, and its current scope is
\* one of them, so level_at never reads outside the array.
TypeOK == /\ SymbolsOK(symbols) /\ Fits(symbols)
          /\ mode \in {"build", "visit", "over"}
          /\ log \in Seq(Call)
          /\ pos \in 1 .. Len(log) + 1
          /\ snap \in Seq({snap[p] : p \in 1 .. Len(log) + 1})
          /\ Len(snap) = Len(log) + 1
          /\ \A p \in 1 .. Len(snap) : SymbolsOK(snap[p]) /\ Fits(snap[p])

\* The symbols of the scopes of a level that have not been polled yet.
Linked(v) == UNION {v.scopes[k] : k \in v.begin .. v.end - 1}

\* The table and the queues describe the same symbols: the hash table holds
\* exactly the items of the scopes that are not destroyed yet, each stamped with
\* the level and scope that links it.  symbols_dedent relies on it when it walks
\* a bucket until it meets the item (lines 329-338), with no check for its end.
Coherent ==
    /\ symbols.table = UNION {Linked(symbols.levels[l]) : l \in 0 .. symbols.depth - 1}
    /\ \A l \in 0 .. symbols.depth - 1 :
         \A k \in 0 .. symbols.levels[l].end - 1 :
          \A item \in symbols.levels[l].scopes[k] :
              item.level = l /\ item.scope = k

\* No call of the visit is undefined: an enter() finds a level that exists and
\* has not been freed, and the assertion of symbols_dedent (line 317) holds for
\* every level the call pops, the final symbols_delete included.
CallsDefined ==
    /\ Visiting("indent") => CanEnter(symbols)
    /\ mode = "visit" /\ (pos <= Len(log) => log[pos].op = "leave")
           => DedentAsserts(symbols)

\* The visit is in the very scopes the build was in at the same call, although
\* the tree stores none of them: polling the queues level by level replays the
\* depth-first order in which they were filled.
SamePath == mode = "visit" => Path(symbols) = Path(snap[pos])

\* What the visit can see is what the build could see at the same call, and of
\* the rest only symbols the build added later: nothing the build knew is lost,
\* and no scope that was closed is visible again.
SeesSame ==
    mode = "visit" =>
        {item \in Visible(symbols) : item.id < snap[pos].count} = Visible(snap[pos])

\* When the visit comes back to a definition, symbols_here finds the symbol the
\* build added for it (VarDef of src/src/ir.c asserts this, lines 720-725).
HereAgain ==
    Visiting("add") =>
        \E item \in symbols_lookup(symbols, log[pos].key) :
            item.id = snap[pos].count /\ symbols_here(symbols, item)

\* symbols_delete leaves nothing behind: every symbol is unlinked and every
\* level freed, although symbols_dedent is only ever asked for one block.
AllFreed ==
    mode = "over" => /\ symbols.table = {}
                     /\ symbols.level = -1
                     /\ \A l \in 0 .. symbols.depth - 1 : symbols.levels[l].mem = "freed"

\* A scope is destroyed once: its queue only moves forward, a freed level is
\* never used again, and during the visit no queue grows.
QueuesAdvance ==
    [][\A l \in 0 .. symbols.depth - 1 :
          LET old == symbols.levels[l]  new == symbols'.levels[l]
          IN  /\ old.begin <= new.begin /\ old.end <= new.end
              /\ old.mem = "freed" => new = old
              /\ mode = "visit" => new.end = old.end]_vars

\* The visit of every tree ends with the table destroyed.
VisitEnds == mode = "visit" ~> mode = "over"
=============================================================================
