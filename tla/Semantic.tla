------------------------------ MODULE Semantic ------------------------------
(***************************************************************************)
(* The first pass over the syntax tree, src/src/semantic.c: it opens and   *)
(* leaves scopes, defines symbols, and reports errors by a longjmp out of  *)
(* the traversal.                                                          *)
(*                                                                         *)
(* The tree is the sequence of the nodes the traversal meets ("ast"), in   *)
(* the order it meets them; every node is generated as it is met, so a     *)
(* behaviour covers all trees up to the bounds.  An expression is          *)
(* abstracted to the one name it mentions, or to the kind of operator in   *)
(* it where the second pass stumbles over one; a statement to what it does *)
(* to scopes, symbols and the pass's flags; the braces of a nested block,  *)
(* of a branch or of a loop body are the nodes "open" and "close".         *)
(***************************************************************************)
EXTENDS Symbols, Sequences, SequencesExt

CONSTANTS NoName,      \* an expression that mentions no name, a literal
          Operation,   \* one of calls or operators (but unary plus), none of them a shift
          Shift,       \* one with a shift in it
          Lib,         \* names of the runtime library init_lib declares
          Forms,       \* which statements the generated programs are made of
          Admit,       \* which doubtful programs are generated, see Doubtful
          MaxNodes,    \* bound on the nodes of the tree, closing braces aside
          MaxNesting   \* bound on the braces open at once

AllForms == {"param", "decl", "list", "const", "init", "open", "loop", "use",
             "assign", "call", "return", "break"}

\* Programs the first pass accepts although the second cannot translate them:
\*   shift            a shift in any expression but the value of a constant
\*   global_init      a global initializer that is not a literal or a constant
\*   dead_scope       a block or declaration after the return of its block
\*   late_global      a global with the name of a local of an earlier function
\*   unresolved_init  an initializer or assigned value that names no variable
\*   sibling_init     an initializer that names a later variable of its own list
\*   call_variable    a call of something that is not a function
\* A run that states what correct compilation means generates none of them; a run
\* that shows what becomes of them admits one kind.
Doubtful == {"shift", "global_init", "dead_scope", "late_global", "unresolved_init",
             "sibling_init", "call_variable"}

ASSUME SemanticAssumption == /\ Lib \in SUBSET Name /\ IsFiniteSet(Lib)
                             /\ {NoName, Operation, Shift} \cap Name = {}
                             /\ Shift \notin {NoName, Operation}
                             /\ Forms \in SUBSET AllForms
                             /\ Admit \in SUBSET Doubtful
                             /\ MaxNodes \in Nat /\ MaxNesting \in Nat

VARIABLES phase,     \* "semantic", "rejected", then those of the second pass
          symbols,   \* g_symbols
          ast,       \* the nodes met so far
          snap,      \* history: snap[p] is the symbol table node p was met with
          ctl,       \* the C stack: one frame per brace that is open
          m_while    \* the flag of semantic.c: inside the body of a loop

semanticVars == <<phase, symbols, ast, snap, ctl, m_while>>

\* The lists of definitions that are generated: one definition, or two variables
\* ("list"), at most one of them with an initializer that names something ("init").
\* Lists of constants are the subject of module Constants.
Shifts == IF "shift" \in Admit THEN {Shift} ELSE {}
Inits == {NoName} \cup (IF "init" \in Forms THEN Name ELSE {}) \cup Shifts
             \cup (IF "global_init" \in Admit THEN {Operation} ELSE {})
Def   == [name : Name, init : Inits]
Defs  == {<<d>> : d \in Def}
             \cup (IF "list" \in Forms
                 THEN {two \in Def \X Def : NoName \in {two[1].init, two[2].init}} ELSE {})
Tags  == {"VARIABLE"} \cup (IF "const" \in Forms THEN {"CONSTANT"} ELSE {})
Params == {<<>>} \cup (IF "param" \in Forms THEN {<<p>> : p \in Name} ELSE {})

\* "node" is the position of the brace and "base" the level before it, "while" the
\* this_while of the first pass and "target" the this_end of the second, "dead"
\* whether a return was met directly inside.
Frame(kind, node, target) ==
    [kind |-> kind, node |-> node, base |-> symbols.level, while |-> m_while,
     target |-> target, dead |-> FALSE]

Top == ctl[Len(ctl)]

\* Definitions that add names to the current scope, first to last.
AddAll(s, keys, tag) ==
    LET added[i \in 0 .. Len(keys)] ==
            IF i = 0 THEN s ELSE symbols_add(added[i - 1], keys[i], tag)
    IN  added[Len(keys)]

NamesOf(defs) == [i \in DOMAIN defs |-> defs[i].name]

AddLib(s) == AddAll(s, SetToSeq(Lib), "FUNCTION")
-----------------------------------------------------------------------------
\* What a handler does when it goes on: the node is met with the present table.
Meet(node, s) == /\ phase = "semantic"
                 /\ ast' = Append(ast, node)
                 /\ snap' = Append(snap, symbols)
                 /\ symbols' = s
                 /\ UNCHANGED phase

\* error(): a message, and a longjmp to main, which compiles nothing.
Error(condition) == /\ phase = "semantic"
                    /\ condition
                    /\ phase' = "rejected"
                    /\ UNCHANGED <<symbols, ast, snap, ctl, m_while>>

Braces == Cardinality({p \in DOMAIN ast : ast[p].kind = "close"})

Room == Len(ast) - Braces < MaxNodes

InFunction == ctl # <<>>

NoDeadScope == InFunction /\ Top.dead => "dead_scope" \in Admit

NoLateGlobal(keys) ==
    ~InFunction /\ (\E item \in symbols.table : item.key \in keys /\ item.level > 0)
        => "late_global" \in Admit

Redefined(s, key) == \E item \in symbols_lookup(s, key) : symbols_here(s, item)

Denotes(s, key, tags) == /\ symbols_get(s, key) # NoSym
                         /\ symbols_get(s, key).tag \in tags

\* A value the pass does not look at: the second pass expects one of these.
GoodValue(s, value) ==
    value \in Name => \/ Denotes(s, value, {"VARIABLE", "CONSTANT"})
                      \/ "unresolved_init" \in Admit

\* Whether the second pass appends an instruction for a value: not for a literal, and
\* not for a constant, which is a literal to it.
Appends(s, value) == \/ value = Operation
                     \/ value \in Name /\ ~Denotes(s, value, {"CONSTANT"})
-----------------------------------------------------------------------------
SemanticInit == /\ phase = "semantic"
                /\ symbols = AddLib(symbols_new)
                /\ ast = <<>>
                /\ snap = <<>>
                /\ ctl = <<>>
                /\ m_while = FALSE

\* One scope for the parameters, inside it one for the block.
FuncDef(name, params) ==
    /\ ~InFunction /\ Room /\ NoLateGlobal({name})
    /\ \/ Error(Redefined(symbols, name))
       \/ LET s == symbols_indent(symbols_add(symbols, name, "FUNCTION"))
          IN  /\ ~Redefined(symbols, name)
              /\ Meet([kind |-> "func", name |-> name, params |-> params],
                      symbols_indent(AddAll(s, params, "VARIABLE")))
              /\ ctl' = Append(ctl, Frame("func", Len(ast) + 1, 0))
              /\ UNCHANGED m_while

\* Definition i of a list finds the table with those before it added.  A constant
\* is evaluated at once, a variable's initializer is not looked at.
DefOK(s, tag, defs, i) ==
    LET before == AddAll(s, NamesOf(SubSeq(defs, 1, i - 1)), tag)
    IN  /\ ~Redefined(before, defs[i].name)
        /\ tag = "CONSTANT" /\ defs[i].init \in Name
               => Denotes(before, defs[i].init, {"CONSTANT"})

\* What the first pass does not ask of an initializer, but the second one relies on:
\* each conjunct is given up by the kind of Doubtful programs it names.
InitOK(s, tag, defs, i) ==
    LET after == AddAll(s, NamesOf(SubSeq(defs, 1, i)), tag)
        init  == defs[i].init
    IN  tag = "VARIABLE" =>
          /\ GoodValue(after, init)
          /\ ~InFunction /\ Appends(after, init) => "global_init" \in Admit
          /\ (\E j \in i + 1 .. Len(defs) : defs[j].name = init)
                 => "sibling_init" \in Admit

\* Every declaration of a block opens a scope of its own, which stays open until
\* the block is left; a global declaration adds to the global scope.
Decl(tag, defs) ==
    LET s  == IF symbols_level(symbols) > 0 THEN symbols_indent(symbols) ELSE symbols
        ok == \A i \in DOMAIN defs : DefOK(s, tag, defs, i)
    IN  /\ Room /\ NoDeadScope /\ NoLateGlobal(Range(NamesOf(defs)))
        /\ \A i \in DOMAIN defs : InitOK(s, tag, defs, i)
        /\ \/ Error(~ok)
           \/ /\ ok
              /\ Meet([kind |-> "decl", tag |-> tag, defs |-> defs],
                      AddAll(s, NamesOf(defs), tag))
              /\ UNCHANGED <<ctl, m_while>>

\* A block that is a statement, a branch, or the body of a loop ("push").
Open(loop) ==
    /\ InFunction /\ Room /\ NoDeadScope /\ Len(ctl) < MaxNesting
    /\ Meet([kind |-> "open", loop |-> loop], symbols_indent(symbols))
    /\ ctl' = Append(ctl, Frame("block", Len(ast) + 1, 0))
    /\ m_while' = (m_while \/ loop)

\* The end of a block: its scope and those of its declarations are left, and after
\* the block of a function the scope of its parameters.  A loop "pops" its flag.
Close ==
    /\ InFunction
    /\ Meet([kind |-> "close"],
            IF Top.kind = "func" THEN symbols_leave(symbols_leave(symbols))
                                 ELSE symbols_leave(symbols))
    /\ ctl' = Front(ctl)
    /\ m_while' = Top.while

\* An expression with a name or a shift in it: the pass evaluates it, and knows shifts.
Use(value) ==
    LET known == value \in Name => Denotes(symbols, value, {"VARIABLE", "CONSTANT"})
    IN  /\ InFunction /\ Room
        /\ \/ Error(~known)
           \/ /\ known
              /\ Meet([kind |-> "use", value |-> value], symbols)
              /\ UNCHANGED <<ctl, m_while>>

\* The value of an assignment is not visited.
Assign(name, value) ==
    /\ InFunction /\ Room /\ GoodValue(symbols, value)
    /\ \/ Error(~Denotes(symbols, name, {"VARIABLE"}))
       \/ /\ Denotes(symbols, name, {"VARIABLE"})
          /\ Meet([kind |-> "assign", name |-> name, value |-> value], symbols)
          /\ UNCHANGED <<ctl, m_while>>

\* A call: the pass checks that the name is known, not that it is a function.
Call(name) ==
    /\ InFunction /\ Room
    /\ Denotes(symbols, name, Tag) /\ ~Denotes(symbols, name, {"FUNCTION"})
           => "call_variable" \in Admit
    /\ \/ Error(symbols_get(symbols, name) = NoSym)
       \/ /\ symbols_get(symbols, name) # NoSym
          /\ Meet([kind |-> "call", name |-> name], symbols)
          /\ UNCHANGED <<ctl, m_while>>

\* A return directly in a block, or one that is the whole branch of an if.
Return(direct) ==
    /\ InFunction /\ Room
    /\ Meet([kind |-> "return", direct |-> direct], symbols)
    /\ ctl' = [ctl EXCEPT ![Len(ctl)].dead = @ \/ direct]
    /\ UNCHANGED m_while

Break ==
    /\ InFunction /\ Room
    /\ \/ Error(~m_while)
       \/ /\ m_while
          /\ Meet([kind |-> "break"], symbols)
          /\ UNCHANGED <<ctl, m_while>>

\* The list of globals is finished: semantic() returns, ir() starts.
EndOfFile ==
    /\ phase = "semantic" /\ ~InFunction /\ ast # <<>>
    /\ ast' = Append(ast, [kind |-> "eof"])
    /\ snap' = Append(snap, symbols)
    /\ phase' = "ir"
    /\ UNCHANGED <<symbols, ctl, m_while>>

SemanticNext ==
    /\ phase = "semantic"
    /\ \/ \E name \in Name, params \in Params : FuncDef(name, params)
       \/ /\ "decl" \in Forms
          /\ \E tag \in Tags, defs \in Defs :
                (tag = "CONSTANT" => Len(defs) = 1) /\ Decl(tag, defs)
       \/ \E loop \in {FALSE, TRUE} :
              (IF loop THEN "loop" ELSE "open") \in Forms /\ Open(loop)
       \/ Close
       \/ "use" \in Forms /\ \E value \in Name \cup Shifts : Use(value)
       \/ "assign" \in Forms /\ \E name \in Name, value \in Inits : Assign(name, value)
       \/ "call" \in Forms /\ \E name \in Name : Call(name)
       \/ "return" \in Forms /\ \E direct \in BOOLEAN : Return(direct)
       \/ "break" \in Forms /\ Break
       \/ EndOfFile
=============================================================================
