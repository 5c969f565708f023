------------------------------- MODULE IrPass -------------------------------
(***************************************************************************)
(* The second pass over the same tree, src/src/ir.c, after the first one.  *)
(* It reenters the scopes the first pass built, gives every variable and   *)
(* function its Koopa value ("raw") and destroys each scope as it leaves.  *)
(* It does not check the program again: where the first pass should have   *)
(* rejected it, an assertion fails and the compiler aborts.                *)
(***************************************************************************)
EXTENDS Semantic

VARIABLES pos,         \* the next node of ast
          raws,        \* the ids of the symbols whose raw pointer is set
          m_returned,  \* the flag of ir.c: the rest of this block is dead
          m_curr_end,  \* the loop a break jumps out of: its node, 0 for NULL
          fault        \* the assertion that has failed, or "none"

irVars == <<pos, raws, m_returned, m_curr_end, fault>>

vars == <<phase, symbols, ast, snap, ctl, m_while,
          pos, raws, m_returned, m_curr_end, fault>>

Ids(items) == {item.id : item \in items}

\* slip: the second pass does not look the library functions up
Init_NoLib == /\ SemanticInit
              /\ pos = 1
              /\ raws = {}
              /\ m_returned = FALSE
              /\ m_curr_end = 0
              /\ fault = "none"

\* init_lib of the second pass finds every library function again.
Init == /\ SemanticInit
        /\ pos = 1
        /\ raws = Ids({item \in symbols.table : item.key \in Lib})
        /\ m_returned = FALSE
        /\ m_curr_end = 0
        /\ fault = "none"
-----------------------------------------------------------------------------
At(kind) == /\ phase = "ir"
            /\ ast[pos].kind = kind
            /\ kind # "close" => ~m_returned

Node == ast[pos]

Abort(why) == /\ why # "none"
              /\ phase' = "aborted"
              /\ fault' = why
              /\ UNCHANGED <<symbols, ast, snap, ctl, m_while,
                             pos, raws, m_returned, m_curr_end>>

\* The handler of the node returns, having made s of the table and r of raws.
Return2(why, s, r) == /\ why = "none"
                      /\ symbols' = s
                      /\ raws' = r
                      /\ pos' = pos + 1
                      /\ UNCHANGED <<phase, ast, snap, m_while, fault>>

Steady == UNCHANGED <<ctl, m_returned, m_curr_end>>

\* symbols_enter reads past the levels, or divides by a freed level's fields.
EnterFault(s) == IF CanEnter(s) THEN "none" ELSE "enter"

\* assert(level->scope == level->begin), symbols.c:317
DedentFault(s) == IF DedentAsserts(s) THEN "none" ELSE "dedent"

First(faults) == LET hit == SelectInSeq(faults, LAMBDA f : f # "none")
                 IN  IF hit = 0 THEN "none" ELSE faults[hit]

\* LVal: assert(symbol), assert((ret = symbol->variable.raw)), unreachable().
LValFault(s, r, key) ==
    LET item == symbols_get(s, key)
    IN  CASE item = NoSym -> "LVal:symbol"
          [] item # NoSym /\ item.tag = "FUNCTION" -> "LVal:unreachable"
          [] item # NoSym /\ item.tag = "VARIABLE" ->
                 IF item.id \in r THEN "none" ELSE "LVal:raw"
          [] OTHER -> "none"

\* Exp: the case of the shifts runs on into that of "+" and "-", where a shift is
\* none of the operators and the pass panics.
ExpFault(s, r, value) == CASE value \in Name -> LValFault(s, r, value)
                           [] value = Shift -> "Exp:panic"
                           [] OTHER -> "none"

\* A function, its parameters, and the block inside.
IrFuncDef ==
    /\ At("func")
    /\ \E item \in {symbols_get(symbols, Node.name)} :
       LET why == First(<<IF item = NoSym THEN "FuncDef:symbol" ELSE "none",
                          EnterFault(symbols)>>)
       IN  \/ Abort(why)
           \/ /\ why = "none"
              /\ \E s \in {symbols_enter(symbols)} :
                 \E found \in {{symbols_get(s, p) : p \in Range(Node.params)}} :
                 \E inside \in {First(<<IF NoSym \in found THEN "FuncFParam:symbol"
                                                           ELSE "none",
                                        EnterFault(s)>>)} :
                    \/ Abort(inside)
                    \/ /\ Return2(inside, symbols_enter(s),
                                  raws \cup Ids({item} \cup found))
                       /\ ctl' = Append(ctl, Frame("func", pos, m_curr_end))
                       /\ UNCHANGED <<m_returned, m_curr_end>>

\* The symbol VarDef finds: the newest in the current scope with the name.
Here(s, key) == {item \in symbols_lookup(s, key) : symbols_here(s, item)}

\* m_curr_basic_block is NULL until the first function.  After one it is the block that
\* function ended in: then what a global initializer appends goes there, or is dropped
\* there after a return, and the global refers to it.
NoBlock == \A p \in 1 .. pos - 1 : ast[p].kind # "func"

\* A global's initializer has no block to append to.
BlockFault(s, value) ==
    IF s.level = 0 /\ Appends(s, value) /\ NoBlock THEN "VarDef:block" ELSE "none"

\* slip: a local, too, gets its raw after its initializer
VarDefFault_Late(s, r, defs, i) ==
    LET done == Ids(UNION {Here(s, defs[j].name) : j \in 1 .. i - 1})
    IN  First(<<IF Here(s, defs[i].name) = {} THEN "VarDef:symbol" ELSE "none",
                ExpFault(s, r \cup done, defs[i].init),
                BlockFault(s, defs[i].init)>>)

\* VarDef: assert(symbol), then the initializer.  A local has its raw before its
\* initializer is visited, a global after it.
VarDefFault(s, r, defs, i) ==
    LET done == Ids(UNION {Here(s, defs[j].name) :
                              j \in 1 .. (IF s.level = 0 THEN i - 1 ELSE i)})
    IN  First(<<IF Here(s, defs[i].name) = {} THEN "VarDef:symbol" ELSE "none",
                ExpFault(s, r \cup done, defs[i].init),
                BlockFault(s, defs[i].init)>>)

\* Constants were evaluated by the first pass: their declaration is only entered.
IrDecl ==
    /\ At("decl")
    /\ LET local   == symbols_level(symbols) > 0
           why     == IF local THEN EnterFault(symbols) ELSE "none"
           vardecl == Node.tag = "VARIABLE"
           defs    == Node.defs
       IN  \/ Abort(why)
           \/ /\ why = "none"
              /\ \E s \in {IF local THEN symbols_enter(symbols) ELSE symbols} :
                 \E inner \in {IF vardecl
                               THEN First([i \in DOMAIN defs |->
                                              VarDefFault(s, raws, defs, i)])
                               ELSE "none"} :
                    \/ Abort(inner)
                    \/ /\ Return2(inner, s,
                            IF vardecl
                            THEN raws \cup Ids(UNION {Here(s, defs[i].name) :
                                                         i \in DOMAIN defs})
                            ELSE raws)
                       /\ Steady

\* slip: any block is taken for the body of a loop
LoopEnd_Any == pos

\* "push" of m_curr_end when the block is the body of a loop.
LoopEnd == IF Node.loop THEN pos ELSE m_curr_end

IrOpen ==
    /\ At("open")
    /\ \/ Abort(EnterFault(symbols))
       \/ /\ Return2(EnterFault(symbols), symbols_enter(symbols), raws)
          /\ ctl' = Append(ctl, Frame("block", pos, m_curr_end))
          /\ m_curr_end' = LoopEnd
          /\ UNCHANGED m_returned

IrClose ==
    /\ At("close")
    /\ \/ Abort(DedentFault(symbols))
       \/ /\ DedentAsserts(symbols)
          /\ \E s \in {symbols_dedent(symbols)} :
             \E then \in {IF Top.kind = "func" THEN DedentFault(s) ELSE "none"} :
                \/ Abort(then)
                \/ /\ Return2(then, IF Top.kind = "func" THEN symbols_dedent(s) ELSE s,
                            raws)
                   /\ ctl' = Front(ctl)
                   /\ m_returned' = FALSE
                   /\ m_curr_end' = Top.target

IrUse == /\ At("use")
         /\ \/ Abort(ExpFault(symbols, raws, Node.value))
            \/ Return2(ExpFault(symbols, raws, Node.value), symbols, raws) /\ Steady

\* Value and target are arguments of one C call, visited in either order.
IrAssign ==
    /\ At("assign")
    /\ LET value  == ExpFault(symbols, raws, Node.value)
           target == LValFault(symbols, raws, Node.name)
       IN  \/ Abort(value)
           \/ Abort(target)
           \/ Return2(First(<<value, target>>), symbols, raws) /\ Steady

\* assert(symbol && symbol->tag == FUNCTION), then the type of the raw function.
CallFault(key) ==
    LET item == symbols_get(symbols, key)
    IN  CASE item = NoSym -> "call:function"
          [] item # NoSym /\ item.tag # "FUNCTION" -> "call:function"
          [] item # NoSym /\ item.tag = "FUNCTION" ->
                 IF item.id \in raws THEN "none" ELSE "call:raw"

IrCall == /\ At("call")
          /\ \/ Abort(CallFault(Node.name))
             \/ Return2(CallFault(Node.name), symbols, raws) /\ Steady

\* The flag is reset at the end of the branch a return is alone in.
IrReturn == /\ At("return")
            /\ Return2("none", symbols, raws)
            /\ m_returned' = Node.direct
            /\ UNCHANGED <<ctl, m_curr_end>>

\* The jump is recorded in the block it goes to: there must be one.
IrBreak == /\ At("break")
           /\ LET why == IF m_curr_end = 0 THEN "break:target" ELSE "none"
              IN  Abort(why) \/ (Return2(why, symbols, raws) /\ Steady)

\* BlockItemList stops at a return: the rest of the block is not visited.
NodesOf(kinds, from, upto) == {p \in from .. upto : ast[p].kind \in kinds}

EndOfBlock ==
    CHOOSE q \in pos .. Len(ast) :
        /\ ast[q].kind = "close"
        /\ Cardinality(NodesOf({"open"}, pos, q - 1)) =
               Cardinality(NodesOf({"close"}, pos, q - 1))
        /\ \A r \in pos .. q - 1 :
              Cardinality(NodesOf({"open"}, pos, r)) >=
                  Cardinality(NodesOf({"close"}, pos, r))

IrSkip == /\ phase = "ir" /\ m_returned /\ Node.kind # "close"
          /\ pos' = EndOfBlock
          /\ UNCHANGED <<phase, symbols, ast, snap, ctl, m_while,
                         raws, m_returned, m_curr_end, fault>>

\* The last global has been visited: symbols_delete, and ir() returns.
IrEnd == /\ At("eof")
         /\ \/ Abort(DedentFault(symbols))
            \/ /\ DedentAsserts(symbols)
               /\ symbols' = symbols_dedent(symbols)
               /\ phase' = "done"
               /\ UNCHANGED <<ast, snap, ctl, m_while, irVars>>

Ir == \/ IrFuncDef \/ IrDecl \/ IrOpen \/ IrClose \/ IrUse \/ IrAssign
      \/ IrCall \/ IrReturn \/ IrBreak \/ IrSkip \/ IrEnd

\* main has returned, or the process has ended in error() or an assertion.
Over == phase \in {"rejected", "aborted", "done"} /\ UNCHANGED vars

Next == (SemanticNext /\ UNCHANGED irVars) \/ Ir \/ Over

Spec == Init /\ [][Next]_vars /\ WF_vars(Ir)
-----------------------------------------------------------------------------
\* Types, and what the recursion keeps: one frame per open brace, below its top.
TypeOK ==
    /\ phase \in {"semantic", "rejected", "ir", "aborted", "done"}
    /\ symbols.level \in -1 .. symbols.depth - 1
    /\ symbols.table \in SUBSET Item
    /\ Len(snap) = Len(ast)
    /\ pos \in 1 .. Len(ast) + 1
    /\ raws \in SUBSET (0 .. symbols.count - 1)
    /\ m_while \in BOOLEAN /\ m_returned \in BOOLEAN
    /\ m_curr_end \in 0 .. Len(ast)
    /\ \A i \in DOMAIN ctl : /\ ctl[i].base \in 0 .. symbols.level
                             /\ ctl[i].node \in 1 .. Len(ast)

\* The second pass translates every program it is given that is of none of the kinds in
\* Doubtful, while there is room for its objects: no assertion of ir.c or symbols.c
\* fails, no branch is left without a target, no instruction without a block.
NoAbort == phase # "aborted"

\* The passes keep in step: at every node the second pass is in the scopes the
\* first one was in, though it skips dead code and meets no brace of the tree
\* twice in the same state of the queues.
SamePath == phase = "ir" => Path(symbols) = Path(snap[pos])

\* A name means the same symbol to both passes, at every node and for every name
\* the first one knew there.
SameBinding ==
    phase = "ir" =>
        \A key \in Name : symbols_get(snap[pos], key) # NoSym =>
                              symbols_get(symbols, key) = symbols_get(snap[pos], key)

\* The second pass has given a value to every variable and function in view by the
\* time the first pass had defined it: what LVal (ir.c:793) and a call rely on.
RawsReady ==
    phase = "ir" =>
        \A item \in snap[pos].table :
            symbols_saw(snap[pos], item) /\ item.tag # "CONSTANT" => item.id \in raws

\* The loop the first pass saw around a break is the one the second pass jumps out
\* of, dead code and nested blocks notwithstanding.
Loops == {i \in DOMAIN ctl : ast[ctl[i].node].kind = "open" /\ ast[ctl[i].node].loop}

BreakTarget ==
    phase = "ir" /\ Node.kind = "break" =>
        /\ Loops # {}
        /\ m_curr_end = ctl[CHOOSE i \in Loops : \A j \in Loops : j <= i].node

\* A closing brace brings either pass back to the level it had at the opening one,
\* whatever declarations opened in between: symbols_leave and symbols_dedent find
\* the end of a block by the emptiness of its scope alone.
BlockRestores ==
    [][Len(ctl') < Len(ctl) => symbols'.level = Top.base]_vars

\* After a translation no symbol is left and every level is freed.
AllFreed ==
    phase = "done" => /\ symbols.table = {}
                      /\ symbols.level = -1
                      /\ \A l \in DOMAIN symbols.levels : symbols.levels[l].mem = "freed"

-----------------------------------------------------------------------------
(* What the assertions of the code say of every program the first pass accepts. *)

\* src/src/ir.c:725, VarDef: the symbol of a definition is in the current scope.
VarDefFindsSymbol == fault # "VarDef:symbol"

\* src/src/ir.c:793, LVal: the variable a name resolves to has its value.
LValFindsRaw == fault # "LVal:raw"
=============================================================================
