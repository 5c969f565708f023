----------------------------- MODULE Constants -----------------------------
(***************************************************************************)
(* A declaration of constants from the parser to the symbol table:         *)
(* ConstDecl, ConstDefList and ConstDef of src/src/semantic.c go over the  *)
(* list node of Tree and evaluate each definition with the constants they  *)
(* have defined so far.                                                    *)
(*                                                                         *)
(* A definition is one operator on literals and names of the same list;    *)
(* longer expressions are chains of definitions.  Which one an item of the *)
(* list is, is chosen when it is evaluated.  A name is the place of its    *)
(* definition in the source.  The scopes are those of Semantic.            *)
(***************************************************************************)
EXTENDS Tree, Arithmetic

CONSTANTS Literals,   \* the numbers in expressions
          MaxRich     \* bound on the definitions with an operator; the others are 1

ASSUME ConstantsAssumption == /\ Literals \subseteq Word /\ 1 \in Literals
                              /\ MaxRich \in Nat

VARIABLES i,        \* the index of ConstDefList: children not visited yet
          consts    \* the constants, as a sequence: the order of symbols_add

vars == <<tree, i, consts>>

Init == TreeInit /\ i = 0 /\ consts = <<>>

\* A name of the list is an operand by its place, negative to tell it from a literal.
Names == {-k : k \in 1 .. MaxItems}
Operand == Literals \cup Names

Plain == [op |-> "u+", lhs |-> 1, rhs |-> 1]

Unary  == [op : UnaryOps, lhs : Operand, rhs : {1}]
Binary == [op : Ops \ UnaryOps, lhs : Operand, rhs : Operand]

Exps == IF Len(consts) < MaxRich THEN Unary \cup Binary ELSE {Plain}

Used(exp) == {exp.lhs, exp.rhs} \cap Names

\* PrimaryExp: the value of a constant that is defined.  "value" is what the pass has
\* computed.  Two histories: "run", what the program computes at run time for the same
\* definitions made of variables, as far as it can; "agree", whether they must be the same.
Literal(n) == [item |-> 0, value |-> n, run |-> n, agree |-> TRUE]

Lookup(n) == {c \in Range(consts) : c.item = -n}

Value(n) == IF n \in Names THEN CHOOSE c \in Lookup(n) : TRUE ELSE Literal(n)
-----------------------------------------------------------------------------
Same == UNCHANGED <<heap, allocs, stack, list, comp_unit>>

Declaration == /\ CompUnit
               /\ i' = Len(heap[list].children)
               /\ UNCHANGED consts

Def == heap[heap[list].children[i]]

Visiting == stage = "visit" /\ i > 0

\* error("Undefined symbol"): a name without a symbol.
Reject(exp) == /\ Visiting
               /\ \E n \in Used(exp) : Lookup(n) = {}
               /\ stage' = "rejected"
               /\ Same /\ UNCHANGED <<i, consts>>

\* A shift has to stay a constant, which is its folded value in the program, too: there
\* is nothing to compare, and those that name it go on from that value.
Folds(value) == [item |-> Def.item, value |-> value, run |-> value, agree |-> TRUE]

Evaluated(exp, value) ==
    LET a == Value(exp.lhs)
        b == Value(exp.rhs)
    IN  IF exp.op \notin Translated
        THEN Folds(value)
        ELSE [item  |-> Def.item,
              value |-> value,
              run   |-> Computed(exp.op, a.run, b.run),
              agree |-> a.agree /\ b.agree /\ Agree(exp.op, a.run, b.run)]

Values(exp) == Folded(exp.op, Value(exp.lhs).value, Value(exp.rhs).value)

\* slip: the list is read from its first child on
NextChild_Up(n) == IF n = Len(heap[list].children) THEN 1 ELSE n + 1

NextChild(n) == n - 1

ConstDef(exp) == /\ Visiting
                 /\ \A n \in Used(exp) : Lookup(n) # {}
                 /\ \E value \in Values(exp) :
                       consts' = Append(consts, Evaluated(exp, value))
                 /\ i' = NextChild(i)
                 /\ Same /\ UNCHANGED stage

\* The division of the evaluator itself traps, and the compiler dies.
Trap(exp) == /\ Visiting
             /\ \A n \in Used(exp) : Lookup(n) # {}
             /\ Values(exp) = {}
             /\ consts' = Append(consts, Evaluated(exp, 0))
             /\ stage' = "trapped"
             /\ Same /\ UNCHANGED i

EndOfList == /\ stage = "visit" /\ i = 0
             /\ stage' = "done"
             /\ Same /\ UNCHANGED <<i, consts>>

Over == stage \in {"end", "error", "trapped"} /\ UNCHANGED vars

Next == \/ (Item \/ LastItem \/ MoreItems \/ SyntaxError \/ node_delete)
              /\ UNCHANGED <<i, consts>>
        \/ Declaration
        \/ \E exp \in Exps : Reject(exp) \/ ConstDef(exp) \/ Trap(exp)
        \/ EndOfList
        \/ Over

Spec == Init /\ [][Next]_vars
-----------------------------------------------------------------------------
\* The constants are defined in the order of the source, though the list was built
\* from its end and moved as it grew: an item is evaluated when exactly the names
\* before it are defined, so only a name of its own or a later one is rejected.
SourceOrder ==
    /\ \A k \in DOMAIN consts : consts[k].item = k
    /\ Visiting => Def.item = Len(consts) + 1
    /\ stage = "done" => Len(consts) = Len(heap[list].children)

\* A constant is the value the program would compute for its expression, through any
\* chain of constants, as long as every operation that tells signed operands from
\* unsigned ones had operands that are not negative: that of every operator the second
\* pass translates, which a shift is not.  Then also the compiler survives: the division
\* it dies of divides by zero, or by what only it takes for zero.
Exact == \A k \in DOMAIN consts :
            LET trapped == stage = "trapped" /\ k = Len(consts)
            IN  consts[k].agree => ~trapped /\ consts[k].value = consts[k].run
=============================================================================
