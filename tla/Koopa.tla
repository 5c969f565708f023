------------------------------- MODULE Koopa -------------------------------
(***************************************************************************)
(* The builders of Koopa objects in src/src/koopaext.c, with the lists     *)
(* that are appended to in src/src/ir.c, in the area of Bump.              *)
(*                                                                         *)
(* A list is a slice: a length and the address of an array of exactly that *)
(* length, which is copied to a new and longer one for every item that is  *)
(* appended.  The fields of objects that never change are records; what    *)
(* slices hold is in the memory of the area.  An object is known by its    *)
(* number, in the order of creation.  Every step is one call of a builder  *)
(* or an append as the IR pass makes them; which comes next is open.       *)
(***************************************************************************)
EXTENDS Bump, FiniteSets

Terminators == {"branch", "jump", "return"}
Insts == {"alloc", "load", "store", "binary", "call"} \cup Terminators
Kinds == {"integer", "zero_init", "func_arg_ref", "global_alloc", "block", "function"}
             \cup Insts

CONSTANTS Menus,        \* what the programs are made of: bags of kinds
          MaxAppends    \* bound on the appends to lists other than those of users

ASSUME KoopaAssumption == /\ \A menu \in Menus : DOMAIN menu \subseteq Kinds
                          /\ MaxAppends \in Nat

VARIABLES menu,      \* bound on the objects of each kind in this program
          area,      \* g_bump
          objs,      \* the objects
          slices,    \* the slices, by owner and field
          idle,      \* instructions made and not yet appended anywhere
          appends    \* appends so far

vars == <<menu, area, objs, slices, idle, appends>>

\* Words of the structs of koopa.h, and of a name.
Value == 12
Block == 7
Func  == 6
Type  == 4
Name  == 1

NoSlice == [len |-> 0, buffer |-> 0]

\* slip: the last item is written where the one before it is
slice_append_Over(st, list, item) ==
    LET s == st.slices[list]
        len == s.len + 1
        a == IF s.len = 0 THEN bump_malloc(st.area, 1)
             ELSE bump_realloc(st.area, s.buffer, len)
        at == Alloc(st.area, len)
    IN  IF ~a.ok THEN [st EXCEPT !.area = a]
        ELSE [area   |-> Write(a, at + s.len - 1, <<item>>),
              slices |-> [st.slices EXCEPT ![list] = [len |-> len, buffer |-> at]]]

slice_append(st, list, item) ==
    LET s == st.slices[list]
        len == s.len + 1
        a == IF s.len = 0 THEN bump_malloc(st.area, 1)
             ELSE bump_realloc(st.area, s.buffer, len)
        at == Alloc(st.area, len)
    IN  IF ~a.ok THEN [st EXCEPT !.area = a]
        ELSE [area   |-> Write(a, at + len - 1, <<item>>),
              slices |-> [st.slices EXCEPT ![list] = [len |-> len, buffer |-> at]]]

Content(list) == [k \in 1 .. slices[list].len |-> Read(area, slices[list].buffer + k - 1)]

Is(o, kinds) == objs[o].kind \in kinds

Of(kinds) == {o \in DOMAIN objs : Is(o, kinds)}

Exps == {"integer", "load", "binary", "call"}
Variables == {"alloc", "global_alloc"}
-----------------------------------------------------------------------------
\* Before anything else init_lib makes a type for the first library function.
Init == /\ menu \in Menus
        /\ area = bump_malloc(bump_new, Type)
        /\ objs = <<>>
        /\ slices = [l \in {<<0, "values">>, <<0, "funcs">>} |-> NoSlice]
        /\ idle = {}
        /\ appends = 0

FieldsOf(kind) == CASE kind = "function" -> {"types", "params", "bbs"}
                    [] kind = "block"    -> {"used_by", "insts"}
                    [] kind = "call"     -> {"used_by", "args"}
                    [] OTHER             -> {"used_by"}

\* An assertion of the allocator fails, and the compiler aborts.
Exhausted(a) == /\ ~a.ok
                /\ area' = a
                /\ UNCHANGED <<menu, objs, slices, idle, appends>>

\* slip: an instruction that uses an object twice, or two objects, is entered once
UsedBy_First(uses) == IF uses = <<>> THEN uses ELSE SubSeq(uses, 1, 1)

UsedBy(uses) == uses

\* A function is made before its blocks, and a block before any instruction.  The pass
\* makes at most three instructions before it appends the first of them.
CanMake(kind) ==
    /\ area.ok
    /\ kind \in DOMAIN menu /\ Cardinality(Of({kind})) < menu[kind]
    /\ kind = "block" => Of({"function"}) # {}
    /\ kind \in Insts => Of({"block"}) # {} /\ Cardinality(idle) < 3

\* A builder: it allocates blocks of these sizes, one of them the object, the others
\* its type and its name, and appends the object to the users of each operand in
\* "uses".
New(kind, sizes, operands, uses) ==
    LET id  == Len(objs) + 1
        own == {id} \X FieldsOf(kind)
        st0 == [area   |-> FoldLeft(bump_malloc, area, sizes),
                slices |-> [l \in DOMAIN slices \cup own |->
                               IF l \in own THEN NoSlice ELSE slices[l]]]
        st  == FoldLeft(LAMBDA s, o : slice_append(s, <<o, "used_by">>, id),
                        st0, UsedBy(uses))
    IN  /\ CanMake(kind)
        /\ \/ Exhausted(st.area)
           \/ /\ st.area.ok
              /\ area' = st.area
              /\ slices' = st.slices
              /\ objs' = Append(objs, [kind |-> kind, operands |-> operands])
              /\ idle' = IF kind \in Insts THEN idle \cup {id} ELSE idle
              /\ UNCHANGED <<menu, appends>>

koopa_raw_integer   == New("integer", <<Value>>, <<>>, <<>>)
koopa_raw_zero_init == New("zero_init", <<Value>>, <<>>, <<>>)
koopa_raw_func_arg_ref == New("func_arg_ref", <<Name, Value>>, <<>>, <<>>)

koopa_raw_global_alloc(init) ==
    New("global_alloc", <<Name, Value, Type>>, <<init>>, <<init>>)

koopa_raw_alloc == New("alloc", <<Name, Value, Type>>, <<>>, <<>>)

koopa_raw_load(src) == New("load", <<Value>>, <<src>>, <<src>>)

koopa_raw_store(value, dest) ==
    New("store", <<Value>>, <<value, dest>>, <<value, dest>>)

koopa_raw_binary(lhs, rhs) == New("binary", <<Value>>, <<lhs, rhs>>, <<lhs, rhs>>)

koopa_raw_branch(cond, true_bb, false_bb) ==
    LET operands == <<cond, true_bb, false_bb>>
    IN  New("branch", <<Value>>, operands, operands)

koopa_raw_jump(target) == New("jump", <<Value>>, <<target>>, <<target>>)

\* The function called is not told, nor will be the arguments.
koopa_raw_call(callee) == New("call", <<Value>>, <<callee>>, <<>>)

koopa_raw_return(value) == New("return", <<Value>>, <<value>>, <<value>>)

koopa_raw_return_nothing == New("return", <<Value>>, <<>>, <<>>)

koopa_raw_basic_block == New("block", <<Block, Name>>, <<>>, <<>>)

koopa_raw_function == New("function", <<Type, Func, Name>>, <<>>, <<>>)

Builders ==
    \/ koopa_raw_integer \/ koopa_raw_zero_init \/ koopa_raw_func_arg_ref
    \/ koopa_raw_alloc \/ koopa_raw_basic_block \/ koopa_raw_function
    \/ koopa_raw_return_nothing
    \/ \E init \in Of({"integer", "zero_init"}) : koopa_raw_global_alloc(init)
    \/ \E src \in Of(Variables) : koopa_raw_load(src)
    \/ \E value \in Of(Exps \cup {"func_arg_ref"}), dest \in Of(Variables) :
           koopa_raw_store(value, dest)
    \/ \E lhs, rhs \in Of(Exps) : koopa_raw_binary(lhs, rhs)
    \/ \E cond \in Of(Exps), true_bb, false_bb \in Of({"block"}) :
           true_bb # false_bb /\ koopa_raw_branch(cond, true_bb, false_bb)
    \/ \E target \in Of({"block"}) : koopa_raw_jump(target)
    \/ \E callee \in Of({"function"}) : koopa_raw_call(callee)
    \/ \E value \in Of(Exps) : koopa_raw_return(value)
-----------------------------------------------------------------------------
\* An append the IR pass makes itself.
Add(list, item) ==
    LET st == slice_append([area |-> area, slices |-> slices], list, item)
    IN  /\ area.ok /\ appends < MaxAppends
        /\ \/ Exhausted(st.area)
           \/ /\ st.area.ok
              /\ area' = st.area
              /\ slices' = st.slices
              /\ idle' = idle \ {item}
              /\ appends' = appends + 1
              /\ UNCHANGED <<menu, objs>>

AddOnce(list, item) == item \notin Range(Content(list)) /\ Add(list, item)

slice_back(list) == Last(Content(list))

\* What follows a return, branch or jump in a block is dropped: it is in no list but
\* those of the users of its operands.
TryAppend(block, inst) ==
    LET list == <<block, "insts">>
    IN  IF Content(list) # <<>> /\ Is(slice_back(list), Terminators)
        THEN /\ area.ok
             /\ idle' = idle \ {inst}
             /\ UNCHANGED <<menu, area, objs, slices, appends>>
        ELSE Add(list, inst)

\* Global, VarDef, FuncDef and Stmt, FuncFParam, FuncRParamList.  The type of every
\* parameter is one static object, here 0.
Appends ==
    \/ \E f \in Of({"function"}) : AddOnce(<<0, "funcs">>, f)
    \/ \E g \in Of({"global_alloc"}) : AddOnce(<<0, "values">>, g)
    \/ \E f \in Of({"function"}), b \in Of({"block"}) : AddOnce(<<f, "bbs">>, b)
    \/ \E f \in Of({"function"}), p \in Of({"func_arg_ref"}) : AddOnce(<<f, "params">>, p)
    \/ \E f \in Of({"function"}) : Add(<<f, "types">>, 0)
    \/ \E c \in Of({"call"}), value \in Of(Exps) : c \in idle /\ AddOnce(<<c, "args">>, value)
    \/ \E b \in Of({"block"}), inst \in idle : TryAppend(b, inst)

Over == UNCHANGED vars

Next == Builders \/ Appends \/ Over

Spec == Init /\ [][Next]_vars
-----------------------------------------------------------------------------
\* No two objects, names, arrays or headers share memory, and copying an array, which
\* reads past its end, never reads past the area.
AreaSound == Sound(area)
-----------------------------------------------------------------------------
Ideal == INSTANCE UseLists
    WITH used_by <- [o \in DOMAIN objs |->
                        IF Is(o, {"function"}) THEN <<>> ELSE Content(<<o, "used_by">>)],
         lists   <- [l \in {k \in DOMAIN slices : k[2] # "used_by"} |-> Content(l)]

\* The slices in the area hold the lists the builders promise: however many lists grow
\* in turn, none loses, repeats or mixes up an item, and the users of every object are
\* the instructions that name it, those that were dropped included.
ImplementsUseLists == Ideal!Spec
=============================================================================
