------------------------------ MODULE UseLists ------------------------------
(***************************************************************************)
(* What the builders of src/src/koopaext.c promise, with no memory in it:  *)
(* objects that name their operands, lists that only grow at their ends,   *)
(* and for every object the list of its users, which always can be told    *)
(* from the operands of the others.                                        *)
(***************************************************************************)
EXTENDS Integers, Sequences, FiniteSets, SequencesExt

VARIABLES objs,      \* the objects in the order of their creation
          used_by,   \* the users of each object
          lists      \* the other lists, by their owner and field

vars == <<objs, used_by, lists>>

\* A list is a pair of the object it belongs to, or 0 for the program, and a field.
FieldsOf(kind) == CASE kind = "function" -> {"types", "params", "bbs"}
                    [] kind = "block"    -> {"insts"}
                    [] kind = "call"     -> {"args"}
                    [] OTHER             -> {}

ProgramLists == {<<0, "values">>, <<0, "funcs">>}

\* A call does not say so to the function it calls.
Uses(obj) == IF obj.kind = "call" THEN <<>> ELSE obj.operands

\* Who uses object o, once for each operand, in the order of creation.
Users(all, o) ==
    LET Times(uses) == Cardinality({k \in DOMAIN uses : uses[k] = o})
    IN  FlattenSeq([u \in DOMAIN all |-> [k \in 1 .. Times(Uses(all[u])) |-> u]])

Init == /\ objs = <<>>
        /\ used_by = <<>>
        /\ lists = [l \in ProgramLists |-> <<>>]

Create(obj) ==
    /\ objs' = Append(objs, obj)
    /\ used_by' = [o \in DOMAIN objs' |-> Users(objs', o)]
    /\ lists' = [l \in DOMAIN lists \cup ({Len(objs')} \X FieldsOf(obj.kind)) |->
                    IF l \in DOMAIN lists THEN lists[l] ELSE <<>>]

Add(list, item) == /\ lists' = [lists EXCEPT ![list] = Append(@, item)]
                   /\ UNCHANGED <<objs, used_by>>

\* Whatever is created, its operands are there already.
Next == \/ /\ objs' # <<>>
           /\ Range(Last(objs').operands) \subseteq 0 .. Len(objs)
           /\ Create(Last(objs'))
        \/ \E list \in DOMAIN lists, item \in 0 .. Len(objs) : Add(list, item)

Spec == Init /\ [][Next]_vars
=============================================================================
