------------------------------ MODULE Scoping ------------------------------
(***************************************************************************)
(* What the symbol table promises its clients, with no queue in it: the    *)
(* scopes of a program form one tree, and both traversals walk that tree   *)
(* depth first.  A scope is named by the position, in the log of calls, of *)
(* the call that opened it (0 is the global scope), so the second          *)
(* traversal reopens a scope by name, where the code has to find it again. *)
(*                                                                         *)
(* Closing a block closes every scope above the innermost scope that has   *)
(* no symbols of its own, and that one: the scopes above it are those of   *)
(* the declarations of the block (src/src/symbols.c, symbols_leave).       *)
(***************************************************************************)
EXTENDS Naturals, Sequences

CONSTANT Name

VARIABLES mode,     \* "build", "visit" or "over"
          log,      \* the calls of the build
          pos,      \* the next call the visit repeats
          path,     \* the scopes that are open, outermost first
          frames    \* for every scope the definitions in it, by log position

vars == <<mode, log, pos, path, frames>>

Init == /\ mode = "build"
        /\ log = <<>>
        /\ pos = 1
        /\ path = <<0>>
        /\ frames = [f \in {0} |-> {}]

Here == Len(log) + 1

Current == path[Len(path)]

\* The path once a block is closed: the global scope is never one of those closed.
Closed == LET p == CHOOSE i \in 2 .. Len(path) :
                       /\ i > 2 => frames[path[i]] = {}
                       /\ \A j \in i + 1 .. Len(path) : frames[path[j]] # {}
          IN  SubSeq(path, 1, p - 1)

Log(call) == /\ mode = "build"
             /\ log' = Append(log, call)
             /\ UNCHANGED <<mode, pos>>

Open == /\ Log([op |-> "indent"])
        /\ path' = Append(path, Here)
        /\ frames' = [f \in DOMAIN frames \cup {Here} |->
                         IF f = Here THEN {} ELSE frames[f]]

Define(key) == /\ Log([op |-> "add", key |-> key])
               /\ frames' = [frames EXCEPT ![Current] = @ \cup {Here}]
               /\ UNCHANGED path

Close == /\ Len(path) > 1
         /\ Log([op |-> "leave"])
         /\ path' = Closed
         /\ UNCHANGED frames

\* The first traversal is over once everything but the global scope is closed.
Turn == /\ mode = "build"
        /\ Len(path) = 1
        /\ mode' = "visit"
        /\ UNCHANGED <<log, pos, path, frames>>

Repeat(op) == /\ mode = "visit" /\ pos <= Len(log) /\ log[pos].op = op
              /\ pos' = pos + 1
              /\ UNCHANGED <<mode, log, frames>>

Reopen == Repeat("indent") /\ path' = Append(path, pos)

Recall == Repeat("add") /\ UNCHANGED path

Reclose == Repeat("leave") /\ Len(path) > 1 /\ path' = Closed

End == /\ mode = "visit" /\ pos = Here
       /\ path = <<0>>
       /\ path' = <<>>
       /\ mode' = "over"
       /\ UNCHANGED <<log, pos, frames>>

Next == \/ Open \/ (\E key \in Name : Define(key)) \/ Close
        \/ Turn
        \/ Reopen \/ Recall \/ Reclose \/ End

Spec == Init /\ [][Next]_vars
=============================================================================
