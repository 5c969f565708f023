------------------------------- MODULE Driver -------------------------------
(***************************************************************************)
(* A whole run of the compiler, src/src/main.c: the parser, the two passes *)
(* of IrPass, the Koopa library, the code generator, and what main frees   *)
(* behind the labels its error exits go to.  The mode is an argument of    *)
(* the command line: it is chosen where main first looks at it.            *)
(*                                                                         *)
(* "held" is what the process has allocated and not freed: "comp_unit",    *)
(* the tree; "symbols", the table; "bump", the area of the Koopa objects;  *)
(* "program", the object of the library; "output", the open file.          *)
(***************************************************************************)
EXTENDS IrPass

VARIABLES stage,      \* where main is
          held,
          written,    \* assembly or IR has been written to the output file, in full
          status      \* what main returns

driverVars == <<stage, held, written, status>>

allVars == <<vars, driverVars>>

DriverInit == /\ Init
              /\ stage = "parse"
              /\ held = {}
              /\ written = FALSE
              /\ status = 0

Go(to, keeps) == stage' = to /\ held' = keeps

Still == UNCHANGED <<vars, written>>
-----------------------------------------------------------------------------
\* "-debug" reads a finished program of the library and prints it, nothing else.
Debug == /\ stage = "parse"
         /\ Go("exit", held) \/ Go("abort", held)
         /\ UNCHANGED status /\ Still

\* The input cannot be opened, or is no program.  The nodes built so far stay.
ParseFails == /\ stage = "parse"
              /\ \E built \in SUBSET {"comp_unit"} : Go("exit", built)
              /\ status' = 1
              /\ Still

Parse == /\ stage = "parse"
         /\ Go("semantic", {"comp_unit", "symbols"})
         /\ UNCHANGED status /\ Still

Semantic == /\ stage = "semantic"
            /\ SemanticNext
            /\ UNCHANGED <<irVars, driverVars>>

\* slip: the error exit falls through all the labels
Caught_All == "cleanup_raw_program"

\* setjmp returns for the second time: the exception handler.
Caught == "cleanup_comp_unit"

SemanticError == /\ stage = "semantic" /\ phase = "rejected"
                 /\ Go(Caught, held)
                 /\ UNCHANGED status /\ Still

StartIr == /\ stage = "semantic" /\ phase = "ir"
           /\ Go("ir", held \cup {"bump"})
           /\ UNCHANGED status /\ Still

\* ir() ends with symbols_delete.
IrStep == /\ stage = "ir"
          /\ Ir
          /\ held' = IF phase' = "done" THEN held \ {"symbols"} ELSE held
          /\ UNCHANGED <<stage, written, status>>

\* slip: a program the library refuses is taken for one the passes refuse
Refused_Tree == "cleanup_comp_unit"

Refused == "cleanup_raw_program"

Generate == /\ stage = "ir" /\ phase = "done"
            /\ \/ Go("output", held \cup {"program"})
               \/ Go(Refused, held)
            /\ UNCHANGED status /\ Still

\* slip: the file is not closed
Close_Never == held

CloseOutput == held \ {"output"}

\* "-riscv".  fopen may fail: codegen asserts that there is a file.
OpenOutput == /\ stage = "output"
              /\ \/ Go("codegen", held \cup {"output"})
                 \/ Go("abort", held)
              /\ UNCHANGED status /\ Still

\* The generator has assertions of its own, which module Codegen is about.
WriteAssembly == /\ stage = "codegen"
                 /\ \/ Go("cleanup", CloseOutput) /\ written' = TRUE
                    \/ Go("abort", held) /\ UNCHANGED written
                 /\ UNCHANGED <<vars, status>>

\* "-koopa", or a word main does not know: then nothing is written.
DumpKoopa == /\ stage = "output"
             /\ Go("cleanup", held)
             /\ written' \in BOOLEAN
             /\ UNCHANGED <<vars, status>>

\* The labels at the end of main, each of which goes on to the next one.
Cleanup == /\ \/ stage = "cleanup" /\ Go("cleanup_raw_program", held \ {"program"})
              \/ stage = "cleanup_raw_program" /\ Go("cleanup_comp_unit", held \ {"bump"})
              \/ stage = "cleanup_comp_unit" /\ Go("exit", held \ {"comp_unit"})
           /\ UNCHANGED status /\ Still

Ended == \/ stage \in {"exit", "abort"}
         \/ stage = "ir" /\ phase = "aborted"

DriverSteps == \/ Debug \/ ParseFails \/ Parse \/ SemanticError \/ StartIr \/ IrStep
               \/ Generate \/ OpenOutput \/ WriteAssembly \/ DumpKoopa \/ Cleanup

DriverNext == DriverSteps \/ Semantic \/ (Ended /\ UNCHANGED allVars)

DriverSpec == DriverInit /\ [][DriverNext]_allVars /\ WF_allVars(DriverSteps)
-----------------------------------------------------------------------------
\* Each pass has what it works on for as long as it works: no exit, label or pass frees
\* too early what a later one reads, and nothing that is freed was never allocated.
Needs == CASE stage = "semantic"            -> {"comp_unit", "symbols"}
           [] stage = "ir" /\ phase = "ir"   -> {"comp_unit", "symbols", "bump"}
           [] stage \in {"output", "cleanup"} -> {"comp_unit", "bump", "program"}
           [] stage = "codegen"             -> {"comp_unit", "bump", "program", "output"}
           [] stage = "cleanup_raw_program" -> {"comp_unit", "bump"}
           [] stage = "cleanup_comp_unit"   -> {"comp_unit"}
           [] OTHER                         -> {}

\* When main returns 0 it has freed everything, by whichever label it got there, except
\* for the symbol table of a program with a semantic error, which nothing frees.
Leaves == IF phase = "rejected" THEN {"symbols"} ELSE {}

\* Both, and nothing is written before both passes are through.
Accounts == /\ Needs \subseteq held
            /\ stage = "exit" /\ status = 0 => held = Leaves
            /\ written => phase = "done" /\ stage \notin {"semantic", "ir", "abort"}

\* A program that gets past the first pass and is of none of the kinds in Doubtful gets
\* through the second one: main comes to an end, by returning or by an assertion of the
\* code generator or on the output file, and not by one of a pass, nor does it hang.
CompilerEnds == stage = "ir" ~> stage = "exit" \/ (stage = "abort" /\ phase = "done")
=============================================================================
