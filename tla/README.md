# A verification of sysyc

`sysyc` compiles SysY, a subset of C, to RISC-V assembly. One process runs a sequence of passes over a syntax tree:

    source --lexer, parser--> tree --semantic pass--> symbols --IR pass--> Koopa program --code generator--> assembly
                                        \______ symbol table, hash tables ______/

This directory holds TLA+ modules that model the passes and the data structures between them, TLC configurations that
check the models on small instances, and proofs that TLAPS checks for every instance. Definitions keep the names of the C
code; `PROJECT.json` maps each one to its lines. Paths such as `src/src/symbols.c` are relative to the repository's
directory; below, file names are those of `src/src/`.

Nothing runs concurrently in the compiler, and nothing is persisted. What is hard is *protocol*: two traversals that must
make the same calls in the same order on shared state; results found by position in a queue rather than by name; flags and
"current" pointers saved around recursion; counters taken in one traversal and relied on in another.

## 1. Inventory

| component | state | operations | interaction |
|---|---|---|---|
| **Symbol table** `symbols.c` | a hash table of symbols; per nesting level a queue of scopes, each the list of its symbols; the current level | `indent` `leave` (first traversal), `enter` `dedent` (second), `add` `get` `here` `lookup`, `new` `delete` | called by both passes; owns the items of the hash table |
| **Hash tables** `hashtable.c` | buckets of chained items, no head node; the iterator `view_t` | `insert` `lookup` `next` `delete`; unlinking is written out in `symbols_dedent` | symbols by name; in the code generator, values and pairs of value and block by pointer |
| **Semantic pass** `semantic.c` | the flag `m_while`; constant values written into the tree | one function per kind of node; `error` jumps back to `main` | builds the symbol table |
| **IR pass** `ir.c` | `m_curr_function`, `m_curr_basic_block`, `m_curr_cond`, `m_curr_end`, `m_curr_call`, `m_returned`, a counter of names | one function per kind of node, `try_append`, `mangle` | revisits the scopes; builds the Koopa program |
| **Koopa builders** `koopaext.c` | none (the allocator's) | one constructor per kind of object; slices | called by the IR pass; a jump or branch is recorded in its target |
| **Code generator** `codegen.c` | tables of outputs and stack offsets; counts of the function; `reg_idx`, `out_idx` of the block | one function per kind of value; `opnd`, `oper`, `inst` | reads the Koopa program; prints assembly |
| **Coroutine queue** `yield.h` | two saved contexts and their variables | `yield`, `next`, `def`, `use` | operands are fetched first and printed later |
| **Bump allocator** `bump.c` | area, pointer | `malloc` `realloc` `strdup` | memory of all Koopa objects |
| **Vectors** `vector.c` | arrays that grow | `push` `pop` `back` | levels of the symbol table, parameter types, counts |
| **Syntax tree** `ast.c`, `node.c`, **lexer, parser** `.l`, `.y` | the tree | construction; lists are built backwards and walked backwards | input of both passes |
| **Driver** `main.c` | the tree, the area, the library's program, the output file | parse, the two passes, code generation; labels that free | runs the passes in order; the exit of a semantic error jumps to it |
| **debug printer**, **Koopa library**, **sample application** | | | not part of the compiler's logic |

What makes each correct:

- *Symbol table*: the second traversal is in the scopes the first was in, call by call, although it finds them only by
  polling queues; it sees what the first saw and no closed scope reappears; no freed level is entered; everything is freed,
  once.
- *Hash tables*: chains stay whole under removal from the middle; a walk returns every item of its key, newest first.
- *Semantic pass*: what it accepts can be translated, with the exceptions that `Doubtful` names; flags are restored;
  constants have the values the program would compute, with the exceptions that `Agree` and `Translated` name.
- *IR pass*: names mean to it what they meant to the first pass, and its assertions hold, for the programs of section 3 that
  the first pass accepts (not for all it accepts); basic blocks do what the source says; each is left once.
- *Code generator*: every instruction finds its operands where it looks for them, across calls and spills; areas of the
  stack frame do not overlap.
- *Coroutine queue*: a resumed operand uses the state saved for it, not for its neighbour.
- *Allocator, vectors*: what is returned is disjoint from what is in use, and a grown object keeps its contents.
- *Tree*: no node is lost or has two parents while lists move; lists are visited in source order.
- *Driver*: each pass has what it works on; every way out frees what that run has allocated.

The hazards, each at its line and with the properties about it, are listed in `PROJECT.json`.

## 2. Modules

    Symbols ---- SymbolTable ---- MCSymbolTable                    Multimap <==implements== Hashtable -- MCHashtable
       |              |  \------- SymbolTableScoping ==implements==> Scoping
       |
       \---- Semantic ---- IrPass ---- MCIrPass                   UseLists <==implements== Koopa ---- MCKoopa
                              \---- Driver ---- MCDriver                                       \---- Bump

    Tree ----- Constants                                          Frame ---- Codegen ---- MCCodegen
    Arithmetic ---/
    Lowering ---- LoweringRuns ---- MCLowering

The proofs are in modules of their own, each extending the module it is about and the proofs it builds on:

    SymbolsProofs (lemmas on the operators of Symbols)            HashtableProofs    KoopaProofs
       |---- SymbolTableProofs (and Scoping)                      ConstantsProofs    CodegenProofs
       \---- CompilerProofs (IrPass and Driver)                   LoweringProofs (LoweringRuns)

### The symbol table: Symbols, SymbolTable, Scoping, SymbolTableScoping

`Symbols` has the structs as records and the functions as operators. A level is a queue of scopes; the *current* scope of a
level is an index into it. `symbols_indent` appends to the queue of the next level, `symbols_enter` advances its index
cyclically, `symbols_dedent` polls it and frees the level with its last scope. `symbols_leave` and `symbols_dedent` pop
levels up to and including the first scope that has no symbols: that is how the end of a block is told from the
declarations in it, each of which opens a scope. An item of the hash table is a record with a unique id that grows with
allocation, so the front of a chain is the greatest id (justified by `Hashtable`).

`SymbolTable` puts any client under the workflow its comment prescribes (`symbols.c:272-277`): in the mode "build" any
sequence of `Indent`, `Add`, `Leave`; then, in "visit", the same sequence again as `Enter`, `Recall`, `Dedent`; then
`Delete`. The guards of `Enter` and `Dedent` are what makes those calls defined (the level exists and is not freed; the
assertion holds), so a call that is not is a deadlock, which TLC reports. The history variable `snap` keeps the table as it
was before each call of the build: it is what the visit is compared with.

`Scoping` is the abstract specification: scopes form a tree, each named by the call that opened it, and the second
traversal reopens it by name. `SymbolTableScoping` is the refinement mapping: level and index name a node of the tree.

### Both passes: Semantic, IrPass

The tree is the sequence of nodes in the order both passes meet them. The semantic pass *generates* a node as it meets it
(`FuncDef`, `Decl`, `Open`, `Close`, `Use`, `Assign`, `Call`, `Return`, `Break`, `EndOfFile`), so its behaviours cover all
trees up to the bounds. Every handler ends in an error (`phase = "rejected"`) or goes on. `IrPass` then meets the same
nodes again; an assertion of `ir.c` or `symbols.c` that fails is the phase "aborted" with its place in `fault`. `IrSkip`
is the loop of `BlockItemList` stopping at a return. `ctl` is the C stack: one frame per open brace, with what its function
saves in local variables.

An expression is abstracted to one name it mentions, whatever operators are around it, since each of its names goes
through `LVal` in the same way; or it is a literal (`NoName`). Where more than that matters to the passes it is one of two kinds:
`Shift` for one with a shift in it, `Operation` for a global initializer of calls or other operators. A block stands for a
block, a branch or a loop body; a function has at most one parameter. The tables are those of `Symbols`, so the passes
use the real queue discipline.

The first pass accepts some programs that the second cannot translate, among them every one with a shift outside a constant,
and those with a global initializer that is not a literal or a constant. They are named in `Doubtful`, and are
generated only if `Admit` names their kind, so in the passing runs and in the theorems with `Admit = {}` none of them is.

### A whole run: Driver

`Driver` extends `IrPass` with `main`: the mode and the parser before the passes, the Koopa library and the code generator
after them, and the three labels at the end, each of which goes on to the next. `held` is what the process has allocated
and not freed, `stage` is where `main` is. The first pass's `longjmp` is the step `SemanticError`, from wherever
`Semantic` stopped to the label that `main` names there; the library may refuse any program, and the output file may
not open. An assertion ends the process with everything held, those of the code generator too (`WriteAssembly`), of which
module `Codegen` has the rest.

### From the parser to the value of a constant: Tree, Arithmetic, Constants

`Tree` has the list nodes of the syntax tree on the heap and the parser's stack of items. The rules are right-recursive, so
a list is made of its last item and grows towards the first; `node_add_child` doubles its room and may move it, and the
old address is then free. One module stands for all six list rules, which differ in the kinds of their nodes.

`Arithmetic` has every operator of the language twice: `Folded` as the C of `semantic.c` computes it, in unsigned words,
with no value where the division traps and any value where a shift is undefined; `Computed` as the instructions do that
`ir.c` and `codegen.c` choose, for the operators that `ir.c` translates (`Translated`). The shifts are not among them: their
case runs on into that of `+` and `-` and ends in `panic` (`ir.c:438-451`). The instructions are external and as the RISC-V
manual has them.

`Constants` composes the two with `ConstDefList`: it takes the list from the parser, visits its children from the last to
the first and folds each definition, which may name the ones before it. Beside the value that is
folded it keeps the value the program would compute at run time if the definitions were of variables (`run`), and whether the two
must agree (`agree`): not where a comparison, a division or a remainder has had a negative operand, which the folding takes for a
large one. A definition by a shift has no value but the folded one, so `run` goes on from that (`Folds`).

### Koopa objects: Bump, Koopa, UseLists

`Bump` is the allocator, with the words it writes: an area filled from its end down, a header with its size below each
block, the pointer itself at the bottom. `bump_realloc` copies as many words as the *new* block has, so it reads
past the end of the old one, into the block above it. Addresses count words of 8 bytes.

`Koopa` has the builders of `koopaext.c`, one action each, and the appends `ir.c` makes to lists of instructions, blocks,
parameters and arguments. What a list holds is only in the area. An object is entered in `used_by` of its operands when it
is made, whatever becomes of it: `try_append` may drop it afterwards. `UseLists` is the abstract
specification without memory: lists that grow at the end, and for each object its users, told from the operands of the
others. A program is bounded by a bag of kinds (`Menus`), so that every order of a few calls is covered.

### Control flow: Lowering, LoweringRuns

`Lowering` is the part of the IR pass that makes basic blocks: `Stmt` and the operators `&&` and `||` of `Exp`. Its stack
has a frame per call of `Stmt`, `Block` or `Exp`, with that call's local variables (blocks, `this_cond`, `this_end`); the
actions are the stretches between recursive calls. As in `Semantic` the tree is generated on the way and logged (`prog`).
An operand is a call of which nothing is known but its truth value.

`LoweringRuns` then runs the program twice: the log by the rules of the language (`SrcStep`), and the blocks instruction by
instruction (`IrStep`). They synchronise at what can be observed: the evaluation of an operand, whose value is chosen
there, and the return. A block without a jump at its end goes on in the next block emitted, as its code does. A finished
function is called again, so every combination of truth values is followed.

### Code: Frame, Codegen

`Frame` has the layout: for the counts of a function, the register or slot of each value, variable, argument and parameter.
`Codegen` is the code generator and the machine that runs its output, at once: each action takes the next instruction of
the IR on some path through a function and does to the registers and the stack what the emitted code does. A cell holds
the *name* of what the program should find in it (value 3, variable 0, the return address, something of the caller, or
junk), so an instruction is right if it finds the names it should, and no arithmetic is modelled. Values of a block are
used once, last computed first, as code for expressions does; `live` is that stack. A callee destroys all registers and the
argument words; the pushes and pops around the call must make up for it. `yield.h` appears as the sequence of registers
queued for the next instruction: its length chooses `t5` or `t6`.

An expression with `&&` or `||` on its right splits the block while its left operand waits. `m_ht_outs` is keyed by value
*and block*, so `raw_value` does not find the waiting value in the next block and generates its code again: in the
register of the instruction that uses it, where `opnd` finds it at `reg_idx`. `Codegen` has this for loads of local
variables (`LoadEarly`, `raw_value`), which come out right as long as one instruction has one of them. Two kinds of
calls for which it does not are left out by the guard of `Call`, unless `Admit` names them: an argument that has waited, after a
literal or after another one that has (`f(3, x, a && b)`; `"waiting_arg"`, which violates `OperandsRight`), and a call of a
void function where the value generated again has no register left, as `count_vals` has not counted it
(part of `"spill_gap"`).

A function is its four counts (parameters, variables, values, arguments), chosen freely; a path must stay within them.

### Hash tables: Hashtable, Multimap

`Hashtable` is the string table with its chains as pointers (`heap`, `data`), the iterator (`view`) and the unlinking loop
of `symbols_dedent`; the hash function is any function. `Find` is the lookup of the two tables of pointers, which
returns the first match: the code generator inserts a value again when it generates it again, and must then get the newer
place. `Multimap` is the same without buckets. The iterator must not be
interleaved with changes: that is how `symbols_get` and the passes use it, and the guards say so.

## 3. What the runs check

| run | instance | shows |
|---|---|---|
| `SymbolTable` | 2 names, 6 indents and adds | `CallsDefined`: no undefined `enter`, no failing assertion; `SamePath`: the visit is in the scopes of the build; `SeesSame`: the visit sees every symbol the build saw, and no symbol of a closed scope (it may see later ones besides, so a name may resolve to one of those); `HereAgain`: a definition is found again in its scope; `Coherent`: table and queues hold the same symbols; `ImplementsTree`: the queues implement the tree of `Scoping`; `AllFreed`; `QueuesAdvance`; `VisitEnds` |
| `IrPassTree` | functions, parameters, declarations, lists, constants, blocks, loops, breaks, uses, assignments, calls, returns; 2 names, 5 nodes | `NoAbort`, `SamePath`, `SameBinding`, `BreakTarget`, `BlockRestores`, `AllFreed` for both passes: dead code does not lose the place or the target |
| `Compiler` | blocks, loops, breaks, returns, lists, constants, initializers, uses, assignments, calls; 2 names, one of a library function; 4 nodes | `RawsReady`: every value of a symbol is set before it is read; `NoAbort`; `Accounts`: each pass has what it needs, and a run that returns 0 has freed everything (but the symbol table after a semantic error); `CompilerEnds`: an accepted program of none of the kinds in `Doubtful` gets through the IR pass, and `main` ends, by returning or by an assertion of the code generator or on the output file |
| `Hashtable` | 3 keys, 2 buckets, 5 items | `ChainsSound`: chains whole, newest first, every item in the bucket its stamp names, so that the loop that unlinks it stops; `ImplementsMultimap`: walks and lookups return what they would without collisions |
| `Constants` | lists of up to 5 constants, 2 of them with any operator; words of 4 bits | `SourceOrder`: the list, read backwards, is defined in source order; `Exact`: a constant folded by operators the IR pass translates is what the program would compute, while no signed operation had a negative operand; `TreeSound` |
| `Koopa` | 8 kinds of programs, an area of 156 words, 3 appends | `AreaSound`: blocks, headers and pointer never overlap, no copy reads past the area; `ImplementsUseLists`: the lists in it are those of the abstract specification |
| `Lowering` | 4 nodes | `SameRun`: the blocks do what the source does; `WellFormed`, `OperandsReady`, `Meets` |
| `Codegen` | T_MAX 1, A_MAX 3; up to 4 parameters, 1 other variable, 6 values, 4 arguments, 1 value that waits | `OperandsRight`: every instruction and every callee finds its operands; `LiveKept`, `VarsKept`, `FrameKept`; with parameters, arguments and values both in registers and on the stack |

The other runs end in a counterexample to what a comment or an assertion of the code says:

| run | statement | what happens |
|---|---|---|
| `DeadScope` | a definition's symbol is in the current scope (`ir.c:725`) | `return` in a block, then a declaration: the IR pass skips it, and every later scope of that level is found one too early |
| `LateGlobal` | the variable a name resolves to has its value (`ir.c:793`) | a global defined after a function hides the function's local of the same name from the IR pass, as `symbols_get` takes the newest symbol in view |
| `Truncation` | "truncate all instructions after branching" (`ir.c:181`) | after a return in an inner block, the variable of an `&&` is dropped, the blocks that use it are kept |
| `CallPastT` | "push", "pop saved registers" (`codegen.c:524`, `573`) | values in a registers are in a(*k* + arguments), and a(*k*) is what is saved |

The programs of the first two runs and five more kinds, which the semantic pass accepts and the IR pass cannot translate, are
named in `Doubtful` and excluded from the passing runs; a configuration that admits one of the five has `NoAbort` violated:

- `shift`: any `<<` or `>>` that is not in the value of a constant; when `Exp` comes to it, it makes the instruction, falls
  through to the case of `+` and `-`, and panics (`ir.c:438-451`);
- `global_init`: an initializer of a global that has an instruction appended, such as `int b = a;` or `int a = -1;`
  (`ir.c:732`). Before the first function `m_curr_basic_block` is null (`ir.c:241`, `272`, `301`, `468`). After one it
  is the block that function ended in; the instruction is appended there, or dropped after its return, the passes end, and
  what the library does not refuse fails an assertion of the code generator (`codegen.c:747`);
- `sibling_init`: `int a = b, b;`, where the IR pass finds the later `b` of the list, which has no value yet (`ir.c:793`);
- `unresolved_init`: an undefined name in an initializer or assigned value, neither of which the semantic pass visits
  (`ir.c:782`);
- `call_variable`: a call of a variable; that the name is a function is checked by the IR pass only (`ir.c:261`).

In the same way `Codegen` leaves out the functions in which a value would be spilled because an argument took its register
(`Supported`): its slot is reckoned from `R_MAX` and is among the variables, against the layout drawn in
`codegen.c:321-327`. With `Admit = {"spill_gap"}` they violate `VarsKept`.

`Accounts` and `Exact` also say what the code does *not* promise: the table of a program with a semantic error is not freed,
and main then returns 0; a constant such as `-7 / 2` is not what the program would compute, and a
division by zero kills the compiler (on hosts where it traps, as on x86-64).

Each property of a passing run has a mutant in `PROJECT.json`, a plausible slip in the code it is about (kept next to the
definition it replaces, under the comment "slip"), that violates it.

### Bounds

`MaxCalls`, `MaxNodes`, `MaxNesting`, `MaxScopes`, `MaxItems`, `MaxParams`, `MaxLocals`, `MaxVals`, `MaxArgs`,
`MaxCallArgs`, `MaxIndex`, `MaxWaiting`, `MaxRich`, `MaxAppends` and `Menus` bound what the environment does, never what the
code does.

- *Scopes.* Six calls make two scopes at one level, nested scopes with symbols below them, a level that is reused after
  it was left, and shadowing: the cases in which polling, cyclic advancing and stopping at an empty scope differ from a
  tree. `MaxScopes` is 8, out of reach in the runs; in the code it is 2^15 (`int16_t scope`), and the proofs
  are for any value.
- *Programs.* The defects shown need three to five nodes; four or five nodes include two functions with blocks, a return or break
  inside a loop inside a block, and two names that shadow each other. Each run is limited to the statements (`Forms`) that
  bear on its question, so that these can be long.
- *Lowering.* Four nodes nest an operator in a condition in a loop, and let two operators or a jump follow.
- *Registers.* T_MAX 5 and A_MAX 8 become 1 and 3: every boundary (first a register, first spilled value, first
  argument on the stack, first parameter on the stack) is crossed, with operands on both sides; two values can be
  spilled at once, and arguments and values share the a registers. The two counterexamples need less or other registers.
  `MaxIndex` bounds `reg_idx`, which grows with each literal. `WRAP` stands for 2^32 in the unsigned reckoning of slots: it
  is larger than any frame, so that a slot reckoned below zero is outside it.
  One value waits (`MaxWaiting`) below up to two others of its instruction, in functions with every count.
- *Hash table.* Three keys and two buckets give collisions of different keys and repeated keys in one chain.
- *Constants.* A list of five items grows, and may move, at its second and its fifth item. `W` is 4
  instead of 32, with the literals 0, 1, 2, the largest positive number, the smallest negative one and -1, and those of the
  definitions before: two constants with operators (`MaxRich`) give every chain of two operators. All operators but
  the shifts are the same at any width; a shift by 7 is one past the width, as in the code one by 32.
- *Koopa.* Each program has what one builder needs, and enough objects for lists of one to four items to grow in turn.
  `Size` is 156 words: all but the program `Many`, which exhausts it, fit.

Names are symmetric where the run declares it; no symmetry is used with a liveness property or a library function.

### Fairness

The compiler is one thread whose traversals are recursions over a finite tree. `SymbolTable` assumes weak fairness of the
second traversal only (`Revisit`), `IrPass` of the second pass (`Ir`), `Driver` of everything in a run but the first pass
(`DriverSteps`): how long the first goes on is the input's choice. `CompilerEnds` needs the second pass, the library, the code generator and the cleanup to go on.
`LoweringRuns` assumes weak fairness of `Next`: the pass, and then the emitted program, keeps running. `Meets` says that
blocks get to the next operand or return infinitely often; a source loop evaluates its condition each time round, so
this is not a claim that programs end.

Deadlock is checked everywhere: a finished run stutters explicitly (`Over`) or starts again.

## 4. What is proved

Every theorem is for every value of the constants that its hypotheses allow: any set of names, any number of nodes,
calls, scopes, items, keys, buckets and registers. The assumptions on constants are those their modules declare
(`NoSymAssumption`: the null symbol is not an item; `BoundAssumption`, `SemanticAssumption`, `HashtableAssumption`,
`LoweringAssumption`, `FrameAssumption`, `CodegenAssumption`, `ArithmeticAssumption`, `BumpAssumption`, `KoopaAssumption`: bounds and sizes are
numbers, and sets of names and forms are what they are said to be). `PowersAssumption` says of the powers of 2 up to the
width of a word that each is a number and twice the one before: the provers know nothing of `^`. Where the code needs
a restriction on *programs*, the theorem has it as a hypothesis, and a run shows that without it the property is false.

### The symbol table: SymbolTableProofs

| theorem | says |
|---|---|
| `TypeCorrect` | `Spec => []TypeOK`: the current scope of a level is always within its queue |
| `CallsAreDefined` | `[]CallsDefined`: the visit never enters a missing or freed level; `assert(level->scope == level->begin)` holds |
| `PathIsSame` | `[]SamePath` |
| `TableCoherent` | `[]Coherent` |
| `EverythingFreed` | `[]AllFreed` |
| `QueuesOnlyAdvance` | the action property `QueuesAdvance` |
| `SeesTheSame` | `[]SeesSame`: of the symbols there were at a call of the build, the visit sees at the same call those the build saw, no fewer and no others |
| `DefinitionIsHereAgain` | `[]HereAgain`: a definition is found again in the scope that is current at its call |
| `ScopesFormTree` | `Spec => ImplementsTree`: the queues implement `Scoping`, step by step |

None of these is inductive: that `enter` finds the right scope at one call depends on how many scopes every level has seen
since the beginning of *both* traversals. The invariant is `IInv == Typed /\ History /\ Phases`:

- `History` says the tables in `snap` are a build: each follows from the one before by the call in the log, each comes
  `Before` the final one (queues only grow, and a scope that has been closed keeps its symbols), and in each the current scope
  of a level is the last of its queue (`BuildQueues`).
- `Phases` says the visit matches it. `Closed(t, l)` counts the scopes of level l that the build had opened and closed in
  table t; `Matches` says that the visit has polled exactly as many from that queue.

From it: the scope `enter` advances to is number `Closed` of the queue, the one `indent` had appended (`EnterFollows`);
`dedent` looks at the same links that `leave` had looked at, so it stops at the same level (`DedentStopsAlike`,
`DedentFollows`); and at the end all scopes are closed, hence all polled (`EverythingFreed`). `TableCoherent`
restates `Coherent` item by item (`CoherentTable`: an item is in the table exactly if a scope that is not destroyed holds
it, and its stamp names that scope), and each operation keeps it by a lemma of its own. `SymbolsProofs` has the lemmas on the
operators, among them that the level at which a run of pops stops exists and is unique (`StopExists`, `StopUnique`).

`SeesTheSame` needs what a scope links at an *earlier* call: an item carries the number it was allocated with, so it is
what the scope links at the end, less the items with greater numbers (`Grows`). `ScopesFormTree` needs that a scope is opened
by exactly one call of the log (`Named`), which makes the places in the queues names of scopes.

### The passes: CompilerProofs

| theorem | says | of programs |
|---|---|---|
| `TypeCorrect`, `PathIsSame`, `EverythingFreed` | `[]TypeOK`, `[]SamePath`, `[]AllFreed` | without scopes in dead code |
| `BreakLeavesItsLoop` | `[]BreakTarget` | the same |
| `BlocksRestore` | the action property `BlockRestores`, of both passes | the same |
| `NamesBindAlike` | `[]SameBinding` | the same, and no global with the name of an earlier local |
| `ViewIsReady` | `[]RawsReady` | the same |
| `NothingAborts` | `[]NoAbort` | of none of the kinds in `Doubtful` |

The hypotheses are `"dead_scope" \notin Admit`, `"late_global" \notin Admit` and `Admit = {}`. They are not for the sake of
the proofs: `DeadScope` and `LateGlobal` show that `VarDef` and `LVal` fail their assertions otherwise, and
each other kind violates `NoAbort` as soon as it is admitted (section 3). So `Admit = {}` means, among the rest, no shift outside
constants and no global initializer but literals and constants. What `NoAbort` is not about is the room for Koopa
objects: `bump_malloc` asserts that there is some (`bump.c:49`), which is the subject of `Koopa`.

*The invariant* (`IInv`). A tree is a sequence of nodes; that a *place* in it has scopes is not in its
state but in what the first pass did up to there. So `IInv` says there is a history: a table `T[p]` and a stack of
open braces `h[p]` before every node p, such that each follows from the one before by the handler of the node (`Turn`), and

- the blocks that are open are exactly the scopes above level 1 that link nothing (`Shape`): this is why stopping at an empty
  scope finds the end of a block, and it depends on every declaration adding at least one symbol;
- after a return there is no scope in its block (`Alive`), so that skipping to the closing brace changes no scope;
- the C stack of either pass is the stack of braces (`Frames`), each frame with the flag or the target of the braces
  below it (`Kept`, `Saved`);
- the second pass is where the first one was: its queues have polled what the first had closed (`Together`).

It is inductive, each handler of each pass keeping it by a lemma of its own. The state properties are read off it, and so
is what a closing brace does to the level (`BlocksRestore`).
That `IrSkip` stops at the right brace is `EndOfBlock` counted over the history: the stack is as deep there as at the
return and deeper in between.

*Names* need two more invariants. `Bindings` says that nothing is added to a scope of a function after the node at which it is
opened (`Fixed`), that a global is older than everything with its name (`Elders`), and that every variable and function in
view has its value (`Ready`): the second pass sees what the first saw, and in the global scope more, none of which comes
first. `Clean` says that each node was accepted by the first pass with the table it was met with (`Accepted`):
what a handler of the second pass looks up was there, and by `Bindings` it is there again with its value.

### The run: CompilerProofs

| theorem | says |
|---|---|
| `AccountsBalance` | `DriverSpec => []Accounts`, for every program and every way out of `main` |
| `RunIsOfPasses` | a run of `main` is, for the variables of the passes, a run of `IrPass` |
| `CompilerTranslates`, `CompilerIsReady` | hence `NoAbort` and `RawsReady` hold of it, under the hypotheses above |

What is held is a function of where `main` is and how far the passes have got (`Holding`), and these two move in only one
order (`Order`).

### Hash tables: HashtableProofs

| theorem | says |
|---|---|
| `TypeCorrect` | `[]TypeOK` |
| `ChainsAreSound` | `[]ChainsSound`: no chain is cut, crossed or cyclic, whatever is removed from its middle |
| `ChainsAreMultimap` | `Spec => ImplementsMultimap` |

The invariant needs no chain to be stated (`Linked`): the head of a bucket is its newest item, and the `next` of an item is
the newest of the older items of its bucket. Every operation keeps it, and since each `next` is older than its item, the
chains exist, end, and hold the items of the bucket in order (`ChainsAreSound`). What a walk has still to return is
then a set, the older items of its key (`LeftIs`), which is what `Multimap` has instead of an iterator.

### Lists and constants: ConstantsProofs

| theorem | says |
|---|---|
| `OperatorsAgree` | the evaluator and the generated code compute an operator of `Translated`, any but the shifts, to the same word wherever `Agree` says so, at any width |
| `TreeIsSound` | `[]TreeSound`, for lists of any length |
| `ConstantsInOrder`, `ConstantsAreExact` | `[]SourceOrder`, `[]Exact` |

`Built` says what the heap is while the parser works: the items on its stack, and the list with the others as its children,
without a repetition. A list that moves takes its children with it, so nothing names its old address. That
`node_delete` frees all of it is a statement about its recursion, which stops at any depth: what is below a node is what is
below the node with one level less to go, and two levels are all there are (`AllBelow`). `Ordered` ties the index of `ConstDefList` to
the constants defined so far; `Exactly` goes through an expression operator by operator with `OperatorsAgree`.

### Koopa objects: KoopaProofs

| theorem | says |
|---|---|
| `AreaIsSound` | `Spec => []AreaSound`, for areas and programs of any size |
| `Refinement` | `Spec => ImplementsUseLists`: each builder and append is one step of `UseLists`, or a stutter when the area is exhausted |

The area is `Solid`: blocks and their headers lie above the pointer and apart from one another, each header has the size of its block.
`Store` adds that every slice lies in the area *with one word above it*, as far as the copy of `bump_realloc` reads. A
write goes to a block that has just been made or to a slice's own, so what the other slices hold stays (`MallocIs`, `ReallocIs`,
`AppendIs`, and `ContentGrew` for the slice itself). A builder is a fold of allocations and a fold of appends to the
lists of its operands, one of which may come twice; `AllEntered` counts the appends with a table of the states in between. The
refinement then needs `UsersListed`: what is in an object's list is what can be told from the operands of the others,
and an object has as many entries as operands that name it.

### Basic blocks: LoweringProofs

| theorem | says |
|---|---|
| `LoweringTypes` | `[]TypeOK`: the current block exists; `m_curr_cond` and `m_curr_end` are those of the innermost loop around |
| `BlocksAreWellFormed` | `[]WellFormed`: every block of a finished function is emitted, once, left at its end only, to blocks that exist |
| `BlocksRunAsTheSource` | `[]SameRun`: the blocks evaluate the operands the source evaluates, in its order, and return when it does, with its value |
| `OperandsAreReady` | `[]OperandsReady`: no instruction that is reached reads a value not computed or a variable not allocated on the way to it |

All for functions of any size, and for any run of a finished function. The invariant is `Pass`, `Matching` and `Sim`.

`Pass` is about the frames and the blocks. `Stacked` says that only operators are on top of a frame that waits for an
expression, `Loops` that each `while` has saved the targets of the loop around it, so that `WhileEnd` restores them.
`Reserved` divides the blocks: each is emitted, or is still to be filled by exactly one frame that will emit it; so nothing is
emitted twice or forgotten, however branches end. In the middle of an action blocks may belong to no frame yet (`free`,
`later`); each step of an action moves some of them by a lemma (`MadeFree`, `Listed`, `Entered`, `Handed`, `HandedBack`).
`OpenEnded`, that only a return closes the block the pass is at, is what makes the return that `FuncDef` appends to a void function
sound: it does not go through `try_append`.

`SameRun` is a simulation, and the simulation relation grows with the blocks. `Matching` says that there is a set of tuples (node *i* of
the log, block *b*, position *k*, a fact *c*) such that whenever instruction *k* of *b* is next, the source may be about to go
through node *i*, and *c* holds of the last value: it is value *v* (`Ready`), it is in variable *v* (`InVar`), it is false
(`Known`). Each tuple is followed by others of the set (`Step`, one definition per token: `MidStep`, `ThenStep`, ...), or the node is
still open and its frame is the one that will take those who leave it to its end (`Goes`). Each action of the pass
adds tuples for the node it logs and closes the nodes that wait for it (`MatchGoesOn`, and a lemma per action up to
`LowerMatches`). `LogOK` is the grammar of the log: what is opened is closed in order, so that the innermost loop and the
operator of a `mid` are what the rules of the language look up (`LoopIs`, `OperatorIs`, `BeginIs`).

When the function is finished `Sim` follows both runs: the next instruction belongs to a tuple whose fact holds, the variables
of the operators around the node are set as `VarsAt` says, and the source is at the node or on its way from there to what
can be observed (`Reach`, since the source skips in steps of its own). A step of the blocks leads to another tuple (`NodesMove`, a lemma
per token); at a call or return both are at the same node (`Together`).

### The code generator: CodegenProofs

| theorem | says | hypotheses |
|---|---|---|
| `FrameLayout` | arguments, saved registers, variables, spilled values and return address lie in this order, without overlap, inside the frame | `NoGap` |
| `VariablesApart` | no two variables share a slot, spilled parameters included | |
| `TypesAreRight`, `VariablesAreKept`, `FrameIsKept` | `[]TypeOK`, `[]VarsKept`, `[]FrameKept` | frames fit, no `"spill_gap"` |
| `ValuesAreKept` | `[]LiveKept` | also no `"call_past_t"` |
| `OperandsAreRight` | `[]OperandsRight` | `Admit = {}` |

These are for any number of registers and functions of any counts. `FramesFit` says that no frame is as large as the
address space (`WRAP`, 2^32 in the code). `NoGap`: arguments take no register from a value; with `Admit = {"spill_gap"}` the run
`Codegen` violates `VarsKept`.

The invariant `Kept` says where things are: live values below `out_idx` in their registers or slots, variables, the return address, the
caller's words and the parameters not yet taken in their places. In the middle of an instruction the state is a
machine (`Machine`) whose registers and stack are ahead of the variables; `Carries` says what it still has of them.
Every helper of the generator (`raw_value`, `opnd`, `oper`, the moves of arguments, the saves around a call) has a lemma that it goes
on carrying them, because it writes only to slots that are `Working` ones, apart from all others by `FrameLayout`,
and to registers from `reg_idx` on. A fold over the operands is followed step by step with the table of its
machines.

### Only model-checked

- `VisitEnds`, `CompilerEnds`, `Meets`: liveness under fairness is out of the prover's reach.
- The statements of the four runs that end in a counterexample, which are false.

Induction itself is not out of reach where it is about a number: the proofs go by the least element of a set of
naturals for which a fact fails (`SetInduction`, `Greatest`), not by the library's theorems on operators. So can a fold be
followed, once the states in between are written as a function (`FoldTable`).

## 5. What is not modelled

- **Vectors**: `push` grows as `node_add_child` does (`Tree`); `pop` and `back` are never called. The levels vector is a
  function in `Symbols`.
- **Values generated again in a later block, other than loads of local variables**: a call is made twice, the load of a
  global variable or an operator uses registers of its own. `Codegen` lets only loads of locals wait.
- **Expressions that are not constant in the first pass**: it evaluates them, too, with 1 for each variable and call, and
  may divide by zero doing so. `Constants` has constant expressions; to `Semantic` an expression is of one of four kinds.
- **What is appended to the block of an earlier function** by the initializer of a global: `Semantic` can admit such
  programs, but what becomes of that function is not followed.
- **Running out of the bump area in the passes**: `Koopa` has it, for the objects of small programs; `IrPass` allocates
  nothing.
- **`setjmp` and `longjmp` of `yield.h`**: only the order of operands and the choice of register. The code jumps into
  frames that have returned, which C leaves undefined.
- **Types, global data, names** (`mangle`, and their truncation to `IDENT_MAX`): tables and formatting.
- **The automata of lexer and parser** (generated; `Tree` has the list rules), the other nodes of the tree, which have a fixed
  number of children, **the debug printer**, **the Koopa library** (third party) and **the sample application**.
- **Scopes beyond 2^15 per level**: `RoomAbove` is the limit; the wrapped arithmetic past it is not modelled.

## 6. Plan

Done: the symbol table with its abstraction and proofs; both passes and the run of the compiler around them; the hash table
with its abstraction; lists and constants from the parser on; Koopa objects in their area with their abstraction; basic
blocks with their execution; code generation with values that wait, and the frame with proofs.

Left to model: the calls and operators that are generated again in a later block; the two contexts of `yield.h` as far as C
defines them.

Proved: everything the passing runs check, but liveness.

## 7. Running

    tlc -workers 2 -config SymbolTable.cfg MCSymbolTable.tla     # PROJECT.json names the module of each cfg
    tlapm SymbolTableProofs.tla                                  # likewise the other modules *Proofs; CompilerProofs and LoweringProofs take minutes
