--------------------------- MODULE CompilerProofs ---------------------------
(***************************************************************************)
(* Theorems about IrPass, for every grammar of programs that generates no  *)
(* doubtful one, every set of names and every bound, and about Driver.     *)
(*                                                                         *)
(* The argument: the tree is a history.  Before every node it has a table, *)
(* "T", and a stack of open braces, "h"; both follow from the nodes before *)
(* it ("Turn"), and the stack tells where in the table the blocks are      *)
(* ("Shape").  The second pass meets the same nodes, less those after a    *)
(* return, which change neither: so its queues stand where those of the    *)
(* first pass stood ("Together" of SymbolsProofs), and its stack is the    *)
(* same.                                                                   *)
(*                                                                         *)
(* What names mean to the two passes: their scopes are the same, those of  *)
(* the second one filled.  A scope inside a function is filled at the node *)
(* that opens it ("Fixed"), so only the global one can have more in it at  *)
(* a node than it had for the first pass; and a global is older than       *)
(* everything with its name ("Elders"), so none of those is in the way.    *)
(*                                                                         *)
(* What main holds around them is known at every stage from the stage and  *)
(* from how far the passes have got ("Holding"), and the two go on only in *)
(* one order ("Order").  What main does between the passes leaves their    *)
(* state alone, so what is shown of them is true of a run of the compiler. *)
(***************************************************************************)
EXTENDS Driver, SymbolsProofs, SequenceTheorems, FiniteSetTheorems

\* A sequence, whatever is in it.
IsSeq(s) == Len(s) \in Nat /\ s \in Seq({s[i] : i \in 1 .. Len(s)})

\* A table of the first pass, and one of the same pass after it.
Good(s) == SymbolsOK(s) /\ BuildQueues(s) /\ CoherentTable(s) /\ Numbered(s)

Later(s, t) == Before(s, t) /\ Grows(s, t)

\* What the current scope of a level links.
Link(s, l) == s.levels[l].scopes[s.levels[l].scope]

Plain == {"use", "assign", "call", "return", "break"}

\* The table t and the stack g after node p, from s and e before it: a node of a
\* tree is met with "Turn(a[p], p, T[p], h[p], T[p + 1], h[p + 1])".
Turn(node, p, s, e, t, g) ==
    \/ /\ node.kind = "func" /\ e = <<>>
       /\ node.name \in Name /\ node.params \in Params
       /\ t = symbols_indent(AddAll(symbols_indent(symbols_add(s, node.name, "FUNCTION")),
                                    node.params, "VARIABLE"))
       /\ g = <<p>>
    \/ /\ node.kind = "decl"
       /\ node.tag \in {"VARIABLE", "CONSTANT"} /\ node.defs \in Defs
       /\ t = AddAll(IF s.level > 0 THEN symbols_indent(s) ELSE s,
                     NamesOf(node.defs), node.tag)
       /\ g = e
    \/ /\ node.kind = "open" /\ e # <<>>
       /\ node.loop \in BOOLEAN
       /\ t = symbols_indent(s)
       /\ g = Append(e, p)
    \/ /\ node.kind = "close" /\ e # <<>>
       /\ t = IF Len(e) = 1 THEN symbols_leave(symbols_leave(s)) ELSE symbols_leave(s)
       /\ g = Front(e)
    \/ /\ node.kind \in Plain /\ e # <<>>
       /\ node.kind = "return" => node.direct \in BOOLEAN
       /\ t = s /\ g = e
    \/ /\ node.kind = "eof" /\ e = <<>>
       /\ t = s /\ g = e

\* The level of the scope of the block that node q opens.
Block(a, T, q) == T[q].level + (IF a[q].kind = "func" THEN 2 ELSE 1)

\* The blocks that are open before node p are the scopes that link nothing.
Shape(a, T, p, s, g) ==
    /\ g \in Seq(1 .. p - 1)
    /\ g = <<>> => s.level = 0
    /\ \A i \in 1 .. Len(g) :
          /\ a[g[i]].kind = IF i = 1 THEN "func" ELSE "open"
          /\ i = 1 => T[g[i]].level = 0
          /\ i # 1 => a[g[i]].loop \in BOOLEAN
          /\ Block(a, T, g[i]) <= s.level
          /\ Link(s, Block(a, T, g[i])) = {}
          /\ \A j \in i + 1 .. Len(g) : Block(a, T, g[i]) <= T[g[j]].level
    /\ \A l \in 2 .. s.level :
          Link(s, l) = {} => \E i \in 1 .. Len(g) : l = Block(a, T, g[i])

\* A return that is directly in a block.
Returns(a, q) == a[q].kind = "return" /\ a[q].direct

\* After such a return there is no scope in its block.
Alive(a, h, p) ==
    a[p].kind \in {"open", "decl"} =>
        \A q \in 1 .. p - 1 : Returns(a, q) => h[q] # h[p]

\* One of the first n braces of the stack g is a loop.
LoopIn(a, g, n) == \E j \in 1 .. n : a[g[j]].kind = "open" /\ a[g[j]].loop

Tree(a, T, h) ==
    /\ IsSeq(a)
    /\ T[1] = AddLib(symbols_new) /\ h[1] = <<>>
    /\ \A p \in 1 .. Len(a) :
          /\ Turn(a[p], p, T[p], h[p], T[p + 1], h[p + 1]) /\ Alive(a, h, p)
          /\ a[p].kind = "break" => LoopIn(a, h[p], Len(h[p]))
          /\ a[p].kind = "eof" => p = Len(a)
    /\ \A p \in 1 .. Len(a) + 1 :
          /\ Good(T[p]) /\ Later(T[p], T[Len(a) + 1])
          /\ Shape(a, T, p, T[p], h[p])

\* A frame of the C stack is its fields.
IsFrame(f) == f = [kind |-> f.kind, node |-> f.node, base |-> f.base, while |-> f.while,
                   target |-> f.target, dead |-> f.dead]

\* f is the frame of the brace at p.
FrameOf(f, a, T, p) ==
    /\ IsFrame(f)
    /\ f.node = p /\ f.base = T[p].level
    /\ f.kind = IF a[p].kind = "func" THEN "func" ELSE "block"

\* The C stack c of either pass is the stack g of braces.
Frames(c, a, T, g) ==
    /\ IsSeq(c) /\ Len(c) = Len(g)
    /\ \A i \in 1 .. Len(c) : FrameOf(c[i], a, T, g[i])

\* e is the innermost loop of the first n braces of g, or 0.
IsTarget(a, g, n, e) ==
    \/ e = 0 /\ ~LoopIn(a, g, n)
    \/ \E i \in 1 .. n : /\ e = g[i] /\ a[g[i]].kind = "open" /\ a[g[i]].loop
                         /\ \A j \in i + 1 .. n : ~(a[g[j]].kind = "open" /\ a[g[j]].loop)

\* The stack e is the first n braces of the stack g.
StartOf(e, g, n) == Len(e) = n /\ \A j \in 1 .. n : e[j] = g[j]

\* What the first pass keeps on the C stack: the flag of the loops around a brace,
\* and whether a return was met directly inside.
Kept(c, while, a, T, h, g) ==
    /\ Frames(c, a, T, g)
    /\ while \in BOOLEAN /\ (while <=> LoopIn(a, g, Len(g)))
    /\ \A i \in 1 .. Len(g) :
          /\ c[i].while \in BOOLEAN /\ (c[i].while <=> LoopIn(a, g, i - 1))
          /\ \A q \in 1 .. Len(a) :
                Returns(a, q) /\ StartOf(h[q], g, i) => c[i].dead = TRUE

InSemantic(T, h) ==
    LET n == Len(ast) + 1
    IN  /\ symbols = T[n]
        /\ \A p \in 1 .. Len(ast) : ast[p].kind # "eof"
        /\ pos = 1 /\ m_returned = FALSE /\ m_curr_end = 0
        /\ raws \in SUBSET (0 .. symbols.count - 1)
        /\ Kept(ctl, m_while, ast, T, h, h[n])

\* What the second pass keeps on it: the loop a break jumped out of before.
Saved(c, end, a, T, g) ==
    /\ Frames(c, a, T, g)
    /\ IsTarget(a, g, Len(g), end)
    /\ \A i \in 1 .. Len(g) : IsTarget(a, g, i - 1, c[i].target)

InIr(T, h) ==
    LET f == T[Len(ast) + 1]
    IN  /\ pos \in 1 .. Len(ast) /\ ast[Len(ast)].kind = "eof"
        /\ Together(symbols, T[pos], f) /\ CoherentTable(symbols)
        /\ symbols.count = f.count
        /\ raws \in SUBSET (0 .. symbols.count - 1)
        /\ m_while \in BOOLEAN /\ m_returned \in BOOLEAN
        /\ m_returned => \E q \in 1 .. pos - 1 : Returns(ast, q) /\ h[q] = h[pos]
        /\ Saved(ctl, m_curr_end, ast, T, h[pos])

\* After it.
AllOver ==
    /\ pos \in 1 .. Len(ast) /\ m_while \in BOOLEAN /\ m_returned \in BOOLEAN
    /\ m_curr_end = 0 /\ ctl = <<>>
    /\ raws \in SUBSET (0 .. symbols.count - 1)
    /\ SymbolsOK(symbols) /\ symbols.table = {} /\ symbols.level = -1
    /\ \A l \in 0 .. symbols.depth - 1 : symbols.levels[l].mem = "freed"

History(T, h) ==
    /\ phase \in {"semantic", "rejected", "ir", "aborted", "done"}
    /\ Tree(ast, T, h)
    /\ IsSeq(snap) /\ Len(snap) = Len(ast)
    /\ \A p \in 1 .. Len(ast) : snap[p] = T[p]
    /\ phase \in {"semantic", "rejected"} => InSemantic(T, h)
    /\ phase \in {"ir", "aborted"} => InIr(T, h)
    /\ phase = "done" => AllOver

IInv == \E T, h : History(T, h)
-----------------------------------------------------------------------------
(* Tables of the first pass. *)

LEMMA LaterItself ==
    ASSUME NEW s, Good(s)
    PROVE  Later(s, s)
BY BeforeItself, GrowsItself DEF Good, Later

LEMMA LaterTransitive ==
    ASSUME NEW a, NEW b, NEW c, Good(a), Good(b), Good(c), Later(a, b), Later(b, c)
    PROVE  Later(a, c)
BY BeforeTransitive, GrowsTransitive DEF Good, Later

\* What Good says of a table and of one level of it, as plain arithmetic.
LEMMA GoodTypes ==
    ASSUME NEW s, Good(s)
    PROVE  /\ s.level \in Nat /\ s.depth \in Nat /\ s.level < s.depth /\ s.count \in Nat
           /\ s.level \in 0 .. s.depth - 1
           /\ \A l \in 0 .. s.depth - 1 :
                 /\ s.levels[l].end \in Nat \ {0}
                 /\ s.levels[l].scope = s.levels[l].end - 1
                 /\ s.levels[l].scope \in 0 .. s.levels[l].end - 1
                 /\ s.levels[l].begin = 0
<1>1. ASSUME NEW l \in 0 .. s.depth - 1
      PROVE  /\ s.levels[l].end \in Nat \ {0}
             /\ s.levels[l].scope = s.levels[l].end - 1
             /\ s.levels[l].scope \in 0 .. s.levels[l].end - 1
             /\ s.levels[l].begin = 0
  <2>1. s.levels[l].end \in Nat \ {0} /\ s.levels[l].scope \in Nat
    BY QueueTypes DEF Good
  <2>2. s.levels[l].scope = s.levels[l].end - 1 /\ s.levels[l].begin = 0
    BY DEF Good, BuildQueues
  <2> QED
    BY <2>1, <2>2
<1>2. /\ s.level \in Nat /\ s.depth \in Nat /\ s.level < s.depth /\ s.count \in Nat
      /\ s.level \in 0 .. s.depth - 1
  BY DEF Good, SymbolsOK, BuildQueues
<1> QED
  BY <1>1, <1>2

\* symbols_indent opens a scope that links nothing above those that are open.
LEMMA GoodIndent ==
    ASSUME NEW s, Good(s), NEW t, t = symbols_indent(s)
    PROVE  /\ Good(t) /\ Later(s, t) /\ t.level = s.level + 1 /\ t.count = s.count
           /\ Link(t, t.level) = {}
           /\ \A l \in 0 .. s.level : t.levels[l] = s.levels[l]
<1>1. SymbolsOK(s) /\ BuildQueues(s) /\ CoherentTable(s) /\ Numbered(s)
  BY DEF Good
<1>2. SymbolsOK(t) /\ BuildQueues(t) /\ Before(s, t)
  BY <1>1, IndentBuilds
<1>3. CoherentTable(t) /\ Numbered(t) /\ Grows(s, t)
  BY <1>1, CoherentIndent, IndentGrows
<1>4. /\ t.count = s.count /\ t.level = s.level + 1
      /\ t.levels[s.level + 1].scope = t.levels[s.level + 1].end - 1
      /\ t.levels[s.level + 1].scopes[t.levels[s.level + 1].end - 1] = {}
      /\ \A j \in 0 .. s.depth - 1 : j # s.level + 1 => t.levels[j] = s.levels[j]
  BY <1>1, IndentScopes
<1>5. \A l \in 0 .. s.level : l \in 0 .. s.depth - 1 /\ l # s.level + 1
  BY GoodTypes
<1> QED
  BY <1>2, <1>3, <1>4, <1>5 DEF Good, Later, Link

\* symbols_add adds to the current scope, and closes none.
LEMMA GoodAdd ==
    ASSUME NEW s, Good(s), NEW key \in Name, NEW tag \in Tag,
           NEW t, t = symbols_add(s, key, tag)
    PROVE  /\ Good(t) /\ Later(s, t) /\ t.level = s.level /\ t.depth = s.depth
           /\ t.count = s.count + 1
           /\ t.table = s.table \cup {NewItem(s, key, tag)}
           /\ Link(t, s.level) = Link(s, s.level) \cup {NewItem(s, key, tag)}
           /\ \A l \in 0 .. s.depth - 1 : l # s.level => t.levels[l] = s.levels[l]
           /\ \A k \in Nat : Closed(t, k) = Closed(s, k)
<1>1. SymbolsOK(s) /\ BuildQueues(s) /\ CoherentTable(s) /\ Numbered(s)
  BY DEF Good
<1>2. SymbolsOK(t) /\ BuildQueues(t) /\ Before(s, t)
  BY <1>1, AddBuilds
<1>3. CoherentTable(t) /\ Numbered(t) /\ Grows(s, t)
  BY <1>1, CoherentAdd, AddGrows
<1>4. /\ t.table = s.table \cup {NewItem(s, key, tag)} /\ t.count = s.count + 1
      /\ t.level = s.level /\ t.depth = s.depth
      /\ \A l \in 0 .. s.depth - 1 : l # s.level => t.levels[l] = s.levels[l]
  BY <1>1, SymbolsAdd DEF SymbolsOK, BuildQueues
<1>5. s.level \in 0 .. s.depth - 1 /\ s.levels[s.level].scope \in 0 .. s.levels[s.level].end - 1
  BY GoodTypes
<1>6. Link(t, s.level) = Link(s, s.level) \cup {NewItem(s, key, tag)}
  <2>1. /\ t.levels[s.level].scope = s.levels[s.level].scope
        /\ \A k \in 0 .. s.levels[s.level].end - 1 :
              t.levels[s.level].scopes[k] = s.levels[s.level].scopes[k] \cup
                 (IF s.level = s.level /\ k = s.levels[s.level].scope
                  THEN {NewItem(s, key, tag)} ELSE {})
    BY <1>1, <1>5, AddScopes
  <2> QED
    BY <1>5, <2>1 DEF Link
<1>7. \A k \in Nat : Closed(t, k) = Closed(s, k)
  BY <1>1, AddCloses
<1> QED
  BY <1>2, <1>3, <1>4, <1>6, <1>7 DEF Good, Later

\* symbols_leave changes the level and nothing else.
LEMMA GoodLeave ==
    ASSUME NEW s, Good(s), s.level > 0, NEW t, t = symbols_leave(s)
    PROVE  /\ Good(t) /\ Later(s, t) /\ t.level = LeaveStop(s) - 1
           /\ t.levels = s.levels /\ t.depth = s.depth /\ t.count = s.count
           /\ t.table = s.table
<1>1. SymbolsOK(s) /\ BuildQueues(s) /\ CoherentTable(s) /\ Numbered(s)
  BY DEF Good
<1>2. SymbolsOK(t) /\ BuildQueues(t) /\ Before(s, t)
  BY <1>1, LeaveBuilds
<1>3. CoherentTable(t) /\ Numbered(t) /\ Grows(s, t)
  BY <1>1, CoherentLeave, LeaveGrows
<1>4. /\ t.level = LeaveStop(s) - 1 /\ t.levels = s.levels /\ t.depth = s.depth
      /\ t.count = s.count /\ t.table = s.table
  BY <1>1, SymbolsLeave DEF SymbolsOK
<1> QED
  BY <1>2, <1>3, <1>4 DEF Good, Later

\* A set that has 0 and the successor of each of its naturals has every natural.
LEMMA SetInduction ==
    ASSUME NEW G, 0 \in G, \A n \in Nat : n \in G => n + 1 \in G
    PROVE  Nat \subseteq G
<1> DEFINE R == {ss \in Nat \X Nat : ss[1] < ss[2]}
           U == {n \in Nat : n \notin G}
<1> SUFFICES ASSUME U # {} PROVE FALSE
  OBVIOUS
<1>1. IsWellFoundedOn(R, Nat)
  BY NatLessThanWellFounded, Zenon DEF OpToRel
<1>2. PICK m \in U : \A u \in U : ~(<<u, m>> \in R)
  <2>1. U \subseteq Nat
    OBVIOUS
  <2> HIDE DEF R, U
  <2> QED  BY <1>1, <2>1, WFMin
<1>3. m \in Nat /\ m # 0 /\ m \notin G
  OBVIOUS
<1>4. m - 1 \in Nat /\ m - 1 < m
  BY <1>3
<1>5. m - 1 \in G
  BY <1>2, <1>3, <1>4
<1> QED
  BY <1>3, <1>4, <1>5

\* The tables that AddAll goes through exist.
AddedIs(f, s, keys, tag) ==
    f = [i \in 0 .. Len(keys) |-> IF i = 0 THEN s ELSE symbols_add(f[i - 1], keys[i], tag)]

LEMMA AddedExists ==
    ASSUME NEW s, NEW keys, Len(keys) \in Nat, NEW tag
    PROVE  \E f : AddedIs(f, s, keys, tag)
<1> DEFINE G == {n \in Nat : \E f : \A i \in 0 .. n :
                    f[i] = IF i = 0 THEN s ELSE symbols_add(f[i - 1], keys[i], tag)}
<1>1. 0 \in G
  <2> DEFINE f == [i \in {0} |-> s]
  <2>1. \A i \in 0 .. 0 :
           f[i] = IF i = 0 THEN s ELSE symbols_add(f[i - 1], keys[i], tag)
    OBVIOUS
  <2> HIDE DEF f
  <2> QED  BY <2>1
<1>2. ASSUME NEW n \in Nat, n \in G
      PROVE  n + 1 \in G
  <2>1. PICK f : \A i \in 0 .. n :
                    f[i] = IF i = 0 THEN s ELSE symbols_add(f[i - 1], keys[i], tag)
    BY <1>2
  <2> DEFINE g == [i \in 0 .. n + 1 |-> IF i <= n THEN f[i]
                                        ELSE symbols_add(f[n], keys[n + 1], tag)]
  <2>2. /\ \A i \in 0 .. n : g[i] = f[i]
        /\ g[n + 1] = symbols_add(f[n], keys[n + 1], tag)
    OBVIOUS
  <2> HIDE DEF g
  <2>3. \A i \in 0 .. n + 1 :
           g[i] = IF i = 0 THEN s ELSE symbols_add(g[i - 1], keys[i], tag)
    <3> TAKE i \in 0 .. n + 1
    <3>1. CASE i = n + 1
      BY <2>2, <3>1
    <3>2. CASE i # n + 1
      <4>1. i \in 0 .. n /\ (i # 0 => i - 1 \in 0 .. n)
        BY <3>2
      <4> QED
        BY <2>1, <2>2, <4>1
    <3> QED  BY <3>1, <3>2
  <2> QED
    BY <2>3
<1> HIDE DEF G
<1>3. Len(keys) \in G
  BY <1>1, <1>2, SetInduction
<1>4. PICK f : \A i \in 0 .. Len(keys) :
                  f[i] = IF i = 0 THEN s ELSE symbols_add(f[i - 1], keys[i], tag)
  BY <1>3 DEF G
<1> DEFINE g == [i \in 0 .. Len(keys) |-> f[i]]
<1>5. g = [i \in 0 .. Len(keys) |->
              IF i = 0 THEN s ELSE symbols_add(g[i - 1], keys[i], tag)]
  <2>1. \A i \in 0 .. Len(keys) :
           f[i] = IF i = 0 THEN s ELSE symbols_add(g[i - 1], keys[i], tag)
    <3> TAKE i \in 0 .. Len(keys)
    <3>1. i # 0 => i - 1 \in 0 .. Len(keys)
      OBVIOUS
    <3> QED
      BY <1>4, <3>1
  <2> QED
    BY <2>1
<1> QED
  BY <1>5 DEF AddedIs

\* AddAll is one symbols_add after the other.
LEMMA AddAllSteps ==
    ASSUME NEW s, NEW keys, Len(keys) \in Nat, NEW tag
    PROVE  \E f : /\ f[0] = s /\ AddAll(s, keys, tag) = f[Len(keys)]
                  /\ \A i \in 1 .. Len(keys) : f[i] = symbols_add(f[i - 1], keys[i], tag)
<1> DEFINE added == CHOOSE f : AddedIs(f, s, keys, tag)
<1>1. AddedIs(added, s, keys, tag)
  BY AddedExists
<1>2. AddAll(s, keys, tag) = added[Len(keys)]
  BY DEF AddAll, AddedIs
<1> HIDE DEF added
<1>3. added[0] = s
  BY <1>1 DEF AddedIs
<1>4. ASSUME NEW i \in 1 .. Len(keys)
      PROVE  added[i] = symbols_add(added[i - 1], keys[i], tag)
  <2>1. i \in 0 .. Len(keys) /\ i # 0
    OBVIOUS
  <2> QED
    BY <1>1, <2>1 DEF AddedIs
<1> QED
  BY <1>2, <1>3, <1>4

\* The tables between, and the last one.
Adds(f, s, keys, tag) ==
    f[0] = s /\ \A i \in 1 .. Len(keys) : f[i] = symbols_add(f[i - 1], keys[i], tag)

\* What one more table of AddAll has in common with the first.
Added(s, t, n) ==
    /\ Good(t) /\ Later(s, t) /\ t.level = s.level /\ t.depth = s.depth
    /\ t.count = s.count + n
    /\ n > 0 => Link(t, s.level) # {}
    /\ \A l \in 0 .. s.depth - 1 : l # s.level => t.levels[l] = s.levels[l]
    /\ \A k \in Nat : Closed(t, k) = Closed(s, k)

LEMMA AddedAgain ==
    ASSUME NEW s, Good(s), NEW n \in Nat, NEW u, Added(s, u, n),
           NEW key \in Name, NEW tag \in Tag, NEW t, t = symbols_add(u, key, tag)
    PROVE  Added(s, t, n + 1)
<1>1. /\ Good(u) /\ Later(s, u) /\ u.level = s.level /\ u.depth = s.depth
      /\ u.count = s.count + n
      /\ \A l \in 0 .. s.depth - 1 : l # s.level => u.levels[l] = s.levels[l]
      /\ \A j \in Nat : Closed(u, j) = Closed(s, j)
  BY DEF Added
<1>2. /\ Good(t) /\ Later(u, t) /\ t.level = u.level /\ t.depth = u.depth
      /\ t.count = u.count + 1
      /\ Link(t, u.level) = Link(u, u.level) \cup {NewItem(u, key, tag)}
      /\ \A l \in 0 .. u.depth - 1 : l # u.level => t.levels[l] = u.levels[l]
      /\ \A j \in Nat : Closed(t, j) = Closed(u, j)
  BY <1>1, GoodAdd
<1>3. Later(s, t)
  BY <1>1, <1>2, LaterTransitive
<1>4. Link(t, s.level) # {}
  BY <1>1, <1>2
<1>5. t.count = s.count + (n + 1)
  BY <1>1, <1>2, GoodTypes
<1> QED
  BY <1>1, <1>2, <1>3, <1>4, <1>5 DEF Added

LEMMA AddedKeeps ==
    ASSUME NEW s, Good(s), NEW keys, Len(keys) \in Nat, NEW tag \in Tag,
           \A i \in 1 .. Len(keys) : keys[i] \in Name,
           NEW f, Adds(f, s, keys, tag), NEW n \in 0 .. Len(keys)
    PROVE  Added(s, f[n], n)
<1> DEFINE G == {k \in Nat : k <= Len(keys) => Added(s, f[k], k)}
<1>1. 0 \in G
  <2>1. f[0] = s
    BY DEF Adds
  <2>2. Later(s, s) /\ s.count + 0 = s.count
    BY LaterItself, GoodTypes
  <2>3. Added(s, f[0], 0)
    BY <2>1, <2>2 DEF Added
  <2> QED
    BY <2>3
<1>2. ASSUME NEW k \in Nat, k \in G
      PROVE  k + 1 \in G
  <2> SUFFICES ASSUME k + 1 <= Len(keys) PROVE Added(s, f[k + 1], k + 1)
    OBVIOUS
  <2>1. k + 1 \in 1 .. Len(keys) /\ (k + 1) - 1 = k /\ k <= Len(keys)
    OBVIOUS
  <2>2. f[k + 1] = symbols_add(f[k], keys[k + 1], tag) /\ keys[k + 1] \in Name
    BY <2>1 DEF Adds
  <2>3. Added(s, f[k], k)
    BY <1>2, <2>1
  <2> HIDE DEF G
  <2> QED
    BY <2>2, <2>3, AddedAgain
<1> HIDE DEF G
<1>3. n \in G /\ n <= Len(keys)
  BY <1>1, <1>2, SetInduction
<1> QED
  BY <1>3 DEF G

LEMMA AddedOnce ==
    ASSUME NEW s, Good(s), NEW key \in Name, NEW tag \in Tag,
           NEW t, t = symbols_add(s, key, tag)
    PROVE  Added(s, t, 1)
<1>1. /\ Good(t) /\ Later(s, t) /\ t.level = s.level /\ t.depth = s.depth
      /\ t.count = s.count + 1
      /\ Link(t, s.level) = Link(s, s.level) \cup {NewItem(s, key, tag)}
      /\ \A l \in 0 .. s.depth - 1 : l # s.level => t.levels[l] = s.levels[l]
      /\ \A k \in Nat : Closed(t, k) = Closed(s, k)
  BY GoodAdd
<1> QED
  BY <1>1 DEF Added

LEMMA AddAllKeeps ==
    ASSUME NEW s, Good(s), NEW keys, Len(keys) \in Nat, NEW tag \in Tag,
           \A i \in 1 .. Len(keys) : keys[i] \in Name
    PROVE  Added(s, AddAll(s, keys, tag), Len(keys))
<1>1. PICK f : Adds(f, s, keys, tag) /\ AddAll(s, keys, tag) = f[Len(keys)]
  BY AddAllSteps DEF Adds
<1>2. Len(keys) \in 0 .. Len(keys)
  OBVIOUS
<1> QED
  BY <1>1, <1>2, AddedKeeps

-----------------------------------------------------------------------------
(* Sequences. *)

LEMMA SeqIs ==
    ASSUME NEW S, NEW s \in Seq(S)
    PROVE  IsSeq(s)
<1>1. Len(s) \in Nat /\ s = [i \in 1 .. Len(s) |-> s[i]]
  OBVIOUS
<1> DEFINE R == {s[i] : i \in 1 .. Len(s)}
<1>2. \A i \in 1 .. Len(s) : s[i] \in R
  OBVIOUS
<1> HIDE DEF R
<1>3. s \in Seq(R)
  BY <1>1, <1>2
<1> QED
  BY <1>1, <1>3 DEF IsSeq, R

LEMMA FrontIs ==
    ASSUME NEW s, IsSeq(s), s # <<>>, NEW t, t = Front(s)
    PROVE  /\ IsSeq(t) /\ Len(t) = Len(s) - 1 /\ Len(s) \in Nat \ {0}
           /\ \A i \in 1 .. Len(s) - 1 : t[i] = s[i]
<1> DEFINE S == {s[i] : i \in 1 .. Len(s)}
<1>1. Len(s) \in Nat /\ s \in Seq(S)
  BY DEF IsSeq
<1> HIDE DEF S
<1>2. Len(s) \in Nat \ {0}
  BY <1>1
<1>3. /\ t \in Seq(S) /\ Len(t) = Len(s) - 1
      /\ \A i \in 1 .. Len(s) - 1 : t[i] = s[i]
  <2>1. t = SubSeq(s, 1, Len(s) - 1)
    BY DEF Front
  <2>2. PICK n \in Nat : n = Len(s) - 1
    BY <1>2
  <2>3. 1 \in Int /\ n \in Int /\ \A i \in 1 .. n : s[i] \in S
    BY <1>1, <2>2
  <2>4. /\ t \in Seq(S)
        /\ Len(t) = IF 1 <= n THEN n - 1 + 1 ELSE 0
        /\ \A i \in 1 .. n - 1 + 1 : t[i] = s[1 + i - 1]
    BY <2>1, <2>2, <2>3, SubSeqProperties
  <2>5. Len(t) = n
    BY <2>4
  <2>6. ASSUME NEW i \in 1 .. n
        PROVE  t[i] = s[i]
    <3>1. i \in 1 .. n - 1 + 1 /\ 1 + i - 1 = i
      OBVIOUS
    <3> QED
      BY <2>4, <3>1
  <2> QED
    BY <2>2, <2>4, <2>5, <2>6
<1> QED
  BY <1>2, <1>3, SeqIs

\* ctl[Len(ctl)] with another field.
Updated(t, s, k, x) == t = [s EXCEPT ![k] = x]

LEMMA ExceptIs ==
    ASSUME NEW s, IsSeq(s), NEW k \in 1 .. Len(s), NEW x, NEW t, Updated(t, s, k, x)
    PROVE  /\ IsSeq(t) /\ Len(t) = Len(s) /\ t[k] = x
           /\ \A i \in 1 .. Len(s) : i # k => t[i] = s[i]
<1> DEFINE S == {s[i] : i \in 1 .. Len(s)} \cup {x}
<1>1. Len(s) \in Nat /\ s \in Seq(S)
  <2>1. s \in Seq({s[i] : i \in 1 .. Len(s)}) /\ {s[i] : i \in 1 .. Len(s)} \subseteq S
    BY DEF IsSeq
  <2> QED
    BY <2>1, SeqMonotonic DEF IsSeq
<1>2. x \in S
  OBVIOUS
<1> HIDE DEF S
<1>3. /\ t \in Seq(S) /\ Len(t) = Len(s) /\ t[k] = x
      /\ \A i \in 1 .. Len(s) : i # k => t[i] = s[i]
  BY <1>1, <1>2 DEF Updated
<1> QED
  BY <1>3, SeqIs

\* (The provers rewrite Append before they look for a lemma about it.)
Pushed(t, s, x) == t = Append(s, x)

LEMMA AppendIs ==
    ASSUME NEW s, IsSeq(s), NEW x, NEW t, Pushed(t, s, x)
    PROVE  /\ IsSeq(t) /\ Len(t) = Len(s) + 1 /\ t # <<>> /\ Front(t) = s
           /\ t[Len(s) + 1] = x
           /\ \A i \in 1 .. Len(s) : t[i] = s[i]
<1> DEFINE S == {s[i] : i \in 1 .. Len(s)} \cup {x}
<1>1. Len(s) \in Nat /\ s \in Seq(S)
  <2>1. s \in Seq({s[i] : i \in 1 .. Len(s)}) /\ {s[i] : i \in 1 .. Len(s)} \subseteq S
    BY DEF IsSeq
  <2> QED
    BY <2>1, SeqMonotonic DEF IsSeq
<1> HIDE DEF S
<1>2. x \in S
  BY DEF S
<1>6. t = Append(s, x)
  BY DEF Pushed
<1>3. /\ t \in Seq(S) /\ Len(t) = Len(s) + 1
      /\ t[Len(s) + 1] = x
      /\ \A i \in 1 .. Len(s) : t[i] = s[i]
  BY <1>1, <1>2, <1>6
<1>4. IsSeq(t)
  BY <1>3, SeqIs
<1>5. Front(t) = s
  BY <1>1, <1>2, <1>3, <1>6 DEF Front
<1> QED
  BY <1>1, <1>3, <1>4, <1>5

-----------------------------------------------------------------------------
(* The first table. *)

LEMMA LibKeys ==
    ASSUME NEW keys, keys = SetToSeq(Lib)
    PROVE  /\ Len(keys) \in Nat
           /\ \A i \in 1 .. Len(keys) : keys[i] \in Lib /\ keys[i] \in Name
           /\ \A i, j \in 1 .. Len(keys) : keys[i] = keys[j] => i = j
<1> DEFINE n == Cardinality(Lib)
<1>1. n \in Nat /\ ExistsBijection(1 .. n, Lib)
  BY SemanticAssumption, FS_CardinalityType
<1>2. PICK f : f \in Bijection(1 .. n, Lib)
  BY <1>1 DEF ExistsBijection
<1>3. f \in [1 .. n -> Lib] /\ IsInjective(f)
  BY <1>2 DEF Bijection, Injection
<1>4. keys \in [1 .. n -> Lib] /\ IsInjective(keys)
  BY <1>3 DEF SetToSeq
<1> HIDE DEF n
<1>5. Len(keys) = n /\ DOMAIN keys = 1 .. n
  BY <1>1, <1>4
<1> QED
  BY <1>1, <1>4, <1>5, SemanticAssumption DEF IsInjective

LEMMA GoodNew ==
    Good(symbols_new) /\ symbols_new.count = 0
<1>1. SymbolsOK(symbols_new) /\ BuildQueues(symbols_new) /\ CoherentTable(symbols_new)
  BY NewBuilds, CoherentNew
<1>2. symbols_new.count = 0
  BY DEF symbols_new, symbols_indent
<1>3. Numbered(symbols_new)
  <2>1. symbols_new.depth = 1 /\ symbols_new.levels[0].end = 1
        /\ symbols_new.levels[0].scopes[0] = {}
    BY NewBuilds
  <2> QED
    BY <2>1 DEF Numbered
<1> QED
  BY <1>1, <1>2, <1>3 DEF Good

LEMMA FirstTable ==
    ASSUME NEW s, s = AddLib(symbols_new)
    PROVE  Added(symbols_new, s, Len(SetToSeq(Lib))) /\ Good(s) /\ s.level = 0
<1>1. Added(symbols_new, s, Len(SetToSeq(Lib)))
  BY LibKeys, GoodNew, AddAllKeeps DEF AddLib, Tag
<1> QED
  BY <1>1, NewBuilds DEF Added

-----------------------------------------------------------------------------
(* One node of the tree. *)

LEMMA NamesAre ==
    ASSUME NEW defs \in Defs, NEW keys, keys = NamesOf(defs)
    PROVE  /\ DOMAIN defs = 1 .. Len(defs) /\ Len(defs) \in 1 .. 2
           /\ Len(keys) = Len(defs) /\ Len(keys) \in Nat
           /\ \A i \in 1 .. Len(keys) : /\ keys[i] = defs[i].name /\ keys[i] \in Name
                                        /\ defs[i] \in Def
<1>0. \/ \E d \in Def : defs = <<d>>
      \/ \E two \in Def \X Def : defs = two
  BY DEF Defs
<1>1. DOMAIN defs = 1 .. Len(defs) /\ Len(defs) \in 1 .. 2
      /\ \A i \in 1 .. Len(defs) : defs[i] \in Def
  <2>1. CASE \E d \in Def : defs = <<d>>
    BY <2>1
  <2>2. CASE \E two \in Def \X Def : defs = two
    <3>1. PICK c \in Def, d \in Def : defs = <<c, d>>
      BY <2>2
    <3> QED
      BY <3>1
  <2> QED
    BY <1>0, <2>1, <2>2
<1>2. keys = [i \in 1 .. Len(defs) |-> defs[i].name]
  BY <1>1 DEF NamesOf
<1>3. Len(keys) = Len(defs)
  BY <1>1, <1>2
<1>4. \A d \in Def : d.name \in Name
  BY DEF Def
<1> QED
  BY <1>1, <1>2, <1>3, <1>4

LEMMA ParamsAre ==
    ASSUME NEW keys \in Params
    PROVE  Len(keys) \in 0 .. 1 /\ \A i \in 1 .. Len(keys) : keys[i] \in Name
BY DEF Params

\* The tables that a function header goes through: its name, the scope of its
\* parameters, these, and the scope of its block.
Header(s, name, params, b, c, d, t) ==
    /\ b = symbols_add(s, name, "FUNCTION")
    /\ c = symbols_indent(b)
    /\ d = AddAll(c, params, "VARIABLE")
    /\ t = symbols_indent(d)

LEMMA FuncTables ==
    ASSUME NEW s, Good(s), s.level = 0, NEW name \in Name, NEW params \in Params,
           NEW b, NEW c, NEW d, NEW t, Header(s, name, params, b, c, d, t)
    PROVE  /\ Added(s, b, 1) /\ Added(c, d, Len(params))
           /\ Good(b) /\ Good(c) /\ Good(d) /\ Good(t)
           /\ Later(s, t) /\ Later(b, t) /\ Later(c, t) /\ Later(d, t)
           /\ c.level = 1 /\ d.level = 1 /\ t.level = 2 /\ Link(t, 2) = {}
<1>1. "FUNCTION" \in Tag /\ "VARIABLE" \in Tag
  BY DEF Tag
<1>2. Added(s, b, 1)
  <2>1. b = symbols_add(s, name, "FUNCTION")
    BY DEF Header
  <2> QED
    BY <1>1, <2>1, AddedOnce
<1>3. Good(b) /\ Later(s, b) /\ b.level = 0
  BY <1>2 DEF Added
<1>4. Good(c) /\ Later(b, c) /\ c.level = 1
  <2>1. c = symbols_indent(b)
    BY DEF Header
  <2> QED
    BY <1>3, <2>1, GoodIndent
<1>5. Added(c, d, Len(params))
  <2>1. Len(params) \in Nat /\ \A i \in 1 .. Len(params) : params[i] \in Name
    BY ParamsAre
  <2>2. d = AddAll(c, params, "VARIABLE")
    BY DEF Header
  <2> QED
    BY <1>1, <1>4, <2>1, <2>2, AddAllKeeps
<1>6. Good(d) /\ Later(c, d) /\ d.level = 1
  BY <1>4, <1>5 DEF Added
<1>7. Good(t) /\ Later(d, t) /\ t.level = 2 /\ Link(t, 2) = {}
  <2>3. t = symbols_indent(d)
    BY DEF Header
  <2>1. Good(t) /\ Later(d, t) /\ t.level = d.level + 1 /\ Link(t, t.level) = {}
    BY <1>6, <2>3, GoodIndent
  <2>2. t.level = 2
    BY <1>6, <2>1
  <2> QED
    BY <2>1, <2>2
<1>8. Later(c, t)
  BY <1>4, <1>6, <1>7, LaterTransitive
<1>9. Later(b, t)
  BY <1>3, <1>4, <1>7, <1>8, LaterTransitive
<1>10. Later(s, t)
  BY <1>3, <1>7, <1>9, LaterTransitive
<1> QED
  BY <1>2, <1>3, <1>4, <1>5, <1>6, <1>7, <1>8, <1>9, <1>10

LEMMA FuncTable ==
    ASSUME NEW s, Good(s), s.level = 0, NEW name \in Name, NEW params \in Params, NEW t,
           t = symbols_indent(AddAll(symbols_indent(symbols_add(s, name, "FUNCTION")),
                                     params, "VARIABLE"))
    PROVE  Good(t) /\ Later(s, t) /\ t.level = 2 /\ Link(t, 2) = {}
<1>1. PICK b : b = symbols_add(s, name, "FUNCTION")
  OBVIOUS
<1>2. PICK c : c = symbols_indent(b)
  OBVIOUS
<1>3. PICK d : d = AddAll(c, params, "VARIABLE")
  OBVIOUS
<1>4. Header(s, name, params, b, c, d, t)
  BY <1>1, <1>2, <1>3 DEF Header
<1> QED
  BY <1>4, FuncTables

LEMMA DeclTable ==
    ASSUME NEW s, Good(s), NEW defs \in Defs, NEW tag \in {"VARIABLE", "CONSTANT"}, NEW t,
           t = AddAll(IF s.level > 0 THEN symbols_indent(s) ELSE s, NamesOf(defs), tag)
    PROVE  /\ Good(t) /\ Later(s, t)
           /\ t.level = IF s.level > 0 THEN s.level + 1 ELSE 0
           /\ Link(t, t.level) # {}
           /\ \A l \in 0 .. t.level - 1 : t.levels[l] = s.levels[l]
<1>1. PICK b : b = IF s.level > 0 THEN symbols_indent(s) ELSE s
  OBVIOUS
<1>2. PICK keys : keys = NamesOf(defs)
  OBVIOUS
<1>3. s.level \in Nat /\ s.level \in 0 .. s.depth - 1 /\ s.depth \in Nat
  BY GoodTypes
<1>4. /\ Good(b) /\ Later(s, b)
      /\ b.level = IF s.level > 0 THEN s.level + 1 ELSE 0
      /\ \A l \in 0 .. b.level - 1 : b.levels[l] = s.levels[l]
  <2>1. CASE s.level > 0
    BY <1>1, <1>3, <2>1, GoodIndent
  <2>2. CASE ~(s.level > 0)
    BY <1>1, <1>3, <2>2, LaterItself
  <2> QED
    BY <2>1, <2>2
<1>5. Added(b, t, Len(keys)) /\ Len(keys) > 0
  <2>1. tag \in Tag
    BY DEF Tag
  <2>3. /\ DOMAIN defs = 1 .. Len(defs) /\ Len(defs) \in 1 .. 2
        /\ Len(keys) = Len(defs) /\ Len(keys) \in Nat
        /\ \A i \in 1 .. Len(keys) : /\ keys[i] = defs[i].name /\ keys[i] \in Name
                                     /\ defs[i] \in Def
    BY <1>2, NamesAre, Zenon
  <2>2. Len(keys) \in Nat /\ Len(keys) > 0 /\ \A i \in 1 .. Len(keys) : keys[i] \in Name
    BY <2>3
  <2> QED
    BY <1>1, <1>2, <1>4, <2>1, <2>2, AddAllKeeps
<1>6. /\ Good(t) /\ Later(b, t) /\ t.level = b.level
      /\ Link(t, b.level) # {}
      /\ \A l \in 0 .. b.depth - 1 : l # b.level => t.levels[l] = b.levels[l]
  BY <1>5 DEF Added
<1>7. Later(s, t)
  BY <1>4, <1>6, LaterTransitive
<1>8. ASSUME NEW l \in 0 .. t.level - 1
      PROVE  t.levels[l] = s.levels[l]
  <2>1. b.level \in Nat /\ b.level \in 0 .. b.depth - 1 /\ b.depth \in Nat
    BY <1>4, GoodTypes
  <2>2. l \in 0 .. b.depth - 1 /\ l # b.level /\ l \in 0 .. b.level - 1
    BY <1>6, <2>1
  <2> QED
    BY <1>4, <1>6, <2>2
<1> QED
  BY <1>4, <1>6, <1>7, <1>8

\* The blocks that are open, as plain arithmetic.
LEMMA ShapeTypes ==
    ASSUME NEW a, NEW T, NEW p \in Nat, NEW s, NEW g, Shape(a, T, p, s, g),
           \A q \in 1 .. p - 1 : Good(T[q])
    PROVE  /\ Len(g) \in Nat /\ IsSeq(g) /\ (g = <<>> <=> Len(g) = 0)
           /\ \A i \in 1 .. Len(g) :
                 /\ g[i] \in 1 .. p - 1 /\ T[g[i]].level \in Nat
                 /\ Block(a, T, g[i]) \in Nat
                 /\ Block(a, T, g[i]) = T[g[i]].level + (IF i = 1 THEN 2 ELSE 1)
                 /\ Block(a, T, g[i]) >= 2
                 /\ \A j \in i + 1 .. Len(g) : Block(a, T, g[i]) < Block(a, T, g[j])
<1>1. g \in Seq(1 .. p - 1)
  BY DEF Shape
<1>2. Len(g) \in Nat /\ IsSeq(g) /\ (g = <<>> <=> Len(g) = 0)
  BY <1>1, SeqIs
<1>3. ASSUME NEW i \in 1 .. Len(g)
      PROVE  /\ g[i] \in 1 .. p - 1 /\ T[g[i]].level \in Nat
             /\ Block(a, T, g[i]) = T[g[i]].level + (IF i = 1 THEN 2 ELSE 1)
             /\ i = 1 => T[g[i]].level = 0
             /\ \A j \in i + 1 .. Len(g) : Block(a, T, g[i]) <= T[g[j]].level
  <2>1. g[i] \in 1 .. p - 1
    BY <1>1
  <2>2. T[g[i]].level \in Nat
    BY <2>1, GoodTypes
  <2>3. a[g[i]].kind = (IF i = 1 THEN "func" ELSE "open")
    BY DEF Shape
  <2>4. Block(a, T, g[i]) = T[g[i]].level + (IF i = 1 THEN 2 ELSE 1)
    BY <2>3 DEF Block
  <2> QED
    BY <2>1, <2>2, <2>4 DEF Shape
<1>4. ASSUME NEW i \in 1 .. Len(g)
      PROVE  /\ Block(a, T, g[i]) \in Nat /\ Block(a, T, g[i]) >= 2
             /\ \A j \in i + 1 .. Len(g) : Block(a, T, g[i]) < Block(a, T, g[j])
  <2>1. Block(a, T, g[i]) \in Nat
    BY <1>3
  <2>2. Block(a, T, g[i]) >= 2
    <3>1. CASE i = 1
      BY <1>3, <3>1
    <3>2. CASE i # 1
      <4>1. 1 \in 1 .. Len(g) /\ i \in 1 + 1 .. Len(g)
        BY <1>2, <3>2
      <4>2. Block(a, T, g[1]) = 2 /\ Block(a, T, g[1]) <= T[g[i]].level
        BY <1>3, <4>1
      <4> QED
        BY <1>3, <4>2
    <3> QED
      BY <3>1, <3>2
  <2>3. ASSUME NEW j \in i + 1 .. Len(g)
        PROVE  Block(a, T, g[i]) < Block(a, T, g[j])
    <3>1. j \in 1 .. Len(g)
      BY <1>2
    <3>2. Block(a, T, g[i]) <= T[g[j]].level /\ T[g[j]].level \in Nat
      BY <1>3, <3>1
    <3>3. Block(a, T, g[j]) = T[g[j]].level + (IF j = 1 THEN 2 ELSE 1)
      BY <1>3, <3>1
    <3> QED
      BY <2>1, <3>2, <3>3
  <2> QED
    BY <2>1, <2>2, <2>3
<1> QED
  BY <1>2, <1>3, <1>4

\* symbols_leave finds the block that is open: every scope above it links something.
LEMMA CloseFinds ==
    ASSUME NEW a, NEW T, NEW p \in Nat, NEW s, NEW g, Shape(a, T, p, s, g), Good(s),
           \A q \in 1 .. p - 1 : Good(T[q]), g # <<>>
    PROVE  /\ s.level > 0
           /\ LeaveStop(s) = Block(a, T, g[Len(g)])
<1>1. PICK n : n = Len(g)
  OBVIOUS
<1>2. PICK b : b = Block(a, T, g[n])
  OBVIOUS
<1>3. n \in Nat \ {0} /\ n \in 1 .. Len(g)
  BY <1>1, ShapeTypes
<1>4. b \in Nat /\ b >= 2 /\ b <= s.level /\ Link(s, b) = {} /\ s.level \in Nat
  <2>1. b \in Nat /\ b >= 2
    BY <1>2, <1>3, ShapeTypes
  <2>2. b <= s.level /\ Link(s, b) = {}
    BY <1>2, <1>3 DEF Shape
  <2> QED
    BY <2>1, <2>2, GoodTypes
<1>5. ASSUME NEW l \in b + 1 .. s.level, Link(s, l) = {}
      PROVE  FALSE
  <2>1. l \in 2 .. s.level
    BY <1>4
  <2>2. PICK i \in 1 .. Len(g) : l = Block(a, T, g[i])
    BY <1>5, <2>1 DEF Shape
  <2>3. CASE i = n
    BY <1>2, <1>4, <2>2, <2>3
  <2>4. CASE i # n
    <3>1. n \in i + 1 .. Len(g)
      BY <1>1, <1>3, <2>4
    <3>2. Block(a, T, g[i]) < Block(a, T, g[n])
      BY <3>1, ShapeTypes
    <3> QED
      BY <1>2, <1>4, <2>2, <3>2
  <2> QED
    BY <2>3, <2>4
<1> DEFINE links == [l \in 0 .. s.level |-> level_at(s.levels[l])]
<1>6. \A l \in 0 .. s.level : links[l] = Link(s, l)
  BY DEF level_at, Link
<1> HIDE DEF links
<1>7. IsStop(b, s.level, links)
  <2>1. b \in 0 .. s.level /\ links[b] = {}
    BY <1>4, <1>6
  <2>2. \A q \in b + 1 .. s.level : q > 1 /\ links[q] # {}
    BY <1>4, <1>5, <1>6
  <2> QED
    BY <2>1, <2>2 DEF IsStop
<1>8. LeaveStop(s) = b
  <2>1. IsStop(LastPopped(s.level, links), s.level, links)
    BY <1>4, StopExists
  <2>2. LastPopped(s.level, links) = b
    BY <1>4, <1>7, <2>1, StopUnique
  <2> QED
    BY <2>2 DEF LeaveStop, links
<1> QED
  BY <1>1, <1>2, <1>4, <1>8

\* A closing brace brings the first pass back to the level of the opening one.
LEMMA CloseTable ==
    ASSUME NEW a, NEW T, NEW p \in Nat, NEW s, NEW g, Shape(a, T, p, s, g), Good(s),
           \A q \in 1 .. p - 1 : Good(T[q]), g # <<>>, NEW t,
           t = IF Len(g) = 1 THEN symbols_leave(symbols_leave(s)) ELSE symbols_leave(s)
    PROVE  /\ Good(t) /\ Later(s, t)
           /\ t.level = T[g[Len(g)]].level /\ t.levels = s.levels
           /\ Good(symbols_leave(s)) /\ Later(symbols_leave(s), t)
           /\ Len(g) = 1 => symbols_leave(s).level = 1
<1>1. PICK n : n = Len(g)
  OBVIOUS
<1>2. PICK u : u = symbols_leave(s)
  OBVIOUS
<1>3. n \in Nat \ {0} /\ n \in 1 .. Len(g)
  BY <1>1, ShapeTypes
<1>4. /\ Block(a, T, g[n]) = T[g[n]].level + (IF n = 1 THEN 2 ELSE 1)
      /\ T[g[n]].level \in Nat
  BY <1>1, <1>3, ShapeTypes
<1>5. n = 1 => T[g[n]].level = 0
  BY <1>3 DEF Shape
<1>6. LeaveStop(s) = Block(a, T, g[n]) /\ s.level > 0
  BY <1>1, CloseFinds
<1>7. Good(u) /\ Later(s, u) /\ u.level = LeaveStop(s) - 1 /\ u.levels = s.levels
  BY <1>2, <1>6, GoodLeave
<1>8. CASE n # 1
  <2>1. t = u /\ u.level = T[g[n]].level
    BY <1>1, <1>2, <1>4, <1>6, <1>7, <1>8
  <2> QED
    BY <1>1, <1>2, <1>7, <1>8, <2>1, LaterItself
<1>9. CASE n = 1
  <2>1. t = symbols_leave(u) /\ u.level = 1
    BY <1>1, <1>2, <1>4, <1>5, <1>6, <1>7, <1>9
  <2>2. LeaveStop(u) = 1
    BY <2>1, LeaveStopRange
  <2>3. Good(t) /\ Later(u, t) /\ t.level = 0 /\ t.levels = u.levels
    BY <1>7, <2>1, <2>2, GoodLeave
  <2>4. Later(s, t)
    BY <1>7, <2>3, LaterTransitive
  <2> QED
    BY <1>1, <1>2, <1>5, <1>7, <1>9, <2>1, <2>3, <2>4
<1> QED
  BY <1>8, <1>9

\* The stack of a node is there for the next ones.
LEMMA ShapeMonotone ==
    ASSUME NEW a, NEW T, NEW p \in Nat, NEW s, NEW g, Shape(a, T, p, s, g)
    PROVE  Shape(a, T, p + 1, s, g)
<1>1. g \in Seq(1 .. (p + 1) - 1)
  <2>1. g \in Seq(1 .. p - 1) /\ 1 .. p - 1 \subseteq 1 .. (p + 1) - 1
    BY DEF Shape
  <2> QED
    BY <2>1, SeqMonotonic
<1> QED
  BY <1>1 DEF Shape

\* What a declaration and an opening brace do to the table s, in one word each.
Declares(s, t) ==
    /\ Good(t) /\ Later(s, t)
    /\ t.level = IF s.level > 0 THEN s.level + 1 ELSE 0
    /\ Link(t, t.level) # {}
    /\ \A l \in 0 .. t.level - 1 : t.levels[l] = s.levels[l]

Indents(s, t) ==
    /\ Good(t) /\ Later(s, t) /\ t.level = s.level + 1 /\ Link(t, t.level) = {}
    /\ \A l \in 0 .. s.level : t.levels[l] = s.levels[l]

LEMMA DeclDeclares ==
    ASSUME NEW s, Good(s), NEW defs \in Defs, NEW tag \in {"VARIABLE", "CONSTANT"}, NEW t,
           t = AddAll(IF s.level > 0 THEN symbols_indent(s) ELSE s, NamesOf(defs), tag)
    PROVE  Declares(s, t)
BY DeclTable DEF Declares

LEMMA IndentIndents ==
    ASSUME NEW s, Good(s), NEW t, t = symbols_indent(s)
    PROVE  Indents(s, t)
BY GoodIndent DEF Indents

\* A node keeps what is known of the table and of the stack.
LEMMA TurnKeeps ==
    ASSUME NEW a, NEW T, NEW p \in Nat \ {0}, NEW s, Good(s), T[p].level = s.level,
           NEW e, NEW t, NEW g, Shape(a, T, p, s, e), \A q \in 1 .. p - 1 : Good(T[q]),
           Turn(a[p], p, s, e, t, g)
    PROVE  Good(t) /\ Later(s, t) /\ Shape(a, T, p + 1, t, g)
<1>0. p \in Nat
  OBVIOUS
<1>1. s.level \in Nat
  BY GoodTypes
<1>8. /\ Len(e) \in Nat /\ IsSeq(e) /\ (e = <<>> <=> Len(e) = 0)
      /\ \A i \in 1 .. Len(e) :
            /\ Block(a, T, e[i]) \in Nat /\ Block(a, T, e[i]) >= 2
            /\ T[e[i]].level \in Nat
            /\ Block(a, T, e[i]) = T[e[i]].level + (IF i = 1 THEN 2 ELSE 1)
  <2>1. /\ Len(e) \in Nat /\ IsSeq(e) /\ (e = <<>> <=> Len(e) = 0)
        /\ \A i \in 1 .. Len(e) :
              /\ e[i] \in 1 .. p - 1 /\ T[e[i]].level \in Nat
              /\ Block(a, T, e[i]) \in Nat
              /\ Block(a, T, e[i]) = T[e[i]].level + (IF i = 1 THEN 2 ELSE 1)
              /\ Block(a, T, e[i]) >= 2
              /\ \A j \in i + 1 .. Len(e) : Block(a, T, e[i]) < Block(a, T, e[j])
    BY <1>0, ShapeTypes, Zenon
  <2> QED
    BY <2>1
<1>2. Len(e) \in Nat /\ IsSeq(e) /\ (e = <<>> <=> Len(e) = 0) /\ e \in Seq(1 .. p - 1)
  BY <1>8 DEF Shape
<1>9. \A i \in 1 .. Len(e) : /\ Block(a, T, e[i]) <= s.level
                             /\ Link(s, Block(a, T, e[i])) = {}
  BY DEF Shape
<1>3. CASE a[p].kind = "func"
  <2>1. /\ e = <<>> /\ a[p].name \in Name /\ a[p].params \in Params /\ g = <<p>>
        /\ t = symbols_indent(AddAll(symbols_indent(symbols_add(s, a[p].name, "FUNCTION")),
                                     a[p].params, "VARIABLE"))
    BY <1>3 DEF Turn, Plain
  <2>2. s.level = 0
    BY <2>1 DEF Shape
  <2>3. Good(t) /\ Later(s, t) /\ t.level = 2 /\ Link(t, 2) = {}
    BY <1>1, <2>1, <2>2, FuncTable
  <2>4. Block(a, T, p) = 2
    BY <1>3, <2>2 DEF Block
  <2>5. g \in Seq(1 .. (p + 1) - 1) /\ Len(g) = 1 /\ g[1] = p /\ g # <<>>
    BY <2>1
  <2>6. ASSUME NEW i \in 1 .. Len(g)
        PROVE  /\ a[g[i]].kind = IF i = 1 THEN "func" ELSE "open"
               /\ i = 1 => T[g[i]].level = 0
               /\ i # 1 => a[g[i]].loop \in BOOLEAN
               /\ Block(a, T, g[i]) <= t.level
               /\ Link(t, Block(a, T, g[i])) = {}
               /\ \A j \in i + 1 .. Len(g) : Block(a, T, g[i]) <= T[g[j]].level
    <3>1. i = 1 /\ g[i] = p /\ \A j \in i + 1 .. Len(g) : FALSE
      BY <2>5
    <3> QED
      BY <1>3, <2>2, <2>3, <2>4, <3>1
  <2>7. \A l \in 2 .. t.level : \E i \in 1 .. Len(g) : l = Block(a, T, g[i])
    <3>1. \A l \in 2 .. t.level : l = 2
      BY <2>3
    <3> QED
      BY <2>4, <2>5, <3>1
  <2> QED
    BY <2>3, <2>5, <2>6, <2>7 DEF Shape
<1>4. CASE a[p].kind = "decl"
  <2>1. /\ a[p].tag \in {"VARIABLE", "CONSTANT"} /\ a[p].defs \in Defs /\ g = e
        /\ t = AddAll(IF s.level > 0 THEN symbols_indent(s) ELSE s,
                      NamesOf(a[p].defs), a[p].tag)
    BY <1>4 DEF Turn, Plain
  <2>2. /\ Good(t) /\ Later(s, t)
        /\ t.level = IF s.level > 0 THEN s.level + 1 ELSE 0
        /\ Link(t, t.level) # {}
        /\ \A l \in 0 .. t.level - 1 : t.levels[l] = s.levels[l]
    <3>1. Declares(s, t)
      BY <2>1, DeclDeclares
    <3> QED
      BY <3>1 DEF Declares
  <2>3. ASSUME NEW i \in 1 .. Len(e)
        PROVE  /\ Block(a, T, e[i]) <= t.level
               /\ Link(t, Block(a, T, e[i])) = {}
    <3>1. /\ Block(a, T, e[i]) \in Nat /\ Block(a, T, e[i]) >= 2
          /\ Block(a, T, e[i]) <= s.level /\ Link(s, Block(a, T, e[i])) = {}
      BY <1>8, <1>9
    <3>2. Block(a, T, e[i]) \in 0 .. t.level - 1
      BY <1>1, <2>2, <3>1
    <3>3. t.levels[Block(a, T, e[i])] = s.levels[Block(a, T, e[i])]
      BY <2>2, <3>2
    <3>4. Link(t, Block(a, T, e[i])) = {}
      BY <3>1, <3>3 DEF Link
    <3>5. Block(a, T, e[i]) <= t.level
      BY <1>1, <2>2, <3>1
    <3> QED
      BY <3>4, <3>5
  <2>4. ASSUME NEW l \in 2 .. t.level, Link(t, l) = {}
        PROVE  \E i \in 1 .. Len(e) : l = Block(a, T, e[i])
    <3>1. l # t.level
      BY <2>2, <2>4
    <3>2. l \in 2 .. s.level /\ l \in 0 .. t.level - 1
      BY <1>1, <2>2, <3>1
    <3>3. Link(s, l) = {}
      BY <2>2, <2>4, <3>2 DEF Link
    <3> QED
      BY <3>2, <3>3 DEF Shape
  <2>5. Shape(a, T, p, t, e)
    <3>1. e = <<>> => t.level = 0
      BY <2>2 DEF Shape
    <3> QED
      BY <2>3, <2>4, <3>1 DEF Shape
  <2> QED
    BY <2>1, <2>2, <2>5, ShapeMonotone
<1>5. CASE a[p].kind = "open"
  <2>1. e # <<>> /\ a[p].loop \in BOOLEAN /\ t = symbols_indent(s) /\ g = Append(e, p)
    BY <1>5 DEF Turn, Plain
  <2>2. /\ Good(t) /\ Later(s, t) /\ t.level = s.level + 1 /\ Link(t, t.level) = {}
        /\ \A l \in 0 .. s.level : t.levels[l] = s.levels[l]
    <3>1. Indents(s, t)
      BY <2>1, IndentIndents
    <3> QED
      BY <3>1 DEF Indents
  <2>3. Block(a, T, p) = t.level
    BY <1>5, <2>2 DEF Block
  <2>4. /\ Len(g) = Len(e) + 1 /\ g[Len(e) + 1] = p /\ g # <<>>
        /\ \A i \in 1 .. Len(e) : g[i] = e[i]
    <3>1. IsSeq(e) /\ Pushed(g, e, p)
      BY <1>2, <2>1 DEF Pushed
    <3> QED
      BY <3>1, AppendIs
  <2>5. g \in Seq(1 .. (p + 1) - 1)
    <3>1. 1 .. p - 1 \subseteq 1 .. (p + 1) - 1 /\ p \in 1 .. (p + 1) - 1
      OBVIOUS
    <3>2. e \in Seq(1 .. (p + 1) - 1)
      BY <1>2, <3>1, SeqMonotonic
    <3> QED
      BY <2>1, <3>1, <3>2
  <2>6. ASSUME NEW i \in 1 .. Len(g)
        PROVE  /\ a[g[i]].kind = IF i = 1 THEN "func" ELSE "open"
               /\ i = 1 => T[g[i]].level = 0
               /\ i # 1 => a[g[i]].loop \in BOOLEAN
               /\ Block(a, T, g[i]) <= t.level
               /\ Link(t, Block(a, T, g[i])) = {}
               /\ \A j \in i + 1 .. Len(g) : Block(a, T, g[i]) <= T[g[j]].level
    <3>1. CASE i = Len(e) + 1
      <4>1. i # 1 /\ g[i] = p /\ \A j \in i + 1 .. Len(g) : FALSE
        BY <1>2, <2>1, <2>4, <3>1
      <4> QED
        BY <1>1, <1>5, <2>1, <2>2, <2>3, <4>1
    <3>2. CASE i # Len(e) + 1
      <4>1. i \in 1 .. Len(e) /\ g[i] = e[i]
        BY <1>2, <2>4, <3>2
      <4>2. Block(a, T, e[i]) \in Nat /\ Block(a, T, e[i]) <= s.level
            /\ Link(s, Block(a, T, e[i])) = {}
        BY <1>8, <1>9, <4>1
      <4>3. Block(a, T, e[i]) <= t.level /\ Block(a, T, e[i]) \in 0 .. s.level
        BY <1>1, <2>2, <4>2
      <4>4. Link(t, Block(a, T, e[i])) = {}
        BY <2>2, <4>2, <4>3 DEF Link
      <4>5. ASSUME NEW j \in i + 1 .. Len(g)
            PROVE  Block(a, T, e[i]) <= T[g[j]].level
        <5>1. CASE j = Len(e) + 1
          BY <2>4, <4>2, <5>1
        <5>2. CASE j # Len(e) + 1
          <6>1. j \in i + 1 .. Len(e) /\ j \in 1 .. Len(e)
            <7>1. PICK m : m = Len(e)
              OBVIOUS
            <7>2. m \in Nat /\ i \in 1 .. m /\ j \in i + 1 .. m + 1 /\ j # m + 1
              BY <1>2, <2>4, <4>1, <5>2, <7>1 DEF IsSeq
            <7>3. j \in i + 1 .. m /\ j \in 1 .. m
              BY <7>2
            <7> QED
              BY <7>1, <7>3
          <6>2. \A k \in i + 1 .. Len(e) : Block(a, T, e[i]) <= T[e[k]].level
            BY <4>1 DEF Shape
          <6> QED
            BY <2>4, <6>1, <6>2
        <5> QED
          BY <5>1, <5>2
      <4> QED
        BY <4>1, <4>3, <4>4, <4>5 DEF Shape
    <3> QED
      BY <3>1, <3>2
  <2>7. ASSUME NEW l \in 2 .. t.level, Link(t, l) = {}
        PROVE  \E i \in 1 .. Len(g) : l = Block(a, T, g[i])
    <3>1. CASE l = t.level
      <4>1. Len(e) + 1 \in 1 .. Len(g)
        BY <1>2, <2>4
      <4> QED
        BY <2>3, <2>4, <3>1, <4>1
    <3>2. CASE l # t.level
      <4>1. l \in 2 .. s.level /\ l \in 0 .. s.level
        BY <1>1, <2>2, <3>2
      <4>2. Link(s, l) = {}
        BY <2>2, <2>7, <4>1 DEF Link
      <4>3. PICK i \in 1 .. Len(e) : l = Block(a, T, e[i])
        BY <4>1, <4>2 DEF Shape
      <4>4. i \in 1 .. Len(g) /\ g[i] = e[i]
        BY <1>2, <2>4
      <4> QED
        BY <4>3, <4>4
    <3> QED
      BY <3>1, <3>2
  <2>8. Shape(a, T, p + 1, t, g)
    BY <2>4, <2>5, <2>6, <2>7 DEF Shape
  <2> QED
    BY <2>2, <2>8
<1>6. CASE a[p].kind = "close"
  <2>1. /\ e # <<>> /\ g = Front(e)
        /\ t = IF Len(e) = 1 THEN symbols_leave(symbols_leave(s)) ELSE symbols_leave(s)
    BY <1>6 DEF Turn, Plain
  <2>2. Good(t) /\ Later(s, t) /\ t.level = T[e[Len(e)]].level /\ t.levels = s.levels
    BY <1>1, <2>1, CloseTable
  <2>3. /\ Len(g) = Len(e) - 1 /\ Len(e) \in Nat \ {0} /\ IsSeq(g)
        /\ \A i \in 1 .. Len(g) : g[i] = e[i]
    <3>1. IsSeq(e)
      BY <1>2
    <3>2. /\ IsSeq(g) /\ Len(g) = Len(e) - 1 /\ Len(e) \in Nat \ {0}
          /\ \A i \in 1 .. Len(e) - 1 : g[i] = e[i]
      BY <2>1, <3>1, FrontIs
    <3> QED
      BY <3>2
  <2>4. \A l : Link(t, l) = Link(s, l)
    BY <2>2 DEF Link
  <2>5. PICK n : n = Len(e)
    OBVIOUS
  <2>6. n \in Nat \ {0} /\ n \in 1 .. Len(e)
    BY <2>3, <2>5
  <2>7. /\ T[e[n]].level \in Nat /\ Block(a, T, e[n]) <= s.level
        /\ Block(a, T, e[n]) = T[e[n]].level + (IF n = 1 THEN 2 ELSE 1)
        /\ t.level = T[e[n]].level
    BY <1>8, <1>9, <2>2, <2>5, <2>6
  <2>8. g \in Seq(1 .. (p + 1) - 1)
    <3>1. \A i \in 1 .. Len(g) : g[i] \in 1 .. (p + 1) - 1
      <4>1. \A i \in 1 .. Len(e) : e[i] \in 1 .. p - 1
        BY <1>2
      <4> QED
        BY <2>3, <4>1
    <3>2. g = [i \in 1 .. Len(g) |-> g[i]] /\ Len(g) \in Nat
      BY <2>3 DEF IsSeq
    <3> QED
      BY <3>1, <3>2
  <2>9. g = <<>> => t.level = 0
    <3>1. g = <<>> => n = 1
      BY <2>3, <2>5
    <3> QED
      BY <2>6, <2>7, <3>1 DEF Shape
  <2>10. ASSUME NEW i \in 1 .. Len(g)
         PROVE  /\ a[g[i]].kind = IF i = 1 THEN "func" ELSE "open"
                /\ i = 1 => T[g[i]].level = 0
                /\ i # 1 => a[g[i]].loop \in BOOLEAN
                /\ Block(a, T, g[i]) <= t.level
                /\ Link(t, Block(a, T, g[i])) = {}
                /\ \A j \in i + 1 .. Len(g) : Block(a, T, g[i]) <= T[g[j]].level
    <3>1. i \in 1 .. Len(e) /\ g[i] = e[i] /\ n \in i + 1 .. Len(e)
      BY <2>3, <2>5
    <3>2. Block(a, T, e[i]) <= t.level
      BY <2>7, <3>1 DEF Shape
    <3>3. ASSUME NEW j \in i + 1 .. Len(g)
          PROVE  Block(a, T, e[i]) <= T[g[j]].level
      <4>1. j \in i + 1 .. Len(e) /\ g[j] = e[j]
        BY <2>3
      <4> QED
        BY <3>1, <4>1 DEF Shape
    <3> QED
      BY <2>4, <3>1, <3>2, <3>3 DEF Shape
  <2>11. ASSUME NEW l \in 2 .. t.level, Link(t, l) = {}
         PROVE  \E i \in 1 .. Len(g) : l = Block(a, T, g[i])
    <3>1. l \in 2 .. s.level /\ l < Block(a, T, e[n])
      BY <1>1, <2>7
    <3>2. PICK i \in 1 .. Len(e) : l = Block(a, T, e[i])
      BY <2>4, <2>11, <3>1 DEF Shape
    <3>3. i # n
      BY <3>1, <3>2
    <3>4. i \in 1 .. Len(g) /\ g[i] = e[i]
      BY <2>3, <2>5, <3>3
    <3> QED
      BY <3>2, <3>4
  <2>12. Shape(a, T, p + 1, t, g)
    BY <2>8, <2>9, <2>10, <2>11 DEF Shape
  <2> QED
    BY <2>2, <2>12
<1>7. CASE a[p].kind \in Plain \cup {"eof"}
  <2>1. t = s /\ g = e
    BY <1>7 DEF Turn, Plain
  <2> QED
    BY <1>1, <2>1, LaterItself, ShapeMonotone
<1> QED
  BY <1>3, <1>4, <1>5, <1>6, <1>7 DEF Turn

\* Only the nodes before it count.
LEMMA ShapeSame ==
    ASSUME NEW a, NEW T, NEW p \in Nat, NEW s, NEW g, Shape(a, T, p, s, g), NEW b, NEW U,
           \A q \in 1 .. p - 1 : b[q] = a[q] /\ U[q] = T[q]
    PROVE  Shape(b, U, p, s, g)
<1>1. g \in Seq(1 .. p - 1) /\ \A i \in 1 .. Len(g) : g[i] \in 1 .. p - 1
  <2>1. g \in Seq(1 .. p - 1)
    BY DEF Shape
  <2> QED
    BY <2>1
<1>2. \A i \in 1 .. Len(g) : b[g[i]] = a[g[i]] /\ U[g[i]] = T[g[i]]
  BY <1>1
<1>3. \A i \in 1 .. Len(g) : Block(b, U, g[i]) = Block(a, T, g[i])
  BY <1>2 DEF Block
<1>4. ASSUME NEW i \in 1 .. Len(g)
      PROVE  /\ b[g[i]].kind = IF i = 1 THEN "func" ELSE "open"
             /\ i = 1 => U[g[i]].level = 0
             /\ i # 1 => b[g[i]].loop \in BOOLEAN
             /\ Block(b, U, g[i]) <= s.level
             /\ Link(s, Block(b, U, g[i])) = {}
             /\ \A j \in i + 1 .. Len(g) : Block(b, U, g[i]) <= U[g[j]].level
  <2>1. /\ a[g[i]].kind = IF i = 1 THEN "func" ELSE "open"
        /\ i = 1 => T[g[i]].level = 0
        /\ i # 1 => a[g[i]].loop \in BOOLEAN
        /\ Block(a, T, g[i]) <= s.level
        /\ Link(s, Block(a, T, g[i])) = {}
        /\ \A j \in i + 1 .. Len(g) : Block(a, T, g[i]) <= T[g[j]].level
    BY DEF Shape
  <2>2. Block(b, U, g[i]) = Block(a, T, g[i]) /\ b[g[i]] = a[g[i]] /\ U[g[i]] = T[g[i]]
    BY <1>2, <1>3
  <2>3. \A j \in i + 1 .. Len(g) : Block(b, U, g[i]) <= U[g[j]].level
    <3>1. \A j \in i + 1 .. Len(g) : j \in 1 .. Len(g)
      BY <1>1
    <3> QED
      BY <1>2, <2>1, <2>2, <3>1
  <2> QED
    BY <2>1, <2>2, <2>3
<1>5. ASSUME NEW l \in 2 .. s.level, Link(s, l) = {}
      PROVE  \E i \in 1 .. Len(g) : l = Block(b, U, g[i])
  <2>1. \E i \in 1 .. Len(g) : l = Block(a, T, g[i])
    BY <1>5 DEF Shape
  <2> QED
    BY <1>3, <2>1
<1>6. g = <<>> => s.level = 0
  BY DEF Shape
<1> QED
  BY <1>1, <1>4, <1>5, <1>6 DEF Shape

LEMMA LoopSame ==
    ASSUME NEW a, NEW p \in Nat, NEW g \in Seq(1 .. p - 1), NEW b,
           \A q \in 1 .. p - 1 : b[q] = a[q], NEW n \in 0 .. Len(g)
    PROVE  LoopIn(b, g, n) <=> LoopIn(a, g, n)
<1>1. \A i \in 1 .. n : i \in 1 .. Len(g) /\ g[i] \in 1 .. p - 1
  OBVIOUS
<1>2. \A i \in 1 .. n : b[g[i]] = a[g[i]]
  BY <1>1
<1> QED
  BY <1>2 DEF LoopIn

\* The tree b is the tree a with one more node, which is met with its table and its
\* stack, and leaves t and g.
Grown(n, a, T, h, node, t, g, b, U, k) ==
    /\ n = Len(a) + 1
    /\ b = Append(a, node)
    /\ U = [p \in 1 .. n + 1 |-> IF p <= n THEN T[p] ELSE t]
    /\ k = [p \in 1 .. n + 1 |-> IF p <= n THEN h[p] ELSE g]

LEMMA GrownIs ==
    ASSUME NEW n, NEW a, IsSeq(a), NEW T, NEW h, NEW node, NEW t, NEW g, NEW b, NEW U, NEW k,
           Grown(n, a, T, h, node, t, g, b, U, k)
    PROVE  /\ Len(a) = n - 1 /\ n \in Nat \ {0} /\ n \in Nat
           /\ IsSeq(b) /\ Len(b) = n /\ b[n] = node
           /\ \A p \in 1 .. n - 1 : b[p] = a[p]
           /\ \A p \in 1 .. n : U[p] = T[p] /\ k[p] = h[p]
           /\ U[n + 1] = t /\ k[n + 1] = g
<1>1. Len(a) \in Nat /\ n = Len(a) + 1
  BY DEF IsSeq, Grown
<1>2. Pushed(b, a, node)
  BY DEF Grown, Pushed
<1>3. /\ IsSeq(b) /\ Len(b) = Len(a) + 1
      /\ b[Len(a) + 1] = node
      /\ \A p \in 1 .. Len(a) : b[p] = a[p]
  BY <1>2, AppendIs
<1>4. /\ \A p \in 1 .. n : U[p] = T[p] /\ k[p] = h[p]
      /\ U[n + 1] = t /\ k[n + 1] = g
  BY <1>1 DEF Grown
<1> QED
  BY <1>1, <1>3, <1>4

\* The same as one fact about primed variables, too.
Growth(n, a, T, h, node, t, g, b, U, k) ==
    /\ Len(a) = n - 1 /\ n \in Nat \ {0} /\ n \in Nat
    /\ IsSeq(b) /\ Len(b) = n /\ b[n] = node
    /\ \A p \in 1 .. n - 1 : b[p] = a[p]
    /\ \A p \in 1 .. n : U[p] = T[p] /\ k[p] = h[p]
    /\ U[n + 1] = t /\ k[n + 1] = g

LEMMA GrownGrowth ==
    ASSUME NEW n, NEW a, IsSeq(a), NEW T, NEW h, NEW node, NEW t, NEW g, NEW b, NEW U, NEW k,
           Grown(n, a, T, h, node, t, g, b, U, k)
    PROVE  Growth(n, a, T, h, node, t, g, b, U, k)
BY GrownIs DEF Growth

LEMMA TreeGrows ==
    ASSUME NEW a, NEW T, NEW h, Tree(a, T, h), \A p \in 1 .. Len(a) : a[p].kind # "eof",
           NEW n, NEW node, NEW t, NEW g,
           Turn(node, n, T[n], h[n], t, g),
           node.kind \in {"open", "decl"} =>
               \A q \in 1 .. n - 1 : Returns(a, q) => h[q] # h[n],
           node.kind = "break" => LoopIn(a, h[n], Len(h[n])),
           NEW b, NEW U, NEW k, Grown(n, a, T, h, node, t, g, b, U, k)
    PROVE  Tree(b, U, k)
<1>1. IsSeq(a)
  BY DEF Tree
<1>3. /\ Len(a) = n - 1 /\ n \in Nat \ {0} /\ n \in Nat
      /\ IsSeq(b) /\ Len(b) = n /\ b[n] = node
      /\ \A p \in 1 .. n - 1 : b[p] = a[p]
      /\ \A p \in 1 .. n : U[p] = T[p] /\ k[p] = h[p]
      /\ U[n + 1] = t /\ k[n + 1] = g
  BY <1>1, GrownIs
<1>2. Len(a) = n - 1 /\ n \in Nat \ {0} /\ n \in Nat
  BY <1>3
<1>4. /\ \A p \in 1 .. n : U[p] = T[p] /\ k[p] = h[p]
      /\ U[n + 1] = t /\ k[n + 1] = g
  BY <1>3
<1>5. \A p \in 1 .. n : Good(T[p]) /\ Later(T[p], T[n]) /\ Shape(a, T, p, T[p], h[p])
  BY <1>2 DEF Tree
<1>6. \A p \in 1 .. n : Shape(b, U, p, T[p], h[p])
  <2> TAKE p \in 1 .. n
  <2>1. p \in Nat
    BY <1>2
  <2>2. \A q \in 1 .. p - 1 : b[q] = a[q] /\ U[q] = T[q]
    BY <1>2, <1>3, <1>4
  <2>3. PICK s : s = T[p]
    OBVIOUS
  <2>4. PICK e : e = h[p]
    OBVIOUS
  <2>5. Shape(a, T, p, s, e)
    BY <1>5, <2>3, <2>4
  <2>6. Shape(b, U, p, s, e)
    BY <2>1, <2>2, <2>5, ShapeSame
  <2> QED
    BY <2>3, <2>4, <2>6
<1>7. Good(t) /\ Later(T[n], t) /\ Shape(b, U, n + 1, t, g)
  <2>1. PICK s : s = T[n]
    OBVIOUS
  <2>2. PICK e : e = h[n]
    OBVIOUS
  <2>3. n \in 1 .. n
    BY <1>2
  <2>4. Good(s) /\ U[n].level = s.level /\ Shape(b, U, n, s, e)
    BY <1>4, <1>5, <1>6, <2>1, <2>2, <2>3
  <2>5. \A q \in 1 .. n - 1 : Good(U[q])
    BY <1>2, <1>4, <1>5
  <2>6. Turn(b[n], n, s, e, t, g)
    BY <1>3, <2>1, <2>2
  <2>8. n \in Nat \ {0}
    BY <1>2
  <2>7. Good(t) /\ Later(s, t) /\ Shape(b, U, n + 1, t, g)
    BY <2>4, <2>5, <2>6, <2>8, TurnKeeps
  <2> QED
    BY <2>1, <2>7
<1>8. ASSUME NEW p \in 1 .. n
      PROVE  /\ Turn(b[p], p, U[p], k[p], U[p + 1], k[p + 1])
             /\ Alive(b, k, p)
             /\ b[p].kind = "break" => LoopIn(b, k[p], Len(k[p]))
             /\ b[p].kind = "eof" => p = Len(b)
  <2>1. CASE p = n
    <3>1. U[p] = T[n] /\ k[p] = h[n] /\ U[p + 1] = t /\ k[p + 1] = g /\ b[p] = node
      BY <1>3, <1>4, <2>1
    <3>2. Turn(b[p], p, U[p], k[p], U[p + 1], k[p + 1])
      BY <2>1, <3>1
    <3>3. Alive(b, k, p)
      <4> SUFFICES ASSUME b[p].kind \in {"open", "decl"}, NEW q \in 1 .. p - 1,
                          Returns(b, q)
                   PROVE  k[q] # k[p]
        BY DEF Alive
      <4>1. q \in 1 .. n - 1 /\ q \in 1 .. n
        BY <1>2, <2>1
      <4>2. Returns(a, q)
        BY <1>3, <4>1 DEF Returns
      <4>3. h[q] # h[n]
        BY <3>1, <4>1, <4>2
      <4> QED
        BY <1>4, <3>1, <4>1, <4>3
    <3>4. b[p].kind = "break" => LoopIn(b, k[p], Len(k[p]))
      <4>1. h[n] \in Seq(1 .. n - 1)
        BY <1>2, <1>5 DEF Shape
      <4>2. n \in Nat /\ Len(h[n]) \in 0 .. Len(h[n])
        BY <1>2, <4>1
      <4>4. \A q \in 1 .. n - 1 : b[q] = a[q]
        BY <1>3
      <4>3. LoopIn(b, h[n], Len(h[n])) <=> LoopIn(a, h[n], Len(h[n]))
        BY <4>1, <4>2, <4>4, LoopSame
      <4> QED
        BY <3>1, <4>3
    <3> QED
      BY <1>3, <2>1, <3>2, <3>3, <3>4
  <2>2. CASE p # n
    <3>1. p \in 1 .. n - 1 /\ p \in 1 .. Len(a) /\ p + 1 \in 1 .. n /\ p \in Nat
      BY <1>2, <2>2
    <3>2. /\ U[p] = T[p] /\ k[p] = h[p] /\ U[p + 1] = T[p + 1] /\ k[p + 1] = h[p + 1]
          /\ b[p] = a[p]
      BY <1>3, <1>4, <3>1
    <3>3. /\ Turn(a[p], p, T[p], h[p], T[p + 1], h[p + 1]) /\ Alive(a, h, p)
          /\ a[p].kind = "break" => LoopIn(a, h[p], Len(h[p]))
      BY <3>1 DEF Tree
    <3>4. Alive(b, k, p)
      <4> SUFFICES ASSUME b[p].kind \in {"open", "decl"}, NEW q \in 1 .. p - 1,
                          Returns(b, q)
                   PROVE  k[q] # k[p]
        BY DEF Alive
      <4>1. q \in 1 .. n - 1 /\ q \in 1 .. n
        BY <1>2, <3>1
      <4>2. Returns(a, q)
        BY <1>3, <4>1 DEF Returns
      <4>3. h[q] # h[p]
        BY <3>2, <3>3, <4>2 DEF Alive
      <4> QED
        BY <1>4, <3>2, <4>1, <4>3
    <3>5. LoopIn(b, h[p], Len(h[p])) <=> LoopIn(a, h[p], Len(h[p]))
      <4>1. h[p] \in Seq(1 .. p - 1)
        BY <1>5 DEF Shape
      <4>2. Len(h[p]) \in 0 .. Len(h[p]) /\ \A q \in 1 .. p - 1 : b[q] = a[q]
        BY <1>3, <3>1, <4>1
      <4> QED
        BY <3>1, <4>1, <4>2, LoopSame
    <3>6. b[p].kind # "eof"
      BY <3>1, <3>2
    <3> QED
      BY <3>2, <3>3, <3>4, <3>5, <3>6
  <2> QED
    BY <2>1, <2>2
<1>9. ASSUME NEW p \in 1 .. n + 1
      PROVE  Good(U[p]) /\ Later(U[p], U[n + 1]) /\ Shape(b, U, p, U[p], k[p])
  <2>1. CASE p = n + 1
    BY <1>4, <1>7, <2>1, LaterItself
  <2>2. CASE p # n + 1
    <3>1. p \in 1 .. n /\ n \in 1 .. n
      BY <1>2, <2>2
    <3>2. Later(T[p], t)
      BY <1>5, <1>7, <3>1, LaterTransitive
    <3> QED
      BY <1>4, <1>5, <1>6, <3>1, <3>2
  <2> QED
    BY <2>1, <2>2
<1>10. U[1] = AddLib(symbols_new) /\ k[1] = <<>>
  <2>1. 1 \in 1 .. n
    BY <1>2
  <2> QED
    BY <1>4, <2>1 DEF Tree
<1>11. Tree(b, U, k)
  <2>1. n = Len(b)
    BY <1>3
  <2> QED
    BY <1>3, <1>8, <1>9, <1>10, <2>1 DEF Tree
<1> QED
  BY <1>11

-----------------------------------------------------------------------------
(* The C stack. *)

LEMMA FramesSame ==
    ASSUME NEW c, NEW a, NEW T, NEW p \in Nat, NEW g \in Seq(1 .. p - 1), Frames(c, a, T, g),
           NEW b, NEW U, \A q \in 1 .. p - 1 : b[q] = a[q] /\ U[q] = T[q]
    PROVE  Frames(c, b, U, g)
<1>1. \A i \in 1 .. Len(c) : g[i] \in 1 .. p - 1
  BY DEF Frames
<1>2. \A i \in 1 .. Len(c) : b[g[i]] = a[g[i]] /\ U[g[i]] = T[g[i]]
  BY <1>1
<1> QED
  BY <1>2 DEF Frames, FrameOf

\* A brace is opened: one frame more.
LEMMA FramesPush ==
    ASSUME NEW c, NEW a, NEW T, NEW e, Frames(c, a, T, e), IsSeq(e), NEW p,
           NEW f, FrameOf(f, a, T, p),
           NEW d, Pushed(d, c, f), NEW g, Pushed(g, e, p)
    PROVE  /\ Frames(d, a, T, g)
           /\ Len(g) = Len(e) + 1 /\ Len(e) \in Nat /\ g[Len(e) + 1] = p
           /\ d[Len(e) + 1] = f
           /\ \A i \in 1 .. Len(e) : g[i] = e[i] /\ d[i] = c[i]
<1>1. /\ IsSeq(c) /\ Len(c) = Len(e) /\ Len(e) \in Nat
  BY DEF Frames, IsSeq
<1>2. /\ IsSeq(d) /\ Len(d) = Len(c) + 1 /\ d[Len(c) + 1] = f
      /\ \A i \in 1 .. Len(c) : d[i] = c[i]
  BY <1>1, AppendIs
<1>3. /\ IsSeq(g) /\ Len(g) = Len(e) + 1 /\ g[Len(e) + 1] = p
      /\ \A i \in 1 .. Len(e) : g[i] = e[i]
  BY AppendIs
<1>4. ASSUME NEW i \in 1 .. Len(d)
      PROVE  FrameOf(d[i], a, T, g[i])
  <2>1. CASE i = Len(e) + 1
    BY <1>1, <1>2, <1>3, <2>1
  <2>2. CASE i # Len(e) + 1
    <3>1. i \in 1 .. Len(e) /\ i \in 1 .. Len(c)
      BY <1>1, <1>2, <2>2
    <3> QED
      BY <1>2, <1>3, <3>1 DEF Frames
  <2> QED
    BY <2>1, <2>2
<1>5. Frames(d, a, T, g)
  BY <1>1, <1>2, <1>3, <1>4 DEF Frames
<1> QED
  BY <1>1, <1>2, <1>3, <1>5

\* A brace is closed: one frame less.
LEMMA FramesPop ==
    ASSUME NEW c, NEW a, NEW T, NEW e, Frames(c, a, T, e), IsSeq(e), e # <<>>,
           NEW d, d = Front(c), NEW g, g = Front(e)
    PROVE  /\ Frames(d, a, T, g) /\ c # <<>>
           /\ Len(g) = Len(e) - 1 /\ Len(e) \in Nat \ {0} /\ Len(c) = Len(e)
           /\ \A i \in 1 .. Len(g) : g[i] = e[i] /\ d[i] = c[i]
<1>1. /\ IsSeq(c) /\ Len(c) = Len(e) /\ Len(e) \in Nat
  BY DEF Frames, IsSeq
<1>2. /\ IsSeq(g) /\ Len(g) = Len(e) - 1 /\ Len(e) \in Nat \ {0}
      /\ \A i \in 1 .. Len(e) - 1 : g[i] = e[i]
  BY FrontIs
<1>3. c # <<>>
  BY <1>1, <1>2
<1>4. /\ IsSeq(d) /\ Len(d) = Len(c) - 1
      /\ \A i \in 1 .. Len(c) - 1 : d[i] = c[i]
  BY <1>1, <1>3, FrontIs
<1>5. Frames(d, a, T, g)
  <2>1. \A i \in 1 .. Len(d) : i \in 1 .. Len(c) /\ d[i] = c[i] /\ g[i] = e[i]
    BY <1>1, <1>2, <1>4
  <2> QED
    BY <1>1, <1>2, <1>4, <2>1 DEF Frames
<1> QED
  BY <1>1, <1>2, <1>3, <1>4, <1>5

\* A stack of positions before p is not the start of one with p in it.
LEMMA NotYet ==
    ASSUME NEW p \in Nat, NEW q \in 1 .. p, NEW e \in Seq(1 .. q - 1),
           NEW g, NEW n \in Nat \ {0}, g[n] = p
    PROVE  ~StartOf(e, g, n)
<1>1. SUFFICES ASSUME StartOf(e, g, n) PROVE FALSE
  OBVIOUS
<1>2. n \in 1 .. Len(e) /\ e[n] = p
  BY <1>1 DEF StartOf
<1>3. e[n] \in 1 .. q - 1
  BY <1>2
<1> QED
  BY <1>2, <1>3

\* The first n braces of two stacks that agree on them.
LEMMA StartSame ==
    ASSUME NEW h, NEW e, NEW g, NEW n \in Nat, \A i \in 1 .. n : g[i] = e[i]
    PROVE  /\ StartOf(h, g, n) <=> StartOf(h, e, n)
           /\ \A a : LoopIn(a, g, n) <=> LoopIn(a, e, n)
           /\ \A a, x : IsTarget(a, g, n, x) <=> IsTarget(a, e, n, x)
<1>1. StartOf(h, g, n) <=> StartOf(h, e, n)
  BY DEF StartOf
<1>2. ASSUME NEW a
      PROVE  LoopIn(a, g, n) <=> LoopIn(a, e, n)
  BY DEF LoopIn
<1>3. ASSUME NEW a, NEW x
      PROVE  IsTarget(a, g, n, x) <=> IsTarget(a, e, n, x)
  <2>1. \A i \in 1 .. n : \A j \in i + 1 .. n : j \in 1 .. n
    OBVIOUS
  <2>2. (\E i \in 1 .. n : /\ x = g[i] /\ a[g[i]].kind = "open" /\ a[g[i]].loop
                           /\ \A j \in i + 1 .. n : ~(a[g[j]].kind = "open" /\ a[g[j]].loop))
     <=> (\E i \in 1 .. n : /\ x = e[i] /\ a[e[i]].kind = "open" /\ a[e[i]].loop
                            /\ \A j \in i + 1 .. n : ~(a[e[j]].kind = "open" /\ a[e[j]].loop))
    BY <2>1
  <2> QED
    BY <1>2, <2>2 DEF IsTarget
<1> QED
  BY <1>1, <1>2, <1>3

\* One node more, which is no return, and the same stack.
LEMMA KeptGrows ==
    ASSUME NEW c, NEW w, NEW a, IsSeq(a), NEW T, NEW h, NEW e, Kept(c, w, a, T, h, e),
           NEW n, e \in Seq(1 .. n - 1), NEW node, NEW t, NEW g, NEW b, NEW U, NEW k,
           Grown(n, a, T, h, node, t, g, b, U, k), ~(node.kind = "return" /\ node.direct)
    PROVE  Kept(c, w, b, U, k, e)
<1>1. /\ Len(a) = n - 1 /\ n \in Nat \ {0} /\ n \in Nat
      /\ Len(b) = n /\ b[n] = node
      /\ \A p \in 1 .. n - 1 : b[p] = a[p]
      /\ \A p \in 1 .. n : U[p] = T[p] /\ k[p] = h[p]
  BY GrownIs
<1>2. \A q \in 1 .. n - 1 : b[q] = a[q] /\ U[q] = T[q] /\ k[q] = h[q]
  BY <1>1
<1>3. Frames(c, b, U, e)
  <2>1. Frames(c, a, T, e)
    BY DEF Kept
  <2>2. \A q \in 1 .. n - 1 : b[q] = a[q] /\ U[q] = T[q]
    BY <1>2
  <2>3. n \in Nat
    BY <1>1
  <2> QED
    BY <2>1, <2>2, <2>3, FramesSame
<1>4. ASSUME NEW m \in 0 .. Len(e)
      PROVE  LoopIn(b, e, m) <=> LoopIn(a, e, m)
  <2>1. \A q \in 1 .. n - 1 : b[q] = a[q]
    BY <1>2
  <2>2. n \in Nat
    BY <1>1
  <2> QED
    BY <2>1, <2>2, LoopSame
<1>5. Len(e) \in Nat /\ Len(e) \in 0 .. Len(e)
  OBVIOUS
<1>6. ASSUME NEW i \in 1 .. Len(e)
      PROVE  /\ c[i].while \in BOOLEAN /\ (c[i].while <=> LoopIn(b, e, i - 1))
             /\ \A q \in 1 .. Len(b) :
                   Returns(b, q) /\ StartOf(k[q], e, i) => c[i].dead = TRUE
  <2>1. i - 1 \in 0 .. Len(e)
    BY <1>5
  <2>2. c[i].while \in BOOLEAN /\ (c[i].while <=> LoopIn(a, e, i - 1))
    BY DEF Kept
  <2>3. ASSUME NEW q \in 1 .. Len(b), Returns(b, q), StartOf(k[q], e, i)
        PROVE  c[i].dead = TRUE
    <3>1. q # n
      BY <1>1, <2>3 DEF Returns
    <3>2. q \in 1 .. n - 1 /\ q \in 1 .. Len(a)
      BY <1>1, <3>1
    <3>3. Returns(a, q) /\ StartOf(h[q], e, i)
      BY <1>2, <2>3, <3>2 DEF Returns
    <3> QED
      BY <3>2, <3>3 DEF Kept
  <2> QED
    BY <1>4, <2>1, <2>2, <2>3
<1>7. w \in BOOLEAN /\ (w <=> LoopIn(b, e, Len(e)))
  BY <1>4, <1>5 DEF Kept
<1> QED
  BY <1>3, <1>6, <1>7 DEF Kept

\* The flag of the loops inside a brace, from the one around it; the frame has both.
Inside(v, w, node, f) ==
    /\ f.while = w
    /\ v \in BOOLEAN /\ (v <=> w \/ (node.kind = "open" /\ node.loop))

\* The last node opens a brace.
LEMMA KeptPush ==
    ASSUME NEW c, NEW w, NEW a, NEW T, NEW h, NEW e, Kept(c, w, a, T, h, e),
           NEW p \in Nat, e \in Seq(1 .. p - 1),
           \A q \in 1 .. Len(a) : q \in 1 .. p /\ h[q] \in Seq(1 .. q - 1),
           NEW f, FrameOf(f, a, T, p),
           NEW d, Pushed(d, c, f), NEW g, Pushed(g, e, p),
           NEW v, Inside(v, w, a[p], f)
    PROVE  Kept(d, v, a, T, h, g)
<1>8. f.while = w /\ v \in BOOLEAN /\ (v <=> w \/ (a[p].kind = "open" /\ a[p].loop))
  BY DEF Inside
<1>0. Frames(c, a, T, e) /\ IsSeq(e)
  BY SeqIs DEF Kept
<1>1. /\ Frames(d, a, T, g)
      /\ Len(g) = Len(e) + 1 /\ Len(e) \in Nat /\ g[Len(e) + 1] = p
      /\ d[Len(e) + 1] = f
      /\ \A i \in 1 .. Len(e) : g[i] = e[i] /\ d[i] = c[i]
  BY <1>0, FramesPush
<1>7. Len(g) = Len(e) + 1 /\ Len(e) \in Nat
  BY <1>1
<1>2. ASSUME NEW m \in 0 .. Len(e)
      PROVE  LoopIn(a, g, m) <=> LoopIn(a, e, m)
  <2>1. m \in Nat /\ \A i \in 1 .. m : g[i] = e[i]
    BY <1>1
  <2> QED
    BY <2>1, StartSame
<1>3. Len(e) \in 0 .. Len(e) /\ Len(e) + 1 \in 1 .. Len(g)
  BY <1>1
<1>4. w \in BOOLEAN /\ (w <=> LoopIn(a, g, Len(e)))
  BY <1>2, <1>3 DEF Kept
<1>5. v <=> LoopIn(a, g, Len(g))
  <2>1. \A j \in 1 .. Len(g) : j \in 1 .. Len(e) \/ j = Len(e) + 1
    BY <1>1
  <2>2. \A j \in 1 .. Len(e) : j \in 1 .. Len(g)
    BY <1>1
  <2>3. LoopIn(a, g, Len(g)) <=> LoopIn(a, g, Len(e)) \/ (a[p].kind = "open" /\ a[p].loop)
    BY <1>1, <1>3, <2>1, <2>2 DEF LoopIn
  <2> QED
    BY <1>4, <1>8, <2>3
<1>6. ASSUME NEW i \in 1 .. Len(g)
      PROVE  /\ d[i].while \in BOOLEAN /\ (d[i].while <=> LoopIn(a, g, i - 1))
             /\ \A q \in 1 .. Len(a) :
                   Returns(a, q) /\ StartOf(h[q], g, i) => d[i].dead = TRUE
  <2>1. CASE i = Len(e) + 1
    <3>1. d[i].while = w /\ i - 1 = Len(e)
      BY <1>1, <1>8, <2>1
    <3>2. ASSUME NEW q \in 1 .. Len(a), StartOf(h[q], g, i)
          PROVE  FALSE
      <4>1. q \in 1 .. p /\ h[q] \in Seq(1 .. q - 1)
        OBVIOUS
      <4>2. i \in Nat \ {0} /\ g[i] = p
        BY <1>1, <2>1
      <4> QED
        BY <3>2, <4>1, <4>2, NotYet
    <3> QED
      BY <1>4, <3>1, <3>2
  <2>2. CASE i # Len(e) + 1
    <3>1. i \in 1 .. Len(e) /\ i - 1 \in 0 .. Len(e) /\ i \in Nat
      BY <1>7, <2>2
    <3>2. d[i] = c[i]
      BY <1>1, <3>1
    <3>3. c[i].while \in BOOLEAN /\ (c[i].while <=> LoopIn(a, e, i - 1))
      BY <3>1 DEF Kept
    <3>4. ASSUME NEW q \in 1 .. Len(a), Returns(a, q), StartOf(h[q], g, i)
          PROVE  c[i].dead = TRUE
      <4>1. \A j \in 1 .. i : g[j] = e[j]
        BY <1>1, <3>1
      <4>2. StartOf(h[q], e, i)
        BY <3>1, <3>4, <4>1, StartSame
      <4> QED
        BY <3>1, <3>4, <4>2 DEF Kept
    <3> QED
      BY <1>2, <3>1, <3>2, <3>3, <3>4
  <2> QED
    BY <2>1, <2>2
<1> QED
  BY <1>1, <1>5, <1>6, <1>8 DEF Kept

\* A brace is closed.
LEMMA KeptPop ==
    ASSUME NEW c, NEW w, NEW a, NEW T, NEW h, NEW e, Kept(c, w, a, T, h, e),
           IsSeq(e), e # <<>>, NEW d, d = Front(c), NEW g, g = Front(e)
    PROVE  Kept(d, c[Len(c)].while, a, T, h, g)
<1>0. Frames(c, a, T, e)
  BY DEF Kept
<1>1. /\ Frames(d, a, T, g) /\ Len(c) = Len(e)
      /\ Len(g) = Len(e) - 1 /\ Len(e) \in Nat \ {0}
      /\ \A i \in 1 .. Len(g) : g[i] = e[i] /\ d[i] = c[i]
  BY <1>0, FramesPop
<1>2. ASSUME NEW m \in 0 .. Len(g)
      PROVE  LoopIn(a, g, m) <=> LoopIn(a, e, m)
  <2>1. m \in Nat /\ \A i \in 1 .. m : g[i] = e[i]
    BY <1>1
  <2> QED
    BY <2>1, StartSame
<1>3. ASSUME NEW i \in 1 .. Len(g)
      PROVE  /\ d[i].while \in BOOLEAN /\ (d[i].while <=> LoopIn(a, g, i - 1))
             /\ \A q \in 1 .. Len(a) :
                   Returns(a, q) /\ StartOf(h[q], g, i) => d[i].dead = TRUE
  <2>1. i \in 1 .. Len(e) /\ i - 1 \in 0 .. Len(g) /\ i \in Nat /\ d[i] = c[i]
    BY <1>1
  <2>2. c[i].while \in BOOLEAN /\ (c[i].while <=> LoopIn(a, e, i - 1))
    BY <2>1 DEF Kept
  <2>3. ASSUME NEW q \in 1 .. Len(a), Returns(a, q), StartOf(h[q], g, i)
        PROVE  c[i].dead = TRUE
    <3>1. \A j \in 1 .. i : g[j] = e[j]
      BY <1>1, <2>1
    <3>2. StartOf(h[q], e, i)
      BY <2>1, <2>3, <3>1, StartSame
    <3> QED
      BY <2>1, <2>3, <3>2 DEF Kept
  <2> QED
    BY <1>2, <2>1, <2>2, <2>3
<1>4. /\ c[Len(c)].while \in BOOLEAN
      /\ (c[Len(c)].while <=> LoopIn(a, g, Len(g)))
  <2>1. Len(c) \in 1 .. Len(e) /\ Len(c) - 1 = Len(g) /\ Len(g) \in 0 .. Len(g)
    BY <1>1
  <2>2. /\ c[Len(c)].while \in BOOLEAN
        /\ (c[Len(c)].while <=> LoopIn(a, e, Len(g)))
    BY <2>1 DEF Kept
  <2> QED
    BY <1>2, <2>1, <2>2
<1> QED
  BY <1>1, <1>3, <1>4 DEF Kept

\* A return is met, which may be directly inside the innermost brace.
LEMMA KeptReturn ==
    ASSUME NEW c, NEW w, NEW a, IsSeq(a), NEW T, NEW h, NEW e, Kept(c, w, a, T, h, e),
           NEW n, e \in Seq(1 .. n - 1), e # <<>>, h[n] = e,
           NEW node, NEW t, NEW g, NEW b, NEW U, NEW k,
           Grown(n, a, T, h, node, t, g, b, U, k), node.direct \in BOOLEAN,
           NEW d, d = [c EXCEPT ![Len(c)].dead = @ \/ node.direct]
    PROVE  Kept(d, w, b, U, k, e)
<1>1. /\ Len(a) = n - 1 /\ n \in Nat \ {0} /\ n \in Nat
      /\ Len(b) = n /\ b[n] = node
      /\ \A p \in 1 .. n - 1 : b[p] = a[p]
      /\ \A p \in 1 .. n : U[p] = T[p] /\ k[p] = h[p]
  BY GrownIs
<1>2. \A q \in 1 .. n - 1 : b[q] = a[q] /\ U[q] = T[q] /\ k[q] = h[q]
  BY <1>1
<1>3. Len(e) \in Nat \ {0} /\ Len(e) \in 0 .. Len(e)
  <2>1. IsSeq(e)
    BY SeqIs
  <2> QED
    BY <2>1, FrontIs
<1>4. IsSeq(c) /\ Len(c) = Len(e) /\ Frames(c, a, T, e)
  BY DEF Kept, Frames
<1>5. PICK x : x = [c[Len(c)] EXCEPT !.dead = @ \/ node.direct]
  OBVIOUS
<1>12. /\ IsFrame(x) /\ x.node = c[Len(c)].node /\ x.base = c[Len(c)].base
       /\ x.kind = c[Len(c)].kind /\ x.while = c[Len(c)].while
       /\ x.dead = (c[Len(c)].dead \/ node.direct)
  <2>1. IsFrame(c[Len(c)])
    BY <1>3, <1>4 DEF Frames, FrameOf
  <2> QED
    BY <1>5, <2>1 DEF IsFrame
<1>6. /\ IsSeq(d) /\ Len(d) = Len(c) /\ d[Len(c)] = x
      /\ \A i \in 1 .. Len(c) : i # Len(c) => d[i] = c[i]
  <2>1. Len(c) \in 1 .. Len(c) /\ Updated(d, c, Len(c), x)
    BY <1>3, <1>4, <1>5 DEF Updated
  <2> QED
    BY <1>4, <2>1, ExceptIs
<1>7. \A i \in 1 .. Len(e) : /\ d[i].node = c[i].node /\ d[i].base = c[i].base
                             /\ d[i].kind = c[i].kind /\ d[i].while = c[i].while
                             /\ IsFrame(d[i])
  BY <1>4, <1>6, <1>12 DEF Frames, FrameOf
<1>8. Frames(d, b, U, e)
  <2>1. Frames(d, a, T, e)
    BY <1>4, <1>6, <1>7 DEF Frames, FrameOf
  <2>2. \A q \in 1 .. n - 1 : b[q] = a[q] /\ U[q] = T[q]
    BY <1>2
  <2>3. n \in Nat
    BY <1>1
  <2> QED
    BY <2>1, <2>2, <2>3, FramesSame
<1>9. ASSUME NEW m \in 0 .. Len(e)
      PROVE  LoopIn(b, e, m) <=> LoopIn(a, e, m)
  <2>1. \A q \in 1 .. n - 1 : b[q] = a[q]
    BY <1>2
  <2>2. n \in Nat
    BY <1>1
  <2> QED
    BY <2>1, <2>2, LoopSame
<1>10. ASSUME NEW i \in 1 .. Len(e)
       PROVE  /\ d[i].while \in BOOLEAN /\ (d[i].while <=> LoopIn(b, e, i - 1))
              /\ \A q \in 1 .. Len(b) :
                    Returns(b, q) /\ StartOf(k[q], e, i) => d[i].dead = TRUE
  <2>1. i - 1 \in 0 .. Len(e)
    BY <1>3
  <2>2. d[i].while \in BOOLEAN /\ (d[i].while <=> LoopIn(a, e, i - 1))
    BY <1>7 DEF Kept
  <2>3. ASSUME NEW q \in 1 .. Len(b), Returns(b, q), StartOf(k[q], e, i)
        PROVE  d[i].dead = TRUE
    <3>1. CASE q = n
      <4>1. StartOf(e, e, i) /\ node.direct
        BY <1>1, <2>3, <3>1 DEF Returns
      <4>2. i = Len(c)
        BY <1>4, <4>1 DEF StartOf
      <4>3. x.dead = TRUE
        BY <1>12, <4>1
      <4> QED
        BY <1>6, <4>2, <4>3
    <3>2. CASE q # n
      <4>1. q \in 1 .. n - 1 /\ q \in 1 .. Len(a)
        BY <1>1, <3>2
      <4>2. Returns(a, q) /\ StartOf(h[q], e, i)
        BY <1>2, <2>3, <4>1 DEF Returns
      <4>3. c[i].dead = TRUE
        BY <4>1, <4>2 DEF Kept
      <4>4. CASE i = Len(c)
        <5>1. x.dead = TRUE
          BY <1>12, <4>3, <4>4
        <5> QED
          BY <1>6, <4>4, <5>1
      <4>5. CASE i # Len(c)
        BY <1>4, <1>6, <4>3, <4>5
      <4> QED
        BY <4>4, <4>5
    <3> QED
      BY <3>1, <3>2
  <2> QED
    BY <1>9, <2>1, <2>2, <2>3
<1>11. w \in BOOLEAN /\ (w <=> LoopIn(b, e, Len(e)))
  BY <1>3, <1>9 DEF Kept
<1> QED
  BY <1>8, <1>10, <1>11 DEF Kept

-----------------------------------------------------------------------------
(* The first pass. *)

\* What History says of the table, the stack of braces and the C stack of either pass.
LEMMA TreeTypes ==
    ASSUME NEW a, NEW T, NEW h, Tree(a, T, h)
    PROVE  /\ IsSeq(a) /\ Len(a) \in Nat
           /\ \A p \in 1 .. Len(a) + 1 :
                 /\ Good(T[p]) /\ T[p].level \in Nat
                 /\ h[p] \in Seq(1 .. p - 1) /\ IsSeq(h[p]) /\ Len(h[p]) \in Nat
                 /\ (h[p] = <<>> <=> Len(h[p]) = 0)
<1>1. IsSeq(a) /\ Len(a) \in Nat
  BY DEF Tree, IsSeq
<1>2. ASSUME NEW p \in 1 .. Len(a) + 1
      PROVE  /\ Good(T[p]) /\ T[p].level \in Nat
             /\ h[p] \in Seq(1 .. p - 1) /\ IsSeq(h[p]) /\ Len(h[p]) \in Nat
             /\ (h[p] = <<>> <=> Len(h[p]) = 0)
  <2>1. Good(T[p]) /\ Shape(a, T, p, T[p], h[p])
    BY DEF Tree
  <2>2. PICK g : g = h[p]
    OBVIOUS
  <2>3. g \in Seq(1 .. p - 1)
    BY <2>1, <2>2 DEF Shape
  <2>4. IsSeq(g) /\ Len(g) \in Nat /\ (g = <<>> <=> Len(g) = 0)
    BY <2>3, SeqIs
  <2>5. T[p].level \in Nat
    BY <2>1, GoodTypes
  <2> QED
    BY <2>1, <2>2, <2>3, <2>4, <2>5
<1> QED
  BY <1>1, <1>2

LEMMA InFirstPass ==
    ASSUME NEW T, NEW h, History(T, h), phase = "semantic", NEW n, n = Len(ast) + 1
    PROVE  /\ Tree(ast, T, h) /\ IsSeq(ast) /\ n \in Nat \ {0} /\ n \in Nat
           /\ Len(ast) = n - 1
           /\ symbols = T[n] /\ Good(symbols) /\ symbols.level \in Nat
           /\ \A p \in 1 .. Len(ast) : ast[p].kind # "eof"
           /\ Kept(ctl, m_while, ast, T, h, h[n])
           /\ h[n] \in Seq(1 .. n - 1) /\ IsSeq(h[n]) /\ Len(h[n]) \in Nat
           /\ IsSeq(ctl) /\ Len(ctl) = Len(h[n])
           /\ (ctl = <<>> <=> h[n] = <<>>)
           /\ \A q \in 1 .. n : h[q] \in Seq(1 .. q - 1)
<1>1. Tree(ast, T, h) /\ InSemantic(T, h)
  BY DEF History
<1>2. IsSeq(ast) /\ n \in Nat \ {0} /\ Len(ast) = n - 1 /\ n \in 1 .. Len(ast) + 1
  BY <1>1, TreeTypes
<1>3. \A p \in 1 .. n : /\ Good(T[p]) /\ T[p].level \in Nat
                        /\ h[p] \in Seq(1 .. p - 1) /\ IsSeq(h[p]) /\ Len(h[p]) \in Nat
                        /\ (h[p] = <<>> <=> Len(h[p]) = 0)
  BY <1>1, TreeTypes
<1>4. /\ symbols = T[n] /\ Kept(ctl, m_while, ast, T, h, h[n])
      /\ \A p \in 1 .. Len(ast) : ast[p].kind # "eof"
  BY <1>1 DEF InSemantic
<1>5. IsSeq(ctl) /\ Len(ctl) = Len(h[n])
  BY <1>4 DEF Kept, Frames
<1>6. ctl = <<>> <=> Len(ctl) = 0
  BY <1>5 DEF IsSeq
<1>7. n \in 1 .. n
  BY <1>2
<1> QED
  BY <1>1, <1>2, <1>3, <1>4, <1>5, <1>6, <1>7

\* The history of the first pass grows with the tree.
LEMMA SnapGrows ==
    ASSUME NEW n, NEW a, NEW T, NEW h, NEW node, NEW t, NEW g, NEW b, NEW U, NEW k,
           Growth(n, a, T, h, node, t, g, b, U, k),
           NEW c, IsSeq(c), Len(c) = Len(a), \A p \in 1 .. Len(a) : c[p] = T[p],
           NEW d, Pushed(d, c, T[n])
    PROVE  IsSeq(d) /\ Len(d) = Len(b) /\ \A p \in 1 .. Len(b) : d[p] = U[p]
<1>1. /\ Len(a) = n - 1 /\ n \in Nat \ {0} /\ Len(b) = n
      /\ \A p \in 1 .. n : U[p] = T[p]
  BY DEF Growth
<1>2. /\ IsSeq(d) /\ Len(d) = Len(c) + 1 /\ d[Len(c) + 1] = T[n]
      /\ \A i \in 1 .. Len(c) : d[i] = c[i]
  BY AppendIs
<1>3. ASSUME NEW p \in 1 .. n
      PROVE  d[p] = U[p]
  <2>1. CASE p = n
    BY <1>1, <1>2, <2>1
  <2>2. CASE p # n
    <3>1. p \in 1 .. Len(a) /\ p \in 1 .. Len(c)
      BY <1>1, <2>2
    <3> QED
      BY <1>1, <1>2, <3>1
  <2> QED
    BY <2>1, <2>2
<1> QED
  BY <1>1, <1>2, <1>3

\* A node is met.
LEMMA MeetStep ==
    ASSUME NEW T, NEW h, History(T, h), NEW n, n = Len(ast) + 1, NEW node, NEW t, NEW g,
           node.kind # "eof", Meet(node, t), UNCHANGED irVars,
           Turn(node, n, T[n], h[n], t, g),
           node.kind \in {"open", "decl"} =>
               \A q \in 1 .. n - 1 : Returns(ast, q) => h[q] # h[n],
           node.kind = "break" => LoopIn(ast, h[n], Len(h[n])),
           \A U, k : Grown(n, ast, T, h, node, t, g, ast', U, k)
                         => Kept(ctl', m_while', ast', U, k, g)
    PROVE  IInv'
<1>1. /\ phase = "semantic" /\ phase' = "semantic" /\ ast' = Append(ast, node)
      /\ snap' = Append(snap, symbols) /\ symbols' = t
      /\ pos' = pos /\ raws' = raws /\ m_returned' = m_returned
      /\ m_curr_end' = m_curr_end
  BY DEF Meet, irVars
<1>2. PICK U : U = [p \in 1 .. n + 1 |-> IF p <= n THEN T[p] ELSE t]
  OBVIOUS
<1>3. PICK k : k = [p \in 1 .. n + 1 |-> IF p <= n THEN h[p] ELSE g]
  OBVIOUS
<1>4. Grown(n, ast, T, h, node, t, g, ast', U, k)
  BY <1>1, <1>2, <1>3 DEF Grown
<1>5. Tree(ast, T, h) /\ IsSeq(ast) /\ Len(ast) = n - 1 /\ symbols = T[n]
      /\ \A p \in 1 .. Len(ast) : ast[p].kind # "eof"
  BY <1>1, InFirstPass
<1>6. Tree(ast', U, k)
  BY <1>4, <1>5, TreeGrows
<1>7. /\ Len(ast) = n - 1 /\ n \in Nat \ {0} /\ n \in Nat
      /\ IsSeq(ast') /\ Len(ast') = n /\ ast'[n] = node
      /\ \A p \in 1 .. n - 1 : ast'[p] = ast[p]
      /\ \A p \in 1 .. n : U[p] = T[p] /\ k[p] = h[p]
      /\ U[n + 1] = t /\ k[n + 1] = g
  <2>1. IsSeq(ast)
    BY <1>5
  <2>2. Growth(n, ast, T, h, node, t, g, ast', U, k)
    BY <1>4, <2>1, GrownGrowth
  <2> QED
    BY <2>2 DEF Growth
<1>8. /\ IsSeq(snap') /\ Len(snap') = Len(ast')
      /\ \A p \in 1 .. Len(ast') : snap'[p] = U[p]
  <2>1. IsSeq(snap) /\ Len(snap) = Len(ast) /\ \A p \in 1 .. Len(ast) : snap[p] = T[p]
    BY DEF History
  <2>2. Pushed(snap', snap, T[n])
    BY <1>1, <1>5 DEF Pushed
  <2>3. Growth(n, ast, T, h, node, t, g, ast', U, k)
    BY <1>4, <1>5, GrownGrowth
  <2> QED
    BY <2>1, <2>2, <2>3, SnapGrows
<1>9. InSemantic(T, h)
  BY <1>1 DEF History
<1>10. raws \in SUBSET (0 .. t.count - 1)
  <2>1. Good(T[n]) /\ Good(t) /\ Later(T[n], t)
    <3>1. n \in 1 .. Len(ast') + 1 /\ n + 1 \in 1 .. Len(ast') + 1
      BY <1>7
    <3>2. Good(U[n]) /\ Good(U[n + 1]) /\ Later(U[n], U[Len(ast') + 1])
      BY <1>6, <3>1 DEF Tree
    <3>3. U[n] = T[n] /\ U[n + 1] = t /\ U[Len(ast') + 1] = t
      BY <1>7
    <3> QED
      BY <3>2, <3>3
  <2>2. T[n].count \in Nat /\ t.count \in Nat /\ T[n].count <= t.count
    BY <2>1, GoodTypes DEF Later, Grows
  <2>3. raws \in SUBSET (0 .. T[n].count - 1)
    BY <1>5, <1>9 DEF InSemantic
  <2>4. 0 .. T[n].count - 1 \subseteq 0 .. t.count - 1
    BY <2>2
  <2> QED
    BY <2>3, <2>4
<1>11. \A p \in 1 .. Len(ast') : ast'[p].kind # "eof"
  <2> TAKE p \in 1 .. Len(ast')
  <2>1. CASE p = n
    BY <1>7, <2>1
  <2>2. CASE p # n
    <3>1. p \in 1 .. n - 1 /\ p \in 1 .. Len(ast)
      BY <1>7, <2>2
    <3> QED
      BY <1>5, <1>7, <3>1
  <2> QED
    BY <2>1, <2>2
<1>12. Kept(ctl', m_while', ast', U, k, g)
  BY <1>4
<1>13. InSemantic(U, k)'
  <2>1. Len(ast') + 1 = n + 1
    BY <1>7
  <2>2. pos = 1 /\ m_returned = FALSE /\ m_curr_end = 0
    BY <1>9 DEF InSemantic
  <2> QED
    BY <1>1, <1>7, <1>10, <1>11, <1>12, <2>1, <2>2 DEF InSemantic
<1>14. History(U, k)'
  BY <1>1, <1>6, <1>8, <1>13 DEF History
<1> QED
  BY <1>14 DEF IInv

\* A node that neither opens nor closes a brace nor returns.
LEMMA SteadyStep ==
    ASSUME NEW T, NEW h, History(T, h), NEW n, n = Len(ast) + 1, NEW node, NEW t,
           node.kind \notin {"eof", "return"}, Meet(node, t), UNCHANGED irVars,
           UNCHANGED <<ctl, m_while>>,
           Turn(node, n, T[n], h[n], t, h[n]),
           node.kind \in {"open", "decl"} =>
               \A q \in 1 .. n - 1 : Returns(ast, q) => h[q] # h[n],
           node.kind = "break" => LoopIn(ast, h[n], Len(h[n]))
    PROVE  IInv'
<1>1. phase = "semantic" /\ ctl' = ctl /\ m_while' = m_while
  BY DEF Meet
<1>2. /\ IsSeq(ast) /\ Kept(ctl, m_while, ast, T, h, h[n])
      /\ h[n] \in Seq(1 .. n - 1)
  BY <1>1, InFirstPass
<1>3. ASSUME NEW U, NEW k, Grown(n, ast, T, h, node, t, h[n], ast', U, k)
      PROVE  Kept(ctl', m_while', ast', U, k, h[n])
  <2>1. PICK e : e = h[n]
    OBVIOUS
  <2>2. /\ Kept(ctl, m_while, ast, T, h, e) /\ e \in Seq(1 .. n - 1)
        /\ Grown(n, ast, T, h, node, t, e, ast', U, k)
    BY <1>2, <1>3, <2>1
  <2>3. ~(node.kind = "return" /\ node.direct)
    OBVIOUS
  <2>4. Kept(ctl, m_while, ast', U, k, e)
    BY <1>2, <2>2, <2>3, KeptGrows
  <2> QED
    BY <1>1, <2>1, <2>4
<1> QED
  BY <1>3, MeetStep

\* A node of a block that is not dead is not after a return.
LEMMA NoReturnBefore ==
    ASSUME NEW T, NEW h, History(T, h), phase = "semantic", NEW n, n = Len(ast) + 1,
           ctl # <<>> => Top.dead # TRUE
    PROVE  \A q \in 1 .. n - 1 : Returns(ast, q) => h[q] # h[n]
<1> SUFFICES ASSUME NEW q \in 1 .. n - 1, Returns(ast, q), h[q] = h[n]
             PROVE  FALSE
  OBVIOUS
<1>1. /\ Tree(ast, T, h) /\ Kept(ctl, m_while, ast, T, h, h[n]) /\ Len(ast) = n - 1
      /\ n \in Nat \ {0} /\ Len(ctl) = Len(h[n]) /\ Len(h[n]) \in Nat
      /\ (ctl = <<>> <=> h[n] = <<>>)
  BY InFirstPass
<1>2. h[q] # <<>>
  <2>1. q \in 1 .. Len(ast)
    BY <1>1
  <2>2. Turn(ast[q], q, T[q], h[q], T[q + 1], h[q + 1])
    BY <1>1, <2>1 DEF Tree
  <2>3. ast[q].kind = "return"
    BY DEF Returns
  <2> QED
    BY <2>2, <2>3 DEF Turn, Plain
<1>3. Len(ctl) \in 1 .. Len(h[n]) /\ q \in 1 .. Len(ast)
  <2>1. Len(h[n]) # 0
    <3>1. 1 .. n = 1 .. Len(ast) + 1 /\ n \in 1 .. n
      BY <1>1
    <3>2. h[n] = <<>> <=> Len(h[n]) = 0
      BY <1>1, <3>1, TreeTypes
    <3> QED
      BY <1>2, <3>2
  <2> QED
    BY <1>1, <2>1
<1>4. StartOf(h[q], h[n], Len(ctl))
  BY <1>1 DEF StartOf
<1>5. ctl[Len(ctl)].dead = TRUE
  BY <1>1, <1>3, <1>4 DEF Kept
<1> QED
  BY <1>1, <1>2, <1>5 DEF Top

\* error() has been called.
LEMMA ErrorStep ==
    ASSUME NEW T, NEW h, History(T, h), NEW condition, Error(condition), UNCHANGED irVars
    PROVE  IInv'
<1>1. /\ phase = "semantic" /\ phase' = "rejected"
      /\ symbols' = symbols /\ ast' = ast /\ snap' = snap /\ ctl' = ctl
      /\ m_while' = m_while
      /\ pos' = pos /\ raws' = raws /\ m_returned' = m_returned
      /\ m_curr_end' = m_curr_end
  BY DEF Error, irVars
<1>2. InSemantic(T, h)'
  BY <1>1 DEF History, InSemantic
<1>3. History(T, h)'
  BY <1>1, <1>2 DEF History
<1> QED
  BY <1>3 DEF IInv

LEMMA DeclStep ==
    ASSUME "dead_scope" \notin Admit, NEW T, NEW h, History(T, h), phase = "semantic",
           UNCHANGED irVars, NEW tag \in Tags, NEW defs \in Defs, Decl(tag, defs)
    PROVE  IInv'
<1>1. PICK n : n = Len(ast) + 1
  OBVIOUS
<1>2. PICK node : node = [kind |-> "decl", tag |-> tag, defs |-> defs]
  OBVIOUS
<1>3. PICK t : t = AddAll(IF symbols.level > 0 THEN symbols_indent(symbols) ELSE symbols,
                          NamesOf(defs), tag)
  OBVIOUS
<1>4. \/ \E condition : Error(condition)
      \/ Meet(node, t) /\ UNCHANGED <<ctl, m_while>>
  BY <1>2, <1>3 DEF Decl, symbols_level
<1>5. ctl # <<>> => Top.dead # TRUE
  BY DEF Decl, NoDeadScope, InFunction
<1>6. CASE Meet(node, t) /\ UNCHANGED <<ctl, m_while>>
  <2>1. symbols = T[n]
    BY <1>1, InFirstPass
  <2>2. Turn(node, n, T[n], h[n], t, h[n])
    <3>1. tag \in {"VARIABLE", "CONSTANT"}
      BY DEF Tags
    <3> QED
      BY <1>2, <1>3, <2>1, <3>1 DEF Turn
  <2>3. \A q \in 1 .. n - 1 : Returns(ast, q) => h[q] # h[n]
    BY <1>1, <1>5, NoReturnBefore
  <2>4. node.kind = "decl"
    BY <1>2
  <2> QED
    BY <1>1, <1>6, <2>2, <2>3, <2>4, SteadyStep
<1> QED
  BY <1>4, <1>6, ErrorStep

\* The frame of the node that is met at n with the table s.
FrameAt(f, node, n, s) ==
    /\ IsFrame(f)
    /\ f.node = n /\ f.base = s.level
    /\ f.kind = IF node.kind = "func" THEN "func" ELSE "block"

\* One node more, which opens a brace.
LEMMA KeptOpens ==
    ASSUME NEW c, NEW w, NEW a, IsSeq(a), NEW T, NEW h, NEW e, Kept(c, w, a, T, h, e),
           NEW n, e \in Seq(1 .. n - 1), \A q \in 1 .. n : h[q] \in Seq(1 .. q - 1),
           NEW node, node.kind # "return", NEW t, NEW g, Pushed(g, e, n),
           NEW b, NEW U, NEW k, Grown(n, a, T, h, node, t, g, b, U, k),
           NEW f, FrameAt(f, node, n, T[n]), NEW d, Pushed(d, c, f),
           NEW v, Inside(v, w, node, f)
    PROVE  Kept(d, v, b, U, k, g)
<1>1. Growth(n, a, T, h, node, t, g, b, U, k)
  BY GrownGrowth
<1>2. n \in Nat /\ Len(b) = n /\ b[n] = node /\ \A p \in 1 .. n : U[p] = T[p] /\ k[p] = h[p]
  BY <1>1 DEF Growth
<1>3. Kept(c, w, b, U, k, e)
  BY KeptGrows
<1>4. FrameOf(f, b, U, n)
  <2>1. n \in 1 .. n
    BY <1>1 DEF Growth
  <2> QED
    BY <1>2, <2>1 DEF FrameOf, FrameAt
<1>5. \A q \in 1 .. Len(b) : q \in 1 .. n /\ k[q] \in Seq(1 .. q - 1)
  BY <1>2
<1>6. Inside(v, w, b[n], f)
  BY <1>2
<1>7. n \in Nat
  BY <1>2
<1> QED
  BY <1>3, <1>4, <1>5, <1>6, <1>7, KeptPush

LEMMA BraceStep ==
    ASSUME NEW T, NEW h, History(T, h), NEW n, n = Len(ast) + 1, NEW node, NEW t,
           NEW g, NEW f, node.kind \in {"func", "open"}, Meet(node, t), UNCHANGED irVars,
           Turn(node, n, T[n], h[n], t, g), Pushed(g, h[n], n), Pushed(ctl', ctl, f),
           FrameAt(f, node, n, symbols), Inside(m_while', m_while, node, f),
           node.kind = "open" => \A q \in 1 .. n - 1 : Returns(ast, q) => h[q] # h[n]
    PROVE  IInv'
<1>1. phase = "semantic"
  BY DEF Meet
<1>2. /\ IsSeq(ast) /\ Kept(ctl, m_while, ast, T, h, h[n]) /\ symbols = T[n]
      /\ h[n] \in Seq(1 .. n - 1) /\ \A q \in 1 .. n : h[q] \in Seq(1 .. q - 1)
  BY <1>1, InFirstPass
<1>3. ASSUME NEW U, NEW k, Grown(n, ast, T, h, node, t, g, ast', U, k)
      PROVE  Kept(ctl', m_while', ast', U, k, g)
  <2>1. PICK e : e = h[n]
    OBVIOUS
  <2>2. /\ Kept(ctl, m_while, ast, T, h, e) /\ e \in Seq(1 .. n - 1) /\ Pushed(g, e, n)
        /\ FrameAt(f, node, n, T[n])
    BY <1>2, <2>1
  <2>3. node.kind # "return"
    OBVIOUS
  <2>4. IsSeq(ast) /\ \A q \in 1 .. n : h[q] \in Seq(1 .. q - 1)
    BY <1>2
  <2> QED
    BY <1>3, <2>2, <2>3, <2>4, KeptOpens
<1>4. node.kind \in {"open", "decl"} =>
          \A q \in 1 .. n - 1 : Returns(ast, q) => h[q] # h[n]
  OBVIOUS
<1>5. node.kind # "eof" /\ node.kind # "break"
  OBVIOUS
<1> QED
  BY <1>3, <1>4, <1>5, MeetStep

LEMMA FuncStep ==
    ASSUME NEW T, NEW h, History(T, h), phase = "semantic", UNCHANGED irVars,
           NEW name \in Name, NEW params \in Params, FuncDef(name, params)
    PROVE  IInv'
<1>1. PICK n : n = Len(ast) + 1
  OBVIOUS
<1>2. PICK node : node = [kind |-> "func", name |-> name, params |-> params]
  OBVIOUS
<1>3. PICK t : t = symbols_indent(AddAll(symbols_indent(symbols_add(symbols, name, "FUNCTION")),
                                         params, "VARIABLE"))
  OBVIOUS
<1>4. PICK f : f = Frame("func", n, 0)
  OBVIOUS
<1>5. PICK g : g = <<n>>
  OBVIOUS
<1>6. \/ \E condition : Error(condition)
      \/ Meet(node, t) /\ ctl' = Append(ctl, f) /\ UNCHANGED m_while
  BY <1>1, <1>2, <1>3, <1>4 DEF FuncDef
<1>7. CASE Meet(node, t) /\ ctl' = Append(ctl, f) /\ UNCHANGED m_while
  <2>1. symbols = T[n] /\ h[n] = <<>> /\ Kept(ctl, m_while, ast, T, h, h[n])
    <3>1. ctl = <<>>
      BY DEF FuncDef, InFunction
    <3> QED
      BY <1>1, <3>1, InFirstPass
  <2>2. Turn(node, n, T[n], h[n], t, g)
    BY <1>2, <1>3, <1>5, <2>1 DEF Turn
  <2>3. Pushed(g, h[n], n) /\ Pushed(ctl', ctl, f)
    BY <1>5, <1>7, <2>1 DEF Pushed
  <2>4. FrameAt(f, node, n, symbols) /\ Inside(m_while', m_while, node, f)
    <3>1. m_while \in BOOLEAN /\ m_while' = m_while
      BY <1>7, <2>1 DEF Kept
    <3> QED
      BY <1>2, <1>4, <3>1 DEF FrameAt, Inside, Frame, IsFrame
  <2>5. /\ node.kind \in {"func", "open"}
        /\ node.kind = "open" => \A q \in 1 .. n - 1 : Returns(ast, q) => h[q] # h[n]
    BY <1>2
  <2>6. Meet(node, t)
    BY <1>7
  <2> QED
    BY <1>1, <2>2, <2>3, <2>4, <2>5, <2>6, BraceStep
<1> QED
  BY <1>6, <1>7, ErrorStep

LEMMA OpenStep ==
    ASSUME "dead_scope" \notin Admit, NEW T, NEW h, History(T, h), phase = "semantic",
           UNCHANGED irVars, NEW loop \in BOOLEAN, Open(loop)
    PROVE  IInv'
<1>1. PICK n : n = Len(ast) + 1
  OBVIOUS
<1>2. PICK node : node = [kind |-> "open", loop |-> loop]
  OBVIOUS
<1>3. PICK t : t = symbols_indent(symbols)
  OBVIOUS
<1>4. PICK f : f = Frame("block", n, 0)
  OBVIOUS
<1>5. PICK g : g = Append(h[n], n)
  OBVIOUS
<1>6. Meet(node, t) /\ ctl' = Append(ctl, f) /\ m_while' = (m_while \/ loop)
  BY <1>1, <1>2, <1>3, <1>4 DEF Open
<1>7. ctl # <<>> /\ Top.dead # TRUE
  BY DEF Open, NoDeadScope, InFunction
<1>8. symbols = T[n] /\ h[n] # <<>> /\ Kept(ctl, m_while, ast, T, h, h[n])
  BY <1>1, <1>7, InFirstPass
<1>9. Turn(node, n, T[n], h[n], t, g)
  BY <1>2, <1>3, <1>5, <1>8 DEF Turn
<1>10. Pushed(g, h[n], n) /\ Pushed(ctl', ctl, f)
  BY <1>5, <1>6 DEF Pushed
<1>11. FrameAt(f, node, n, symbols) /\ Inside(m_while', m_while, node, f)
  <2>1. m_while \in BOOLEAN
    BY <1>8 DEF Kept
  <2> QED
    BY <1>2, <1>4, <1>6, <2>1 DEF FrameAt, Inside, Frame, IsFrame
<1>12. \A q \in 1 .. n - 1 : Returns(ast, q) => h[q] # h[n]
  BY <1>1, <1>7, NoReturnBefore
<1>13. /\ node.kind \in {"func", "open"}
       /\ node.kind = "open" => \A q \in 1 .. n - 1 : Returns(ast, q) => h[q] # h[n]
  BY <1>2, <1>12
<1>14. Meet(node, t)
  BY <1>6
<1> QED
  BY <1>1, <1>9, <1>10, <1>11, <1>13, <1>14, BraceStep

\* One node more, which closes a brace.
LEMMA KeptCloses ==
    ASSUME NEW c, NEW w, NEW a, IsSeq(a), NEW T, NEW h, NEW e, Kept(c, w, a, T, h, e),
           NEW n, e \in Seq(1 .. n - 1), e # <<>>, NEW node, node.kind # "return",
           NEW t, NEW g, g = Front(e),
           NEW b, NEW U, NEW k, Grown(n, a, T, h, node, t, g, b, U, k), NEW d, d = Front(c)
    PROVE  Kept(d, c[Len(c)].while, b, U, k, g)
<1>1. Kept(c, w, b, U, k, e)
  BY KeptGrows
<1>2. IsSeq(e)
  BY SeqIs
<1> QED
  BY <1>1, <1>2, KeptPop

LEMMA CloseStep ==
    ASSUME NEW T, NEW h, History(T, h), phase = "semantic", UNCHANGED irVars, Close
    PROVE  IInv'
<1>1. PICK n : n = Len(ast) + 1
  OBVIOUS
<1>2. PICK node : node = [kind |-> "close"]
  OBVIOUS
<1>3. PICK t : t = IF Top.kind = "func" THEN symbols_leave(symbols_leave(symbols))
                                        ELSE symbols_leave(symbols)
  OBVIOUS
<1>4. PICK g : g = Front(h[n])
  OBVIOUS
<1>5. Meet(node, t) /\ ctl' = Front(ctl) /\ m_while' = ctl[Len(ctl)].while /\ ctl # <<>>
  BY <1>2, <1>3 DEF Close, InFunction, Top
<1>6. /\ Tree(ast, T, h) /\ IsSeq(ast) /\ Len(ast) = n - 1 /\ n \in Nat \ {0}
      /\ symbols = T[n] /\ h[n] # <<>> /\ Kept(ctl, m_while, ast, T, h, h[n])
      /\ h[n] \in Seq(1 .. n - 1) /\ Len(ctl) = Len(h[n])
  BY <1>1, <1>5, InFirstPass
<1>7. Top.kind = "func" <=> Len(h[n]) = 1
  <2>1. PICK e : e = h[n]
    OBVIOUS
  <2>2. n \in 1 .. Len(ast) + 1
    BY <1>6
  <2>3. Shape(ast, T, n, T[n], e) /\ Frames(ctl, ast, T, e)
    BY <1>6, <2>1, <2>2 DEF Tree, Kept
  <2>4. Len(e) \in Nat \ {0}
    <3>1. IsSeq(e) /\ e # <<>>
      BY <1>6, <2>1, SeqIs
    <3> QED
      BY <3>1, FrontIs
  <2>5. Len(e) \in 1 .. Len(e) /\ Len(ctl) = Len(e)
    BY <1>6, <2>1, <2>4
  <2>6. ast[e[Len(e)]].kind = IF Len(e) = 1 THEN "func" ELSE "open"
    BY <2>3, <2>5 DEF Shape
  <2>7. FrameOf(ctl[Len(e)], ast, T, e[Len(e)])
    BY <2>3, <2>5 DEF Frames
  <2> QED
    BY <2>1, <2>5, <2>6, <2>7 DEF FrameOf, Top
<1>8. Turn(node, n, T[n], h[n], t, g)
  BY <1>2, <1>3, <1>4, <1>6, <1>7 DEF Turn
<1>9. ASSUME NEW U, NEW k, Grown(n, ast, T, h, node, t, g, ast', U, k)
      PROVE  Kept(ctl', m_while', ast', U, k, g)
  <2>1. PICK e : e = h[n]
    OBVIOUS
  <2>2. /\ Kept(ctl, m_while, ast, T, h, e) /\ e \in Seq(1 .. n - 1) /\ g = Front(e)
        /\ e # <<>>
    BY <1>4, <1>6, <2>1
  <2>3. node.kind # "return" /\ ctl' = Front(ctl) /\ IsSeq(ast)
    BY <1>2, <1>5, <1>6
  <2>4. Kept(ctl', ctl[Len(ctl)].while, ast', U, k, g)
    BY <1>9, <2>2, <2>3, KeptCloses
  <2> QED
    BY <1>5, <2>4
<1>10. node.kind = "close"
  BY <1>2
<1> QED
  BY <1>1, <1>5, <1>8, <1>9, <1>10, MeetStep

\* A statement that does nothing to scopes and returns to the block it is in.
Statement(node) ==
    /\ Meet(node, symbols) /\ UNCHANGED <<ctl, m_while>> /\ ctl # <<>>
    /\ node.kind \in {"use", "assign", "call", "break"}
    /\ node.kind = "break" => m_while = TRUE

LEMMA PlainStep ==
    ASSUME NEW T, NEW h, History(T, h), phase = "semantic", UNCHANGED irVars,
           NEW node, Statement(node)
    PROVE  IInv'
<1>8. /\ Meet(node, symbols) /\ UNCHANGED <<ctl, m_while>> /\ ctl # <<>>
      /\ node.kind \in {"use", "assign", "call", "break"}
      /\ node.kind = "break" => m_while = TRUE
  BY DEF Statement
<1>1. PICK n : n = Len(ast) + 1
  OBVIOUS
<1>2. symbols = T[n] /\ h[n] # <<>> /\ Kept(ctl, m_while, ast, T, h, h[n])
  BY <1>1, <1>8, InFirstPass
<1>3. PICK t : t = symbols
  OBVIOUS
<1>4. Turn(node, n, T[n], h[n], t, h[n])
  <2>1. node.kind \in Plain /\ node.kind # "return"
    BY <1>8 DEF Plain
  <2> QED
    BY <1>2, <1>3, <2>1 DEF Turn
<1>5. node.kind = "break" => LoopIn(ast, h[n], Len(h[n]))
  BY <1>2, <1>8 DEF Kept
<1>6. node.kind \notin {"eof", "return"} /\ node.kind \notin {"open", "decl"}
  BY <1>8
<1>7. /\ node.kind \in {"open", "decl"} =>
             \A q \in 1 .. n - 1 : Returns(ast, q) => h[q] # h[n]
      /\ node.kind \notin {"eof", "return"}
      /\ Meet(node, t) /\ UNCHANGED <<ctl, m_while>>
  BY <1>3, <1>6, <1>8
<1> QED
  BY <1>1, <1>4, <1>5, <1>7, SteadyStep

LEMMA ReturnStep ==
    ASSUME NEW T, NEW h, History(T, h), phase = "semantic", UNCHANGED irVars,
           NEW direct \in BOOLEAN, Return(direct)
    PROVE  IInv'
<1>1. PICK n : n = Len(ast) + 1
  OBVIOUS
<1>2. PICK node : node = [kind |-> "return", direct |-> direct]
  OBVIOUS
<1>3. PICK t : t = symbols
  OBVIOUS
<1>4. /\ Meet(node, t) /\ ctl' = [ctl EXCEPT ![Len(ctl)].dead = @ \/ node.direct]
      /\ m_while' = m_while /\ ctl # <<>>
  BY <1>2, <1>3 DEF Return, InFunction
<1>5. /\ symbols = T[n] /\ h[n] # <<>> /\ Kept(ctl, m_while, ast, T, h, h[n])
      /\ IsSeq(ast) /\ h[n] \in Seq(1 .. n - 1)
  BY <1>1, <1>4, InFirstPass
<1>6. node.kind = "return" /\ node.direct \in BOOLEAN
  BY <1>2
<1>7. Turn(node, n, T[n], h[n], t, h[n])
  BY <1>3, <1>5, <1>6 DEF Turn, Plain
<1>8. ASSUME NEW U, NEW k, Grown(n, ast, T, h, node, t, h[n], ast', U, k)
      PROVE  Kept(ctl', m_while', ast', U, k, h[n])
  <2>1. PICK e : e = h[n]
    OBVIOUS
  <2>2. /\ Kept(ctl, m_while, ast, T, h, e) /\ e \in Seq(1 .. n - 1) /\ e # <<>> /\ h[n] = e
        /\ Grown(n, ast, T, h, node, t, e, ast', U, k)
    BY <1>5, <1>8, <2>1
  <2>3. /\ ctl' = [ctl EXCEPT ![Len(ctl)].dead = @ \/ node.direct] /\ IsSeq(ast)
        /\ node.direct \in BOOLEAN
    BY <1>4, <1>5, <1>6
  <2>4. Kept(ctl', m_while, ast', U, k, e)
    BY <2>2, <2>3, KeptReturn
  <2> QED
    BY <1>4, <2>1, <2>4
<1>9. /\ node.kind \in {"open", "decl"} =>
             \A q \in 1 .. n - 1 : Returns(ast, q) => h[q] # h[n]
      /\ node.kind = "break" => LoopIn(ast, h[n], Len(h[n]))
      /\ node.kind # "eof"
      /\ Meet(node, t)
  BY <1>4, <1>6
<1> QED
  BY <1>1, <1>7, <1>8, <1>9, MeetStep

\* Where the second pass is depends on what the first one has closed.
LEMMA MatchesClosed ==
    ASSUME NEW s, NEW t, NEW u, NEW f, Matches(s, t, f), f.depth \in Nat,
           u.level = t.level, \A k \in Nat : Closed(u, k) = Closed(t, k)
    PROVE  Matches(s, u, f)
<1>1. \A l \in 0 .. f.depth - 1 : Closed(u, l) = Closed(t, l)
  OBVIOUS
<1> QED
  BY <1>1 DEF Matches

\* The first pass is over: the second one is where it began.
LEMMA TurnsBack ==
    ASSUME NEW a, NEW T, NEW h, Tree(a, T, h), NEW n, n = Len(a) + 1, T[n].level = 0
    PROVE  Together(T[n], T[1], T[n])
<1>1. n \in Nat /\ n \in 1 .. Len(a) + 1 /\ 1 \in 1 .. Len(a) + 1
  BY TreeTypes
<1>2. PICK f : f = T[n]
  OBVIOUS
<1>3. PICK s : s = T[1]
  OBVIOUS
<1>4. Good(f) /\ f.level = 0 /\ Good(s) /\ Later(s, f)
  BY <1>1, <1>2, <1>3 DEF Tree
<1>5. SymbolsOK(f) /\ BuildQueues(f) /\ f.depth \in Nat /\ SymbolsOK(s) /\ BuildQueues(s)
      /\ Before(s, f)
  BY <1>4, GoodTypes DEF Good, Later
<1>6. VisitQueues(f) /\ Matches(f, symbols_new, f)
  BY <1>4, <1>5, TurnMatches
<1>7. s.level = symbols_new.level /\ \A k \in Nat : Closed(s, k) = Closed(symbols_new, k)
  <2>1. s = AddLib(symbols_new)
    BY <1>3 DEF Tree
  <2>2. Added(symbols_new, s, Len(SetToSeq(Lib)))
    BY <2>1, FirstTable
  <2> QED
    BY <2>2 DEF Added
<1>8. Matches(f, s, f)
  BY <1>5, <1>6, <1>7, MatchesClosed
<1> QED
  BY <1>2, <1>3, <1>5, <1>6, <1>8 DEF Together

LEMMA EndStep ==
    ASSUME NEW T, NEW h, History(T, h), phase = "semantic", UNCHANGED irVars, EndOfFile
    PROVE  IInv'
<1>1. PICK n : n = Len(ast) + 1
  OBVIOUS
<1>2. PICK node : node = [kind |-> "eof"]
  OBVIOUS
<1>3. PICK t : t = symbols
  OBVIOUS
<1>4. PICK e : e = h[n]
  OBVIOUS
<1>5. /\ ctl = <<>> /\ ast # <<>> /\ ast' = Append(ast, node) /\ snap' = Append(snap, symbols)
      /\ phase' = "ir" /\ symbols' = symbols /\ ctl' = ctl /\ m_while' = m_while
      /\ pos' = pos /\ raws' = raws /\ m_returned' = m_returned
      /\ m_curr_end' = m_curr_end
  BY <1>2 DEF EndOfFile, InFunction, irVars
<1>6. /\ Tree(ast, T, h) /\ IsSeq(ast) /\ n \in Nat \ {0}
      /\ Len(ast) = n - 1 /\ symbols = T[n] /\ h[n] = <<>>
      /\ \A p \in 1 .. Len(ast) : ast[p].kind # "eof"
      /\ Kept(ctl, m_while, ast, T, h, h[n])
  BY <1>1, <1>5, InFirstPass
<1>7. PICK U : U = [p \in 1 .. n + 1 |-> IF p <= n THEN T[p] ELSE t]
  OBVIOUS
<1>8. PICK k : k = [p \in 1 .. n + 1 |-> IF p <= n THEN h[p] ELSE e]
  OBVIOUS
<1>9. Grown(n, ast, T, h, node, t, e, ast', U, k)
  BY <1>1, <1>5, <1>7, <1>8 DEF Grown
<1>10. Growth(n, ast, T, h, node, t, e, ast', U, k)
  BY <1>6, <1>9, GrownGrowth
<1>11. Tree(ast', U, k)
  <2>1. Turn(node, n, T[n], h[n], t, e)
    BY <1>2, <1>3, <1>4, <1>6 DEF Turn
  <2>2. /\ node.kind \in {"open", "decl"} =>
               \A q \in 1 .. n - 1 : Returns(ast, q) => h[q] # h[n]
        /\ node.kind = "break" => LoopIn(ast, h[n], Len(h[n]))
    BY <1>2
  <2> QED
    BY <1>6, <1>9, <2>1, <2>2, TreeGrows
<1>12. /\ IsSeq(snap') /\ Len(snap') = Len(ast')
       /\ \A p \in 1 .. Len(ast') : snap'[p] = U[p]
  <2>1. IsSeq(snap) /\ Len(snap) = Len(ast) /\ \A p \in 1 .. Len(ast) : snap[p] = T[p]
    BY DEF History
  <2>2. Pushed(snap', snap, T[n])
    BY <1>5, <1>6 DEF Pushed
  <2> QED
    BY <1>10, <2>1, <2>2, SnapGrows
<1>13. /\ Len(ast') = n /\ ast'[n] = node /\ U[n + 1] = symbols /\ 1 \in 1 .. n
       /\ k[1] = <<>> /\ U[n] = symbols
  <2>1. 1 \in 1 .. n /\ n \in 1 .. n
    BY <1>6
  <2> QED
    BY <1>3, <1>6, <1>10, <2>1 DEF Growth, Tree
<1>14. Together(symbols, U[1], symbols)
  <2>1. symbols.level = 0
    <3>1. n \in 1 .. Len(ast) + 1
      BY <1>6
    <3>2. Shape(ast, T, n, T[n], h[n])
      BY <1>6, <3>1 DEF Tree
    <3> QED
      BY <1>6, <3>2 DEF Shape
  <2>2. PICK m : m = Len(ast') + 1
    OBVIOUS
  <2>3. U[m] = symbols /\ U[m].level = 0
    BY <1>13, <2>1, <2>2
  <2>4. Together(U[m], U[1], U[m])
    BY <1>11, <2>2, <2>3, TurnsBack
  <2> QED
    BY <2>3, <2>4
<1>15. InSemantic(T, h)
  BY <1>5 DEF History, EndOfFile
<1>16. Saved(ctl, 0, ast', U, k[1])
  <2>1. Frames(ctl, ast', U, <<>>)
    <3>1. IsSeq(ctl) /\ Len(ctl) = 0
      BY <1>4, <1>5, <1>6 DEF Kept, Frames
    <3> QED
      BY <3>1 DEF Frames
  <2>2. IsTarget(ast', <<>>, 0, 0)
    BY DEF IsTarget, LoopIn
  <2> QED
    BY <1>13, <2>1, <2>2 DEF Saved
<1>17. InIr(U, k)'
  <2>1. /\ pos = 1 /\ m_returned = FALSE /\ m_curr_end = 0
        /\ raws \in SUBSET (0 .. symbols.count - 1) /\ m_while \in BOOLEAN
    BY <1>15 DEF InSemantic, Kept
  <2>2. pos' \in 1 .. Len(ast') /\ ast'[Len(ast')].kind = "eof"
    BY <1>2, <1>5, <1>13, <2>1
  <2>3. CoherentTable(symbols)
    <3>1. n \in 1 .. Len(ast) + 1
      BY <1>6
    <3> QED
      BY <1>6, <3>1, TreeTypes DEF Good
  <2>4. U[Len(ast') + 1] = symbols /\ k[pos'] = k[1] /\ U[pos'] = U[1]
    BY <1>5, <1>13, <2>1
  <2> QED
    BY <1>5, <1>14, <1>16, <2>1, <2>2, <2>3, <2>4 DEF InIr
<1>18. History(U, k)'
  BY <1>5, <1>11, <1>12, <1>17 DEF History
<1> QED
  BY <1>18 DEF IInv

\* A symbol has one of the numbers that have been given.
LEMMA TableIds ==
    ASSUME NEW s, Good(s), NEW item \in s.table
    PROVE  item.id \in 0 .. s.count - 1
<1>1. SymbolsOK(s) /\ CoherentTable(s) /\ Numbered(s) /\ s.count \in Nat
  BY GoodTypes DEF Good
<1>2. item.id \in Nat
  BY <1>1 DEF SymbolsOK, Item
<1>3. item.id < s.count
  <2>3. PICK l \in 0 .. s.depth - 1 : \E k \in s.levels[l].begin .. s.levels[l].end - 1 :
           item \in s.levels[l].scopes[k]
    BY <1>1 DEF CoherentTable, Held
  <2>1. PICK k \in s.levels[l].begin .. s.levels[l].end - 1 : item \in s.levels[l].scopes[k]
    BY <2>3
  <2>2. k \in 0 .. s.levels[l].end - 1
    BY GoodTypes
  <2> QED
    BY <1>1, <2>1, <2>2 DEF Numbered
<1> QED
  BY <1>1, <1>2, <1>3

LEMMA InitIInv == Init => IInv
<1> SUFFICES ASSUME Init PROVE IInv
  OBVIOUS
<1>1. PICK T : T = [p \in {1} |-> symbols]
  OBVIOUS
<1>2. PICK h : h = [p \in {1} |-> <<>>]
  OBVIOUS
<1>3. /\ phase = "semantic" /\ symbols = AddLib(symbols_new) /\ ast = <<>> /\ snap = <<>>
      /\ ctl = <<>> /\ m_while = FALSE /\ pos = 1 /\ m_returned = FALSE /\ m_curr_end = 0
      /\ raws = Ids({item \in symbols.table : item.key \in Lib})
  BY DEF Init, SemanticInit
<1>4. Good(symbols) /\ symbols.level = 0
  BY <1>3, FirstTable
<1>5. IsSeq(<<>>) /\ Len(<<>>) = 0
  BY DEF IsSeq
<1>6. T[1] = symbols /\ h[1] = <<>>
  BY <1>1, <1>2
<1>7. Shape(ast, T, 1, symbols, <<>>)
  <2>1. \A l \in 2 .. symbols.level : FALSE
    BY <1>4
  <2> QED
    BY <1>4, <1>5, <2>1 DEF Shape
<1>8. Tree(ast, T, h)
  <2>1. IsSeq(ast) /\ Len(ast) = 0
    BY <1>3, <1>5
  <2>2. Later(symbols, symbols)
    BY <1>4, LaterItself
  <2>3. \A p \in 1 .. Len(ast) + 1 :
           Good(T[p]) /\ Later(T[p], T[Len(ast) + 1]) /\ Shape(ast, T, p, T[p], h[p])
    BY <1>4, <1>6, <1>7, <2>1, <2>2
  <2>4. T[1] = AddLib(symbols_new) /\ h[1] = <<>>
    BY <1>3, <1>6
  <2> QED
    BY <2>1, <2>3, <2>4 DEF Tree
<1>9. raws \in SUBSET (0 .. symbols.count - 1)
  BY <1>3, <1>4, TableIds DEF Ids
<1>10. Kept(ctl, m_while, ast, T, h, h[1])
  <2>1. Len(h[1]) = 0 /\ \A i \in 1 .. Len(h[1]) : FALSE
    BY <1>5, <1>6
  <2>2. Frames(ctl, ast, T, h[1])
    BY <1>3, <1>5, <2>1 DEF Frames
  <2>3. ~LoopIn(ast, h[1], Len(h[1]))
    BY <2>1 DEF LoopIn
  <2> QED
    BY <1>3, <2>1, <2>2, <2>3 DEF Kept
<1>11. InSemantic(T, h)
  BY <1>3, <1>5, <1>6, <1>9, <1>10 DEF InSemantic
<1>12. IsSeq(snap) /\ Len(snap) = Len(ast) /\ \A p \in 1 .. Len(ast) : snap[p] = T[p]
  BY <1>3, <1>5
<1>13. History(T, h)
  BY <1>3, <1>8, <1>11, <1>12 DEF History
<1> QED
  BY <1>13 DEF IInv

LEMMA StatementStep ==
    ASSUME NEW T, NEW h, History(T, h), phase = "semantic", UNCHANGED irVars, NEW node,
           (\E condition : Error(condition)) \/ Statement(node)
    PROVE  IInv'
<1>1. CASE \E condition : Error(condition)
  BY <1>1, ErrorStep
<1>2. CASE Statement(node)
  BY <1>2, PlainStep
<1> QED
  BY <1>1, <1>2

\* The first pass keeps the invariant.
LEMMA SemanticKeepsIInv ==
    ASSUME "dead_scope" \notin Admit, IInv, SemanticNext, UNCHANGED irVars
    PROVE  IInv'
<1>1. PICK T, h : History(T, h)
  BY DEF IInv
<1>2. phase = "semantic"
  BY DEF SemanticNext
<1>3. ASSUME NEW name \in Name, NEW params \in Params, FuncDef(name, params)
      PROVE  IInv'
  BY <1>1, <1>2, <1>3, FuncStep
<1>4. ASSUME NEW tag \in Tags, NEW defs \in Defs, Decl(tag, defs)
      PROVE  IInv'
  BY <1>1, <1>2, <1>4, DeclStep
<1>5. ASSUME NEW loop \in BOOLEAN, Open(loop)
      PROVE  IInv'
  BY <1>1, <1>2, <1>5, OpenStep
<1>6. ASSUME Close
      PROVE  IInv'
  BY <1>1, <1>2, <1>6, CloseStep
<1>7. ASSUME NEW value \in Name \cup Shifts, Use(value)
      PROVE  IInv'
  <2>1. PICK node : node = [kind |-> "use", value |-> value]
    OBVIOUS
  <2>2. \/ \E condition : Error(condition)
        \/ Statement(node)
    BY <1>7, <2>1 DEF Use, InFunction, Statement
  <2> QED
    BY <1>1, <1>2, <2>2, StatementStep
<1>8. ASSUME NEW name \in Name, NEW value \in Inits, Assign(name, value)
      PROVE  IInv'
  <2>1. PICK node : node = [kind |-> "assign", name |-> name, value |-> value]
    OBVIOUS
  <2>2. \/ \E condition : Error(condition)
        \/ Statement(node)
    BY <1>8, <2>1 DEF Assign, InFunction, Statement
  <2> QED
    BY <1>1, <1>2, <2>2, StatementStep
<1>9. ASSUME NEW name \in Name, Call(name)
      PROVE  IInv'
  <2>1. PICK node : node = [kind |-> "call", name |-> name]
    OBVIOUS
  <2>2. \/ \E condition : Error(condition)
        \/ Statement(node)
    BY <1>9, <2>1 DEF Call, InFunction, Statement
  <2> QED
    BY <1>1, <1>2, <2>2, StatementStep
<1>10. ASSUME NEW direct \in BOOLEAN, Return(direct)
       PROVE  IInv'
  BY <1>1, <1>2, <1>10, ReturnStep
<1>11. ASSUME Break
       PROVE  IInv'
  <2>1. PICK node : node = [kind |-> "break"]
    OBVIOUS
  <2>2. \/ \E condition : Error(condition)
        \/ Meet(node, symbols) /\ m_while /\ UNCHANGED <<ctl, m_while>>
    BY <1>11, <2>1 DEF Break
  <2>3. ctl # <<>> /\ node.kind = "break"
    BY <1>11, <2>1 DEF Break, InFunction
  <2>4. m_while \in BOOLEAN
    BY <1>1, <1>2 DEF History, InSemantic, Kept
  <2>5. (\E condition : Error(condition)) \/ Statement(node)
    BY <2>1, <2>2, <2>3, <2>4 DEF Statement
  <2> QED
    BY <1>1, <1>2, <2>5, StatementStep
<1>12. ASSUME EndOfFile
       PROVE  IInv'
  BY <1>1, <1>2, <1>12, EndStep
<1> QED
  BY <1>3, <1>4, <1>5, <1>6, <1>7, <1>8, <1>9, <1>10, <1>11, <1>12 DEF SemanticNext

-----------------------------------------------------------------------------
(* Looking up, in either pass. *)

\* A set of naturals that is not empty has a least element.
LEMMA Least ==
    ASSUME NEW S, S \subseteq Nat, S # {}
    PROVE  \E m \in S : \A k \in S : m <= k
<1> DEFINE R == {ss \in Nat \X Nat : ss[1] < ss[2]}
<1>1. IsWellFoundedOn(R, Nat)
  BY NatLessThanWellFounded, Zenon DEF OpToRel
<1>2. PICK m \in S : \A u \in S : ~(<<u, m>> \in R)
  <2> HIDE DEF R
  <2> QED  BY <1>1, WFMin
<1>3. ASSUME NEW k \in S
      PROVE  m <= k
  <2>1. m \in Nat /\ k \in Nat
    OBVIOUS
  <2>2. ~(<<k, m>> \in R)
    BY <1>2
  <2>3. ~(k < m)
    BY <2>1, <2>2
  <2> QED
    BY <2>1, <2>3
<1> QED
  BY <1>3

\* No assertion fails: none of a list does.
LEMMA FirstNone ==
    ASSUME NEW faults, Len(faults) \in Nat, First(faults) = "none"
    PROVE  \A i \in 1 .. Len(faults) : faults[i] = "none"
<1> DEFINE I == {i \in 1 .. Len(faults) : faults[i] # "none"}
<1> SUFFICES ASSUME I # {} PROVE FALSE
  OBVIOUS
<1>1. First(faults) = faults[Min(I)]
  <2>1. PICK m : m = Min(I)
    OBVIOUS
  <2>2. m \in I
    <3>1. I \subseteq Nat
      OBVIOUS
    <3> HIDE DEF I
    <3>2. \E x \in I : \A y \in I : x <= y
      BY <3>1, Least
    <3> QED
      BY <2>1, <3>2 DEF Min
  <2>3. SelectInSeq(faults, LAMBDA f : f # "none") = m
    BY <2>1 DEF SelectInSeq
  <2>4. m # 0
    BY <2>2
  <2> QED
    BY <2>1, <2>3, <2>4 DEF First
<1>2. Min(I) \in I
  <2>1. I \subseteq Nat
    OBVIOUS
  <2> HIDE DEF I
  <2>2. \E x \in I : \A y \in I : x <= y
    BY <2>1, Least
  <2> QED
    BY <2>2 DEF Min
<1> QED
  BY <1>1, <1>2

\* Every symbol of a table has one of its numbers.
Counted(s) == s.count \in Nat /\ \A item \in s.table : item.id \in 0 .. s.count - 1

\* symbols_get finds a symbol of the table, or none.
LEMMA GetFinds ==
    ASSUME NEW s, Counted(s), NEW key, NEW item, item = symbols_get(s, key), item # NoSym
    PROVE  /\ item \in s.table /\ item.key = key /\ symbols_saw(s, item)
           /\ item.id \in 0 .. s.count - 1
           /\ \A other \in Seen(s, key) : other.id <= item.id
<1>1. Seen(s, key) # {} /\ item = Newest(Seen(s, key))
  BY DEF symbols_get
<1>2. \A x \in Seen(s, key) : x \in s.table /\ x.key = key /\ symbols_saw(s, x)
                              /\ x.id \in 0 .. s.count - 1
  BY DEF Seen, symbols_lookup, Counted
<1> DEFINE S == Seen(s, key)
           D == {x.id : x \in S}
<1>3. s.count - 1 \in Nat /\ D \in SUBSET (0 .. s.count - 1) /\ D # {}
  <2>1. s.count \in Nat /\ s.count # 0
    BY <1>1, <1>2 DEF Counted
  <2> QED
    BY <1>1, <1>2, <2>1
<1> HIDE DEF D
<1>4. PICK d \in D : \A k \in D : k <= d
  BY <1>3, Greatest
<1>5. PICK x \in S : x.id = d
  BY <1>4 DEF D
<1>6. \A other \in S : other.id <= x.id
  BY <1>4, <1>5 DEF D
<1> HIDE DEF S
<1>7. Newest(S) \in S /\ \A other \in S : other.id <= Newest(S).id
  BY <1>6 DEF Newest
<1> QED
  BY <1>1, <1>2, <1>7 DEF S

-----------------------------------------------------------------------------
(* The second pass. *)

\* The table u of the second pass is where the first one was with t.
Reached(u, t, f) ==
    /\ SymbolsOK(u) /\ VisitQueues(u) /\ Matches(u, t, f)
    /\ CoherentTable(u) /\ u.count = f.count

LEMMA ReachedTogether ==
    ASSUME NEW u, NEW t, NEW f, Reached(u, t, f), Good(t), Good(f), Later(t, f)
    PROVE  Together(u, t, f) /\ u.level = t.level /\ u.count = f.count
BY DEF Reached, Good, Later, Together, Matches

\* All its symbols are the first pass's.
LEMMA ReachedCounted ==
    ASSUME NEW u, NEW t, NEW f, Reached(u, t, f), Good(f)
    PROVE  Counted(u)
<1>1. f.count \in Nat /\ Numbered(f) /\ u.count = f.count /\ SymbolsOK(u)
  BY GoodTypes DEF Good, Reached
<1>2. u.depth = f.depth /\ \A l \in 0 .. f.depth - 1 :
         u.levels[l].end = f.levels[l].end /\ u.levels[l].scopes = f.levels[l].scopes
  BY DEF Reached, Matches
<1>3. ASSUME NEW item \in u.table
      PROVE  item.id \in 0 .. u.count - 1
  <2>1. item.id \in Nat
    BY <1>1 DEF SymbolsOK, Item
  <2>2. Held(u, item)
    BY DEF Reached, CoherentTable
  <2>3. PICK l \in 0 .. u.depth - 1 :
           \E k \in u.levels[l].begin .. u.levels[l].end - 1 : item \in u.levels[l].scopes[k]
    BY <2>2 DEF Held
  <2>4. PICK k \in u.levels[l].begin .. u.levels[l].end - 1 : item \in u.levels[l].scopes[k]
    BY <2>3
  <2>5. k \in 0 .. u.levels[l].end - 1
    BY <1>1, QueueTypes
  <2>6. l \in 0 .. f.depth - 1 /\ k \in 0 .. f.levels[l].end - 1
        /\ item \in f.levels[l].scopes[k]
    BY <1>2, <2>4, <2>5
  <2>7. item.id < f.count
    BY <1>1, <2>6 DEF Numbered
  <2> QED
    BY <1>1, <2>1, <2>7
<1> QED
  BY <1>1, <1>3 DEF Counted

\* What History says while the second pass runs, at node p.
AtNode(T, h, p, f) ==
    /\ Tree(ast, T, h) /\ IsSeq(ast) /\ Len(ast) \in Nat /\ p \in Nat \ {0}
    /\ p \in 1 .. Len(ast) /\ ast[Len(ast)].kind = "eof"
    /\ Reached(symbols, T[p], f)
    /\ Good(T[p]) /\ Good(T[p + 1]) /\ Good(f) /\ Later(T[p], f) /\ Later(T[p + 1], f)
    /\ Turn(ast[p], p, T[p], h[p], T[p + 1], h[p + 1])
    /\ Shape(ast, T, p, T[p], h[p])
    /\ raws \in SUBSET (0 .. symbols.count - 1)
    /\ m_while \in BOOLEAN /\ m_returned \in BOOLEAN
    /\ m_returned => \E q \in 1 .. p - 1 : Returns(ast, q) /\ h[q] = h[p]
    /\ Saved(ctl, m_curr_end, ast, T, h[p])

LEMMA InSecondPass ==
    ASSUME NEW T, NEW h, History(T, h), phase = "ir", NEW p, p = pos,
           NEW f, f = T[Len(ast) + 1]
    PROVE  AtNode(T, h, p, f)
<1>1. Tree(ast, T, h) /\ InIr(T, h)
  BY DEF History
<1>2. IsSeq(ast) /\ Len(ast) \in Nat
  BY <1>1, TreeTypes
<1>3. /\ p \in 1 .. Len(ast) /\ ast[Len(ast)].kind = "eof"
      /\ Together(symbols, T[p], f) /\ CoherentTable(symbols)
      /\ symbols.count = f.count
      /\ raws \in SUBSET (0 .. symbols.count - 1)
      /\ m_while \in BOOLEAN /\ m_returned \in BOOLEAN
      /\ m_returned => \E q \in 1 .. p - 1 : Returns(ast, q) /\ h[q] = h[p]
      /\ Saved(ctl, m_curr_end, ast, T, h[p])
  BY <1>1 DEF InIr
<1>4. p \in Nat \ {0} /\ p \in 1 .. Len(ast) + 1 /\ p + 1 \in 1 .. Len(ast) + 1
      /\ Len(ast) + 1 \in 1 .. Len(ast) + 1
  BY <1>2, <1>3
<1>5. /\ Good(T[p]) /\ Good(T[p + 1]) /\ Good(f) /\ Later(T[p], f) /\ Later(T[p + 1], f)
      /\ Shape(ast, T, p, T[p], h[p])
  BY <1>1, <1>4 DEF Tree
<1>6. Turn(ast[p], p, T[p], h[p], T[p + 1], h[p + 1])
  BY <1>1, <1>3 DEF Tree
<1>7. Reached(symbols, T[p], f)
  BY <1>3 DEF Together, Reached
<1> QED
  BY <1>1, <1>2, <1>3, <1>4, <1>5, <1>6, <1>7 DEF AtNode

\* A handler of the second pass returns.
LEMMA VisitStep ==
    ASSUME NEW T, NEW h, History(T, h), phase = "ir", NEW p, p = pos,
           NEW f, f = T[Len(ast) + 1], pos' = p + 1,
           UNCHANGED <<phase, ast, snap, m_while>>, ast[p].kind # "eof",
           Reached(symbols', T[p + 1], f),
           raws' \in SUBSET (0 .. symbols.count - 1),
           m_returned' \in BOOLEAN,
           m_returned' => \E q \in 1 .. p : Returns(ast, q) /\ h[q] = h[p + 1],
           Saved(ctl', m_curr_end', ast, T, h[p + 1])
    PROVE  IInv'
<1>1. AtNode(T, h, p, f)
  BY InSecondPass
<1>2. phase' = "ir" /\ ast' = ast /\ snap' = snap /\ m_while' = m_while
  OBVIOUS
<1>3. /\ Len(ast) \in Nat /\ p + 1 \in 1 .. Len(ast) /\ (p + 1) - 1 = p
      /\ ast[Len(ast)].kind = "eof" /\ m_while \in BOOLEAN
  BY <1>1 DEF AtNode
<1>4. Together(symbols', T[p + 1], f) /\ CoherentTable(symbols') /\ symbols'.count = f.count
      /\ symbols.count = f.count
  <2>1. Good(T[p + 1]) /\ Good(f) /\ Later(T[p + 1], f) /\ symbols.count = f.count
    BY <1>1 DEF AtNode, Reached
  <2>2. PICK t : t = T[p + 1]
    OBVIOUS
  <2>3. Together(symbols', t, f) /\ symbols'.count = f.count
    BY <2>1, <2>2, ReachedTogether
  <2> QED
    BY <2>1, <2>2, <2>3 DEF Reached
<1>5. InIr(T, h)'
  BY <1>2, <1>3, <1>4 DEF InIr
<1>6. History(T, h)'
  BY <1>2, <1>5 DEF History
<1> QED
  BY <1>6 DEF IInv

\* An assertion fails.
LEMMA AbortStep ==
    ASSUME NEW T, NEW h, History(T, h), phase = "ir", NEW why, Abort(why)
    PROVE  IInv'
<1>1. /\ phase' = "aborted" /\ symbols' = symbols /\ ast' = ast /\ snap' = snap
      /\ ctl' = ctl /\ m_while' = m_while /\ pos' = pos /\ raws' = raws
      /\ m_returned' = m_returned /\ m_curr_end' = m_curr_end
  BY DEF Abort
<1>2. InIr(T, h)'
  BY <1>1 DEF History, InIr
<1>3. History(T, h)'
  BY <1>1, <1>2 DEF History
<1> QED
  BY <1>3 DEF IInv

\* A scope is entered again.
LEMMA EnterReaches ==
    ASSUME NEW u, NEW t, NEW f, Reached(u, t, f), Good(t), Good(f),
           NEW v, v = symbols_indent(t), Later(v, f), NEW w, w = symbols_enter(u)
    PROVE  Reached(w, v, f) /\ CanEnter(u) /\ w.table = u.table /\ w.count = u.count
<1>1. Good(v) /\ Later(t, v)
  BY GoodIndent
<1>2. Later(t, f)
  BY <1>1, LaterTransitive
<1>3. Together(u, t, f)
  BY <1>2, ReachedTogether
<1>4. Before(symbols_indent(t), f)
  BY DEF Later
<1>5. CanEnter(u) /\ SymbolsOK(w) /\ VisitQueues(w) /\ Matches(w, v, f)
  BY <1>3, <1>4, EnterFollows
<1>6. SymbolsOK(u) /\ CoherentTable(u) /\ u.count = f.count
  BY DEF Reached
<1>7. CoherentTable(w)
  BY <1>5, <1>6, CoherentEnter
<1>8. w.table = u.table /\ w.count = u.count
  BY DEF symbols_enter
<1> QED
  BY <1>5, <1>6, <1>7, <1>8 DEF Reached

\* A block is left again, and destroyed.
LEMMA DedentReaches ==
    ASSUME NEW u, NEW t, NEW f, Reached(u, t, f), Good(t), Good(f), t.level > 0,
           NEW v, v = symbols_leave(t), Later(v, f), NEW w, w = symbols_dedent(u)
    PROVE  Reached(w, v, f) /\ DedentAsserts(u)
<1>1. Good(v) /\ Later(t, v)
  BY GoodLeave
<1>2. Later(t, f)
  BY <1>1, LaterTransitive
<1>3. Together(u, t, f) /\ u.level = t.level
  BY <1>2, ReachedTogether
<1>4. Before(symbols_leave(t), f)
  BY DEF Later
<1>5. DedentAsserts(u) /\ SymbolsOK(w) /\ VisitQueues(w) /\ Matches(w, v, f)
  BY <1>3, <1>4, DedentFollows
<1>6. SymbolsOK(u) /\ VisitQueues(u) /\ CoherentTable(u) /\ u.count = f.count
  BY DEF Reached
<1>7. CoherentTable(w)
  <2>1. u.level >= 0
    BY <1>3, GoodTypes
  <2> QED
    BY <1>6, <2>1, CoherentDedent
<1>8. w.count = u.count
  BY DEF symbols_dedent
<1> QED
  BY <1>5, <1>6, <1>7, <1>8 DEF Reached

\* Where definitions were added, nothing is entered or left.
LEMMA AddReaches ==
    ASSUME NEW u, NEW t, NEW f, Reached(u, t, f), Good(f), NEW n, NEW v, Added(t, v, n)
    PROVE  Reached(u, v, f)
<1>1. v.level = t.level /\ \A k \in Nat : Closed(v, k) = Closed(t, k)
  BY DEF Added
<1>2. f.depth \in Nat
  BY GoodTypes
<1>3. Matches(u, v, f)
  <2>1. Matches(u, t, f)
    BY DEF Reached
  <2> QED
    BY <1>1, <1>2, <2>1, MatchesClosed
<1> QED
  BY <1>3 DEF Reached

\* The loop a break jumps out of inside a brace at p; the frame has the one around it.
Jump(v, end, node, p, f) ==
    /\ f.target = end
    /\ v = IF node.kind = "open" /\ node.loop THEN p ELSE end

LEMMA SavedPush ==
    ASSUME NEW c, NEW end, NEW a, NEW T, NEW e, Saved(c, end, a, T, e), IsSeq(e), NEW p,
           NEW f, FrameOf(f, a, T, p), NEW d, Pushed(d, c, f), NEW g, Pushed(g, e, p),
           NEW v, Jump(v, end, a[p], p, f)
    PROVE  Saved(d, v, a, T, g)
<1>1. /\ Frames(c, a, T, e) /\ IsTarget(a, e, Len(e), end)
      /\ \A i \in 1 .. Len(e) : IsTarget(a, e, i - 1, c[i].target)
  BY DEF Saved
<1>2. /\ Frames(d, a, T, g)
      /\ Len(g) = Len(e) + 1 /\ Len(e) \in Nat /\ g[Len(e) + 1] = p
      /\ d[Len(e) + 1] = f
      /\ \A i \in 1 .. Len(e) : g[i] = e[i] /\ d[i] = c[i]
  BY <1>1, FramesPush
<1>3. ASSUME NEW n \in 0 .. Len(e), NEW x
      PROVE  IsTarget(a, g, n, x) <=> IsTarget(a, e, n, x)
  <2>1. n \in Nat /\ \A i \in 1 .. n : g[i] = e[i]
    BY <1>2
  <2> QED
    BY <2>1, StartSame
<1>4. IsTarget(a, g, Len(e), end)
  BY <1>1, <1>2, <1>3
<1>5. IsTarget(a, g, Len(g), v)
  <2>1. CASE a[p].kind = "open" /\ a[p].loop
    <3>1. v = g[Len(g)] /\ Len(g) \in 1 .. Len(g)
      BY <1>2, <2>1 DEF Jump
    <3>2. \A j \in Len(g) + 1 .. Len(g) : FALSE
      BY <1>2
    <3>3. a[g[Len(g)]].kind = "open" /\ a[g[Len(g)]].loop
      BY <1>2, <2>1
    <3> QED
      BY <3>1, <3>2, <3>3 DEF IsTarget
  <2>2. CASE ~(a[p].kind = "open" /\ a[p].loop)
    <3>1. v = end
      BY <2>2 DEF Jump
    <3>2. \A j \in 1 .. Len(g) : j \in 1 .. Len(e) \/ g[j] = p
      BY <1>2
    <3>3. \A j \in 1 .. Len(e) : j \in 1 .. Len(g)
      BY <1>2
    <3>4. CASE end = 0 /\ ~LoopIn(a, g, Len(e))
      <4>1. ~LoopIn(a, g, Len(g))
        BY <2>2, <3>2, <3>4 DEF LoopIn
      <4> QED
        BY <3>1, <3>4, <4>1 DEF IsTarget
    <3>5. CASE \E i \in 1 .. Len(e) :
                  /\ end = g[i] /\ a[g[i]].kind = "open" /\ a[g[i]].loop
                  /\ \A j \in i + 1 .. Len(e) : ~(a[g[j]].kind = "open" /\ a[g[j]].loop)
      <4>1. PICK i \in 1 .. Len(e) :
                  /\ end = g[i] /\ a[g[i]].kind = "open" /\ a[g[i]].loop
                  /\ \A j \in i + 1 .. Len(e) : ~(a[g[j]].kind = "open" /\ a[g[j]].loop)
        BY <3>5
      <4>2. \A j \in i + 1 .. Len(g) : j \in i + 1 .. Len(e) \/ g[j] = p
        BY <1>2
      <4>3. \A j \in i + 1 .. Len(g) : ~(a[g[j]].kind = "open" /\ a[g[j]].loop)
        BY <2>2, <4>1, <4>2
      <4> QED
        BY <3>1, <3>3, <4>1, <4>3 DEF IsTarget
    <3> QED
      BY <1>4, <3>4, <3>5 DEF IsTarget
  <2> QED
    BY <2>1, <2>2
<1>6. ASSUME NEW i \in 1 .. Len(g)
      PROVE  IsTarget(a, g, i - 1, d[i].target)
  <2>1. CASE i = Len(e) + 1
    <3>1. d[i].target = end /\ i - 1 = Len(e)
      BY <1>2, <2>1 DEF Jump
    <3> QED
      BY <1>4, <3>1
  <2>2. CASE i # Len(e) + 1
    <3>1. i \in 1 .. Len(e) /\ i - 1 \in 0 .. Len(e)
      BY <1>2, <2>2
    <3>2. d[i] = c[i] /\ IsTarget(a, e, i - 1, c[i].target)
      BY <1>1, <1>2, <3>1
    <3> QED
      BY <1>3, <3>1, <3>2
  <2> QED
    BY <2>1, <2>2
<1> QED
  BY <1>2, <1>5, <1>6 DEF Saved

LEMMA SavedPop ==
    ASSUME NEW c, NEW end, NEW a, NEW T, NEW e, Saved(c, end, a, T, e), IsSeq(e), e # <<>>,
           NEW d, d = Front(c), NEW g, g = Front(e)
    PROVE  Saved(d, c[Len(c)].target, a, T, g)
<1>1. /\ Frames(c, a, T, e)
      /\ \A i \in 1 .. Len(e) : IsTarget(a, e, i - 1, c[i].target)
  BY DEF Saved
<1>2. /\ Frames(d, a, T, g)
      /\ Len(g) = Len(e) - 1 /\ Len(e) \in Nat \ {0} /\ Len(c) = Len(e)
      /\ \A i \in 1 .. Len(g) : g[i] = e[i] /\ d[i] = c[i]
  BY <1>1, FramesPop
<1>3. ASSUME NEW n \in 0 .. Len(g), NEW x
      PROVE  IsTarget(a, g, n, x) <=> IsTarget(a, e, n, x)
  <2>1. n \in Nat /\ \A i \in 1 .. n : g[i] = e[i]
    BY <1>2
  <2> QED
    BY <2>1, StartSame
<1>4. IsTarget(a, g, Len(g), c[Len(c)].target)
  <2>1. Len(c) \in 1 .. Len(e) /\ Len(c) - 1 = Len(g) /\ Len(g) \in 0 .. Len(g)
    BY <1>2
  <2>2. IsTarget(a, e, Len(g), c[Len(c)].target)
    BY <1>1, <2>1
  <2> QED
    BY <1>3, <2>1, <2>2
<1>5. ASSUME NEW i \in 1 .. Len(g)
      PROVE  IsTarget(a, g, i - 1, d[i].target)
  <2>1. i \in 1 .. Len(e) /\ i - 1 \in 0 .. Len(g)
    BY <1>2
  <2>2. d[i] = c[i] /\ IsTarget(a, e, i - 1, c[i].target)
    BY <1>1, <1>2, <2>1
  <2> QED
    BY <1>3, <2>1, <2>2
<1> QED
  BY <1>2, <1>4, <1>5 DEF Saved

LEMMA IrFuncStep ==
    ASSUME NEW T, NEW h, History(T, h), IrFuncDef
    PROVE  IInv'
<1>1. phase = "ir" /\ ast[pos].kind = "func" /\ ~m_returned
  BY DEF IrFuncDef, At
<1>2. PICK p : p = pos
  OBVIOUS
<1>3. PICK f : f = T[Len(ast) + 1]
  OBVIOUS
<1>4. PICK node : node = ast[p]
  OBVIOUS
<1>5. AtNode(T, h, p, f)
  BY <1>1, <1>2, <1>3, InSecondPass
<1>6. PICK s : s = T[p]
  OBVIOUS
<1>7. PICK t : t = T[p + 1]
  OBVIOUS
<1>8. PICK b : b = symbols_add(s, node.name, "FUNCTION")
  OBVIOUS
<1>9. PICK c : c = symbols_indent(b)
  OBVIOUS
<1>10. PICK d : d = AddAll(c, node.params, "VARIABLE")
  OBVIOUS
<1>11. /\ node.kind = "func" /\ h[p] = <<>> /\ node.name \in Name /\ node.params \in Params
       /\ Header(s, node.name, node.params, b, c, d, t) /\ h[p + 1] = <<p>>
  <2>1. Turn(node, p, s, h[p], t, h[p + 1]) /\ node.kind = "func"
    BY <1>1, <1>2, <1>4, <1>5, <1>6, <1>7 DEF AtNode
  <2>2. /\ h[p] = <<>> /\ node.name \in Name /\ node.params \in Params /\ h[p + 1] = <<p>>
        /\ t = symbols_indent(AddAll(symbols_indent(symbols_add(s, node.name, "FUNCTION")),
                                     node.params, "VARIABLE"))
    BY <2>1 DEF Turn, Plain
  <2> QED
    BY <1>8, <1>9, <1>10, <2>1, <2>2 DEF Header
<1>12. Good(s) /\ s.level = 0 /\ Reached(symbols, s, f) /\ Good(f) /\ Later(t, f) /\ Good(t)
  BY <1>5, <1>6, <1>7, <1>11 DEF AtNode, Shape
<1>13. /\ Added(s, b, 1) /\ Added(c, d, Len(node.params))
       /\ Good(b) /\ Good(c) /\ Good(d) /\ Later(c, t) /\ Later(d, t)
  BY <1>11, <1>12, FuncTables
<1>14. Later(c, f)
  BY <1>12, <1>13, LaterTransitive
<1>15. PICK u : u = symbols_enter(symbols)
  OBVIOUS
<1>16. PICK w : w = symbols_enter(u)
  OBVIOUS
<1>17. Reached(u, c, f) /\ u.table = symbols.table /\ u.count = symbols.count
  <2>1. Reached(symbols, b, f)
    BY <1>12, <1>13, AddReaches
  <2> QED
    BY <1>9, <1>12, <1>13, <1>14, <1>15, <2>1, EnterReaches
<1>18. Reached(w, t, f)
  <2>1. Reached(u, d, f)
    BY <1>12, <1>13, <1>17, AddReaches
  <2>2. t = symbols_indent(d)
    BY <1>11 DEF Header
  <2> QED
    BY <1>12, <1>13, <1>16, <2>1, <2>2, EnterReaches
<1>19. \/ \E why : Abort(why)
       \/ \E item, found, why :
             /\ item = symbols_get(symbols, node.name) /\ item # NoSym
             /\ found = {symbols_get(u, q) : q \in Range(node.params)} /\ NoSym \notin found
             /\ Return2(why, w, raws \cup Ids({item} \cup found))
             /\ ctl' = Append(ctl, Frame("func", pos, m_curr_end))
             /\ m_returned' = m_returned /\ m_curr_end' = m_curr_end
  <2>1. PICK item : item = symbols_get(symbols, node.name)
    OBVIOUS
  <2>2. PICK found : found = {symbols_get(u, q) : q \in Range(node.params)}
    OBVIOUS
  <2>3. PICK outer : outer = <<IF item = NoSym THEN "FuncDef:symbol" ELSE "none",
                               EnterFault(symbols)>>
    OBVIOUS
  <2>4. PICK inner : inner = <<IF NoSym \in found THEN "FuncFParam:symbol" ELSE "none",
                               EnterFault(u)>>
    OBVIOUS
  <2>5. Node = node
    BY <1>2, <1>4 DEF Node
  <2>6. \/ \E why : Abort(why)
        \/ /\ First(outer) = "none"
           /\ Return2(First(inner), w, raws \cup Ids({item} \cup found))
           /\ ctl' = Append(ctl, Frame("func", pos, m_curr_end))
           /\ UNCHANGED <<m_returned, m_curr_end>>
    BY <1>15, <1>16, <2>1, <2>2, <2>3, <2>4, <2>5 DEF IrFuncDef
  <2>7. ASSUME First(outer) = "none"
        PROVE  item # NoSym
    <3>1. Len(outer) = 2 /\ outer[1] = IF item = NoSym THEN "FuncDef:symbol" ELSE "none"
      BY <2>3
    <3>2. Len(outer) \in Nat /\ 1 \in 1 .. Len(outer)
      BY <3>1
    <3>3. outer[1] = "none"
      BY <2>7, <3>2, FirstNone
    <3> QED
      BY <3>1, <3>3
  <2>8. ASSUME First(inner) = "none"
        PROVE  NoSym \notin found
    <3>1. Len(inner) = 2 /\ inner[1] = IF NoSym \in found THEN "FuncFParam:symbol" ELSE "none"
      BY <2>4
    <3>2. Len(inner) \in Nat /\ 1 \in 1 .. Len(inner)
      BY <3>1
    <3>3. inner[1] = "none"
      BY <2>8, <3>2, FirstNone
    <3> QED
      BY <3>1, <3>3
  <2>9. ASSUME NEW why, NEW a, NEW r, Return2(why, a, r)
        PROVE  why = "none"
    BY <2>9 DEF Return2
  <2> QED
    BY <2>1, <2>2, <2>6, <2>7, <2>8, <2>9
<1>20. CASE \E why : Abort(why)
  BY <1>1, <1>20, AbortStep
<1>21. CASE \E item, found, why :
             /\ item = symbols_get(symbols, node.name) /\ item # NoSym
             /\ found = {symbols_get(u, q) : q \in Range(node.params)} /\ NoSym \notin found
             /\ Return2(why, w, raws \cup Ids({item} \cup found))
             /\ ctl' = Append(ctl, Frame("func", pos, m_curr_end))
             /\ m_returned' = m_returned /\ m_curr_end' = m_curr_end
  <2>1. PICK item, found, why :
             /\ item = symbols_get(symbols, node.name) /\ item # NoSym
             /\ found = {symbols_get(u, q) : q \in Range(node.params)} /\ NoSym \notin found
             /\ Return2(why, w, raws \cup Ids({item} \cup found))
             /\ ctl' = Append(ctl, Frame("func", pos, m_curr_end))
             /\ m_returned' = m_returned /\ m_curr_end' = m_curr_end
    BY <1>21
  <2>2. Counted(symbols) /\ Counted(u)
    BY <1>12, <1>17, ReachedCounted
  <2>3. raws' \in SUBSET (0 .. symbols.count - 1)
    <3>1. item.id \in 0 .. symbols.count - 1
      BY <2>1, <2>2, GetFinds
    <3>2. ASSUME NEW x \in found
          PROVE  x.id \in 0 .. symbols.count - 1
      <4>1. PICK q : x = symbols_get(u, q)
        BY <2>1
      <4>2. x # NoSym
        BY <2>1
      <4>3. x.id \in 0 .. u.count - 1
        BY <2>2, <4>1, <4>2, GetFinds
      <4> QED
        BY <1>17, <4>3
    <3>3. raws \in SUBSET (0 .. symbols.count - 1)
      BY <1>5 DEF AtNode
    <3>4. raws' = raws \cup Ids({item} \cup found)
      BY <2>1 DEF Return2
    <3> QED
      BY <3>1, <3>2, <3>3, <3>4 DEF Ids
  <2>4. PICK x : x = Frame("func", p, m_curr_end)
    OBVIOUS
  <2>5. Saved(ctl', m_curr_end', ast, T, h[p + 1])
    <3>1. PICK e : e = h[p]
      OBVIOUS
    <3>2. PICK g : g = h[p + 1]
      OBVIOUS
    <3>3. Saved(ctl, m_curr_end, ast, T, e)
      BY <1>5, <3>1 DEF AtNode
    <3>4. IsSeq(e) /\ Pushed(g, e, p) /\ Pushed(ctl', ctl, x)
      BY <1>2, <1>11, <2>1, <2>4, <3>1, <3>2 DEF IsSeq, Pushed
    <3>5. FrameOf(x, ast, T, p)
      <4>1. symbols.level = s.level
        BY <1>12 DEF Reached, Matches
      <4> QED
        BY <1>4, <1>6, <1>11, <2>4, <4>1 DEF FrameOf, Frame, IsFrame
    <3>6. Jump(m_curr_end', m_curr_end, ast[p], p, x)
      BY <1>4, <1>11, <2>1, <2>4 DEF Jump, Frame
    <3> QED
      BY <3>2, <3>3, <3>4, <3>5, <3>6, SavedPush
  <2>6. /\ pos' = p + 1 /\ UNCHANGED <<phase, ast, snap, m_while>> /\ symbols' = w
        /\ m_returned' = FALSE
    <3>1. m_returned \in BOOLEAN
      BY <1>5 DEF AtNode
    <3> QED
      BY <1>1, <1>2, <2>1, <3>1 DEF Return2
  <2>7. ast[p].kind # "eof" /\ Reached(symbols', T[p + 1], f)
    BY <1>4, <1>7, <1>11, <1>18, <2>6
  <2> QED
    BY <1>1, <1>2, <1>3, <2>3, <2>5, <2>6, <2>7, VisitStep
<1> QED
  BY <1>19, <1>20, <1>21

LEMMA IrDeclStep ==
    ASSUME NEW T, NEW h, History(T, h), IrDecl
    PROVE  IInv'
<1>1. phase = "ir" /\ ast[pos].kind = "decl" /\ ~m_returned
  BY DEF IrDecl, At
<1>2. PICK p : p = pos
  OBVIOUS
<1>3. PICK f : f = T[Len(ast) + 1]
  OBVIOUS
<1>4. PICK node : node = ast[p]
  OBVIOUS
<1>5. AtNode(T, h, p, f)
  BY <1>1, <1>2, <1>3, InSecondPass
<1>6. PICK s : s = T[p]
  OBVIOUS
<1>7. PICK t : t = T[p + 1]
  OBVIOUS
<1>8. PICK keys : keys = NamesOf(node.defs)
  OBVIOUS
<1>9. PICK b : b = IF s.level > 0 THEN symbols_indent(s) ELSE s
  OBVIOUS
<1>10. PICK u : u = IF symbols.level > 0 THEN symbols_enter(symbols) ELSE symbols
  OBVIOUS
<1>11. /\ node.kind = "decl" /\ node.tag \in {"VARIABLE", "CONSTANT"} /\ node.defs \in Defs
       /\ t = AddAll(b, keys, node.tag) /\ h[p + 1] = h[p]
  <2>1. Turn(node, p, s, h[p], t, h[p + 1]) /\ node.kind = "decl"
    BY <1>1, <1>2, <1>4, <1>5, <1>6, <1>7 DEF AtNode
  <2>2. /\ node.tag \in {"VARIABLE", "CONSTANT"} /\ node.defs \in Defs
        /\ t = AddAll(IF s.level > 0 THEN symbols_indent(s) ELSE s, NamesOf(node.defs), node.tag)
        /\ h[p + 1] = h[p]
    BY <2>1 DEF Turn, Plain
  <2> QED
    BY <1>8, <1>9, <2>1, <2>2
<1>12. Good(s) /\ Reached(symbols, s, f) /\ Good(f) /\ Later(s, f) /\ Later(t, f) /\ Good(t)
  BY <1>5, <1>6, <1>7 DEF AtNode
<1>13. Good(b)
  BY <1>9, <1>12, GoodIndent
<1>14. Added(b, t, Len(keys))
  <2>1. node.tag \in Tag
    BY <1>11 DEF Tag
  <2>2. /\ DOMAIN node.defs = 1 .. Len(node.defs) /\ Len(node.defs) \in 1 .. 2
        /\ Len(keys) = Len(node.defs) /\ Len(keys) \in Nat
        /\ \A i \in 1 .. Len(keys) : /\ keys[i] = node.defs[i].name /\ keys[i] \in Name
                                     /\ node.defs[i] \in Def
    BY <1>8, <1>11, NamesAre, Zenon
  <2>3. Len(keys) \in Nat /\ \A i \in 1 .. Len(keys) : keys[i] \in Name
    BY <2>2
  <2> QED
    BY <1>11, <1>13, <2>1, <2>3, AddAllKeeps
<1>15. Later(b, f)
  BY <1>12, <1>13, <1>14, LaterTransitive DEF Added
<1>16. Reached(u, b, f) /\ u.table = symbols.table /\ u.count = symbols.count
  <2>1. symbols.level = s.level
    BY <1>12 DEF Reached, Matches
  <2>2. CASE s.level > 0
    <3>1. b = symbols_indent(s) /\ u = symbols_enter(symbols)
      BY <1>9, <1>10, <2>1, <2>2
    <3> QED
      BY <1>12, <1>15, <3>1, EnterReaches
  <2>3. CASE ~(s.level > 0)
    BY <1>9, <1>10, <1>12, <2>1, <2>3
  <2> QED
    BY <2>2, <2>3
<1>17. Reached(u, t, f)
  BY <1>12, <1>14, <1>16, AddReaches
<1>18. \/ \E why : Abort(why)
       \/ \E why, r : /\ Return2(why, u, r) /\ Steady
                      /\ r \subseteq raws \cup Ids(u.table)
  <2>1. PICK r : r = IF node.tag = "VARIABLE"
                     THEN raws \cup Ids(UNION {Here(u, node.defs[i].name) :
                                                  i \in DOMAIN node.defs})
                     ELSE raws
    OBVIOUS
  <2>2. r \subseteq raws \cup Ids(u.table)
    BY <2>1 DEF Ids, Here, symbols_lookup
  <2>3. Node = node
    BY <1>2, <1>4 DEF Node
  <2>4. \/ \E why : Abort(why)
        \/ \E why : Return2(why, u, r) /\ Steady
    BY <1>10, <2>1, <2>3 DEF IrDecl, symbols_level
  <2> QED
    BY <2>2, <2>4
<1>19. CASE \E why : Abort(why)
  BY <1>1, <1>19, AbortStep
<1>20. CASE \E why, r : /\ Return2(why, u, r) /\ Steady
                        /\ r \subseteq raws \cup Ids(u.table)
  <2>1. PICK why, r : /\ Return2(why, u, r) /\ Steady
                      /\ r \subseteq raws \cup Ids(u.table)
    BY <1>20
  <2>2. Counted(symbols)
    BY <1>12, ReachedCounted
  <2>3. raws' \in SUBSET (0 .. symbols.count - 1)
    <3>1. raws' = r
      BY <2>1 DEF Return2
    <3>2. raws \in SUBSET (0 .. symbols.count - 1)
      BY <1>5 DEF AtNode
    <3> QED
      BY <1>16, <2>1, <2>2, <3>1, <3>2 DEF Ids, Counted
  <2>4. Saved(ctl', m_curr_end', ast, T, h[p + 1])
    BY <1>5, <1>11, <2>1 DEF AtNode, Steady
  <2>5. /\ pos' = p + 1 /\ UNCHANGED <<phase, ast, snap, m_while>> /\ symbols' = u
        /\ m_returned' = FALSE
    <3>1. m_returned \in BOOLEAN
      BY <1>5 DEF AtNode
    <3> QED
      BY <1>1, <1>2, <2>1, <3>1 DEF Return2, Steady
  <2>6. ast[p].kind # "eof" /\ Reached(symbols', T[p + 1], f)
    BY <1>4, <1>7, <1>11, <1>17, <2>5
  <2> QED
    BY <1>1, <1>2, <1>3, <2>3, <2>4, <2>5, <2>6, VisitStep
<1> QED
  BY <1>18, <1>19, <1>20

LEMMA IrOpenStep ==
    ASSUME NEW T, NEW h, History(T, h), IrOpen
    PROVE  IInv'
<1>1. phase = "ir" /\ ast[pos].kind = "open" /\ ~m_returned
  BY DEF IrOpen, At
<1>2. PICK p : p = pos
  OBVIOUS
<1>3. PICK f : f = T[Len(ast) + 1]
  OBVIOUS
<1>4. PICK node : node = ast[p]
  OBVIOUS
<1>5. AtNode(T, h, p, f)
  BY <1>1, <1>2, <1>3, InSecondPass
<1>6. PICK s : s = T[p]
  OBVIOUS
<1>7. PICK t : t = T[p + 1]
  OBVIOUS
<1>8. PICK u : u = symbols_enter(symbols)
  OBVIOUS
<1>9. /\ node.kind = "open" /\ node.loop \in BOOLEAN /\ t = symbols_indent(s)
      /\ h[p + 1] = Append(h[p], p)
  <2>1. Turn(node, p, s, h[p], t, h[p + 1]) /\ node.kind = "open"
    BY <1>1, <1>2, <1>4, <1>5, <1>6, <1>7 DEF AtNode
  <2> QED
    BY <2>1 DEF Turn, Plain
<1>10. Good(s) /\ Reached(symbols, s, f) /\ Good(f) /\ Later(s, f) /\ Later(t, f) /\ Good(t)
  BY <1>5, <1>6, <1>7 DEF AtNode
<1>11. Reached(u, t, f)
  BY <1>8, <1>9, <1>10, EnterReaches
<1>12. \/ \E why : Abort(why)
       \/ \E why : /\ Return2(why, u, raws)
                   /\ ctl' = Append(ctl, Frame("block", p, m_curr_end))
                   /\ m_curr_end' = (IF node.loop THEN p ELSE m_curr_end)
                   /\ m_returned' = m_returned
  BY <1>2, <1>4, <1>8 DEF IrOpen, LoopEnd, Node
<1>13. CASE \E why : Abort(why)
  BY <1>1, <1>13, AbortStep
<1>14. CASE \E why : /\ Return2(why, u, raws)
                     /\ ctl' = Append(ctl, Frame("block", p, m_curr_end))
                     /\ m_curr_end' = (IF node.loop THEN p ELSE m_curr_end)
                     /\ m_returned' = m_returned
  <2>1. PICK why : /\ Return2(why, u, raws)
                   /\ ctl' = Append(ctl, Frame("block", p, m_curr_end))
                   /\ m_curr_end' = (IF node.loop THEN p ELSE m_curr_end)
                   /\ m_returned' = m_returned
    BY <1>14
  <2>2. raws' \in SUBSET (0 .. symbols.count - 1)
    BY <1>5, <2>1 DEF AtNode, Return2
  <2>3. PICK x : x = Frame("block", p, m_curr_end)
    OBVIOUS
  <2>4. Saved(ctl', m_curr_end', ast, T, h[p + 1])
    <3>1. PICK e : e = h[p]
      OBVIOUS
    <3>2. PICK g : g = h[p + 1]
      OBVIOUS
    <3>3. Saved(ctl, m_curr_end, ast, T, e)
      BY <1>5, <3>1 DEF AtNode
    <3>4. Pushed(g, e, p) /\ Pushed(ctl', ctl, x)
      BY <1>9, <2>1, <2>3, <3>1, <3>2 DEF Pushed
    <3>7. IsSeq(e)
      <4>1. e \in Seq(1 .. p - 1)
        BY <1>5, <3>1 DEF AtNode, Shape
      <4> QED
        BY <4>1, SeqIs
    <3>5. FrameOf(x, ast, T, p)
      <4>1. symbols.level = s.level
        BY <1>10 DEF Reached, Matches
      <4> QED
        BY <1>4, <1>6, <1>9, <2>3, <4>1 DEF FrameOf, Frame, IsFrame
    <3>6. Jump(m_curr_end', m_curr_end, ast[p], p, x)
      BY <1>4, <1>9, <2>1, <2>3 DEF Jump, Frame
    <3> QED
      BY <3>2, <3>3, <3>4, <3>5, <3>6, <3>7, SavedPush
  <2>5. /\ pos' = p + 1 /\ UNCHANGED <<phase, ast, snap, m_while>> /\ symbols' = u
        /\ m_returned' = FALSE
    <3>1. m_returned \in BOOLEAN
      BY <1>5 DEF AtNode
    <3> QED
      BY <1>1, <1>2, <2>1, <3>1 DEF Return2
  <2>6. ast[p].kind # "eof" /\ Reached(symbols', T[p + 1], f)
    BY <1>4, <1>7, <1>9, <1>11, <2>5
  <2> QED
    BY <1>1, <1>2, <1>3, <2>2, <2>4, <2>5, <2>6, VisitStep
<1> QED
  BY <1>12, <1>13, <1>14

\* The frame of the block being left is that of a function if it is the last one.
LEMMA TopIs ==
    ASSUME NEW c, NEW a, NEW T, NEW p, NEW s, NEW e, Shape(a, T, p, s, e),
           Frames(c, a, T, e), IsSeq(e), e # <<>>
    PROVE  /\ c[Len(c)].kind = "func" <=> Len(e) = 1
           /\ c[Len(c)].base = T[e[Len(e)]].level
<1>1. Len(e) \in Nat \ {0}
  BY FrontIs
<1>2. Len(e) \in 1 .. Len(e) /\ Len(c) = Len(e)
  BY <1>1 DEF Frames
<1>3. a[e[Len(e)]].kind = IF Len(e) = 1 THEN "func" ELSE "open"
  BY <1>2 DEF Shape
<1>4. FrameOf(c[Len(e)], a, T, e[Len(e)])
  BY <1>2 DEF Frames
<1> QED
  BY <1>2, <1>3, <1>4 DEF FrameOf

\* A closing brace brings the second pass where it brought the first one.
LEMMA IrCloses ==
    ASSUME NEW T, NEW h, History(T, h), phase = "ir", NEW p, p = pos,
           ast[p].kind = "close", NEW f, f = T[Len(ast) + 1], NEW u,
           u = symbols_dedent(symbols), NEW w,
           w = IF Top.kind = "func" THEN symbols_dedent(u) ELSE u
    PROVE  /\ Reached(w, T[p + 1], f) /\ w.level = Top.base
           /\ h[p] # <<>> /\ IsSeq(h[p]) /\ h[p + 1] = Front(h[p])
           /\ Top.kind = "func" => u.level = 1
<1>1. AtNode(T, h, p, f)
  BY InSecondPass
<1>2. PICK s : s = T[p]
  OBVIOUS
<1>3. PICK t : t = T[p + 1]
  OBVIOUS
<1>4. PICK e : e = h[p]
  OBVIOUS
<1>5. PICK node : node = ast[p]
  OBVIOUS
<1>6. /\ e # <<>> /\ h[p + 1] = Front(e)
      /\ t = IF Len(e) = 1 THEN symbols_leave(symbols_leave(s)) ELSE symbols_leave(s)
  <2>1. Turn(node, p, s, e, t, h[p + 1]) /\ node.kind = "close"
    BY <1>1, <1>2, <1>3, <1>4, <1>5 DEF AtNode
  <2> QED
    BY <2>1 DEF Turn, Plain
<1>7. /\ Good(s) /\ Reached(symbols, s, f) /\ Good(f) /\ Later(t, f) /\ Good(t)
      /\ Shape(ast, T, p, s, e) /\ p \in Nat /\ Frames(ctl, ast, T, e)
  BY <1>1, <1>2, <1>3, <1>4 DEF AtNode, Saved
<1>8. IsSeq(e)
  <2>1. e \in Seq(1 .. p - 1)
    BY <1>7 DEF Shape
  <2> QED
    BY <2>1, SeqIs
<1>9. \A q \in 1 .. p - 1 : Good(T[q])
  <2>1. \A q \in 1 .. p - 1 : q \in 1 .. Len(ast) + 1
    BY <1>1 DEF AtNode
  <2> QED
    BY <1>1, <2>1 DEF AtNode, Tree
<1>10. PICK v : v = symbols_leave(s)
  OBVIOUS
<1>11. /\ t.level = T[e[Len(e)]].level
       /\ Good(symbols_leave(s)) /\ Later(symbols_leave(s), t)
       /\ Len(e) = 1 => symbols_leave(s).level = 1
  BY <1>6, <1>7, <1>9, CloseTable
<1>12. s.level > 0
  BY <1>6, <1>7, <1>9, CloseFinds
<1>13. Good(v) /\ Later(v, t) /\ (Len(e) = 1 => v.level = 1)
  BY <1>10, <1>11
<1>14. Later(v, f)
  BY <1>7, <1>13, LaterTransitive
<1>15. Reached(u, v, f)
  BY <1>7, <1>10, <1>12, <1>14, DedentReaches
<1>16. (Top.kind = "func" <=> Len(e) = 1) /\ Top.base = T[e[Len(e)]].level
  BY <1>6, <1>7, <1>8, TopIs DEF Top
<1>17. Reached(w, t, f)
  <2>1. CASE Len(e) = 1
    <3>1. w = symbols_dedent(u) /\ t = symbols_leave(v) /\ v.level > 0
      BY <1>6, <1>10, <1>13, <1>16, <2>1
    <3> QED
      BY <1>7, <1>13, <1>15, <3>1, DedentReaches
  <2>2. CASE Len(e) # 1
    BY <1>6, <1>10, <1>15, <1>16, <2>2
  <2> QED
    BY <2>1, <2>2
<1>18. w.level = t.level
  BY <1>17 DEF Reached, Matches
<1>19. Top.kind = "func" => u.level = 1
  <2>1. u.level = v.level
    BY <1>15 DEF Reached, Matches
  <2> QED
    BY <1>13, <1>16, <2>1
<1> QED
  BY <1>3, <1>4, <1>6, <1>8, <1>11, <1>16, <1>17, <1>18, <1>19

LEMMA IrCloseStep ==
    ASSUME NEW T, NEW h, History(T, h), IrClose
    PROVE  IInv'
<1>1. phase = "ir" /\ ast[pos].kind = "close"
  BY DEF IrClose, At
<1>2. PICK p : p = pos
  OBVIOUS
<1>3. PICK f : f = T[Len(ast) + 1]
  OBVIOUS
<1>4. PICK u : u = symbols_dedent(symbols)
  OBVIOUS
<1>5. PICK w : w = IF Top.kind = "func" THEN symbols_dedent(u) ELSE u
  OBVIOUS
<1>6. AtNode(T, h, p, f)
  BY <1>1, <1>2, <1>3, InSecondPass
<1>7. /\ Reached(w, T[p + 1], f)
      /\ h[p] # <<>> /\ IsSeq(h[p]) /\ h[p + 1] = Front(h[p])
  BY <1>1, <1>2, <1>3, <1>4, <1>5, IrCloses
<1>8. \/ \E why : Abort(why)
      \/ \E why : /\ Return2(why, w, raws)
                  /\ ctl' = Front(ctl) /\ m_returned' = FALSE /\ m_curr_end' = Top.target
  BY <1>4, <1>5 DEF IrClose
<1>9. CASE \E why : Abort(why)
  BY <1>1, <1>9, AbortStep
<1>10. CASE \E why : /\ Return2(why, w, raws)
                     /\ ctl' = Front(ctl) /\ m_returned' = FALSE
                     /\ m_curr_end' = Top.target
  <2>1. PICK why : /\ Return2(why, w, raws)
                   /\ ctl' = Front(ctl) /\ m_returned' = FALSE
                   /\ m_curr_end' = Top.target
    BY <1>10
  <2>2. raws' \in SUBSET (0 .. symbols.count - 1)
    BY <1>6, <2>1 DEF AtNode, Return2
  <2>3. Saved(ctl', m_curr_end', ast, T, h[p + 1])
    <3>1. PICK e : e = h[p]
      OBVIOUS
    <3>2. PICK g : g = h[p + 1]
      OBVIOUS
    <3>3. Saved(ctl, m_curr_end, ast, T, e) /\ IsSeq(e) /\ e # <<>> /\ g = Front(e)
      BY <1>6, <1>7, <3>1, <3>2 DEF AtNode
    <3>4. Saved(ctl', ctl[Len(ctl)].target, ast, T, g)
      BY <2>1, <3>3, SavedPop
    <3> QED
      BY <2>1, <3>2, <3>4 DEF Top
  <2>4. /\ pos' = p + 1 /\ UNCHANGED <<phase, ast, snap, m_while>> /\ symbols' = w
        /\ m_returned' = FALSE
    BY <1>2, <2>1 DEF Return2
  <2>5. ast[p].kind # "eof" /\ Reached(symbols', T[p + 1], f)
    BY <1>1, <1>2, <1>7, <2>4
  <2> QED
    BY <1>1, <1>2, <1>3, <2>2, <2>3, <2>4, <2>5, VisitStep
<1> QED
  BY <1>8, <1>9, <1>10

\* A statement that leaves the table and the stack as they are.
LEMMA IrPlainStep ==
    ASSUME NEW T, NEW h, History(T, h), phase = "ir", NEW p, p = pos,
           ast[p].kind \in Plain, NEW why, Return2(why, symbols, raws),
           UNCHANGED <<ctl, m_curr_end>>, m_returned' \in BOOLEAN,
           m_returned' => Returns(ast, p)
    PROVE  IInv'
<1>1. PICK f : f = T[Len(ast) + 1]
  OBVIOUS
<1>2. AtNode(T, h, p, f)
  BY <1>1, InSecondPass
<1>3. PICK node : node = ast[p]
  OBVIOUS
<1>4. PICK t : t = T[p + 1]
  OBVIOUS
<1>5. t = T[p] /\ h[p + 1] = h[p]
  <2>1. Turn(node, p, T[p], h[p], t, h[p + 1]) /\ node.kind \in Plain
    BY <1>2, <1>3, <1>4 DEF AtNode
  <2>2. node.kind \notin {"func", "decl", "open", "close", "eof"}
    BY <2>1 DEF Plain
  <2> QED
    BY <2>1, <2>2 DEF Turn
<1>6. ast[p].kind # "eof"
  BY DEF Plain
<1>7. /\ pos' = p + 1 /\ UNCHANGED <<phase, ast, snap, m_while>>
      /\ symbols' = symbols /\ raws' = raws
  BY DEF Return2
<1>8. Reached(symbols', T[p + 1], f) /\ Saved(ctl', m_curr_end', ast, T, h[p + 1])
  BY <1>2, <1>4, <1>5, <1>7 DEF AtNode
<1>9. raws' \in SUBSET (0 .. symbols.count - 1)
  BY <1>2, <1>7 DEF AtNode
<1>10. m_returned' => \E q \in 1 .. p : Returns(ast, q) /\ h[q] = h[p + 1]
  <2>1. p \in 1 .. p
    BY <1>2 DEF AtNode
  <2> QED
    BY <1>5, <2>1
<1> QED
  BY <1>1, <1>6, <1>7, <1>8, <1>9, <1>10, VisitStep

LEMMA IrStatementStep ==
    ASSUME NEW T, NEW h, History(T, h),
           IrUse \/ IrAssign \/ IrCall \/ IrReturn \/ IrBreak
    PROVE  IInv'
<1>1. phase = "ir" /\ ~m_returned /\ ast[pos].kind \in Plain
  BY DEF IrUse, IrAssign, IrCall, IrReturn, IrBreak, At, Plain
<1>2. PICK p : p = pos
  OBVIOUS
<1>3. PICK f : f = T[Len(ast) + 1]
  OBVIOUS
<1>4. AtNode(T, h, p, f)
  BY <1>1, <1>2, <1>3, InSecondPass
<1>5. m_returned \in BOOLEAN
  BY <1>4 DEF AtNode
<1>6. CASE \E why : Abort(why)
  BY <1>1, <1>6, AbortStep
<1>7. CASE \E why : Return2(why, symbols, raws) /\ Steady
  <2>1. PICK why : Return2(why, symbols, raws) /\ Steady
    BY <1>7
  <2>2. UNCHANGED <<ctl, m_curr_end>> /\ m_returned' = FALSE
    BY <1>1, <1>5, <2>1 DEF Steady
  <2> QED
    BY <1>1, <1>2, <2>1, <2>2, IrPlainStep
<1>8. CASE IrReturn
  <2>1. /\ Return2("none", symbols, raws) /\ m_returned' = ast[p].direct
        /\ UNCHANGED <<ctl, m_curr_end>> /\ ast[p].kind = "return"
    BY <1>2, <1>8 DEF IrReturn, At, Node
  <2>2. ast[p].direct \in BOOLEAN
    <3>1. PICK node : node = ast[p]
      OBVIOUS
    <3>2. Turn(node, p, T[p], h[p], T[p + 1], h[p + 1]) /\ node.kind = "return"
      BY <1>4, <2>1, <3>1 DEF AtNode
    <3>3. node.direct \in BOOLEAN
      BY <3>2 DEF Turn
    <3> QED
      BY <3>1, <3>3
  <2>3. m_returned' \in BOOLEAN /\ (m_returned' => Returns(ast, p))
    BY <2>1, <2>2 DEF Returns
  <2> QED
    BY <1>1, <1>2, <2>1, <2>3, IrPlainStep
<1> QED
  BY <1>6, <1>7, <1>8 DEF IrUse, IrAssign, IrCall, IrBreak

\* Until the brace that closes the block, nothing after a return opens or declares.
LEMMA DeadCode ==
    ASSUME NEW a, NEW T, NEW h, Tree(a, T, h), NEW p \in 1 .. Len(a),
           NEW q \in 1 .. p - 1, Returns(a, q), h[q] = h[p],
           NEW r \in p .. Len(a) + 1, \A i \in p .. r - 1 : a[i].kind # "close"
    PROVE  h[r] = h[p] /\ T[r] = T[p] /\ \A i \in p .. r - 1 : a[i].kind \in Plain
<1>1. Len(a) \in Nat
  BY TreeTypes
<1>2. h[p] # <<>>
  <2>1. q \in 1 .. Len(a)
    BY <1>1
  <2>2. PICK node : node = a[q]
    OBVIOUS
  <2>3. Turn(node, q, T[q], h[q], T[q + 1], h[q + 1]) /\ node.kind = "return"
    BY <2>1, <2>2 DEF Tree, Returns
  <2> QED
    BY <2>3 DEF Turn
<1> DEFINE Same(n) == /\ h[p + n] = h[p] /\ T[p + n] = T[p]
                      /\ \A i \in p .. p + n - 1 : a[i].kind \in Plain
           G == {n \in Nat : n <= r - p => Same(n)}
<1>3. 0 \in G
  <2>1. p + 0 = p /\ \A i \in p .. p + 0 - 1 : FALSE
    BY <1>1
  <2> QED
    BY <2>1
<1>4. ASSUME NEW n \in Nat, n \in G
      PROVE  n + 1 \in G
  <2> SUFFICES ASSUME n + 1 <= r - p
               PROVE  Same(n + 1)
    OBVIOUS
  <2>1. PICK m : m = p + n
    OBVIOUS
  <2>2. /\ m \in 1 .. Len(a) /\ m \in p .. r - 1 /\ p + (n + 1) = m + 1 /\ q \in 1 .. m - 1
        /\ \A i \in p .. p + (n + 1) - 1 : i = m \/ i \in p .. p + n - 1
    BY <1>1, <2>1
  <2>3. Same(n)
    BY <1>1, <1>4
  <2>4. /\ h[m] = h[p] /\ T[m] = T[p]
        /\ \A i \in p .. p + n - 1 : a[i].kind \in Plain
    BY <2>1, <2>3
  <2>5. PICK node : node = a[m]
    OBVIOUS
  <2>6. /\ Turn(node, m, T[m], h[m], T[m + 1], h[m + 1]) /\ node.kind # "close"
        /\ Alive(a, h, m)
    BY <2>2, <2>5 DEF Tree
  <2>7. node.kind \notin {"open", "decl"}
    BY <2>2, <2>4, <2>5, <2>6 DEF Alive
  <2>8. h[m] # <<>>
    BY <1>2, <2>4
  <2>9. node.kind \in Plain /\ T[m + 1] = T[m] /\ h[m + 1] = h[m]
    BY <2>6, <2>7, <2>8 DEF Turn
  <2> QED
    BY <2>2, <2>4, <2>5, <2>9
<1> HIDE DEF G
<1>5. Nat \subseteq G
  BY <1>3, <1>4, SetInduction
<1>6. r - p \in Nat /\ p + (r - p) = r
  BY <1>1
<1>7. Same(r - p)
  <2>1. PICK n : n = r - p
    OBVIOUS
  <2>2. n \in Nat /\ n <= r - p
    BY <1>6, <2>1
  <2>3. n \in G
    BY <1>5, <2>2
  <2> HIDE DEF Same
  <2>4. Same(n)
    BY <2>2, <2>3 DEF G
  <2> QED
    BY <2>1, <2>4
<1>8. \A i \in p .. r - 1 : i \in p .. p + (r - p) - 1
  BY <1>1
<1>9. h[p + (r - p)] = h[p] /\ T[p + (r - p)] = T[p]
  BY <1>7
<1>10. \A i \in p .. r - 1 : a[i].kind \in Plain
  BY <1>7, <1>8
<1> QED
  BY <1>6, <1>9, <1>10

\* The brace that the second pass goes to is the one that closes the block.
LEMMA SkipEnds ==
    ASSUME NEW T, NEW h, Tree(ast, T, h), NEW p, p = pos, p \in 1 .. Len(ast),
           ast[Len(ast)].kind = "eof",
           NEW q \in 1 .. p - 1, Returns(ast, q), h[q] = h[p], NEW r, r = EndOfBlock
    PROVE  r \in p .. Len(ast) /\ h[r] = h[p] /\ T[r] = T[p] /\ ast[r].kind = "close"
<1>1. Len(ast) \in Nat
  BY TreeTypes
<1> DEFINE C == {i \in p .. Len(ast) : ast[i].kind = "close"}
<1>2. C # {}
  <2> SUFFICES ASSUME C = {}
               PROVE  FALSE
    OBVIOUS
  <2>1. PICK n : n = Len(ast) + 1
    OBVIOUS
  <2>2. n \in p .. Len(ast) + 1 /\ n - 1 = Len(ast) /\ Len(ast) \in p .. n - 1
    BY <1>1, <2>1
  <2>3. \A i \in p .. n - 1 : ast[i].kind # "close"
    BY <2>2
  <2>4. \A i \in p .. n - 1 : ast[i].kind \in Plain
    BY <2>2, <2>3, DeadCode
  <2> QED
    BY <2>2, <2>4 DEF Plain
<1>3. C \subseteq Nat
  BY <1>1
<1> HIDE DEF C
<1>4. PICK e \in C : \A i \in C : e <= i
  BY <1>2, <1>3, Least
<1>5. /\ e \in p .. Len(ast) /\ ast[e].kind = "close" /\ e \in p .. Len(ast) + 1
      /\ \A i \in p .. Len(ast) : ast[i].kind = "close" => e <= i
  BY <1>1, <1>4 DEF C
<1>6. \A i \in p .. e - 1 : ast[i].kind # "close"
  BY <1>1, <1>5
<1>7. h[e] = h[p] /\ T[e] = T[p] /\ \A i \in p .. e - 1 : ast[i].kind \in Plain
  BY <1>5, <1>6, DeadCode
<1>8. \A i \in p .. e - 1 : ast[i].kind \notin {"open", "close"}
  BY <1>7 DEF Plain
<1>9. ASSUME NEW n \in p .. e
      PROVE  /\ Cardinality(NodesOf({"open"}, p, n - 1)) = 0
             /\ Cardinality(NodesOf({"close"}, p, n - 1)) = 0
  <2>1. \A i \in p .. n - 1 : i \in p .. e - 1
    BY <1>1, <1>5
  <2>2. NodesOf({"open"}, p, n - 1) = {} /\ NodesOf({"close"}, p, n - 1) = {}
    BY <1>8, <2>1 DEF NodesOf
  <2> QED
    BY <2>2, FS_EmptySet
<1>10. /\ Cardinality(NodesOf({"open"}, p, e)) = 0
       /\ Cardinality(NodesOf({"close"}, p, e)) = 1
  <2>1. \A i \in p .. e : i = e \/ i \in p .. e - 1
    BY <1>1, <1>5
  <2>2. e \in p .. e
    BY <1>1, <1>5
  <2>3. NodesOf({"open"}, p, e) = {} /\ NodesOf({"close"}, p, e) = {e}
    BY <1>5, <1>8, <2>1, <2>2 DEF NodesOf
  <2>4. Cardinality({e}) = 1
    BY FS_Singleton
  <2> QED
    BY <2>3, <2>4, FS_EmptySet
<1> DEFINE Ends(i) == /\ ast[i].kind = "close"
                      /\ Cardinality(NodesOf({"open"}, p, i - 1)) =
                             Cardinality(NodesOf({"close"}, p, i - 1))
                      /\ \A j \in p .. i - 1 :
                            Cardinality(NodesOf({"open"}, p, j)) >=
                                Cardinality(NodesOf({"close"}, p, j))
<1>11. Ends(e)
  <2>1. e \in p .. e
    BY <1>1, <1>5
  <2>2. ASSUME NEW j \in p .. e - 1
        PROVE  Cardinality(NodesOf({"open"}, p, j)) >= Cardinality(NodesOf({"close"}, p, j))
    <3>1. j + 1 \in p .. e /\ (j + 1) - 1 = j
      BY <1>1, <1>5
    <3>2. /\ Cardinality(NodesOf({"open"}, p, (j + 1) - 1)) = 0
          /\ Cardinality(NodesOf({"close"}, p, (j + 1) - 1)) = 0
      BY <1>9, <3>1
    <3>3. Cardinality(NodesOf({"open"}, p, j)) = 0 /\ Cardinality(NodesOf({"close"}, p, j)) = 0
      BY <3>1, <3>2
    <3> QED
      BY <3>3
  <2> QED
    BY <1>5, <1>9, <2>1, <2>2
<1>12. ASSUME NEW i \in p .. Len(ast), Ends(i)
       PROVE  i = e
  <2>1. e <= i
    BY <1>5, <1>12
  <2>2. ASSUME e < i
        PROVE  FALSE
    <3>1. e \in p .. i - 1
      BY <1>1, <1>5, <2>2
    <3>2. Cardinality(NodesOf({"open"}, p, e)) >= Cardinality(NodesOf({"close"}, p, e))
      BY <1>12, <3>1
    <3> QED
      BY <1>10, <3>2
  <2> QED
    BY <1>1, <1>5, <2>1, <2>2
<1>13. r = CHOOSE i \in p .. Len(ast) : Ends(i)
  BY DEF EndOfBlock
<1> HIDE DEF Ends
<1>14. r = e
  BY <1>5, <1>11, <1>12, <1>13
<1> QED
  BY <1>5, <1>7, <1>14

LEMMA IrSkipStep ==
    ASSUME NEW T, NEW h, History(T, h), IrSkip
    PROVE  IInv'
<1>1. /\ phase = "ir" /\ m_returned /\ pos' = EndOfBlock
      /\ UNCHANGED <<phase, symbols, ast, snap, ctl, m_while,
                     raws, m_returned, m_curr_end>>
  BY DEF IrSkip
<1>2. PICK p : p = pos
  OBVIOUS
<1>3. PICK f : f = T[Len(ast) + 1]
  OBVIOUS
<1>4. PICK r : r = EndOfBlock
  OBVIOUS
<1>5. AtNode(T, h, p, f)
  BY <1>1, <1>2, <1>3, InSecondPass
<1>6. PICK q \in 1 .. p - 1 : Returns(ast, q) /\ h[q] = h[p]
  BY <1>1, <1>5 DEF AtNode
<1>7. r \in p .. Len(ast) /\ h[r] = h[p] /\ T[r] = T[p]
  <2>1. Tree(ast, T, h) /\ p \in 1 .. Len(ast) /\ ast[Len(ast)].kind = "eof"
    BY <1>5 DEF AtNode
  <2> QED
    BY <1>2, <1>4, <1>6, <2>1, SkipEnds
<1>8. r \in 1 .. Len(ast) /\ q \in 1 .. r - 1
  BY <1>5, <1>7 DEF AtNode
<1>9. /\ phase' = "ir" /\ symbols' = symbols /\ ast' = ast /\ snap' = snap /\ ctl' = ctl
      /\ m_while' = m_while /\ raws' = raws /\ m_returned' = m_returned
      /\ m_curr_end' = m_curr_end /\ pos' = r
  BY <1>1, <1>4
<1>10. InIr(T, h)
  BY <1>1 DEF History
<1>11. InIr(T, h)'
  BY <1>2, <1>6, <1>7, <1>8, <1>9, <1>10 DEF InIr
<1>12. History(T, h)'
  BY <1>9, <1>11 DEF History
<1> QED
  BY <1>12 DEF IInv

\* When the global scope alone is open, leaving it leaves and frees everything.
LEMMA LastDedent ==
    ASSUME NEW u, NEW f, Reached(u, f, f), Good(f), f.level = 0,
           NEW w, w = symbols_dedent(u)
    PROVE  /\ SymbolsOK(w) /\ w.table = {} /\ w.level = -1 /\ w.count = u.count
           /\ \A l \in 0 .. w.depth - 1 : w.levels[l].mem = "freed"
<1>1. /\ SymbolsOK(u) /\ VisitQueues(u) /\ Matches(u, f, f) /\ CoherentTable(u)
      /\ u.level = 0 /\ u.depth = f.depth
  BY DEF Reached, Matches
<1>2. /\ SymbolsOK(w) /\ VisitQueues(w) /\ w.depth = u.depth
      /\ DedentStop(u) \in 0 .. u.level /\ w.level = DedentStop(u) - 1
      /\ \A k \in 0 .. u.depth - 1 :
            /\ w.levels[k].end = u.levels[k].end
            /\ w.levels[k].begin = u.levels[k].begin +
                                      (IF k \in DedentStop(u) .. u.level THEN 1 ELSE 0)
  BY <1>1, DedentQueues
<1>3. DedentStop(u) = 0 /\ w.level = -1
  BY <1>1, <1>2
<1>4. ASSUME NEW l \in 0 .. w.depth - 1
      PROVE  w.levels[l].begin = w.levels[l].end /\ w.levels[l].begin \in Nat
  <2>1. /\ l \in 0 .. f.depth - 1 /\ l \in 0 .. u.depth - 1 /\ l \in Nat
        /\ f.depth \in Nat /\ ~(l >= f.depth)
    BY <1>1, <1>2, GoodTypes
  <2>2. u.levels[l].end = f.levels[l].end /\ u.levels[l].begin = Closed(f, l)
    BY <1>1, <2>1 DEF Matches
  <2>3. f.levels[l].end \in Nat \ {0} /\ f.levels[0].end = 1
    BY <2>1, GoodTypes DEF Good, BuildQueues
  <2>4. Closed(f, l) = IF l > 0 THEN f.levels[l].end ELSE 0
    BY <2>1, <2>3 DEF Closed
  <2>5. w.levels[l].begin = Closed(f, l) + (IF l = 0 THEN 1 ELSE 0)
    BY <1>1, <1>2, <1>3, <2>1, <2>2
  <2>6. w.levels[l].end = f.levels[l].end
    BY <1>2, <2>1, <2>2
  <2> QED
    BY <2>1, <2>3, <2>4, <2>5, <2>6
<1>5. \A l \in 0 .. w.depth - 1 : w.levels[l].mem = "freed"
  <2>1. ASSUME NEW l \in 0 .. w.depth - 1
        PROVE  w.levels[l].mem = "freed"
    <3>1. w.levels[l].mem = IF w.levels[l].begin < w.levels[l].end THEN "held" ELSE "freed"
      BY <1>2 DEF VisitQueues
    <3> QED
      BY <1>4, <3>1
  <2> QED
    BY <2>1
<1>6. w.table = {}
  <2>1. CoherentTable(w)
    BY <1>1, CoherentDedent
  <2>2. \A l \in 0 .. w.depth - 1 : w.levels[l].begin .. w.levels[l].end - 1 = {}
    BY <1>4
  <2>3. \A item : ~Held(w, item)
    BY <2>2 DEF Held
  <2> QED
    BY <2>1, <2>3 DEF CoherentTable
<1>7. w.count = u.count
  BY DEF symbols_dedent
<1> QED
  BY <1>2, <1>3, <1>5, <1>6, <1>7

LEMMA IrEndStep ==
    ASSUME NEW T, NEW h, History(T, h), IrEnd
    PROVE  IInv'
<1>1. phase = "ir" /\ ast[pos].kind = "eof"
  BY DEF IrEnd, At
<1>2. PICK p : p = pos
  OBVIOUS
<1>3. PICK f : f = T[Len(ast) + 1]
  OBVIOUS
<1>4. AtNode(T, h, p, f)
  BY <1>1, <1>2, <1>3, InSecondPass
<1>5. PICK w : w = symbols_dedent(symbols)
  OBVIOUS
<1>6. f = T[p] /\ h[p] = <<>>
  <2>1. PICK node : node = ast[p]
    OBVIOUS
  <2>2. Tree(ast, T, h) /\ p \in 1 .. Len(ast)
    BY <1>4 DEF AtNode
  <2>3. Turn(node, p, T[p], h[p], T[p + 1], h[p + 1]) /\ node.kind = "eof"
    BY <1>1, <1>2, <1>4, <2>1 DEF AtNode
  <2>4. p = Len(ast)
    BY <1>1, <1>2, <2>2 DEF Tree
  <2>5. h[p] = <<>> /\ T[p + 1] = T[p]
    BY <2>3 DEF Turn, Plain
  <2> QED
    BY <1>3, <2>4, <2>5
<1>7. Reached(symbols, f, f) /\ Good(f) /\ f.level = 0
  BY <1>4, <1>6 DEF AtNode, Shape
<1>8. /\ SymbolsOK(w) /\ w.table = {} /\ w.level = -1 /\ w.count = symbols.count
      /\ \A l \in 0 .. w.depth - 1 : w.levels[l].mem = "freed"
  BY <1>5, <1>7, LastDedent
<1>9. ctl = <<>> /\ m_curr_end = 0
  <2>1. PICK g : g = h[p]
    OBVIOUS
  <2>2. Saved(ctl, m_curr_end, ast, T, g) /\ g = <<>> /\ Len(g) = 0
    BY <1>4, <1>6, <2>1 DEF AtNode
  <2>3. IsSeq(ctl) /\ Len(ctl) = 0
    BY <2>2 DEF Saved, Frames
  <2>4. IsTarget(ast, g, 0, m_curr_end)
    BY <2>2 DEF Saved
  <2> QED
    BY <2>3, <2>4 DEF IsSeq, IsTarget
<1>10. CASE \E why : Abort(why)
  BY <1>1, <1>10, AbortStep
<1>11. CASE /\ symbols' = w /\ phase' = "done"
            /\ UNCHANGED <<ast, snap, ctl, m_while, irVars>>
  <2>1. /\ ast' = ast /\ snap' = snap /\ ctl' = ctl /\ m_while' = m_while /\ pos' = pos
        /\ raws' = raws /\ m_returned' = m_returned /\ m_curr_end' = m_curr_end
    BY <1>11 DEF irVars
  <2>2. AllOver'
    BY <1>2, <1>4, <1>8, <1>9, <1>11, <2>1 DEF AtNode, AllOver
  <2>3. History(T, h)'
    BY <1>11, <2>1, <2>2 DEF History
  <2> QED
    BY <2>3 DEF IInv
<1> QED
  BY <1>5, <1>10, <1>11 DEF IrEnd

LEMMA IrKeepsIInv ==
    ASSUME IInv, Ir
    PROVE  IInv'
<1>1. PICK T, h : History(T, h)
  BY DEF IInv
<1>2. CASE IrFuncDef
  BY <1>1, <1>2, IrFuncStep
<1>3. CASE IrDecl
  BY <1>1, <1>3, IrDeclStep
<1>4. CASE IrOpen
  BY <1>1, <1>4, IrOpenStep
<1>5. CASE IrClose
  BY <1>1, <1>5, IrCloseStep
<1>6. CASE IrUse \/ IrAssign \/ IrCall \/ IrReturn \/ IrBreak
  BY <1>1, <1>6, IrStatementStep
<1>7. CASE IrSkip
  BY <1>1, <1>7, IrSkipStep
<1>8. CASE IrEnd
  BY <1>1, <1>8, IrEndStep
<1> QED
  BY <1>2, <1>3, <1>4, <1>5, <1>6, <1>7, <1>8 DEF Ir

LEMMA NextKeepsIInv ==
    ASSUME "dead_scope" \notin Admit, IInv, [Next]_vars
    PROVE  IInv'
<1>1. CASE SemanticNext /\ UNCHANGED irVars
  BY <1>1, SemanticKeepsIInv
<1>2. CASE Ir
  BY <1>2, IrKeepsIInv
<1>3. CASE UNCHANGED vars
  <2>1. PICK T, h : History(T, h)
    BY DEF IInv
  <2>2. /\ phase' = phase /\ symbols' = symbols /\ ast' = ast /\ snap' = snap
        /\ ctl' = ctl /\ m_while' = m_while /\ pos' = pos /\ raws' = raws
        /\ m_returned' = m_returned /\ m_curr_end' = m_curr_end
    BY <1>3 DEF vars
  <2>3. InSemantic(T, h)' <=> InSemantic(T, h)
    BY <2>2 DEF InSemantic
  <2>4. InIr(T, h)' <=> InIr(T, h)
    BY <2>2 DEF InIr
  <2>5. AllOver' <=> AllOver
    BY <2>2 DEF AllOver
  <2>6. History(T, h)'
    BY <2>1, <2>2, <2>3, <2>4, <2>5 DEF History
  <2> QED
    BY <2>6 DEF IInv
<1> QED
  BY <1>1, <1>2, <1>3 DEF Next, Over

-----------------------------------------------------------------------------
(* What the invariant says. *)

\* The C stack of either pass is the stack of braces before a node.
Stacked(T, h, p) ==
    /\ p \in 1 .. Len(ast) + 1 /\ p \in Nat
    /\ Frames(ctl, ast, T, h[p]) /\ Shape(ast, T, p, T[p], h[p])
    /\ \A q \in 1 .. p - 1 : Good(T[q])
    /\ SymbolsOK(symbols) /\ symbols.level = T[p].level

LEMMA StackIs ==
    ASSUME NEW T, NEW h, History(T, h), phase # "done"
    PROVE  \E p : Stacked(T, h, p)
<1>1. Tree(ast, T, h) /\ Len(ast) \in Nat
  BY TreeTypes DEF History
<1>2. CASE phase \in {"semantic", "rejected"}
  <2>1. PICK p : p = Len(ast) + 1
    OBVIOUS
  <2>2. p \in 1 .. Len(ast) + 1 /\ p \in Nat /\ \A q \in 1 .. p - 1 : q \in 1 .. Len(ast) + 1
    BY <1>1, <2>1
  <2>3. symbols = T[p] /\ Frames(ctl, ast, T, h[p])
    BY <1>2, <2>1 DEF History, InSemantic, Kept
  <2>4. Good(T[p]) /\ Shape(ast, T, p, T[p], h[p]) /\ \A q \in 1 .. p - 1 : Good(T[q])
    BY <1>1, <2>2 DEF Tree
  <2> QED
    BY <2>2, <2>3, <2>4 DEF Stacked, Good
<1>3. CASE phase \in {"ir", "aborted"}
  <2>1. PICK p : p = pos
    OBVIOUS
  <2>2. PICK f : f = T[Len(ast) + 1]
    OBVIOUS
  <2>3. /\ p \in 1 .. Len(ast) /\ Together(symbols, T[p], f)
        /\ Saved(ctl, m_curr_end, ast, T, h[p])
    BY <1>3, <2>1, <2>2 DEF History, InIr
  <2>4. /\ p \in 1 .. Len(ast) + 1 /\ p \in Nat
        /\ \A q \in 1 .. p - 1 : q \in 1 .. Len(ast) + 1
    BY <1>1, <2>3
  <2>5. Good(T[p]) /\ Shape(ast, T, p, T[p], h[p]) /\ \A q \in 1 .. p - 1 : Good(T[q])
    BY <1>1, <2>4 DEF Tree
  <2>6. SymbolsOK(symbols) /\ symbols.level = T[p].level /\ Frames(ctl, ast, T, h[p])
    BY <2>3 DEF Together, Matches, Saved
  <2> QED
    BY <2>4, <2>5, <2>6 DEF Stacked
<1> QED
  BY <1>2, <1>3 DEF History

\* The frames of open blocks are of nodes that were met, and of levels below this one.
LEMMA FrameTypes ==
    ASSUME NEW T, NEW h, NEW p, Stacked(T, h, p), Len(ast) \in Nat
    PROVE  \A i \in DOMAIN ctl : /\ ctl[i].base \in 0 .. symbols.level
                                 /\ ctl[i].node \in 1 .. Len(ast)
<1>1. PICK g : g = h[p]
  OBVIOUS
<1>2. PICK s : s = T[p]
  OBVIOUS
<1>3. /\ p \in 1 .. Len(ast) + 1 /\ p \in Nat /\ Frames(ctl, ast, T, g)
      /\ Shape(ast, T, p, s, g) /\ \A q \in 1 .. p - 1 : Good(T[q])
      /\ SymbolsOK(symbols) /\ symbols.level = s.level
  BY <1>1, <1>2 DEF Stacked
<1>4. \A i \in 1 .. Len(g) :
         /\ g[i] \in 1 .. p - 1 /\ T[g[i]].level \in Nat
         /\ Block(ast, T, g[i]) \in Nat
         /\ Block(ast, T, g[i]) = T[g[i]].level + (IF i = 1 THEN 2 ELSE 1)
  BY <1>3, ShapeTypes
<1>5. IsSeq(ctl) /\ Len(ctl) = Len(g)
  BY <1>3 DEF Frames
<1>6. DOMAIN ctl = 1 .. Len(ctl)
  BY <1>5 DEF IsSeq
<1>7. symbols.level \in Int
  BY <1>3 DEF SymbolsOK
<1>8. ASSUME NEW i \in DOMAIN ctl
      PROVE  ctl[i].base \in 0 .. symbols.level /\ ctl[i].node \in 1 .. Len(ast)
  <2>1. i \in 1 .. Len(g) /\ i \in 1 .. Len(ctl)
    BY <1>5, <1>6
  <2>2. ctl[i].node = g[i] /\ ctl[i].base = T[g[i]].level
    BY <1>3, <2>1 DEF Frames, FrameOf
  <2>3. Block(ast, T, g[i]) <= s.level
    BY <1>3, <2>1 DEF Shape
  <2>4. T[g[i]].level \in 0 .. symbols.level
    <3>1. PICK v : v = T[g[i]].level
      OBVIOUS
    <3>2. PICK b : b = Block(ast, T, g[i])
      OBVIOUS
    <3>3. v \in Nat /\ b = v + (IF i = 1 THEN 2 ELSE 1) /\ b <= symbols.level
      BY <1>3, <1>4, <2>1, <2>3, <3>1, <3>2
    <3>4. v \in 0 .. symbols.level
      BY <1>7, <3>3
    <3> QED
      BY <3>1, <3>4
  <2>5. g[i] \in 1 .. Len(ast)
    BY <1>3, <1>4, <2>1
  <2> QED
    BY <2>2, <2>4, <2>5
<1> QED
  BY <1>8

LEMMA IInvTypes == IInv => TypeOK
<1> SUFFICES ASSUME IInv
             PROVE  TypeOK
  OBVIOUS
<1>1. PICK T, h : History(T, h)
  BY DEF IInv
<1>2. /\ phase \in {"semantic", "rejected", "ir", "aborted", "done"}
      /\ Tree(ast, T, h) /\ Len(snap) = Len(ast)
  BY <1>1 DEF History
<1>3. Len(ast) \in Nat
  BY <1>2, TreeTypes
<1>4. CASE phase = "done"
  <2>1. AllOver
    BY <1>1, <1>4 DEF History
  <2>2. symbols.level \in -1 .. symbols.depth - 1 /\ symbols.table \in SUBSET Item
    BY <2>1 DEF AllOver, SymbolsOK
  <2>3. DOMAIN ctl = {}
    BY <2>1 DEF AllOver
  <2>4. pos \in 1 .. Len(ast) + 1 /\ m_curr_end \in 0 .. Len(ast)
    BY <1>3, <2>1 DEF AllOver
  <2> QED
    BY <1>2, <2>1, <2>2, <2>3, <2>4 DEF TypeOK, AllOver
<1>5. CASE phase # "done"
  <2>1. PICK p : Stacked(T, h, p)
    BY <1>1, <1>5, StackIs
  <2>2. symbols.level \in -1 .. symbols.depth - 1 /\ symbols.table \in SUBSET Item
    BY <2>1 DEF Stacked, SymbolsOK
  <2>3. \A i \in DOMAIN ctl : /\ ctl[i].base \in 0 .. symbols.level
                              /\ ctl[i].node \in 1 .. Len(ast)
    BY <1>3, <2>1, FrameTypes
  <2>4. /\ pos \in 1 .. Len(ast) + 1 /\ raws \in SUBSET (0 .. symbols.count - 1)
        /\ m_while \in BOOLEAN /\ m_returned \in BOOLEAN /\ m_curr_end \in 0 .. Len(ast)
    <3>1. CASE phase \in {"semantic", "rejected"}
      <4>1. InSemantic(T, h)
        BY <1>1, <3>1 DEF History
      <4>2. /\ pos = 1 /\ m_returned = FALSE /\ m_curr_end = 0 /\ m_while \in BOOLEAN
            /\ raws \in SUBSET (0 .. symbols.count - 1)
        BY <4>1 DEF InSemantic, Kept
      <4>3. 1 \in 1 .. Len(ast) + 1 /\ 0 \in 0 .. Len(ast)
        BY <1>3
      <4> QED
        BY <4>2, <4>3
    <3>2. CASE phase \in {"ir", "aborted"}
      <4>1. InIr(T, h)
        BY <1>1, <3>2 DEF History
      <4>2. PICK g : g = h[pos]
        OBVIOUS
      <4>3. pos \in 1 .. Len(ast) /\ IsTarget(ast, g, Len(g), m_curr_end)
        BY <4>1, <4>2 DEF InIr, Saved
      <4>4. pos \in 1 .. Len(ast) + 1 /\ \A q \in 1 .. pos - 1 : q \in 0 .. Len(ast)
        BY <1>3, <4>3
      <4>5. g \in Seq(1 .. pos - 1)
        BY <1>2, <4>2, <4>4, TreeTypes
      <4>6. \A i \in 1 .. Len(g) : g[i] \in 0 .. Len(ast)
        BY <4>4, <4>5
      <4>7. m_curr_end \in 0 .. Len(ast)
        BY <1>3, <4>3, <4>6 DEF IsTarget
      <4> QED
        BY <4>1, <4>4, <4>7 DEF InIr
    <3> QED
      BY <1>2, <1>5, <3>1, <3>2
  <2> QED
    BY <1>2, <2>2, <2>3, <2>4 DEF TypeOK
<1> QED
  BY <1>4, <1>5

LEMMA IInvPath == IInv => SamePath
<1> SUFFICES ASSUME IInv, phase = "ir"
             PROVE  Path(symbols) = Path(snap[pos])
  BY DEF SamePath
<1>1. PICK T, h : History(T, h)
  BY DEF IInv
<1>2. PICK f : f = T[Len(ast) + 1]
  OBVIOUS
<1>3. PICK t : t = T[pos]
  OBVIOUS
<1>4. pos \in 1 .. Len(ast) /\ Together(symbols, t, f)
  BY <1>1, <1>2, <1>3 DEF History, InIr
<1>5. snap[pos] = t
  BY <1>1, <1>3, <1>4 DEF History
<1>6. symbols.level = t.level
  BY <1>4 DEF Together, Matches
<1>7. ASSUME NEW l \in 0 .. symbols.level
      PROVE  symbols.levels[l].scope = t.levels[l].scope
  <2>1. /\ symbols.levels[l].scope = symbols.levels[l].begin
        /\ symbols.levels[l].begin = t.levels[l].end - 1
        /\ t.levels[l].scope = t.levels[l].end - 1
    BY <1>4, OpenScopes
  <2> QED
    BY <2>1
<1> QED
  BY <1>5, <1>6, <1>7 DEF Path

LEMMA IInvFreed == IInv => AllFreed
<1> SUFFICES ASSUME IInv, phase = "done"
             PROVE  /\ symbols.table = {}
                    /\ symbols.level = -1
                    /\ \A l \in DOMAIN symbols.levels : symbols.levels[l].mem = "freed"
  BY DEF AllFreed
<1>1. AllOver
  BY DEF IInv, History
<1>2. DOMAIN symbols.levels = 0 .. symbols.depth - 1
  BY <1>1 DEF AllOver, SymbolsOK
<1> QED
  BY <1>1, <1>2 DEF AllOver

LEMMA IInvBreak == IInv => BreakTarget
<1> SUFFICES ASSUME IInv, phase = "ir", Node.kind = "break"
             PROVE  /\ Loops # {}
                    /\ m_curr_end = ctl[CHOOSE i \in Loops : \A j \in Loops : j <= i].node
  BY DEF BreakTarget
<1>1. PICK T, h : History(T, h)
  BY DEF IInv
<1>2. PICK g : g = h[pos]
  OBVIOUS
<1>3. pos \in 1 .. Len(ast) /\ Saved(ctl, m_curr_end, ast, T, g) /\ Tree(ast, T, h)
  BY <1>1, <1>2 DEF History, InIr
<1>4. LoopIn(ast, g, Len(g))
  BY <1>2, <1>3 DEF Tree, Node
<1>5. Frames(ctl, ast, T, g) /\ IsTarget(ast, g, Len(g), m_curr_end)
  BY <1>3 DEF Saved
<1>6. IsSeq(ctl) /\ Len(ctl) = Len(g) /\ \A i \in 1 .. Len(g) : ctl[i].node = g[i]
  BY <1>5 DEF Frames, FrameOf
<1>7. DOMAIN ctl = 1 .. Len(g) /\ Len(g) \in Nat
  BY <1>6 DEF IsSeq
<1>8. PICK i \in 1 .. Len(g) :
         /\ m_curr_end = g[i] /\ ast[g[i]].kind = "open" /\ ast[g[i]].loop
         /\ \A j \in i + 1 .. Len(g) : ~(ast[g[j]].kind = "open" /\ ast[g[j]].loop)
  BY <1>4, <1>5 DEF IsTarget
<1>9. i \in Loops
  BY <1>6, <1>7, <1>8 DEF Loops
<1>10. ASSUME NEW j \in Loops
       PROVE  j <= i
  <2>1. j \in 1 .. Len(g) /\ ast[g[j]].kind = "open" /\ ast[g[j]].loop
    BY <1>6, <1>7 DEF Loops
  <2> QED
    BY <1>7, <1>8, <2>1
<1>11. Loops \subseteq Nat
  BY <1>7 DEF Loops
<1> HIDE DEF Loops
<1>12. \A k \in Loops : (\A j \in Loops : j <= k) => k = i
  <2>1. ASSUME NEW k \in Loops, \A j \in Loops : j <= k
        PROVE  k = i
    <3>1. k <= i /\ i <= k /\ k \in Nat /\ i \in Nat
      BY <1>9, <1>10, <1>11, <2>1
    <3> QED
      BY <3>1
  <2> QED
    BY <2>1
<1>13. (CHOOSE k \in Loops : \A j \in Loops : j <= k) = i
  BY <1>9, <1>10, <1>12
<1> QED
  BY <1>6, <1>8, <1>9, <1>13

\* Only a closing brace shortens the C stack.
LEMMA OnlyCloseShrinks ==
    ASSUME NEW T, NEW h, History(T, h), Next, Len(ctl') < Len(ctl)
    PROVE  (phase = "semantic" /\ Close) \/ IrClose
<1>1. phase # "done"
  <2>1. ASSUME phase = "done"
        PROVE  FALSE
    <3>1. Over
      BY <2>1 DEF Next, SemanticNext, Ir, IrFuncDef, IrDecl, IrOpen, IrClose, IrUse,
                  IrAssign, IrCall, IrReturn, IrBreak, IrSkip, IrEnd, At
    <3>2. AllOver /\ ctl' = ctl
      BY <2>1, <3>1 DEF History, Over, vars
    <3> QED
      BY <3>2 DEF AllOver
  <2> QED
    BY <2>1
<1>2. PICK p : Stacked(T, h, p)
  BY <1>1, StackIs
<1>3. IsSeq(ctl) /\ Len(ctl) \in Nat
  BY <1>2 DEF Stacked, Frames, IsSeq
<1>4. ctl' # ctl
  BY <1>3
<1>5. \A f : ctl' # Append(ctl, f)
  <2>1. ASSUME NEW f, ctl' = Append(ctl, f)
        PROVE  FALSE
    <3>1. Pushed(ctl', ctl, f)
      BY <2>1 DEF Pushed
    <3>2. Len(ctl') = Len(ctl) + 1
      BY <1>3, <3>1, AppendIs
    <3> QED
      BY <1>3, <3>2
  <2> QED
    BY <2>1
<1>6. ASSUME NEW direct, Return(direct)
      PROVE  FALSE
  <2>1. PICK k : k = Len(ctl)
    OBVIOUS
  <2>2. PICK x : x = [ctl[k] EXCEPT !.dead = @ \/ direct]
    OBVIOUS
  <2>3. ctl # <<>> /\ Updated(ctl', ctl, k, x)
    BY <1>6, <2>1, <2>2 DEF Return, InFunction, Updated
  <2>4. k \in 1 .. Len(ctl)
    BY <1>3, <2>1, <2>3 DEF IsSeq
  <2>5. Len(ctl') = Len(ctl)
    BY <1>3, <2>3, <2>4, ExceptIs
  <2> QED
    BY <1>3, <2>5
<1>7. ASSUME SemanticNext
      PROVE  phase = "semantic" /\ Close
  <2>1. phase = "semantic"
    BY <1>7 DEF SemanticNext
  <2>2. CASE Close
    BY <2>1, <2>2
  <2>3. CASE \E name \in Name, params \in Params : FuncDef(name, params)
    BY <1>4, <1>5, <2>3 DEF FuncDef, Error
  <2>4. CASE \E tag \in Tags, defs \in Defs : Decl(tag, defs)
    BY <1>4, <2>4 DEF Decl, Error
  <2>5. CASE \E loop \in {FALSE, TRUE} : Open(loop)
    BY <1>5, <2>5 DEF Open
  <2>6. CASE \/ \E value \in Name \cup Shifts : Use(value)
             \/ \E name \in Name, value \in Inits : Assign(name, value)
             \/ \E name \in Name : Call(name)
             \/ Break
             \/ EndOfFile
    BY <1>4, <2>6 DEF Use, Assign, Call, Break, EndOfFile, Error
  <2>7. CASE \E direct \in BOOLEAN : Return(direct)
    BY <1>6, <2>7
  <2> QED
    BY <1>7, <2>2, <2>3, <2>4, <2>5, <2>6, <2>7 DEF SemanticNext
<1>8. ASSUME NEW why, Abort(why)
      PROVE  FALSE
  BY <1>4, <1>8 DEF Abort
<1>9. ASSUME Ir
      PROVE  IrClose
  <2>1. CASE IrFuncDef
    BY <1>5, <1>8, <2>1 DEF IrFuncDef
  <2>2. CASE IrDecl
    BY <1>4, <1>8, <2>2 DEF IrDecl, Steady
  <2>3. CASE IrOpen
    BY <1>5, <1>8, <2>3 DEF IrOpen
  <2>4. CASE IrUse \/ IrAssign \/ IrCall \/ IrReturn \/ IrBreak
    BY <1>4, <1>8, <2>4 DEF IrUse, IrAssign, IrCall, IrReturn, IrBreak, Steady
  <2>5. CASE IrSkip \/ IrEnd
    BY <1>4, <1>8, <2>5 DEF IrSkip, IrEnd
  <2> QED
    BY <1>9, <2>1, <2>2, <2>3, <2>4, <2>5 DEF Ir
<1>10. ~Over
  BY <1>4 DEF Over, vars
<1> QED
  BY <1>7, <1>9, <1>10 DEF Next

LEMMA CloseRestores ==
    ASSUME IInv, Next, Len(ctl') < Len(ctl)
    PROVE  symbols'.level = Top.base
<1>1. PICK T, h : History(T, h)
  BY DEF IInv
<1>2. CASE phase = "semantic" /\ Close
  <2>1. PICK n : n = Len(ast) + 1
    OBVIOUS
  <2>2. PICK e : e = h[n]
    OBVIOUS
  <2>3. PICK s : s = symbols
    OBVIOUS
  <2>4. ctl # <<>>
    BY <1>2 DEF Close, InFunction
  <2>5. /\ Tree(ast, T, h) /\ n \in Nat /\ n \in 1 .. Len(ast) + 1
        /\ s = T[n] /\ Good(s) /\ Kept(ctl, m_while, ast, T, h, e) /\ IsSeq(e) /\ e # <<>>
        /\ \A q \in 1 .. n - 1 : q \in 1 .. Len(ast) + 1
    <3>1. n \in Nat \ {0} /\ Len(ast) = n - 1
      BY <1>1, <1>2, <2>1, InFirstPass
    <3>2. /\ Tree(ast, T, h) /\ s = T[n] /\ Good(s) /\ Kept(ctl, m_while, ast, T, h, e)
          /\ IsSeq(e) /\ e # <<>>
      BY <1>1, <1>2, <2>1, <2>2, <2>3, <2>4, InFirstPass
    <3> QED
      BY <3>1, <3>2
  <2>6. /\ Shape(ast, T, n, s, e) /\ Frames(ctl, ast, T, e)
        /\ \A q \in 1 .. n - 1 : Good(T[q])
    BY <2>2, <2>5 DEF Tree, Kept
  <2>7. (Top.kind = "func" <=> Len(e) = 1) /\ Top.base = T[e[Len(e)]].level
    BY <2>5, <2>6, TopIs DEF Top
  <2>8. symbols' = IF Len(e) = 1 THEN symbols_leave(symbols_leave(s)) ELSE symbols_leave(s)
    BY <1>2, <2>3, <2>7 DEF Close, Meet
  <2>9. PICK t : t = IF Len(e) = 1 THEN symbols_leave(symbols_leave(s)) ELSE symbols_leave(s)
    OBVIOUS
  <2>10. t.level = T[e[Len(e)]].level
    BY <2>5, <2>6, <2>9, CloseTable
  <2> QED
    BY <2>7, <2>8, <2>9, <2>10
<1>3. CASE IrClose
  <2>1. phase = "ir" /\ ast[pos].kind = "close"
    BY <1>3 DEF IrClose, At
  <2>2. PICK p : p = pos
    OBVIOUS
  <2>3. PICK f : f = T[Len(ast) + 1]
    OBVIOUS
  <2>4. PICK u : u = symbols_dedent(symbols)
    OBVIOUS
  <2>5. PICK w : w = IF Top.kind = "func" THEN symbols_dedent(u) ELSE u
    OBVIOUS
  <2>6. w.level = Top.base
    BY <1>1, <2>1, <2>2, <2>3, <2>4, <2>5, IrCloses
  <2>7. (\E why : Abort(why)) \/ symbols' = w
    BY <1>3, <2>4, <2>5 DEF IrClose, Return2
  <2>8. ASSUME NEW why, Abort(why)
        PROVE  FALSE
    <3>1. ctl' = ctl /\ phase # "done"
      BY <2>1, <2>8 DEF Abort
    <3>2. PICK q : Stacked(T, h, q)
      BY <1>1, <3>1, StackIs
    <3>3. Len(ctl) \in Nat
      BY <3>2 DEF Stacked, Frames, IsSeq
    <3> QED
      BY <3>1, <3>3
  <2> QED
    BY <2>6, <2>7, <2>8
<1> QED
  BY <1>1, <1>2, <1>3, OnlyCloseShrinks

-----------------------------------------------------------------------------
(* The theorems.  The one assumption is about the programs: none of them has a *)
(* block or a declaration after the return of its block, see Doubtful.  With   *)
(* one, the run DeadScope shows, the passes get out of step.                   *)

\* The types of the state of both passes, for every program: the C stack has one
\* frame per open brace, of a node met before and a level not above the current
\* one, and a loop's end is a node.
THEOREM TypeCorrect ==
    ASSUME "dead_scope" \notin Admit
    PROVE  Spec => []TypeOK
<1>1. IInv /\ [Next]_vars => IInv'
  BY NextKeepsIInv
<1> QED
  BY <1>1, InitIInv, IInvTypes, PTL DEF Spec

\* At every node of every program the second pass, symbols_enter and symbols_dedent
\* under ir.c, has the same scopes open as semantic.c had there with symbols_indent
\* and symbols_leave, though it does not visit dead code.
THEOREM PathIsSame ==
    ASSUME "dead_scope" \notin Admit
    PROVE  Spec => []SamePath
<1>1. IInv /\ [Next]_vars => IInv'
  BY NextKeepsIInv
<1> QED
  BY <1>1, InitIInv, IInvPath, PTL DEF Spec

\* A break is translated to a jump out of the loop that was around it in the tree:
\* the list m_curr_end (ir.c) is that of the innermost loop open, however many
\* blocks were opened and closed, and skipped, in between.
THEOREM BreakLeavesItsLoop ==
    ASSUME "dead_scope" \notin Admit
    PROVE  Spec => []BreakTarget
<1>1. IInv /\ [Next]_vars => IInv'
  BY NextKeepsIInv
<1> QED
  BY <1>1, InitIInv, IInvBreak, PTL DEF Spec

\* After a translation the table is empty and every level of it freed.
THEOREM EverythingFreed ==
    ASSUME "dead_scope" \notin Admit
    PROVE  Spec => []AllFreed
<1>1. IInv /\ [Next]_vars => IInv'
  BY NextKeepsIInv
<1> QED
  BY <1>1, InitIInv, IInvFreed, PTL DEF Spec

\* In either pass the brace that closes a block or a function brings the level back
\* to what it was at the brace that opened it, although symbols_leave and
\* symbols_dedent find it by the emptiness of scopes alone.
THEOREM BlocksRestore ==
    ASSUME "dead_scope" \notin Admit
    PROVE  Spec => BlockRestores
<1>1. IInv /\ [Next]_vars => IInv'
  BY NextKeepsIInv
<1>2. IInv /\ [Next]_vars => [Len(ctl') < Len(ctl) => symbols'.level = Top.base]_vars
  BY CloseRestores
<1> QED
  BY <1>1, <1>2, InitIInv, PTL DEF Spec, BlockRestores
-----------------------------------------------------------------------------
(* The names. *)

\* The symbols that the open scopes link.
InView(s) == UNION {Link(s, l) : l \in 0 .. s.level}

\* A global is older than all that has its name, and alone in its scope with it.
Elders(s) == \A x, y \in s.table : y.level = 0 /\ x.key = y.key /\ x.id <= y.id => x = y

\* Between s and t nothing was added to a scope of a function that s has.
Fixed(s, t) ==
    /\ s.depth <= t.depth
    /\ \A l \in 1 .. s.depth - 1 :
          /\ s.levels[l].end <= t.levels[l].end
          /\ \A k \in 0 .. s.levels[l].end - 1 :
                t.levels[l].scopes[k] = s.levels[l].scopes[k]

\* Every variable and function in view has its raw.
Ready(s, r) == \A item \in InView(s) : item.tag # "CONSTANT" => item.id \in r

\* The last table of the first pass.
Final == IF phase \in {"semantic", "rejected"} THEN symbols ELSE snap[Len(snap)]

Bindings ==
    /\ Elders(Final)
    /\ \A p \in 1 .. Len(snap) : Fixed(snap[p], Final)
    /\ phase \in {"semantic", "rejected"} => Ready(AddLib(symbols_new), raws)
    /\ phase = "ir" => Ready(snap[pos], raws)

\* What the first pass has checked of a definition of the list defs, where s is the
\* table before the list.
GoodDef(s, defs, i) ==
    LET after == AddAll(s, NamesOf(SubSeq(defs, 1, i)), "VARIABLE")
        init  == defs[i].init
    IN  /\ init \in Name \cup {NoName}
        /\ GoodValue(after, init)
        /\ s.level = 0 => ~Appends(after, init)
        /\ \A j \in i + 1 .. Len(defs) : defs[j].name # init

\* What it has checked of a node, met with the table s.
Accepted(node, s) ==
    /\ node.kind = "use" => /\ node.value \in Name
                            /\ Denotes(s, node.value, {"VARIABLE", "CONSTANT"})
    /\ node.kind = "assign" => /\ Denotes(s, node.name, {"VARIABLE"})
                               /\ node.value \in Name \cup {NoName}
                               /\ GoodValue(s, node.value)
    /\ node.kind = "call" => Denotes(s, node.name, {"FUNCTION"})
    /\ node.kind = "decl" /\ node.tag = "VARIABLE" =>
          \A i \in DOMAIN node.defs :
             GoodDef(IF s.level > 0 THEN symbols_indent(s) ELSE s, node.defs, i)

Clean ==
    /\ phase # "aborted"
    /\ \A p \in 1 .. Len(ast) : Accepted(ast[p], snap[p])

-----------------------------------------------------------------------------
(* What is in view. *)

\* The scopes that are open are scopes of their queues.
InRange(s) == \A l \in 0 .. s.level :
                 /\ l \in 0 .. s.depth - 1
                 /\ s.levels[l].scope \in s.levels[l].begin .. s.levels[l].end - 1

\* What symbols_saw accepts is what the open scopes link.
LEMMA ViewIsSeen ==
    ASSUME NEW s, SymbolsOK(s), CoherentTable(s), InRange(s), NEW key
    PROVE  Seen(s, key) = {item \in InView(s) : item.key = key}
<1>1. \A item : item \in Visible(s) <=> \E l \in 0 .. s.level :
                   item \in s.levels[l].scopes[s.levels[l].scope]
  BY VisibleIsOpen DEF InRange
<1>2. \A item : item \in InView(s) <=> \E l \in 0 .. s.level :
                   item \in s.levels[l].scopes[s.levels[l].scope]
  BY DEF InView, Link
<1>3. Seen(s, key) = {item \in Visible(s) : item.key = key}
  BY DEF Seen, symbols_lookup, Visible
<1> HIDE DEF Seen, Visible, InView
<1> QED
  BY <1>1, <1>2, <1>3

\* An item in view is in the table, stamped with its level and its scope.
LEMMA ViewStamped ==
    ASSUME NEW s, SymbolsOK(s), CoherentTable(s), InRange(s),
           NEW l \in 0 .. s.level, NEW item \in Link(s, l)
    PROVE  /\ item \in s.table /\ item \in InView(s)
           /\ item.level = l /\ item.scope = s.levels[l].scope
<1>1. PICK k : k = s.levels[l].scope
  OBVIOUS
<1>2. /\ l \in 0 .. s.depth - 1 /\ k \in s.levels[l].begin .. s.levels[l].end - 1
      /\ item \in s.levels[l].scopes[k]
  BY <1>1 DEF InRange, Link
<1>3. k \in 0 .. s.levels[l].end - 1
  BY <1>2, QueueTypes
<1>4. item.level = l /\ item.scope = k
  BY <1>2, <1>3 DEF CoherentTable, Stamped
<1>5. Held(s, item)
  BY <1>2 DEF Held
<1>6. item \in s.table
  BY <1>5 DEF CoherentTable
<1> QED
  BY <1>1, <1>4, <1>6 DEF InView

LEMMA GoodInRange ==
    ASSUME NEW s, Good(s)
    PROVE  SymbolsOK(s) /\ CoherentTable(s) /\ InRange(s) /\ Counted(s)
<1>1. SymbolsOK(s) /\ CoherentTable(s)
  BY DEF Good
<1>2. InRange(s)
  <2>1. \A l \in 0 .. s.level : l \in 0 .. s.depth - 1
    BY GoodTypes
  <2> QED
    BY <2>1, GoodTypes DEF InRange
<1>3. Counted(s)
  BY GoodTypes, TableIds DEF Counted
<1> QED
  BY <1>1, <1>2, <1>3

LEMMA ReachedInRange ==
    ASSUME NEW u, NEW t, NEW f, Reached(u, t, f), Good(t), Good(f), Later(t, f)
    PROVE  SymbolsOK(u) /\ CoherentTable(u) /\ InRange(u) /\ Counted(u)
<1>1. SymbolsOK(u) /\ CoherentTable(u)
  BY DEF Reached
<1>2. Together(u, t, f)
  BY ReachedTogether
<1>3. Grows(t, f)
  BY DEF Later
<1>4. InRange(u)
  BY <1>2, <1>3, OpenScopeLinks DEF InRange
<1>5. Counted(u)
  BY ReachedCounted
<1> QED
  BY <1>1, <1>4, <1>5

\* The first pass takes nothing out of the table.
LEMMA TableGrows ==
    ASSUME NEW s, NEW t, Good(s), Good(t), Later(s, t)
    PROVE  s.table \subseteq t.table
<1>1. ASSUME NEW item \in s.table
      PROVE  item \in t.table
  <2>1. CoherentTable(s) /\ CoherentTable(t) /\ Grows(s, t)
    BY DEF Good, Later
  <2>2. PICK l \in 0 .. s.depth - 1 : \E k \in s.levels[l].begin .. s.levels[l].end - 1 :
           item \in s.levels[l].scopes[k]
    BY <2>1 DEF CoherentTable, Held
  <2>3. PICK k \in s.levels[l].begin .. s.levels[l].end - 1 : item \in s.levels[l].scopes[k]
    BY <2>2
  <2>4. /\ s.depth \in Nat /\ t.depth \in Nat /\ s.depth <= t.depth
        /\ s.levels[l].end \in Nat /\ s.levels[l].end <= t.levels[l].end
        /\ l \in 0 .. t.depth - 1 /\ k \in 0 .. s.levels[l].end - 1
    <3>1. s.depth \in Nat /\ t.depth \in Nat /\ s.depth <= t.depth
      BY <2>1, GoodTypes DEF Grows
    <3> QED
      BY <2>1, <3>1, GoodTypes DEF Grows
  <2>5. item \in t.levels[l].scopes[k]
    BY <2>1, <2>3, <2>4 DEF Grows
  <2>6. k \in t.levels[l].begin .. t.levels[l].end - 1
    <3>1. t.levels[l].begin = 0 /\ t.levels[l].end \in Nat
      BY <2>4, GoodTypes
    <3> QED
      BY <2>4, <3>1
  <2>7. Held(t, item)
    BY <2>4, <2>5, <2>6 DEF Held
  <2> QED
    BY <2>1, <2>7 DEF CoherentTable
<1> QED
  BY <1>1

\* The second pass has in view what the first one had, and globals defined later.
LEMMA ViewGrows ==
    ASSUME NEW u, NEW t, NEW f, Reached(u, t, f), Good(t), Good(f), Later(t, f), Fixed(t, f)
    PROVE  /\ InView(t) \subseteq InView(u)
           /\ \A item \in InView(u) : \/ item \in InView(t)
                                      \/ /\ item \in f.table /\ item.level = 0
                                         /\ item.id >= t.count
<1>1. Together(u, t, f) /\ u.level = t.level /\ Grows(t, f)
  BY ReachedTogether DEF Later
<1>2. ASSUME NEW l \in 0 .. u.level
      PROVE  /\ l \in 0 .. t.depth - 1 /\ l \in 0 .. f.depth - 1
             /\ t.levels[l].scope \in 0 .. t.levels[l].end - 1
             /\ t.levels[l].scope \in 0 .. f.levels[l].end - 1
             /\ Link(u, l) = f.levels[l].scopes[t.levels[l].scope]
             /\ Link(t, l) = {item \in Link(u, l) : item.id < t.count}
  <2>1. /\ l \in 0 .. u.depth - 1 /\ l \in 0 .. t.depth - 1
        /\ u.levels[l].scope = t.levels[l].scope
        /\ u.levels[l].scopes = f.levels[l].scopes
        /\ t.levels[l].scopes[t.levels[l].scope] =
              {item \in u.levels[l].scopes[u.levels[l].scope] : item.id < t.count}
    BY <1>1, OpenScopeLinks
  <2>2. u.depth = f.depth
    BY DEF Reached, Matches
  <2>3. t.levels[l].scope \in 0 .. t.levels[l].end - 1 /\ t.levels[l].end \in Nat
    BY <2>1, GoodTypes
  <2>4. t.levels[l].end <= f.levels[l].end /\ f.levels[l].end \in Nat
    BY <1>1, <2>1, <2>2, GoodTypes DEF Grows
  <2> QED
    BY <2>1, <2>2, <2>3, <2>4 DEF Link
<1>3. InView(t) \subseteq InView(u)
  BY <1>1, <1>2 DEF InView
<1>4. ASSUME NEW item \in InView(u), item \notin InView(t)
      PROVE  item \in f.table /\ item.level = 0 /\ item.id >= t.count
  <2>1. PICK l \in 0 .. u.level : item \in Link(u, l)
    BY DEF InView
  <2>2. item \notin Link(t, l)
    BY <1>1, <1>4 DEF InView
  <2>3. PICK k : k = t.levels[l].scope
    OBVIOUS
  <2>4. item \in f.levels[l].scopes[k] /\ k \in 0 .. f.levels[l].end - 1 /\ l \in 0 .. f.depth - 1
    BY <1>2, <2>1, <2>3
  <2>5. CoherentTable(f) /\ SymbolsOK(f) /\ f.levels[l].begin = 0
    BY <2>4, GoodTypes DEF Good
  <2>6. Held(f, item)
    BY <2>4, <2>5 DEF Held
  <2>7. item \in f.table /\ item.level = l
    BY <2>4, <2>5, <2>6 DEF CoherentTable, Stamped
  <2>8. l = 0
    <3>1. ASSUME l # 0
          PROVE  FALSE
      <4>1. l \in 1 .. t.depth - 1 /\ k \in 0 .. t.levels[l].end - 1
        BY <1>2, <2>3, <3>1
      <4>2. t.levels[l].scopes[k] = f.levels[l].scopes[k]
        BY <4>1 DEF Fixed
      <4> QED
        BY <2>2, <2>3, <2>4, <4>2 DEF Link
    <3> QED
      BY <3>1
  <2>9. item.id >= t.count
    <3>1. ~(item.id < t.count)
      BY <1>2, <2>1, <2>2
    <3>2. item.id \in Nat /\ t.count \in Nat
      BY <2>5, <2>7, GoodTypes DEF SymbolsOK, Item
    <3> QED
      BY <3>1, <3>2
  <2> QED
    BY <2>7, <2>8, <2>9
<1> QED
  BY <1>3, <1>4

\* A name that means something to the first pass means the same to the second.
LEMMA SameView ==
    ASSUME NEW u, NEW t, NEW f, Reached(u, t, f), Good(t), Good(f), Later(t, f), Fixed(t, f),
           Elders(f), NEW key, Seen(t, key) # {}
    PROVE  Seen(u, key) = Seen(t, key)
<1>1. /\ Seen(t, key) = {item \in InView(t) : item.key = key}
      /\ Seen(u, key) = {item \in InView(u) : item.key = key}
  BY ViewIsSeen, GoodInRange, ReachedInRange
<1>2. PICK x \in t.table : x.key = key
  BY DEF Seen, symbols_lookup
<1>3. x \in f.table /\ x.id \in Nat /\ x.id < t.count /\ t.count \in Nat
  BY TableGrows, TableIds, GoodTypes
<1>4. ASSUME NEW item \in InView(u), item.key = key, item \notin InView(t)
      PROVE  FALSE
  <2>1. item \in f.table /\ item.level = 0 /\ item.id >= t.count
    BY <1>4, ViewGrows
  <2>2. item.id \in Nat
    BY <2>1 DEF Good, SymbolsOK, Item
  <2>3. x.id <= item.id /\ x.id # item.id
    BY <1>3, <2>1, <2>2
  <2>4. x = item
    BY <1>2, <1>3, <1>4, <2>1, <2>3 DEF Elders
  <2> QED
    BY <2>3, <2>4
<1>5. InView(t) \subseteq InView(u)
  BY ViewGrows
<1> HIDE DEF Seen, InView
<1> QED
  BY <1>1, <1>4, <1>5

LEMMA SameGet ==
    ASSUME NEW u, NEW t, NEW f, Reached(u, t, f), Good(t), Good(f), Later(t, f), Fixed(t, f),
           Elders(f), NEW key, Seen(t, key) # {}
    PROVE  symbols_get(u, key) = symbols_get(t, key)
<1>1. Seen(u, key) = Seen(t, key)
  BY SameView
<1> HIDE DEF Seen
<1> QED
  BY <1>1 DEF symbols_get

\* What a name means is in view.
LEMMA GetInView ==
    ASSUME NEW t, Good(t), NEW key, NEW item, item = symbols_get(t, key), item # NoSym
    PROVE  item \in InView(t) /\ item.key = key /\ Seen(t, key) # {}
<1>1. Counted(t) /\ SymbolsOK(t) /\ CoherentTable(t) /\ InRange(t)
  BY GoodInRange
<1>2. item \in t.table /\ item.key = key /\ symbols_saw(t, item)
  BY <1>1, GetFinds
<1>3. item \in Seen(t, key)
  BY <1>2 DEF Seen, symbols_lookup
<1>4. Seen(t, key) = {x \in InView(t) : x.key = key}
  BY <1>1, ViewIsSeen
<1> HIDE DEF Seen, InView
<1> QED
  BY <1>2, <1>3, <1>4

\* LVal finds what it looks for.
LEMMA LValFinds ==
    ASSUME NEW u, NEW r, NEW key, NEW item, item = symbols_get(u, key), item # NoSym,
           item.tag \in {"VARIABLE", "CONSTANT"}, item.tag # "CONSTANT" => item.id \in r
    PROVE  LValFault(u, r, key) = "none"
BY DEF LValFault
-----------------------------------------------------------------------------
(* What the first pass adds. *)

LEMMA NewIs ==
    ASSUME NEW s, Good(s), NEW key \in Name, NEW tag \in Tag,
           NEW t, t = symbols_add(s, key, tag), NEW y, y = NewItem(s, key, tag)
    PROVE  /\ y.id = s.count /\ y.key = key /\ y.level = s.level /\ y.tag = tag
           /\ y \in Link(t, t.level) /\ y \in InView(t) /\ y \in t.table
           /\ t.table = s.table \cup {y} /\ t.level = s.level
           /\ Link(t, s.level) = Link(s, s.level) \cup {y}
<1>1. y.id = s.count /\ y.key = key /\ y.level = s.level /\ y.tag = tag
  BY DEF NewItem, symbols_level
<1>2. /\ Good(t) /\ t.level = s.level /\ t.table = s.table \cup {NewItem(s, key, tag)}
      /\ Link(t, s.level) = Link(s, s.level) \cup {NewItem(s, key, tag)}
  BY GoodAdd
<1>3. s.level \in 0 .. t.level
  BY <1>2, GoodTypes
<1> QED
  BY <1>1, <1>2, <1>3 DEF InView

\* A symbol just added is the one its name means.
LEMMA NewIsFound ==
    ASSUME NEW s, Good(s), NEW key \in Name, NEW tag \in Tag,
           NEW t, t = symbols_add(s, key, tag), NEW y, y = NewItem(s, key, tag)
    PROVE  Seen(t, key) # {} /\ symbols_get(t, key) = y
<1>1. /\ y.id = s.count /\ y.key = key /\ y \in InView(t) /\ t.table = s.table \cup {y}
  BY NewIs
<1>2. Good(t) /\ s.count \in Nat
  BY GoodAdd, GoodTypes
<1>3. Seen(t, key) = {x \in InView(t) : x.key = key} /\ Seen(t, key) \subseteq t.table
  BY <1>2, GoodInRange, ViewIsSeen DEF Seen, symbols_lookup
<1>4. PICK S : S = Seen(t, key)
  OBVIOUS
<1>5. y \in S
  BY <1>1, <1>3, <1>4
<1>6. \A x \in S : x.id <= y.id /\ (x.id = y.id => x = y)
  <2>1. ASSUME NEW x \in s.table
        PROVE  x.id <= y.id /\ x.id # y.id
    <3>1. x.id \in 0 .. s.count - 1
      BY TableIds
    <3> QED
      BY <1>1, <1>2, <3>1
  <2>2. y.id <= y.id
    BY <1>1, <1>2
  <2> QED
    BY <1>1, <1>3, <1>4, <2>1, <2>2
<1>7. \A x \in S : (\A z \in S : z.id <= x.id) => x = y
  <2>1. ASSUME NEW x \in S, \A z \in S : z.id <= x.id
        PROVE  x = y
    <3>1. y.id <= x.id /\ x.id <= y.id /\ x.id \in Nat /\ y.id \in Nat
      <4>1. x.id \in Nat
        BY <1>2, <1>3, <1>4, TableIds
      <4> QED
        BY <1>1, <1>2, <1>5, <1>6, <2>1, <4>1
    <3>2. x.id = y.id
      BY <3>1
    <3> QED
      BY <1>6, <3>2
  <2> QED
    BY <2>1
<1>8. Newest(S) = y
  BY <1>5, <1>6, <1>7 DEF Newest
<1> HIDE DEF Seen
<1> QED
  BY <1>4, <1>5, <1>8 DEF symbols_get

\* A new symbol is younger than all others; a new global has a name of its own.
LEMMA AddElders ==
    ASSUME NEW s, Good(s), Elders(s), NEW key \in Name, NEW tag \in Tag,
           s.level > 0 \/ \A x \in s.table : x.key # key,
           NEW t, t = symbols_add(s, key, tag)
    PROVE  Elders(t)
<1>1. PICK y : y = NewItem(s, key, tag)
  OBVIOUS
<1>2. y.id = s.count /\ y.key = key /\ y.level = s.level /\ t.table = s.table \cup {y}
  BY <1>1, NewIs
<1>3. s.count \in Nat /\ s.level \in Nat /\ \A x \in s.table : x.id \in 0 .. s.count - 1
  BY GoodTypes, TableIds
<1>4. ASSUME NEW x \in t.table, NEW z \in t.table, z.level = 0, x.key = z.key, x.id <= z.id
      PROVE  x = z
  <2>1. CASE x \in s.table /\ z \in s.table
    BY <1>4, <2>1 DEF Elders
  <2>2. CASE x = y /\ z \in s.table
    BY <1>2, <1>3, <1>4, <2>2
  <2>3. CASE x \in s.table /\ z = y
    BY <1>2, <1>3, <1>4, <2>3
  <2> QED
    BY <1>2, <2>1, <2>2, <2>3
<1> QED
  BY <1>4 DEF Elders

\* Between r and s nothing was added to the scopes of functions that r has, and
\* the current scope of s is not one of them.
Apart(r, s) ==
    /\ Fixed(r, s)
    /\ s.level > 0 /\ s.level < r.depth => r.levels[s.level].end <= s.levels[s.level].scope

LEMMA FixedItself ==
    ASSUME NEW s, Good(s)
    PROVE  Fixed(s, s)
<1>1. \A l \in 1 .. s.depth - 1 : l \in 0 .. s.depth - 1
  BY GoodTypes
<1> QED
  BY <1>1, GoodTypes DEF Fixed

LEMMA FixedTransitive ==
    ASSUME NEW r, NEW s, NEW t, Good(r), Good(s), Good(t), Fixed(r, s), Fixed(s, t)
    PROVE  Fixed(r, t)
<1>1. /\ r.depth \in Nat /\ s.depth \in Nat /\ t.depth \in Nat
      /\ r.depth <= s.depth /\ s.depth <= t.depth
  BY GoodTypes DEF Fixed
<1>2. ASSUME NEW l \in 1 .. r.depth - 1
      PROVE  /\ r.levels[l].end <= t.levels[l].end
             /\ \A k \in 0 .. r.levels[l].end - 1 : t.levels[l].scopes[k] = r.levels[l].scopes[k]
  <2>1. /\ l \in 1 .. s.depth - 1 /\ l \in 0 .. r.depth - 1 /\ l \in 0 .. s.depth - 1
        /\ l \in 0 .. t.depth - 1
    BY <1>1
  <2>2. r.levels[l].end \in Nat /\ s.levels[l].end \in Nat /\ t.levels[l].end \in Nat
    BY <2>1, GoodTypes
  <2>3. /\ r.levels[l].end <= s.levels[l].end /\ s.levels[l].end <= t.levels[l].end
        /\ \A k \in 0 .. r.levels[l].end - 1 : s.levels[l].scopes[k] = r.levels[l].scopes[k]
        /\ \A k \in 0 .. s.levels[l].end - 1 : t.levels[l].scopes[k] = s.levels[l].scopes[k]
    BY <2>1 DEF Fixed
  <2>4. \A k \in 0 .. r.levels[l].end - 1 : k \in 0 .. s.levels[l].end - 1
    BY <2>2, <2>3
  <2> QED
    BY <2>2, <2>3, <2>4
<1> QED
  BY <1>1, <1>2 DEF Fixed

LEMMA FixedIndent ==
    ASSUME NEW s, Good(s), NEW t, t = symbols_indent(s)
    PROVE  Apart(s, t)
<1>1. SymbolsOK(s) /\ BuildQueues(s)
  BY DEF Good
<1>2. /\ t.level = s.level + 1 /\ s.depth <= t.depth
      /\ t.levels[s.level + 1].scope = t.levels[s.level + 1].end - 1
      /\ \A j \in 0 .. s.depth - 1 :
            /\ t.levels[j].end = s.levels[j].end + (IF j = s.level + 1 THEN 1 ELSE 0)
            /\ \A k \in 0 .. s.levels[j].end - 1 : t.levels[j].scopes[k] = s.levels[j].scopes[k]
  BY <1>1, IndentScopes
<1>3. ASSUME NEW l \in 1 .. s.depth - 1
      PROVE  /\ s.levels[l].end <= t.levels[l].end
             /\ \A k \in 0 .. s.levels[l].end - 1 : t.levels[l].scopes[k] = s.levels[l].scopes[k]
  <2>1. l \in 0 .. s.depth - 1
    BY GoodTypes
  <2>2. s.levels[l].end \in Nat
    BY <2>1, GoodTypes
  <2> QED
    BY <1>2, <2>1, <2>2
<1>4. ASSUME t.level < s.depth
      PROVE  s.levels[t.level].end <= t.levels[t.level].scope
  <2>1. s.level + 1 \in 0 .. s.depth - 1
    BY <1>2, <1>4, GoodTypes
  <2>2. s.levels[s.level + 1].end \in Nat
    BY <2>1, GoodTypes
  <2>3. t.levels[s.level + 1].end = s.levels[s.level + 1].end + 1
    BY <1>2, <2>1
  <2> QED
    BY <1>2, <2>2, <2>3
<1> QED
  BY <1>2, <1>3, <1>4 DEF Apart, Fixed

LEMMA FixedLeave ==
    ASSUME NEW s, Good(s), NEW t, t.levels = s.levels, t.depth = s.depth
    PROVE  Fixed(s, t)
<1>1. Fixed(s, s)
  BY FixedItself
<1> QED
  BY <1>1 DEF Fixed

LEMMA FixedAdd ==
    ASSUME NEW r, NEW s, Good(r), Good(s), Apart(r, s), NEW key \in Name, NEW tag \in Tag,
           NEW t, t = symbols_add(s, key, tag)
    PROVE  Apart(r, t)
<1>1. SymbolsOK(s) /\ BuildQueues(s)
  BY DEF Good
<1>2. /\ r.depth \in Nat /\ s.depth \in Nat /\ r.depth <= s.depth /\ s.level \in Nat
      /\ s.level \in 0 .. s.depth - 1
  BY GoodTypes DEF Apart, Fixed
<1>3. /\ Good(t) /\ t.level = s.level /\ t.depth = s.depth
      /\ \A l \in 0 .. s.depth - 1 : l # s.level => t.levels[l] = s.levels[l]
  BY GoodAdd
<1>4. /\ t.levels[s.level].end = s.levels[s.level].end
      /\ t.levels[s.level].scope = s.levels[s.level].scope
      /\ \A k \in 0 .. s.levels[s.level].end - 1 : k # s.levels[s.level].scope =>
            t.levels[s.level].scopes[k] = s.levels[s.level].scopes[k]
  <2>1. \A j \in 0 .. s.depth - 1 :
           /\ t.levels[j].end = s.levels[j].end
           /\ t.levels[j].scope = s.levels[j].scope
           /\ \A k \in 0 .. s.levels[j].end - 1 :
                 t.levels[j].scopes[k] = s.levels[j].scopes[k] \cup
                    (IF j = s.level /\ k = s.levels[j].scope
                     THEN {NewItem(s, key, tag)} ELSE {})
    BY <1>1, AddScopes
  <2>2. PICK l : l = s.level
    OBVIOUS
  <2>3. /\ t.levels[l].end = s.levels[l].end /\ t.levels[l].scope = s.levels[l].scope
        /\ \A k \in 0 .. s.levels[l].end - 1 :
              t.levels[l].scopes[k] = s.levels[l].scopes[k] \cup
                 (IF l = s.level /\ k = s.levels[l].scope
                  THEN {NewItem(s, key, tag)} ELSE {})
    BY <1>2, <2>1, <2>2
  <2>4. \A x : x \cup {} = x
    OBVIOUS
  <2>5. \A k \in 0 .. s.levels[l].end - 1 : k # s.levels[l].scope =>
           t.levels[l].scopes[k] = s.levels[l].scopes[k]
    BY <2>3, <2>4
  <2> QED
    BY <2>2, <2>3, <2>5
<1>5. ASSUME NEW l \in 1 .. r.depth - 1
      PROVE  /\ r.levels[l].end <= t.levels[l].end
             /\ \A k \in 0 .. r.levels[l].end - 1 : t.levels[l].scopes[k] = r.levels[l].scopes[k]
  <2>1. l \in 0 .. r.depth - 1 /\ l \in 0 .. s.depth - 1
    BY <1>2
  <2>2. /\ r.levels[l].end <= s.levels[l].end
        /\ \A k \in 0 .. r.levels[l].end - 1 : s.levels[l].scopes[k] = r.levels[l].scopes[k]
    BY DEF Apart, Fixed
  <2>3. CASE l # s.level
    BY <1>3, <2>1, <2>2, <2>3
  <2>4. CASE l = s.level
    <3>1. r.levels[l].end <= s.levels[l].scope
      BY <1>2, <2>4 DEF Apart
    <3>2. /\ r.levels[l].end \in Nat /\ s.levels[l].end \in Nat
          /\ s.levels[l].scope = s.levels[l].end - 1
      BY <2>1, GoodTypes
    <3>3. \A k \in 0 .. r.levels[l].end - 1 :
             k \in 0 .. s.levels[l].end - 1 /\ k # s.levels[l].scope
      BY <3>1, <3>2
    <3> QED
      BY <1>4, <2>2, <2>4, <3>3
  <2> QED
    BY <2>3, <2>4
<1>6. t.level > 0 /\ t.level < r.depth => r.levels[t.level].end <= t.levels[t.level].scope
  BY <1>3, <1>4 DEF Apart
<1> QED
  BY <1>2, <1>3, <1>5, <1>6 DEF Apart, Fixed

-----------------------------------------------------------------------------
(* What a list of definitions adds. *)

\* Induction up to a bound.
LEMMA UpTo ==
    ASSUME NEW n \in Nat, NEW G, 0 \in G, \A i \in 0 .. n - 1 : i \in G => i + 1 \in G
    PROVE  \A i \in 0 .. n : i \in G
<1> DEFINE H == {k \in Nat : k <= n => k \in G}
<1>1. 0 \in H
  OBVIOUS
<1>2. ASSUME NEW k \in Nat, k \in H
      PROVE  k + 1 \in H
  BY <1>2
<1> HIDE DEF H
<1>3. Nat \subseteq H
  BY <1>1, <1>2, SetInduction
<1> QED
  BY <1>3 DEF H

\* The tables that AddAll(s, keys, tag) goes through, f[0] to f[Len(keys)].
List(f, s, keys, tag) ==
    /\ Good(s) /\ Len(keys) \in Nat /\ tag \in Tag
    /\ \A i \in 1 .. Len(keys) : keys[i] \in Name
    /\ Adds(f, s, keys, tag)

\* The same as steps from one table to the next, m of them.
Steps(f, s, keys, tag, m) ==
    /\ f[0] = s /\ Good(s) /\ m = Len(keys) /\ m \in Nat /\ tag \in Tag
    /\ \A i \in 0 .. m : /\ Good(f[i]) /\ Added(s, f[i], i)
                        /\ f[i].level = s.level /\ f[i].depth = s.depth
    /\ \A i \in 0 .. m - 1 : /\ i + 1 \in 1 .. m /\ keys[i + 1] \in Name
                            /\ f[i + 1] = symbols_add(f[i], keys[i + 1], tag)

LEMMA ListSteps ==
    ASSUME NEW f, NEW s, NEW keys, NEW tag, List(f, s, keys, tag), NEW m, m = Len(keys)
    PROVE  Steps(f, s, keys, tag, m)
<1>1. /\ f[0] = s /\ Good(s) /\ Len(keys) \in Nat /\ tag \in Tag
      /\ \A i \in 1 .. Len(keys) : keys[i] \in Name
      /\ \A i \in 1 .. Len(keys) : f[i] = symbols_add(f[i - 1], keys[i], tag)
  BY DEF List, Adds
<1>2. \A i \in 0 .. Len(keys) : Added(s, f[i], i)
  BY AddedKeeps DEF List
<1>3. \A i \in 0 .. Len(keys) : Good(f[i]) /\ f[i].level = s.level /\ f[i].depth = s.depth
  BY <1>2 DEF Added
<1>4. \A i \in 0 .. Len(keys) - 1 : i + 1 \in 1 .. Len(keys) /\ (i + 1) - 1 = i
  BY <1>1
<1> QED
  BY <1>1, <1>2, <1>3, <1>4 DEF Steps

LEMMA ListExists ==
    ASSUME NEW s, Good(s), NEW keys, Len(keys) \in Nat, NEW tag \in Tag,
           \A i \in 1 .. Len(keys) : keys[i] \in Name
    PROVE  \E f : List(f, s, keys, tag) /\ AddAll(s, keys, tag) = f[Len(keys)]
<1>1. PICK f : /\ f[0] = s /\ AddAll(s, keys, tag) = f[Len(keys)]
               /\ \A i \in 1 .. Len(keys) : f[i] = symbols_add(f[i - 1], keys[i], tag)
  BY AddAllSteps
<1>2. List(f, s, keys, tag)
  BY <1>1 DEF List, Adds
<1> QED
  BY <1>1, <1>2

\* The first n keys are in the current scope of t, and nothing else is new in t.
Listed(s, keys, tag, t, n) ==
    /\ \A x \in t.table :
          \/ x \in s.table
          \/ x.level = s.level /\ \E i \in 1 .. n : x.key = keys[i]
    /\ \A x \in Link(t, s.level) :
          \/ x \in Link(s, s.level)
          \/ x.tag = tag /\ \E i \in 1 .. n : x.key = keys[i]
    /\ \A i \in 1 .. n : \E x \in Link(t, s.level) : x.key = keys[i]

LEMMA ListedAgain ==
    ASSUME NEW s, NEW keys, NEW n \in Nat, NEW u, Good(u), u.level = s.level,
           NEW tag \in Tag, Listed(s, keys, tag, u, n), NEW key \in Name, key = keys[n + 1],
           NEW t, t = symbols_add(u, key, tag)
    PROVE  Listed(s, keys, tag, t, n + 1)
<1>1. key = keys[n + 1]
  OBVIOUS
<1>2. PICK y : y = NewItem(u, key, tag)
  OBVIOUS
<1>3. /\ y.key = key /\ y.tag = tag /\ y.level = u.level /\ t.table = u.table \cup {y}
      /\ Link(t, u.level) = Link(u, u.level) \cup {y}
  BY <1>2, NewIs
<1>4. y.key = key /\ y.tag = tag /\ y.level = s.level /\ t.table = u.table \cup {y}
  BY <1>3
<1>5. Link(t, s.level) = Link(u, s.level) \cup {y}
  BY <1>3
<1>6. n + 1 \in 1 .. n + 1 /\ \A i \in 1 .. n : i \in 1 .. n + 1
  OBVIOUS
<1>7. \A i \in 1 .. n + 1 : i \in 1 .. n \/ i = n + 1
  OBVIOUS
<1>8. ASSUME NEW x \in t.table
      PROVE  x \in s.table \/ (x.level = s.level /\ \E i \in 1 .. n + 1 : x.key = keys[i])
  BY <1>1, <1>4, <1>6 DEF Listed
<1>9. ASSUME NEW x \in Link(t, s.level)
      PROVE  x \in Link(s, s.level) \/ (x.tag = tag /\ \E i \in 1 .. n + 1 : x.key = keys[i])
  BY <1>1, <1>4, <1>5, <1>6 DEF Listed
<1>10. ASSUME NEW i \in 1 .. n + 1
       PROVE  \E x \in Link(t, s.level) : x.key = keys[i]
  BY <1>1, <1>4, <1>5, <1>7 DEF Listed
<1> QED
  BY <1>8, <1>9, <1>10 DEF Listed

LEMMA ListAdds ==
    ASSUME NEW f, NEW s, NEW keys, NEW tag, List(f, s, keys, tag), NEW n \in 0 .. Len(keys)
    PROVE  Listed(s, keys, tag, f[n], n)
<1>1. PICK m : m = Len(keys)
  OBVIOUS
<1>0. Steps(f, s, keys, tag, m)
  BY <1>1, ListSteps
<1>2. /\ m \in Nat /\ f[0] = s /\ tag \in Tag
      /\ \A i \in 0 .. m : Good(f[i]) /\ f[i].level = s.level
      /\ \A i \in 0 .. m - 1 : /\ keys[i + 1] \in Name
                               /\ f[i + 1] = symbols_add(f[i], keys[i + 1], tag)
  BY <1>0 DEF Steps
<1> DEFINE G == {i \in 0 .. m : Listed(s, keys, tag, f[i], i)}
<1>3. 0 \in G
  <2>1. Listed(s, keys, tag, s, 0)
    BY DEF Listed
  <2> QED
    BY <1>2, <2>1
<1>4. ASSUME NEW i \in 0 .. m - 1, i \in G
      PROVE  i + 1 \in G
  <2>1. Listed(s, keys, tag, f[i], i) /\ i \in 0 .. m /\ i \in Nat /\ i + 1 \in 0 .. m
    BY <1>2, <1>4
  <2>2. Good(f[i]) /\ f[i].level = s.level
    BY <1>2, <2>1
  <2>3. keys[i + 1] \in Name /\ f[i + 1] = symbols_add(f[i], keys[i + 1], tag)
    BY <1>2
  <2>4. Listed(s, keys, tag, f[i + 1], i + 1)
    BY <1>2, <2>1, <2>2, <2>3, ListedAgain
  <2> QED
    BY <2>1, <2>4
<1> HIDE DEF G
<1>5. n \in G
  BY <1>1, <1>2, <1>3, <1>4, UpTo
<1> QED
  BY <1>5 DEF G

\* Symbols that are added in a function, or to the global scope with a new name
\* each, leave every global the oldest of its name.
LEMMA ListElders ==
    ASSUME NEW f, NEW s, NEW keys, NEW tag, List(f, s, keys, tag), Elders(s),
           s.level > 0 \/ \A i \in 1 .. Len(keys) : \A x \in f[i - 1].table : x.key # keys[i],
           NEW n \in 0 .. Len(keys)
    PROVE  Elders(f[n])
<1>1. PICK m : m = Len(keys)
  OBVIOUS
<1>0. Steps(f, s, keys, tag, m)
  BY <1>1, ListSteps
<1>2. /\ m \in Nat /\ f[0] = s /\ tag \in Tag
      /\ \A i \in 0 .. m : Good(f[i]) /\ f[i].level = s.level
      /\ \A i \in 0 .. m - 1 : /\ keys[i + 1] \in Name
                               /\ f[i + 1] = symbols_add(f[i], keys[i + 1], tag)
  BY <1>0 DEF Steps
<1> DEFINE G == {i \in 0 .. m : Elders(f[i])}
<1>3. 0 \in G
  BY <1>2
<1>4. ASSUME NEW i \in 0 .. m - 1, i \in G
      PROVE  i + 1 \in G
  <2>1. Elders(f[i]) /\ i \in 0 .. m /\ i + 1 \in 0 .. m /\ i + 1 \in 1 .. m /\ (i + 1) - 1 = i
    BY <1>2, <1>4
  <2>2. Good(f[i]) /\ f[i].level = s.level
    BY <1>2, <2>1
  <2>3. keys[i + 1] \in Name /\ f[i + 1] = symbols_add(f[i], keys[i + 1], tag)
    BY <1>2
  <2>4. s.level > 0 \/ \A x \in f[i].table : x.key # keys[i + 1]
    BY <1>1, <2>1
  <2>5. Elders(f[i + 1])
    BY <1>2, <2>1, <2>2, <2>3, <2>4, AddElders
  <2> QED
    BY <2>1, <2>5
<1> HIDE DEF G
<1>5. n \in G
  BY <1>1, <1>2, <1>3, <1>4, UpTo
<1> QED
  BY <1>5 DEF G

\* They are added to no scope of a function that was there before the list's own.
LEMMA ListApart ==
    ASSUME NEW f, NEW s, NEW keys, NEW tag, List(f, s, keys, tag),
           NEW r, Good(r), Apart(r, s), NEW n \in 0 .. Len(keys)
    PROVE  Apart(r, f[n])
<1>1. PICK m : m = Len(keys)
  OBVIOUS
<1>0. Steps(f, s, keys, tag, m)
  BY <1>1, ListSteps
<1>2. /\ m \in Nat /\ f[0] = s /\ tag \in Tag
      /\ \A i \in 0 .. m : Good(f[i])
      /\ \A i \in 0 .. m - 1 : /\ keys[i + 1] \in Name
                               /\ f[i + 1] = symbols_add(f[i], keys[i + 1], tag)
  BY <1>0 DEF Steps
<1> DEFINE G == {i \in 0 .. m : Apart(r, f[i])}
<1>3. 0 \in G
  BY <1>2
<1>4. ASSUME NEW i \in 0 .. m - 1, i \in G
      PROVE  i + 1 \in G
  <2>1. Apart(r, f[i]) /\ i \in 0 .. m /\ i + 1 \in 0 .. m
    BY <1>2, <1>4
  <2>2. Apart(r, f[i + 1])
    BY <1>2, <2>1, FixedAdd
  <2> QED
    BY <2>1, <2>2
<1> HIDE DEF G
<1>5. n \in G
  BY <1>1, <1>2, <1>3, <1>4, UpTo
<1> QED
  BY <1>5 DEF G

\* A new symbol does not change what another name means.
LEMMA SeenAdd ==
    ASSUME NEW s, Good(s), NEW key \in Name, NEW tag \in Tag,
           NEW t, t = symbols_add(s, key, tag), NEW other, other # key
    PROVE  Seen(t, other) = Seen(s, other)
<1>1. PICK y : y = NewItem(s, key, tag)
  OBVIOUS
<1>2. y.key = key /\ t.table = s.table \cup {y} /\ t.level = s.level
  BY <1>1, NewIs
<1>3. SymbolsOK(s) /\ BuildQueues(s)
  BY DEF Good
<1>4. \A j \in 0 .. s.depth - 1 : t.levels[j].scope = s.levels[j].scope
  <2>1. \A j \in 0 .. s.depth - 1 :
           /\ t.levels[j].end = s.levels[j].end
           /\ t.levels[j].scope = s.levels[j].scope
           /\ \A k \in 0 .. s.levels[j].end - 1 :
                 t.levels[j].scopes[k] = s.levels[j].scopes[k] \cup
                    (IF j = s.level /\ k = s.levels[j].scope
                     THEN {NewItem(s, key, tag)} ELSE {})
    BY <1>3, AddScopes
  <2> QED
    BY <2>1
<1>5. ASSUME NEW x \in s.table
      PROVE  symbols_saw(t, x) <=> symbols_saw(s, x)
  <2>1. CASE s.level >= x.level
    <3>1. x.level \in Nat /\ s.level \in Nat /\ s.depth \in Nat /\ s.level < s.depth
      BY <1>3, GoodTypes DEF SymbolsOK, Item
    <3>2. x.level \in 0 .. s.depth - 1
      BY <2>1, <3>1
    <3> QED
      BY <1>2, <1>4, <3>2 DEF symbols_saw
  <2>2. CASE ~(s.level >= x.level)
    BY <1>2, <2>2 DEF symbols_saw
  <2> QED
    BY <2>1, <2>2
<1>6. symbols_lookup(t, other) = symbols_lookup(s, other)
  BY <1>2 DEF symbols_lookup
<1>7. \A x \in symbols_lookup(s, other) : x \in s.table
  BY DEF symbols_lookup
<1> HIDE DEF symbols_lookup, symbols_saw
<1> QED
  BY <1>5, <1>6, <1>7 DEF Seen

\* Nor do the keys of a list after the one that has it.
LEMMA ListSeen ==
    ASSUME NEW f, NEW s, NEW keys, NEW tag, List(f, s, keys, tag), NEW n \in 0 .. Len(keys),
           NEW key, \A i \in n + 1 .. Len(keys) : keys[i] # key
    PROVE  Seen(f[Len(keys)], key) = Seen(f[n], key)
<1>1. PICK m : m = Len(keys)
  OBVIOUS
<1>0. Steps(f, s, keys, tag, m)
  BY <1>1, ListSteps
<1>2. /\ m \in Nat /\ tag \in Tag
      /\ \A i \in 0 .. m : Good(f[i])
      /\ \A i \in 0 .. m - 1 : /\ keys[i + 1] \in Name
                               /\ f[i + 1] = symbols_add(f[i], keys[i + 1], tag)
  BY <1>0 DEF Steps
<1> DEFINE G == {i \in 0 .. m : i >= n => Seen(f[i], key) = Seen(f[n], key)}
<1>3. 0 \in G
  BY <1>2
<1>4. ASSUME NEW i \in 0 .. m - 1, i \in G
      PROVE  i + 1 \in G
  <2>1. i + 1 \in 0 .. m /\ i \in 0 .. m /\ n \in Nat
    BY <1>1, <1>2
  <2>2. CASE i >= n
    <3>1. Seen(f[i], key) = Seen(f[n], key)
      BY <1>4, <2>2
    <3>2. i + 1 \in n + 1 .. m
      BY <2>1, <2>2
    <3>3. key # keys[i + 1]
      BY <1>1, <3>2
    <3>4. Seen(f[i + 1], key) = Seen(f[i], key)
      BY <1>2, <2>1, <3>3, SeenAdd
    <3> QED
      BY <2>1, <3>1, <3>4
  <2>3. CASE ~(i >= n) /\ i + 1 = n
    BY <2>1, <2>3
  <2>4. CASE ~(i >= n) /\ i + 1 # n
    BY <2>1, <2>4
  <2> QED
    BY <2>2, <2>3, <2>4
<1> HIDE DEF G
<1>5. m \in G /\ m >= n
  <2>1. \A i \in 0 .. m : i \in G
    BY <1>2, <1>3, <1>4, UpTo
  <2> QED
    BY <1>1, <1>2, <2>1
<1> QED
  BY <1>1, <1>5 DEF G

\* The table before definition n + 1, as the first pass has it.
LEMMA ListPrefix ==
    ASSUME NEW defs \in Defs, NEW keys, keys = NamesOf(defs),
           NEW f, NEW s, NEW tag, List(f, s, keys, tag), NEW n \in 0 .. Len(defs)
    PROVE  AddAll(s, NamesOf(SubSeq(defs, 1, n)), tag) = f[n]
<1>1. /\ DOMAIN defs = 1 .. Len(defs) /\ Len(defs) \in 1 .. 2
      /\ Len(keys) = Len(defs) /\ Len(keys) \in Nat
      /\ \A i \in 1 .. Len(keys) : /\ keys[i] = defs[i].name /\ keys[i] \in Name
                                   /\ defs[i] \in Def
  BY NamesAre, Zenon
<1>2. PICK prefix : prefix = NamesOf(SubSeq(defs, 1, n))
  OBVIOUS
<1>3. Len(prefix) = n /\ \A i \in 1 .. n : prefix[i] = keys[i]
  <2>1. defs \in Seq(Def)
    <3>1. defs \in [1 .. Len(defs) -> Def] /\ Len(defs) \in Nat
      <4>1. defs = [i \in 1 .. Len(defs) |-> defs[i]]
        BY DEF Defs
      <4> QED
        BY <1>1, <4>1
    <3> QED
      BY <3>1
  <2>2. PICK sub : sub = SubSeq(defs, 1, n)
    OBVIOUS
  <2>3. Len(sub) = n /\ DOMAIN sub = 1 .. n /\ \A i \in 1 .. n : sub[i] = defs[i]
    BY <1>1, <2>1, <2>2
  <2>4. prefix = [i \in 1 .. n |-> sub[i].name]
    BY <1>2, <2>2, <2>3 DEF NamesOf
  <2> QED
    BY <1>1, <2>3, <2>4
<1>4. PICK m : m = Len(keys)
  OBVIOUS
<1>0. Steps(f, s, keys, tag, m)
  BY <1>4, ListSteps
<1>5. /\ f[0] = s /\ m \in Nat /\ n \in 0 .. m /\ n \in Nat
      /\ \A i \in 0 .. m - 1 : f[i + 1] = symbols_add(f[i], keys[i + 1], tag)
  BY <1>0, <1>1, <1>4 DEF Steps
<1>6. PICK g : /\ g[0] = s /\ AddAll(s, prefix, tag) = g[n]
               /\ \A i \in 1 .. n : g[i] = symbols_add(g[i - 1], prefix[i], tag)
  <2>1. /\ Good(s) /\ tag \in Tag /\ Len(prefix) \in Nat
        /\ \A i \in 1 .. Len(prefix) : prefix[i] \in Name
    BY <1>0, <1>1, <1>3, <1>5 DEF Steps
  <2>2. PICK g : List(g, s, prefix, tag) /\ AddAll(s, prefix, tag) = g[Len(prefix)]
    BY <2>1, ListExists
  <2> QED
    BY <1>3, <2>2 DEF List, Adds
<1> DEFINE G == {i \in 0 .. n : g[i] = f[i]}
<1>7. 0 \in G
  BY <1>5, <1>6
<1>8. ASSUME NEW i \in 0 .. n - 1, i \in G
      PROVE  i + 1 \in G
  <2>1. i + 1 \in 1 .. n /\ i + 1 \in 0 .. n /\ (i + 1) - 1 = i /\ i \in 0 .. m - 1
    BY <1>5
  <2>2. g[i + 1] = symbols_add(g[i], keys[i + 1], tag)
    BY <1>3, <1>6, <2>1
  <2> QED
    BY <1>5, <1>8, <2>1, <2>2
<1> HIDE DEF G
<1>9. n \in G
  <2>1. \A i \in 0 .. n : i \in G
    BY <1>5, <1>7, <1>8, UpTo
  <2> QED
    BY <1>5, <2>1
<1>10. g[n] = f[n]
  BY <1>9 DEF G
<1> QED
  BY <1>2, <1>3, <1>6, <1>10

\* The global scope is one: a symbol of it is found in it.
LEMMA GlobalIsHere ==
    ASSUME NEW s, Good(s), s.level = 0, NEW x \in s.table, x.level = 0
    PROVE  symbols_here(s, x) /\ Redefined(s, x.key)
<1>1. CoherentTable(s) /\ BuildQueues(s)
  BY DEF Good
<1>2. PICK l \in 0 .. s.depth - 1 : \E k \in s.levels[l].begin .. s.levels[l].end - 1 :
         x \in s.levels[l].scopes[k]
  BY <1>1 DEF CoherentTable, Held
<1>3. PICK k \in s.levels[l].begin .. s.levels[l].end - 1 : x \in s.levels[l].scopes[k]
  BY <1>2
<1>4. s.levels[l].begin = 0 /\ s.levels[l].end \in Nat
  BY GoodTypes
<1>5. k \in 0 .. s.levels[l].end - 1
  BY <1>3, <1>4
<1>6. x.level = l /\ x.scope = k
  BY <1>1, <1>3, <1>5 DEF CoherentTable, Stamped
<1>7. s.levels[0].end = 1 /\ s.levels[0].scope = 0
  BY <1>1, GoodTypes DEF BuildQueues
<1>8. symbols_here(s, x)
  BY <1>5, <1>6, <1>7 DEF symbols_here
<1> QED
  BY <1>8 DEF Redefined, symbols_lookup

-----------------------------------------------------------------------------
(* The nodes of the first pass. *)

\* The globals that a node defines have names of their own.
Fresh(node, s) ==
    s.level = 0 =>
        /\ node.kind = "func" => \A x \in s.table : x.key # node.name
        /\ node.kind = "decl" =>
              \A i \in DOMAIN node.defs :
                 LET before == AddAll(s, NamesOf(SubSeq(node.defs, 1, i - 1)), node.tag)
                 IN  \A x \in before.table : x.key # node.defs[i].name

LEMMA IndentTable ==
    ASSUME NEW s, NEW t, t = symbols_indent(s)
    PROVE  /\ t.table = s.table
           /\ Elders(s) => Elders(t)
<1>1. t.table = s.table
  BY DEF symbols_indent
<1> QED
  BY <1>1 DEF Elders

LEMMA GlobalApart ==
    ASSUME NEW s, Good(s), s.level = 0
    PROVE  Apart(s, s)
BY FixedItself DEF Apart

LEMMA DeclList ==
    ASSUME NEW s, Good(s), NEW defs \in Defs, NEW tag \in {"VARIABLE", "CONSTANT"},
           NEW t, t = AddAll(IF s.level > 0 THEN symbols_indent(s) ELSE s, NamesOf(defs), tag),
           NEW b, b = IF s.level > 0 THEN symbols_indent(s) ELSE s,
           NEW keys, keys = NamesOf(defs)
    PROVE  /\ Good(b) /\ Later(s, b) /\ b.table = s.table
           /\ b.level = IF s.level > 0 THEN s.level + 1 ELSE 0
           /\ Apart(s, b) /\ (Elders(s) => Elders(b))
           /\ \E f : List(f, b, keys, tag) /\ t = f[Len(keys)]
<1>1. s.level \in Nat
  BY GoodTypes
<1>2. /\ Good(b) /\ Later(s, b) /\ b.table = s.table
      /\ b.level = IF s.level > 0 THEN s.level + 1 ELSE 0
      /\ Apart(s, b) /\ (Elders(s) => Elders(b))
  <2>1. CASE s.level > 0
    <3>1. b = symbols_indent(s)
      BY <2>1
    <3>2. Good(b) /\ Later(s, b) /\ b.level = s.level + 1
      BY <3>1, GoodIndent
    <3>3. b.table = s.table /\ (Elders(s) => Elders(b)) /\ Apart(s, b)
      BY <3>1, IndentTable, FixedIndent
    <3> QED
      BY <2>1, <3>2, <3>3
  <2>2. CASE ~(s.level > 0)
    <3>1. b = s /\ s.level = 0
      BY <1>1, <2>2
    <3>2. Later(s, s) /\ Apart(s, s)
      BY <3>1, LaterItself, GlobalApart
    <3> QED
      BY <3>1, <3>2
  <2> QED
    BY <2>1, <2>2
<1>3. /\ DOMAIN defs = 1 .. Len(defs) /\ Len(defs) \in 1 .. 2
      /\ Len(keys) = Len(defs) /\ Len(keys) \in Nat
      /\ \A i \in 1 .. Len(keys) : /\ keys[i] = defs[i].name /\ keys[i] \in Name
                                   /\ defs[i] \in Def
  BY NamesAre, Zenon
<1>4. tag \in Tag
  BY DEF Tag
<1>5. PICK f : List(f, b, keys, tag) /\ AddAll(b, keys, tag) = f[Len(keys)]
  <2>1. Good(b) /\ Len(keys) \in Nat /\ \A i \in 1 .. Len(keys) : keys[i] \in Name
    BY <1>2, <1>3, Zenon
  <2> QED
    BY <1>4, <2>1, ListExists, Zenon
<1>6. t = AddAll(b, keys, tag)
  OBVIOUS
<1> QED
  BY <1>2, <1>5, <1>6

LEMMA DeclBinds ==
    ASSUME NEW s, Good(s), Elders(s), NEW defs \in Defs, NEW tag \in {"VARIABLE", "CONSTANT"},
           NEW t, t = AddAll(IF s.level > 0 THEN symbols_indent(s) ELSE s, NamesOf(defs), tag),
           s.level = 0 =>
              \A i \in DOMAIN defs :
                 LET before == AddAll(s, NamesOf(SubSeq(defs, 1, i - 1)), tag)
                 IN  \A x \in before.table : x.key # defs[i].name
    PROVE  Fixed(s, t) /\ Elders(t)
<1>1. PICK b : b = IF s.level > 0 THEN symbols_indent(s) ELSE s
  OBVIOUS
<1>2. PICK keys : keys = NamesOf(defs)
  OBVIOUS
<1>3. /\ Good(b) /\ b.level = IF s.level > 0 THEN s.level + 1 ELSE 0
      /\ Apart(s, b) /\ Elders(b)
      /\ \E f : List(f, b, keys, tag) /\ t = f[Len(keys)]
  BY <1>1, <1>2, DeclList
<1>4. PICK f : List(f, b, keys, tag) /\ t = f[Len(keys)]
  BY <1>3
<1>5. /\ DOMAIN defs = 1 .. Len(defs) /\ Len(defs) \in 1 .. 2
      /\ Len(keys) = Len(defs) /\ Len(keys) \in Nat
      /\ \A i \in 1 .. Len(keys) : /\ keys[i] = defs[i].name /\ keys[i] \in Name
                                   /\ defs[i] \in Def
  BY <1>2, NamesAre
<1>6. Len(keys) \in 0 .. Len(keys) /\ s.level \in Nat
  BY <1>5, GoodTypes
<1>7. Fixed(s, t)
  <2>1. Apart(s, t)
    BY <1>3, <1>4, <1>6, ListApart
  <2> QED
    BY <2>1 DEF Apart
<1>8. b.level > 0 \/ \A i \in 1 .. Len(keys) : \A x \in f[i - 1].table : x.key # keys[i]
  <2>1. CASE s.level > 0
    BY <1>3, <1>6, <2>1
  <2>2. CASE s.level = 0
    <3>1. b = s
      BY <1>1, <2>2
    <3>2. ASSUME NEW i \in 1 .. Len(keys)
          PROVE  \A x \in f[i - 1].table : x.key # keys[i]
      <4>1. i \in DOMAIN defs /\ i - 1 \in 0 .. Len(defs) /\ keys[i] = defs[i].name
        BY <1>5
      <4>2. AddAll(s, NamesOf(SubSeq(defs, 1, i - 1)), tag) = f[i - 1]
        BY <1>2, <1>4, <3>1, <4>1, ListPrefix
      <4> QED
        BY <2>2, <4>1, <4>2
    <3> QED
      BY <3>2
  <2> QED
    BY <1>6, <2>1, <2>2
<1>9. Elders(t)
  BY <1>3, <1>4, <1>6, <1>8, ListElders
<1> QED
  BY <1>7, <1>9

LEMMA FuncFixed ==
    ASSUME NEW s, Good(s), s.level = 0, NEW name \in Name, NEW params \in Params,
           NEW b, NEW c, NEW d, NEW t, Header(s, name, params, b, c, d, t)
    PROVE  /\ Fixed(s, t) /\ Fixed(b, t) /\ Fixed(d, t)
           /\ \E f : List(f, c, params, "VARIABLE") /\ d = f[Len(params)]
<1>1. Good(b) /\ Good(c) /\ Good(d) /\ Good(t)
  BY FuncTables
<1>2. /\ b = symbols_add(s, name, "FUNCTION") /\ c = symbols_indent(b)
      /\ d = AddAll(c, params, "VARIABLE") /\ t = symbols_indent(d)
  BY DEF Header
<1>3. {"FUNCTION", "VARIABLE"} \subseteq Tag
  BY DEF Tag
<1>4. Apart(s, b)
  BY <1>2, <1>3, GlobalApart, FixedAdd
<1>5. Apart(b, c)
  BY <1>1, <1>2, FixedIndent
<1>6. Len(params) \in Nat /\ \A i \in 1 .. Len(params) : params[i] \in Name
  BY ParamsAre
<1>7. PICK f : List(f, c, params, "VARIABLE") /\ d = f[Len(params)]
  BY <1>1, <1>2, <1>3, <1>6, ListExists
<1>8. Apart(b, d)
  <2>1. Len(params) \in 0 .. Len(params)
    BY <1>6
  <2> QED
    BY <1>1, <1>5, <1>7, <2>1, ListApart
<1>9. Apart(d, t)
  BY <1>1, <1>2, FixedIndent
<1>10. Fixed(s, b) /\ Fixed(b, d) /\ Fixed(d, t)
  BY <1>4, <1>8, <1>9 DEF Apart
<1>11. Fixed(b, t)
  BY <1>1, <1>10, FixedTransitive
<1>12. Fixed(s, t)
  BY <1>1, <1>10, <1>11, FixedTransitive
<1> QED
  BY <1>7, <1>10, <1>11, <1>12

LEMMA FuncElders ==
    ASSUME NEW s, Good(s), Elders(s), s.level = 0, NEW name \in Name, NEW params \in Params,
           \A x \in s.table : x.key # name,
           NEW b, NEW c, NEW d, NEW t, Header(s, name, params, b, c, d, t)
    PROVE  Elders(t)
<1>1. c.level > 0
  BY FuncTables
<1>2. b = symbols_add(s, name, "FUNCTION") /\ c = symbols_indent(b) /\ t = symbols_indent(d)
  BY DEF Header
<1>3. "FUNCTION" \in Tag
  BY DEF Tag
<1>4. Elders(b)
  BY <1>2, <1>3, AddElders
<1>5. Elders(c)
  BY <1>2, <1>4, IndentTable
<1>6. PICK f : List(f, c, params, "VARIABLE") /\ d = f[Len(params)]
  BY FuncFixed
<1>7. Elders(d)
  <2>1. Len(params) \in 0 .. Len(params)
    BY ParamsAre
  <2> QED
    BY <1>1, <1>5, <1>6, <2>1, ListElders
<1> QED
  BY <1>2, <1>7, IndentTable

\* Leaving scopes adds to none.
LEMMA CloseBinds ==
    ASSUME NEW a, NEW T, NEW p \in Nat, NEW s, NEW g, Shape(a, T, p, s, g), Good(s),
           \A q \in 1 .. p - 1 : Good(T[q]), g # <<>>, NEW t,
           t = IF Len(g) = 1 THEN symbols_leave(symbols_leave(s)) ELSE symbols_leave(s)
    PROVE  /\ t.levels = s.levels /\ t.depth = s.depth /\ t.table = s.table
           /\ t.level \in Nat /\ t.level < s.level
<1>1. s.level > 0 /\ s.level \in Nat
  BY CloseFinds, GoodTypes
<1>2. Good(symbols_leave(s)) /\ (Len(g) = 1 => symbols_leave(s).level = 1)
  BY CloseTable
<1>3. PICK u : u = symbols_leave(s)
  OBVIOUS
<1>4. /\ u.levels = s.levels /\ u.depth = s.depth /\ u.table = s.table
      /\ u.level \in Nat /\ u.level < s.level
  <2>1. LeaveStop(s) \in 1 .. s.level
    BY <1>1, LeaveStopRange
  <2> QED
    BY <1>1, <1>3, <2>1, GoodLeave
<1>5. CASE Len(g) = 1
  <2>1. Good(u) /\ u.level > 0 /\ t = symbols_leave(u)
    BY <1>2, <1>3, <1>5
  <2>2. LeaveStop(u) \in 1 .. u.level
    BY <1>4, <2>1, LeaveStopRange
  <2>3. /\ t.levels = u.levels /\ t.depth = u.depth /\ t.table = u.table
        /\ t.level = LeaveStop(u) - 1
    BY <2>1, GoodLeave
  <2> QED
    BY <1>1, <1>4, <2>2, <2>3
<1>6. CASE Len(g) # 1
  BY <1>3, <1>4, <1>6
<1> QED
  BY <1>5, <1>6

LEMMA TurnBinds ==
    ASSUME NEW a, NEW T, NEW p \in Nat, NEW s, Good(s), Elders(s),
           NEW node, Fresh(node, s), NEW e, NEW t, NEW g, Shape(a, T, p, s, e),
           \A q \in 1 .. p - 1 : Good(T[q]), Turn(node, p, s, e, t, g)
    PROVE  Fixed(s, t) /\ Elders(t)
<1>0. Fixed(s, s)
  BY FixedItself
<1>1. CASE /\ node.kind = "func" /\ e = <<>>
           /\ node.name \in Name /\ node.params \in Params
           /\ t = symbols_indent(AddAll(symbols_indent(symbols_add(s, node.name, "FUNCTION")),
                                        node.params, "VARIABLE"))
  <2>1. PICK b : b = symbols_add(s, node.name, "FUNCTION")
    OBVIOUS
  <2>2. PICK c : c = symbols_indent(b)
    OBVIOUS
  <2>3. PICK d : d = AddAll(c, node.params, "VARIABLE")
    OBVIOUS
  <2>4. Header(s, node.name, node.params, b, c, d, t)
    BY <1>1, <2>1, <2>2, <2>3 DEF Header
  <2>5. s.level = 0
    BY <1>1 DEF Shape
  <2>6. \A x \in s.table : x.key # node.name
    BY <1>1, <2>5 DEF Fresh
  <2> QED
    BY <1>1, <2>4, <2>5, <2>6, FuncFixed, FuncElders
<1>2. CASE /\ node.kind = "decl"
           /\ node.tag \in {"VARIABLE", "CONSTANT"} /\ node.defs \in Defs
           /\ t = AddAll(IF s.level > 0 THEN symbols_indent(s) ELSE s,
                         NamesOf(node.defs), node.tag)
  <2>1. PICK defs : defs = node.defs
    OBVIOUS
  <2>2. PICK tag : tag = node.tag
    OBVIOUS
  <2>3. s.level = 0 =>
           \A i \in DOMAIN defs :
              LET before == AddAll(s, NamesOf(SubSeq(defs, 1, i - 1)), tag)
              IN  \A x \in before.table : x.key # defs[i].name
    BY <1>2, <2>1, <2>2 DEF Fresh
  <2>4. /\ defs \in Defs /\ tag \in {"VARIABLE", "CONSTANT"}
        /\ t = AddAll(IF s.level > 0 THEN symbols_indent(s) ELSE s, NamesOf(defs), tag)
    BY <1>2, <2>1, <2>2
  <2> QED
    BY <2>3, <2>4, DeclBinds
<1>3. CASE t = symbols_indent(s)
  <2>1. Apart(s, t) /\ Elders(t)
    BY <1>3, FixedIndent, IndentTable
  <2> QED
    BY <2>1 DEF Apart
<1>4. CASE /\ e # <<>>
           /\ t = IF Len(e) = 1 THEN symbols_leave(symbols_leave(s)) ELSE symbols_leave(s)
  <2>1. t.levels = s.levels /\ t.depth = s.depth /\ t.table = s.table
    BY <1>4, CloseBinds
  <2> QED
    BY <2>1, FixedLeave DEF Elders
<1>5. CASE t = s
  BY <1>0, <1>5
<1> QED
  BY <1>1, <1>2, <1>3, <1>4, <1>5 DEF Turn

-----------------------------------------------------------------------------
(* The first pass. *)

\* Between functions the pass is in the global scope, inside them it is not.
LEMMA LevelTells ==
    ASSUME NEW T, NEW h, History(T, h), phase = "semantic"
    PROVE  /\ symbols.level \in Nat /\ Good(symbols)
           /\ InFunction <=> symbols.level > 0
<1>1. PICK n : n = Len(ast) + 1
  OBVIOUS
<1>2. /\ n \in Nat /\ symbols = T[n] /\ Good(symbols) /\ symbols.level \in Nat
      /\ (ctl = <<>> <=> h[n] = <<>>) /\ Tree(ast, T, h) /\ Len(ast) = n - 1
  BY <1>1, InFirstPass
<1>3. Shape(ast, T, n, T[n], h[n]) /\ \A q \in 1 .. n - 1 : Good(T[q])
  <2>1. n \in 1 .. Len(ast) + 1 /\ \A q \in 1 .. n - 1 : q \in 1 .. Len(ast) + 1
    BY <1>1, <1>2
  <2> QED
    BY <1>2, <2>1 DEF Tree
<1>4. h[n] = <<>> => symbols.level = 0
  BY <1>2, <1>3 DEF Shape
<1>5. ASSUME h[n] # <<>>
      PROVE  symbols.level > 0
  BY <1>2, <1>3, <1>5, CloseFinds
<1> QED
  BY <1>2, <1>4, <1>5 DEF InFunction

\* What follows from the turn a node has taken, whichever it is.
LEMMA MeetBinds ==
    ASSUME IInv, IInv', phase = "semantic", Bindings, NEW node, NEW t, Meet(node, t),
           UNCHANGED irVars, Fresh(node, symbols)
    PROVE  Bindings'
<1>1. PICK U, k : History(U, k)
  BY DEF IInv
<1>2. PICK T, h : History(T, h)'
  BY DEF IInv
<1>3. /\ phase' = "semantic" /\ ast' = Append(ast, node) /\ snap' = Append(snap, symbols)
      /\ symbols' = t /\ raws' = raws
  BY DEF Meet, irVars
<1>4. /\ IsSeq(ast) /\ Len(ast) \in Nat /\ Good(symbols)
      /\ IsSeq(snap) /\ Len(snap) = Len(ast)
  <2>1. IsSeq(ast) /\ Good(symbols)
    BY <1>1, InFirstPass
  <2> QED
    BY <1>1, <2>1 DEF History, IsSeq
<1>5. PICK n : n = Len(ast) + 1
  OBVIOUS
<1>6. PICK a : a = ast'
  OBVIOUS
<1>7. PICK c : c = snap'
  OBVIOUS
<1>8. /\ n \in Nat \ {0} /\ Len(a) = n /\ a[n] = node
      /\ Len(c) = n /\ c[n] = symbols /\ \A p \in 1 .. n - 1 : c[p] = snap[p]
  <2>1. Pushed(a, ast, node) /\ Pushed(c, snap, symbols)
    BY <1>3, <1>6, <1>7 DEF Pushed
  <2>2. Len(a) = Len(ast) + 1 /\ a[Len(ast) + 1] = node
    BY <1>4, <2>1, AppendIs
  <2>3. /\ Len(c) = Len(snap) + 1 /\ c[Len(snap) + 1] = symbols
        /\ \A i \in 1 .. Len(snap) : c[i] = snap[i]
    BY <1>4, <2>1, AppendIs
  <2> QED
    BY <1>4, <1>5, <2>2, <2>3
<1>9. Tree(a, T, h) /\ (\A p \in 1 .. n : c[p] = T[p]) /\ t = T[n + 1]
  BY <1>2, <1>3, <1>6, <1>7, <1>8 DEF History, InSemantic
<1>10. /\ Turn(node, n, T[n], h[n], T[n + 1], h[n + 1])
       /\ Shape(a, T, n, T[n], h[n])
       /\ \A p \in 1 .. n + 1 : Good(T[p])
  BY <1>8, <1>9 DEF Tree
<1>11. T[n] = symbols
  BY <1>8, <1>9
<1>12. Elders(symbols) /\ \A p \in 1 .. n - 1 : Fixed(c[p], symbols)
  BY <1>4, <1>5, <1>8 DEF Bindings, Final
<1>13. Fixed(symbols, t) /\ Elders(t) /\ Good(t)
  <2>1. n \in Nat /\ (\A q \in 1 .. n - 1 : Good(T[q])) /\ Good(T[n + 1]) /\ Good(T[n])
    BY <1>8, <1>10
  <2>2. Fixed(T[n], T[n + 1]) /\ Elders(T[n + 1])
    BY <1>10, <1>11, <1>12, <2>1, TurnBinds
  <2> QED
    BY <1>9, <1>11, <2>1, <2>2
<1>14. ASSUME NEW p \in 1 .. n
       PROVE  Fixed(c[p], t)
  <2>1. CASE p = n
    BY <1>8, <1>13, <2>1
  <2>2. CASE p # n
    <3>1. p \in 1 .. n - 1 /\ p \in 1 .. n + 1
      BY <1>8, <2>2
    <3>2. Good(c[p]) /\ Fixed(c[p], symbols)
      BY <1>9, <1>10, <1>12, <3>1
    <3> QED
      BY <1>4, <1>13, <3>2, FixedTransitive
  <2> QED
    BY <2>1, <2>2
<1>15. Ready(AddLib(symbols_new), raws)'
  BY <1>3 DEF Bindings, Ready
<1>16. Final' = t
  BY <1>3 DEF Final
<1>17. \A p \in 1 .. Len(snap') : Fixed(snap'[p], Final')
  BY <1>7, <1>8, <1>14, <1>16
<1> QED
  BY <1>3, <1>13, <1>15, <1>16, <1>17 DEF Bindings

LEMMA NodeClean ==
    ASSUME IInv, phase = "semantic", Clean, NEW node, ast' = Append(ast, node),
           snap' = Append(snap, symbols), phase' # "aborted", Accepted(node, symbols)
    PROVE  Clean'
<1>1. PICK U, k : History(U, k)
  BY DEF IInv
<1>2. ast' = Append(ast, node) /\ snap' = Append(snap, symbols)
  OBVIOUS
<1>3. IsSeq(ast) /\ Len(ast) \in Nat /\ IsSeq(snap) /\ Len(snap) = Len(ast)
  <2>1. IsSeq(ast)
    BY <1>1, InFirstPass
  <2> QED
    BY <1>1, <2>1 DEF History, IsSeq
<1>4. PICK a : a = ast'
  OBVIOUS
<1>5. PICK c : c = snap'
  OBVIOUS
<1>6. /\ Len(a) = Len(ast) + 1 /\ a[Len(ast) + 1] = node /\ c[Len(ast) + 1] = symbols
      /\ \A p \in 1 .. Len(ast) : a[p] = ast[p] /\ c[p] = snap[p]
  <2>1. Pushed(a, ast, node) /\ Pushed(c, snap, symbols)
    BY <1>2, <1>4, <1>5 DEF Pushed
  <2>2. /\ Len(a) = Len(ast) + 1 /\ a[Len(ast) + 1] = node
        /\ \A p \in 1 .. Len(ast) : a[p] = ast[p]
    BY <1>3, <2>1, AppendIs
  <2>3. c[Len(snap) + 1] = symbols /\ \A p \in 1 .. Len(snap) : c[p] = snap[p]
    BY <1>3, <2>1, AppendIs
  <2> QED
    BY <1>3, <2>2, <2>3
<1>7. ASSUME NEW p \in 1 .. Len(a)
      PROVE  Accepted(a[p], c[p])
  <2>1. p = Len(ast) + 1 \/ p \in 1 .. Len(ast)
    BY <1>3, <1>6
  <2> QED
    BY <1>6, <2>1 DEF Clean
<1> QED
  BY <1>4, <1>5, <1>7 DEF Clean

\* A global has a name that no symbol has: it is not redefined, and not late.
LEMMA FuncFresh ==
    ASSUME NEW T, NEW h, History(T, h), phase = "semantic", "late_global" \notin Admit,
           ~InFunction, NEW name, NoLateGlobal({name}), ~Redefined(symbols, name)
    PROVE  \A x \in symbols.table : x.key # name
<1>1. Good(symbols) /\ symbols.level = 0
  BY LevelTells
<1>2. ASSUME NEW x \in symbols.table, x.key = name
      PROVE  FALSE
  <2>1. x.level \in Nat
    BY <1>1 DEF Good, SymbolsOK, Item
  <2>2. CASE x.level = 0
    BY <1>1, <1>2, <2>2, GlobalIsHere
  <2>3. CASE x.level > 0
    BY <1>2, <2>3 DEF NoLateGlobal
  <2> QED
    BY <2>1, <2>2, <2>3
<1> QED
  BY <1>2

LEMMA DeclFresh ==
    ASSUME NEW T, NEW h, History(T, h), phase = "semantic", "late_global" \notin Admit,
           ~InFunction, NEW defs \in Defs, NEW tag \in {"VARIABLE", "CONSTANT"},
           NoLateGlobal(Range(NamesOf(defs))),
           NEW i \in DOMAIN defs, DefOK(symbols, tag, defs, i),
           NEW before, before = AddAll(symbols, NamesOf(SubSeq(defs, 1, i - 1)), tag)
    PROVE  \A x \in before.table : x.key # defs[i].name
<1>1. Good(symbols) /\ symbols.level = 0
  BY LevelTells
<1>2. PICK keys : keys = NamesOf(defs)
  OBVIOUS
<1>3. /\ DOMAIN defs = 1 .. Len(defs) /\ Len(defs) \in 1 .. 2
      /\ Len(keys) = Len(defs) /\ Len(keys) \in Nat
      /\ \A j \in 1 .. Len(keys) : /\ keys[j] = defs[j].name /\ keys[j] \in Name
                                   /\ defs[j] \in Def
  BY <1>2, NamesAre, ZenonT(30)
<1>4. tag \in Tag
  BY DEF Tag
<1>5. PICK f : List(f, symbols, keys, tag)
  BY <1>1, <1>3, <1>4, ListExists
<1>6. i - 1 \in 0 .. Len(defs) /\ i - 1 \in 0 .. Len(keys) /\ i \in 1 .. Len(keys)
  BY <1>3
<1>7. before = f[i - 1]
  BY <1>2, <1>5, <1>6, ListPrefix
<1>8. Listed(symbols, keys, tag, before, i - 1)
  BY <1>5, <1>6, <1>7, ListAdds
<1>9. Good(before) /\ before.level = 0
  <2>1. Steps(f, symbols, keys, tag, Len(keys))
    BY <1>5, ListSteps
  <2> QED
    BY <1>1, <1>6, <1>7, <2>1 DEF Steps
<1>10. ~Redefined(before, defs[i].name)
  BY DEF DefOK
<1>11. ASSUME NEW x \in before.table, x.key = defs[i].name
       PROVE  FALSE
  <2>1. x.level \in Nat
    BY <1>9 DEF Good, SymbolsOK, Item
  <2>2. CASE x.level = 0
    BY <1>9, <1>10, <1>11, <2>2, GlobalIsHere
  <2>3. CASE x.level > 0
    <3>1. x \in symbols.table
      BY <1>1, <1>8, <2>3 DEF Listed
    <3>2. x.key \in Range(keys)
      <4>1. i \in DOMAIN keys /\ keys[i] = x.key
        BY <1>2, <1>3, <1>6, <1>11 DEF NamesOf
      <4> QED
        BY <4>1 DEF Range
    <3> QED
      BY <1>2, <2>3, <3>1, <3>2 DEF NoLateGlobal
  <2> QED
    BY <2>1, <2>2, <2>3
<1> QED
  BY <1>11

\* A handler has gone on: the node it has met, and what it has checked of it.
Met == \E node, t : /\ Meet(node, t) /\ Fresh(node, symbols)
                    /\ Admit = {} => Accepted(node, symbols)

LEMMA FuncMeets ==
    ASSUME NEW T, NEW h, History(T, h), phase = "semantic", "late_global" \notin Admit,
           NEW name, NEW params, FuncDef(name, params)
    PROVE  (\E condition : Error(condition)) \/ Met
<1>1. CASE Error(Redefined(symbols, name))
  BY <1>1
<1>2. CASE ~Error(Redefined(symbols, name))
  <2>1. PICK node : node = [kind |-> "func", name |-> name, params |-> params]
    OBVIOUS
  <2>2. PICK t : Meet(node, t)
    BY <1>2, <2>1 DEF FuncDef
  <2>3. ~InFunction /\ NoLateGlobal({name}) /\ ~Redefined(symbols, name)
    BY <1>2 DEF FuncDef
  <2>4. \A x \in symbols.table : x.key # name
    BY <2>3, FuncFresh
  <2>5. node.kind = "func" /\ node.name = name
    BY <2>1
  <2>6. Fresh(node, symbols)
    BY <2>4, <2>5 DEF Fresh
  <2>7. Accepted(node, symbols)
    BY <2>5 DEF Accepted
  <2> QED
    BY <2>2, <2>6, <2>7 DEF Met
<1> QED
  BY <1>1, <1>2

LEMMA DefIsDef ==
    ASSUME NEW defs \in Defs, NEW i \in DOMAIN defs
    PROVE  defs[i] \in Def
<1>1. PICK keys : keys = NamesOf(defs)
  OBVIOUS
<1>2. /\ DOMAIN defs = 1 .. Len(defs) /\ Len(defs) \in 1 .. 2
      /\ Len(keys) = Len(defs) /\ Len(keys) \in Nat
      /\ \A j \in 1 .. Len(keys) : /\ keys[j] = defs[j].name /\ keys[j] \in Name
                                   /\ defs[j] \in Def
  BY <1>1, NamesAre, Zenon
<1>3. i \in 1 .. Len(keys)
  BY <1>2
<1> QED
  BY <1>2, <1>3

LEMMA DeclMeets ==
    ASSUME NEW T, NEW h, History(T, h), phase = "semantic", "late_global" \notin Admit,
           NEW tag \in Tags, NEW defs \in Defs, Decl(tag, defs)
    PROVE  (\E condition : Error(condition)) \/ Met
<1>1. PICK s : s = IF symbols_level(symbols) > 0 THEN symbols_indent(symbols) ELSE symbols
  OBVIOUS
<1>2. PICK ok : ok = \A i \in DOMAIN defs : DefOK(s, tag, defs, i)
  OBVIOUS
<1>3. CASE Error(~ok)
  BY <1>3
<1>4. CASE ~Error(~ok)
  <2>1. PICK node : node = [kind |-> "decl", tag |-> tag, defs |-> defs]
    OBVIOUS
  <2>2. PICK t : Meet(node, t)
    BY <1>1, <1>2, <1>4, <2>1 DEF Decl
  <2>3. /\ NoLateGlobal(Range(NamesOf(defs)))
        /\ \A i \in DOMAIN defs : InitOK(s, tag, defs, i)
        /\ \A i \in DOMAIN defs : DefOK(s, tag, defs, i)
    BY <1>1, <1>2, <1>4 DEF Decl
  <2>4. node.kind = "decl" /\ node.tag = tag /\ node.defs = defs
    BY <2>1
  <2>5. /\ Good(symbols) /\ symbols.level \in Nat /\ (InFunction <=> symbols.level > 0)
        /\ s = IF symbols.level > 0 THEN symbols_indent(symbols) ELSE symbols
    BY <1>1, LevelTells DEF symbols_level
  <2>6. Fresh(node, symbols)
    <3>1. ASSUME symbols.level = 0, NEW i \in DOMAIN defs
          PROVE  LET before == AddAll(symbols, NamesOf(SubSeq(defs, 1, i - 1)), tag)
                 IN  \A x \in before.table : x.key # defs[i].name
      <4>1. s = symbols /\ ~InFunction /\ tag \in {"VARIABLE", "CONSTANT"}
        BY <2>5, <3>1 DEF Tags
      <4>2. DefOK(symbols, tag, defs, i)
        BY <2>3, <4>1
      <4> QED
        BY <2>3, <4>1, <4>2, DeclFresh
    <3> QED
      BY <2>4, <3>1 DEF Fresh
  <2>7. ASSUME Admit = {}
        PROVE  Accepted(node, symbols)
    <3>1. s.level = 0 => ~InFunction
      <4>1. s.level = 0 => symbols.level = 0
        BY <2>5, GoodIndent
      <4> QED
        BY <2>5, <4>1
    <3>2. ASSUME tag = "VARIABLE", NEW i \in DOMAIN defs
          PROVE  GoodDef(s, defs, i)
      <4>1. InitOK(s, tag, defs, i) /\ Admit = {}
        BY <2>3, <2>7
      <4>2. PICK after : after = AddAll(s, NamesOf(SubSeq(defs, 1, i)), tag)
        OBVIOUS
      <4>3. PICK init : init = defs[i].init
        OBVIOUS
      <4>4. init \in Name \cup {NoName}
        <5>1. defs[i] \in Def
          BY ONLY <3>2, defs \in Defs, DefIsDef
        <5> QED
          BY <4>1, <4>3, <5>1 DEF Def, Inits, Shifts
      <4>5. /\ GoodValue(after, init)
            /\ ~InFunction => ~Appends(after, init)
            /\ ~ \E j \in i + 1 .. Len(defs) : defs[j].name = init
        BY ONLY <3>2, <4>1, <4>2, <4>3 DEF InitOK
      <4> QED
        BY ONLY <3>1, <3>2, <4>2, <4>3, <4>4, <4>5 DEF GoodDef
    <3> QED
      BY <2>4, <2>5, <3>2 DEF Accepted
  <2> QED
    BY <2>2, <2>6, <2>7 DEF Met
<1> QED
  BY <1>3, <1>4

\* The nodes that define nothing.
LEMMA OtherMeets ==
    ASSUME NEW node, NEW t, Meet(node, t), node.kind \notin {"func", "decl"},
           Admit = {} => Accepted(node, symbols)
    PROVE  Met
<1>1. Fresh(node, symbols)
  BY DEF Fresh
<1> QED
  BY <1>1 DEF Met

LEMMA CallMeets ==
    ASSUME NEW T, NEW h, History(T, h), phase = "semantic", NEW name, Call(name)
    PROVE  (\E condition : Error(condition)) \/ Met
<1>1. CASE Error(symbols_get(symbols, name) = NoSym)
  BY <1>1
<1>2. CASE ~Error(symbols_get(symbols, name) = NoSym)
  <2>1. PICK node : node = [kind |-> "call", name |-> name]
    OBVIOUS
  <2>2. Meet(node, symbols) /\ symbols_get(symbols, name) # NoSym
    BY <1>2, <2>1 DEF Call
  <2>3. node.kind = "call" /\ node.name = name
    BY <2>1
  <2>4. symbols_get(symbols, name).tag \in Tag
    <3>1. Good(symbols)
      BY LevelTells
    <3>2. Counted(symbols) /\ SymbolsOK(symbols)
      BY <3>1, GoodInRange
    <3>3. PICK item : item = symbols_get(symbols, name)
      OBVIOUS
    <3>4. item \in symbols.table
      BY <2>2, <3>2, <3>3, GetFinds
    <3> QED
      BY <3>2, <3>3, <3>4 DEF SymbolsOK, Item
  <2>5. ASSUME Admit = {}
        PROVE  Accepted(node, symbols)
    <3>1. Denotes(symbols, name, Tag)
      BY <2>2, <2>4 DEF Denotes
    <3>2. Denotes(symbols, name, {"FUNCTION"})
      BY <2>5, <3>1 DEF Call
    <3> QED
      BY <2>3, <3>2 DEF Accepted
  <2> QED
    BY <2>2, <2>3, <2>5, OtherMeets
<1> QED
  BY <1>1, <1>2

LEMMA StatementMeets ==
    ASSUME \/ \E loop : Open(loop)
           \/ Close
           \/ \E value \in Name \cup Shifts : Use(value)
           \/ \E name \in Name, value \in Inits : Assign(name, value)
           \/ \E direct : Return(direct)
           \/ Break
    PROVE  (\E condition : Error(condition)) \/ Met
<1>1. ASSUME NEW loop, Open(loop)
      PROVE  Met
  <2>1. PICK node : node = [kind |-> "open", loop |-> loop]
    OBVIOUS
  <2>2. node.kind = "open" /\ \E t : Meet(node, t)
    BY <1>1, <2>1 DEF Open
  <2> QED
    BY <2>2, OtherMeets DEF Accepted
<1>2. ASSUME Close
      PROVE  Met
  <2>1. PICK node : node = [kind |-> "close"]
    OBVIOUS
  <2>2. node.kind = "close" /\ \E t : Meet(node, t)
    BY <1>2, <2>1 DEF Close
  <2> QED
    BY <2>2, OtherMeets DEF Accepted
<1>3. ASSUME NEW value \in Name \cup Shifts, Use(value), \A condition : ~Error(condition)
      PROVE  Met
  <2>1. PICK node : node = [kind |-> "use", value |-> value]
    OBVIOUS
  <2>2. node.kind = "use" /\ node.value = value
    BY <2>1
  <2>3. /\ Meet(node, symbols)
        /\ value \in Name => Denotes(symbols, value, {"VARIABLE", "CONSTANT"})
    BY <1>3, <2>1 DEF Use
  <2>4. Admit = {} => value \in Name
    BY <1>3 DEF Shifts
  <2>5. Admit = {} => Accepted(node, symbols)
    BY <2>2, <2>3, <2>4 DEF Accepted
  <2> QED
    BY <2>2, <2>3, <2>5, OtherMeets
<1>4. ASSUME NEW name \in Name, NEW value \in Inits, Assign(name, value),
             \A condition : ~Error(condition)
      PROVE  Met
  <2>1. PICK node : node = [kind |-> "assign", name |-> name, value |-> value]
    OBVIOUS
  <2>2. node.kind = "assign" /\ node.name = name /\ node.value = value
    BY <2>1
  <2>3. /\ Meet(node, symbols) /\ Denotes(symbols, name, {"VARIABLE"})
        /\ GoodValue(symbols, value)
    BY <1>4, <2>1 DEF Assign
  <2>4. Admit = {} => value \in Name \cup {NoName}
    BY <1>4 DEF Inits, Shifts
  <2>5. Admit = {} => Accepted(node, symbols)
    BY <2>2, <2>3, <2>4 DEF Accepted
  <2> QED
    BY <2>2, <2>3, <2>5, OtherMeets
<1>5. ASSUME NEW direct, Return(direct)
      PROVE  Met
  <2>1. PICK node : node = [kind |-> "return", direct |-> direct]
    OBVIOUS
  <2>2. node.kind = "return" /\ \E t : Meet(node, t)
    BY <1>5, <2>1 DEF Return
  <2> QED
    BY <2>2, OtherMeets DEF Accepted
<1>6. ASSUME Break, \A condition : ~Error(condition)
      PROVE  Met
  <2>1. PICK node : node = [kind |-> "break"]
    BY Zenon
  <2>2. node.kind = "break" /\ \E t : Meet(node, t)
    BY <1>6, <2>1 DEF Break
  <2> QED
    BY <2>2, OtherMeets DEF Accepted
<1> QED
  BY <1>1, <1>2, <1>3, <1>4, <1>5, <1>6

\* Whatever the first pass does.
LEMMA SemanticMeets ==
    ASSUME IInv, SemanticNext, "late_global" \notin Admit
    PROVE  (\E condition : Error(condition)) \/ EndOfFile \/ Met
<1>1. PICK T, h : History(T, h)
  BY DEF IInv
<1>2. phase = "semantic"
  BY DEF SemanticNext
<1>3. ASSUME NEW name \in Name, NEW params \in Params, FuncDef(name, params)
      PROVE  (\E condition : Error(condition)) \/ Met
  BY <1>1, <1>2, <1>3, FuncMeets
<1>4. ASSUME NEW tag \in Tags, NEW defs \in Defs, Decl(tag, defs)
      PROVE  (\E condition : Error(condition)) \/ Met
  BY <1>1, <1>2, <1>4, DeclMeets
<1>5. ASSUME NEW name \in Name, Call(name)
      PROVE  (\E condition : Error(condition)) \/ Met
  BY <1>1, <1>2, <1>5, CallMeets
<1>6. ASSUME \/ \E loop : Open(loop)
             \/ Close
             \/ \E value \in Name \cup Shifts : Use(value)
             \/ \E name \in Name, value \in Inits : Assign(name, value)
             \/ \E direct : Return(direct)
             \/ Break
      PROVE  (\E condition : Error(condition)) \/ Met
  BY <1>6, StatementMeets
<1> QED
  BY <1>3, <1>4, <1>5, <1>6 DEF SemanticNext

LEMMA ErrorBinds ==
    ASSUME phase = "semantic", NEW condition, Error(condition), UNCHANGED irVars
    PROVE  (Bindings => Bindings') /\ (Clean => Clean')
<1>1. /\ phase' = "rejected" /\ symbols' = symbols /\ ast' = ast /\ snap' = snap
      /\ raws' = raws
  BY DEF Error, irVars
<1>2. Final' = Final
  BY <1>1 DEF Final
<1>3. ASSUME Bindings
      PROVE  Bindings'
  <2>1. Elders(Final) /\ \A p \in 1 .. Len(snap) : Fixed(snap[p], Final)
    BY <1>3 DEF Bindings
  <2>2. Elders(Final)' /\ (\A p \in 1 .. Len(snap) : Fixed(snap[p], Final))'
    BY <1>1, <1>2, <2>1 DEF Elders, Fixed
  <2>3. Ready(AddLib(symbols_new), raws)'
    BY <1>1, <1>3 DEF Bindings, Ready
  <2> QED
    BY <1>1, <2>2, <2>3 DEF Bindings
<1>4. ASSUME Clean
      PROVE  Clean'
  BY <1>1, <1>4 DEF Clean
<1> QED
  BY <1>3, <1>4

\* Between the passes.
LEMMA EndBinds ==
    ASSUME IInv, IInv', phase = "semantic", Bindings, EndOfFile, UNCHANGED irVars
    PROVE  Bindings'
<1>1. PICK U, k : History(U, k)
  BY DEF IInv
<1>2. PICK T, h : History(T, h)'
  BY DEF IInv
<1>3. /\ phase' = "ir" /\ snap' = Append(snap, symbols) /\ Len(ast') = Len(ast) + 1
      /\ raws' = raws /\ pos' = pos
  <2>1. IsSeq(ast) /\ ast' = Append(ast, [kind |-> "eof"])
    BY <1>1, InFirstPass DEF EndOfFile
  <2>2. Pushed(ast', ast, [kind |-> "eof"])
    BY <2>1 DEF Pushed
  <2>3. Len(ast') = Len(ast) + 1
    BY <2>1, <2>2, AppendIs
  <2> QED
    BY <2>3 DEF EndOfFile, irVars
<1>4. Good(symbols) /\ IsSeq(snap) /\ Len(snap) = Len(ast) /\ Len(ast) \in Nat /\ pos = 1
  <2>1. IsSeq(ast) /\ Good(symbols)
    BY <1>1, InFirstPass
  <2> QED
    BY <1>1, <2>1 DEF History, InSemantic, IsSeq
<1>5. PICK n : n = Len(ast) + 1
  OBVIOUS
<1>6. PICK c : c = snap'
  OBVIOUS
<1>7. n \in Nat \ {0} /\ Len(c) = n /\ c[n] = symbols /\ \A p \in 1 .. n - 1 : c[p] = snap[p]
  <2>1. Pushed(c, snap, symbols)
    BY <1>3, <1>6 DEF Pushed
  <2>2. /\ Len(c) = Len(snap) + 1 /\ c[Len(snap) + 1] = symbols
        /\ \A i \in 1 .. Len(snap) : c[i] = snap[i]
    BY <1>4, <2>1, AppendIs
  <2> QED
    BY <1>4, <1>5, <2>2
<1>8. c[1] = AddLib(symbols_new)
  <2>1. PICK a : a = ast'
    OBVIOUS
  <2>2. Tree(a, T, h) /\ \A p \in 1 .. n : c[p] = T[p]
    BY <1>2, <1>3, <1>5, <1>6, <2>1 DEF History
  <2> QED
    BY <1>7, <2>2 DEF Tree
<1>9. Elders(symbols) /\ \A p \in 1 .. n : Fixed(c[p], symbols)
  <2>1. Elders(symbols) /\ \A p \in 1 .. n - 1 : Fixed(c[p], symbols)
    BY <1>4, <1>5, <1>7 DEF Bindings, Final
  <2>2. Fixed(symbols, symbols)
    BY <1>4, FixedItself
  <2>3. \A p \in 1 .. n : p = n \/ p \in 1 .. n - 1
    BY <1>7
  <2> QED
    BY <1>7, <2>1, <2>2, <2>3
<1>10. Final' = symbols
  BY <1>3, <1>6, <1>7 DEF Final
<1>11. Ready(snap[pos], raws)'
  <2>1. Ready(AddLib(symbols_new), raws)
    BY DEF Bindings
  <2>2. snap'[pos'] = AddLib(symbols_new)
    BY <1>3, <1>4, <1>6, <1>8
  <2> QED
    BY <1>3, <2>1, <2>2 DEF Ready
<1>12. \A p \in 1 .. Len(snap') : Fixed(snap'[p], Final')
  BY <1>6, <1>7, <1>9, <1>10
<1>13. Elders(Final)'
  BY <1>9, <1>10 DEF Elders
<1> QED
  BY <1>3, <1>11, <1>12, <1>13 DEF Bindings

LEMMA EndClean ==
    ASSUME IInv, phase = "semantic", Clean, EndOfFile
    PROVE  Clean'
<1>1. PICK node : node = [kind |-> "eof"]
  BY Zenon
<1>2. phase' = "ir" /\ ast' = Append(ast, node) /\ snap' = Append(snap, symbols)
  BY <1>1 DEF EndOfFile
<1>3. Accepted(node, symbols)
  BY <1>1 DEF Accepted
<1> QED
  BY <1>2, <1>3, NodeClean

\* A call of the first pass keeps what it says of the names, and of the checks.
LEMMA SemanticBinds ==
    ASSUME IInv, IInv', Bindings, SemanticNext, UNCHANGED irVars, "late_global" \notin Admit
    PROVE  Bindings'
<1>1. phase = "semantic"
  BY DEF SemanticNext
<1>2. ASSUME NEW condition, Error(condition)
      PROVE  Bindings'
  BY <1>1, <1>2, ErrorBinds
<1>3. ASSUME EndOfFile
      PROVE  Bindings'
  BY <1>1, <1>3, EndBinds
<1>4. ASSUME Met
      PROVE  Bindings'
  BY <1>1, <1>4, MeetBinds DEF Met
<1> QED
  BY <1>2, <1>3, <1>4, SemanticMeets

LEMMA SemanticClean ==
    ASSUME IInv, Clean, SemanticNext, UNCHANGED irVars, Admit = {}
    PROVE  Clean'
<1>1. phase = "semantic" /\ "late_global" \notin Admit
  BY DEF SemanticNext
<1>2. ASSUME NEW condition, Error(condition)
      PROVE  Clean'
  BY <1>1, <1>2, ErrorBinds
<1>3. ASSUME EndOfFile
      PROVE  Clean'
  BY <1>1, <1>3, EndClean
<1>4. ASSUME Met
      PROVE  Clean'
  <2>1. PICK node, t : Meet(node, t) /\ Accepted(node, symbols)
    BY <1>4 DEF Met
  <2>2. ast' = Append(ast, node) /\ snap' = Append(snap, symbols) /\ phase' # "aborted"
    BY <1>1, <2>1 DEF Meet
  <2> QED
    BY <1>1, <2>1, <2>2, NodeClean
<1> QED
  BY <1>1, <1>2, <1>3, <1>4, SemanticMeets

\* The runtime library is in the first table.
LEMMA InitBinds == Init => Bindings /\ Clean
<1> SUFFICES ASSUME Init PROVE Bindings /\ Clean
  OBVIOUS
<1>1. /\ phase = "semantic" /\ symbols = AddLib(symbols_new) /\ ast = <<>> /\ snap = <<>>
      /\ raws = Ids({item \in symbols.table : item.key \in Lib})
  BY DEF Init, SemanticInit
<1>2. PICK keys : keys = SetToSeq(Lib)
  OBVIOUS
<1>3. /\ Len(keys) \in Nat
      /\ \A i \in 1 .. Len(keys) : keys[i] \in Lib /\ keys[i] \in Name
      /\ \A i, j \in 1 .. Len(keys) : keys[i] = keys[j] => i = j
  BY <1>2, LibKeys
<1>4. Good(symbols_new) /\ symbols_new.table = {} /\ symbols_new.level = 0
  BY GoodNew, NewBuilds
<1>5. "FUNCTION" \in Tag
  BY DEF Tag
<1>6. PICK f : /\ List(f, symbols_new, keys, "FUNCTION")
               /\ AddAll(symbols_new, keys, "FUNCTION") = f[Len(keys)]
  BY <1>3, <1>4, <1>5, ListExists
<1>7. symbols = f[Len(keys)]
  BY <1>1, <1>2, <1>6 DEF AddLib
<1>8. \A n \in 0 .. Len(keys) : \A x \in f[n].table : \E i \in 1 .. n : x.key = keys[i]
  BY <1>4, <1>6, ListAdds DEF Listed
<1>9. Len(keys) \in 0 .. Len(keys)
  BY <1>3
<1>10. Elders(symbols)
  <2>1. Elders(symbols_new)
    BY <1>4 DEF Elders
  <2>2. ASSUME NEW i \in 1 .. Len(keys)
        PROVE  \A x \in f[i - 1].table : x.key # keys[i]
    <3>1. i - 1 \in 0 .. Len(keys) /\ \A j \in 1 .. i - 1 : j \in 1 .. Len(keys) /\ j # i
      BY <1>3
    <3> QED
      BY <1>3, <1>8, <3>1
  <2> QED
    BY <1>6, <1>7, <1>9, <2>1, <2>2, ListElders
<1>11. Ready(symbols, raws)
  <2>1. Good(symbols)
    BY <1>1, FirstTable
  <2>2. SymbolsOK(symbols) /\ CoherentTable(symbols) /\ InRange(symbols)
    BY <2>1, GoodInRange
  <2>3. ASSUME NEW item \in InView(symbols)
        PROVE  item.id \in raws
    <3>1. PICK l \in 0 .. symbols.level : item \in Link(symbols, l)
      BY DEF InView
    <3>2. item \in symbols.table
      BY <2>2, <3>1, ViewStamped
    <3>3. item.key \in Lib
      BY <1>3, <1>7, <1>8, <1>9, <3>2
    <3> QED
      BY <1>1, <3>2, <3>3 DEF Ids
  <2> QED
    BY <2>3 DEF Ready
<1>12. Len(snap) = 0 /\ Len(ast) = 0
  BY <1>1
<1> QED
  BY <1>1, <1>10, <1>11, <1>12 DEF Bindings, Final, Clean

-----------------------------------------------------------------------------
(* The second pass. *)

\* What is known of the tables around node p, s before it and t after it.
Bound(u, s, t, f, r) ==
    /\ Reached(u, s, f) /\ Good(s) /\ Good(t) /\ Good(f) /\ Later(s, f) /\ Later(t, f)
    /\ Elders(f) /\ Fixed(s, f) /\ Fixed(t, f)
    /\ Ready(s, r)

LEMMA IrFinal ==
    ASSUME NEW T, NEW h, History(T, h), phase = "ir", NEW f, f = T[Len(ast) + 1]
    PROVE  Final = f /\ T[Len(ast)] = f /\ Len(ast) \in Nat \ {0}
<1>1. PICK n : n = Len(ast)
  OBVIOUS
<1>2. PICK p : p = pos
  OBVIOUS
<1>3. AtNode(T, h, p, f)
  BY <1>2, InSecondPass
<1>4. n \in 1 .. n /\ n \in Nat \ {0} /\ Tree(ast, T, h) /\ ast[n].kind = "eof"
  BY <1>1, <1>3 DEF AtNode
<1>5. PICK node : node = ast[n]
  OBVIOUS
<1>6. Turn(node, n, T[n], h[n], T[n + 1], h[n + 1]) /\ node.kind = "eof"
  BY <1>1, <1>4, <1>5 DEF Tree
<1>7. T[n + 1] = T[n]
  BY <1>6 DEF Turn, Plain
<1>8. snap[n] = T[n] /\ Len(snap) = n
  BY <1>1, <1>4 DEF History
<1> QED
  BY <1>1, <1>4, <1>7, <1>8 DEF Final

LEMMA IrBound ==
    ASSUME NEW T, NEW h, History(T, h), phase = "ir", Bindings, NEW p, p = pos,
           NEW f, f = T[Len(ast) + 1]
    PROVE  Bound(symbols, T[p], T[p + 1], f, raws) /\ AtNode(T, h, p, f)
<1>1. AtNode(T, h, p, f)
  BY InSecondPass
<1>2. Final = f /\ T[Len(ast)] = f
  BY IrFinal
<1>3. /\ Len(snap) = Len(ast) /\ \A q \in 1 .. Len(ast) : snap[q] = T[q]
      /\ Len(ast) \in Nat /\ p \in 1 .. Len(ast)
  BY <1>1 DEF History, AtNode
<1>4. Elders(f) /\ \A q \in 1 .. Len(ast) : Fixed(T[q], f)
  BY <1>2, <1>3 DEF Bindings
<1>5. Ready(T[p], raws)
  BY <1>3 DEF Bindings
<1>6. Good(f)
  BY <1>1 DEF AtNode
<1>7. Fixed(T[p + 1], f)
  <2>1. CASE p + 1 \in 1 .. Len(ast)
    BY <1>4, <2>1
  <2>2. CASE p + 1 \notin 1 .. Len(ast)
    <3>1. p + 1 = Len(ast) + 1
      BY <1>3, <2>2
    <3> QED
      BY <1>6, <3>1, FixedItself
  <2> QED
    BY <2>1, <2>2
<1> QED
  BY <1>1, <1>3, <1>4, <1>5, <1>7 DEF AtNode, Bound

\* The second pass goes on to node q.
LEMMA IrBinds ==
    ASSUME NEW T, NEW h, History(T, h), phase = "ir", Bindings,
           UNCHANGED <<phase, ast, snap>>, NEW q \in 1 .. Len(ast), pos' = q,
           Ready(T[q], raws')
    PROVE  Bindings'
<1>1. phase' = "ir" /\ ast' = ast /\ snap' = snap
  OBVIOUS
<1>2. snap[q] = T[q]
  BY DEF History
<1>3. Final' = Final
  BY <1>1 DEF Final
<1> HIDE DEF Final
<1>4. Elders(Final)' <=> Elders(Final)
  BY <1>3 DEF Elders
<1>5. \A p \in 1 .. Len(snap) : Fixed(snap[p], Final)
  BY DEF Bindings
<1>6. (\A p \in 1 .. Len(snap) : Fixed(snap[p], Final))'
  BY <1>1, <1>3, <1>5
<1>7. Ready(snap[pos], raws)'
  BY <1>1, <1>2
<1>8. Elders(Final)
  BY DEF Bindings
<1> QED
  BY <1>1, <1>4, <1>6, <1>7, <1>8 DEF Bindings

\* It is over, or the process is.
LEMMA OverBinds ==
    ASSUME NEW T, NEW h, History(T, h), phase = "ir", Bindings,
           phase' \in {"aborted", "done"}, UNCHANGED <<ast, snap>>
    PROVE  Bindings'
<1>1. ast' = ast /\ snap' = snap
  OBVIOUS
<1>2. Final' = Final
  BY <1>1 DEF Final
<1> HIDE DEF Final
<1>3. Elders(Final)' <=> Elders(Final)
  BY <1>2 DEF Elders
<1>4. (\A p \in 1 .. Len(snap) : Fixed(snap[p], Final))' <=>
         \A p \in 1 .. Len(snap) : Fixed(snap[p], Final)
  BY <1>1, <1>2
<1> QED
  BY <1>3, <1>4 DEF Bindings

\* A scope that is opened brings nothing into view.
LEMMA IndentView ==
    ASSUME NEW s, Good(s), NEW t, t = symbols_indent(s)
    PROVE  InView(t) \subseteq InView(s)
<1>1. /\ t.level = s.level + 1 /\ Link(t, t.level) = {} /\ s.level \in Nat
      /\ \A l \in 0 .. s.level : t.levels[l] = s.levels[l]
  BY GoodIndent, GoodTypes
<1>2. ASSUME NEW x \in InView(t)
      PROVE  x \in InView(s)
  <2>1. PICK l \in 0 .. t.level : x \in Link(t, l)
    BY DEF InView
  <2>2. l \in 0 .. s.level
    BY <1>1, <2>1
  <2>3. Link(t, l) = Link(s, l)
    BY <1>1, <2>2 DEF Link
  <2> QED
    BY <2>1, <2>2, <2>3 DEF InView
<1> QED
  BY <1>2

\* A new symbol comes into view, alone.
LEMMA AddView ==
    ASSUME NEW s, Good(s), NEW key \in Name, NEW tag \in Tag,
           NEW t, t = symbols_add(s, key, tag), NEW y, y = NewItem(s, key, tag)
    PROVE  InView(t) \subseteq InView(s) \cup {y}
<1>1. ASSUME NEW x \in InView(t)
      PROVE  x \in InView(s) \/ x = y
  <2>1. PICK l \in 0 .. t.level : x \in Link(t, l)
    BY DEF InView
  <2>2. /\ t.level = s.level /\ Link(t, s.level) = Link(s, s.level) \cup {y}
        /\ \A j \in 0 .. s.depth - 1 : j # s.level => t.levels[j] = s.levels[j]
    BY GoodAdd
  <2>3. s.level \in 0 .. s.depth - 1 /\ s.level \in Nat /\ s.depth \in Nat
    BY GoodTypes
  <2>4. l \in 0 .. s.depth - 1 /\ l \in 0 .. s.level
    BY <2>1, <2>2, <2>3
  <2>5. CASE l = s.level
    BY <2>1, <2>2, <2>4, <2>5 DEF InView
  <2>6. CASE l # s.level
    <3>1. Link(t, l) = Link(s, l)
      BY <2>2, <2>4, <2>6 DEF Link
    <3> QED
      BY <2>1, <2>4, <3>1 DEF InView
  <2> QED
    BY <2>5, <2>6
<1> QED
  BY <1>1

\* A list brings its symbols into view, and no others.
LEMMA ListView ==
    ASSUME NEW f, NEW s, NEW keys, NEW tag, List(f, s, keys, tag), NEW n \in 0 .. Len(keys),
           NEW t, t = f[n], NEW x \in InView(t)
    PROVE  \/ x \in InView(s)
           \/ x \in Link(t, t.level) /\ x.tag = tag /\ \E i \in 1 .. n : x.key = keys[i]
<1>1. PICK m : m = Len(keys)
  OBVIOUS
<1>2. Steps(f, s, keys, tag, m)
  BY <1>1, ListSteps
<1>3. Good(s) /\ Added(s, t, n) /\ t.level = s.level
  BY <1>1, <1>2 DEF Steps
<1>4. s.level \in 0 .. s.depth - 1 /\ s.level \in Nat /\ s.depth \in Nat
  BY <1>3, GoodTypes
<1>5. Listed(s, keys, tag, t, n)
  BY ListAdds
<1>6. PICK l \in 0 .. t.level : x \in Link(t, l)
  BY DEF InView
<1>7. CASE l = s.level
  <2>1. \/ x \in Link(s, s.level)
        \/ x.tag = tag /\ \E i \in 1 .. n : x.key = keys[i]
    BY <1>5, <1>6, <1>7 DEF Listed
  <2>2. s.level \in 0 .. s.level
    BY <1>4
  <2> QED
    BY <1>3, <1>6, <1>7, <2>1, <2>2 DEF InView
<1>8. CASE l # s.level
  <2>1. l \in 0 .. s.depth - 1 /\ l \in 0 .. s.level
    BY <1>3, <1>4, <1>6
  <2>2. Link(t, l) = Link(s, l)
    BY <1>3, <1>8, <2>1 DEF Added, Link
  <2> QED
    BY <1>6, <2>1, <2>2 DEF InView
<1> QED
  BY <1>7, <1>8

\* After the header of a function there are in view what was before it, the
\* function, and its parameters.
LEMMA HeaderView ==
    ASSUME NEW s, Good(s), s.level = 0, NEW name \in Name, NEW params \in Params,
           NEW b, NEW c, NEW d, NEW t, Header(s, name, params, b, c, d, t)
    PROVE  /\ Seen(b, name) # {} /\ symbols_get(b, name) # NoSym
           /\ \A q \in Range(params) : Seen(d, q) # {} /\ symbols_get(d, q) # NoSym
           /\ InView(t) \subseteq InView(s) \cup {symbols_get(b, name)}
                                    \cup {symbols_get(d, q) : q \in Range(params)}
<1>1. /\ b = symbols_add(s, name, "FUNCTION") /\ c = symbols_indent(b)
      /\ t = symbols_indent(d)
  BY DEF Header
<1>2. Good(b) /\ Good(c) /\ Good(d) /\ Added(s, b, 1)
  BY FuncTables
<1>3. {"FUNCTION", "VARIABLE"} \subseteq Tag
  BY DEF Tag
<1>4. PICK y : y = NewItem(s, name, "FUNCTION")
  OBVIOUS
<1>5. Seen(b, name) # {} /\ symbols_get(b, name) = y /\ y \in b.table
  BY <1>1, <1>3, <1>4, NewIsFound, NewIs
<1>6. y # NoSym
  BY <1>2, <1>5, NoSymAssumption DEF Good, SymbolsOK
<1>7. InView(b) \subseteq InView(s) \cup {y}
  BY <1>1, <1>3, <1>4, AddView
<1>8. InView(c) \subseteq InView(b) /\ InView(t) \subseteq InView(d)
  BY <1>1, <1>2, IndentView
<1>9. PICK f : List(f, c, params, "VARIABLE") /\ d = f[Len(params)]
  BY FuncFixed
<1>10. f[0] = c /\ \A i \in 1 .. Len(params) : f[i] = symbols_add(f[i - 1], params[i], "VARIABLE")
  BY <1>9 DEF List, Adds
<1>11. CASE params = <<>>
  <2>1. d = c /\ Range(params) = {}
    BY <1>9, <1>10, <1>11 DEF Range
  <2> QED
    BY <1>5, <1>6, <1>7, <1>8, <2>1
<1>12. ASSUME NEW q \in Name, params = <<q>>
       PROVE  /\ \A k \in Range(params) : Seen(d, k) # {} /\ symbols_get(d, k) # NoSym
              /\ InView(d) \subseteq InView(c) \cup {symbols_get(d, k) : k \in Range(params)}
  <2>1. d = symbols_add(c, q, "VARIABLE") /\ Range(params) = {q}
    <3>1. Len(params) = 1 /\ 1 \in 1 .. Len(params) /\ params[1] = q /\ 1 - 1 = 0
      BY <1>12
    <3>2. d = f[1] /\ f[1] = symbols_add(f[1 - 1], params[1], "VARIABLE")
      BY <1>9, <1>10, <3>1
    <3>3. Range(params) = {q}
      BY <1>12 DEF Range
    <3> QED
      BY <1>10, <3>1, <3>2, <3>3
  <2>2. PICK z : z = NewItem(c, q, "VARIABLE")
    OBVIOUS
  <2>3. Seen(d, q) # {} /\ symbols_get(d, q) = z /\ z \in d.table
    BY <1>2, <1>3, <2>1, <2>2, NewIsFound, NewIs
  <2>4. z # NoSym
    BY <1>2, <2>3, NoSymAssumption DEF Good, SymbolsOK
  <2>5. InView(d) \subseteq InView(c) \cup {z}
    BY <1>2, <1>3, <2>1, <2>2, AddView
  <2> QED
    BY <2>1, <2>3, <2>4, <2>5
<1>13. params = <<>> \/ \E q \in Name : params = <<q>>
  BY DEF Params
<1> QED
  BY <1>5, <1>6, <1>7, <1>8, <1>11, <1>12, <1>13

\* What the first pass has put into its current scope the second one finds there.
LEMMA HereFinds ==
    ASSUME NEW u, NEW t, NEW f, Reached(u, t, f), Good(t), Good(f), Later(t, f), Fixed(t, f),
           NEW x \in Link(t, t.level)
    PROVE  x \in Here(u, x.key)
<1>1. t.level \in 0 .. t.level /\ t.level \in 0 .. t.depth - 1 /\ u.level = t.level
  BY ReachedTogether, GoodTypes
<1>2. PICK l : l = t.level
  OBVIOUS
<1>3. SymbolsOK(t) /\ CoherentTable(t) /\ InRange(t)
  BY GoodInRange
<1>4. x \in InView(t) /\ x.level = l
  BY <1>1, <1>2, <1>3, ViewStamped
<1>5. SymbolsOK(u) /\ CoherentTable(u) /\ InRange(u)
  BY ReachedInRange
<1>6. x \in InView(u)
  BY <1>4, ViewGrows
<1>7. PICK k \in 0 .. u.level : x \in Link(u, k)
  BY <1>6 DEF InView
<1>8. x \in u.table /\ x.level = k /\ x.scope = u.levels[k].scope
  BY <1>5, <1>7, ViewStamped
<1>9. symbols_here(u, x)
  BY <1>1, <1>2, <1>4, <1>8 DEF symbols_here
<1> QED
  BY <1>8, <1>9 DEF Here, symbols_lookup

\* What it looks up for a function: its symbol, and its parameters one scope further.
Lookups(name, params, u, item, found) ==
    /\ u = symbols_enter(symbols) /\ item = symbols_get(symbols, name)
    /\ found = {symbols_get(u, q) : q \in Range(params)}

\* It finds them.
LEMMA FuncFinds ==
    ASSUME NEW s, NEW t, NEW f, NEW r, Bound(symbols, s, t, f, r), s.level = 0,
           NEW name \in Name, NEW params \in Params,
           t = symbols_indent(AddAll(symbols_indent(symbols_add(s, name, "FUNCTION")),
                                     params, "VARIABLE")),
           NEW u, NEW item, NEW found, Lookups(name, params, u, item, found)
    PROVE  /\ CanEnter(symbols) /\ CanEnter(u)
           /\ item # NoSym /\ NoSym \notin found
           /\ InView(t) \subseteq InView(s) \cup {item} \cup found
<1>0. /\ u = symbols_enter(symbols) /\ item = symbols_get(symbols, name)
      /\ found = {symbols_get(u, q) : q \in Range(params)}
  BY DEF Lookups
<1>1. PICK b : b = symbols_add(s, name, "FUNCTION")
  OBVIOUS
<1>2. PICK c : c = symbols_indent(b)
  OBVIOUS
<1>3. PICK d : d = AddAll(c, params, "VARIABLE")
  OBVIOUS
<1>4. Header(s, name, params, b, c, d, t)
  BY <1>1, <1>2, <1>3 DEF Header
<1>5. /\ Reached(symbols, s, f) /\ Good(s) /\ Good(t) /\ Good(f) /\ Later(t, f)
      /\ Elders(f) /\ Fixed(t, f)
  BY DEF Bound
<1>6. /\ Added(s, b, 1) /\ Added(c, d, Len(params))
      /\ Good(b) /\ Good(c) /\ Good(d) /\ Later(b, t) /\ Later(c, t) /\ Later(d, t)
  BY <1>4, <1>5, FuncTables
<1>7. Later(b, f) /\ Later(c, f) /\ Later(d, f)
  BY <1>5, <1>6, LaterTransitive
<1>8. Fixed(b, f) /\ Fixed(d, f)
  <2>1. Fixed(b, t) /\ Fixed(d, t)
    BY <1>4, <1>5, FuncFixed
  <2> QED
    BY <1>5, <1>6, <2>1, FixedTransitive
<1>9. Reached(symbols, b, f)
  BY <1>5, <1>6, AddReaches
<1>10. Reached(u, c, f) /\ CanEnter(symbols)
  BY <1>0, <1>2, <1>5, <1>6, <1>7, <1>9, EnterReaches
<1>11. Reached(u, d, f)
  BY <1>5, <1>6, <1>10, AddReaches
<1>12. CanEnter(u)
  <2>1. t = symbols_indent(d)
    BY <1>4 DEF Header
  <2> QED
    BY <1>5, <1>6, <1>11, <2>1, EnterReaches
<1>13. /\ Seen(b, name) # {} /\ symbols_get(b, name) # NoSym
       /\ \A q \in Range(params) : Seen(d, q) # {} /\ symbols_get(d, q) # NoSym
       /\ InView(t) \subseteq InView(s) \cup {symbols_get(b, name)}
                                \cup {symbols_get(d, q) : q \in Range(params)}
  BY <1>4, <1>5, HeaderView
<1>14. item = symbols_get(b, name)
  BY <1>0, <1>5, <1>6, <1>7, <1>8, <1>9, <1>13, SameGet
<1>15. ASSUME NEW q \in Range(params)
       PROVE  symbols_get(u, q) = symbols_get(d, q)
  BY <1>5, <1>6, <1>7, <1>8, <1>11, <1>13, SameGet
<1>16. found = {symbols_get(d, q) : q \in Range(params)}
  BY <1>0, <1>15
<1> QED
  BY <1>10, <1>12, <1>13, <1>14, <1>16

\* It finds the symbols of a list of definitions in the scope it is in then.
LEMMA DeclFinds ==
    ASSUME NEW s, NEW t, NEW f, NEW r, Bound(symbols, s, t, f, r),
           NEW defs \in Defs, NEW tag \in {"VARIABLE", "CONSTANT"},
           NEW keys, keys = NamesOf(defs),
           NEW b, b = IF s.level > 0 THEN symbols_indent(s) ELSE s, t = AddAll(b, keys, tag),
           NEW u, u = IF symbols.level > 0 THEN symbols_enter(symbols) ELSE symbols
    PROVE  /\ symbols.level = s.level /\ (s.level > 0 => CanEnter(symbols))
           /\ Reached(u, t, f)
           /\ \A i \in DOMAIN defs : Here(u, defs[i].name) # {}
           /\ \A x \in InView(t) :
                 \/ x \in InView(s)
                 \/ x.tag = tag /\ \E i \in DOMAIN defs : x \in Here(u, defs[i].name)
           /\ \E g : List(g, b, keys, tag) /\ t = g[Len(keys)]
<1>1. /\ Reached(symbols, s, f) /\ Good(s) /\ Good(t) /\ Good(f) /\ Later(s, f)
      /\ Later(t, f) /\ Elders(f) /\ Fixed(t, f)
  BY DEF Bound
<1>2. t = AddAll(IF s.level > 0 THEN symbols_indent(s) ELSE s, NamesOf(defs), tag)
  OBVIOUS
<1>3. Good(b) /\ \E g : List(g, b, keys, tag) /\ t = g[Len(keys)]
  BY <1>1, <1>2, DeclList
<1>4. PICK g : List(g, b, keys, tag) /\ t = g[Len(keys)]
  BY <1>3
<1>5. PICK m : m = Len(keys)
  OBVIOUS
<1>6. /\ DOMAIN defs = 1 .. Len(defs) /\ m = Len(defs) /\ m \in Nat
      /\ \A i \in 1 .. m : keys[i] = defs[i].name
  <2>1. /\ DOMAIN defs = 1 .. Len(defs) /\ Len(defs) \in 1 .. 2
        /\ Len(keys) = Len(defs) /\ Len(keys) \in Nat
        /\ \A i \in 1 .. Len(keys) : /\ keys[i] = defs[i].name /\ keys[i] \in Name
                                     /\ defs[i] \in Def
    BY NamesAre, Zenon
  <2> QED
    BY <1>5, <2>1
<1>7. Added(b, t, m)
  <2>1. Steps(g, b, keys, tag, m)
    BY <1>4, <1>5, ListSteps
  <2>2. m \in 0 .. m
    BY <1>6
  <2> QED
    BY <1>4, <1>5, <2>1, <2>2 DEF Steps
<1>8. Later(b, f)
  BY <1>1, <1>3, <1>7, LaterTransitive DEF Added
<1>9. symbols.level = s.level
  BY <1>1 DEF Reached, Matches
<1>10. Reached(u, b, f) /\ (s.level > 0 => CanEnter(symbols))
  <2>1. CASE s.level > 0
    <3>1. b = symbols_indent(s) /\ u = symbols_enter(symbols)
      BY <1>9, <2>1
    <3> QED
      BY <1>1, <1>8, <3>1, EnterReaches
  <2>2. CASE ~(s.level > 0)
    BY <1>1, <1>9, <2>2
  <2> QED
    BY <2>1, <2>2
<1>11. Reached(u, t, f)
  BY <1>1, <1>7, <1>10, AddReaches
<1>12. ASSUME NEW x \in Link(t, t.level)
       PROVE  x \in Here(u, x.key)
  BY <1>1, <1>11, HereFinds
<1>13. ASSUME NEW i \in DOMAIN defs
       PROVE  Here(u, defs[i].name) # {}
  <2>1. m \in 0 .. Len(keys) /\ t = g[m] /\ i \in 1 .. m
    <3>1. m \in 0 .. m /\ m = Len(keys)
      BY <1>5, <1>6
    <3>2. i \in 1 .. m
      BY <1>6
    <3> QED
      BY <1>4, <3>1, <3>2
  <2>5. keys[i] = defs[i].name
    BY <1>6, <2>1
  <2>2. Listed(b, keys, tag, t, m)
    BY <1>4, <2>1, ListAdds
  <2>3. t.level = b.level
    BY <1>7 DEF Added
  <2>4. PICK x \in Link(t, t.level) : x.key = keys[i]
    BY <2>1, <2>2, <2>3 DEF Listed
  <2> QED
    BY <1>12, <2>4, <2>5
<1>14. ASSUME NEW x \in InView(t)
       PROVE  \/ x \in InView(s)
              \/ x.tag = tag /\ \E i \in DOMAIN defs : x \in Here(u, defs[i].name)
  <2>1. InView(b) \subseteq InView(s)
    BY <1>1, IndentView
  <2>2. m \in 0 .. Len(keys) /\ t = g[m]
    BY <1>4, <1>5, <1>6
  <2>3. \/ x \in InView(b)
        \/ x \in Link(t, t.level) /\ x.tag = tag /\ \E i \in 1 .. m : x.key = keys[i]
    BY <1>4, <2>2, ListView
  <2> QED
    BY <1>6, <1>12, <2>1, <2>3
<1> QED
  BY <1>3, <1>9, <1>10, <1>11, <1>13, <1>14

\* Only a declaration or a function brings something into view.
LEMMA OtherView ==
    ASSUME NEW a, NEW T, NEW p \in Nat, NEW s, Good(s), NEW node, NEW e, NEW t, NEW g,
           Shape(a, T, p, s, e), \A q \in 1 .. p - 1 : Good(T[q]),
           Turn(node, p, s, e, t, g), node.kind \notin {"func", "decl"}
    PROVE  InView(t) \subseteq InView(s)
<1>1. CASE t = symbols_indent(s)
  BY <1>1, IndentView
<1>2. CASE /\ e # <<>>
           /\ t = IF Len(e) = 1 THEN symbols_leave(symbols_leave(s)) ELSE symbols_leave(s)
  <2>1. t.levels = s.levels /\ t.level \in Nat /\ t.level < s.level
    BY <1>2, CloseBinds
  <2>2. s.level \in Nat
    BY GoodTypes
  <2>3. ASSUME NEW x \in InView(t)
        PROVE  x \in InView(s)
    <3>1. PICK l \in 0 .. t.level : x \in Link(t, l)
      BY DEF InView
    <3>2. l \in 0 .. s.level
      BY <2>1, <2>2
    <3> QED
      BY <2>1, <3>1, <3>2 DEF InView, Link
  <2> QED
    BY <2>3
<1>3. CASE t = s
  BY <1>3
<1> QED
  BY <1>1, <1>2, <1>3 DEF Turn

\* A node that leaves the raws as they are.
LEMMA IrOtherBinds ==
    ASSUME NEW T, NEW h, History(T, h), phase = "ir", Bindings, NEW p, p = pos,
           ast[p].kind \notin {"func", "decl", "eof"},
           UNCHANGED <<phase, ast, snap, raws>>, pos' = p + 1
    PROVE  Bindings'
<1>1. PICK f : f = T[Len(ast) + 1]
  OBVIOUS
<1>2. Bound(symbols, T[p], T[p + 1], f, raws) /\ AtNode(T, h, p, f)
  BY <1>1, IrBound
<1>3. /\ Tree(ast, T, h) /\ p \in 1 .. Len(ast) /\ Len(ast) \in Nat
      /\ ast[Len(ast)].kind = "eof" /\ Shape(ast, T, p, T[p], h[p])
  BY <1>2 DEF AtNode
<1>4. p + 1 \in 1 .. Len(ast)
  <2>1. p # Len(ast)
    BY <1>3
  <2> QED
    BY <1>3, <2>1
<1>5. \A q \in 1 .. p - 1 : Good(T[q])
  <2>1. \A q \in 1 .. p - 1 : q \in 1 .. Len(ast) + 1
    BY <1>3
  <2> QED
    BY <1>3, <2>1 DEF Tree
<1>6. PICK node : node = ast[p]
  OBVIOUS
<1>7. PICK t : t = T[p + 1]
  OBVIOUS
<1>8. Turn(node, p, T[p], h[p], t, h[p + 1]) /\ node.kind \notin {"func", "decl"}
  BY <1>2, <1>6, <1>7 DEF AtNode
<1>9. InView(t) \subseteq InView(T[p])
  <2>1. Good(T[p]) /\ p \in Nat
    BY <1>2, <1>3 DEF Bound
  <2> QED
    BY <1>3, <1>5, <1>8, <2>1, OtherView
<1>10. Ready(t, raws')
  BY <1>2, <1>9 DEF Bound, Ready
<1> QED
  BY <1>4, <1>7, <1>10, IrBinds

\* What the handler of a function at the node looks up, and what it asserts.
FuncParts(node, u, item, found, outer, inner) ==
    /\ u = symbols_enter(symbols) /\ item = symbols_get(symbols, node.name)
    /\ found = {symbols_get(u, q) : q \in Range(node.params)}
    /\ outer = <<IF item = NoSym THEN "FuncDef:symbol" ELSE "none", EnterFault(symbols)>>
    /\ inner = <<IF NoSym \in found THEN "FuncFParam:symbol" ELSE "none", EnterFault(u)>>

LEMMA IrFuncDoes ==
    ASSUME IrFuncDef, NEW node, node = Node, NEW u, NEW item, NEW found, NEW outer, NEW inner,
           FuncParts(node, u, item, found, outer, inner)
    PROVE  \/ Abort(First(outer)) \/ Abort(First(inner))
           \/ Return2(First(inner), symbols_enter(u), raws \cup Ids({item} \cup found))
BY DEF IrFuncDef, FuncParts

LEMMA IrFuncBinds ==
    ASSUME NEW T, NEW h, History(T, h), Bindings, IrFuncDef
    PROVE  Bindings'
<1>1. phase = "ir" /\ ast[pos].kind = "func"
  BY DEF IrFuncDef, At
<1>2. PICK p : p = pos
  OBVIOUS
<1>3. PICK f : f = T[Len(ast) + 1]
  OBVIOUS
<1>4. PICK node : node = ast[p]
  OBVIOUS
<1>5. PICK s : s = T[p]
  OBVIOUS
<1>6. PICK t : t = T[p + 1]
  OBVIOUS
<1>7. Bound(symbols, s, t, f, raws) /\ AtNode(T, h, p, f)
  BY <1>1, <1>2, <1>3, <1>5, <1>6, IrBound
<1>8. /\ s.level = 0 /\ node.name \in Name /\ node.params \in Params
      /\ t = symbols_indent(AddAll(symbols_indent(symbols_add(s, node.name, "FUNCTION")),
                                   node.params, "VARIABLE"))
  <2>1. Turn(node, p, s, h[p], t, h[p + 1]) /\ node.kind = "func"
    BY <1>1, <1>2, <1>4, <1>5, <1>6, <1>7 DEF AtNode
  <2>2. Shape(ast, T, p, s, h[p])
    BY <1>5, <1>7 DEF AtNode
  <2> QED
    BY <2>1, <2>2 DEF Turn, Plain, Shape
<1>9. PICK u : u = symbols_enter(symbols)
  OBVIOUS
<1>10. PICK item : item = symbols_get(symbols, node.name)
  OBVIOUS
<1>11. PICK found : found = {symbols_get(u, q) : q \in Range(node.params)}
  OBVIOUS
<1>12. \/ \E why : Abort(why)
       \/ \E why : Return2(why, symbols_enter(u), raws \cup Ids({item} \cup found))
  <2>1. Node = node
    BY <1>2, <1>4 DEF Node
  <2>2. PICK outer : outer = <<IF item = NoSym THEN "FuncDef:symbol" ELSE "none",
                               EnterFault(symbols)>>
    OBVIOUS
  <2>3. PICK inner : inner = <<IF NoSym \in found THEN "FuncFParam:symbol" ELSE "none",
                               EnterFault(u)>>
    OBVIOUS
  <2>4. FuncParts(node, u, item, found, outer, inner)
    BY <1>9, <1>10, <1>11, <2>2, <2>3 DEF FuncParts
  <2>5. \/ Abort(First(outer)) \/ Abort(First(inner))
        \/ Return2(First(inner), symbols_enter(u), raws \cup Ids({item} \cup found))
    BY <2>1, <2>4, IrFuncDoes
  <2> QED
    BY <2>5
<1>13. ASSUME NEW why, Abort(why)
       PROVE  Bindings'
  <2>1. phase' = "aborted" /\ UNCHANGED <<ast, snap>>
    BY <1>13 DEF Abort
  <2> QED
    BY <1>1, <2>1, OverBinds
<1>14. ASSUME NEW why, Return2(why, symbols_enter(u), raws \cup Ids({item} \cup found))
       PROVE  Bindings'
  <2>1. /\ UNCHANGED <<phase, ast, snap>> /\ pos' = p + 1
        /\ raws' = raws \cup Ids({item} \cup found)
    BY <1>2, <1>14 DEF Return2
  <2>2. InView(t) \subseteq InView(s) \cup {item} \cup found
    <3>1. PICK name : name = node.name
      OBVIOUS
    <3>2. PICK params : params = node.params
      OBVIOUS
    <3>3. /\ s.level = 0 /\ name \in Name /\ params \in Params
          /\ t = symbols_indent(AddAll(symbols_indent(symbols_add(s, name, "FUNCTION")),
                                       params, "VARIABLE"))
      BY <1>8, <3>1, <3>2
    <3>4. Lookups(name, params, u, item, found)
      BY <1>9, <1>10, <1>11, <3>1, <3>2 DEF Lookups
    <3> QED
      BY <1>7, <3>3, <3>4, FuncFinds
  <2>3. Ready(s, raws)
    BY <1>7 DEF Bound
  <2>4. Ready(t, raws')
    BY <2>1, <2>2, <2>3 DEF Ready, Ids
  <2>5. p + 1 \in 1 .. Len(ast)
    <3>1. p \in 1 .. Len(ast) /\ Len(ast) \in Nat /\ ast[Len(ast)].kind = "eof"
      BY <1>7 DEF AtNode
    <3>2. p # Len(ast)
      BY <1>1, <1>2, <3>1
    <3> QED
      BY <3>1, <3>2
  <2> QED
    BY <1>1, <1>6, <2>1, <2>4, <2>5, IrBinds
<1> QED
  BY <1>12, <1>13, <1>14

LEMMA IrDeclBinds ==
    ASSUME NEW T, NEW h, History(T, h), Bindings, IrDecl
    PROVE  Bindings'
<1>1. phase = "ir" /\ ast[pos].kind = "decl"
  BY DEF IrDecl, At
<1>2. PICK p : p = pos
  OBVIOUS
<1>3. PICK f : f = T[Len(ast) + 1]
  OBVIOUS
<1>4. PICK node : node = ast[p]
  OBVIOUS
<1>5. PICK s : s = T[p]
  OBVIOUS
<1>6. PICK t : t = T[p + 1]
  OBVIOUS
<1>7. Bound(symbols, s, t, f, raws) /\ AtNode(T, h, p, f)
  BY <1>1, <1>2, <1>3, <1>5, <1>6, IrBound
<1>8. PICK defs : defs = node.defs
  OBVIOUS
<1>9. PICK keys : keys = NamesOf(defs)
  OBVIOUS
<1>10. PICK b : b = IF s.level > 0 THEN symbols_indent(s) ELSE s
  OBVIOUS
<1>11. PICK u : u = IF symbols.level > 0 THEN symbols_enter(symbols) ELSE symbols
  OBVIOUS
<1>12. PICK tag : tag = node.tag
  OBVIOUS
<1>13. /\ tag \in {"VARIABLE", "CONSTANT"} /\ defs \in Defs /\ t = AddAll(b, keys, tag)
  <2>1. Turn(node, p, s, h[p], t, h[p + 1]) /\ node.kind = "decl"
    BY <1>1, <1>2, <1>4, <1>5, <1>6, <1>7 DEF AtNode
  <2>2. /\ node.tag \in {"VARIABLE", "CONSTANT"} /\ node.defs \in Defs
        /\ t = AddAll(IF s.level > 0 THEN symbols_indent(s) ELSE s, NamesOf(node.defs), node.tag)
    BY <2>1 DEF Turn, Plain
  <2> QED
    BY <1>8, <1>9, <1>10, <1>12, <2>2
<1>14. \A x \in InView(t) :
          \/ x \in InView(s)
          \/ x.tag = tag /\ \E i \in DOMAIN defs : x \in Here(u, defs[i].name)
  BY <1>7, <1>9, <1>10, <1>11, <1>13, DeclFinds
<1>15. PICK r : r = IF tag = "VARIABLE"
                    THEN raws \cup Ids(UNION {Here(u, defs[i].name) : i \in DOMAIN defs})
                    ELSE raws
  OBVIOUS
<1>16. \/ \E why : Abort(why)
       \/ \E why : Return2(why, u, r)
  <2>1. Node = node
    BY <1>2, <1>4 DEF Node
  <2> QED
    BY <1>8, <1>11, <1>12, <1>15, <2>1 DEF IrDecl, symbols_level
<1>17. ASSUME NEW why, Abort(why)
       PROVE  Bindings'
  <2>1. phase' = "aborted" /\ UNCHANGED <<ast, snap>>
    BY <1>17 DEF Abort
  <2> QED
    BY <1>1, <2>1, OverBinds
<1>18. ASSUME NEW why, Return2(why, u, r)
       PROVE  Bindings'
  <2>1. /\ UNCHANGED <<phase, ast, snap>> /\ pos' = p + 1 /\ raws' = r
    BY <1>2, <1>18 DEF Return2
  <2>2. Ready(s, raws)
    BY <1>7 DEF Bound
  <2>3. ASSUME NEW x \in InView(t), x.tag # "CONSTANT"
        PROVE  x.id \in raws'
    <3>1. CASE x \in InView(s)
      BY <1>15, <2>1, <2>2, <2>3, <3>1 DEF Ready
    <3>2. CASE x.tag = tag /\ \E i \in DOMAIN defs : x \in Here(u, defs[i].name)
      <4>1. tag = "VARIABLE"
        BY <1>13, <2>3, <3>2
      <4>2. x \in UNION {Here(u, defs[i].name) : i \in DOMAIN defs}
        BY <3>2
      <4> QED
        BY <1>15, <2>1, <4>1, <4>2 DEF Ids
    <3> QED
      BY <1>14, <3>1, <3>2
  <2>4. Ready(t, raws')
    BY <2>3 DEF Ready
  <2>5. p + 1 \in 1 .. Len(ast)
    <3>1. p \in 1 .. Len(ast) /\ Len(ast) \in Nat /\ ast[Len(ast)].kind = "eof"
      BY <1>7 DEF AtNode
    <3>2. p # Len(ast)
      BY <1>1, <1>2, <3>1
    <3> QED
      BY <3>1, <3>2
  <2> QED
    BY <1>1, <1>6, <2>1, <2>4, <2>5, IrBinds
<1> QED
  BY <1>16, <1>17, <1>18

LEMMA IrSkipBinds ==
    ASSUME NEW T, NEW h, History(T, h), Bindings, IrSkip
    PROVE  Bindings'
<1>1. /\ phase = "ir" /\ m_returned /\ pos' = EndOfBlock
      /\ UNCHANGED <<phase, ast, snap>> /\ raws' = raws
  BY DEF IrSkip
<1>2. PICK p : p = pos
  OBVIOUS
<1>3. PICK f : f = T[Len(ast) + 1]
  OBVIOUS
<1>4. PICK r : r = EndOfBlock
  OBVIOUS
<1>5. Bound(symbols, T[p], T[p + 1], f, raws) /\ AtNode(T, h, p, f)
  BY <1>1, <1>2, <1>3, IrBound
<1>6. /\ Tree(ast, T, h) /\ p \in 1 .. Len(ast) /\ Len(ast) \in Nat
      /\ ast[Len(ast)].kind = "eof"
      /\ \E q \in 1 .. p - 1 : Returns(ast, q) /\ h[q] = h[p]
  BY <1>1, <1>5 DEF AtNode
<1>7. PICK q \in 1 .. p - 1 : Returns(ast, q) /\ h[q] = h[p]
  BY <1>6
<1>8. r \in p .. Len(ast) /\ T[r] = T[p]
  BY <1>2, <1>4, <1>6, <1>7, SkipEnds
<1>9. r \in 1 .. Len(ast)
  BY <1>6, <1>8
<1>10. Ready(T[r], raws')
  BY <1>1, <1>5, <1>8 DEF Bound
<1> QED
  BY <1>1, <1>4, <1>9, <1>10, IrBinds

LEMMA IrKeepsBindings ==
    ASSUME IInv, Bindings, Ir
    PROVE  Bindings'
<1>1. PICK T, h : History(T, h)
  BY DEF IInv
<1>2. CASE IrFuncDef
  BY <1>1, <1>2, IrFuncBinds
<1>3. CASE IrDecl
  BY <1>1, <1>3, IrDeclBinds
<1>4. CASE IrSkip
  BY <1>1, <1>4, IrSkipBinds
<1>5. ASSUME phase = "ir", NEW why, Abort(why)
      PROVE  Bindings'
  <2>1. phase' = "aborted" /\ UNCHANGED <<ast, snap>>
    BY <1>5 DEF Abort
  <2> QED
    BY <1>1, <1>5, <2>1, OverBinds
<1>6. ASSUME phase = "ir", ast[pos].kind \notin {"func", "decl", "eof"},
             NEW why, NEW s, Return2(why, s, raws)
      PROVE  Bindings'
  <2>1. UNCHANGED <<phase, ast, snap, raws>> /\ pos' = pos + 1
    BY <1>6 DEF Return2
  <2>2. PICK p : p = pos
    OBVIOUS
  <2>3. pos' = p + 1 /\ ast[p].kind \notin {"func", "decl", "eof"}
    BY <1>6, <2>1, <2>2
  <2> QED
    BY <1>1, <1>6, <2>1, <2>2, <2>3, IrOtherBinds
<1>7. CASE IrOpen
  BY <1>5, <1>6, <1>7 DEF IrOpen, At
<1>8. CASE IrClose
  BY <1>5, <1>6, <1>8 DEF IrClose, At
<1>9. CASE IrUse \/ IrAssign
  BY <1>5, <1>6, <1>9 DEF IrUse, IrAssign, At
<1>10. CASE IrCall \/ IrReturn \/ IrBreak
  BY <1>5, <1>6, <1>10 DEF IrCall, IrReturn, IrBreak, At
<1>11. CASE IrEnd
  <2>1. phase = "ir" /\ ((\E why : Abort(why)) \/ (phase' = "done" /\ UNCHANGED <<ast, snap>>))
    BY <1>11 DEF IrEnd, At
  <2> QED
    BY <1>1, <1>5, <2>1, OverBinds
<1> QED
  BY <1>2, <1>3, <1>4, <1>7, <1>8, <1>9, <1>10, <1>11 DEF Ir

LEMMA NextKeepsBindings ==
    ASSUME "late_global" \notin Admit, IInv, IInv', Bindings, [Next]_vars
    PROVE  Bindings'
<1>1. CASE SemanticNext /\ UNCHANGED irVars
  BY <1>1, SemanticBinds
<1>2. CASE Ir
  BY <1>2, IrKeepsBindings
<1>3. CASE UNCHANGED vars
  <2>1. phase' = phase /\ symbols' = symbols /\ snap' = snap /\ raws' = raws /\ pos' = pos
    BY <1>3 DEF vars
  <2>2. Final' = Final
    BY <2>1 DEF Final
  <2> HIDE DEF Final
  <2>3. Elders(Final)' <=> Elders(Final)
    BY <2>2 DEF Elders
  <2>4. (\A p \in 1 .. Len(snap) : Fixed(snap[p], Final))' <=>
           \A p \in 1 .. Len(snap) : Fixed(snap[p], Final)
    BY <2>1, <2>2
  <2> QED
    BY <2>1, <2>3, <2>4 DEF Bindings
<1> QED
  BY <1>1, <1>2, <1>3 DEF Next, Over

LEMMA BoundSameBinding == IInv /\ Bindings => SameBinding
<1> SUFFICES ASSUME IInv, Bindings, phase = "ir", NEW key \in Name,
                    symbols_get(snap[pos], key) # NoSym
             PROVE  symbols_get(symbols, key) = symbols_get(snap[pos], key)
  BY DEF SameBinding
<1>1. PICK T, h : History(T, h)
  BY DEF IInv
<1>2. PICK p : p = pos
  OBVIOUS
<1>3. PICK f : f = T[Len(ast) + 1]
  OBVIOUS
<1>4. Bound(symbols, T[p], T[p + 1], f, raws) /\ p \in 1 .. Len(ast)
  BY <1>1, <1>2, <1>3, IrBound DEF AtNode
<1>5. PICK s : s = T[p]
  OBVIOUS
<1>6. snap[pos] = s
  BY <1>1, <1>2, <1>4, <1>5 DEF History
<1>7. /\ Reached(symbols, s, f) /\ Good(s) /\ Good(f) /\ Later(s, f) /\ Fixed(s, f)
      /\ Elders(f)
  BY <1>4, <1>5 DEF Bound
<1>8. Seen(s, key) # {}
  BY <1>6, <1>7, GetInView
<1>9. symbols_get(symbols, key) = symbols_get(s, key)
  BY <1>7, <1>8, SameGet
<1> QED
  BY <1>6, <1>9

LEMMA BoundRawsReady == IInv /\ Bindings => RawsReady
<1> SUFFICES ASSUME IInv, Bindings, phase = "ir", NEW item \in snap[pos].table,
                    symbols_saw(snap[pos], item), item.tag # "CONSTANT"
             PROVE  item.id \in raws
  BY DEF RawsReady
<1>1. PICK T, h : History(T, h)
  BY DEF IInv
<1>2. PICK p : p = pos
  OBVIOUS
<1>3. PICK f : f = T[Len(ast) + 1]
  OBVIOUS
<1>4. Bound(symbols, T[p], T[p + 1], f, raws) /\ p \in 1 .. Len(ast)
  BY <1>1, <1>2, <1>3, IrBound DEF AtNode
<1>5. PICK s : s = T[p]
  OBVIOUS
<1>6. snap[pos] = s
  BY <1>1, <1>2, <1>4, <1>5 DEF History
<1>7. Good(s) /\ Ready(s, raws)
  BY <1>4, <1>5 DEF Bound
<1>8. item \in Seen(s, item.key)
  BY <1>6 DEF Seen, symbols_lookup
<1>9. Seen(s, item.key) = {x \in InView(s) : x.key = item.key}
  BY <1>7, GoodInRange, ViewIsSeen
<1>10. item \in InView(s)
  BY <1>8, <1>9
<1> QED
  BY <1>7, <1>10 DEF Ready

-----------------------------------------------------------------------------
(* What the assertions of the second pass need. *)

LEMMA FirstNothing ==
    ASSUME NEW faults, Len(faults) \in Nat, \A i \in 1 .. Len(faults) : faults[i] = "none"
    PROVE  First(faults) = "none"
<1>1. SelectInSeq(faults, LAMBDA f : f # "none") = 0
  BY DEF SelectInSeq
<1> QED
  BY <1>1 DEF First

LEMMA FirstOfTwo ==
    ASSUME NEW x, NEW y, x = "none", y = "none", NEW faults, faults = <<x, y>>
    PROVE  First(faults) = "none"
<1>1. Len(faults) = 2 /\ faults[1] = "none" /\ faults[2] = "none"
  OBVIOUS
<1>2. Len(faults) \in Nat /\ \A i \in 1 .. Len(faults) : i = 1 \/ i = 2
  BY <1>1
<1> QED
  BY <1>1, <1>2, FirstNothing

LEMMA FirstOfThree ==
    ASSUME NEW x, NEW y, NEW z, x = "none", y = "none", z = "none",
           NEW faults, faults = <<x, y, z>>
    PROVE  First(faults) = "none"
<1>1. Len(faults) = 3 /\ faults[1] = "none" /\ faults[2] = "none" /\ faults[3] = "none"
  OBVIOUS
<1>2. Len(faults) \in Nat /\ \A i \in 1 .. Len(faults) : i = 1 \/ i = 2 \/ i = 3
  BY <1>1
<1> QED
  BY <1>1, <1>2, FirstNothing

\* What a name meant to the first pass it means to the second one, with its raw.
LEMMA NameFinds ==
    ASSUME NEW u, NEW s, NEW t, NEW f, NEW r, Bound(u, s, t, f, r), NEW key, NEW tags,
           Denotes(s, key, tags), NEW item, item = symbols_get(u, key)
    PROVE  item # NoSym /\ item.tag \in tags /\ (item.tag # "CONSTANT" => item.id \in r)
<1>1. /\ Reached(u, s, f) /\ Good(s) /\ Good(f) /\ Later(s, f) /\ Fixed(s, f) /\ Elders(f)
      /\ Ready(s, r)
  BY DEF Bound
<1>2. PICK x : x = symbols_get(s, key)
  OBVIOUS
<1>3. x # NoSym /\ x.tag \in tags
  BY <1>2 DEF Denotes
<1>4. x \in InView(s) /\ Seen(s, key) # {}
  BY <1>1, <1>2, <1>3, GetInView
<1>5. item = x
  BY <1>1, <1>2, <1>4, SameGet
<1> QED
  BY <1>1, <1>3, <1>4, <1>5 DEF Ready

\* A literal is no name and no shift: Exp finds nothing amiss.
LEMMA LiteralIsFine ==
    ASSUME NEW u, NEW r
    PROVE  ExpFault(u, r, NoName) = "none" /\ NoName \notin Name
<1>1. NoName \notin Name /\ NoName # Shift
  BY SemanticAssumption
<1> QED
  BY <1>1 DEF ExpFault

LEMMA NameIsLVal ==
    ASSUME NEW u, NEW r, NEW value \in Name, LValFault(u, r, value) = "none"
    PROVE  ExpFault(u, r, value) = "none"
<1>1. value # Shift
  BY SemanticAssumption
<1> QED
  BY <1>1 DEF ExpFault

LEMMA ValueFinds ==
    ASSUME NEW u, NEW s, NEW t, NEW f, NEW r, Bound(u, s, t, f, r),
           NEW value \in Name \cup {NoName}, Admit = {}, GoodValue(s, value)
    PROVE  ExpFault(u, r, value) = "none"
<1>1. CASE value = NoName
  BY <1>1, LiteralIsFine
<1>2. CASE value \in Name /\ Denotes(s, value, {"VARIABLE", "CONSTANT"})
  <2>1. PICK item : item = symbols_get(u, value)
    OBVIOUS
  <2>2. /\ item # NoSym /\ item.tag \in {"VARIABLE", "CONSTANT"}
        /\ item.tag # "CONSTANT" => item.id \in r
    BY <1>2, <2>1, NameFinds
  <2>3. LValFault(u, r, value) = "none"
    BY <2>1, <2>2, LValFinds
  <2> QED
    BY <1>2, <2>3, NameIsLVal
<1> QED
  BY <1>1, <1>2 DEF GoodValue

\* So it is with the initializers of a list, which the first pass has checked with
\* the definitions before them added.
LEMMA InitFinds ==
    ASSUME NEW s, NEW t, NEW f, NEW r, Bound(symbols, s, t, f, r), Admit = {},
           NEW defs \in Defs, NEW keys, keys = NamesOf(defs),
           NEW b, b = IF s.level > 0 THEN symbols_indent(s) ELSE s,
           t = AddAll(b, keys, "VARIABLE"),
           NEW u, u = IF symbols.level > 0 THEN symbols_enter(symbols) ELSE symbols,
           NEW i \in DOMAIN defs, GoodDef(b, defs, i)
    PROVE  VarDefFault(u, r, defs, i) = "none"
<1>1. /\ Good(s) /\ Good(t) /\ Good(f) /\ Later(t, f) /\ Elders(f) /\ Fixed(t, f)
      /\ Ready(s, r)
  BY DEF Bound
<1>2. PICK tag : tag = "VARIABLE"
  OBVIOUS
<1>3. tag \in {"VARIABLE", "CONSTANT"} /\ t = AddAll(b, keys, tag)
  BY <1>2
<1>4. /\ symbols.level = s.level /\ Reached(u, t, f)
      /\ \A j \in DOMAIN defs : Here(u, defs[j].name) # {}
      /\ \E g : List(g, b, keys, tag) /\ t = g[Len(keys)]
  BY <1>3, DeclFinds
<1>5. PICK g : List(g, b, keys, tag) /\ t = g[Len(keys)]
  BY <1>4
<1>6. PICK m : m = Len(keys)
  OBVIOUS
<1>7. /\ m \in Nat /\ i \in 1 .. m /\ Len(defs) = m
      /\ \A j \in 1 .. m : keys[j] = defs[j].name
  <2>1. /\ DOMAIN defs = 1 .. Len(defs) /\ Len(defs) \in 1 .. 2
        /\ Len(keys) = Len(defs) /\ Len(keys) \in Nat
        /\ \A j \in 1 .. Len(keys) : /\ keys[j] = defs[j].name /\ keys[j] \in Name
                                     /\ defs[j] \in Def
    BY NamesAre, Zenon
  <2> QED
    BY <1>6, <2>1
<1>8. Steps(g, b, keys, tag, m)
  BY <1>5, <1>6, ListSteps
<1>9. PICK v : v = g[i]
  OBVIOUS
<1>10. Good(b) /\ Good(v) /\ v.level = b.level /\ t.level = b.level
  <2>1. i \in 0 .. m /\ m \in 0 .. m
    BY <1>7
  <2> QED
    BY <1>5, <1>6, <1>8, <1>9, <2>1 DEF Steps
<1>11. PICK init : init = defs[i].init
  OBVIOUS
<1>12. AddAll(b, NamesOf(SubSeq(defs, 1, i)), "VARIABLE") = v
  <2>1. i \in 0 .. Len(defs)
    BY <1>7
  <2> QED
    BY <1>2, <1>5, <1>9, <2>1, ListPrefix
<1>13. /\ init \in Name \cup {NoName}
       /\ GoodValue(v, init)
       /\ b.level = 0 => ~Appends(v, init)
       /\ \A j \in i + 1 .. m : keys[j] # init
  <2>1. /\ init \in Name \cup {NoName}
        /\ GoodValue(v, init)
        /\ b.level = 0 => ~Appends(v, init)
        /\ \A j \in i + 1 .. Len(defs) : defs[j].name # init
    BY <1>11, <1>12 DEF GoodDef
  <2>2. \A j \in i + 1 .. m : j \in 1 .. m
    BY <1>7
  <2> QED
    BY <1>7, <2>1, <2>2
<1>14. u.level = t.level /\ s.level \in Nat
  BY <1>1, <1>4, GoodTypes DEF Reached, Matches
<1>15. PICK done : done = Ids(UNION {Here(u, defs[j].name) :
                                        j \in 1 .. (IF u.level = 0 THEN i - 1 ELSE i)})
  OBVIOUS
<1>16. ExpFault(u, r \cup done, init) = "none" /\ (u.level = 0 => ~Appends(u, init))
  <2>1. CASE init = NoName
    <3>1. b.level = 0 => init # Operation
      BY <1>13 DEF Appends
    <3>2. u.level = 0 => b.level = 0
      BY <1>10, <1>14
    <3>3. init \notin Name /\ ExpFault(u, r \cup done, init) = "none"
      BY <2>1, LiteralIsFine
    <3> QED
      BY <3>1, <3>2, <3>3 DEF Appends
  <2>2. CASE init \in Name
    <3>0. init # Operation
      BY <2>2, SemanticAssumption
    <3>1. Denotes(v, init, {"VARIABLE", "CONSTANT"})
      BY <1>13, <2>2 DEF GoodValue
    <3>2. PICK x : x = symbols_get(v, init)
      OBVIOUS
    <3>3. x # NoSym /\ x.tag \in {"VARIABLE", "CONSTANT"}
      BY <3>1, <3>2 DEF Denotes
    <3>4. x \in InView(v) /\ x.key = init /\ Seen(v, init) # {}
      BY <1>10, <3>2, <3>3, GetInView
    <3>5. Seen(t, init) = Seen(v, init)
      <4>1. i \in 0 .. Len(keys) /\ \A j \in i + 1 .. Len(keys) : keys[j] # init
        BY <1>6, <1>7, <1>13
      <4> QED
        BY <1>5, <1>9, <4>1, ListSeen
    <3>6. x = symbols_get(t, init) /\ Seen(t, init) # {}
      <4> HIDE DEF Seen
      <4> QED
        BY <3>2, <3>4, <3>5 DEF symbols_get
    <3>7. x = symbols_get(u, init)
      BY <1>1, <1>4, <3>6, SameGet
    <3>8. CASE x.tag = "CONSTANT"
      <4>1. LValFault(u, r \cup done, init) = "none"
        BY <3>3, <3>7, <3>8, LValFinds
      <4>2. Denotes(u, init, {"CONSTANT"})
        BY <3>3, <3>7, <3>8 DEF Denotes
      <4>3. ~Appends(u, init)
        BY <3>0, <4>2 DEF Appends
      <4> QED
        BY <2>2, <4>1, <4>3, NameIsLVal
    <3>9. CASE x.tag = "VARIABLE"
      <4>1. s.level > 0 /\ b.level > 0 /\ u.level # 0
        <5>1. b.level # 0
          <6>1. ~Denotes(v, init, {"CONSTANT"})
            BY <3>2, <3>9 DEF Denotes
          <6> QED
            BY <1>13, <2>2, <6>1 DEF Appends
        <5>2. b.level \in Nat
          BY <1>10, GoodTypes
        <5>3. s.level > 0
          BY <1>14, <5>1
        <5> QED
          BY <1>10, <1>14, <5>1, <5>2, <5>3
      <4>2. i \in 0 .. Len(keys)
        BY <1>6, <1>7
      <4>3. \/ x \in InView(b)
            \/ x \in Link(v, v.level) /\ \E j \in 1 .. i : x.key = keys[j]
        BY <1>5, <1>9, <3>4, <4>2, ListView
      <4>4. x.id \in r \cup done
        <5>1. CASE x \in InView(b)
          <6>1. InView(b) \subseteq InView(s)
            BY <1>1, IndentView
          <6> QED
            BY <1>1, <3>9, <5>1, <6>1 DEF Ready
        <5>2. ASSUME x \in Link(v, v.level), NEW j \in 1 .. i, x.key = keys[j]
              PROVE  x.id \in r \cup done
          <6>1. x \in Link(t, t.level)
            <7>1. PICK l \in 0 .. t.level : x \in Link(t, l)
              <8>1. x \in InView(t)
                BY <1>1, <3>3, <3>6, GetInView
              <8> QED
                BY <8>1 DEF InView
            <7>2. SymbolsOK(t) /\ CoherentTable(t) /\ InRange(t)
              BY <1>1, GoodInRange
            <7>3. SymbolsOK(v) /\ CoherentTable(v) /\ InRange(v) /\ v.level \in 0 .. v.level
              BY <1>10, GoodInRange, GoodTypes
            <7>4. x.level = l
              BY <7>1, <7>2, ViewStamped
            <7>5. x.level = v.level
              BY <5>2, <7>3, ViewStamped
            <7> QED
              BY <1>10, <7>1, <7>4, <7>5
          <6>2. x \in Here(u, x.key)
            BY <1>1, <1>4, <6>1, HereFinds
          <6>3. j \in 1 .. m /\ x.key = defs[j].name
            <7>1. j \in 1 .. m
              BY <1>7
            <7> QED
              BY <1>7, <5>2, <7>1
          <6>4. x \in UNION {Here(u, defs[k].name) :
                               k \in 1 .. (IF u.level = 0 THEN i - 1 ELSE i)}
            BY <4>1, <6>2, <6>3
          <6> QED
            BY <1>15, <6>4 DEF Ids
        <5> QED
          BY <4>3, <5>1, <5>2
      <4>5. LValFault(u, r \cup done, init) = "none"
        BY <3>3, <3>7, <4>4, LValFinds
      <4> QED
        BY <2>2, <4>1, <4>5, NameIsLVal
    <3> QED
      BY <3>3, <3>8, <3>9
  <2> QED
    BY <1>13, <2>1, <2>2
<1>17. Here(u, defs[i].name) # {}
  BY <1>4
<1>18. VarDefFault(u, r, defs, i) =
          First(<<IF Here(u, defs[i].name) = {} THEN "VarDef:symbol" ELSE "none",
                  ExpFault(u, r \cup done, init),
                  BlockFault(u, init)>>)
  BY <1>11, <1>15 DEF VarDefFault
<1>19. BlockFault(u, init) = "none"
  BY <1>16 DEF BlockFault
<1> QED
  BY <1>16, <1>17, <1>18, <1>19, FirstOfThree

\* No handler of the second pass aborts.
LEMMA FuncGoes ==
    ASSUME NEW T, NEW h, History(T, h), Bindings, IrFuncDef
    PROVE  phase' # "aborted"
<1>1. phase = "ir" /\ ast[pos].kind = "func"
  BY DEF IrFuncDef, At
<1>2. PICK p : p = pos
  OBVIOUS
<1>3. PICK f : f = T[Len(ast) + 1]
  OBVIOUS
<1>4. PICK node : node = ast[p]
  OBVIOUS
<1>5. PICK s : s = T[p]
  OBVIOUS
<1>6. PICK t : t = T[p + 1]
  OBVIOUS
<1>7. Bound(symbols, s, t, f, raws) /\ AtNode(T, h, p, f)
  BY <1>1, <1>2, <1>3, <1>5, <1>6, IrBound
<1>8. /\ s.level = 0 /\ node.name \in Name /\ node.params \in Params
      /\ t = symbols_indent(AddAll(symbols_indent(symbols_add(s, node.name, "FUNCTION")),
                                   node.params, "VARIABLE"))
  <2>1. Turn(node, p, s, h[p], t, h[p + 1]) /\ node.kind = "func"
    BY <1>1, <1>2, <1>4, <1>5, <1>6, <1>7 DEF AtNode
  <2>2. Shape(ast, T, p, s, h[p])
    BY <1>5, <1>7 DEF AtNode
  <2> QED
    BY <2>1, <2>2 DEF Turn, Plain, Shape
<1>9. PICK u : u = symbols_enter(symbols)
  OBVIOUS
<1>10. PICK item : item = symbols_get(symbols, node.name)
  OBVIOUS
<1>11. PICK found : found = {symbols_get(u, q) : q \in Range(node.params)}
  OBVIOUS
<1>12. PICK outer : outer = <<IF item = NoSym THEN "FuncDef:symbol" ELSE "none",
                              EnterFault(symbols)>>
  OBVIOUS
<1>13. PICK inner : inner = <<IF NoSym \in found THEN "FuncFParam:symbol" ELSE "none",
                              EnterFault(u)>>
  OBVIOUS
<1>14. CanEnter(symbols) /\ CanEnter(u) /\ item # NoSym /\ NoSym \notin found
  <2>1. PICK name : name = node.name
    OBVIOUS
  <2>2. PICK params : params = node.params
    OBVIOUS
  <2>3. /\ s.level = 0 /\ name \in Name /\ params \in Params
        /\ t = symbols_indent(AddAll(symbols_indent(symbols_add(s, name, "FUNCTION")),
                                     params, "VARIABLE"))
    BY <1>8, <2>1, <2>2
  <2>4. Lookups(name, params, u, item, found)
    BY <1>9, <1>10, <1>11, <2>1, <2>2 DEF Lookups
  <2> QED
    BY <1>7, <2>3, <2>4, FuncFinds
<1>15. First(outer) = "none" /\ First(inner) = "none"
  <2>1. EnterFault(symbols) = "none" /\ EnterFault(u) = "none"
    BY <1>14 DEF EnterFault
  <2> QED
    BY <1>12, <1>13, <1>14, <2>1, FirstOfTwo
<1>16. FuncParts(node, u, item, found, outer, inner)
  BY <1>9, <1>10, <1>11, <1>12, <1>13 DEF FuncParts
<1>17. Node = node
  BY <1>2, <1>4 DEF Node
<1>18. \/ Abort(First(outer)) \/ Abort(First(inner))
       \/ Return2(First(inner), symbols_enter(u), raws \cup Ids({item} \cup found))
  BY <1>16, <1>17, IrFuncDoes
<1>19. ~Abort(First(outer)) /\ ~Abort(First(inner))
  BY <1>15 DEF Abort
<1> QED
  BY <1>1, <1>18, <1>19 DEF Return2

LEMMA DeclGoes ==
    ASSUME NEW T, NEW h, History(T, h), Bindings, Clean, Admit = {}, IrDecl
    PROVE  phase' # "aborted"
<1>1. phase = "ir" /\ ast[pos].kind = "decl"
  BY DEF IrDecl, At
<1>2. PICK p : p = pos
  OBVIOUS
<1>3. PICK f : f = T[Len(ast) + 1]
  OBVIOUS
<1>4. PICK node : node = ast[p]
  OBVIOUS
<1>5. PICK s : s = T[p]
  OBVIOUS
<1>6. PICK t : t = T[p + 1]
  OBVIOUS
<1>7. Bound(symbols, s, t, f, raws) /\ AtNode(T, h, p, f)
  BY <1>1, <1>2, <1>3, <1>5, <1>6, IrBound
<1>8. PICK defs : defs = node.defs
  OBVIOUS
<1>9. PICK keys : keys = NamesOf(defs)
  OBVIOUS
<1>10. PICK b : b = IF s.level > 0 THEN symbols_indent(s) ELSE s
  OBVIOUS
<1>11. PICK u : u = IF symbols.level > 0 THEN symbols_enter(symbols) ELSE symbols
  OBVIOUS
<1>12. PICK tag : tag = node.tag
  OBVIOUS
<1>13. /\ tag \in {"VARIABLE", "CONSTANT"} /\ defs \in Defs /\ t = AddAll(b, keys, tag)
  <2>1. Turn(node, p, s, h[p], t, h[p + 1]) /\ node.kind = "decl"
    BY <1>1, <1>2, <1>4, <1>5, <1>6, <1>7 DEF AtNode
  <2>2. /\ node.tag \in {"VARIABLE", "CONSTANT"} /\ node.defs \in Defs
        /\ t = AddAll(IF s.level > 0 THEN symbols_indent(s) ELSE s, NamesOf(node.defs), node.tag)
    BY <2>1 DEF Turn, Plain
  <2> QED
    BY <1>8, <1>9, <1>10, <1>12, <2>2
<1>14. symbols.level = s.level /\ (s.level > 0 => CanEnter(symbols))
  BY <1>7, <1>9, <1>10, <1>11, <1>13, DeclFinds
<1>15. ASSUME tag = "VARIABLE", NEW i \in DOMAIN defs
       PROVE  VarDefFault(u, raws, defs, i) = "none"
  <2>1. Accepted(node, s)
    <3>1. p \in 1 .. Len(ast)
      BY <1>7 DEF AtNode
    <3> QED
      BY <1>4, <1>5, <3>1 DEF Clean, History
  <2>2. node.kind = "decl" /\ node.tag = "VARIABLE"
    BY <1>1, <1>2, <1>4, <1>12, <1>15
  <2>3. GoodDef(b, defs, i)
    BY <1>8, <1>10, <2>1, <2>2 DEF Accepted
  <2>4. t = AddAll(b, keys, "VARIABLE")
    BY <1>13, <1>15
  <2> QED
    BY <1>7, <1>9, <1>10, <1>11, <1>13, <2>3, <2>4, InitFinds
<1>16. PICK faults : faults = [i \in DOMAIN defs |-> VarDefFault(u, raws, defs, i)]
  OBVIOUS
<1>17. tag = "VARIABLE" => First(faults) = "none"
  <2>1. DOMAIN defs = 1 .. Len(defs) /\ Len(defs) \in Nat
    <3>1. /\ DOMAIN defs = 1 .. Len(defs) /\ Len(defs) \in 1 .. 2
          /\ Len(keys) = Len(defs) /\ Len(keys) \in Nat
          /\ \A i \in 1 .. Len(keys) : /\ keys[i] = defs[i].name /\ keys[i] \in Name
                                       /\ defs[i] \in Def
      BY <1>9, <1>13, NamesAre, Zenon
    <3> QED
      BY <3>1
  <2>2. Len(faults) = Len(defs)
    BY <1>16, <2>1
  <2>3. tag = "VARIABLE" => \A i \in 1 .. Len(faults) : faults[i] = "none"
    BY <1>15, <1>16, <2>1, <2>2
  <2> QED
    BY <2>1, <2>2, <2>3, FirstNothing
<1>18. PICK why : why = IF symbols.level > 0 THEN EnterFault(symbols) ELSE "none"
  OBVIOUS
<1>19. PICK inner : inner = IF tag = "VARIABLE" THEN First(faults) ELSE "none"
  OBVIOUS
<1>20. why = "none" /\ inner = "none"
  BY <1>14, <1>17, <1>18, <1>19 DEF EnterFault
<1>21. \/ Abort(why) \/ Abort(inner) \/ \E r : Return2(inner, u, r)
  <2>1. Node = node
    BY <1>2, <1>4 DEF Node
  <2> QED
    BY <1>8, <1>11, <1>12, <1>16, <1>18, <1>19, <2>1 DEF IrDecl, symbols_level
<1>22. ~Abort(why) /\ ~Abort(inner)
  BY <1>20 DEF Abort
<1> QED
  BY <1>1, <1>21, <1>22 DEF Return2

LEMMA OpenGoes ==
    ASSUME NEW T, NEW h, History(T, h), Bindings, IrOpen
    PROVE  phase' # "aborted"
<1>1. phase = "ir" /\ ast[pos].kind = "open"
  BY DEF IrOpen, At
<1>2. PICK p : p = pos
  OBVIOUS
<1>3. PICK f : f = T[Len(ast) + 1]
  OBVIOUS
<1>4. PICK node : node = ast[p]
  OBVIOUS
<1>5. PICK s : s = T[p]
  OBVIOUS
<1>6. PICK t : t = T[p + 1]
  OBVIOUS
<1>7. Bound(symbols, s, t, f, raws) /\ AtNode(T, h, p, f)
  BY <1>1, <1>2, <1>3, <1>5, <1>6, IrBound
<1>8. t = symbols_indent(s)
  <2>1. Turn(node, p, s, h[p], t, h[p + 1]) /\ node.kind = "open"
    BY <1>1, <1>2, <1>4, <1>5, <1>6, <1>7 DEF AtNode
  <2> QED
    BY <2>1 DEF Turn, Plain
<1>9. CanEnter(symbols)
  <2>1. PICK w : w = symbols_enter(symbols)
    OBVIOUS
  <2>2. Reached(symbols, s, f) /\ Good(s) /\ Good(f) /\ Later(t, f)
    BY <1>7 DEF Bound
  <2> QED
    BY <1>8, <2>1, <2>2, EnterReaches
<1>10. EnterFault(symbols) = "none"
  BY <1>9 DEF EnterFault
<1>11. ~Abort(EnterFault(symbols))
  BY <1>10 DEF Abort
<1> QED
  BY <1>1, <1>11 DEF IrOpen, Return2

LEMMA CloseGoes ==
    ASSUME NEW T, NEW h, History(T, h), Bindings, IrClose
    PROVE  phase' # "aborted"
<1>1. phase = "ir" /\ ast[pos].kind = "close"
  BY DEF IrClose, At
<1>2. PICK p : p = pos
  OBVIOUS
<1>3. PICK f : f = T[Len(ast) + 1]
  OBVIOUS
<1>4. PICK u : u = symbols_dedent(symbols)
  OBVIOUS
<1>5. AtNode(T, h, p, f)
  BY <1>1, <1>2, <1>3, InSecondPass
<1>6. Reached(symbols, T[p], f) /\ Good(T[p])
  BY <1>5 DEF AtNode
<1>7. SymbolsOK(symbols) /\ VisitQueues(symbols) /\ symbols.level = T[p].level
  BY <1>6 DEF Reached, Matches
<1>8. symbols.level >= 0
  BY <1>6, <1>7, GoodTypes
<1>9. DedentAsserts(symbols) /\ SymbolsOK(u) /\ VisitQueues(u)
  BY <1>4, <1>7, <1>8, DedentQueues
<1>10. Top.kind = "func" => DedentAsserts(u)
  <2>1. PICK w : w = IF Top.kind = "func" THEN symbols_dedent(u) ELSE u
    OBVIOUS
  <2>2. Top.kind = "func" => u.level = 1
    BY <1>1, <1>2, <1>3, <1>4, <2>1, IrCloses
  <2>3. ASSUME u.level = 1
        PROVE  DedentAsserts(u)
    <3>1. u.level >= 0
      BY <2>3
    <3> QED
      BY <1>9, <3>1, DedentQueues
  <2> QED
    BY <2>2, <2>3
<1>11. PICK then : then = IF Top.kind = "func" THEN DedentFault(u) ELSE "none"
  OBVIOUS
<1>12. DedentFault(symbols) = "none" /\ then = "none"
  BY <1>9, <1>10, <1>11 DEF DedentFault
<1>13. Abort(DedentFault(symbols)) \/ Abort(then) \/ \E s : Return2(then, s, raws)
  BY <1>4, <1>11 DEF IrClose
<1>14. ~Abort(DedentFault(symbols)) /\ ~Abort(then)
  BY <1>12 DEF Abort
<1> QED
  BY <1>1, <1>13, <1>14 DEF Return2

\* The node the second pass is at was accepted by the first one with the table s.
LEMMA IrAccepted ==
    ASSUME NEW T, NEW h, History(T, h), Bindings, Clean, phase = "ir",
           NEW p, p = pos, NEW node, node = ast[p]
    PROVE  /\ Bound(symbols, T[p], T[p + 1], T[Len(ast) + 1], raws)
           /\ Accepted(node, T[p]) /\ Node = node
<1>1. PICK f : f = T[Len(ast) + 1]
  OBVIOUS
<1>2. Bound(symbols, T[p], T[p + 1], f, raws) /\ AtNode(T, h, p, f)
  BY <1>1, IrBound
<1>3. p \in 1 .. Len(ast)
  BY <1>2 DEF AtNode
<1>4. Accepted(node, T[p])
  BY <1>3 DEF Clean, History
<1> QED
  BY <1>1, <1>2, <1>4 DEF Node

LEMMA UseGoes ==
    ASSUME NEW T, NEW h, History(T, h), Bindings, Clean, IrUse
    PROVE  phase' # "aborted"
<1>1. phase = "ir" /\ ast[pos].kind = "use"
  BY DEF IrUse, At
<1>2. PICK p : p = pos
  OBVIOUS
<1>3. PICK node : node = ast[p]
  OBVIOUS
<1>4. PICK item : item = symbols_get(symbols, node.value)
  OBVIOUS
<1>5. /\ Bound(symbols, T[p], T[p + 1], T[Len(ast) + 1], raws)
      /\ Accepted(node, T[p]) /\ Node = node
  BY <1>1, <1>2, <1>3, IrAccepted
<1>6. node.value \in Name /\ Denotes(T[p], node.value, {"VARIABLE", "CONSTANT"})
  BY <1>1, <1>2, <1>3, <1>5 DEF Accepted
<1>7. /\ item # NoSym /\ item.tag \in {"VARIABLE", "CONSTANT"}
      /\ item.tag # "CONSTANT" => item.id \in raws
  BY <1>4, <1>5, <1>6, NameFinds
<1>8. LValFault(symbols, raws, node.value) = "none"
  BY <1>4, <1>7, LValFinds
<1>9. ~Abort(ExpFault(symbols, raws, Node.value))
  <2>1. ExpFault(symbols, raws, node.value) = "none"
    BY <1>6, <1>8, NameIsLVal
  <2> QED
    BY <1>5, <2>1 DEF Abort
<1> QED
  BY <1>1, <1>9 DEF IrUse, Return2

LEMMA AssignGoes ==
    ASSUME NEW T, NEW h, History(T, h), Bindings, Clean, Admit = {}, IrAssign
    PROVE  phase' # "aborted"
<1>1. phase = "ir" /\ ast[pos].kind = "assign"
  BY DEF IrAssign, At
<1>2. PICK p : p = pos
  OBVIOUS
<1>3. PICK node : node = ast[p]
  OBVIOUS
<1>4. PICK item : item = symbols_get(symbols, node.name)
  OBVIOUS
<1>5. /\ Bound(symbols, T[p], T[p + 1], T[Len(ast) + 1], raws)
      /\ Accepted(node, T[p]) /\ Node = node
  BY <1>1, <1>2, <1>3, IrAccepted
<1>6. /\ Denotes(T[p], node.name, {"VARIABLE"})
      /\ node.value \in Name \cup {NoName} /\ GoodValue(T[p], node.value)
  BY <1>1, <1>2, <1>3, <1>5 DEF Accepted
<1>7. /\ item # NoSym /\ item.tag \in {"VARIABLE"}
      /\ item.tag # "CONSTANT" => item.id \in raws
  BY <1>4, <1>5, <1>6, NameFinds
<1>8. item.tag \in {"VARIABLE", "CONSTANT"}
  BY <1>7
<1>9. LValFault(symbols, raws, node.name) = "none"
  BY <1>4, <1>7, <1>8, LValFinds
<1>10. ExpFault(symbols, raws, node.value) = "none"
  BY <1>5, <1>6, ValueFinds
<1>11. ~Abort(ExpFault(symbols, raws, Node.value)) /\ ~Abort(LValFault(symbols, raws, Node.name))
  BY <1>5, <1>9, <1>10 DEF Abort
<1> QED
  BY <1>1, <1>11 DEF IrAssign, Return2

LEMMA CallGoes ==
    ASSUME NEW T, NEW h, History(T, h), Bindings, Clean, IrCall
    PROVE  phase' # "aborted"
<1>1. phase = "ir" /\ ast[pos].kind = "call"
  BY DEF IrCall, At
<1>2. PICK p : p = pos
  OBVIOUS
<1>3. PICK node : node = ast[p]
  OBVIOUS
<1>4. PICK item : item = symbols_get(symbols, node.name)
  OBVIOUS
<1>5. /\ Bound(symbols, T[p], T[p + 1], T[Len(ast) + 1], raws)
      /\ Accepted(node, T[p]) /\ Node = node
  BY <1>1, <1>2, <1>3, IrAccepted
<1>6. Denotes(T[p], node.name, {"FUNCTION"})
  BY <1>1, <1>2, <1>3, <1>5 DEF Accepted
<1>7. /\ item # NoSym /\ item.tag \in {"FUNCTION"}
      /\ item.tag # "CONSTANT" => item.id \in raws
  BY <1>4, <1>5, <1>6, NameFinds
<1>8. CallFault(node.name) = "none"
  BY <1>4, <1>7 DEF CallFault
<1>9. ~Abort(CallFault(Node.name))
  BY <1>5, <1>8 DEF Abort
<1> QED
  BY <1>1, <1>9 DEF IrCall, Return2

\* The first pass has seen the loop of a break, and m_curr_end is its end.
LEMMA BreakGoes ==
    ASSUME NEW T, NEW h, History(T, h), IrBreak
    PROVE  phase' # "aborted"
<1>1. phase = "ir" /\ ast[pos].kind = "break"
  BY DEF IrBreak, At
<1>2. PICK p : p = pos
  OBVIOUS
<1>3. PICK g : g = h[p]
  OBVIOUS
<1>4. p \in 1 .. Len(ast) /\ IsTarget(ast, g, Len(g), m_curr_end)
  BY <1>1, <1>2, <1>3 DEF History, InIr, Saved
<1>5. LoopIn(ast, g, Len(g))
  BY <1>1, <1>2, <1>3, <1>4 DEF History, Tree
<1>6. g \in Seq(1 .. p - 1)
  <2>1. p \in 1 .. Len(ast) + 1
    BY <1>4 DEF History, Tree, IsSeq
  <2> QED
    BY <1>3, <2>1 DEF History, Tree, Shape
<1>7. PICK i \in 1 .. Len(g) : m_curr_end = g[i]
  BY <1>4, <1>5 DEF IsTarget
<1>8. m_curr_end # 0
  BY <1>4, <1>6, <1>7
<1> QED
  BY <1>1, <1>8 DEF IrBreak, Abort, Return2

LEMMA EofGoes ==
    ASSUME NEW T, NEW h, History(T, h), IrEnd
    PROVE  phase' # "aborted"
<1>1. phase = "ir"
  BY DEF IrEnd, At
<1>2. PICK p : p = pos
  OBVIOUS
<1>3. PICK f : f = T[Len(ast) + 1]
  OBVIOUS
<1>4. AtNode(T, h, p, f)
  BY <1>1, <1>2, <1>3, InSecondPass
<1>5. Reached(symbols, T[p], f) /\ Good(T[p])
  BY <1>4 DEF AtNode
<1>6. SymbolsOK(symbols) /\ VisitQueues(symbols) /\ symbols.level = T[p].level
  BY <1>5 DEF Reached, Matches
<1>7. symbols.level >= 0
  BY <1>5, <1>6, GoodTypes
<1>8. DedentAsserts(symbols)
  BY <1>6, <1>7, DedentQueues
<1>9. ~Abort(DedentFault(symbols))
  BY <1>8 DEF DedentFault, Abort
<1> QED
  BY <1>9 DEF IrEnd

\* A call of the second pass does not abort, and leaves tree and history alone.
LEMMA IrKeepsClean ==
    ASSUME IInv, Bindings, Clean, Admit = {}, Ir
    PROVE  Clean'
<1>1. PICK T, h : History(T, h)
  BY DEF IInv
<1>2. phase' # "aborted"
  <2>1. CASE IrReturn
    BY <2>1 DEF IrReturn, At, Return2
  <2>2. CASE IrSkip
    BY <2>2 DEF IrSkip
  <2> QED
    BY <1>1, <2>1, <2>2, FuncGoes, DeclGoes, OpenGoes, CloseGoes, UseGoes, AssignGoes,
       CallGoes, BreakGoes, EofGoes DEF Ir
<1>3. ast' = ast /\ snap' = snap
  BY DEF Ir, IrFuncDef, IrDecl, IrOpen, IrClose, IrUse, IrAssign, IrCall, IrReturn, IrBreak,
         IrSkip, IrEnd, Abort, Return2
<1> QED
  BY <1>2, <1>3 DEF Clean

LEMMA NextKeepsClean ==
    ASSUME IInv, Bindings, Clean, Admit = {}, [Next]_vars
    PROVE  Clean'
<1>1. CASE SemanticNext /\ UNCHANGED irVars
  BY <1>1, SemanticClean
<1>2. CASE Ir
  BY <1>2, IrKeepsClean
<1>3. CASE UNCHANGED vars
  BY <1>3 DEF vars, Clean
<1> QED
  BY <1>1, <1>2, <1>3 DEF Next, Over

-----------------------------------------------------------------------------
\* What the checks of the first pass mean for the second one, as every expression
\* of ir.c that looks a name up relies on: the same name is the same symbol in both,
\* whatever blocks were closed and destroyed between.  A program that has a block or
\* a declaration after a return, or a global with the name of a local of an earlier
\* function, is the exception: see DeadScope.cfg and LateGlobal.cfg.
THEOREM NamesBindAlike ==
    ASSUME "dead_scope" \notin Admit, "late_global" \notin Admit
    PROVE  Spec => []SameBinding
<1>1. Init => IInv /\ Bindings
  BY InitIInv, InitBinds
<1>2. IInv /\ Bindings /\ [Next]_vars => (IInv /\ Bindings)'
  BY NextKeepsIInv, NextKeepsBindings
<1> QED
  BY <1>1, <1>2, BoundSameBinding, PTL DEF Spec

\* LVal (ir.c:793) and a call find a value in every variable and function that is
\* in view: the second pass has set the raw of each by the time it can be named.
THEOREM ViewIsReady ==
    ASSUME "dead_scope" \notin Admit, "late_global" \notin Admit
    PROVE  Spec => []RawsReady
<1>1. Init => IInv /\ Bindings
  BY InitIInv, InitBinds
<1>2. IInv /\ Bindings /\ [Next]_vars => (IInv /\ Bindings)'
  BY NextKeepsIInv, NextKeepsBindings
<1> QED
  BY <1>1, <1>2, BoundRawsReady, PTL DEF Spec

\* A program of none of the kinds in Doubtful is translated if the first pass accepts
\* it: no assertion of ir.c or of symbols.c fails, symbols_enter finds a scope to
\* enter, and a break has a loop to jump out of.  Admit = {} says that the program has
\* no shift outside a constant (Exp panics, ir.c:438), no global initializer that
\* appends an instruction (there may be no block to append to, ir.c:301), nothing after
\* the return of its block, and so on: each kind has programs the second pass fails on.
\* The room for Koopa's objects (bump.c:49) is not part of it.
THEOREM NothingAborts ==
    ASSUME Admit = {}
    PROVE  Spec => []NoAbort
<1>1. Init => IInv /\ Bindings /\ Clean
  BY InitIInv, InitBinds
<1>2. IInv /\ Bindings /\ Clean /\ [Next]_vars => (IInv /\ Bindings /\ Clean)'
  BY NextKeepsIInv, NextKeepsBindings, NextKeepsClean
<1>3. Clean => NoAbort
  BY DEF Clean, NoAbort
<1> QED
  BY <1>1, <1>2, <1>3, PTL DEF Spec

-----------------------------------------------------------------------------
(* The run. *)

\* The stages main goes through, and the phases it goes through them in.
Order ==
    /\ stage \in {"parse", "semantic", "ir", "output", "codegen", "cleanup",
                  "cleanup_raw_program", "cleanup_comp_unit", "exit", "abort"}
    /\ phase \in {"semantic", "rejected", "ir", "aborted", "done"}
    /\ stage = "parse" => phase = "semantic"
    /\ stage = "semantic" => phase \in {"semantic", "rejected", "ir"}
    /\ stage = "ir" => phase \in {"ir", "aborted", "done"}
    /\ stage \in {"output", "codegen", "cleanup", "cleanup_raw_program"} =>
           phase = "done"
    /\ stage = "cleanup_comp_unit" => phase \in {"rejected", "done"}
    /\ stage = "exit" => phase \in {"semantic", "rejected", "done"}
    /\ status \in {0, 1}
    /\ status = 1 => stage = "exit"
    /\ written => /\ phase = "done"
                  /\ stage \in {"cleanup", "cleanup_raw_program",
                                "cleanup_comp_unit", "exit"}

\* What is allocated and not freed at each of them.
Holding ==
    /\ stage = "parse" => held = {}
    /\ stage = "semantic" => held = {"comp_unit", "symbols"}
    /\ stage = "ir" /\ phase # "done" => held = {"comp_unit", "symbols", "bump"}
    /\ stage = "ir" /\ phase = "done" => held = {"comp_unit", "bump"}
    /\ stage \in {"output", "cleanup"} => held = {"comp_unit", "bump", "program"}
    /\ stage = "codegen" => held = {"comp_unit", "bump", "program", "output"}
    /\ stage = "cleanup_raw_program" => held = {"comp_unit", "bump"}
    /\ stage = "cleanup_comp_unit" => held = {"comp_unit"} \cup Leaves
    /\ stage = "exit" /\ status = 0 => held = Leaves

DInv == Order /\ Holding

\* The first pass ends in an error or starts the second.
LEMMA SemanticPhases ==
    ASSUME SemanticNext
    PROVE  phase = "semantic" /\ phase' \in {"semantic", "rejected", "ir"}
<1>1. phase = "semantic"
  BY DEF SemanticNext
<1>2. ASSUME NEW condition, Error(condition)
      PROVE  phase' = "rejected"
  BY <1>2 DEF Error
<1>3. ASSUME NEW node, NEW s, Meet(node, s)
      PROVE  phase' = phase
  BY <1>3 DEF Meet
<1>4. ASSUME NEW name, NEW params, FuncDef(name, params)
      PROVE  phase' = "rejected" \/ phase' = phase
  BY <1>2, <1>3, <1>4 DEF FuncDef
<1>5. ASSUME NEW tag, NEW defs, Decl(tag, defs)
      PROVE  phase' = "rejected" \/ phase' = phase
  BY <1>2, <1>3, <1>5 DEF Decl
<1>6. ASSUME NEW name, Use(name) \/ Call(name) \/ \E value : Assign(name, value)
      PROVE  phase' = "rejected" \/ phase' = phase
  BY <1>2, <1>3, <1>6 DEF Use, Call, Assign
<1>7. ASSUME NEW b, Open(b) \/ Return(b)
      PROVE  phase' = phase
  BY <1>3, <1>7 DEF Open, Return
<1>8. Close \/ Break \/ EndOfFile => phase' \in {phase, "rejected", "ir"}
  BY <1>2, <1>3 DEF Close, Break, EndOfFile
<1> QED
  BY <1>1, <1>4, <1>5, <1>6, <1>7, <1>8 DEF SemanticNext

\* The second goes on, is done, or fails an assertion.
LEMMA IrPhases ==
    ASSUME Ir
    PROVE  phase = "ir" /\ phase' \in {"ir", "aborted", "done"}
<1>1. ASSUME NEW why, Abort(why)
      PROVE  phase' = "aborted"
  BY <1>1 DEF Abort
<1>2. ASSUME NEW why, NEW s, NEW r, Return2(why, s, r)
      PROVE  phase' = phase
  BY <1>2 DEF Return2
<1>3. CASE IrFuncDef
  BY <1>1, <1>2, <1>3 DEF IrFuncDef, At
<1>4. CASE IrDecl
  BY <1>1, <1>2, <1>4 DEF IrDecl, At
<1>5. CASE IrOpen \/ IrUse \/ IrCall \/ IrReturn
  BY <1>1, <1>2, <1>5 DEF IrOpen, IrUse, IrCall, IrReturn, At
<1>6. CASE IrClose
  BY <1>1, <1>2, <1>6 DEF IrClose, At
<1>7. CASE IrAssign \/ IrBreak
  BY <1>1, <1>2, <1>7 DEF IrAssign, IrBreak, At
<1>8. CASE IrSkip \/ IrEnd
  BY <1>1, <1>8 DEF IrSkip, IrEnd, At
<1> QED
  BY <1>3, <1>4, <1>5, <1>6, <1>7, <1>8 DEF Ir

LEMMA InitDInv == DriverInit => DInv
BY DEF DriverInit, Init, SemanticInit, DInv, Order, Holding

LEMMA NextDInv == DInv /\ [DriverNext]_allVars => DInv'
<1> SUFFICES ASSUME DInv, [DriverNext]_allVars
             PROVE  DInv'
  OBVIOUS
<1> USE DEF DInv, Order, Holding, Leaves, Go
<1>1. CASE Debug
  BY <1>1 DEF Debug, Still, vars
<1>2. CASE ParseFails
  BY <1>2 DEF ParseFails, Still, vars
<1>3. CASE Parse
  BY <1>3 DEF Parse, Still, vars
<1>4. CASE SemanticError
  BY <1>4 DEF SemanticError, Still, vars, Caught
<1>5. CASE StartIr
  BY <1>5 DEF StartIr, Still, vars
<1>6. CASE IrStep
  BY <1>6, IrPhases DEF IrStep
<1>7. CASE Generate
  BY <1>7 DEF Generate, Still, vars, Refused
<1>8. CASE OpenOutput
  BY <1>8 DEF OpenOutput, Still, vars
<1>9. CASE WriteAssembly
  BY <1>9 DEF WriteAssembly, vars, CloseOutput
<1>10. CASE DumpKoopa
  BY <1>10 DEF DumpKoopa, vars
<1>11. CASE Cleanup
  BY <1>11 DEF Cleanup, Still, vars
<1>12. CASE Semantic
  BY <1>12, SemanticPhases DEF Semantic, driverVars
<1>13. CASE UNCHANGED allVars
  BY <1>13 DEF allVars, vars, driverVars
<1> QED
  BY <1>1, <1>2, <1>3, <1>4, <1>5, <1>6, <1>7, <1>8, <1>9, <1>10, <1>11, <1>12, <1>13
     DEF DriverNext, DriverSteps

\* Accounts: no stage of main reads what is freed or was never allocated, main returns
\* 0 with everything freed but the symbol table of a rejected program, and it has
\* written its output only if both passes and the library went to their ends.
THEOREM AccountsBalance == DriverSpec => []Accounts
<1>1. DInv => Accounts
  BY DEF DInv, Order, Holding, Leaves, Accounts, Needs
<1> QED
  BY <1>1, InitDInv, NextDInv, PTL DEF DriverSpec

-----------------------------------------------------------------------------
(* The passes, in a run of the compiler. *)

\* A step of main is a step of a pass, or leaves their variables alone.
LEMMA DriverStepsPasses == [DriverNext]_allVars => [Next]_vars
<1> SUFFICES ASSUME [DriverNext]_allVars
             PROVE  [Next]_vars
  OBVIOUS
<1>1. CASE Semantic
  BY <1>1 DEF Semantic, Next
<1>2. CASE IrStep
  BY <1>2 DEF IrStep, Next
<1>3. CASE Debug \/ ParseFails \/ Parse \/ SemanticError \/ StartIr \/ Generate \/ OpenOutput
           \/ Cleanup
  BY <1>3 DEF Debug, ParseFails, Parse, SemanticError, StartIr, Generate, OpenOutput, Cleanup,
              Still
<1>4. CASE WriteAssembly \/ DumpKoopa \/ UNCHANGED allVars
  BY <1>4 DEF WriteAssembly, DumpKoopa, allVars
<1> QED
  BY <1>1, <1>2, <1>3, <1>4 DEF DriverNext, DriverSteps

\* main calls the passes in the order IrPass has them, the second only after the first
\* has returned, and touches nothing of theirs in between: a run of the compiler is a
\* run of the passes.
THEOREM RunIsOfPasses == DriverSpec => Init /\ [][Next]_vars
<1>1. DriverInit => Init
  BY DEF DriverInit
<1> QED
  BY <1>1, DriverStepsPasses, PTL DEF DriverSpec

\* In a run of the compiler, too, the passes abort no accepted program of none of the
\* kinds in Doubtful, so without shifts outside constants and computed initializers of
\* globals: it gets to the Koopa library.
THEOREM CompilerTranslates ==
    ASSUME Admit = {}
    PROVE  DriverSpec => []NoAbort
<1>1. Init => IInv /\ Bindings /\ Clean
  BY InitIInv, InitBinds
<1>2. IInv /\ Bindings /\ Clean /\ [Next]_vars => (IInv /\ Bindings /\ Clean)'
  BY NextKeepsIInv, NextKeepsBindings, NextKeepsClean
<1>3. Clean => NoAbort
  BY DEF Clean, NoAbort
<1> QED
  BY <1>1, <1>2, <1>3, RunIsOfPasses, PTL

\* In a run of the compiler, too, LVal (ir.c:793) and a call find a value in every
\* variable and function that is in view.
THEOREM CompilerIsReady ==
    ASSUME "dead_scope" \notin Admit, "late_global" \notin Admit
    PROVE  DriverSpec => []RawsReady
<1>1. Init => IInv /\ Bindings
  BY InitIInv, InitBinds
<1>2. IInv /\ Bindings /\ [Next]_vars => (IInv /\ Bindings)'
  BY NextKeepsIInv, NextKeepsBindings
<1> QED
  BY <1>1, <1>2, BoundRawsReady, RunIsOfPasses, PTL
=============================================================================
