--------------------------- MODULE LoweringProofs ---------------------------
(***************************************************************************)
(* Theorems about the basic blocks of a function, for functions of any     *)
(* size.                                                                   *)
(*                                                                         *)
(* The invariant has three parts.  Pass: which blocks the frames have made *)
(* and not yet filled, that all others are emitted, and that a block is    *)
(* left at its end only.  Matching: there is a relation between the nodes  *)
(* of the log and the instructions of the blocks, in which each node is    *)
(* done by the instructions it is related to, and both go on to what is    *)
(* related again.  Sim: when the function runs, the next instruction is    *)
(* related to a node, and the source is there or on the way from there to  *)
(* what can be observed.                                                   *)
(***************************************************************************)
EXTENDS LoweringRuns, TLAPS, SequenceTheorems, FiniteSetTheorems
-----------------------------------------------------------------------------
(* The state of the pass. *)

Logic == {"and", "or"}

Tokens == {"eval", "and", "or", "mid", "endop", "return", "then", "else", "endif",
           "while", "do", "endwhile", "break", "continue", "endfunction"}

ANode == [tok : Tokens, depth : Nat]

\* The calls of Stmt, Block and Exp that have not returned, with their local variables.
Frame ==
    [kind : {"block"}, stage : {"items"}]
    \cup [kind : {"exp", "return"}, stage : {"exp"}]
    \cup [kind : {"if"}, stage : {"cond"}]
    \cup [kind : {"if"}, stage : {"then", "else"}, yes : Nat, no : Nat, end : Nat]
    \cup [kind : {"while"}, stage : {"cond", "body"}, cond : Nat, body : Nat, end : Nat,
          this_cond : Nat, this_end : Nat]
    \cup [kind : Logic, stage : {"lhs", "rhs"}, rhs : Nat, end : Nat, var : Nat]

IsSeq(s) == Len(s) \in Nat /\ s \in Seq({s[i] : i \in 1 .. Len(s)})

\* Basic blocks are sequences.
IsBlocks(bb) == IsSeq(bb) /\ \A b \in 1 .. Len(bb) : IsSeq(bb[b])

Typed ==
    /\ void \in BOOLEAN
    /\ prog \in Seq(ANode)
    /\ stack \in Seq(Frame)
    /\ done \in {"nothing", "exp", "stmt"}
    /\ exp \in Nat
    /\ nodes \in 0 .. MaxNodes
    /\ IsBlocks(blocks) /\ IsSeq(bbs)
    /\ m \in [curr : Nat, cond : Nat, end : Nat, returned : BOOLEAN]

\* In these stages a frame waits for an expression.
ExpStages == {"cond", "lhs", "rhs", "exp"}

\* Only operators are on top of a frame that waits for an expression.
Stacked(s) ==
    /\ s # <<>> => s[1].kind = "block"
    /\ \A d, e \in 1 .. Len(s) : d < e /\ s[d].stage \in ExpStages => s[e].kind \in Logic

IsLoopBody(f) == f.kind = "while" /\ f.stage = "body"

\* The targets of break and continue in the frames up to the i-th.
LoopIn(s, i, cond, end) ==
    \/ cond = None /\ end = None /\ \A k \in 1 .. i : ~ IsLoopBody(s[k])
    \/ \E j \in 1 .. i : /\ IsLoopBody(s[j]) /\ cond = s[j].cond /\ end = s[j].end
                         /\ \A k \in j + 1 .. i : ~ IsLoopBody(s[k])

Loops(s, cond, end) ==
    /\ LoopIn(s, Len(s), cond, end)
    /\ \A d \in 1 .. Len(s) :
          s[d].kind = "while" => LoopIn(s, d - 1, s[d].this_cond, s[d].this_end)

-----------------------------------------------------------------------------
(* The blocks. *)

Terminated(insts) == insts # <<>> /\ IsTerminator(Last(insts))

\* The blocks a frame has made and not yet filled.
PendingOf(f) ==
    IF f.kind \in Logic THEN (IF f.stage = "lhs" THEN {f.rhs, f.end} ELSE {f.end})
    ELSE IF f.kind = "if" /\ f.stage = "then" THEN {f.no, f.end}
    ELSE IF f.kind = "if" /\ f.stage = "else" THEN {f.end}
    ELSE IF f.kind = "while" THEN (IF f.stage = "cond" THEN {f.body, f.end} ELSE {f.end})
    ELSE {}

\* The blocks a frame names that are filled.
FilledOf(f) ==
    IF f.kind = "if" /\ f.stage = "then" THEN {f.yes}
    ELSE IF f.kind = "if" /\ f.stage = "else" THEN {f.no}
    ELSE IF f.kind = "while" THEN {f.cond}
    ELSE {}

Apart(f) ==
    /\ f.kind \in Logic /\ f.stage = "lhs" => f.rhs # f.end
    /\ f.kind = "if" /\ f.stage = "then" => f.no # f.end
    /\ f.kind = "while" /\ f.stage = "cond" => f.body # f.end

IsEmitted(emitted, b) == \E k \in 1 .. Len(emitted) : emitted[k] = b

\* Made and not filled.
Spare(bb, curr, b) == b \in 1 .. Len(bb) /\ bb[b] = <<>> /\ b # curr

\* The blocks of the function, at any point of an action: the spare ones are of one
\* frame each, or of none yet ("free"); each block is emitted, once, or will be, by the
\* frame that it is of (that of an operator is already) or whoever gets it ("later").
Reserved(s, bb, emitted, curr, free, later) ==
    /\ curr \in 1 .. Len(bb)
    /\ \A d \in 1 .. Len(s) :
          /\ Apart(s[d])
          /\ \A b \in PendingOf(s[d]) : Spare(bb, curr, b) /\ b \notin free
          /\ \A b \in FilledOf(s[d]) : b \in 1 .. Len(bb) /\ b \notin free
          /\ \A e \in 1 .. Len(s) : /\ d # e => PendingOf(s[d]) \cap PendingOf(s[e]) = {}
                                    /\ PendingOf(s[d]) \cap FilledOf(s[e]) = {}
          /\ s[d].kind \notin Logic => \A b \in PendingOf(s[d]) : ~ IsEmitted(emitted, b)
    /\ \A b \in free : Spare(bb, curr, b)
    /\ later \subseteq free /\ \A b \in later : ~ IsEmitted(emitted, b)
    /\ \A k \in 1 .. Len(emitted) : emitted[k] \in 1 .. Len(bb)
    /\ \A i, j \in 1 .. Len(emitted) : emitted[i] = emitted[j] => i = j
    /\ \A b \in 1 .. Len(bb) :
          \/ IsEmitted(emitted, b)
          \/ \E d \in 1 .. Len(s) : s[d].kind \notin Logic /\ b \in PendingOf(s[d])
          \/ b \in later

\* A block that is nobody's to fill.
Used(s, bb, free, b) ==
    b \in 1 .. Len(bb) /\ b \notin free /\ \A d \in 1 .. Len(s) : b \notin PendingOf(s[d])

\* A block is left at its end only, to a block that exists.
Sound(bb) ==
    \A b \in 1 .. Len(bb) : \A k \in 1 .. Len(bb[b]) :
        /\ IsTerminator(bb[b][k]) => k = Len(bb[b])
        /\ Targets(bb[b][k]) \subseteq 1 .. Len(bb)

\* Nothing but a return closes the block at which the pass is.
OpenEnded(bb, curr) == Terminated(bb[curr]) => Last(bb[curr]).op = "return"
-----------------------------------------------------------------------------
(* Sequences. *)

LEMMA SeqIs ==
    ASSUME NEW S, NEW s \in Seq(S)
    PROVE  IsSeq(s)
<1>1. Len(s) \in Nat /\ s = [i \in 1 .. Len(s) |-> s[i]]
  OBVIOUS
<1> DEFINE R == {s[i] : i \in 1 .. Len(s)}
<1>2. \A i \in 1 .. Len(s) : s[i] \in R
  OBVIOUS
<1> HIDE DEF R
<1>3. s \in Seq(R)
  BY <1>1, <1>2
<1> QED
  BY <1>1, <1>3 DEF IsSeq, R

\* (The provers rewrite Append and \o before they look for a lemma about them.)
Pushed(t, s, x) == t = Append(s, x)
Joined(t, s, u) == t = s \o u

LEMMA PushedIs ==
    ASSUME NEW s, IsSeq(s), NEW x, NEW t, Pushed(t, s, x)
    PROVE  /\ IsSeq(t) /\ Len(t) = Len(s) + 1 /\ t # <<>> /\ Front(t) = s /\ Last(t) = x
           /\ t[Len(s) + 1] = x /\ Len(s) \in Nat
           /\ \A i \in 1 .. Len(s) : t[i] = s[i]
<1> DEFINE S == {s[i] : i \in 1 .. Len(s)} \cup {x}
<1>1. Len(s) \in Nat /\ s \in Seq(S)
  <2>1. s \in Seq({s[i] : i \in 1 .. Len(s)}) /\ {s[i] : i \in 1 .. Len(s)} \subseteq S
    BY DEF IsSeq
  <2> QED
    BY <2>1, SeqMonotonic DEF IsSeq
<1> HIDE DEF S
<1>2. x \in S
  BY DEF S
<1>3. t = Append(s, x)
  BY DEF Pushed
<1>4. /\ t \in Seq(S) /\ Len(t) = Len(s) + 1
      /\ t[Len(s) + 1] = x
      /\ \A i \in 1 .. Len(s) : t[i] = s[i]
  BY <1>1, <1>2, <1>3
<1>5. IsSeq(t)
  BY <1>4, SeqIs
<1>6. Front(t) = s /\ Last(t) = x
  BY <1>1, <1>2, <1>3, <1>4 DEF Front, Last
<1> QED
  BY <1>1, <1>4, <1>5, <1>6

LEMMA JoinedIs ==
    ASSUME NEW s, IsSeq(s), NEW u, IsSeq(u), NEW t, Joined(t, s, u)
    PROVE  /\ IsSeq(t) /\ Len(t) = Len(s) + Len(u) /\ Len(s) \in Nat /\ Len(u) \in Nat
           /\ \A i \in 1 .. Len(s) : t[i] = s[i]
           /\ \A i \in 1 .. Len(u) : t[Len(s) + i] = u[i]
<1> DEFINE S == {s[i] : i \in 1 .. Len(s)} \cup {u[i] : i \in 1 .. Len(u)}
<1>1. Len(s) \in Nat /\ Len(u) \in Nat /\ s \in Seq(S) /\ u \in Seq(S)
  <2>1. /\ s \in Seq({s[i] : i \in 1 .. Len(s)}) /\ {s[i] : i \in 1 .. Len(s)} \subseteq S
        /\ u \in Seq({u[i] : i \in 1 .. Len(u)}) /\ {u[i] : i \in 1 .. Len(u)} \subseteq S
    BY DEF IsSeq
  <2> QED
    BY <2>1, SeqMonotonic DEF IsSeq
<1> HIDE DEF S
<1>2. t = s \o u
  BY DEF Joined
<1>3. /\ t \in Seq(S) /\ Len(t) = Len(s) + Len(u)
      /\ \A i \in 1 .. Len(s) : t[i] = s[i]
      /\ \A i \in 1 .. Len(u) : t[Len(s) + i] = u[i]
  BY <1>1, <1>2
<1>4. IsSeq(t)
  BY <1>3, SeqIs
<1> QED
  BY <1>1, <1>3, <1>4

LEMMA EmptyIs == IsSeq(<<>>) /\ Len(<<>>) = 0
<1>1. <<>> \in Seq({})
  OBVIOUS
<1> QED
  BY <1>1, SeqIs

LEMMA NotEmptyIs ==
    ASSUME NEW s, IsSeq(s)
    PROVE  /\ Len(s) \in Nat /\ (s # <<>> <=> Len(s) > 0) /\ Last(s) = s[Len(s)]
BY DEF IsSeq, Last

LEMMA FrontIs ==
    ASSUME NEW S, NEW s \in Seq(S), s # <<>>, NEW t, t = Front(s)
    PROVE  /\ t \in Seq(S) /\ Len(t) = Len(s) - 1 /\ Len(s) \in Nat \ {0}
           /\ \A i \in 1 .. Len(s) - 1 : t[i] = s[i]
<1>1. Len(s) \in Nat \ {0} /\ \A i \in 1 .. Len(s) : s[i] \in S
  OBVIOUS
<1>2. t = SubSeq(s, 1, Len(s) - 1)
  BY DEF Front
<1>3. PICK n \in Nat : n = Len(s) - 1
  BY <1>1
<1>4. 1 \in Int /\ n \in Int /\ \A i \in 1 .. n : s[i] \in S
  BY <1>1, <1>3
<1>5. /\ t \in Seq(S)
      /\ Len(t) = IF 1 <= n THEN n - 1 + 1 ELSE 0
      /\ \A i \in 1 .. n - 1 + 1 : t[i] = s[1 + i - 1]
  BY <1>2, <1>3, <1>4, SubSeqProperties
<1>6. Len(t) = n
  BY <1>5
<1>7. ASSUME NEW i \in 1 .. n
      PROVE  t[i] = s[i]
  <2>1. i \in 1 .. n - 1 + 1 /\ 1 + i - 1 = i
    OBVIOUS
  <2> QED
    BY <1>5, <2>1
<1> QED
  BY <1>1, <1>3, <1>5, <1>6, <1>7

-----------------------------------------------------------------------------
(* Instructions. *)

LEMMA TargetsAre ==
    /\ \A v : Targets(Call(v)) = {} /\ ~ IsTerminator(Call(v))
    /\ \A v : Targets(Alloc(v)) = {} /\ ~ IsTerminator(Alloc(v))
    /\ \A v, b : Targets(Set(v, b)) = {} /\ ~ IsTerminator(Set(v, b))
    /\ \A v, w : Targets(Store(w, v)) = {} /\ ~ IsTerminator(Store(w, v))
    /\ \A v : Targets(LoadFrom(v)) = {} /\ ~ IsTerminator(LoadFrom(v))
    /\ \A v, b, c : Targets(Branch(v, b, c)) = {b, c} /\ IsTerminator(Branch(v, b, c))
    /\ \A b : Targets(Jump(b)) = {b} /\ IsTerminator(Jump(b))
    /\ \A v : Targets(Return(v)) = {} /\ IsTerminator(Return(v)) /\ Return(v).op = "return"
BY DEF Targets, IsTerminator, Call, Alloc, Set, Store, LoadFrom, Branch, Jump, Return

LEMMA NothingIsOpen == ~ Terminated(<<>>)
BY DEF Terminated

\* What try_append does to a block.
Emitted(insts, more, inst) == IF Terminated(insts) THEN more = insts ELSE Pushed(more, insts, inst)

\* And to the blocks.
EmittedAt(bb, cc, b, inst) ==
    /\ IsBlocks(cc) /\ Len(cc) = Len(bb)
    /\ \A x \in 1 .. Len(bb) : x # b => cc[x] = bb[x]
    /\ Emitted(bb[b], cc[b], inst)

LEMMA BlocksAre ==
    ASSUME NEW bb, IsBlocks(bb)
    PROVE  /\ Len(bb) \in Nat /\ DOMAIN bb = 1 .. Len(bb)
           /\ \A b \in 1 .. Len(bb) : /\ IsSeq(bb[b]) /\ Len(bb[b]) \in Nat
                                      /\ DOMAIN bb[b] = 1 .. Len(bb[b])
<1>1. \A s : IsSeq(s) => Len(s) \in Nat /\ DOMAIN s = 1 .. Len(s)
  BY DEF IsSeq
<1> QED
  BY <1>1 DEF IsBlocks

LEMMA EmitIs ==
    ASSUME NEW bb, IsBlocks(bb), NEW b \in 1 .. Len(bb), NEW inst, NEW cc, cc = Emit(bb, b, inst)
    PROVE  EmittedAt(bb, cc, b, inst)
<1>1. PICK more : more = try_append(bb[b], inst)
  OBVIOUS
<1>2. Emitted(bb[b], more, inst)
  BY <1>1 DEF Emitted, Terminated, try_append, Pushed
<1>3. IsSeq(bb[b]) /\ IsSeq(bb) /\ Len(bb) \in Nat
  BY BlocksAre DEF IsBlocks
<1>4. IsSeq(more)
  <2>1. PICK old : old = bb[b]
    OBVIOUS
  <2>2. IsSeq(old) /\ Emitted(old, more, inst)
    BY <1>2, <1>3, <2>1
  <2> QED
    BY <2>2, PushedIs DEF Emitted
<1>5. cc = [bb EXCEPT ![b] = more]
  BY <1>1 DEF Emit
<1> DEFINE S == {bb[i] : i \in 1 .. Len(bb)} \cup {more}
<1>6. bb \in Seq(S)
  <2>1. bb \in Seq({bb[i] : i \in 1 .. Len(bb)}) /\ {bb[i] : i \in 1 .. Len(bb)} \subseteq S
    BY <1>3 DEF IsSeq
  <2> QED
    BY <2>1, SeqMonotonic
<1>7. more \in S
  OBVIOUS
<1> HIDE DEF S
<1>8. /\ cc \in Seq(S) /\ Len(cc) = Len(bb) /\ cc[b] = more
      /\ \A x \in 1 .. Len(bb) : x # b => cc[x] = bb[x]
  BY <1>5, <1>6, <1>7
<1>9. IsSeq(cc)
  BY <1>8, SeqIs
<1>10. IsBlocks(cc)
  BY <1>4, <1>8, <1>9 DEF IsBlocks
<1> QED
  BY <1>2, <1>8, <1>10 DEF EmittedAt

\* New blocks.
Grown(bb, cc, n) ==
    /\ IsBlocks(cc) /\ Len(cc) = Len(bb) + n
    /\ \A x \in 1 .. Len(bb) : cc[x] = bb[x]
    /\ \A x \in Len(bb) + 1 .. Len(bb) + n : cc[x] = <<>>

LEMMA FreshIs ==
    ASSUME NEW bb, IsBlocks(bb), NEW n \in Nat, NEW cc, cc = Fresh(bb, n)
    PROVE  Grown(bb, cc, n)
<1>1. PICK u : u = [i \in 1 .. n |-> <<>>]
  OBVIOUS
<1>2. u \in Seq({<<>>}) /\ Len(u) = n /\ \A i \in 1 .. n : u[i] = <<>>
  BY <1>1
<1>3. IsSeq(u)
  BY <1>2, SeqIs
<1>4. Joined(cc, bb, u)
  BY <1>1 DEF Fresh, Joined
<1>5. /\ IsSeq(cc) /\ Len(cc) = Len(bb) + n /\ Len(bb) \in Nat
      /\ \A i \in 1 .. Len(bb) : cc[i] = bb[i]
      /\ \A i \in 1 .. n : cc[Len(bb) + i] = u[i]
  <2>1. IsSeq(bb)
    BY DEF IsBlocks
  <2>2. /\ IsSeq(cc) /\ Len(cc) = Len(bb) + Len(u) /\ Len(bb) \in Nat
        /\ \A i \in 1 .. Len(bb) : cc[i] = bb[i]
        /\ \A i \in 1 .. Len(u) : cc[Len(bb) + i] = u[i]
    BY ONLY <1>3, <1>4, <2>1, JoinedIs
  <2> QED
    BY <1>2, <2>2
<1>6. \A x \in Len(bb) + 1 .. Len(bb) + n : cc[x] = <<>>
  <2>1. SUFFICES ASSUME NEW x \in Len(bb) + 1 .. Len(bb) + n
                 PROVE  cc[x] = <<>>
    OBVIOUS
  <2>2. x - Len(bb) \in 1 .. n /\ Len(bb) + (x - Len(bb)) = x
    BY <1>5
  <2> QED
    BY <1>2, <1>5, <2>2
<1>7. IsBlocks(cc)
  <2>1. SUFFICES ASSUME NEW x \in 1 .. Len(cc)
                 PROVE  IsSeq(cc[x])
    BY <1>5 DEF IsBlocks
  <2>2. x \in 1 .. Len(bb) \/ x \in Len(bb) + 1 .. Len(bb) + n
    BY <1>5
  <2> QED
    BY <1>5, <1>6, <2>2, EmptyIs DEF IsBlocks
<1> QED
  BY <1>5, <1>6, <1>7 DEF Grown

-----------------------------------------------------------------------------
(* The stack. *)

LEMMA FramesAre ==
    ASSUME NEW f \in Frame
    PROVE  /\ f.kind \in {"block", "exp", "return", "if", "while"} \cup Logic
           /\ f.kind = "block" => f.stage = "items"
           /\ f.kind \in {"exp", "return"} => f.stage = "exp"
           /\ f.kind = "if" =>
                 \/ f.stage = "cond"
                 \/ f \in [kind : {"if"}, stage : {"then", "else"}, yes : Nat, no : Nat, end : Nat]
           /\ f.kind = "while" =>
                 f \in [kind : {"while"}, stage : {"cond", "body"}, cond : Nat, body : Nat,
                        end : Nat, this_cond : Nat, this_end : Nat]
           /\ f.kind \in Logic =>
                 f \in [kind : Logic, stage : {"lhs", "rhs"}, rhs : Nat, end : Nat, var : Nat]
BY DEF Frame, Logic

\* No frame waits for an expression.
Calm(s) == \A d \in 1 .. Len(s) : s[d].stage \notin ExpStages

LEMMA CalmIs ==
    ASSUME NEW s \in Seq(Frame), s # <<>>, Stacked(s)
    PROVE  /\ Last(s) \in Frame
           /\ Last(s).kind \notin Logic => Calm(Front(s))
           /\ Last(s).kind \notin Logic /\ Last(s).stage \notin ExpStages => Calm(s)
           /\ Last(s).kind # "block" => Front(s) # <<>>
<1>1. PICK t : t = Front(s)
  OBVIOUS
<1>2. /\ t \in Seq(Frame) /\ Len(t) = Len(s) - 1 /\ Len(s) \in Nat \ {0}
      /\ \A i \in 1 .. Len(s) - 1 : t[i] = s[i]
  BY <1>1, FrontIs
<1>3. Last(s) = s[Len(s)] /\ Last(s) \in Frame
  BY <1>2 DEF Last
<1>4. ASSUME Last(s).kind \notin Logic, NEW d \in 1 .. Len(s) - 1
      PROVE  s[d].stage \notin ExpStages
  BY <1>2, <1>3, <1>4 DEF Stacked
<1>5. Last(s).kind \notin Logic => Calm(t)
  BY <1>2, <1>4 DEF Calm
<1>6. Last(s).kind \notin Logic /\ Last(s).stage \notin ExpStages => Calm(s)
  <2>1. \A d \in 1 .. Len(s) : d \in 1 .. Len(s) - 1 \/ d = Len(s)
    BY <1>2
  <2> QED
    BY <1>3, <1>4, <2>1 DEF Calm
<1>7. Last(s).kind # "block" => t # <<>>
  <2>1. s[1].kind = "block"
    BY DEF Stacked
  <2>2. Last(s).kind # "block" => Len(t) > 0
    BY <1>2, <1>3, <2>1
  <2> QED
    BY <1>2, <2>2
<1> QED
  BY <1>1, <1>3, <1>5, <1>6, <1>7

\* A call: the loop around it is the same, but for the body of a loop.
LEMMA FramePushed ==
    ASSUME NEW s \in Seq(Frame), NEW f \in Frame, NEW t, Pushed(t, s, f),
           NEW cond, NEW end,
           Stacked(s), s # <<>>, f.kind \in Logic \/ Calm(s),
           Loops(s, cond, end),
           f.kind = "while" => f.this_cond = cond /\ f.this_end = end
    PROVE  /\ t \in Seq(Frame) /\ Stacked(t)
           /\ ~ IsLoopBody(f) => Loops(t, cond, end)
           /\ IsLoopBody(f) => Loops(t, f.cond, f.end)
<1>1. PICK n : n = Len(s)
  OBVIOUS
<1>2. /\ Len(t) = n + 1 /\ t[n + 1] = f /\ n \in Nat \ {0}
      /\ \A i \in 1 .. n : t[i] = s[i]
  <2>1. IsSeq(s)
    BY SeqIs
  <2>2. /\ Len(t) = Len(s) + 1 /\ t[Len(s) + 1] = f /\ Len(s) \in Nat
        /\ \A i \in 1 .. Len(s) : t[i] = s[i]
    BY <2>1, PushedIs
  <2>3. Len(s) # 0
    OBVIOUS
  <2> QED
    BY <1>1, <2>2, <2>3
<1>3. t \in Seq(Frame)
  BY DEF Pushed
<1>4. \A i \in 1 .. n + 1 : i \in 1 .. n \/ i = n + 1
  BY <1>2
<1>5. Stacked(t)
  <2>1. t[1].kind = "block"
    BY <1>2 DEF Stacked
  <2>2. ASSUME NEW d \in 1 .. n + 1, NEW e \in 1 .. n + 1, d < e, t[d].stage \in ExpStages
        PROVE  t[e].kind \in Logic
    <3>1. d \in 1 .. n
      BY <1>2, <2>2
    <3>2. s[d].stage \in ExpStages
      BY <1>2, <2>2, <3>1
    <3>3. CASE e \in 1 .. n
      <4>1. s[e].kind \in Logic
        BY <1>1, <2>2, <3>1, <3>2, <3>3 DEF Stacked
      <4> QED
        BY <1>2, <3>3, <4>1
    <3>4. CASE e = n + 1
      BY <1>1, <1>2, <3>1, <3>2, <3>4 DEF Calm
    <3> QED
      BY <1>4, <3>3, <3>4
  <2> QED
    BY <1>2, <2>1, <2>2 DEF Stacked
<1>6. ASSUME NEW i \in 0 .. n, NEW c, NEW x, LoopIn(s, i, c, x)
      PROVE  LoopIn(t, i, c, x)
  <2>1. \A k \in 1 .. i : k \in 1 .. n /\ t[k] = s[k]
    BY <1>2
  <2> QED
    BY <1>6, <2>1 DEF LoopIn
<1>7. LoopIn(t, n, cond, end)
  BY <1>1, <1>2, <1>6 DEF Loops
<1>8. \A d \in 1 .. n + 1 :
         t[d].kind = "while" => LoopIn(t, d - 1, t[d].this_cond, t[d].this_end)
  <2>1. SUFFICES ASSUME NEW d \in 1 .. n + 1, t[d].kind = "while"
                 PROVE  LoopIn(t, d - 1, t[d].this_cond, t[d].this_end)
    OBVIOUS
  <2>2. CASE d \in 1 .. n
    <3>1. t[d] = s[d] /\ d - 1 \in 0 .. n
      BY <1>2, <2>2
    <3>2. LoopIn(s, d - 1, s[d].this_cond, s[d].this_end)
      BY <1>1, <2>1, <2>2, <3>1 DEF Loops
    <3> QED
      BY <1>6, <3>1, <3>2
  <2>3. CASE d = n + 1
    <3>1. t[d] = f /\ d - 1 = n
      BY <1>2, <2>3
    <3> QED
      BY <1>7, <2>1, <3>1
  <2> QED
    BY <1>4, <2>2, <2>3
<1>9. ASSUME ~ IsLoopBody(f)
      PROVE  LoopIn(t, n + 1, cond, end)
  <2>1. CASE cond = None /\ end = None /\ \A k \in 1 .. n : ~ IsLoopBody(t[k])
    BY <1>2, <1>4, <1>9, <2>1 DEF LoopIn
  <2>2. CASE \E j \in 1 .. n : /\ IsLoopBody(t[j]) /\ cond = t[j].cond /\ end = t[j].end
                               /\ \A k \in j + 1 .. n : ~ IsLoopBody(t[k])
    <3>1. PICK j \in 1 .. n : /\ IsLoopBody(t[j]) /\ cond = t[j].cond /\ end = t[j].end
                              /\ \A k \in j + 1 .. n : ~ IsLoopBody(t[k])
      BY <2>2
    <3>2. \A k \in j + 1 .. n + 1 : k \in j + 1 .. n \/ k = n + 1
      BY <1>2
    <3>3. \A k \in j + 1 .. n + 1 : ~ IsLoopBody(t[k])
      BY <1>2, <1>9, <3>1, <3>2
    <3>4. j \in 1 .. n + 1
      BY <1>2
    <3> QED
      BY <3>1, <3>3, <3>4 DEF LoopIn
  <2> QED
    BY <1>7, <2>1, <2>2 DEF LoopIn
<1>10. ASSUME IsLoopBody(f)
       PROVE  LoopIn(t, n + 1, f.cond, f.end)
  <2>1. n + 1 \in 1 .. n + 1 /\ \A k \in (n + 1) + 1 .. n + 1 : FALSE
    BY <1>2
  <2> QED
    BY <1>2, <1>10, <2>1 DEF LoopIn
<1> QED
  BY <1>2, <1>3, <1>5, <1>8, <1>9, <1>10 DEF Loops

\* A return.
LEMMA FramePopped ==
    ASSUME NEW s \in Seq(Frame), s # <<>>, NEW t, t = Front(s), NEW cond, NEW end,
           Stacked(s), Loops(s, cond, end)
    PROVE  /\ t \in Seq(Frame) /\ Stacked(t)
           /\ ~ IsLoopBody(Last(s)) => Loops(t, cond, end)
           /\ Last(s).kind = "while" => Loops(t, Last(s).this_cond, Last(s).this_end)
<1>1. PICK n \in Nat : n = Len(s) - 1
  <2>1. Len(s) \in Nat \ {0}
    OBVIOUS
  <2> QED
    BY <2>1
<1>2. /\ t \in Seq(Frame) /\ Len(t) = n /\ Len(s) = n + 1
      /\ \A i \in 1 .. n : t[i] = s[i]
      /\ Last(s) = s[n + 1]
  BY <1>1, FrontIs DEF Last
<1>3. Stacked(t)
  <2>1. \A i \in 1 .. n : i \in 1 .. n + 1
    BY <1>1
  <2>2. t # <<>> => t[1].kind = "block"
    <3>1. t # <<>> => 1 \in 1 .. n
      BY <1>2
    <3> QED
      BY <1>2, <3>1 DEF Stacked
  <2>3. \A d, e \in 1 .. n : d < e /\ t[d].stage \in ExpStages => t[e].kind \in Logic
    BY <1>2, <2>1 DEF Stacked
  <2> QED
    BY <1>2, <2>2, <2>3 DEF Stacked
<1>4. ASSUME NEW i \in 0 .. n, NEW c, NEW x, LoopIn(s, i, c, x)
      PROVE  LoopIn(t, i, c, x)
  <2>1. \A k \in 1 .. i : k \in 1 .. n /\ t[k] = s[k]
    BY <1>1, <1>2
  <2> QED
    BY <1>4, <2>1 DEF LoopIn
<1>5. \A d \in 1 .. n :
         t[d].kind = "while" => LoopIn(t, d - 1, t[d].this_cond, t[d].this_end)
  <2>1. SUFFICES ASSUME NEW d \in 1 .. n, t[d].kind = "while"
                 PROVE  LoopIn(t, d - 1, t[d].this_cond, t[d].this_end)
    OBVIOUS
  <2>2. t[d] = s[d] /\ d - 1 \in 0 .. n /\ d \in 1 .. n + 1
    BY <1>1, <1>2
  <2>3. LoopIn(s, d - 1, s[d].this_cond, s[d].this_end)
    BY <1>2, <2>1, <2>2 DEF Loops
  <2> QED
    BY <1>4, <2>2, <2>3
<1>6. ASSUME ~ IsLoopBody(Last(s))
      PROVE  LoopIn(t, n, cond, end)
  <2>1. LoopIn(s, n + 1, cond, end)
    BY <1>2 DEF Loops
  <2>2. LoopIn(s, n, cond, end)
    <3>1. CASE cond = None /\ end = None /\ \A k \in 1 .. n + 1 : ~ IsLoopBody(s[k])
      <4>1. \A k \in 1 .. n : k \in 1 .. n + 1
        BY <1>1
      <4> QED
        BY <3>1, <4>1 DEF LoopIn
    <3>2. CASE \E j \in 1 .. n + 1 : /\ IsLoopBody(s[j]) /\ cond = s[j].cond /\ end = s[j].end
                                     /\ \A k \in j + 1 .. n + 1 : ~ IsLoopBody(s[k])
      <4>1. PICK j \in 1 .. n + 1 : /\ IsLoopBody(s[j]) /\ cond = s[j].cond /\ end = s[j].end
                                    /\ \A k \in j + 1 .. n + 1 : ~ IsLoopBody(s[k])
        BY <3>2
      <4>2. j # n + 1
        BY <1>2, <1>6, <4>1
      <4>3. j \in 1 .. n /\ \A k \in j + 1 .. n : k \in j + 1 .. n + 1
        BY <1>1, <4>2
      <4> QED
        BY <4>1, <4>3 DEF LoopIn
    <3> QED
      BY <2>1, <3>1, <3>2 DEF LoopIn
  <2> QED
    BY <1>1, <1>4, <2>2
<1>7. ASSUME Last(s).kind = "while"
      PROVE  LoopIn(t, n, Last(s).this_cond, Last(s).this_end)
  <2>1. n + 1 \in 1 .. n + 1 /\ (n + 1) - 1 = n /\ n \in 0 .. n
    BY <1>1
  <2>2. LoopIn(s, n, s[n + 1].this_cond, s[n + 1].this_end)
    BY <1>2, <1>7, <2>1 DEF Loops
  <2> QED
    BY <1>2, <1>4, <2>1, <2>2
<1> QED
  BY <1>2, <1>3, <1>5, <1>6, <1>7 DEF Loops

-----------------------------------------------------------------------------
(* What the steps of an action do to the blocks. *)

LEMMA CurrIsUsed ==
    ASSUME NEW s, NEW bb, NEW em, NEW curr, NEW free, NEW later,
           Reserved(s, bb, em, curr, free, later)
    PROVE  Used(s, bb, free, curr)
BY DEF Reserved, Used, Spare

\* New blocks are free.
LEMMA MadeFree ==
    ASSUME NEW s, NEW bb, IsBlocks(bb), NEW em, NEW curr,
           Reserved(s, bb, em, curr, {}, {}),
           NEW n \in Nat, NEW cc, Grown(bb, cc, n),
           NEW new, new = Len(bb) + 1 .. Len(bb) + n
    PROVE  Reserved(s, cc, em, curr, new, new)
<1>1. /\ Len(bb) \in Nat /\ Len(cc) = Len(bb) + n
      /\ \A x \in 1 .. Len(bb) : cc[x] = bb[x]
      /\ \A x \in new : cc[x] = <<>>
  BY BlocksAre DEF Grown
<1>2. /\ \A x \in 1 .. Len(bb) : x \in 1 .. Len(cc) /\ x \notin new
      /\ \A x \in new : x \in 1 .. Len(cc) /\ x \notin 1 .. Len(bb)
      /\ \A x \in 1 .. Len(cc) : x \in 1 .. Len(bb) \/ x \in new
  BY <1>1
<1>3. /\ curr \in 1 .. Len(bb)
      /\ \A k \in 1 .. Len(em) : em[k] \in 1 .. Len(bb)
      /\ \A d \in 1 .. Len(s) : \A b \in PendingOf(s[d]) : Spare(bb, curr, b)
      /\ \A d \in 1 .. Len(s) : \A b \in FilledOf(s[d]) : b \in 1 .. Len(bb)
  BY DEF Reserved
<1>4. \A b : Spare(bb, curr, b) => Spare(cc, curr, b) /\ b \notin new
  BY <1>1, <1>2 DEF Spare
<1>5. \A b \in new : Spare(cc, curr, b) /\ ~ IsEmitted(em, b)
  BY <1>1, <1>2, <1>3 DEF Spare, IsEmitted
<1>6. \A b \in 1 .. Len(cc) :
          \/ IsEmitted(em, b)
          \/ \E d \in 1 .. Len(s) : s[d].kind \notin Logic /\ b \in PendingOf(s[d])
          \/ b \in new
  BY <1>2 DEF Reserved
<1>7. curr \in 1 .. Len(cc) /\ \A k \in 1 .. Len(em) : em[k] \in 1 .. Len(cc)
  BY <1>2, <1>3
<1>8. \A d \in 1 .. Len(s) :
          /\ Apart(s[d])
          /\ \A b \in PendingOf(s[d]) : Spare(cc, curr, b) /\ b \notin new
          /\ \A b \in FilledOf(s[d]) : b \in 1 .. Len(cc) /\ b \notin new
          /\ \A e \in 1 .. Len(s) : /\ d # e => PendingOf(s[d]) \cap PendingOf(s[e]) = {}
                                    /\ PendingOf(s[d]) \cap FilledOf(s[e]) = {}
          /\ s[d].kind \notin Logic => \A b \in PendingOf(s[d]) : ~ IsEmitted(em, b)
  BY <1>2, <1>3, <1>4 DEF Reserved
<1>9. \A i, j \in 1 .. Len(em) : em[i] = em[j] => i = j
  BY DEF Reserved
<1> QED
  BY <1>5, <1>6, <1>7, <1>8, <1>9 DEF Reserved

\* The instructions of one block only.
Changed(bb, cc, b) == /\ IsBlocks(cc) /\ Len(cc) = Len(bb)
                      /\ \A x \in 1 .. Len(bb) : x # b => cc[x] = bb[x]

LEMMA EmittedIsChanged ==
    ASSUME NEW bb, NEW cc, NEW b, NEW inst, EmittedAt(bb, cc, b, inst)
    PROVE  Changed(bb, cc, b)
BY DEF EmittedAt, Changed

LEMMA FilledUp ==
    ASSUME NEW s, NEW bb, NEW em, NEW curr, NEW free, NEW later,
           Reserved(s, bb, em, curr, free, later),
           NEW b, Used(s, bb, free, b), NEW cc, Changed(bb, cc, b)
    PROVE  Reserved(s, cc, em, curr, free, later)
<1>1. Len(cc) = Len(bb) /\ \A x \in 1 .. Len(bb) : x # b => cc[x] = bb[x]
  BY DEF Changed
<1>2. \A x : Spare(bb, curr, x) /\ x # b => Spare(cc, curr, x)
  BY <1>1 DEF Spare
<1>3. /\ \A x \in free : x # b
      /\ \A d \in 1 .. Len(s) : \A x \in PendingOf(s[d]) : x # b
  BY DEF Used
<1> QED
  BY <1>1, <1>2, <1>3 DEF Reserved

\* A block is emitted.
LEMMA Listed ==
    ASSUME NEW s, NEW bb, NEW em, IsSeq(em), NEW curr, NEW free, NEW later,
           Reserved(s, bb, em, curr, free, later),
           NEW x \in later, NEW ee, Pushed(ee, em, x)
    PROVE  Reserved(s, bb, ee, curr, free, later \ {x}) /\ IsSeq(ee)
<1>1. PICK n : n = Len(em)
  OBVIOUS
<1>2. /\ IsSeq(ee) /\ Len(ee) = n + 1 /\ ee[n + 1] = x /\ n \in Nat
      /\ \A i \in 1 .. n : ee[i] = em[i]
  BY <1>1, PushedIs
<1>3. \A i \in 1 .. n + 1 : i \in 1 .. n \/ i = n + 1
  BY <1>2
<1>4. \A i \in 1 .. n : i \in 1 .. n + 1
  BY <1>2
<1>5. \A b : IsEmitted(ee, b) <=> IsEmitted(em, b) \/ b = x
  <2>1. n + 1 \in 1 .. n + 1
    BY <1>2
  <2> QED
    BY <1>1, <1>2, <1>3, <1>4, <2>1 DEF IsEmitted
<1>6. ~ IsEmitted(em, x) /\ x \in free /\ x \in 1 .. Len(bb)
  BY DEF Reserved, Spare
<1>7. \A k \in 1 .. Len(ee) : ee[k] \in 1 .. Len(bb)
  <2>1. \A k \in 1 .. n : em[k] \in 1 .. Len(bb)
    BY <1>1 DEF Reserved
  <2> QED
    BY <1>2, <1>3, <1>6, <2>1
<1>8. \A i, j \in 1 .. Len(ee) : ee[i] = ee[j] => i = j
  <2>1. \A i, j \in 1 .. n : em[i] = em[j] => i = j
    BY <1>1 DEF Reserved
  <2>2. \A i \in 1 .. n : em[i] # x
    BY <1>1, <1>6 DEF IsEmitted
  <2> QED
    BY <1>2, <1>3, <2>1, <2>2
<1>9. \A d \in 1 .. Len(s) :
          s[d].kind \notin Logic => \A b \in PendingOf(s[d]) : ~ IsEmitted(ee, b)
  BY <1>5, <1>6 DEF Reserved
<1>10. \A b \in 1 .. Len(bb) :
          \/ IsEmitted(ee, b)
          \/ \E d \in 1 .. Len(s) : s[d].kind \notin Logic /\ b \in PendingOf(s[d])
          \/ b \in later \ {x}
  BY <1>5 DEF Reserved
<1>11. later \ {x} \subseteq free /\ \A b \in later \ {x} : ~ IsEmitted(ee, b)
  BY <1>5 DEF Reserved
<1> QED
  BY <1>2, <1>7, <1>8, <1>9, <1>10, <1>11 DEF Reserved

\* A free block is the one at which the pass goes on.
LEMMA Entered ==
    ASSUME NEW s, NEW bb, NEW em, NEW curr, NEW free, NEW later,
           Reserved(s, bb, em, curr, free, later),
           NEW x \in free, x \notin later
    PROVE  /\ Reserved(s, bb, em, x, free \ {x}, later)
           /\ bb[x] = <<>>
<1>1. Spare(bb, curr, x)
  BY DEF Reserved
<1>2. \A b : Spare(bb, curr, b) /\ b # x => Spare(bb, x, b)
  BY DEF Spare
<1>3. \A d \in 1 .. Len(s) : \A b \in PendingOf(s[d]) : b # x
  BY DEF Reserved
<1>4. x \in 1 .. Len(bb) /\ bb[x] = <<>>
  BY <1>1 DEF Spare
<1> QED
  BY <1>2, <1>3, <1>4 DEF Reserved

\* A free block that is emitted already is filled or will be.
LEMMA Taken ==
    ASSUME NEW s, NEW bb, NEW em, NEW curr, NEW free, NEW later,
           Reserved(s, bb, em, curr, free, later),
           NEW x \in free, x \notin later
    PROVE  /\ Reserved(s, bb, em, curr, free \ {x}, later)
           /\ Used(s, bb, free \ {x}, x) /\ bb[x] = <<>>
<1>1. Spare(bb, curr, x) /\ \A d \in 1 .. Len(s) : \A b \in PendingOf(s[d]) : b # x
  BY DEF Reserved
<1>2. Used(s, bb, free \ {x}, x) /\ bb[x] = <<>>
  BY <1>1 DEF Used, Spare
<1>3. Reserved(s, bb, em, curr, free \ {x}, later)
  BY DEF Reserved
<1> QED
  BY <1>2, <1>3

\* A frame gets free blocks.
LEMMA Handed ==
    ASSUME NEW s, IsSeq(s), NEW bb, NEW em, NEW curr, NEW free, NEW later,
           Reserved(s, bb, em, curr, free, later),
           NEW f, NEW t, Pushed(t, s, f),
           Apart(f), PendingOf(f) \subseteq free,
           f.kind \notin Logic => PendingOf(f) \subseteq later,
           f.kind \in Logic => PendingOf(f) \cap later = {},
           \A b \in FilledOf(f) : Used(s, bb, free, b)
    PROVE  Reserved(t, bb, em, curr, free \ PendingOf(f), later \ PendingOf(f))
<1>1. PICK n : n = Len(s)
  OBVIOUS
<1>2. /\ Len(t) = n + 1 /\ t[n + 1] = f /\ n \in Nat
      /\ \A i \in 1 .. n : t[i] = s[i]
  BY <1>1, PushedIs
<1>3. \A i \in 1 .. n + 1 : i \in 1 .. n \/ i = n + 1
  BY <1>2
<1>4. \A i \in 1 .. n : i \in 1 .. n + 1 /\ i # n + 1
  BY <1>2
<1> DEFINE P == PendingOf(f)
           Each(d) == /\ Apart(t[d])
                      /\ \A b \in PendingOf(t[d]) : Spare(bb, curr, b) /\ b \notin free \ P
                      /\ \A b \in FilledOf(t[d]) : b \in 1 .. Len(bb) /\ b \notin free \ P
                      /\ t[d].kind \notin Logic => \A b \in PendingOf(t[d]) : ~ IsEmitted(em, b)
<1>5. \A d \in 1 .. n + 1 : Each(d)
  <2>1. \A d \in 1 .. n : Each(d)
    BY <1>1, <1>2 DEF Reserved
  <2>2. Each(n + 1)
    BY <1>2 DEF Reserved, Used
  <2> QED
    BY <1>3, <2>1, <2>2
<1>6. /\ \A d \in 1 .. n : PendingOf(s[d]) \cap free = {} /\ FilledOf(s[d]) \cap free = {}
      /\ \A d \in 1 .. n : \A b \in FilledOf(f) : b \notin PendingOf(s[d])
      /\ P \subseteq free /\ \A b \in FilledOf(f) : b \notin free
  BY <1>1 DEF Reserved, Used
<1>7. \A d, e \in 1 .. n + 1 : /\ d # e => PendingOf(t[d]) \cap PendingOf(t[e]) = {}
                               /\ PendingOf(t[d]) \cap FilledOf(t[e]) = {}
  <2>1. \A d, e \in 1 .. n : /\ d # e => PendingOf(t[d]) \cap PendingOf(t[e]) = {}
                             /\ PendingOf(t[d]) \cap FilledOf(t[e]) = {}
    BY <1>1, <1>2 DEF Reserved
  <2>2. \A d \in 1 .. n : /\ PendingOf(t[d]) \cap P = {} /\ P \cap PendingOf(t[d]) = {}
                          /\ PendingOf(t[d]) \cap FilledOf(f) = {}
                          /\ P \cap FilledOf(t[d]) = {}
    BY <1>2, <1>6
  <2>3. P \cap FilledOf(f) = {}
    BY <1>6
  <2>4. \A e \in 1 .. n : /\ PendingOf(t[n + 1]) \cap PendingOf(t[e]) = {}
                          /\ PendingOf(t[n + 1]) \cap FilledOf(t[e]) = {}
    BY <1>2, <2>2
  <2>5. \A e \in 1 .. n : /\ PendingOf(t[e]) \cap PendingOf(t[n + 1]) = {}
                          /\ PendingOf(t[e]) \cap FilledOf(t[n + 1]) = {}
    BY <1>2, <2>2
  <2>6. PendingOf(t[n + 1]) \cap FilledOf(t[n + 1]) = {}
    BY <1>2, <2>3
  <2> QED
    BY <1>3, <2>1, <2>4, <2>5, <2>6
<1>8. \A b \in 1 .. Len(bb) :
          \/ IsEmitted(em, b)
          \/ \E d \in 1 .. n + 1 : t[d].kind \notin Logic /\ b \in PendingOf(t[d])
          \/ b \in later \ P
  <2>1. SUFFICES ASSUME NEW b \in 1 .. Len(bb), ~ IsEmitted(em, b), b \notin later \ P
                 PROVE  \E d \in 1 .. n + 1 : t[d].kind \notin Logic /\ b \in PendingOf(t[d])
    OBVIOUS
  <2>2. CASE b \in later
    <3>1. b \in P /\ f.kind \notin Logic /\ n + 1 \in 1 .. n + 1
      BY <1>2, <2>1, <2>2
    <3> QED
      BY <1>2, <3>1
  <2>3. CASE b \notin later
    <3>1. PICK d \in 1 .. n : s[d].kind \notin Logic /\ b \in PendingOf(s[d])
      BY <1>1, <2>1, <2>3 DEF Reserved
    <3> QED
      BY <1>2, <1>4, <3>1
  <2> QED
    BY <2>2, <2>3
<1>9. /\ curr \in 1 .. Len(bb)
      /\ \A b \in free \ P : Spare(bb, curr, b)
      /\ later \ P \subseteq free \ P /\ \A b \in later \ P : ~ IsEmitted(em, b)
      /\ \A k \in 1 .. Len(em) : em[k] \in 1 .. Len(bb)
      /\ \A i, j \in 1 .. Len(em) : em[i] = em[j] => i = j
  BY DEF Reserved
<1> QED
  BY <1>2, <1>5, <1>7, <1>8, <1>9 DEF Reserved

\* The blocks of a frame that returns, or is replaced, are free.
LEMMA HandedBack ==
    ASSUME NEW S, NEW s \in Seq(S), s # <<>>, NEW t, t = Front(s), NEW f, f = Last(s),
           NEW bb, NEW em, NEW curr, NEW free, NEW later,
           Reserved(s, bb, em, curr, free, later)
    PROVE  /\ Reserved(t, bb, em, curr, free \cup PendingOf(f),
                       IF f.kind \in Logic THEN later ELSE later \cup PendingOf(f))
           /\ \A b \in FilledOf(f) : Used(t, bb, free \cup PendingOf(f), b)
           /\ Apart(f)
<1>1. PICK n \in Nat : n = Len(s) - 1
  <2>1. Len(s) \in Nat \ {0}
    OBVIOUS
  <2> QED
    BY <2>1
<1>2. /\ Len(t) = n /\ Len(s) = n + 1
      /\ \A i \in 1 .. n : t[i] = s[i]
      /\ f = s[n + 1]
  BY <1>1, FrontIs DEF Last
<1>3. /\ \A i \in 1 .. n + 1 : i \in 1 .. n \/ i = n + 1
      /\ \A i \in 1 .. n : i \in 1 .. n + 1 /\ i # n + 1
      /\ n + 1 \in 1 .. n + 1
  BY <1>1
<1> DEFINE P == PendingOf(f)
           L == IF f.kind \in Logic THEN later ELSE later \cup P
<1>4. /\ Apart(f)
      /\ \A b \in P : Spare(bb, curr, b) /\ b \notin free
      /\ \A b \in FilledOf(f) : b \in 1 .. Len(bb) /\ b \notin free
      /\ f.kind \notin Logic => \A b \in P : ~ IsEmitted(em, b)
      /\ P \cap FilledOf(f) = {}
  BY <1>2, <1>3 DEF Reserved
<1>5. \A d \in 1 .. n : /\ PendingOf(t[d]) \cap P = {}
                        /\ PendingOf(t[d]) \cap FilledOf(f) = {}
                        /\ P \cap FilledOf(t[d]) = {}
  BY <1>2, <1>3 DEF Reserved
<1>6. \A b \in FilledOf(f) : Used(t, bb, free \cup P, b)
  BY <1>2, <1>4, <1>5 DEF Used
<1>7. \A d \in 1 .. n :
          /\ Apart(t[d])
          /\ \A b \in PendingOf(t[d]) : Spare(bb, curr, b) /\ b \notin free \cup P
          /\ \A b \in FilledOf(t[d]) : b \in 1 .. Len(bb) /\ b \notin free \cup P
          /\ \A e \in 1 .. n : /\ d # e => PendingOf(t[d]) \cap PendingOf(t[e]) = {}
                               /\ PendingOf(t[d]) \cap FilledOf(t[e]) = {}
          /\ t[d].kind \notin Logic => \A b \in PendingOf(t[d]) : ~ IsEmitted(em, b)
  BY <1>2, <1>3, <1>5 DEF Reserved
<1>8. L \subseteq free \cup P /\ \A b \in L : ~ IsEmitted(em, b)
  BY <1>4 DEF Reserved
<1>9. \A b \in 1 .. Len(bb) :
          \/ IsEmitted(em, b)
          \/ \E d \in 1 .. n : t[d].kind \notin Logic /\ b \in PendingOf(t[d])
          \/ b \in L
  <2>1. SUFFICES ASSUME NEW b \in 1 .. Len(bb), ~ IsEmitted(em, b), b \notin L
                 PROVE  \E d \in 1 .. n : t[d].kind \notin Logic /\ b \in PendingOf(t[d])
    OBVIOUS
  <2>2. b \notin later
    BY <2>1
  <2>3. PICK d \in 1 .. n + 1 : s[d].kind \notin Logic /\ b \in PendingOf(s[d])
    BY <1>2, <2>1, <2>2 DEF Reserved
  <2>4. d # n + 1
    BY <1>2, <2>1, <2>3
  <2> QED
    BY <1>2, <1>3, <2>3, <2>4
<1>10. /\ curr \in 1 .. Len(bb)
       /\ \A b \in free \cup P : Spare(bb, curr, b)
       /\ \A k \in 1 .. Len(em) : em[k] \in 1 .. Len(bb)
       /\ \A i, j \in 1 .. Len(em) : em[i] = em[j] => i = j
  BY <1>4 DEF Reserved
<1>11. Reserved(t, bb, em, curr, free \cup P, L)
  BY <1>2, <1>7, <1>8, <1>9, <1>10 DEF Reserved
<1> QED
  BY <1>4, <1>6, <1>11

-----------------------------------------------------------------------------
LEMMA GrownIsSound ==
    ASSUME NEW bb, IsBlocks(bb), Sound(bb), NEW n \in Nat, NEW cc, Grown(bb, cc, n)
    PROVE  Sound(cc)
<1>1. /\ Len(bb) \in Nat /\ Len(cc) = Len(bb) + n
      /\ \A x \in 1 .. Len(bb) : cc[x] = bb[x]
      /\ \A x \in Len(bb) + 1 .. Len(bb) + n : cc[x] = <<>>
  BY BlocksAre DEF Grown
<1>2. SUFFICES ASSUME NEW b \in 1 .. Len(cc), NEW k \in 1 .. Len(cc[b])
               PROVE  /\ IsTerminator(cc[b][k]) => k = Len(cc[b])
                      /\ Targets(cc[b][k]) \subseteq 1 .. Len(cc)
  BY DEF Sound
<1>3. CASE b \in 1 .. Len(bb)
  <2>1. cc[b] = bb[b] /\ 1 .. Len(bb) \subseteq 1 .. Len(cc)
    BY <1>1, <1>3
  <2> QED
    BY <1>2, <1>3, <2>1 DEF Sound
<1>4. CASE b \notin 1 .. Len(bb)
  <2>1. cc[b] = <<>>
    BY <1>1, <1>4
  <2>2. Len(cc[b]) = 0
    BY <2>1
  <2> QED
    BY <1>2, <2>2
<1> QED
  BY <1>3, <1>4

LEMMA EmittedIsSound ==
    ASSUME NEW bb, IsBlocks(bb), Sound(bb), NEW b \in 1 .. Len(bb), NEW inst,
           Targets(inst) \subseteq 1 .. Len(bb),
           NEW cc, EmittedAt(bb, cc, b, inst)
    PROVE  Sound(cc)
<1>1. /\ Len(cc) = Len(bb) /\ \A x \in 1 .. Len(bb) : x # b => cc[x] = bb[x]
      /\ Emitted(bb[b], cc[b], inst)
  BY DEF EmittedAt
<1>2. SUFFICES ASSUME NEW x \in 1 .. Len(bb), NEW k \in 1 .. Len(cc[x])
               PROVE  /\ IsTerminator(cc[x][k]) => k = Len(cc[x])
                      /\ Targets(cc[x][k]) \subseteq 1 .. Len(bb)
  BY <1>1 DEF Sound
<1>3. CASE x # b \/ Terminated(bb[b])
  <2>1. cc[x] = bb[x]
    BY <1>1, <1>3 DEF Emitted
  <2> QED
    BY <1>2, <2>1 DEF Sound
<1>4. CASE x = b /\ ~ Terminated(bb[b])
  <2>1. PICK old, more : old = bb[b] /\ more = cc[b]
    OBVIOUS
  <2>2. Pushed(more, old, inst) /\ IsSeq(old) /\ ~ Terminated(old)
    BY <1>1, <1>4, <2>1, BlocksAre DEF Emitted
  <2>3. /\ Len(more) = Len(old) + 1 /\ more[Len(old) + 1] = inst /\ Len(old) \in Nat
        /\ \A i \in 1 .. Len(old) : more[i] = old[i]
    BY <2>2, PushedIs
  <2>4. \A i \in 1 .. Len(old) : /\ IsTerminator(old[i]) => i = Len(old)
                                 /\ Targets(old[i]) \subseteq 1 .. Len(bb)
    BY <2>1 DEF Sound
  <2>5. CASE k \in 1 .. Len(old)
    <3>1. ~ IsTerminator(old[k])
      <4>1. ASSUME IsTerminator(old[k])
            PROVE  FALSE
        <5>1. k = Len(old) /\ Len(old) > 0
          BY <2>3, <2>4, <2>5, <4>1
        <5>2. old # <<>> /\ Last(old) = old[k]
          BY <2>2, <5>1, NotEmptyIs
        <5> QED
          BY <2>2, <4>1, <5>2 DEF Terminated
      <4> QED
        BY <4>1
    <3> QED
      BY <1>4, <2>1, <2>3, <2>4, <2>5, <3>1
  <2>6. CASE k = Len(old) + 1
    BY <1>4, <2>1, <2>3, <2>6
  <2>7. k \in 1 .. Len(old) \/ k = Len(old) + 1
    BY <1>2, <1>4, <2>1, <2>3
  <2> QED
    BY <2>5, <2>6, <2>7
<1> QED
  BY <1>3, <1>4

\* A step that does not jump leaves the block open.
LEMMA EmittedOpen ==
    ASSUME NEW bb, IsBlocks(bb), NEW b \in 1 .. Len(bb), OpenEnded(bb, b), NEW inst,
           IsTerminator(inst) => inst.op = "return",
           NEW cc, EmittedAt(bb, cc, b, inst)
    PROVE  OpenEnded(cc, b)
<1>1. PICK old, more : old = bb[b] /\ more = cc[b]
  OBVIOUS
<1>2. Emitted(old, more, inst) /\ IsSeq(old)
  BY <1>1, BlocksAre DEF EmittedAt
<1>3. CASE Terminated(old)
  BY <1>1, <1>2, <1>3 DEF Emitted, OpenEnded
<1>4. CASE ~ Terminated(old)
  <2>1. Last(more) = inst
    BY <1>2, <1>4, PushedIs DEF Emitted
  <2> QED
    BY <1>1, <2>1 DEF OpenEnded, Terminated
<1> QED
  BY <1>3, <1>4

LEMMA EmptyIsOpen ==
    ASSUME NEW bb, NEW b, bb[b] = <<>>
    PROVE  OpenEnded(bb, b)
BY NothingIsOpen DEF OpenEnded
-----------------------------------------------------------------------------
(* The actions. *)

Pass ==
    /\ Typed
    /\ Stacked(stack) /\ Loops(stack, m.cond, m.end)
    /\ Reserved(stack, blocks, bbs, m.curr, {}, {})
    /\ Sound(blocks) /\ OpenEnded(blocks, m.curr)

LEMMA TokensAreLogged ==
    ASSUME Typed, NEW tok \in Tokens, Log(tok) \/ LogIn(tok)
    PROVE  prog' \in Seq(ANode)
<1>1. Len(stack) \in Nat
  BY DEF Typed
<1>2. PICK d \in Nat : prog' = Append(prog, [tok |-> tok, depth |-> d])
  BY <1>1 DEF Log, LogIn
<1>3. [tok |-> tok, depth |-> d] \in ANode
  BY DEF ANode
<1> QED
  BY <1>2, <1>3 DEF Typed

\* The targets of break and continue are blocks.
LEMMA LoopTargets ==
    ASSUME NEW s \in Seq(Frame), NEW cond, NEW end, Loops(s, cond, end),
           NEW bb, NEW em, NEW curr, NEW free, NEW later,
           Reserved(s, bb, em, curr, free, later)
    PROVE  /\ cond # None => cond \in 1 .. Len(bb)
           /\ end # None => end \in 1 .. Len(bb)
<1>1. CASE cond = None /\ end = None
  BY <1>1
<1>2. CASE ~ (cond = None /\ end = None)
  <2>1. PICK j \in 1 .. Len(s) : IsLoopBody(s[j]) /\ cond = s[j].cond /\ end = s[j].end
    BY <1>2 DEF Loops, LoopIn
  <2>2. cond \in FilledOf(s[j]) /\ end \in PendingOf(s[j])
    BY <2>1 DEF FilledOf, PendingOf, IsLoopBody, Logic
  <2> QED
    BY <2>1, <2>2 DEF Reserved, Spare
<1> QED
  BY <1>1, <1>2

\* Frames that have nothing to do with blocks.
Empty(f) == PendingOf(f) = {} /\ FilledOf(f) = {} /\ Apart(f) /\ f.kind # "while"

LEMMA EmptyFrames ==
    /\ \A k \in {"exp", "return"} :
          [kind |-> k, stage |-> "exp"] \in Frame /\ Empty([kind |-> k, stage |-> "exp"])
    /\ [kind |-> "block", stage |-> "items"] \in Frame
    /\ Empty([kind |-> "block", stage |-> "items"])
    /\ [kind |-> "if", stage |-> "cond"] \in Frame
    /\ Empty([kind |-> "if", stage |-> "cond"])
    /\ \A f \in Frame : f.kind \in {"block", "exp", "return"} => Empty(f)
BY DEF Frame, Empty, PendingOf, FilledOf, Apart, Logic

\* Before a statement no expression is waited for.
LEMMA StatementsAreCalm ==
    ASSUME Pass, stack # <<>>, WantsStmt
    PROVE  Calm(stack) /\ Top \in Frame
<1>1. stack \in Seq(Frame) /\ Stacked(stack)
  BY DEF Pass, Typed
<1>2. Top \in Frame
  BY <1>1, CalmIs DEF Top
<1>3. Top.kind \notin Logic /\ Top.stage \notin ExpStages
  <2>1. Top.kind = "block" \/ Top.stage \in {"then", "else", "body"}
    BY DEF WantsStmt
  <2> QED
    BY <1>2, <2>1 DEF Frame, Logic, ExpStages
<1> QED
  BY <1>1, <1>2, <1>3, CalmIs DEF Top

\* What is the same in every action that only calls or returns.
SameBlocks == UNCHANGED <<void, prog, blocks, bbs>> /\ m'.curr = m.curr

LEMMA CallKeeps ==
    ASSUME Pass, stack # <<>>, WantsStmt, SameBlocks, m' = m,
           NEW f \in Frame, Empty(f), Pushed(stack', stack, f),
           done' \in {"nothing", "exp", "stmt"}, exp' = exp, nodes' \in 0 .. MaxNodes
    PROVE  Pass'
<1>1. /\ Typed /\ Stacked(stack) /\ Loops(stack, m.cond, m.end)
      /\ Reserved(stack, blocks, bbs, m.curr, {}, {})
      /\ Sound(blocks) /\ OpenEnded(blocks, m.curr)
  BY DEF Pass
<1>2. stack \in Seq(Frame) /\ Calm(stack) /\ IsSeq(stack)
  BY <1>1, StatementsAreCalm, SeqIs DEF Typed
<1>3. f.kind # "while" /\ ~ IsLoopBody(f) /\ PendingOf(f) = {} /\ FilledOf(f) = {} /\ Apart(f)
  BY DEF Empty, IsLoopBody
<1>4. stack' \in Seq(Frame) /\ Stacked(stack') /\ Loops(stack', m.cond, m.end)
  BY <1>1, <1>2, <1>3, FramePushed
<1>5. Reserved(stack', blocks, bbs, m.curr, {} \ PendingOf(f), {} \ PendingOf(f))
  BY <1>1, <1>2, <1>3, Handed
<1>6. Reserved(stack', blocks, bbs, m.curr, {}, {})
  BY <1>3, <1>5
<1>7. Typed'
  BY <1>1, <1>4 DEF Typed, SameBlocks
<1> QED
  BY <1>1, <1>4, <1>6, <1>7 DEF Pass, SameBlocks

LEMMA ReturnKeeps ==
    ASSUME Pass, stack # <<>>, SameBlocks,
           Empty(Top), stack' = Front(stack),
           m' \in [curr : Nat, cond : Nat, end : Nat, returned : BOOLEAN],
           m'.cond = m.cond, m'.end = m.end,
           done' \in {"nothing", "exp", "stmt"}, exp' = exp, nodes' = nodes
    PROVE  Pass'
<1>1. /\ Typed /\ Stacked(stack) /\ Loops(stack, m.cond, m.end)
      /\ Reserved(stack, blocks, bbs, m.curr, {}, {})
      /\ Sound(blocks) /\ OpenEnded(blocks, m.curr)
  BY DEF Pass
<1>2. stack \in Seq(Frame)
  BY <1>1 DEF Typed
<1>3. ~ IsLoopBody(Last(stack)) /\ PendingOf(Last(stack)) = {}
  BY DEF Empty, IsLoopBody, Top
<1>4. stack' \in Seq(Frame) /\ Stacked(stack') /\ Loops(stack', m.cond, m.end)
  BY <1>1, <1>2, <1>3, FramePopped
<1>5. PICK f : f = Last(stack)
  OBVIOUS
<1>6. Reserved(stack', blocks, bbs, m.curr, {}, {})
  <2>1. Reserved(stack', blocks, bbs, m.curr, {} \cup PendingOf(f),
                 IF f.kind \in Logic THEN {} ELSE {} \cup PendingOf(f))
    BY <1>1, <1>2, <1>5, HandedBack
  <2>2. PendingOf(f) = {}
    BY <1>3, <1>5
  <2> QED
    BY <2>1, <2>2
<1>7. Typed'
  BY <1>1, <1>4 DEF Typed, SameBlocks
<1> QED
  BY <1>1, <1>4, <1>6, <1>7 DEF Pass, SameBlocks

LEMMA CallsKeep ==
    ASSUME Pass, stack # <<>>, ExpStmt \/ Open \/ ReturnExp \/ If
    PROVE  Pass'
<1>1. nodes' \in 0 .. MaxNodes
  BY LoweringAssumption DEF Pass, Typed, ExpStmt, Open, ReturnExp, If, Room, Starts
<1>2. WantsStmt /\ SameBlocks /\ m' = m /\ done' = "nothing" /\ exp' = exp
  BY DEF ExpStmt, Open, ReturnExp, If, Push, SameBlocks
<1>3. PICK f \in Frame : Empty(f) /\ Pushed(stack', stack, f)
  BY EmptyFrames DEF ExpStmt, Open, ReturnExp, If, Push, Pushed
<1> QED
  BY <1>1, <1>2, <1>3, CallKeeps

LEMMA ReturnsKeep ==
    ASSUME Pass, stack # <<>>, EndExpStmt \/ Close
    PROVE  Pass'
<1>1. stack \in Seq(Frame) /\ Stacked(stack) /\ Typed
  BY DEF Pass, Typed
<1>2. Top \in Frame
  BY <1>1, CalmIs DEF Top
<1>3. Empty(Top)
  BY <1>2, EmptyFrames DEF EndExpStmt, Close, Resumes
<1>4. /\ SameBlocks /\ stack' = Front(stack)
      /\ m' \in [curr : Nat, cond : Nat, end : Nat, returned : BOOLEAN]
      /\ m'.cond = m.cond /\ m'.end = m.end
      /\ done' = "stmt" /\ exp' = exp /\ nodes' = nodes
  BY <1>1 DEF Typed, EndExpStmt, Close, Pop, SameBlocks
<1> QED
  BY <1>3, <1>4, ReturnKeeps

LEMMA SemiKeeps ==
    ASSUME Pass, Semi
    PROVE  Pass'
<1>1. Typed'
  BY DEF Pass, Typed, Semi
<1> QED
  BY <1>1 DEF Pass, Semi

\* The instructions of the block where the pass is, and nothing else.
LEMMA OperandKeeps ==
    ASSUME Pass, stack # <<>>, Operand
    PROVE  Pass'
<1>1. /\ Typed /\ Stacked(stack) /\ Loops(stack, m.cond, m.end)
      /\ Reserved(stack, blocks, bbs, m.curr, {}, {})
      /\ Sound(blocks) /\ OpenEnded(blocks, m.curr)
  BY DEF Pass
<1>2. IsBlocks(blocks) /\ m.curr \in 1 .. Len(blocks) /\ Used(stack, blocks, {}, m.curr)
  BY <1>1, CurrIsUsed DEF Typed, Used
<1>3. EmittedAt(blocks, blocks', m.curr, Call(Here))
  BY <1>2, EmitIs DEF Operand
<1>4. Reserved(stack, blocks', bbs, m.curr, {}, {})
  BY <1>1, <1>2, <1>3, FilledUp, EmittedIsChanged
<1>5. Sound(blocks') /\ OpenEnded(blocks', m.curr)
  <2>1. Targets(Call(Here)) = {} /\ ~ IsTerminator(Call(Here))
    BY TargetsAre
  <2> QED
    BY <1>1, <1>2, <1>3, <2>1, EmittedIsSound, EmittedOpen
<1>6. Typed'
  <2>1. prog' \in Seq(ANode) /\ exp' \in Nat
    <3>1. "eval" \in Tokens /\ Log("eval")
      BY DEF Operand, Tokens
    <3>2. Here \in Nat
      BY <1>1 DEF Here, Typed
    <3> QED
      BY <1>1, <3>1, <3>2, TokensAreLogged DEF Operand, Yields
  <2>2. IsBlocks(blocks')
    BY <1>3 DEF EmittedAt
  <2> QED
    BY <1>1, <2>1, <2>2 DEF Typed, Operand, Yields
<1> QED
  BY <1>1, <1>4, <1>5, <1>6 DEF Pass, Operand

LEMMA Emitting ==
    ASSUME NEW s, NEW bb, IsBlocks(bb), Sound(bb), NEW em, NEW curr, NEW free, NEW later,
           Reserved(s, bb, em, curr, free, later),
           NEW b, Used(s, bb, free, b), NEW inst, Targets(inst) \subseteq 1 .. Len(bb),
           NEW cc, cc = Emit(bb, b, inst)
    PROVE  /\ IsBlocks(cc) /\ Len(cc) = Len(bb) /\ Sound(cc)
           /\ Reserved(s, cc, em, curr, free, later)
           /\ \A x : Used(s, bb, free, x) => Used(s, cc, free, x)
           /\ EmittedAt(bb, cc, b, inst)
<1>1. b \in 1 .. Len(bb)
  BY DEF Used
<1>2. EmittedAt(bb, cc, b, inst)
  BY <1>1, EmitIs
<1>3. Changed(bb, cc, b) /\ IsBlocks(cc) /\ Len(cc) = Len(bb)
  BY <1>2, EmittedIsChanged DEF EmittedAt
<1>4. Reserved(s, cc, em, curr, free, later)
  BY <1>3, FilledUp
<1>5. Sound(cc)
  BY <1>1, <1>2, EmittedIsSound
<1> QED
  BY <1>2, <1>3, <1>4, <1>5 DEF Used

\* A block of the frame on top that is filled.
LEMMA FilledAreUsed ==
    ASSUME NEW S, NEW s \in Seq(S), s # <<>>, NEW bb, NEW em, NEW curr, NEW free, NEW later,
           Reserved(s, bb, em, curr, free, later), NEW b \in FilledOf(Last(s))
    PROVE  Used(s, bb, free, b)
<1>1. Len(s) \in 1 .. Len(s) /\ Last(s) = s[Len(s)]
  BY DEF Last
<1>2. b \in 1 .. Len(bb) /\ b \notin free
  BY <1>1 DEF Reserved
<1>3. \A d \in 1 .. Len(s) : b \notin PendingOf(s[d])
  BY <1>1 DEF Reserved
<1> QED
  BY <1>2, <1>3 DEF Used

LEMMA PendingAreBlocks ==
    ASSUME NEW S, NEW s \in Seq(S), s # <<>>, NEW bb, NEW em, NEW curr, NEW free, NEW later,
           Reserved(s, bb, em, curr, free, later), NEW b \in PendingOf(Last(s))
    PROVE  b \in 1 .. Len(bb) /\ bb[b] = <<>> /\ b # curr
<1>1. Len(s) \in 1 .. Len(s) /\ Last(s) = s[Len(s)]
  BY DEF Last
<1> QED
  BY <1>1 DEF Reserved, Spare

LEMMA UsedStays ==
    ASSUME NEW s, NEW bb, NEW free, NEW b, Used(s, bb, free, b), NEW less, less \subseteq free
    PROVE  Used(s, bb, less, b)
BY DEF Used

LEMMA AppendTwo ==
    ASSUME NEW s, IsSeq(s), NEW a, NEW b, NEW t, t = s \o <<a, b>>
    PROVE  \E u : Pushed(u, s, a) /\ Pushed(t, u, b)
<1>1. PICK S : S = {s[i] : i \in 1 .. Len(s)} \cup {a, b}
  OBVIOUS
<1>2. s \in Seq(S) /\ a \in S /\ b \in S
  <2>1. s \in Seq({s[i] : i \in 1 .. Len(s)}) /\ {s[i] : i \in 1 .. Len(s)} \subseteq S
    BY <1>1 DEF IsSeq
  <2> QED
    BY <1>1, <2>1, SeqMonotonic
<1>3. t = Append(Append(s, a), b)
  BY <1>2
<1> QED
  BY <1>3 DEF Pushed

LEMMA RoomLeft ==
    ASSUME Typed, Room, Starts
    PROVE  nodes' \in 0 .. MaxNodes
BY LoweringAssumption DEF Typed, Room, Starts

\* Return.
LEMMA ReturnIsSound ==
    ASSUME Typed, Reserved(stack, blocks, bbs, m.curr, {}, {}), Sound(blocks),
           OpenEnded(blocks, m.curr), NEW v \in Nat, Returns(v)
    PROVE  /\ IsBlocks(blocks') /\ Reserved(stack, blocks', bbs, m.curr, {}, {})
           /\ Sound(blocks') /\ OpenEnded(blocks', m.curr)
           /\ prog' \in Seq(ANode)
           /\ m' \in [curr : Nat, cond : Nat, end : Nat, returned : BOOLEAN]
           /\ m'.curr = m.curr /\ m'.cond = m.cond /\ m'.end = m.end
<1>1. IsBlocks(blocks) /\ m.curr \in 1 .. Len(blocks) /\ Used(stack, blocks, {}, m.curr)
  BY CurrIsUsed DEF Typed, Used
<1>2. /\ Targets(Return(v)) = {} /\ Return(v).op = "return"
      /\ blocks' = Emit(blocks, m.curr, Return(v))
  BY TargetsAre DEF Returns
<1>3. /\ IsBlocks(blocks') /\ Reserved(stack, blocks', bbs, m.curr, {}, {})
      /\ Sound(blocks') /\ EmittedAt(blocks, blocks', m.curr, Return(v))
  BY <1>1, <1>2, Emitting
<1>4. OpenEnded(blocks', m.curr)
  BY <1>1, <1>2, <1>3, EmittedOpen
<1>5. prog' \in Seq(ANode)
  <2>1. "return" \in Tokens /\ Log("return")
    BY DEF Returns, Tokens
  <2> QED
    BY <2>1, TokensAreLogged
<1> QED
  BY <1>3, <1>4, <1>5 DEF Returns, Typed

LEMMA ReturnNothingKeeps ==
    ASSUME Pass, stack # <<>>, ReturnNothing
    PROVE  Pass'
<1>1. /\ Typed /\ Stacked(stack) /\ Loops(stack, m.cond, m.end)
      /\ Reserved(stack, blocks, bbs, m.curr, {}, {})
      /\ Sound(blocks) /\ OpenEnded(blocks, m.curr)
  BY DEF Pass
<1>2. Returns(None) /\ None \in Nat
  BY DEF ReturnNothing, None
<1>3. /\ IsBlocks(blocks') /\ Reserved(stack, blocks', bbs, m.curr, {}, {})
      /\ Sound(blocks') /\ OpenEnded(blocks', m.curr)
      /\ prog' \in Seq(ANode)
      /\ m' \in [curr : Nat, cond : Nat, end : Nat, returned : BOOLEAN]
      /\ m'.curr = m.curr /\ m'.cond = m.cond /\ m'.end = m.end
  BY <1>1, <1>2, ReturnIsSound
<1>4. nodes' \in 0 .. MaxNodes
  BY <1>1, RoomLeft DEF ReturnNothing
<1>5. Typed'
  BY <1>1, <1>3, <1>4 DEF Typed, ReturnNothing
<1> QED
  BY <1>1, <1>3, <1>5 DEF Pass, ReturnNothing

LEMMA EndReturnKeeps ==
    ASSUME Pass, stack # <<>>, EndReturn
    PROVE  Pass'
<1>1. /\ Typed /\ Stacked(stack) /\ Loops(stack, m.cond, m.end)
      /\ Reserved(stack, blocks, bbs, m.curr, {}, {})
      /\ Sound(blocks) /\ OpenEnded(blocks, m.curr)
  BY DEF Pass
<1>2. Returns(exp) /\ exp \in Nat /\ stack' = Front(stack) /\ stack \in Seq(Frame)
  BY <1>1 DEF EndReturn, Pop, Typed
<1>3. /\ IsBlocks(blocks') /\ Reserved(stack, blocks', bbs, m.curr, {}, {})
      /\ Sound(blocks') /\ OpenEnded(blocks', m.curr)
      /\ prog' \in Seq(ANode)
      /\ m' \in [curr : Nat, cond : Nat, end : Nat, returned : BOOLEAN]
      /\ m'.curr = m.curr /\ m'.cond = m.cond /\ m'.end = m.end
  BY <1>1, <1>2, ReturnIsSound
<1>4. PICK f : f = Last(stack)
  OBVIOUS
<1>5. PendingOf(f) = {} /\ ~ IsLoopBody(f)
  BY <1>4 DEF EndReturn, Resumes, Top, PendingOf, IsLoopBody, Logic
<1>6. stack' \in Seq(Frame) /\ Stacked(stack') /\ Loops(stack', m.cond, m.end)
  BY <1>1, <1>2, <1>4, <1>5, FramePopped
<1>7. Reserved(stack', blocks', bbs, m.curr, {}, {})
  <2>1. Reserved(stack', blocks', bbs, m.curr, {} \cup PendingOf(f),
                 IF f.kind \in Logic THEN {} ELSE {} \cup PendingOf(f))
    BY <1>2, <1>3, <1>4, HandedBack
  <2> QED
    BY <1>5, <2>1
<1>8. Typed'
  BY <1>1, <1>3, <1>6 DEF Typed, EndReturn, Pop
<1> QED
  BY <1>1, <1>3, <1>6, <1>7, <1>8 DEF Pass, EndReturn

LEMMA EndFunctionKeeps ==
    ASSUME Pass, stack # <<>>, EndFunction
    PROVE  Pass'
<1>1. /\ Typed /\ Stacked(stack) /\ Loops(stack, m.cond, m.end)
      /\ Reserved(stack, blocks, bbs, m.curr, {}, {})
      /\ Sound(blocks) /\ OpenEnded(blocks, m.curr)
  BY DEF Pass
<1>2. stack \in Seq(Frame) /\ Len(stack) = 1 /\ stack' = <<>> /\ IsBlocks(blocks)
  BY <1>1 DEF Typed, EndFunction
<1>3. m.curr \in 1 .. Len(blocks) /\ Used(stack, blocks, {}, m.curr)
  BY <1>1, CurrIsUsed DEF Used
<1>4. IsBlocks(blocks') /\ Reserved(stack, blocks', bbs, m.curr, {}, {}) /\ Sound(blocks')
      /\ OpenEnded(blocks', m.curr)
  <2>1. CASE blocks' = blocks
    BY <1>1, <1>2, <2>1
  <2>2. CASE blocks' # blocks
    <3>1. ~ Returned(blocks[m.curr])
          /\ blocks' = [blocks EXCEPT ![m.curr] = Append(@, Return(None))]
      BY <2>2 DEF EndFunction
    <3>2. ~ Terminated(blocks[m.curr])
      BY <1>1, <3>1 DEF Returned, OpenEnded, Terminated
    <3>3. try_append(blocks[m.curr], Return(None)) = Append(blocks[m.curr], Return(None))
      BY <3>2 DEF try_append, Terminated
    <3>4. blocks' = Emit(blocks, m.curr, Return(None))
      BY <3>1, <3>3 DEF Emit
    <3>5. PICK inst : inst = Return(None)
      OBVIOUS
    <3>6. Targets(inst) \subseteq 1 .. Len(blocks) /\ inst.op = "return"
          /\ blocks' = Emit(blocks, m.curr, inst)
      BY <3>4, <3>5, TargetsAre
    <3>7. /\ IsBlocks(blocks') /\ Reserved(stack, blocks', bbs, m.curr, {}, {})
          /\ Sound(blocks') /\ EmittedAt(blocks, blocks', m.curr, inst)
      BY ONLY <1>1, <1>2, <1>3, <3>6, Emitting
    <3>8. OpenEnded(blocks', m.curr)
      BY <1>1, <1>2, <1>3, <3>6, <3>7, EmittedOpen
    <3> QED
      BY <3>7, <3>8
  <2> QED
    BY <2>1, <2>2
<1>5. PICK f : f = Last(stack)
  OBVIOUS
<1>6. Front(stack) = <<>> /\ stack[1] = f
  BY <1>2, <1>5 DEF Front, Last
<1>7. f.kind = "block"
  BY <1>1, <1>2, <1>6 DEF Stacked
<1>8. PendingOf(f) = {} /\ ~ IsLoopBody(f)
  BY <1>7 DEF PendingOf, IsLoopBody, Logic
<1>9. stack' \in Seq(Frame) /\ Stacked(stack') /\ Loops(stack', m.cond, m.end)
  BY <1>1, <1>2, <1>5, <1>6, <1>8, FramePopped
<1>10. Reserved(stack', blocks', bbs, m.curr, {}, {})
  <2>1. stack # <<>> /\ stack' = Front(stack)
    BY <1>2, <1>6
  <2>2. Reserved(stack', blocks', bbs, m.curr, {} \cup PendingOf(f),
                 IF f.kind \in Logic THEN {} ELSE {} \cup PendingOf(f))
    BY <1>2, <1>4, <1>5, <2>1, HandedBack
  <2> QED
    BY <1>8, <2>2
<1>11. Typed'
  <2>1. "endfunction" \in Tokens /\ Log("endfunction")
    BY DEF EndFunction, Tokens
  <2>2. prog' \in Seq(ANode)
    BY <1>1, <2>1, TokensAreLogged
  <2> QED
    BY <1>1, <1>4, <1>9, <2>2 DEF Typed, EndFunction
<1> QED
  BY <1>4, <1>9, <1>10, <1>11 DEF Pass, EndFunction

LEMMA LogicalKeeps ==
    ASSUME Pass, stack # <<>>, NEW kind \in Logic, Logical(kind)
    PROVE  Pass'
<1>1. /\ Typed /\ Stacked(stack) /\ Loops(stack, m.cond, m.end)
      /\ Reserved(stack, blocks, bbs, m.curr, {}, {})
      /\ Sound(blocks) /\ OpenEnded(blocks, m.curr)
      /\ stack \in Seq(Frame) /\ IsSeq(stack) /\ IsBlocks(blocks) /\ IsSeq(bbs)
  BY SeqIs DEF Pass, Typed
<1>2. PICK n \in Nat : n = Len(blocks)
  BY <1>1, BlocksAre
<1>3. PICK a, b, new : a = n + 1 /\ b = n + 2 /\ new = {a, b}
  OBVIOUS
<1>4. a = New(1) /\ b = New(2) /\ a \in Nat /\ b \in Nat /\ a # b
  BY <1>2, <1>3 DEF New
<1>5. PICK b1 : b1 = Fresh(blocks, 2)
  OBVIOUS
<1>6. Grown(blocks, b1, 2)
  BY <1>1, <1>5, FreshIs
<1>7. Reserved(stack, b1, bbs, m.curr, new, new) /\ Sound(b1) /\ IsBlocks(b1)
  <2>1. new = Len(blocks) + 1 .. Len(blocks) + 2
    BY <1>2, <1>3
  <2> QED
    BY <1>1, <1>6, <2>1, MadeFree, GrownIsSound DEF Grown
<1>8. Used(stack, b1, new, m.curr)
  BY <1>7, CurrIsUsed
<1>9. PICK one, two : one = Alloc(Here) /\ two = Set(Here, kind = "or")
  OBVIOUS
<1>10. PICK b2 : b2 = Emit(b1, m.curr, one)
  OBVIOUS
<1>11. /\ Targets(one) \subseteq {} /\ Targets(two) \subseteq {}
       /\ ~ IsTerminator(one) /\ ~ IsTerminator(two)
       /\ blocks' = Emit(b2, m.curr, two)
  BY <1>5, <1>9, <1>10, TargetsAre DEF Logical
<1>12. /\ IsBlocks(b2) /\ Len(b2) = Len(b1) /\ Sound(b2)
       /\ Reserved(stack, b2, bbs, m.curr, new, new) /\ Used(stack, b2, new, m.curr)
       /\ EmittedAt(b1, b2, m.curr, one)
  <2>1. Targets(one) \subseteq 1 .. Len(b1)
    BY <1>11
  <2> QED
    BY ONLY <1>7, <1>8, <1>10, <2>1, Emitting
<1>13. /\ IsBlocks(blocks') /\ Sound(blocks')
       /\ Reserved(stack, blocks', bbs, m.curr, new, new)
       /\ EmittedAt(b2, blocks', m.curr, two)
  <2>1. Targets(two) \subseteq 1 .. Len(b2)
    BY <1>11
  <2> QED
    BY ONLY <1>11, <1>12, <2>1, Emitting
<1>14. OpenEnded(blocks', m.curr)
  <2>1. m.curr \in 1 .. Len(blocks) /\ m.curr \in 1 .. Len(b1) /\ m.curr \in 1 .. Len(b2)
    BY <1>1, <1>7, <1>12 DEF Reserved
  <2>2. OpenEnded(b1, m.curr)
    BY <1>1, <1>6, <2>1 DEF OpenEnded, Grown
  <2>3. OpenEnded(b2, m.curr)
    BY <1>7, <1>11, <1>12, <2>1, <2>2, EmittedOpen
  <2> QED
    BY <1>11, <1>12, <1>13, <2>1, <2>3, EmittedOpen
<1>15. PICK e1 : Pushed(e1, bbs, a) /\ Pushed(bbs', e1, b)
  BY <1>1, <1>4, AppendTwo DEF Logical
<1>16. IsSeq(bbs') /\ Reserved(stack, blocks', bbs', m.curr, new, {})
  <2>1. Reserved(stack, blocks', e1, m.curr, new, new \ {a}) /\ IsSeq(e1)
    BY <1>1, <1>3, <1>13, <1>15, Listed
  <2>2. b \in new \ {a} /\ (new \ {a}) \ {b} = {}
    BY <1>3, <1>4
  <2>3. Reserved(stack, blocks', bbs', m.curr, new, (new \ {a}) \ {b}) /\ IsSeq(bbs')
    BY <1>15, <2>1, <2>2, Listed
  <2> QED
    BY <2>2, <2>3
<1>17. PICK f : f = [kind |-> kind, stage |-> "lhs", rhs |-> New(1), end |-> New(2), var |-> Here]
  OBVIOUS
<1>18. f \in Frame /\ f.kind = kind /\ f.stage = "lhs" /\ f.rhs = a /\ f.end = b
  <2>1. Here \in Nat
    BY <1>1 DEF Here, Typed
  <2> QED
    BY <1>4, <1>17, <2>1 DEF Frame
<1>19. /\ PendingOf(f) = new /\ FilledOf(f) = {} /\ Apart(f) /\ f.kind \in Logic
       /\ ~ IsLoopBody(f) /\ f.kind # "while"
  BY <1>3, <1>4, <1>18 DEF PendingOf, FilledOf, Apart, Logic, IsLoopBody
<1>20. Pushed(stack', stack, f)
  BY <1>17 DEF Logical, Push, Pushed
<1>21. stack' \in Seq(Frame) /\ Stacked(stack') /\ Loops(stack', m.cond, m.end)
  BY <1>1, <1>18, <1>19, <1>20, FramePushed
<1>22. Reserved(stack', blocks', bbs', m.curr, {}, {})
  <2>1. Reserved(stack', blocks', bbs', m.curr, new \ PendingOf(f), {} \ PendingOf(f))
    BY <1>1, <1>16, <1>19, <1>20, Handed
  <2> QED
    BY <1>19, <2>1
<1>23. Typed'
  <2>1. prog' \in Seq(ANode)
    <3>1. kind \in Tokens /\ LogIn(kind)
      BY DEF Logical, Tokens, Logic
    <3> QED
      BY <1>1, <3>1, TokensAreLogged
  <2>2. nodes' \in 0 .. MaxNodes
    BY <1>1, RoomLeft DEF Logical
  <2> QED
    BY <1>1, <1>13, <1>16, <1>21, <2>1, <2>2 DEF Typed, Logical, Push
<1> QED
  BY <1>13, <1>14, <1>21, <1>22, <1>23 DEF Pass, Logical

LEMMA LogicalLeftKeeps ==
    ASSUME Pass, stack # <<>>, LogicalLeft
    PROVE  Pass'
<1>1. /\ Typed /\ Stacked(stack) /\ Loops(stack, m.cond, m.end)
      /\ Reserved(stack, blocks, bbs, m.curr, {}, {})
      /\ Sound(blocks) /\ OpenEnded(blocks, m.curr)
      /\ stack \in Seq(Frame) /\ IsBlocks(blocks) /\ IsSeq(bbs)
  BY DEF Pass, Typed
<1>2. PICK f, s : f = Last(stack) /\ s = Front(stack)
  OBVIOUS
<1>3. f.kind \in Logic /\ f.stage = "lhs" /\ f \in Frame /\ f = Top /\ s # <<>>
  BY <1>1, <1>2, CalmIs DEF LogicalLeft, Resumes, Top, Logic
<1>4. f \in [kind : Logic, stage : {"lhs", "rhs"}, rhs : Nat, end : Nat, var : Nat]
  BY <1>3, FramesAre
<1>5. PICK g : g = [f EXCEPT !.stage = "rhs"]
  OBVIOUS
<1>6. /\ g \in Frame /\ g.kind = f.kind /\ g.stage = "rhs" /\ g.rhs = f.rhs /\ g.end = f.end
      /\ PendingOf(f) = {f.rhs, f.end} /\ PendingOf(g) = {f.end}
      /\ FilledOf(f) = {} /\ FilledOf(g) = {} /\ Apart(g)
      /\ ~ IsLoopBody(f) /\ ~ IsLoopBody(g) /\ g.kind # "while"
  <2>1. g \in [kind : Logic, stage : {"lhs", "rhs"}, rhs : Nat, end : Nat, var : Nat]
        /\ g.kind = f.kind /\ g.stage = "rhs" /\ g.rhs = f.rhs /\ g.end = f.end
    BY <1>4, <1>5
  <2>2. g \in Frame
    BY <2>1 DEF Frame
  <2> QED
    BY <1>3, <2>1, <2>2 DEF PendingOf, FilledOf, Apart, IsLoopBody, Logic
<1>7. Apart(f) /\ f.rhs # f.end
  <2>1. Apart(f)
    BY <1>1, <1>2, HandedBack
  <2> QED
    BY <1>3, <2>1 DEF Apart
<1>8. Used(stack, blocks, {}, m.curr)
  BY <1>1, CurrIsUsed
<1>9. f.rhs \in 1 .. Len(blocks) /\ f.end \in 1 .. Len(blocks)
  <2>1. f.rhs \in PendingOf(f) /\ f.end \in PendingOf(f)
    BY <1>6
  <2> QED
    BY <1>1, <1>2, <2>1, PendingAreBlocks
<1>10. PICK inst : inst = LogicalBranch(f)
  OBVIOUS
<1>11. Targets(inst) \subseteq 1 .. Len(blocks) /\ blocks' = Emit(blocks, m.curr, inst)
  BY <1>3, <1>9, <1>10, TargetsAre DEF LogicalBranch, LogicalLeft
<1>12. /\ IsBlocks(blocks') /\ Sound(blocks')
       /\ Reserved(stack, blocks', bbs, m.curr, {}, {})
  BY <1>1, <1>8, <1>11, Emitting
<1>13. Reserved(s, blocks', bbs, m.curr, {f.rhs, f.end}, {})
  <2>1. Reserved(s, blocks', bbs, m.curr, {} \cup PendingOf(f),
                 IF f.kind \in Logic THEN {} ELSE {} \cup PendingOf(f))
    BY <1>1, <1>2, <1>12, HandedBack
  <2>2. {} \cup PendingOf(f) = {f.rhs, f.end}
    BY <1>6
  <2> QED
    BY <1>3, <2>1, <2>2
<1>14. Reserved(s, blocks', bbs, f.rhs, {f.end}, {}) /\ blocks'[f.rhs] = <<>>
  <2>1. PICK free, x, rest : free = {f.rhs, f.end} /\ x = f.rhs /\ rest = free \ {x}
    OBVIOUS
  <2>2. x \in free /\ x \notin {} /\ rest = {f.end}
    BY <1>7, <2>1
  <2>3. Reserved(s, blocks', bbs, m.curr, free, {})
    BY <1>13, <2>1
  <2>4. x \in free /\ x \notin {}
    BY <2>2
  <2>5. Reserved(s, blocks', bbs, x, free \ {x}, {}) /\ blocks'[x] = <<>>
    BY ONLY <2>3, <2>4, Entered
  <2> QED
    BY <2>1, <2>2, <2>5
<1>15. Pushed(stack', s, g)
  BY <1>2, <1>3, <1>5 DEF LogicalLeft, Stay, Pushed
<1>16. s \in Seq(Frame) /\ Stacked(s) /\ Loops(s, m.cond, m.end) /\ IsSeq(s)
  BY <1>1, <1>2, <1>6, FramePopped, SeqIs
<1>17. stack' \in Seq(Frame) /\ Stacked(stack') /\ Loops(stack', m.cond, m.end)
  BY <1>3, <1>6, <1>15, <1>16, FramePushed
<1>18. Reserved(stack', blocks', bbs, f.rhs, {}, {})
  <2>1. Reserved(stack', blocks', bbs, f.rhs, {f.end} \ PendingOf(g), {} \ PendingOf(g))
    BY <1>3, <1>6, <1>14, <1>15, <1>16, Handed
  <2> QED
    BY <1>6, <2>1
<1>19. OpenEnded(blocks', f.rhs)
  BY <1>14, EmptyIsOpen
<1>20. m' = [m EXCEPT !.curr = f.rhs] /\ f.rhs \in Nat
  BY <1>3, <1>4 DEF LogicalLeft
<1>21. /\ m' \in [curr : Nat, cond : Nat, end : Nat, returned : BOOLEAN]
       /\ m'.curr = f.rhs /\ m'.cond = m.cond /\ m'.end = m.end
  BY <1>1, <1>20 DEF Typed
<1>22. Typed'
  <2>1. "mid" \in Tokens /\ Log("mid")
    BY DEF LogicalLeft, Tokens
  <2>2. prog' \in Seq(ANode)
    BY <1>1, <2>1, TokensAreLogged
  <2> QED
    BY <1>1, <1>12, <1>17, <1>21, <2>2 DEF Typed, LogicalLeft, Stay
<1> QED
  BY <1>12, <1>17, <1>18, <1>19, <1>21, <1>22 DEF Pass, LogicalLeft

LEMMA LogicalRightKeeps ==
    ASSUME Pass, stack # <<>>, LogicalRight
    PROVE  Pass'
<1>1. /\ Typed /\ Stacked(stack) /\ Loops(stack, m.cond, m.end)
      /\ Reserved(stack, blocks, bbs, m.curr, {}, {})
      /\ Sound(blocks) /\ OpenEnded(blocks, m.curr)
      /\ stack \in Seq(Frame) /\ IsBlocks(blocks) /\ IsSeq(bbs)
  BY DEF Pass, Typed
<1>2. PICK f, s : f = Last(stack) /\ s = Front(stack)
  OBVIOUS
<1>3. f.kind \in Logic /\ f.stage = "rhs" /\ f \in Frame /\ f = Top /\ s # <<>>
  BY <1>1, <1>2, CalmIs DEF LogicalRight, Resumes, Top, Logic
<1>4. f \in [kind : Logic, stage : {"lhs", "rhs"}, rhs : Nat, end : Nat, var : Nat]
  BY <1>3, FramesAre
<1>5. PendingOf(f) = {f.end} /\ ~ IsLoopBody(f)
  BY <1>3 DEF PendingOf, IsLoopBody, Logic
<1>6. f.end \in 1 .. Len(blocks)
  <2>1. f.end \in PendingOf(f)
    BY <1>5
  <2> QED
    BY <1>1, <1>2, <2>1, PendingAreBlocks
<1>7. PICK one, two, three : /\ one = Store(exp, f.var) /\ two = Jump(f.end)
                             /\ three = LoadFrom(f.var)
  OBVIOUS
<1>8. PICK b1 : b1 = Emit(blocks, m.curr, one)
  OBVIOUS
<1>9. PICK b2 : b2 = Emit(b1, m.curr, two)
  OBVIOUS
<1>10. /\ Targets(one) \subseteq {} /\ Targets(two) = {f.end} /\ Targets(three) \subseteq {}
       /\ ~ IsTerminator(three)
       /\ blocks' = Emit(b2, f.end, three)
  BY <1>3, <1>7, <1>8, <1>9, TargetsAre DEF LogicalRight, ResultBlock
<1>11. Used(stack, blocks, {}, m.curr)
  BY <1>1, CurrIsUsed
<1>12. /\ IsBlocks(b1) /\ Len(b1) = Len(blocks) /\ Sound(b1)
       /\ Reserved(stack, b1, bbs, m.curr, {}, {}) /\ Used(stack, b1, {}, m.curr)
  <2>1. Targets(one) \subseteq 1 .. Len(blocks)
    BY <1>10
  <2> QED
    BY ONLY <1>1, <1>8, <1>11, <2>1, Emitting
<1>13. /\ IsBlocks(b2) /\ Len(b2) = Len(blocks) /\ Sound(b2)
       /\ Reserved(stack, b2, bbs, m.curr, {}, {})
  <2>1. Targets(two) \subseteq 1 .. Len(b1)
    BY <1>6, <1>10, <1>12
  <2> QED
    BY <1>9, <1>12, <2>1, Emitting
<1>14. Reserved(s, b2, bbs, m.curr, {f.end}, {})
  <2>1. Reserved(s, b2, bbs, m.curr, {} \cup PendingOf(f),
                 IF f.kind \in Logic THEN {} ELSE {} \cup PendingOf(f))
    BY <1>1, <1>2, <1>13, HandedBack
  <2>2. {} \cup PendingOf(f) = {f.end}
    BY <1>5
  <2> QED
    BY <1>3, <2>1, <2>2
<1>15. Reserved(s, b2, bbs, f.end, {}, {}) /\ b2[f.end] = <<>>
  <2>1. f.end \in {f.end} /\ f.end \notin {} /\ {f.end} \ {f.end} = {}
    OBVIOUS
  <2>2. Reserved(s, b2, bbs, f.end, {f.end} \ {f.end}, {}) /\ b2[f.end] = <<>>
    BY <1>14, <2>1, Entered
  <2> QED
    BY <2>1, <2>2
<1>16. Used(s, b2, {}, f.end) /\ OpenEnded(b2, f.end)
  BY <1>15, CurrIsUsed, EmptyIsOpen
<1>17. /\ IsBlocks(blocks') /\ Sound(blocks')
       /\ Reserved(s, blocks', bbs, f.end, {}, {})
       /\ EmittedAt(b2, blocks', f.end, three)
  <2>1. PICK end : end = f.end
    OBVIOUS
  <2>2. /\ Targets(three) \subseteq 1 .. Len(b2) /\ blocks' = Emit(b2, end, three)
        /\ Reserved(s, b2, bbs, end, {}, {}) /\ Used(s, b2, {}, end)
        /\ IsBlocks(b2) /\ Sound(b2)
    BY <1>10, <1>13, <1>15, <1>16, <2>1
  <2>3. /\ IsBlocks(blocks') /\ Sound(blocks')
        /\ Reserved(s, blocks', bbs, end, {}, {})
        /\ EmittedAt(b2, blocks', end, three)
    BY ONLY <2>2, Emitting
  <2> QED
    BY <2>1, <2>3
<1>18. OpenEnded(blocks', f.end)
  BY <1>6, <1>10, <1>13, <1>16, <1>17, EmittedOpen
<1>19. stack' = s
  BY <1>2 DEF LogicalRight
<1>20. s \in Seq(Frame) /\ Stacked(s) /\ Loops(s, m.cond, m.end)
  BY <1>1, <1>2, <1>5, FramePopped
<1>21. m' = [m EXCEPT !.curr = f.end] /\ f.end \in Nat /\ exp' = f.var /\ f.var \in Nat
  BY <1>3, <1>4 DEF LogicalRight, Yields
<1>22. /\ m' \in [curr : Nat, cond : Nat, end : Nat, returned : BOOLEAN]
       /\ m'.curr = f.end /\ m'.cond = m.cond /\ m'.end = m.end
  BY <1>1, <1>21 DEF Typed
<1>23. Typed'
  <2>1. "endop" \in Tokens /\ Log("endop")
    BY DEF LogicalRight, Tokens
  <2>2. prog' \in Seq(ANode)
    BY <1>1, <2>1, TokensAreLogged
  <2> QED
    BY <1>1, <1>17, <1>19, <1>20, <1>21, <1>22, <2>2 DEF Typed, LogicalRight, Yields
<1> QED
  BY <1>17, <1>18, <1>19, <1>20, <1>22, <1>23 DEF Pass, LogicalRight

LEMMA IfThenKeeps ==
    ASSUME Pass, stack # <<>>, IfThen
    PROVE  Pass'
<1>1. /\ Typed /\ Stacked(stack) /\ Loops(stack, m.cond, m.end)
      /\ Reserved(stack, blocks, bbs, m.curr, {}, {})
      /\ Sound(blocks) /\ OpenEnded(blocks, m.curr)
      /\ stack \in Seq(Frame) /\ IsSeq(stack) /\ IsBlocks(blocks) /\ IsSeq(bbs)
  BY SeqIs DEF Pass, Typed
<1>2. PICK f, s : f = Last(stack) /\ s = Front(stack)
  OBVIOUS
<1>3. f.kind = "if" /\ f.stage = "cond" /\ f \in Frame /\ f = Top /\ s # <<>> /\ Calm(s)
  BY <1>1, <1>2, CalmIs DEF IfThen, Resumes, Top, Logic
<1>4. PendingOf(f) = {} /\ ~ IsLoopBody(f)
  BY <1>3 DEF PendingOf, IsLoopBody, Logic
<1>5. PICK n \in Nat : n = Len(blocks)
  BY <1>1, BlocksAre
<1>6. PICK yes, no, end, new, rest :
          /\ yes = n + 1 /\ no = n + 2 /\ end = n + 3
          /\ new = {yes, no, end} /\ rest = {no, end}
  OBVIOUS
<1>7. /\ yes = New(1) /\ no = New(2) /\ end = New(3)
      /\ yes \in Nat /\ no \in Nat /\ end \in Nat /\ yes # no /\ yes # end /\ no # end
  BY <1>5, <1>6 DEF New
<1>8. PICK b1 : b1 = Fresh(blocks, 3)
  OBVIOUS
<1>9. /\ Grown(blocks, b1, 3)
      /\ Reserved(stack, b1, bbs, m.curr, new, new) /\ Sound(b1) /\ IsBlocks(b1)
      /\ no \in 1 .. Len(b1) /\ yes \in 1 .. Len(b1)
  <2>1. new = Len(blocks) + 1 .. Len(blocks) + 3
    BY <1>5, <1>6
  <2>2. Grown(blocks, b1, 3)
    BY <1>1, <1>8, FreshIs
  <2>3. Reserved(stack, b1, bbs, m.curr, new, new)
    BY <1>1, <2>1, <2>2, MadeFree
  <2>4. Sound(b1) /\ IsBlocks(b1) /\ Len(b1) = n + 3
    BY <1>1, <1>5, <2>2, GrownIsSound DEF Grown
  <2>5. no \in 1 .. n + 3 /\ yes \in 1 .. n + 3
    BY <1>6
  <2> QED
    BY <2>2, <2>3, <2>4, <2>5
<1>10. Used(stack, b1, new, m.curr)
  BY <1>9, CurrIsUsed
<1>11. PICK inst : inst = Branch(exp, yes, no)
  OBVIOUS
<1>12. Targets(inst) \subseteq 1 .. Len(b1) /\ blocks' = Emit(b1, m.curr, inst)
  BY <1>7, <1>8, <1>9, <1>11, TargetsAre DEF IfThen
<1>13. /\ IsBlocks(blocks') /\ Sound(blocks')
       /\ Reserved(stack, blocks', bbs, m.curr, new, new)
  BY <1>9, <1>10, <1>12, Emitting
<1>14. IsSeq(bbs') /\ Reserved(stack, blocks', bbs', m.curr, new, rest)
  <2>1. Pushed(bbs', bbs, yes)
    BY <1>7 DEF IfThen, Pushed
  <2>2. yes \in new /\ rest = new \ {yes}
    BY <1>6, <1>7
  <2> QED
    BY <1>1, <1>13, <2>1, <2>2, Listed
<1>15. Reserved(stack, blocks', bbs', yes, rest, rest) /\ blocks'[yes] = <<>>
  <2>1. yes \in new /\ yes \notin rest /\ rest = new \ {yes}
    BY <1>6, <1>7
  <2> QED
    BY <1>14, <2>1, Entered
<1>16. Reserved(s, blocks', bbs', yes, rest, rest)
  <2>1. Reserved(s, blocks', bbs', yes, rest \cup PendingOf(f),
                 IF f.kind \in Logic THEN rest ELSE rest \cup PendingOf(f))
    BY <1>1, <1>2, <1>15, HandedBack
  <2>2. rest \cup PendingOf(f) = rest
    BY <1>4
  <2> QED
    BY <2>1, <2>2
<1>17. PICK g : g = [kind |-> "if", stage |-> "then",
                     yes |-> New(1), no |-> New(2), end |-> New(3)]
  OBVIOUS
<1>18. g \in Frame /\ g.kind = "if" /\ g.stage = "then" /\ g.yes = yes /\ g.no = no /\ g.end = end
  BY <1>7, <1>17 DEF Frame
<1>19. /\ PendingOf(g) = rest /\ FilledOf(g) = {yes} /\ Apart(g) /\ ~ IsLoopBody(g)
       /\ g.kind \notin Logic /\ g.kind # "while"
  BY <1>6, <1>7, <1>18 DEF PendingOf, FilledOf, Apart, IsLoopBody, Logic
<1>20. Pushed(stack', s, g)
  BY <1>2, <1>17 DEF IfThen, Stay, Pushed
<1>21. s \in Seq(Frame) /\ Stacked(s) /\ Loops(s, m.cond, m.end) /\ IsSeq(s)
  BY <1>1, <1>2, <1>4, FramePopped, SeqIs
<1>22. stack' \in Seq(Frame) /\ Stacked(stack') /\ Loops(stack', m.cond, m.end)
  BY <1>3, <1>18, <1>19, <1>20, <1>21, FramePushed
<1>23. Reserved(stack', blocks', bbs', yes, {}, {})
  <2>1. \A b \in FilledOf(g) : Used(s, blocks', rest, b)
    BY <1>16, <1>19, CurrIsUsed
  <2>2. Reserved(stack', blocks', bbs', yes, rest \ PendingOf(g), rest \ PendingOf(g))
    BY <1>16, <1>19, <1>20, <1>21, <2>1, Handed
  <2> QED
    BY <1>19, <2>2
<1>24. OpenEnded(blocks', yes)
  BY <1>15, EmptyIsOpen
<1>25. m' = [m EXCEPT !.curr = yes]
  BY <1>7 DEF IfThen
<1>26. /\ m' \in [curr : Nat, cond : Nat, end : Nat, returned : BOOLEAN]
       /\ m'.curr = yes /\ m'.cond = m.cond /\ m'.end = m.end
  BY <1>1, <1>7, <1>25 DEF Typed
<1>27. Typed'
  <2>1. "then" \in Tokens /\ Log("then")
    BY DEF IfThen, Tokens
  <2>2. prog' \in Seq(ANode)
    BY <1>1, <2>1, TokensAreLogged
  <2> QED
    BY <1>1, <1>13, <1>14, <1>22, <1>26, <2>2 DEF Typed, IfThen, Stay
<1> QED
  BY <1>13, <1>22, <1>23, <1>24, <1>26, <1>27 DEF Pass, IfThen

\* The end of a "then" branch, with or without "else".
LEMMA ThenIsLeft ==
    ASSUME Pass, stack # <<>>, Resumes("if", "then", "stmt"),
           NEW f, f = Top, NEW s, s = Front(stack), NEW cc, cc = ThenLeft(Top)
    PROVE  /\ f \in Frame /\ f.kind = "if" /\ f.stage = "then" /\ f.no # f.end
           /\ f.yes \in Nat /\ f.no \in Nat /\ f.end \in Nat
           /\ s # <<>> /\ Calm(s)
           /\ s \in Seq(Frame) /\ Stacked(s) /\ Loops(s, m.cond, m.end)
           /\ IsBlocks(cc) /\ Sound(cc) /\ f.end \in 1 .. Len(cc)
           /\ Reserved(s, cc, bbs, m.curr, {f.no, f.end}, {f.no, f.end})
<1>1. /\ Typed /\ Stacked(stack) /\ Loops(stack, m.cond, m.end)
      /\ Reserved(stack, blocks, bbs, m.curr, {}, {})
      /\ Sound(blocks) /\ OpenEnded(blocks, m.curr)
      /\ stack \in Seq(Frame) /\ IsBlocks(blocks) /\ f = Last(stack)
  BY DEF Pass, Typed, Top
<1>2. f.kind = "if" /\ f.stage = "then" /\ f \in Frame /\ s # <<>> /\ Calm(s)
  BY <1>1, CalmIs DEF Resumes, Logic
<1>3. f.yes \in Nat /\ f.no \in Nat /\ f.end \in Nat
  BY <1>2 DEF Frame, Logic
<1>4. /\ PendingOf(f) = {f.no, f.end} /\ FilledOf(f) = {f.yes} /\ ~ IsLoopBody(f)
      /\ f.kind \notin Logic
  BY <1>2 DEF PendingOf, FilledOf, IsLoopBody, Logic
<1>5. Apart(f) /\ f.no # f.end
  <2>1. Apart(f)
    BY <1>1, HandedBack
  <2> QED
    BY <1>2, <2>1 DEF Apart
<1>6. f.end \in 1 .. Len(blocks) /\ Used(stack, blocks, {}, f.yes)
  <2>1. f.end \in PendingOf(f) /\ f.yes \in FilledOf(f)
    BY <1>4
  <2> QED
    BY <1>1, <2>1, PendingAreBlocks, FilledAreUsed
<1>7. Used(stack, blocks, {}, m.curr)
  BY <1>1, CurrIsUsed
<1>8. PICK jump : jump = Jump(f.end)
  OBVIOUS
<1>9. PICK b1 : b1 = Emit(blocks, m.curr, jump)
  OBVIOUS
<1>10. Targets(jump) \subseteq 1 .. Len(blocks) /\ cc = Emit(b1, f.yes, jump)
  BY <1>6, <1>8, <1>9, TargetsAre DEF ThenLeft
<1>11. /\ IsBlocks(b1) /\ Len(b1) = Len(blocks) /\ Sound(b1)
       /\ Reserved(stack, b1, bbs, m.curr, {}, {}) /\ Used(stack, b1, {}, f.yes)
  <2>1. /\ IsBlocks(b1) /\ Len(b1) = Len(blocks) /\ Sound(b1)
        /\ Reserved(stack, b1, bbs, m.curr, {}, {})
        /\ \A x : Used(stack, blocks, {}, x) => Used(stack, b1, {}, x)
    BY ONLY <1>1, <1>7, <1>9, <1>10, Emitting
  <2> QED
    BY <1>6, <2>1
<1>12. /\ IsBlocks(cc) /\ Len(cc) = Len(blocks) /\ Sound(cc)
       /\ Reserved(stack, cc, bbs, m.curr, {}, {})
  <2>1. Targets(jump) \subseteq 1 .. Len(b1)
    BY <1>10, <1>11
  <2> QED
    BY <1>10, <1>11, <2>1, Emitting
<1>13. Reserved(s, cc, bbs, m.curr, {f.no, f.end}, {f.no, f.end})
  <2>1. Reserved(s, cc, bbs, m.curr, {} \cup PendingOf(f),
                 IF f.kind \in Logic THEN {} ELSE {} \cup PendingOf(f))
    BY <1>1, <1>12, HandedBack
  <2>2. {} \cup PendingOf(f) = {f.no, f.end}
    BY <1>4
  <2> QED
    BY <1>4, <2>1, <2>2
<1>14. s \in Seq(Frame) /\ Stacked(s) /\ Loops(s, m.cond, m.end)
  BY <1>1, <1>4, FramePopped
<1> QED
  BY <1>2, <1>3, <1>5, <1>6, <1>12, <1>13, <1>14

LEMMA IfElseKeeps ==
    ASSUME Pass, stack # <<>>, IfElse
    PROVE  Pass'
<1>1. /\ Typed /\ Stacked(stack) /\ Loops(stack, m.cond, m.end)
      /\ Reserved(stack, blocks, bbs, m.curr, {}, {})
      /\ Sound(blocks) /\ OpenEnded(blocks, m.curr)
      /\ stack \in Seq(Frame) /\ IsSeq(stack) /\ IsBlocks(blocks) /\ IsSeq(bbs)
  BY SeqIs DEF Pass, Typed
<1>2. PICK f, s : f = Top /\ s = Front(stack)
  OBVIOUS
<1>3. /\ f \in Frame /\ f.kind = "if" /\ f.stage = "then" /\ f.no # f.end
      /\ f.yes \in Nat /\ f.no \in Nat /\ f.end \in Nat
      /\ s # <<>> /\ Calm(s)
      /\ s \in Seq(Frame) /\ Stacked(s) /\ Loops(s, m.cond, m.end)
      /\ IsBlocks(blocks') /\ Sound(blocks')
      /\ Reserved(s, blocks', bbs, m.curr, {f.no, f.end}, {f.no, f.end})
  BY <1>2, ThenIsLeft DEF IfElse
<1>4. PICK no, end, free, rest : no = f.no /\ end = f.end /\ free = {no, end} /\ rest = {end}
  OBVIOUS
<1>5. no \in free /\ rest = free \ {no} /\ no \notin rest
  BY <1>3, <1>4
<1>6. Reserved(s, blocks', bbs, m.curr, free, free)
  BY <1>3, <1>4
<1>7. IsSeq(bbs') /\ Reserved(s, blocks', bbs', m.curr, free, rest)
  <2>1. Pushed(bbs', bbs, no)
    BY <1>2, <1>4 DEF IfElse, Pushed
  <2> QED
    BY <1>1, <1>5, <1>6, <2>1, Listed
<1>8. Reserved(s, blocks', bbs', no, rest, rest) /\ blocks'[no] = <<>>
  BY <1>5, <1>7, Entered
<1>9. PICK g : g = [f EXCEPT !.stage = "else"]
  OBVIOUS
<1>10. g \in Frame /\ g.kind = "if" /\ g.stage = "else" /\ g.no = no /\ g.end = end
  <2>1. f \in [kind : {"if"}, stage : {"then", "else"}, yes : Nat, no : Nat, end : Nat]
    <3>1. f.stage # "cond"
      BY <1>3
    <3> QED
      BY <1>3, <3>1, FramesAre
  <2>2. g \in [kind : {"if"}, stage : {"then", "else"}, yes : Nat, no : Nat, end : Nat]
        /\ g.kind = "if" /\ g.stage = "else" /\ g.no = f.no /\ g.end = f.end
    BY <1>9, <2>1
  <2> QED
    BY <1>4, <2>2 DEF Frame
<1>11. /\ PendingOf(g) = rest /\ FilledOf(g) = {no} /\ Apart(g) /\ ~ IsLoopBody(g)
       /\ g.kind \notin Logic /\ g.kind # "while"
  BY <1>4, <1>10 DEF PendingOf, FilledOf, Apart, IsLoopBody, Logic
<1>12. Pushed(stack', s, g) /\ IsSeq(s)
  BY <1>2, <1>3, <1>9, SeqIs DEF IfElse, Stay, Pushed
<1>13. stack' \in Seq(Frame) /\ Stacked(stack') /\ Loops(stack', m.cond, m.end)
  BY <1>3, <1>10, <1>11, <1>12, FramePushed
<1>14. Reserved(stack', blocks', bbs', no, {}, {})
  <2>1. \A b \in FilledOf(g) : Used(s, blocks', rest, b)
    BY <1>8, <1>11, CurrIsUsed
  <2>2. Reserved(stack', blocks', bbs', no, rest \ PendingOf(g), rest \ PendingOf(g))
    BY <1>8, <1>11, <1>12, <2>1, Handed
  <2> QED
    BY <1>11, <2>2
<1>15. OpenEnded(blocks', no)
  BY <1>8, EmptyIsOpen
<1>16. m' = [m EXCEPT !.curr = no, !.returned = FALSE]
  BY <1>2, <1>4 DEF IfElse
<1>17. /\ m' \in [curr : Nat, cond : Nat, end : Nat, returned : BOOLEAN]
       /\ m'.curr = no /\ m'.cond = m.cond /\ m'.end = m.end
  BY <1>1, <1>3, <1>4, <1>16 DEF Typed
<1>18. Typed'
  <2>1. "else" \in Tokens /\ Log("else")
    BY DEF IfElse, Tokens
  <2>2. prog' \in Seq(ANode) /\ nodes' \in 0 .. MaxNodes
    BY <1>1, <2>1, TokensAreLogged, RoomLeft DEF IfElse
  <2> QED
    BY <1>1, <1>3, <1>7, <1>13, <1>17, <2>2 DEF Typed, IfElse, Stay
<1> QED
  BY <1>3, <1>13, <1>14, <1>15, <1>17, <1>18 DEF Pass, IfElse

LEMMA IfEndKeeps ==
    ASSUME Pass, stack # <<>>, IfEnd
    PROVE  Pass'
<1>1. /\ Typed /\ Stacked(stack) /\ Loops(stack, m.cond, m.end)
      /\ Reserved(stack, blocks, bbs, m.curr, {}, {})
      /\ Sound(blocks) /\ OpenEnded(blocks, m.curr)
      /\ stack \in Seq(Frame) /\ IsSeq(stack) /\ IsBlocks(blocks) /\ IsSeq(bbs)
  BY SeqIs DEF Pass, Typed
<1>2. PICK f, s, b1 : f = Top /\ s = Front(stack) /\ b1 = ThenLeft(Top)
  OBVIOUS
<1>3. /\ f \in Frame /\ f.kind = "if" /\ f.stage = "then" /\ f.no # f.end
      /\ f.yes \in Nat /\ f.no \in Nat /\ f.end \in Nat
      /\ s # <<>> /\ Calm(s)
      /\ s \in Seq(Frame) /\ Stacked(s) /\ Loops(s, m.cond, m.end)
      /\ IsBlocks(b1) /\ Sound(b1) /\ f.end \in 1 .. Len(b1)
      /\ Reserved(s, b1, bbs, m.curr, {f.no, f.end}, {f.no, f.end})
  BY <1>2, ThenIsLeft DEF IfEnd
<1>4. PICK no, end, free, rest : no = f.no /\ end = f.end /\ free = {no, end} /\ rest = {end}
  OBVIOUS
<1>5. /\ no \in free /\ rest = free \ {no} /\ end \in free \ {no} /\ (free \ {no}) \ {end} = {}
      /\ end \in rest /\ rest \ {end} = {}
  BY <1>3, <1>4
<1>6. Reserved(s, b1, bbs, m.curr, free, free)
  BY <1>3, <1>4
<1>7. IsSeq(bbs') /\ Reserved(s, b1, bbs', m.curr, free, {})
  <2>1. PICK e1 : Pushed(e1, bbs, no) /\ Pushed(bbs', e1, end)
    BY <1>1, <1>2, <1>4, AppendTwo DEF IfEnd
  <2>2. IsSeq(e1) /\ Reserved(s, b1, e1, m.curr, free, free \ {no})
    BY <1>1, <1>5, <1>6, <2>1, Listed
  <2>3. IsSeq(bbs') /\ Reserved(s, b1, bbs', m.curr, free, (free \ {no}) \ {end})
    BY <1>5, <2>1, <2>2, Listed
  <2> QED
    BY <1>5, <2>3
<1>8. Reserved(s, b1, bbs', m.curr, rest, {}) /\ Used(s, b1, rest, no)
  BY <1>5, <1>7, Taken
<1>9. PICK jump : jump = Jump(end)
  OBVIOUS
<1>10. Targets(jump) \subseteq 1 .. Len(b1) /\ blocks' = Emit(b1, no, jump)
  BY <1>2, <1>3, <1>4, <1>9, TargetsAre DEF IfEnd
<1>11. /\ IsBlocks(blocks') /\ Sound(blocks')
       /\ Reserved(s, blocks', bbs', m.curr, rest, {})
  BY <1>3, <1>8, <1>10, Emitting
<1>12. Reserved(s, blocks', bbs', end, {}, {}) /\ blocks'[end] = <<>>
  <2>1. Reserved(s, blocks', bbs', end, rest \ {end}, {}) /\ blocks'[end] = <<>>
    BY <1>5, <1>11, Entered
  <2> QED
    BY <1>5, <2>1
<1>13. stack' = s
  BY <1>2 DEF IfEnd, Pop
<1>14. OpenEnded(blocks', end)
  BY <1>12, EmptyIsOpen
<1>15. m' = [m EXCEPT !.curr = end, !.returned = FALSE]
  BY <1>2, <1>4 DEF IfEnd
<1>16. /\ m' \in [curr : Nat, cond : Nat, end : Nat, returned : BOOLEAN]
       /\ m'.curr = end /\ m'.cond = m.cond /\ m'.end = m.end
  BY <1>1, <1>3, <1>4, <1>15 DEF Typed
<1>17. Typed'
  <2>1. "endif" \in Tokens /\ Log("endif")
    BY DEF IfEnd, Tokens
  <2>2. prog' \in Seq(ANode)
    BY <1>1, <2>1, TokensAreLogged
  <2> QED
    BY <1>1, <1>3, <1>7, <1>11, <1>13, <1>16, <2>2 DEF Typed, IfEnd, Pop
<1> QED
  BY <1>3, <1>11, <1>12, <1>13, <1>14, <1>16, <1>17 DEF Pass, IfEnd

LEMMA IfElseEndKeeps ==
    ASSUME Pass, stack # <<>>, IfElseEnd
    PROVE  Pass'
<1>1. /\ Typed /\ Stacked(stack) /\ Loops(stack, m.cond, m.end)
      /\ Reserved(stack, blocks, bbs, m.curr, {}, {})
      /\ Sound(blocks) /\ OpenEnded(blocks, m.curr)
      /\ stack \in Seq(Frame) /\ IsSeq(stack) /\ IsBlocks(blocks) /\ IsSeq(bbs)
  BY SeqIs DEF Pass, Typed
<1>2. PICK f, s : f = Last(stack) /\ s = Front(stack)
  OBVIOUS
<1>3. f.kind = "if" /\ f.stage = "else" /\ f \in Frame /\ f = Top
  BY <1>1, <1>2, CalmIs DEF IfElseEnd, Resumes, Top
<1>4. f.no \in Nat /\ f.end \in Nat
  BY <1>3 DEF Frame, Logic
<1>5. PICK no, end, free : no = f.no /\ end = f.end /\ free = {end}
  OBVIOUS
<1>6. PendingOf(f) = free /\ FilledOf(f) = {no} /\ ~ IsLoopBody(f) /\ f.kind \notin Logic
  BY <1>3, <1>5 DEF PendingOf, FilledOf, IsLoopBody, Logic
<1>7. end \in 1 .. Len(blocks) /\ Used(stack, blocks, {}, no)
  <2>1. end \in PendingOf(f) /\ no \in FilledOf(f)
    BY <1>5, <1>6
  <2> QED
    BY <1>1, <1>2, <2>1, PendingAreBlocks, FilledAreUsed
<1>8. Used(stack, blocks, {}, m.curr)
  BY <1>1, CurrIsUsed
<1>9. PICK jump : jump = Jump(end)
  OBVIOUS
<1>10. PICK b1 : b1 = Emit(blocks, m.curr, jump)
  OBVIOUS
<1>11. Targets(jump) \subseteq 1 .. Len(blocks) /\ blocks' = Emit(b1, no, jump)
  BY <1>3, <1>5, <1>7, <1>9, <1>10, TargetsAre DEF IfElseEnd
<1>12. /\ IsBlocks(b1) /\ Len(b1) = Len(blocks) /\ Sound(b1)
       /\ Reserved(stack, b1, bbs, m.curr, {}, {}) /\ Used(stack, b1, {}, no)
  BY <1>1, <1>7, <1>8, <1>10, <1>11, Emitting
<1>13. /\ IsBlocks(blocks') /\ Sound(blocks')
       /\ Reserved(stack, blocks', bbs, m.curr, {}, {})
  <2>1. Targets(jump) \subseteq 1 .. Len(b1)
    BY <1>11, <1>12
  <2> QED
    BY <1>11, <1>12, <2>1, Emitting
<1>14. Reserved(s, blocks', bbs, m.curr, free, free)
  <2>1. Reserved(s, blocks', bbs, m.curr, {} \cup PendingOf(f),
                 IF f.kind \in Logic THEN {} ELSE {} \cup PendingOf(f))
    BY <1>1, <1>2, <1>13, HandedBack
  <2>2. {} \cup PendingOf(f) = free
    BY <1>6
  <2> QED
    BY <1>6, <2>1, <2>2
<1>15. IsSeq(bbs') /\ Reserved(s, blocks', bbs', end, {}, {}) /\ blocks'[end] = <<>>
  <2>1. Pushed(bbs', bbs, end) /\ end \in free /\ free \ {end} = {}
    BY <1>3, <1>5 DEF IfElseEnd, Pushed
  <2>2. IsSeq(bbs') /\ Reserved(s, blocks', bbs', m.curr, free, free \ {end})
    BY <1>1, <1>14, <2>1, Listed
  <2>3. Reserved(s, blocks', bbs', m.curr, free, {})
    BY <2>1, <2>2
  <2>4. Reserved(s, blocks', bbs', end, free \ {end}, {}) /\ blocks'[end] = <<>>
    BY <2>1, <2>3, Entered
  <2> QED
    BY <2>1, <2>2, <2>4
<1>16. stack' = s /\ s \in Seq(Frame) /\ Stacked(s) /\ Loops(s, m.cond, m.end)
  BY <1>1, <1>2, <1>6, FramePopped DEF IfElseEnd, Pop
<1>17. OpenEnded(blocks', end)
  BY <1>15, EmptyIsOpen
<1>18. m' = [m EXCEPT !.curr = end, !.returned = FALSE]
  BY <1>3, <1>5 DEF IfElseEnd
<1>19. /\ m' \in [curr : Nat, cond : Nat, end : Nat, returned : BOOLEAN]
       /\ m'.curr = end /\ m'.cond = m.cond /\ m'.end = m.end
  BY <1>1, <1>4, <1>5, <1>18 DEF Typed
<1>20. Typed'
  <2>1. "endif" \in Tokens /\ Log("endif")
    BY DEF IfElseEnd, Tokens
  <2>2. prog' \in Seq(ANode)
    BY <1>1, <2>1, TokensAreLogged
  <2> QED
    BY <1>1, <1>13, <1>15, <1>16, <1>19, <2>2 DEF Typed, IfElseEnd, Pop
<1> QED
  BY <1>13, <1>15, <1>16, <1>17, <1>19, <1>20 DEF Pass, IfElseEnd

LEMMA WhileKeeps ==
    ASSUME Pass, stack # <<>>, While
    PROVE  Pass'
<1>1. /\ Typed /\ Stacked(stack) /\ Loops(stack, m.cond, m.end)
      /\ Reserved(stack, blocks, bbs, m.curr, {}, {})
      /\ Sound(blocks) /\ OpenEnded(blocks, m.curr)
      /\ stack \in Seq(Frame) /\ IsSeq(stack) /\ IsBlocks(blocks) /\ IsSeq(bbs)
  BY SeqIs DEF Pass, Typed
<1>2. WantsStmt /\ Calm(stack)
  BY StatementsAreCalm DEF While
<1>3. PICK n \in Nat : n = Len(blocks)
  BY <1>1, BlocksAre
<1>4. PICK cond, body, end, new, rest :
          /\ cond = n + 1 /\ body = n + 2 /\ end = n + 3
          /\ new = {cond, body, end} /\ rest = {body, end}
  OBVIOUS
<1>5. /\ cond = New(1) /\ body = New(2) /\ end = New(3)
      /\ cond \in Nat /\ body \in Nat /\ end \in Nat
      /\ cond # body /\ cond # end /\ body # end
  BY <1>3, <1>4 DEF New
<1>6. PICK b1 : b1 = Fresh(blocks, 3)
  OBVIOUS
<1>7. /\ Grown(blocks, b1, 3)
      /\ Reserved(stack, b1, bbs, m.curr, new, new) /\ Sound(b1) /\ IsBlocks(b1)
      /\ cond \in 1 .. Len(b1)
  <2>1. new = Len(blocks) + 1 .. Len(blocks) + 3
    BY <1>3, <1>4
  <2>2. Grown(blocks, b1, 3)
    BY <1>1, <1>6, FreshIs
  <2>3. Reserved(stack, b1, bbs, m.curr, new, new)
    BY <1>1, <2>1, <2>2, MadeFree
  <2>4. Sound(b1) /\ IsBlocks(b1) /\ Len(b1) = n + 3
    BY <1>1, <1>3, <2>2, GrownIsSound DEF Grown
  <2>5. cond \in 1 .. n + 3
    BY <1>4
  <2> QED
    BY <2>2, <2>3, <2>4, <2>5
<1>8. Used(stack, b1, new, m.curr)
  BY <1>7, CurrIsUsed
<1>9. PICK jump : jump = Jump(cond)
  OBVIOUS
<1>10. Targets(jump) \subseteq 1 .. Len(b1) /\ blocks' = Emit(b1, m.curr, jump)
  BY <1>5, <1>6, <1>7, <1>9, TargetsAre DEF While
<1>11. /\ IsBlocks(blocks') /\ Sound(blocks')
       /\ Reserved(stack, blocks', bbs, m.curr, new, new)
  BY <1>7, <1>8, <1>10, Emitting
<1>12. IsSeq(bbs') /\ Reserved(stack, blocks', bbs', m.curr, new, rest)
  <2>1. Pushed(bbs', bbs, cond)
    BY <1>5 DEF While, Pushed
  <2>2. cond \in new /\ rest = new \ {cond}
    BY <1>4, <1>5
  <2> QED
    BY <1>1, <1>11, <2>1, <2>2, Listed
<1>13. Reserved(stack, blocks', bbs', cond, rest, rest) /\ blocks'[cond] = <<>>
  <2>1. cond \in new /\ cond \notin rest /\ rest = new \ {cond}
    BY <1>4, <1>5
  <2> QED
    BY <1>12, <2>1, Entered
<1>14. PICK g : g = [kind |-> "while", stage |-> "cond",
                     cond |-> New(1), body |-> New(2), end |-> New(3),
                     this_cond |-> m.cond, this_end |-> m.end]
  OBVIOUS
<1>15. /\ g \in Frame /\ g.kind = "while" /\ g.stage = "cond"
       /\ g.cond = cond /\ g.body = body /\ g.end = end
       /\ g.this_cond = m.cond /\ g.this_end = m.end
  <2>1. m.cond \in Nat /\ m.end \in Nat
    BY <1>1 DEF Typed
  <2> QED
    BY <1>5, <1>14, <2>1 DEF Frame
<1>16. /\ PendingOf(g) = rest /\ FilledOf(g) = {cond} /\ Apart(g) /\ ~ IsLoopBody(g)
       /\ g.kind \notin Logic
  BY <1>4, <1>5, <1>15 DEF PendingOf, FilledOf, Apart, IsLoopBody, Logic
<1>17. Pushed(stack', stack, g)
  BY <1>14 DEF While, Push, Pushed
<1>18. stack' \in Seq(Frame) /\ Stacked(stack') /\ Loops(stack', m.cond, m.end)
  BY <1>1, <1>2, <1>15, <1>16, <1>17, FramePushed
<1>19. Reserved(stack', blocks', bbs', cond, {}, {})
  <2>1. \A b \in FilledOf(g) : Used(stack, blocks', rest, b)
    BY <1>13, <1>16, CurrIsUsed
  <2>2. Reserved(stack', blocks', bbs', cond, rest \ PendingOf(g), rest \ PendingOf(g))
    BY <1>1, <1>13, <1>16, <1>17, <2>1, Handed
  <2> QED
    BY <1>16, <2>2
<1>20. OpenEnded(blocks', cond)
  BY <1>13, EmptyIsOpen
<1>21. m' = [m EXCEPT !.curr = cond]
  BY <1>5 DEF While
<1>22. /\ m' \in [curr : Nat, cond : Nat, end : Nat, returned : BOOLEAN]
       /\ m'.curr = cond /\ m'.cond = m.cond /\ m'.end = m.end
  BY <1>1, <1>5, <1>21 DEF Typed
<1>23. Typed'
  <2>1. "while" \in Tokens /\ LogIn("while")
    BY DEF While, Tokens
  <2>2. prog' \in Seq(ANode) /\ nodes' \in 0 .. MaxNodes
    BY <1>1, <2>1, TokensAreLogged, RoomLeft DEF While
  <2> QED
    BY <1>1, <1>11, <1>12, <1>18, <1>22, <2>2 DEF Typed, While, Push
<1> QED
  BY <1>11, <1>18, <1>19, <1>20, <1>22, <1>23 DEF Pass, While

LEMMA WhileBodyKeeps ==
    ASSUME Pass, stack # <<>>, WhileBody
    PROVE  Pass'
<1>1. /\ Typed /\ Stacked(stack) /\ Loops(stack, m.cond, m.end)
      /\ Reserved(stack, blocks, bbs, m.curr, {}, {})
      /\ Sound(blocks) /\ OpenEnded(blocks, m.curr)
      /\ stack \in Seq(Frame) /\ IsSeq(stack) /\ IsBlocks(blocks) /\ IsSeq(bbs)
  BY SeqIs DEF Pass, Typed
<1>2. PICK f, s : f = Last(stack) /\ s = Front(stack)
  OBVIOUS
<1>3. f.kind = "while" /\ f.stage = "cond" /\ f \in Frame /\ f = Top /\ s # <<>> /\ Calm(s)
  BY <1>1, <1>2, CalmIs DEF WhileBody, Resumes, Top, Logic
<1>4. f \in [kind : {"while"}, stage : {"cond", "body"}, cond : Nat, body : Nat,
             end : Nat, this_cond : Nat, this_end : Nat]
  BY <1>3, FramesAre
<1>5. PICK cond, body, end, free, rest :
          cond = f.cond /\ body = f.body /\ end = f.end /\ free = {body, end} /\ rest = {end}
  OBVIOUS
<1>6. PendingOf(f) = free /\ FilledOf(f) = {cond} /\ ~ IsLoopBody(f) /\ f.kind \notin Logic
  BY <1>3, <1>5 DEF PendingOf, FilledOf, IsLoopBody, Logic
<1>7. body # end
  <2>1. Apart(f)
    BY <1>1, <1>2, HandedBack
  <2> QED
    BY <1>3, <1>5, <2>1 DEF Apart
<1>8. body \in 1 .. Len(blocks) /\ end \in 1 .. Len(blocks)
  <2>1. body \in PendingOf(f) /\ end \in PendingOf(f)
    BY <1>5, <1>6
  <2> QED
    BY <1>1, <1>2, <2>1, PendingAreBlocks
<1>9. PICK inst : inst = Branch(exp, body, end)
  OBVIOUS
<1>10. Targets(inst) \subseteq 1 .. Len(blocks) /\ blocks' = Emit(blocks, m.curr, inst)
  BY <1>3, <1>5, <1>8, <1>9, TargetsAre DEF WhileBody
<1>11. Used(stack, blocks, {}, m.curr)
  BY <1>1, CurrIsUsed
<1>12. /\ IsBlocks(blocks') /\ Sound(blocks')
       /\ Reserved(stack, blocks', bbs, m.curr, {}, {})
  BY ONLY <1>1, <1>10, <1>11, Emitting
<1>13. Reserved(s, blocks', bbs, m.curr, free, free) /\ Used(s, blocks', free, cond)
  <2>1. Reserved(s, blocks', bbs, m.curr, {} \cup PendingOf(f),
                 IF f.kind \in Logic THEN {} ELSE {} \cup PendingOf(f))
        /\ \A b \in FilledOf(f) : Used(s, blocks', {} \cup PendingOf(f), b)
    BY <1>1, <1>2, <1>12, HandedBack
  <2>2. {} \cup PendingOf(f) = free
    BY <1>6
  <2> QED
    BY <1>6, <2>1, <2>2
<1>14. body \in free /\ rest = free \ {body} /\ body \notin rest /\ rest \subseteq free
  BY <1>5, <1>7
<1>15. IsSeq(bbs') /\ Reserved(s, blocks', bbs', m.curr, free, rest)
  <2>1. Pushed(bbs', bbs, body)
    BY <1>3, <1>5 DEF WhileBody, Pushed
  <2> QED
    BY <1>1, <1>13, <1>14, <2>1, Listed
<1>16. Reserved(s, blocks', bbs', body, rest, rest) /\ blocks'[body] = <<>>
  BY <1>14, <1>15, Entered
<1>17. PICK g : g = [f EXCEPT !.stage = "body"]
  OBVIOUS
<1>18. /\ g \in Frame /\ g.kind = "while" /\ g.stage = "body" /\ g.cond = cond /\ g.end = end
       /\ g.this_cond = f.this_cond /\ g.this_end = f.this_end
  <2>1. /\ g \in [kind : {"while"}, stage : {"cond", "body"}, cond : Nat, body : Nat,
                  end : Nat, this_cond : Nat, this_end : Nat]
        /\ g.kind = "while" /\ g.stage = "body" /\ g.cond = f.cond /\ g.end = f.end
        /\ g.this_cond = f.this_cond /\ g.this_end = f.this_end
    BY <1>4, <1>17
  <2>2. g \in Frame
    BY <2>1 DEF Frame
  <2> QED
    BY <1>5, <2>1, <2>2
<1>19. /\ PendingOf(g) = rest /\ FilledOf(g) = {cond} /\ Apart(g) /\ IsLoopBody(g)
       /\ g.kind \notin Logic
  BY <1>5, <1>18 DEF PendingOf, FilledOf, Apart, IsLoopBody, Logic
<1>20. Pushed(stack', s, g)
  BY <1>2, <1>3, <1>17 DEF WhileBody, Stay, Pushed
<1>21. s \in Seq(Frame) /\ Stacked(s) /\ Loops(s, f.this_cond, f.this_end) /\ IsSeq(s)
  BY <1>1, <1>2, <1>3, FramePopped, SeqIs
<1>22. stack' \in Seq(Frame) /\ Stacked(stack') /\ Loops(stack', cond, end)
  <2>1. stack' \in Seq(Frame) /\ Stacked(stack') /\ Loops(stack', g.cond, g.end)
    BY <1>3, <1>18, <1>19, <1>20, <1>21, FramePushed
  <2> QED
    BY <1>18, <2>1
<1>23. Reserved(stack', blocks', bbs', body, {}, {})
  <2>1. \A b \in FilledOf(g) : Used(s, blocks', rest, b)
    BY <1>13, <1>14, <1>19, UsedStays
  <2>2. Reserved(stack', blocks', bbs', body, rest \ PendingOf(g), rest \ PendingOf(g))
    BY <1>16, <1>19, <1>20, <1>21, <2>1, Handed
  <2> QED
    BY <1>19, <2>2
<1>24. OpenEnded(blocks', body)
  BY <1>16, EmptyIsOpen
<1>25. m' = [m EXCEPT !.curr = body, !.cond = cond, !.end = end]
       /\ body \in Nat /\ cond \in Nat /\ end \in Nat
  BY <1>3, <1>4, <1>5 DEF WhileBody
<1>26. /\ m' \in [curr : Nat, cond : Nat, end : Nat, returned : BOOLEAN]
       /\ m'.curr = body /\ m'.cond = cond /\ m'.end = end
  BY <1>1, <1>25 DEF Typed
<1>27. Typed'
  <2>1. "do" \in Tokens /\ Log("do")
    BY DEF WhileBody, Tokens
  <2>2. prog' \in Seq(ANode)
    BY <1>1, <2>1, TokensAreLogged
  <2> QED
    BY <1>1, <1>12, <1>15, <1>22, <1>26, <2>2 DEF Typed, WhileBody, Stay
<1> QED
  BY <1>12, <1>22, <1>23, <1>24, <1>26, <1>27 DEF Pass, WhileBody

LEMMA WhileEndKeeps ==
    ASSUME Pass, stack # <<>>, WhileEnd
    PROVE  Pass'
<1>1. /\ Typed /\ Stacked(stack) /\ Loops(stack, m.cond, m.end)
      /\ Reserved(stack, blocks, bbs, m.curr, {}, {})
      /\ Sound(blocks) /\ OpenEnded(blocks, m.curr)
      /\ stack \in Seq(Frame) /\ IsSeq(stack) /\ IsBlocks(blocks) /\ IsSeq(bbs)
  BY SeqIs DEF Pass, Typed
<1>2. PICK f, s : f = Last(stack) /\ s = Front(stack)
  OBVIOUS
<1>3. f.kind = "while" /\ f.stage = "body" /\ f \in Frame /\ f = Top
  BY <1>1, <1>2, CalmIs DEF WhileEnd, Resumes, Top
<1>4. f \in [kind : {"while"}, stage : {"cond", "body"}, cond : Nat, body : Nat,
             end : Nat, this_cond : Nat, this_end : Nat]
  BY <1>3, FramesAre
<1>5. PICK cond, end, free : cond = f.cond /\ end = f.end /\ free = {end}
  OBVIOUS
<1>6. PendingOf(f) = free /\ FilledOf(f) = {cond} /\ f.kind \notin Logic
  BY <1>3, <1>5 DEF PendingOf, FilledOf, Logic
<1>7. cond \in 1 .. Len(blocks)
  <2>1. cond \in FilledOf(f)
    BY <1>6
  <2>2. Used(stack, blocks, {}, cond)
    BY <1>1, <1>2, <2>1, FilledAreUsed
  <2> QED
    BY <2>2 DEF Used
<1>8. PICK jump : jump = Jump(cond)
  OBVIOUS
<1>9. Targets(jump) \subseteq 1 .. Len(blocks) /\ blocks' = Emit(blocks, m.curr, jump)
  BY <1>3, <1>5, <1>7, <1>8, TargetsAre DEF WhileEnd, LoopBack
<1>10. Used(stack, blocks, {}, m.curr)
  BY <1>1, CurrIsUsed
<1>11. /\ IsBlocks(blocks') /\ Sound(blocks')
       /\ Reserved(stack, blocks', bbs, m.curr, {}, {})
  BY ONLY <1>1, <1>9, <1>10, Emitting
<1>12. Reserved(s, blocks', bbs, m.curr, free, free)
  <2>1. Reserved(s, blocks', bbs, m.curr, {} \cup PendingOf(f),
                 IF f.kind \in Logic THEN {} ELSE {} \cup PendingOf(f))
    BY <1>1, <1>2, <1>11, HandedBack
  <2>2. {} \cup PendingOf(f) = free
    BY <1>6
  <2> QED
    BY <1>6, <2>1, <2>2
<1>13. IsSeq(bbs') /\ Reserved(s, blocks', bbs', end, {}, {}) /\ blocks'[end] = <<>>
  <2>1. Pushed(bbs', bbs, end) /\ end \in free /\ free \ {end} = {}
    BY <1>3, <1>5 DEF WhileEnd, Pushed
  <2>2. IsSeq(bbs') /\ Reserved(s, blocks', bbs', m.curr, free, free \ {end})
    BY <1>1, <1>12, <2>1, Listed
  <2>3. Reserved(s, blocks', bbs', m.curr, free, {})
    BY <2>1, <2>2
  <2>4. Reserved(s, blocks', bbs', end, free \ {end}, {}) /\ blocks'[end] = <<>>
    BY <2>1, <2>3, Entered
  <2> QED
    BY <2>1, <2>2, <2>4
<1>14. /\ stack' = s /\ s \in Seq(Frame) /\ Stacked(s)
       /\ Loops(s, f.this_cond, f.this_end)
  BY <1>1, <1>2, <1>3, FramePopped DEF WhileEnd, Pop
<1>15. OpenEnded(blocks', end)
  BY <1>13, EmptyIsOpen
<1>16. m' = [curr |-> end, returned |-> FALSE, cond |-> f.this_cond, end |-> f.this_end]
       /\ end \in Nat /\ f.this_cond \in Nat /\ f.this_end \in Nat
  BY <1>3, <1>4, <1>5 DEF WhileEnd, OuterLoop
<1>17. /\ m' \in [curr : Nat, cond : Nat, end : Nat, returned : BOOLEAN]
       /\ m'.curr = end /\ m'.cond = f.this_cond /\ m'.end = f.this_end
  BY <1>16
<1>18. Typed'
  <2>1. "endwhile" \in Tokens /\ Log("endwhile")
    BY DEF WhileEnd, Tokens
  <2>2. prog' \in Seq(ANode)
    BY <1>1, <2>1, TokensAreLogged
  <2> QED
    BY <1>1, <1>11, <1>13, <1>14, <1>17, <2>2 DEF Typed, WhileEnd, Pop
<1> QED
  BY <1>11, <1>13, <1>14, <1>15, <1>17, <1>18 DEF Pass, WhileEnd

LEMMA LeaveKeeps ==
    ASSUME Pass, stack # <<>>, NEW tok \in {"break", "continue"}, NEW target \in {m.cond, m.end},
           Leave(tok, target)
    PROVE  Pass'
<1>1. /\ Typed /\ Stacked(stack) /\ Loops(stack, m.cond, m.end)
      /\ Reserved(stack, blocks, bbs, m.curr, {}, {})
      /\ Sound(blocks) /\ OpenEnded(blocks, m.curr)
      /\ stack \in Seq(Frame) /\ IsSeq(stack) /\ IsBlocks(blocks) /\ IsSeq(bbs)
  BY SeqIs DEF Pass, Typed
<1>2. target \in 1 .. Len(blocks)
  <2>1. target # None
    BY DEF Leave
  <2> QED
    BY <1>1, <2>1, LoopTargets
<1>3. PICK n \in Nat : n = Len(blocks)
  BY <1>1, BlocksAre
<1>4. PICK a, new : a = n + 1 /\ new = {a}
  OBVIOUS
<1>5. a = New(1) /\ a \in Nat /\ a \in new /\ new \ {a} = {}
  BY <1>3, <1>4 DEF New
<1>6. PICK b1 : b1 = Fresh(blocks, 1)
  OBVIOUS
<1>7. /\ Reserved(stack, b1, bbs, m.curr, new, new) /\ Sound(b1) /\ IsBlocks(b1)
      /\ target \in 1 .. Len(b1)
  <2>1. new = Len(blocks) + 1 .. Len(blocks) + 1
    BY <1>3, <1>4
  <2>2. Grown(blocks, b1, 1)
    BY <1>1, <1>6, FreshIs
  <2>3. Reserved(stack, b1, bbs, m.curr, new, new)
    BY <1>1, <2>1, <2>2, MadeFree
  <2>4. Sound(b1) /\ IsBlocks(b1) /\ Len(b1) = n + 1
    BY <1>1, <1>3, <2>2, GrownIsSound DEF Grown
  <2>5. target \in 1 .. n + 1
    BY <1>2, <1>3
  <2> QED
    BY <2>3, <2>4, <2>5
<1>8. Used(stack, b1, new, m.curr)
  BY <1>7, CurrIsUsed
<1>9. PICK jump : jump = Jump(target)
  OBVIOUS
<1>10. Targets(jump) \subseteq 1 .. Len(b1) /\ blocks' = Emit(b1, m.curr, jump)
  BY <1>6, <1>7, <1>9, TargetsAre DEF Leave
<1>11. /\ IsBlocks(blocks') /\ Sound(blocks')
       /\ Reserved(stack, blocks', bbs, m.curr, new, new)
  BY <1>7, <1>8, <1>10, Emitting
<1>12. IsSeq(bbs') /\ Reserved(stack, blocks', bbs', m.curr, new, {})
  <2>1. Pushed(bbs', bbs, a)
    BY <1>5 DEF Leave, Pushed
  <2>2. IsSeq(bbs') /\ Reserved(stack, blocks', bbs', m.curr, new, new \ {a})
    BY <1>1, <1>5, <1>11, <2>1, Listed
  <2> QED
    BY <1>5, <2>2
<1>13. Reserved(stack, blocks', bbs', a, {}, {}) /\ blocks'[a] = <<>>
  <2>1. Reserved(stack, blocks', bbs', a, new \ {a}, {}) /\ blocks'[a] = <<>>
    BY <1>5, <1>12, Entered
  <2> QED
    BY <1>5, <2>1
<1>14. OpenEnded(blocks', a)
  BY <1>13, EmptyIsOpen
<1>15. m' = [m EXCEPT !.curr = a]
  BY <1>5 DEF Leave
<1>16. /\ m' \in [curr : Nat, cond : Nat, end : Nat, returned : BOOLEAN]
       /\ m'.curr = a /\ m'.cond = m.cond /\ m'.end = m.end
  BY <1>1, <1>5, <1>15 DEF Typed
<1>17. Typed'
  <2>1. tok \in Tokens /\ Log(tok)
    BY DEF Leave, Tokens
  <2>2. prog' \in Seq(ANode) /\ nodes' \in 0 .. MaxNodes
    BY <1>1, <2>1, TokensAreLogged, RoomLeft DEF Leave
  <2> QED
    BY <1>1, <1>11, <1>12, <1>16, <2>2 DEF Typed, Leave
<1> QED
  BY <1>1, <1>11, <1>13, <1>14, <1>16, <1>17 DEF Pass, Leave

-----------------------------------------------------------------------------
(* The invariants. *)

LEMMA PassInitially ==
    ASSUME PassInit
    PROVE  Pass
<1>1. /\ void \in BOOLEAN /\ prog = <<>> /\ done = "nothing" /\ exp = 0 /\ nodes = 0
      /\ stack = <<[kind |-> "block", stage |-> "items"]>>
      /\ blocks = <<<<>>>> /\ bbs = <<1>>
      /\ m = [curr |-> 1, cond |-> 0, end |-> 0, returned |-> FALSE]
  BY DEF PassInit, None, Entry
<1>2. PICK f : f = [kind |-> "block", stage |-> "items"]
  OBVIOUS
<1>3. f \in Frame /\ f.kind = "block" /\ f.stage = "items"
  BY <1>2 DEF Frame
<1>4. /\ stack \in Seq(Frame) /\ Len(stack) = 1 /\ stack[1] = f
      /\ Len(blocks) = 1 /\ blocks[1] = <<>> /\ Len(bbs) = 1 /\ bbs[1] = 1
  BY <1>1, <1>2, <1>3
<1>5. IsBlocks(blocks) /\ IsSeq(bbs)
  <2>1. bbs \in Seq(Nat) /\ blocks \in Seq({<<>>})
    BY <1>1
  <2>2. IsSeq(bbs) /\ IsSeq(blocks)
    BY <2>1, SeqIs
  <2>3. \A b \in 1 .. Len(blocks) : blocks[b] = <<>>
    BY <1>4
  <2> QED
    BY <2>2, <2>3, EmptyIs DEF IsBlocks
<1>6. Typed
  <2>1. nodes \in 0 .. MaxNodes
    BY <1>1, LoweringAssumption
  <2> QED
    BY <1>1, <1>4, <1>5, <2>1 DEF Typed
<1>7. Stacked(stack)
  BY <1>3, <1>4 DEF Stacked, ExpStages
<1>8. Loops(stack, m.cond, m.end)
  <2>1. m.cond = None /\ m.end = None /\ ~ IsLoopBody(f)
    BY <1>1, <1>3 DEF None, IsLoopBody
  <2> QED
    BY <1>3, <1>4, <2>1 DEF Loops, LoopIn
<1>9. Reserved(stack, blocks, bbs, m.curr, {}, {})
  <2>1. m.curr = 1 /\ PendingOf(f) = {} /\ FilledOf(f) = {} /\ Apart(f)
    BY <1>1, <1>3 DEF PendingOf, FilledOf, Apart, Logic
  <2>2. IsEmitted(bbs, 1)
    BY <1>4 DEF IsEmitted
  <2> QED
    BY <1>4, <2>1, <2>2 DEF Reserved
<1>10. Sound(blocks)
  <2>1. \A b \in 1 .. Len(blocks) : Len(blocks[b]) = 0
    BY <1>4
  <2> QED
    BY <2>1 DEF Sound
<1>11. OpenEnded(blocks, m.curr)
  <2>1. m.curr = 1
    BY <1>1
  <2> QED
    BY <1>4, <2>1, EmptyIsOpen
<1> QED
  BY <1>6, <1>7, <1>8, <1>9, <1>10, <1>11 DEF Pass

LEMMA LowerKeeps ==
    ASSUME Pass, Lower
    PROVE  Pass'
<1>1. stack # <<>>
  BY DEF Lower
<1>2. CASE Operand
  BY <1>1, <1>2, OperandKeeps
<1>3. CASE \E kind \in {"and", "or"} : Logical(kind)
  BY <1>1, <1>3, LogicalKeeps DEF Logic
<1>4. CASE LogicalLeft
  BY <1>1, <1>4, LogicalLeftKeeps
<1>5. CASE LogicalRight
  BY <1>1, <1>5, LogicalRightKeeps
<1>6. CASE Semi
  BY <1>6, SemiKeeps
<1>7. CASE ExpStmt \/ Open \/ ReturnExp \/ If
  BY <1>1, <1>7, CallsKeep
<1>8. CASE EndExpStmt \/ Close
  BY <1>1, <1>8, ReturnsKeep
<1>9. CASE ReturnNothing
  BY <1>1, <1>9, ReturnNothingKeeps
<1>10. CASE EndReturn
  BY <1>1, <1>10, EndReturnKeeps
<1>11. CASE IfThen
  BY <1>1, <1>11, IfThenKeeps
<1>12. CASE IfElse
  BY <1>1, <1>12, IfElseKeeps
<1>13. CASE IfEnd
  BY <1>1, <1>13, IfEndKeeps
<1>14. CASE IfElseEnd
  BY <1>1, <1>14, IfElseEndKeeps
<1>15. CASE While
  BY <1>1, <1>15, WhileKeeps
<1>16. CASE WhileBody
  BY <1>1, <1>16, WhileBodyKeeps
<1>17. CASE WhileEnd
  BY <1>1, <1>17, WhileEndKeeps
<1>18. CASE Break \/ Continue
  <2>1. m.cond \in {m.cond, m.end} /\ m.end \in {m.cond, m.end}
    OBVIOUS
  <2>2. Leave("break", m.end) \/ Leave("continue", m.cond)
    BY <1>18 DEF Break, Continue
  <2> QED
    BY <1>1, <2>1, <2>2, LeaveKeeps
<1>19. CASE EndFunction
  BY <1>1, <1>19, EndFunctionKeeps
<1> QED
  BY <1>2, <1>3, <1>4, <1>5, <1>6, <1>7, <1>8, <1>9, <1>10, <1>11, <1>12, <1>13, <1>14, <1>15,
     <1>16, <1>17, <1>18, <1>19 DEF Lower

LEMMA PassAlways == Spec => []Pass
<1>1. Init => Pass
  BY PassInitially DEF Init
<1>2. Pass /\ [Next]_vars => Pass'
  <2>1. SUFFICES ASSUME Pass, [Next]_vars
                 PROVE  Pass'
    OBVIOUS
  <2>2. CASE Lower
    BY <2>1, <2>2, LowerKeeps
  <2>3. CASE UNCHANGED pass
    BY <2>1, <2>3 DEF Pass, Typed, pass
  <2>4. Lower \/ UNCHANGED pass
    BY <2>1 DEF Next, vars, pass, SrcStep, IrStep, Evaluate, Finish
  <2> QED
    BY <2>2, <2>3, <2>4
<1> QED
  BY <1>1, <1>2, PTL DEF Spec

LEMMA LoopTargetsAre ==
    ASSUME Pass, NEW loops,
           loops = {i \in DOMAIN stack : stack[i].kind = "while" /\ stack[i].stage = "body"}
    PROVE  <<m.cond, m.end>> = IF loops = {} THEN <<None, None>>
                               ELSE <<stack[Max(loops)].cond, stack[Max(loops)].end>>
<1>1. DOMAIN stack = 1 .. Len(stack) /\ Len(stack) \in Nat /\ Loops(stack, m.cond, m.end)
  BY DEF Pass, Typed
<1>2. \A i : i \in loops <=> i \in 1 .. Len(stack) /\ IsLoopBody(stack[i])
  BY <1>1 DEF IsLoopBody
<1>3. CASE m.cond = None /\ m.end = None /\ \A k \in 1 .. Len(stack) : ~ IsLoopBody(stack[k])
  <2>1. loops = {}
    BY <1>2, <1>3
  <2> QED
    BY <1>3, <2>1
<1>4. ASSUME NEW j \in 1 .. Len(stack),
             IsLoopBody(stack[j]) /\ m.cond = stack[j].cond /\ m.end = stack[j].end,
             \A k \in j + 1 .. Len(stack) : ~ IsLoopBody(stack[k])
      PROVE  <<m.cond, m.end>> = IF loops = {} THEN <<None, None>>
                                 ELSE <<stack[Max(loops)].cond, stack[Max(loops)].end>>
  <2>1. j \in loops
    BY <1>2, <1>4
  <2>2. \A y \in loops : y \in Int /\ j >= y
    <3>1. SUFFICES ASSUME NEW y \in loops, ~ (j >= y)
                   PROVE  FALSE
      BY <1>1, <1>2
    <3>2. y \in 1 .. Len(stack) /\ IsLoopBody(stack[y])
      BY <1>2, <3>1
    <3>3. y \in j + 1 .. Len(stack)
      BY <1>1, <3>1, <3>2
    <3> QED
      BY <1>4, <3>2, <3>3
  <2>3. Max(loops) \in loops /\ \A y \in loops : Max(loops) >= y
    <3>1. \E x \in loops : \A y \in loops : x >= y
      BY <2>1, <2>2
    <3> QED
      BY <3>1 DEF Max
  <2>4. Max(loops) = j
    <3>1. PICK k : k = Max(loops)
      OBVIOUS
    <3>2. k \in Int /\ j \in Int /\ j >= k /\ k >= j
      BY <2>1, <2>2, <2>3, <3>1
    <3>3. k = j
      BY <3>2
    <3> QED
      BY <3>1, <3>3
  <2> QED
    BY <1>4, <2>1, <2>4
<1> QED
  BY <1>1, <1>3, <1>4 DEF Loops, LoopIn

LEMMA PassIsTyped ==
    ASSUME Pass
    PROVE  TypeOK
<1>1. /\ Typed /\ Reserved(stack, blocks, bbs, m.curr, {}, {})
      /\ DOMAIN blocks = 1 .. Len(blocks)
      /\ DOMAIN bbs = 1 .. Len(bbs)
  BY BlocksAre DEF Pass, Typed, IsSeq
<1>2. PICK loops :
         loops = {i \in DOMAIN stack : stack[i].kind = "while" /\ stack[i].stage = "body"}
  OBVIOUS
<1>3. <<m.cond, m.end>> = IF loops = {} THEN <<None, None>>
                          ELSE <<stack[Max(loops)].cond, stack[Max(loops)].end>>
  BY <1>2, LoopTargetsAre
<1>4. m.curr \in DOMAIN blocks /\ Range(bbs) \subseteq DOMAIN blocks
  BY <1>1 DEF Reserved, Range
<1>5. nodes \in 0 .. MaxNodes /\ done \in {"nothing", "exp", "stmt"}
  BY <1>1 DEF Typed
<1> QED
  BY <1>2, <1>3, <1>4, <1>5, Zenon DEF TypeOK

\* As many numbers from 1 as are listed once each.
LEMMA ListedOnce ==
    ASSUME NEW s, IsSeq(s), NEW n \in Nat,
           \A k \in 1 .. Len(s) : s[k] \in 1 .. n,
           \A i, j \in 1 .. Len(s) : s[i] = s[j] => i = j,
           \A b \in 1 .. n : IsEmitted(s, b)
    PROVE  Len(s) = n /\ Range(s) = 1 .. n
<1>1. Len(s) \in Nat /\ DOMAIN s = 1 .. Len(s)
  BY DEF IsSeq
<1>2. PICK f : f = [k \in 1 .. Len(s) |-> s[k]]
  OBVIOUS
<1>3. f \in Bijection(1 .. Len(s), 1 .. n)
  BY <1>2 DEF Bijection, Injection, Surjection, IsInjective, IsEmitted
<1>4. Cardinality(1 .. n) = Cardinality(1 .. Len(s))
  <2>1. IsFiniteSet(1 .. Len(s))
    BY <1>1, FS_Interval
  <2>2. ExistsBijection(1 .. Len(s), 1 .. n)
    BY <1>3 DEF ExistsBijection
  <2> QED
    BY <2>1, <2>2, FS_Bijection
<1>5. Cardinality(1 .. n) = n /\ Cardinality(1 .. Len(s)) = Len(s)
  <2>1. \A k \in Nat : Cardinality(1 .. k) = k
    <3>1. SUFFICES ASSUME NEW k \in Nat
                   PROVE  Cardinality(1 .. k) = k
      OBVIOUS
    <3>2. Cardinality(1 .. k) = IF 1 > k THEN 0 ELSE k - 1 + 1
      BY FS_Interval
    <3> QED
      BY <3>2
  <2> QED
    BY <1>1, <2>1
<1>6. Range(s) = 1 .. n
  BY <1>1 DEF Range, IsEmitted
<1> QED
  BY <1>4, <1>5, <1>6

LEMMA PassIsWellFormed ==
    ASSUME Pass
    PROVE  WellFormed
<1>1. SUFFICES ASSUME Running
               PROVE  /\ Range(bbs) = DOMAIN blocks /\ Len(bbs) = Len(blocks)
                      /\ \A b \in DOMAIN blocks : \A k \in DOMAIN blocks[b] :
                            /\ IsTerminator(blocks[b][k]) => k = Len(blocks[b])
                            /\ Targets(blocks[b][k]) \subseteq Range(bbs)
  BY Zenon DEF WellFormed
<1>2. /\ Reserved(stack, blocks, bbs, m.curr, {}, {}) /\ Sound(blocks)
      /\ IsBlocks(blocks) /\ IsSeq(bbs)
  BY DEF Pass, Typed
<1>3. Len(stack) = 0
  BY <1>1 DEF Running
<1>4. /\ \A k \in 1 .. Len(bbs) : bbs[k] \in 1 .. Len(blocks)
      /\ \A i, j \in 1 .. Len(bbs) : bbs[i] = bbs[j] => i = j
      /\ \A b \in 1 .. Len(blocks) : IsEmitted(bbs, b)
  BY <1>2, <1>3 DEF Reserved
<1>5. /\ Len(blocks) \in Nat /\ DOMAIN blocks = 1 .. Len(blocks)
      /\ \A b \in 1 .. Len(blocks) : DOMAIN blocks[b] = 1 .. Len(blocks[b])
  BY <1>2, BlocksAre
<1>6. Len(bbs) = Len(blocks) /\ Range(bbs) = 1 .. Len(blocks)
  BY <1>2, <1>4, <1>5, ListedOnce
<1> QED
  BY <1>2, <1>5, <1>6 DEF Sound

\* The pass knows its place: the block it is at exists, and so do the targets of break
\* and continue, which are those of the innermost loop (m_curr_cond and m_curr_end in
\* src/src/ir.c, saved and restored by Stmt).
THEOREM LoweringTypes == Spec => []TypeOK
<1>1. Pass => TypeOK
  BY PassIsTyped
<1> QED
  BY <1>1, PassAlways, PTL

\* The blocks of a finished function: each is emitted, once; it is left at its end only
\* (try_append in src/src/ir.c); what it jumps to is a block of the function.
THEOREM BlocksAreWellFormed == Spec => []WellFormed
<1>1. Pass => WellFormed
  BY PassIsWellFormed
<1> QED
  BY <1>1, PassAlways, PTL

-----------------------------------------------------------------------------
(* The log: a node that begins something is open until the node that ends  *)
(* it, the first of its kind with the same depth.                          *)

Closers(tok) ==
    IF tok \in Logic \cup {"mid"} THEN {"endop"}
    ELSE IF tok = "then" THEN {"else", "endif"}
    ELSE IF tok = "else" THEN {"endif"}
    ELSE IF tok \in {"while", "do"} THEN {"endwhile"}
    ELSE {}

Closes(p, j, x) == p[x].depth = p[j].depth /\ p[x].tok \in Closers(p[j].tok)

OpenTo(p, j, k) == /\ Closers(p[j].tok) # {} /\ j \in 1 .. k - 1
                   /\ \A x \in j + 1 .. k - 1 : ~ Closes(p, j, x)

NextIs(p, j, e) == /\ j \in 1 .. Len(p) /\ e \in j + 1 .. Len(p) /\ Closes(p, j, e)
                   /\ \A x \in j + 1 .. e - 1 : ~ Closes(p, j, x)

\* Where the right operand of the operator o begins.
NoMid(p, o, i) ==
    \A x \in o + 1 .. i - 1 : ~ (p[x].tok = "mid" /\ p[x].depth = p[o].depth)

Opener(p, o, i) == /\ p[o].tok \in Logic /\ p[o].depth = p[i].depth
                   /\ OpenTo(p, o, i) /\ NoMid(p, o, i)

IsLoop(p, i, j) == /\ p[j].tok = "while" /\ OpenTo(p, j, i)
                   /\ \A x \in 1 .. i : p[x].tok = "while" /\ OpenTo(p, x, i) => x <= j

\* The frame that is going to end an open node.
Fits(f, tok) ==
    \/ tok \in Logic /\ f.kind \in Logic
    \/ tok = "mid" /\ f.kind \in Logic /\ f.stage = "rhs"
    \/ tok = "then" /\ f.kind = "if" /\ f.stage = "then"
    \/ tok = "else" /\ f.kind = "if" /\ f.stage = "else"
    \/ tok = "while" /\ f.kind = "while"
    \/ tok = "do" /\ f.kind = "while" /\ f.stage = "body"

ExpToks == {"eval", "and", "or", "mid", "endop"}

\* The node of an operator whose frame is at depth d.
LogicFrame(p, f, d) ==
    /\ f.var \in 1 .. Len(p) /\ p[f.var].tok = f.kind /\ p[f.var].depth = d
    /\ OpenTo(p, f.var, Len(p) + 1)
    /\ f.stage = "rhs" <=> ~ NoMid(p, f.var, Len(p) + 1)

\* The block at which those who leave an open node before its end go on.
Target(f, tok) == IF tok = "then" THEN f.no ELSE f.end

\* Each open node has its frame.  What is opened in something is deeper, operators and
\* loops strictly; operators are open in expressions only; what is not open is closed.
LogOK(p, s) ==
    /\ \A j \in 1 .. Len(p) : OpenTo(p, j, Len(p) + 1) =>
          p[j].depth \in 1 .. Len(s) /\ Fits(s[p[j].depth], p[j].tok)
    /\ \A j, k \in 1 .. Len(p) : OpenTo(p, j, k) =>
          /\ p[k].depth >= p[j].depth
          /\ p[k].tok \in Logic \cup {"while"} => p[k].depth > p[j].depth
    /\ \A o, i \in 1 .. Len(p) :
          p[i].tok \notin ExpToks /\ p[o].tok \in Logic => ~ OpenTo(p, o, i)
    /\ \A j \in 1 .. Len(p) : Closers(p[j].tok) # {} =>
          OpenTo(p, j, Len(p) + 1) \/ \E e \in 1 .. Len(p) : NextIs(p, j, e)

\* A log that goes on from another one.
Longer(p, q) == Len(p) \in Nat /\ Len(q) \in Nat /\ Len(p) <= Len(q)
                /\ \A i \in 1 .. Len(p) : q[i] = p[i]

Node1(p, q, tok, d) == /\ Longer(p, q) /\ Len(q) = Len(p) + 1
                       /\ q[Len(q)].tok = tok /\ q[Len(q)].depth = d

LEMMA LongerOpen ==
    ASSUME NEW p, NEW q, Longer(p, q), NEW k \in 1 .. Len(p) + 1, NEW j
    PROVE  /\ OpenTo(p, j, k) => OpenTo(q, j, k)
           /\ OpenTo(q, j, k) => OpenTo(p, j, k)
<1>1. \A x \in 1 .. k - 1 : x \in 1 .. Len(p) /\ q[x] = p[x]
  BY DEF Longer
<1>2. CASE j \in 1 .. k - 1
  <2>1. \A x \in j + 1 .. k - 1 : x \in 1 .. k - 1
    BY <1>2 DEF Longer
  <2>2. q[j] = p[j]
    BY <1>1, <1>2
  <2>3. \A x \in j + 1 .. k - 1 : Closes(q, j, x) <=> Closes(p, j, x)
    BY <1>1, <2>1, <2>2 DEF Closes
  <2> QED
    BY <2>2, <2>3 DEF OpenTo
<1>3. CASE j \notin 1 .. k - 1
  BY <1>3 DEF OpenTo
<1> QED
  BY <1>2, <1>3

LEMMA LongerNext ==
    ASSUME NEW p, NEW q, Longer(p, q), NEW j, NEW e, NextIs(p, j, e)
    PROVE  NextIs(q, j, e)
<1>1. j \in 1 .. Len(p) /\ e \in j + 1 .. Len(p)
  BY DEF NextIs
<1>2. /\ j \in 1 .. Len(q) /\ e \in j + 1 .. Len(q) /\ e \in 1 .. Len(p)
      /\ \A x \in j + 1 .. e - 1 : x \in 1 .. Len(p)
  BY <1>1 DEF Longer
<1>3. q[j] = p[j] /\ q[e] = p[e] /\ \A x \in j + 1 .. e - 1 : q[x] = p[x]
  BY <1>1, <1>2 DEF Longer
<1> QED
  BY <1>2, <1>3 DEF NextIs, Closes

LEMMA LongerMid ==
    ASSUME NEW p, NEW q, Longer(p, q), NEW i \in 1 .. Len(p) + 1, NEW o \in 1 .. Len(p)
    PROVE  NoMid(p, o, i) <=> NoMid(q, o, i)
<1>1. \A x \in o + 1 .. i - 1 : x \in 1 .. Len(p)
  BY DEF Longer
<1>2. q[o] = p[o] /\ \A x \in o + 1 .. i - 1 : q[x] = p[x]
  BY <1>1 DEF Longer
<1> QED
  BY <1>2 DEF NoMid

LEMMA LongerOpener ==
    ASSUME NEW p, NEW q, Longer(p, q), NEW i \in 1 .. Len(p), NEW o
    PROVE  /\ Opener(p, o, i) => Opener(q, o, i)
           /\ Opener(q, o, i) => Opener(p, o, i)
<1>1. OpenTo(p, o, i) \/ OpenTo(q, o, i) => o \in 1 .. Len(p)
  BY DEF OpenTo, Longer
<1>2. i \in 1 .. Len(p) + 1
  BY DEF Longer
<1>3. CASE o \in 1 .. Len(p)
  <2>1. q[o] = p[o] /\ q[i] = p[i] /\ (NoMid(p, o, i) <=> NoMid(q, o, i))
    BY <1>2, <1>3, LongerMid DEF Longer
  <2> QED
    BY <1>2, <2>1, LongerOpen DEF Opener
<1>4. CASE o \notin 1 .. Len(p)
  BY <1>1, <1>4 DEF Opener
<1> QED
  BY <1>3, <1>4

LEMMA LongerLoop ==
    ASSUME NEW p, NEW q, Longer(p, q), NEW i \in 1 .. Len(p), NEW j, IsLoop(p, i, j)
    PROVE  IsLoop(q, i, j)
<1>1. i \in 1 .. Len(p) + 1 /\ \A x \in 1 .. i : x \in 1 .. Len(p)
  BY DEF Longer
<1>2. j \in 1 .. Len(p)
  BY DEF IsLoop, OpenTo, Longer
<1>3. q[j] = p[j] /\ \A x \in 1 .. i : q[x] = p[x]
  BY <1>1, <1>2 DEF Longer
<1>4. OpenTo(q, j, i) /\ \A x \in 1 .. i : OpenTo(q, x, i) => OpenTo(p, x, i)
  BY <1>1, LongerOpen DEF IsLoop
<1> QED
  BY <1>3, <1>4 DEF IsLoop

\* What one more node does to an open one.
LEMMA OneMoreNode ==
    ASSUME NEW p, NEW tok, NEW d, NEW q, Node1(p, q, tok, d), NEW j \in 1 .. Len(p)
    PROVE  /\ OpenTo(q, j, Len(q) + 1) <=>
                 OpenTo(p, j, Len(p) + 1) /\ ~ (d = p[j].depth /\ tok \in Closers(p[j].tok))
           /\ OpenTo(p, j, Len(p) + 1) /\ d = p[j].depth /\ tok \in Closers(p[j].tok) =>
                 NextIs(q, j, Len(q))
<1>1. PICK n \in Nat : n = Len(p)
  BY DEF Node1, Longer
<1>2. /\ Longer(p, q) /\ Len(q) = n + 1 /\ q[j] = p[j] /\ j \in 1 .. n
      /\ q[n + 1].tok = tok /\ q[n + 1].depth = d
  BY <1>1 DEF Node1, Longer
<1>3. Closes(q, j, n + 1) <=> d = p[j].depth /\ tok \in Closers(p[j].tok)
  BY <1>2 DEF Closes
<1>4. OpenTo(p, j, n + 1) <=> OpenTo(q, j, n + 1)
  <2>1. n + 1 \in 1 .. Len(p) + 1
    BY <1>1
  <2> QED
    BY <1>2, <2>1, LongerOpen
<1>5. OpenTo(q, j, n + 2) <=> OpenTo(q, j, n + 1) /\ ~ Closes(q, j, n + 1)
  <2>1. /\ \A x \in j + 1 .. n + 1 : x \in j + 1 .. n \/ x = n + 1
        /\ n + 1 \in j + 1 .. n + 1 /\ \A x \in j + 1 .. n : x \in j + 1 .. n + 1
        /\ (n + 2) - 1 = n + 1 /\ (n + 1) - 1 = n
        /\ j \in 1 .. n + 1
    BY <1>2
  <2> QED
    BY <1>2, <2>1 DEF OpenTo
<1>6. OpenTo(q, j, n + 1) /\ Closes(q, j, n + 1) => NextIs(q, j, n + 1)
  <2>1. j \in 1 .. n + 1 /\ n + 1 \in j + 1 .. n + 1 /\ (n + 1) - 1 = n
    BY <1>2
  <2> QED
    BY <1>2, <2>1 DEF OpenTo, NextIs
<1>7. Len(q) + 1 = n + 2 /\ Len(p) + 1 = n + 1 /\ Len(q) = n + 1
  BY <1>1, <1>2
<1> QED
  BY <1>3, <1>4, <1>5, <1>6, <1>7

\* The new node itself.
LEMMA NewNodeIsOpen ==
    ASSUME NEW p, NEW tok, NEW d, NEW q, Node1(p, q, tok, d)
    PROVE  /\ OpenTo(q, Len(q), Len(q) + 1) <=> Closers(tok) # {}
           /\ NoMid(q, Len(q), Len(q) + 1)
<1>1. PICK n \in Nat : n = Len(p)
  BY DEF Node1, Longer
<1>2. Len(q) = n + 1 /\ q[n + 1].tok = tok
  BY <1>1 DEF Node1
<1>3. \A x \in (n + 1) + 1 .. (n + 2) - 1 : FALSE
  BY <1>1
<1>4. n + 1 \in 1 .. (n + 2) - 1
  BY <1>1
<1>5. OpenTo(q, n + 1, n + 2) <=> Closers(tok) # {}
  BY <1>2, <1>3, <1>4 DEF OpenTo
<1>6. NoMid(q, n + 1, n + 2)
  BY <1>3 DEF NoMid
<1>7. Len(q) + 1 = n + 2 /\ Len(q) = n + 1
  BY <1>1, <1>2
<1> QED
  BY <1>5, <1>6, <1>7

\* The frame of an operator stays the frame of its node.
LEMMA LogicFrameKept ==
    ASSUME NEW p, NEW tok, NEW d, NEW q, Node1(p, q, tok, d),
           NEW f, NEW x, LogicFrame(p, f, x), x = d => tok \notin {"mid", "endop"},
           f.kind \in Logic
    PROVE  LogicFrame(q, f, x)
<1>1. PICK n \in Nat : n = Len(p)
  BY DEF Node1, Longer
<1>2. PICK v : v = f.var
  OBVIOUS
<1>3. /\ v \in 1 .. n /\ p[v].tok = f.kind /\ p[v].depth = x
      /\ OpenTo(p, v, n + 1)
      /\ f.stage = "rhs" <=> ~ NoMid(p, v, n + 1)
  BY <1>1, <1>2, Zenon DEF LogicFrame
<1>4. /\ Longer(p, q) /\ Len(q) = n + 1 /\ q[v] = p[v] /\ v \in 1 .. n + 1
      /\ q[n + 1].tok = tok /\ q[n + 1].depth = d
  BY <1>1, <1>3 DEF Node1, Longer
<1>5. OpenTo(q, v, Len(q) + 1)
  <2>1. ~ (d = p[v].depth /\ tok \in Closers(p[v].tok))
    BY <1>3 DEF Closers
  <2>2. OpenTo(p, v, Len(p) + 1) /\ v \in 1 .. Len(p)
    BY <1>1, <1>3
  <2> QED
    BY <2>1, <2>2, OneMoreNode
<1>6. NoMid(q, v, n + 2) <=> NoMid(p, v, n + 1)
  <2>1. NoMid(p, v, n + 1) <=> NoMid(q, v, n + 1)
    <3>1. n + 1 \in 1 .. Len(p) + 1 /\ v \in 1 .. Len(p)
      BY <1>1, <1>3
    <3> QED
      BY <1>4, <3>1, LongerMid
  <2>2. /\ \A y \in v + 1 .. n + 1 : y \in v + 1 .. n \/ y = n + 1
        /\ \A y \in v + 1 .. n : y \in v + 1 .. n + 1
        /\ (n + 2) - 1 = n + 1 /\ (n + 1) - 1 = n
    BY <1>1, <1>3
  <2>3. ~ (q[n + 1].tok = "mid" /\ q[n + 1].depth = q[v].depth)
    BY <1>3, <1>4
  <2>4. NoMid(q, v, n + 1) <=> NoMid(q, v, n + 2)
    BY <2>2, <2>3 DEF NoMid
  <2> QED
    BY <2>1, <2>4
<1>7. Len(q) + 1 = n + 2 /\ Len(q) = n + 1
  BY <1>1, <1>4
<1> QED
  BY <1>2, <1>3, <1>4, <1>5, <1>6, <1>7 DEF LogicFrame

-----------------------------------------------------------------------------
(* What the blocks have to do with the log: a set "rel" of <<i, b, k, c>>, *)
(* such that the source may be about to go through node i when instruction *)
(* k of block b is next, and then c holds of the last value of the source. *)
(* Whatever that instruction does, the node does the same, and both go on  *)
(* with another element of the set.                                        *)

\* Nothing is known; it is the value v; it is in variable v; nothing but that variable v is
\* allocated; it is b.
Plain    == <<"none", 0>>
Ready(v) == <<"value", v>>
InVar(v) == <<"var", v>>
Has(v)   == <<"has", v>>
Known(b) == <<"is", b>>

At(bb, b, k, inst) == b \in 1 .. Len(bb) /\ k \in 1 .. Len(bb[b]) /\ bb[b][k] = inst

\* Who leaves node j at block b goes on after its end e, or with it.
Landed(p, rel, j, e, b) ==
    /\ p[j].tok = "mid" => \A o : Opener(p, o, j) => <<e, b, 1, InVar(o)>> \in rel
    /\ p[j].tok = "then" =>
          IF p[e].tok = "else" THEN <<e + 1, b, 1, Plain>> \in rel
                               ELSE <<j, b, 1, Known(FALSE)>> \in rel
    /\ p[j].tok \in {"else", "while", "do"} => <<e + 1, b, 1, Plain>> \in rel

\* And is going to, when the node is not closed yet.
Goes(p, s, rel, j, b) ==
    \/ \E e : NextIs(p, j, e) /\ Landed(p, rel, j, e, b)
    \/ /\ OpenTo(p, j, Len(p) + 1) /\ p[j].depth \in 1 .. Len(s)
       /\ b = Target(s[p[j].depth], p[j].tok)

EvalStep(bb, rel, i, b, k) ==
    At(bb, b, k, Call(i)) /\ <<i + 1, b, k + 1, Ready(i)>> \in rel

LogicStep(p, bb, rel, i, b, k, c) ==
    \/ At(bb, b, k, Alloc(i)) /\ <<i, b, k + 1, Has(i)>> \in rel
    \/ /\ At(bb, b, k, Set(i, p[i].tok = "or")) /\ c = Has(i)
       /\ <<i + 1, b, k + 1, Plain>> \in rel

BranchOf(kind, v, rhs, end) ==
    IF kind = "and" THEN Branch(v, rhs, end) ELSE Branch(v, end, rhs)

MidStep(p, s, bb, rel, i, b, k, c) ==
    \E o, v, rhs, end :
        /\ Opener(p, o, i) /\ c = Ready(v)
        /\ At(bb, b, k, BranchOf(p[o].tok, v, rhs, end))
        /\ <<i + 1, rhs, 1, Plain>> \in rel /\ Goes(p, s, rel, i, end)

EndOpStep(p, bb, rel, i, b, k, c) ==
    \E o, v :
        /\ p[o].tok \in Logic /\ OpenTo(p, o, i) /\ ~ NoMid(p, o, i)
        /\ \/ At(bb, b, k, Store(v, o)) /\ c = Ready(v) /\ <<i, b, k + 1, InVar(o)>> \in rel
           \/ At(bb, b, k, Jump(v)) /\ c = InVar(o) /\ <<i, v, 1, InVar(o)>> \in rel
           \/ At(bb, b, k, LoadFrom(o)) /\ c = InVar(o) /\ <<i + 1, b, k + 1, Ready(o)>> \in rel

ThenStep(p, s, bb, rel, i, b, k, c) ==
    \/ \E v, yes, no : /\ At(bb, b, k, Branch(v, yes, no)) /\ c = Ready(v)
                       /\ <<i + 1, yes, 1, Plain>> \in rel /\ Goes(p, s, rel, i, no)
    \/ \E e, end : /\ At(bb, b, k, Jump(end)) /\ c = Known(FALSE)
                   /\ NextIs(p, i, e) /\ <<e + 1, end, 1, Plain>> \in rel

ElseStep(p, s, bb, rel, i, b, k) ==
    \E end : At(bb, b, k, Jump(end)) /\ Goes(p, s, rel, i, end)

OnStep(bb, rel, i, b, k) ==
    \E to : At(bb, b, k, Jump(to)) /\ <<i + 1, to, 1, Plain>> \in rel

DoStep(p, s, bb, rel, i, b, k, c) ==
    \E v, body, end : /\ At(bb, b, k, Branch(v, body, end)) /\ c = Ready(v)
                      /\ <<i + 1, body, 1, Plain>> \in rel /\ Goes(p, s, rel, i, end)

EndWhileStep(p, bb, rel, i, b, k) ==
    \E j, cond : /\ p[j].tok = "while" /\ NextIs(p, j, i)
                 /\ At(bb, b, k, Jump(cond)) /\ <<j + 1, cond, 1, Plain>> \in rel

BreakStep(p, s, bb, rel, i, b, k) ==
    \E j, end : IsLoop(p, i, j) /\ At(bb, b, k, Jump(end)) /\ Goes(p, s, rel, j, end)

ContinueStep(p, bb, rel, i, b, k) ==
    \E j, cond : /\ IsLoop(p, i, j) /\ At(bb, b, k, Jump(cond))
                 /\ <<j + 1, cond, 1, Plain>> \in rel

ReturnStep(vd, bb, b, k, c) ==
    \E v : /\ At(bb, b, k, Return(v))
           /\ c = Ready(v) \/ (v = None /\ vd)

Step(p, s, vd, bb, rel, i, b, k, c) ==
    /\ p[i].tok = "eval" => EvalStep(bb, rel, i, b, k)
    /\ p[i].tok \in Logic => LogicStep(p, bb, rel, i, b, k, c)
    /\ p[i].tok = "mid" => MidStep(p, s, bb, rel, i, b, k, c)
    /\ p[i].tok = "endop" => EndOpStep(p, bb, rel, i, b, k, c)
    /\ p[i].tok = "then" => ThenStep(p, s, bb, rel, i, b, k, c)
    /\ p[i].tok = "else" => ElseStep(p, s, bb, rel, i, b, k)
    /\ p[i].tok \in {"endif", "while"} => OnStep(bb, rel, i, b, k)
    /\ p[i].tok = "do" => DoStep(p, s, bb, rel, i, b, k, c)
    /\ p[i].tok = "endwhile" => EndWhileStep(p, bb, rel, i, b, k)
    /\ p[i].tok = "break" => BreakStep(p, s, bb, rel, i, b, k)
    /\ p[i].tok = "continue" => ContinueStep(p, bb, rel, i, b, k)
    /\ p[i].tok = "return" => ReturnStep(vd, bb, b, k, c)
    /\ p[i].tok = "endfunction" => (vd => At(bb, b, k, Return(None)))

Matched(p, s, vd, bb, rel) ==
    \A i, b, k, c : <<i, b, k, c>> \in rel /\ i \in 1 .. Len(p) => Step(p, s, vd, bb, rel, i, b, k, c)

\* What comes next in the source comes next in the block at which the pass is, unless that
\* has been left.
AtFront(p, s, bb, curr, dn, ex, rel) ==
    \A i, b, k, c : <<i, b, k, c>> \in rel =>
        \/ i \in 1 .. Len(p)
        \/ /\ i = Len(p) + 1 /\ s # <<>> /\ ~ Terminated(bb[curr])
           /\ b = curr /\ k = Len(bb[curr]) + 1 /\ (dn = "exp" => c = Ready(ex))

\* The nodes of a frame.
LoopFrame(p, f, d, rel) ==
    \E j \in 1 .. Len(p) : /\ p[j].tok = "while" /\ p[j].depth = d /\ OpenTo(p, j, Len(p) + 1)
                           /\ <<j + 1, f.cond, 1, Plain>> \in rel

FrameOK(p, f, d, rel) == /\ f.kind \in Logic => LogicFrame(p, f, d)
                         /\ f.kind = "while" => LoopFrame(p, f, d, rel)

Match(p, s, vd, bb, curr, dn, ex, rel) ==
    /\ LogOK(p, s)
    /\ \A d \in 1 .. Len(s) : FrameOK(p, s[d], d, rel)
    /\ Matched(p, s, vd, bb, rel)
    /\ AtFront(p, s, bb, curr, dn, ex, rel)
    /\ <<1, Entry, 1, Plain>> \in rel

-----------------------------------------------------------------------------
(* Nothing is lost when the log and the blocks grow. *)

Extends(bb, cc) ==
    /\ Len(bb) <= Len(cc)
    /\ \A b \in 1 .. Len(bb) : /\ Len(bb[b]) <= Len(cc[b])
                               /\ \A k \in 1 .. Len(bb[b]) : cc[b][k] = bb[b][k]

LEMMA ExtendsItself ==
    ASSUME NEW bb, IsBlocks(bb)
    PROVE  Extends(bb, bb)
BY BlocksAre DEF Extends

LEMMA ExtendsOn ==
    ASSUME NEW bb, IsBlocks(bb), NEW cc, IsBlocks(cc), NEW dd, IsBlocks(dd),
           Extends(bb, cc), Extends(cc, dd)
    PROVE  Extends(bb, dd)
<1>1. /\ Len(bb) \in Nat /\ Len(cc) \in Nat /\ Len(dd) \in Nat
      /\ \A b \in 1 .. Len(bb) : Len(bb[b]) \in Nat
      /\ \A b \in 1 .. Len(cc) : Len(cc[b]) \in Nat
      /\ \A b \in 1 .. Len(dd) : Len(dd[b]) \in Nat
  BY BlocksAre
<1>2. Len(bb) <= Len(dd)
  BY <1>1 DEF Extends
<1>3. ASSUME NEW b \in 1 .. Len(bb)
      PROVE  Len(bb[b]) <= Len(dd[b]) /\ \A k \in 1 .. Len(bb[b]) : dd[b][k] = bb[b][k]
  <2>1. b \in 1 .. Len(cc) /\ b \in 1 .. Len(dd)
    BY <1>1, <1>2 DEF Extends
  <2>2. /\ Len(bb[b]) <= Len(cc[b]) /\ Len(cc[b]) <= Len(dd[b])
        /\ \A k \in 1 .. Len(bb[b]) : cc[b][k] = bb[b][k]
        /\ \A k \in 1 .. Len(cc[b]) : dd[b][k] = cc[b][k]
    BY <1>3, <2>1 DEF Extends
  <2>3. \A k \in 1 .. Len(bb[b]) : k \in 1 .. Len(cc[b])
    BY <1>1, <2>1, <2>2
  <2> QED
    BY <1>1, <2>1, <2>2, <2>3
<1> QED
  BY <1>2, <1>3 DEF Extends

LEMMA EmittedExtends ==
    ASSUME NEW bb, IsBlocks(bb), NEW b \in 1 .. Len(bb), NEW inst, NEW cc, EmittedAt(bb, cc, b, inst)
    PROVE  Extends(bb, cc)
<1>1. /\ Len(bb) \in Nat /\ Len(cc) = Len(bb)
      /\ \A x \in 1 .. Len(bb) : Len(bb[x]) \in Nat
      /\ \A x \in 1 .. Len(bb) : x # b => cc[x] = bb[x]
  BY BlocksAre DEF EmittedAt
<1>2. PICK old, more : old = bb[b] /\ more = cc[b]
  OBVIOUS
<1>3. IsSeq(old) /\ Emitted(old, more, inst)
  BY <1>2, BlocksAre DEF EmittedAt
<1>4. Len(old) \in Nat /\ Len(old) <= Len(more) /\ \A k \in 1 .. Len(old) : more[k] = old[k]
  <2>1. CASE more = old
    BY <1>1, <1>2, <2>1
  <2>2. CASE Pushed(more, old, inst)
    BY <1>3, <2>2, PushedIs
  <2> QED
    BY <1>3, <2>1, <2>2 DEF Emitted
<1> QED
  BY <1>1, <1>2, <1>4 DEF Extends

LEMMA GrownExtends ==
    ASSUME NEW bb, IsBlocks(bb), NEW n \in Nat, NEW cc, Grown(bb, cc, n)
    PROVE  Extends(bb, cc)
<1>1. /\ Len(bb) \in Nat /\ Len(cc) = Len(bb) + n
      /\ \A x \in 1 .. Len(bb) : Len(bb[x]) \in Nat /\ cc[x] = bb[x]
  BY BlocksAre DEF Grown
<1> QED
  BY <1>1 DEF Extends

LEMMA ExtendedAt ==
    ASSUME NEW bb, IsBlocks(bb), NEW cc, IsBlocks(cc), Extends(bb, cc),
           NEW b, NEW k, NEW inst, At(bb, b, k, inst)
    PROVE  At(cc, b, k, inst)
<1>1. Len(bb) \in Nat /\ Len(cc) \in Nat /\ b \in 1 .. Len(bb) /\ k \in 1 .. Len(bb[b]) /\ bb[b][k] = inst
  BY BlocksAre DEF At
<1>2. Len(bb) <= Len(cc) /\ Len(bb[b]) <= Len(cc[b]) /\ cc[b][k] = bb[b][k]
  BY <1>1 DEF Extends
<1>3. b \in 1 .. Len(cc)
  BY <1>1, <1>2
<1>4. Len(bb[b]) \in Nat /\ Len(cc[b]) \in Nat
  BY <1>1, <1>3, BlocksAre
<1> QED
  BY <1>1, <1>2, <1>3, <1>4 DEF At

\* Each open node stays open, with the same target, or is closed where its target is.
Carried(p, s, q, t, more) ==
    \A j \in 1 .. Len(p) : OpenTo(p, j, Len(p) + 1) /\ p[j].depth \in 1 .. Len(s) =>
        \/ /\ OpenTo(q, j, Len(q) + 1) /\ p[j].depth \in 1 .. Len(t)
           /\ Target(t[p[j].depth], p[j].tok) = Target(s[p[j].depth], p[j].tok)
        \/ \E e : NextIs(q, j, e) /\ Landed(q, more, j, e, Target(s[p[j].depth], p[j].tok))

Growing(p, s, bb, rel, q, t, cc, more) ==
    /\ Longer(p, q) /\ Carried(p, s, q, t, more)
    /\ IsBlocks(bb) /\ IsBlocks(cc) /\ Extends(bb, cc)
    /\ rel \subseteq more

LEMMA LandedStays ==
    ASSUME NEW p, NEW q, Longer(p, q), NEW rel, NEW more, rel \subseteq more,
           NEW j, NEW e, NextIs(p, j, e), NEW b, Landed(p, rel, j, e, b)
    PROVE  Landed(q, more, j, e, b)
<1>1. j \in 1 .. Len(p) /\ e \in 1 .. Len(p)
  BY DEF NextIs, Longer
<1>2. q[j] = p[j] /\ q[e] = p[e]
  BY <1>1 DEF Longer
<1>3. \A o : Opener(q, o, j) => Opener(p, o, j)
  BY <1>1, LongerOpener
<1>4. p[j].tok = "mid" => \A o : Opener(q, o, j) => <<e, b, 1, InVar(o)>> \in more
  BY <1>3 DEF Landed
<1>5. p[j].tok = "then" =>
        IF p[e].tok = "else" THEN <<e + 1, b, 1, Plain>> \in more ELSE <<j, b, 1, Known(FALSE)>> \in more
  BY DEF Landed
<1>6. p[j].tok \in {"else", "while", "do"} => <<e + 1, b, 1, Plain>> \in more
  BY DEF Landed
<1> QED
  BY <1>2, <1>4, <1>5, <1>6 DEF Landed

LEMMA GoesStays ==
    ASSUME NEW p, NEW s, NEW bb, NEW rel, NEW q, NEW t, NEW cc, NEW more,
           Growing(p, s, bb, rel, q, t, cc, more),
           NEW j \in 1 .. Len(p), NEW b, Goes(p, s, rel, j, b)
    PROVE  Goes(q, t, more, j, b)
<1>1. Longer(p, q) /\ rel \subseteq more /\ Carried(p, s, q, t, more)
  BY DEF Growing
<1>2. q[j] = p[j]
  BY <1>1 DEF Longer
<1>3. CASE \E e : NextIs(p, j, e) /\ Landed(p, rel, j, e, b)
  <2>1. PICK e : NextIs(p, j, e) /\ Landed(p, rel, j, e, b)
    BY <1>3
  <2>2. NextIs(q, j, e) /\ Landed(q, more, j, e, b)
    BY <1>1, <2>1, LongerNext, LandedStays
  <2> QED
    BY <2>2 DEF Goes
<1>4. CASE /\ OpenTo(p, j, Len(p) + 1) /\ p[j].depth \in 1 .. Len(s)
           /\ b = Target(s[p[j].depth], p[j].tok)
  <2>1. \/ /\ OpenTo(q, j, Len(q) + 1) /\ p[j].depth \in 1 .. Len(t)
           /\ Target(t[p[j].depth], p[j].tok) = b
        \/ \E e : NextIs(q, j, e) /\ Landed(q, more, j, e, b)
    BY <1>1, <1>4 DEF Carried
  <2> QED
    BY <1>2, <2>1 DEF Goes
<1> QED
  BY <1>3, <1>4 DEF Goes

LEMMA StepStays ==
    ASSUME NEW p, NEW s, NEW vd, NEW bb, NEW rel, NEW q, NEW t, NEW cc, NEW more,
           Growing(p, s, bb, rel, q, t, cc, more),
           NEW i \in 1 .. Len(p), NEW b, NEW k, NEW c, Step(p, s, vd, bb, rel, i, b, k, c)
    PROVE  Step(q, t, vd, cc, more, i, b, k, c)
<1>1. /\ \A inst : At(bb, b, k, inst) => At(cc, b, k, inst)
      /\ \A x : x \in rel => x \in more
      /\ Longer(p, q)
  BY ExtendedAt DEF Growing
<1>2. q[i] = p[i] /\ Len(p) \in Nat
  BY <1>1 DEF Longer
<1>3. \A j \in 1 .. Len(p) : \A x : Goes(p, s, rel, j, x) => Goes(q, t, more, j, x)
  BY GoesStays
<1>4. \A o : Opener(p, o, i) => Opener(q, o, i) /\ q[o] = p[o]
  <2>1. \A o : Opener(p, o, i) => o \in 1 .. Len(p)
    BY <1>2 DEF Opener, OpenTo
  <2> QED
    BY <1>1, <2>1, LongerOpener DEF Longer
<1>5. \A j : IsLoop(p, i, j) => IsLoop(q, i, j) /\ j \in 1 .. Len(p)
  <2>1. \A j : IsLoop(p, i, j) => j \in 1 .. Len(p)
    BY <1>2 DEF IsLoop, OpenTo
  <2> QED
    BY <1>1, <2>1, LongerLoop
<1>6. \A j, e : NextIs(p, j, e) => NextIs(q, j, e) /\ q[j] = p[j]
  <2>1. \A j, e : NextIs(p, j, e) => j \in 1 .. Len(p)
    BY DEF NextIs
  <2> QED
    BY <1>1, <2>1, LongerNext DEF Longer
<1>7. q[i].tok = "eval" => EvalStep(cc, more, i, b, k)
  BY <1>1, <1>2 DEF Step, EvalStep
<1>8. q[i].tok \in Logic => LogicStep(q, cc, more, i, b, k, c)
  BY <1>1, <1>2 DEF Step, LogicStep
<1>9. ASSUME q[i].tok = "mid"
      PROVE  MidStep(q, t, cc, more, i, b, k, c)
  <2>1. PICK o, v, rhs, end :
            /\ Opener(p, o, i) /\ c = Ready(v)
            /\ At(bb, b, k, BranchOf(p[o].tok, v, rhs, end))
            /\ <<i + 1, rhs, 1, Plain>> \in rel /\ Goes(p, s, rel, i, end)
    BY <1>2, <1>9 DEF Step, MidStep
  <2>2. /\ Opener(q, o, i) /\ At(cc, b, k, BranchOf(q[o].tok, v, rhs, end))
        /\ <<i + 1, rhs, 1, Plain>> \in more /\ Goes(q, t, more, i, end)
    BY <1>1, <1>3, <1>4, <2>1
  <2> QED
    BY <2>1, <2>2 DEF MidStep
<1>10. ASSUME q[i].tok = "endop"
       PROVE  EndOpStep(q, cc, more, i, b, k, c)
  <2>1. PICK o, v :
        /\ p[o].tok \in Logic /\ OpenTo(p, o, i) /\ ~ NoMid(p, o, i)
        /\ \/ At(bb, b, k, Store(v, o)) /\ c = Ready(v) /\ <<i, b, k + 1, InVar(o)>> \in rel
           \/ At(bb, b, k, Jump(v)) /\ c = InVar(o) /\ <<i, v, 1, InVar(o)>> \in rel
           \/ At(bb, b, k, LoadFrom(o)) /\ c = InVar(o) /\ <<i + 1, b, k + 1, Ready(o)>> \in rel
    BY <1>2, <1>10 DEF Step, EndOpStep
  <2>2. o \in 1 .. Len(p) /\ i \in 1 .. Len(p) + 1
    BY <1>2, <2>1 DEF OpenTo
  <2>3. q[o] = p[o] /\ OpenTo(q, o, i) /\ ~ NoMid(q, o, i)
    BY <1>1, <2>1, <2>2, LongerOpen, LongerMid DEF Longer
  <2>4. \/ At(cc, b, k, Store(v, o)) /\ c = Ready(v) /\ <<i, b, k + 1, InVar(o)>> \in more
        \/ At(cc, b, k, Jump(v)) /\ c = InVar(o) /\ <<i, v, 1, InVar(o)>> \in more
        \/ At(cc, b, k, LoadFrom(o)) /\ c = InVar(o) /\ <<i + 1, b, k + 1, Ready(o)>> \in more
    BY <1>1, <2>1
  <2> QED
    BY <2>1, <2>3, <2>4 DEF EndOpStep
<1>11. ASSUME q[i].tok = "then"
       PROVE  ThenStep(q, t, cc, more, i, b, k, c)
  <2>1. \/ \E v, yes, no : /\ At(bb, b, k, Branch(v, yes, no)) /\ c = Ready(v)
                           /\ <<i + 1, yes, 1, Plain>> \in rel /\ Goes(p, s, rel, i, no)
        \/ \E e, end : /\ At(bb, b, k, Jump(end)) /\ c = Known(FALSE)
                       /\ NextIs(p, i, e) /\ <<e + 1, end, 1, Plain>> \in rel
    BY <1>2, <1>11 DEF Step, ThenStep
  <2>2. \/ \E v, yes, no : /\ At(cc, b, k, Branch(v, yes, no)) /\ c = Ready(v)
                           /\ <<i + 1, yes, 1, Plain>> \in more /\ Goes(q, t, more, i, no)
        \/ \E e, end : /\ At(cc, b, k, Jump(end)) /\ c = Known(FALSE)
                       /\ NextIs(q, i, e) /\ <<e + 1, end, 1, Plain>> \in more
    BY <1>1, <1>3, <1>6, <2>1
  <2> QED
    BY <2>2 DEF ThenStep
<1>12. q[i].tok = "else" => ElseStep(q, t, cc, more, i, b, k)
  BY <1>1, <1>2, <1>3 DEF Step, ElseStep
<1>13. q[i].tok \in {"endif", "while"} => OnStep(cc, more, i, b, k)
  BY <1>1, <1>2 DEF Step, OnStep
<1>14. ASSUME q[i].tok = "do"
       PROVE  DoStep(q, t, cc, more, i, b, k, c)
  <2>1. PICK v, body, end :
            /\ At(bb, b, k, Branch(v, body, end)) /\ c = Ready(v)
            /\ <<i + 1, body, 1, Plain>> \in rel /\ Goes(p, s, rel, i, end)
    BY <1>2, <1>14 DEF Step, DoStep
  <2>2. /\ At(cc, b, k, Branch(v, body, end))
        /\ <<i + 1, body, 1, Plain>> \in more /\ Goes(q, t, more, i, end)
    BY <1>1, <1>3, <2>1
  <2> QED
    BY <2>1, <2>2 DEF DoStep
<1>15. q[i].tok = "endwhile" => EndWhileStep(q, cc, more, i, b, k)
  BY <1>1, <1>2, <1>6 DEF Step, EndWhileStep
<1>16. q[i].tok = "break" => BreakStep(q, t, cc, more, i, b, k)
  BY <1>1, <1>2, <1>3, <1>5 DEF Step, BreakStep
<1>17. q[i].tok = "continue" => ContinueStep(q, cc, more, i, b, k)
  BY <1>1, <1>2, <1>5 DEF Step, ContinueStep
<1>18. q[i].tok = "return" => ReturnStep(vd, cc, b, k, c)
  BY <1>1, <1>2 DEF Step, ReturnStep
<1>19. q[i].tok = "endfunction" => (vd => At(cc, b, k, Return(None)))
  BY <1>1, <1>2 DEF Step
<1> QED
  BY <1>7, <1>8, <1>9, <1>10, <1>11, <1>12, <1>13, <1>14, <1>15, <1>16, <1>17, <1>18, <1>19 DEF Step

-----------------------------------------------------------------------------
(* One more node. *)

NoLogic(s) == \A d \in 1 .. Len(s) : s[d].kind \notin Logic

\* The node is logged at the depth d of the frame on top, or of one more; only that frame
\* changes, and all open nodes it does not close keep theirs.
Covers(s, t, tok, d) ==
    /\ Len(s) \in Nat /\ Len(t) \in Nat /\ d \in 1 .. Len(s) + 1 /\ d >= Len(s)
    /\ Len(t) = d \/ Len(t) = d - 1
    /\ \A x \in 1 .. d - 1 : t[x] = s[x]
    /\ d = Len(s) => \A tk : Fits(s[d], tk) /\ tok \notin Closers(tk) =>
          Len(t) = d /\ Fits(t[d], tk) /\ Target(t[d], tk) = Target(s[d], tk)
    /\ Closers(tok) # {} => Len(t) = d /\ Fits(t[d], tok)
    /\ tok \notin ExpToks => NoLogic(s)
    /\ tok \in Logic \cup {"while"} => d = Len(s) + 1

\* What the node closes is closed where it should be.
Lands(p, s, q, more, tok, d) ==
    \A j \in 1 .. Len(p) :
        OpenTo(p, j, Len(p) + 1) /\ p[j].depth = d /\ d = Len(s) /\ tok \in Closers(p[j].tok) =>
            Landed(q, more, j, Len(q), Target(s[d], p[j].tok))

LEMMA OpenIsCovered ==
    ASSUME NEW p, NEW s, LogOK(p, s), NEW tok, NEW d, NEW t, Covers(s, t, tok, d),
           NEW j \in 1 .. Len(p), OpenTo(p, j, Len(p) + 1),
           ~ (d = p[j].depth /\ tok \in Closers(p[j].tok))
    PROVE  /\ p[j].depth \in 1 .. Len(s) /\ p[j].depth \in 1 .. Len(t)
           /\ Fits(t[p[j].depth], p[j].tok)
           /\ Target(t[p[j].depth], p[j].tok) = Target(s[p[j].depth], p[j].tok)
<1>1. PICK x, tk : x = p[j].depth /\ tk = p[j].tok
  OBVIOUS
<1>2. x \in 1 .. Len(s) /\ Fits(s[x], tk)
  BY <1>1 DEF LogOK
<1>3. /\ Len(s) \in Nat /\ Len(t) \in Nat /\ d \in 1 .. Len(s) + 1 /\ d >= Len(s)
      /\ Len(t) = d \/ Len(t) = d - 1
      /\ \A y \in 1 .. d - 1 : t[y] = s[y]
      /\ d = Len(s) => \A y : Fits(s[d], y) /\ tok \notin Closers(y) =>
            Len(t) = d /\ Fits(t[d], y) /\ Target(t[d], y) = Target(s[d], y)
  BY DEF Covers
<1>4. CASE x = d
  <2>1. d = Len(s) /\ tok \notin Closers(tk)
    BY <1>1, <1>2, <1>3, <1>4
  <2>2. Len(t) = d /\ Fits(t[d], tk) /\ Target(t[d], tk) = Target(s[d], tk)
    BY <1>2, <1>3, <1>4, <2>1
  <2> QED
    BY <1>1, <1>2, <1>3, <1>4, <2>2
<1>5. CASE x # d
  <2>1. x \in 1 .. d - 1 /\ x \in 1 .. Len(t)
    BY <1>2, <1>3, <1>5
  <2> QED
    BY <1>1, <1>2, <1>3, <2>1
<1> QED
  BY <1>4, <1>5

LEMMA LogGoesOn ==
    ASSUME NEW p, NEW s, LogOK(p, s), NEW tok, NEW d, NEW q, Node1(p, q, tok, d),
           NEW t, Covers(s, t, tok, d)
    PROVE  LogOK(q, t)
<1>1. PICK n \in Nat : n = Len(p)
  BY DEF Node1, Longer
<1>2. /\ Longer(p, q) /\ Len(q) = n + 1 /\ \A j \in 1 .. n : q[j] = p[j]
      /\ q[n + 1].tok = tok /\ q[n + 1].depth = d
  BY <1>1 DEF Node1, Longer
<1>3. /\ \A x \in 1 .. n + 1 : x \in 1 .. n \/ x = n + 1
      /\ \A x \in 1 .. n : x \in 1 .. n + 1
      /\ n + 1 \in 1 .. n + 1
  BY <1>1
<1>4. \A j \in 1 .. n : OpenTo(q, j, n + 2) =>
         OpenTo(p, j, n + 1) /\ ~ (d = p[j].depth /\ tok \in Closers(p[j].tok))
  <2>1. Len(q) + 1 = n + 2 /\ Len(p) + 1 = n + 1
    BY <1>1, <1>2
  <2> QED
    BY <1>1, <2>1, OneMoreNode
<1>5. /\ OpenTo(q, n + 1, n + 2) <=> Closers(tok) # {}
  <2>1. Len(q) + 1 = n + 2 /\ Len(q) = n + 1
    BY <1>1, <1>2
  <2> QED
    BY <2>1, NewNodeIsOpen
<1>6. ASSUME NEW j \in 1 .. n + 1, OpenTo(q, j, n + 2)
      PROVE  q[j].depth \in 1 .. Len(t) /\ Fits(t[q[j].depth], q[j].tok)
  <2>1. CASE j \in 1 .. n
    <3>1. OpenTo(p, j, Len(p) + 1) /\ ~ (d = p[j].depth /\ tok \in Closers(p[j].tok)) /\ q[j] = p[j]
      BY <1>1, <1>2, <1>4, <1>6, <2>1
    <3> QED
      BY <1>1, <2>1, <3>1, OpenIsCovered
  <2>2. CASE j = n + 1
    <3>1. Closers(tok) # {}
      BY <1>5, <1>6, <2>2
    <3>2. Len(t) = d /\ Fits(t[d], tok) /\ d \in 1 .. Len(s) + 1 /\ Len(s) \in Nat
      BY <3>1 DEF Covers
    <3> QED
      BY <1>2, <2>2, <3>2
  <2> QED
    BY <1>3, <2>1, <2>2
<1>7. \A j : OpenTo(q, j, n + 1) => OpenTo(p, j, n + 1) /\ j \in 1 .. n
  <2>1. n + 1 \in 1 .. Len(p) + 1 /\ (n + 1) - 1 = n
    BY <1>1
  <2>2. \A j : OpenTo(q, j, n + 1) => j \in 1 .. n
    BY <2>1 DEF OpenTo
  <2> QED
    BY <1>2, <2>1, <2>2, LongerOpen
<1>8. \A j : \A k \in 1 .. n : OpenTo(q, j, k) => OpenTo(p, j, k) /\ j \in 1 .. n
  <2>1. \A k \in 1 .. n : k \in 1 .. Len(p) + 1
    BY <1>1
  <2>2. \A j : \A k \in 1 .. n : OpenTo(q, j, k) => j \in 1 .. n
    BY <1>1 DEF OpenTo
  <2> QED
    BY <1>2, <2>1, <2>2, LongerOpen
<1>9. \A j \in 1 .. n : OpenTo(p, j, n + 1) =>
         p[j].depth \in 1 .. Len(s) /\ Fits(s[p[j].depth], p[j].tok)
  BY <1>1 DEF LogOK
<1>10. ASSUME NEW j \in 1 .. n + 1, NEW k \in 1 .. n + 1, OpenTo(q, j, k)
       PROVE  /\ q[k].depth >= q[j].depth
              /\ q[k].tok \in Logic \cup {"while"} => q[k].depth > q[j].depth
  <2>1. CASE k \in 1 .. n
    <3>1. OpenTo(p, j, k) /\ j \in 1 .. n /\ k \in 1 .. n
      BY <1>8, <1>10, <2>1
    <3>2. /\ p[k].depth >= p[j].depth
          /\ p[k].tok \in Logic \cup {"while"} => p[k].depth > p[j].depth
      BY <1>1, <3>1 DEF LogOK
    <3> QED
      BY <1>2, <3>1, <3>2
  <2>2. CASE k = n + 1
    <3>1. OpenTo(p, j, n + 1) /\ j \in 1 .. n
      BY <1>7, <1>10, <2>2
    <3>2. p[j].depth \in 1 .. Len(s)
      BY <1>9, <3>1
    <3>3. /\ Len(s) \in Nat /\ d \in 1 .. Len(s) + 1 /\ d >= Len(s)
          /\ tok \in Logic \cup {"while"} => d = Len(s) + 1
      BY DEF Covers
    <3>4. d >= p[j].depth /\ (tok \in Logic \cup {"while"} => d > p[j].depth)
      BY <3>2, <3>3
    <3> QED
      BY <1>2, <2>2, <3>1, <3>4
  <2> QED
    BY <1>3, <2>1, <2>2
<1>11. ASSUME NEW o \in 1 .. n + 1, NEW i \in 1 .. n + 1,
              q[i].tok \notin ExpToks, q[o].tok \in Logic, OpenTo(q, o, i)
       PROVE  FALSE
  <2>1. CASE i \in 1 .. n
    <3>1. OpenTo(p, o, i) /\ o \in 1 .. n /\ i \in 1 .. n
      BY <1>8, <1>11, <2>1
    <3>2. p[i].tok \notin ExpToks /\ p[o].tok \in Logic
      BY <1>2, <1>11, <3>1
    <3> QED
      BY <1>1, <3>1, <3>2 DEF LogOK
  <2>2. CASE i = n + 1
    <3>1. OpenTo(p, o, n + 1) /\ o \in 1 .. n
      BY <1>7, <1>11, <2>2
    <3>2. p[o].depth \in 1 .. Len(s) /\ Fits(s[p[o].depth], p[o].tok) /\ p[o].tok \in Logic
      BY <1>2, <1>9, <1>11, <3>1
    <3>3. s[p[o].depth].kind \in Logic
      BY <3>2 DEF Fits, Logic
    <3>4. NoLogic(s)
      BY <1>2, <1>11, <2>2 DEF Covers
    <3> QED
      BY <3>2, <3>3, <3>4 DEF NoLogic
  <2> QED
    BY <1>3, <2>1, <2>2
<1>12. ASSUME NEW j \in 1 .. n + 1, Closers(q[j].tok) # {}
       PROVE  OpenTo(q, j, n + 2) \/ \E e \in 1 .. n + 1 : NextIs(q, j, e)
  <2>1. CASE j \in 1 .. n
    <3>1. OpenTo(p, j, n + 1) \/ \E e \in 1 .. n : NextIs(p, j, e)
      BY <1>1, <1>2, <1>12, <2>1 DEF LogOK
    <3>2. CASE \E e \in 1 .. n : NextIs(p, j, e)
      BY <1>2, <1>3, <3>2, LongerNext
    <3>3. CASE OpenTo(p, j, n + 1)
      <4>1. Len(q) + 1 = n + 2 /\ Len(p) + 1 = n + 1 /\ Len(q) = n + 1 /\ j \in 1 .. Len(p)
        BY <1>1, <1>2, <2>1
      <4>2. OpenTo(q, j, n + 2) \/ NextIs(q, j, n + 1)
        BY <3>3, <4>1, OneMoreNode
      <4> QED
        BY <1>3, <4>2
    <3> QED
      BY <3>1, <3>2, <3>3
  <2>2. CASE j = n + 1
    BY <1>2, <1>5, <1>12, <2>2
  <2> QED
    BY <1>3, <2>1, <2>2
<1>13. Len(q) + 1 = n + 2 /\ Len(q) = n + 1
  BY <1>1, <1>2
<1> QED
  BY <1>6, <1>10, <1>11, <1>12, <1>13 DEF LogOK

LEMMA AllCarried ==
    ASSUME NEW p, NEW s, LogOK(p, s), NEW tok, NEW d, NEW q, Node1(p, q, tok, d),
           NEW t, Covers(s, t, tok, d), NEW more, Lands(p, s, q, more, tok, d)
    PROVE  Carried(p, s, q, t, more)
<1> SUFFICES ASSUME NEW j \in 1 .. Len(p), OpenTo(p, j, Len(p) + 1), p[j].depth \in 1 .. Len(s)
             PROVE  \/ /\ OpenTo(q, j, Len(q) + 1) /\ p[j].depth \in 1 .. Len(t)
                       /\ Target(t[p[j].depth], p[j].tok) = Target(s[p[j].depth], p[j].tok)
                    \/ \E e : NextIs(q, j, e) /\ Landed(q, more, j, e, Target(s[p[j].depth], p[j].tok))
  BY DEF Carried
<1>1. CASE d = p[j].depth /\ tok \in Closers(p[j].tok)
  <2>1. NextIs(q, j, Len(q))
    BY <1>1, OneMoreNode
  <2>2. d = Len(s)
    BY <1>1 DEF Covers
  <2>3. Landed(q, more, j, Len(q), Target(s[d], p[j].tok))
    BY <1>1, <2>2 DEF Lands
  <2> QED
    BY <1>1, <2>1, <2>3
<1>2. CASE ~ (d = p[j].depth /\ tok \in Closers(p[j].tok))
  <2>1. OpenTo(q, j, Len(q) + 1)
    BY <1>2, OneMoreNode
  <2> QED
    BY <1>2, <2>1, OpenIsCovered
<1> QED
  BY <1>1, <1>2

\* A frame keeps its nodes.
LEMMA FrameKept ==
    ASSUME NEW p, NEW tok, NEW d, NEW q, Node1(p, q, tok, d), NEW rel, NEW more, rel \subseteq more,
           NEW f, NEW x, FrameOK(p, f, x, rel), x = d => tok \notin {"mid", "endop", "endwhile"}
    PROVE  FrameOK(q, f, x, more)
<1>1. f.kind \in Logic => LogicFrame(q, f, x)
  BY LogicFrameKept DEF FrameOK
<1>2. ASSUME f.kind = "while"
      PROVE  LoopFrame(q, f, x, more)
  <2>1. PICK j \in 1 .. Len(p) : /\ p[j].tok = "while" /\ p[j].depth = x /\ OpenTo(p, j, Len(p) + 1)
                                 /\ <<j + 1, f.cond, 1, Plain>> \in rel
    BY <1>2 DEF FrameOK, LoopFrame
  <2>2. j \in 1 .. Len(q) /\ q[j] = p[j]
    BY DEF Node1, Longer
  <2>3. ~ (d = p[j].depth /\ tok \in Closers(p[j].tok))
    BY <2>1 DEF Closers, Logic
  <2>4. OpenTo(q, j, Len(q) + 1)
    BY <2>1, <2>3, OneMoreNode
  <2> QED
    BY <2>1, <2>2, <2>4 DEF LoopFrame
<1> QED
  BY <1>1, <1>2 DEF FrameOK

\* Where the pass goes on.
NewFront(q, t, cc, curr, dn, ex) ==
    IF t = <<>> \/ Terminated(cc[curr]) THEN {}
    ELSE {<<Len(q) + 1, curr, Len(cc[curr]) + 1, IF dn = "exp" THEN Ready(ex) ELSE Plain>>}

\* The new node does what the instructions do that were emitted for it.
NodeStep(s, vd, bb, curr, dn, ex, q, t, cc, more) ==
    \A c : ~ Terminated(bb[curr]) /\ (dn = "exp" => c = Ready(ex)) =>
        Step(q, t, vd, cc, more, Len(q), curr, Len(bb[curr]) + 1, c)

ExtraSteps(vd, q, t, cc, more, extra) ==
    \A i, b, k, c : <<i, b, k, c>> \in extra =>
        i \in 1 .. Len(q) /\ Step(q, t, vd, cc, more, i, b, k, c)

LEMMA MatchGoesOn ==
    ASSUME NEW p, NEW s, NEW vd, NEW bb, NEW curr, NEW dn, NEW ex, NEW rel,
           Match(p, s, vd, bb, curr, dn, ex, rel), IsBlocks(bb),
           NEW tok, NEW d, NEW q, Node1(p, q, tok, d),
           NEW t, Covers(s, t, tok, d),
           NEW cc, IsBlocks(cc), Extends(bb, cc), NEW curr2, NEW dn2, NEW ex2,
           NEW extra, NEW more, more = rel \cup extra \cup NewFront(q, t, cc, curr2, dn2, ex2),
           Lands(p, s, q, more, tok, d),
           Len(t) = d => FrameOK(q, t[d], d, more),
           NodeStep(s, vd, bb, curr, dn, ex, q, t, cc, more),
           ExtraSteps(vd, q, t, cc, more, extra)
    PROVE  Match(q, t, vd, cc, curr2, dn2, ex2, more)
<1>1. PICK n \in Nat : n = Len(p)
  BY DEF Node1, Longer
<1>2. Len(q) = n + 1 /\ Longer(p, q)
  BY <1>1 DEF Node1
<1>3. rel \subseteq more
  OBVIOUS
<1>4. LogOK(p, s) /\ LogOK(q, t)
  BY LogGoesOn DEF Match
<1>5. Growing(p, s, bb, rel, q, t, cc, more)
  BY <1>2, <1>3, <1>4, AllCarried DEF Growing
<1>6. ASSUME NEW x \in 1 .. Len(t)
      PROVE  FrameOK(q, t[x], x, more)
  <2>1. /\ Len(s) \in Nat /\ Len(t) \in Nat /\ d \in 1 .. Len(s) + 1 /\ d >= Len(s)
        /\ Len(t) = d \/ Len(t) = d - 1
        /\ \A y \in 1 .. d - 1 : t[y] = s[y]
    BY DEF Covers
  <2>2. CASE x = d
    BY <2>1, <2>2
  <2>3. CASE x # d
    <3>1. x \in 1 .. Len(s) /\ t[x] = s[x]
      BY <2>1, <2>3
    <3>2. FrameOK(p, s[x], x, rel)
      BY <3>1 DEF Match
    <3> QED
      BY <1>3, <2>3, <3>1, <3>2, FrameKept
  <2> QED
    BY <2>2, <2>3
<1>7. ASSUME NEW i, NEW b, NEW k, NEW c, <<i, b, k, c>> \in more
      PROVE  \/ i \in 1 .. n + 1 /\ Step(q, t, vd, cc, more, i, b, k, c)
             \/ <<i, b, k, c>> \in NewFront(q, t, cc, curr2, dn2, ex2)
  <2>1. CASE <<i, b, k, c>> \in extra
    BY <1>2, <2>1 DEF ExtraSteps
  <2>2. CASE <<i, b, k, c>> \in rel
    <3>1. \/ i \in 1 .. n
          \/ /\ i = n + 1 /\ ~ Terminated(bb[curr])
             /\ b = curr /\ k = Len(bb[curr]) + 1 /\ (dn = "exp" => c = Ready(ex))
      BY <1>1, <2>2 DEF Match, AtFront
    <3>2. CASE i \in 1 .. n
      <4>1. Step(p, s, vd, bb, rel, i, b, k, c)
        BY <1>1, <2>2, <3>2 DEF Match, Matched
      <4>2. Step(q, t, vd, cc, more, i, b, k, c)
        BY <1>1, <1>5, <3>2, <4>1, StepStays
      <4> QED
        BY <1>1, <3>2, <4>2
    <3>3. CASE i \notin 1 .. n
      <4>1. Step(q, t, vd, cc, more, Len(q), curr, Len(bb[curr]) + 1, c)
        BY <3>1, <3>3 DEF NodeStep
      <4>2. i = Len(q) /\ b = curr /\ k = Len(bb[curr]) + 1 /\ i \in 1 .. n + 1
        BY <1>1, <1>2, <3>1, <3>3
      <4> QED
        BY <4>1, <4>2
    <3> QED
      BY <3>2, <3>3
  <2> QED
    BY <1>7, <2>1, <2>2
<1>8. Matched(q, t, vd, cc, more)
  <2>1. SUFFICES ASSUME NEW i, NEW b, NEW k, NEW c, <<i, b, k, c>> \in more, i \in 1 .. n + 1
                 PROVE  Step(q, t, vd, cc, more, i, b, k, c)
    BY <1>2 DEF Matched
  <2>2. <<i, b, k, c>> \notin NewFront(q, t, cc, curr2, dn2, ex2)
    BY <1>2, <2>1 DEF NewFront
  <2> QED
    BY <1>7, <2>1, <2>2
<1>9. AtFront(q, t, cc, curr2, dn2, ex2, more)
  <2>1. SUFFICES ASSUME NEW i, NEW b, NEW k, NEW c, <<i, b, k, c>> \in more, i \notin 1 .. n + 1
                 PROVE  /\ i = Len(q) + 1 /\ t # <<>> /\ ~ Terminated(cc[curr2])
                        /\ b = curr2 /\ k = Len(cc[curr2]) + 1 /\ (dn2 = "exp" => c = Ready(ex2))
    BY <1>2 DEF AtFront
  <2>2. <<i, b, k, c>> \in NewFront(q, t, cc, curr2, dn2, ex2)
    BY <1>7, <2>1
  <2> QED
    BY <2>2 DEF NewFront
<1>10. <<1, Entry, 1, Plain>> \in more
  BY <1>3 DEF Match
<1> QED
  BY <1>4, <1>6, <1>8, <1>9, <1>10 DEF Match

-----------------------------------------------------------------------------
(* The actions and the match. *)

\* Calls and returns that have nothing to do with the log.
LEMMA MatchStays ==
    ASSUME NEW p, Len(p) \in Nat, NEW s, NEW vd, NEW bb, IsBlocks(bb), NEW curr, NEW dn, NEW ex, NEW rel,
           Match(p, s, vd, bb, curr, dn, ex, rel),
           NEW t, t # <<>>,
           \A d \in 1 .. Len(s) : \A tk : Fits(s[d], tk) => d \in 1 .. Len(t) /\ t[d] = s[d],
           \A d \in 1 .. Len(t) : t[d].kind \in Logic \cup {"while"} => d \in 1 .. Len(s) /\ t[d] = s[d],
           NEW dn2, dn2 # "exp", NEW ex2
    PROVE  Match(p, t, vd, bb, curr, dn2, ex2, rel)
<1>1. LogOK(p, s) /\ LogOK(p, t)
  <2>1. LogOK(p, s)
    BY DEF Match
  <2>2. \A j \in 1 .. Len(p) : OpenTo(p, j, Len(p) + 1) =>
          p[j].depth \in 1 .. Len(s) /\ Fits(s[p[j].depth], p[j].tok)
    BY <2>1 DEF LogOK
  <2>3. \A j \in 1 .. Len(p) : OpenTo(p, j, Len(p) + 1) =>
          p[j].depth \in 1 .. Len(t) /\ Fits(t[p[j].depth], p[j].tok)
    BY <2>2
  <2> QED
    BY <2>1, <2>3 DEF LogOK
<1>2. Growing(p, s, bb, rel, p, t, bb, rel)
  <2>1. Longer(p, p)
    BY DEF Longer
  <2>2. \A j \in 1 .. Len(p) : OpenTo(p, j, Len(p) + 1) => Fits(s[p[j].depth], p[j].tok)
    BY <1>1 DEF LogOK
  <2>3. Carried(p, s, p, t, rel)
    BY <2>2 DEF Carried
  <2> QED
    BY <2>1, <2>3, ExtendsItself DEF Growing
<1>3. Matched(p, t, vd, bb, rel)
  BY <1>2, StepStays DEF Match, Matched
<1>4. \A d \in 1 .. Len(t) : FrameOK(p, t[d], d, rel)
  BY DEF Match, FrameOK
<1>5. AtFront(p, t, bb, curr, dn2, ex2, rel)
  BY DEF Match, AtFront
<1> QED
  BY <1>1, <1>3, <1>4, <1>5 DEF Match

LEMMA Context ==
    ASSUME Pass, stack # <<>>
    PROVE  /\ prog \in Seq(ANode) /\ Len(prog) \in Nat
           /\ stack \in Seq(Frame) /\ Len(stack) \in Nat \ {0} /\ Stacked(stack)
           /\ Top = stack[Len(stack)] /\ Top \in Frame
           /\ IsBlocks(blocks) /\ m.curr \in 1 .. Len(blocks) /\ Len(blocks) \in Nat
           /\ OpenEnded(blocks, m.curr)
<1>1. prog \in Seq(ANode) /\ stack \in Seq(Frame) /\ IsBlocks(blocks) /\ Stacked(stack)
  BY DEF Pass, Typed
<1>2. Len(prog) \in Nat /\ Len(stack) \in Nat \ {0} /\ Top = stack[Len(stack)] /\ Top \in Frame
  BY <1>1 DEF Top, Last
<1>3. m.curr \in 1 .. Len(blocks) /\ OpenEnded(blocks, m.curr)
  BY DEF Pass, Reserved
<1> QED
  BY <1>1, <1>2, <1>3, BlocksAre

Matching == \E rel : Match(prog, stack, void, blocks, m.curr, done, exp, rel)

LEMMA NothingFits ==
    /\ \A f, tk : f.kind \in {"block", "exp", "return"} => ~ Fits(f, tk)
    /\ \A f, tk : f.kind = "if" /\ f.stage = "cond" => ~ Fits(f, tk)
BY DEF Fits, Logic

LEMMA CallsMatch ==
    ASSUME Pass, stack # <<>>, Matching, ExpStmt \/ Open \/ ReturnExp \/ If
    PROVE  Matching'
<1>1. PICK rel : Match(prog, stack, void, blocks, m.curr, done, exp, rel)
  BY DEF Matching
<1>2. Len(prog) \in Nat /\ stack \in Seq(Frame) /\ IsSeq(stack) /\ IsBlocks(blocks)
  BY Context, SeqIs
<1>3. PICK f : /\ f.kind \in {"block", "exp", "return", "if"}
               /\ Pushed(stack', stack, f)
  BY DEF ExpStmt, Open, ReturnExp, If, Push, Pushed
<1>4. /\ stack' # <<>> /\ Len(stack') = Len(stack) + 1 /\ Len(stack) \in Nat
      /\ stack'[Len(stack) + 1] = f /\ \A d \in 1 .. Len(stack) : stack'[d] = stack[d]
  BY ONLY <1>2, <1>3, PushedIs
<1>5. /\ prog' = prog /\ void' = void /\ blocks' = blocks /\ m' = m
      /\ done' # "exp"
  BY DEF ExpStmt, Open, ReturnExp, If, Push
<1>6. \A d \in 1 .. Len(stack) : d \in 1 .. Len(stack') /\ stack'[d] = stack[d]
  BY <1>4
<1>7. \A d \in 1 .. Len(stack') : stack'[d].kind \in Logic \cup {"while"} =>
          d \in 1 .. Len(stack) /\ stack'[d] = stack[d]
  <2>1. \A d \in 1 .. Len(stack') : d \in 1 .. Len(stack) \/ d = Len(stack) + 1
    BY <1>4
  <2> QED
    BY <1>3, <1>4, <2>1 DEF Logic
<1>8. Match(prog, stack', void, blocks, m.curr, done', exp', rel)
  BY <1>1, <1>2, <1>4, <1>5, <1>6, <1>7, MatchStays
<1> QED
  BY <1>5, <1>8 DEF Matching

LEMMA ReturnsMatch ==
    ASSUME Pass, stack # <<>>, Matching, EndExpStmt \/ Close
    PROVE  Matching'
<1>1. PICK rel : Match(prog, stack, void, blocks, m.curr, done, exp, rel)
  BY DEF Matching
<1>2. /\ Len(prog) \in Nat /\ stack \in Seq(Frame) /\ IsBlocks(blocks)
      /\ Top = stack[Len(stack)] /\ Len(stack) \in Nat \ {0} /\ Stacked(stack)
  BY Context
<1>3. Top.kind \in {"block", "exp"} /\ stack' = Front(stack)
  BY DEF EndExpStmt, Close, Pop, Resumes
<1>4. Len(stack') = Len(stack) - 1 /\ \A d \in 1 .. Len(stack) - 1 : stack'[d] = stack[d]
  BY <1>2, <1>3, FrontIs
<1>5. stack' # <<>>
  <2>1. Len(stack) > 1
    <3>1. CASE Close
      BY <3>1 DEF Close
    <3>2. CASE EndExpStmt
      <4>1. stack[1].kind = "block" /\ Top.kind = "exp"
        BY <1>2, <3>2, NotEmptyIs DEF Stacked, EndExpStmt, Resumes
      <4> QED
        BY <1>2, <4>1
    <3> QED
      BY <3>1, <3>2
  <2> QED
    BY <1>2, <1>4, <2>1
<1>6. /\ prog' = prog /\ void' = void /\ blocks' = blocks /\ m'.curr = m.curr
      /\ done' # "exp"
  <2>1. m \in [curr : Nat, cond : Nat, end : Nat, returned : BOOLEAN]
    BY DEF Pass, Typed
  <2> QED
    BY <2>1 DEF EndExpStmt, Close, Pop
<1>7. \A d \in 1 .. Len(stack) : \A tk : Fits(stack[d], tk) =>
          d \in 1 .. Len(stack') /\ stack'[d] = stack[d]
  <2>1. \A tk : ~ Fits(stack[Len(stack)], tk)
    <3>1. PICK f : f = stack[Len(stack)]
      OBVIOUS
    <3>2. f.kind \in {"block", "exp", "return"}
      BY <1>2, <1>3, <3>1
    <3>3. \A tk : ~ Fits(f, tk)
      BY <3>2, NothingFits
    <3> QED
      BY <3>1, <3>3
  <2>2. \A d \in 1 .. Len(stack) : d = Len(stack) \/ d \in 1 .. Len(stack) - 1
    BY <1>2
  <2> QED
    BY <1>4, <2>1, <2>2
<1>8. \A d \in 1 .. Len(stack') : d \in 1 .. Len(stack) /\ stack'[d] = stack[d]
  BY <1>2, <1>4
<1>9. Match(prog, stack', void, blocks, m.curr, done', exp', rel)
  BY <1>1, <1>2, <1>5, <1>6, <1>7, <1>8, MatchStays
<1> QED
  BY <1>6, <1>9 DEF Matching

LEMMA SemiMatches ==
    ASSUME Pass, stack # <<>>, Matching, Semi
    PROVE  Matching'
<1>1. PICK rel : Match(prog, stack, void, blocks, m.curr, done, exp, rel)
  BY DEF Matching
<1>2. Len(prog) \in Nat /\ IsBlocks(blocks)
  BY Context
<1>3. /\ prog' = prog /\ void' = void /\ blocks' = blocks /\ m' = m /\ stack' = stack
      /\ done' # "exp"
  BY DEF Semi
<1>4. Match(prog, stack, void, blocks, m.curr, done', exp', rel)
  BY <1>1, <1>2, <1>3, MatchStays
<1> QED
  BY <1>3, <1>4 DEF Matching

LEMMA EmittedHere ==
    ASSUME NEW bb, IsBlocks(bb), NEW b \in 1 .. Len(bb), NEW inst, NEW cc, EmittedAt(bb, cc, b, inst)
    PROVE  /\ ~ Terminated(bb[b]) => /\ At(cc, b, Len(bb[b]) + 1, inst)
                                     /\ Len(cc[b]) = Len(bb[b]) + 1
                                     /\ Terminated(cc[b]) <=> IsTerminator(inst)
           /\ Terminated(bb[b]) => cc[b] = bb[b]
           /\ IsBlocks(cc) /\ Len(cc) = Len(bb) /\ Extends(bb, cc)
           /\ \A x \in 1 .. Len(bb) : x # b => cc[x] = bb[x]
           /\ Len(bb[b]) \in Nat
<1>1. /\ IsBlocks(cc) /\ Len(cc) = Len(bb) /\ Extends(bb, cc)
      /\ \A x \in 1 .. Len(bb) : x # b => cc[x] = bb[x]
  BY EmittedExtends DEF EmittedAt
<1>2. PICK old, more : old = bb[b] /\ more = cc[b]
  OBVIOUS
<1>3. IsSeq(old) /\ Len(old) \in Nat /\ Emitted(old, more, inst)
  BY <1>2, BlocksAre DEF EmittedAt
<1>4. ASSUME ~ Terminated(old)
      PROVE  /\ Len(more) = Len(old) + 1 /\ more[Len(old) + 1] = inst
             /\ Terminated(more) <=> IsTerminator(inst)
  <2>1. Pushed(more, old, inst)
    BY <1>3, <1>4 DEF Emitted
  <2>2. Len(more) = Len(old) + 1 /\ more[Len(old) + 1] = inst /\ more # <<>> /\ Last(more) = inst
    BY <1>3, <2>1, PushedIs
  <2> QED
    BY <2>2 DEF Terminated
<1>5. Terminated(old) => more = old
  BY <1>3 DEF Emitted
<1>6. ~ Terminated(old) => At(cc, b, Len(old) + 1, inst)
  BY <1>1, <1>2, <1>3, <1>4 DEF At
<1> QED
  BY <1>1, <1>2, <1>3, <1>4, <1>5, <1>6

LEMMA NodeIsLogged ==
    ASSUME Typed, NEW tok
    PROVE  /\ Log(tok) => Node1(prog, prog', tok, Len(stack))
           /\ LogIn(tok) => Node1(prog, prog', tok, Len(stack) + 1)
           /\ Here = Len(prog) + 1
<1>1. prog \in Seq(ANode) /\ IsSeq(prog)
  BY SeqIs DEF Typed
<1>2. ASSUME NEW d, NEW node, node = [tok |-> tok, depth |-> d], Pushed(prog', prog, node)
      PROVE  Node1(prog, prog', tok, d)
  <2>1. /\ Len(prog') = Len(prog) + 1 /\ Len(prog) \in Nat /\ prog'[Len(prog) + 1] = node
        /\ \A i \in 1 .. Len(prog) : prog'[i] = prog[i]
    BY <1>1, <1>2, PushedIs
  <2>2. node.tok = tok /\ node.depth = d
    BY <1>2
  <2> QED
    BY <2>1, <2>2 DEF Node1, Longer
<1>3. Log(tok) => Node1(prog, prog', tok, Len(stack))
  BY <1>2 DEF Log, Pushed
<1>4. LogIn(tok) => Node1(prog, prog', tok, Len(stack) + 1)
  BY <1>2 DEF LogIn, Pushed
<1> QED
  BY <1>3, <1>4 DEF Here

LEMMA WhatCloses ==
    /\ \A tk : "endop" \in Closers(tk) <=> tk \in {"and", "or", "mid"}
    /\ \A tk : "else" \in Closers(tk) <=> tk = "then"
    /\ \A tk : "endif" \in Closers(tk) <=> tk \in {"then", "else"}
    /\ \A tk : "endwhile" \in Closers(tk) <=> tk \in {"while", "do"}
    /\ \A tk : \A tok \in {"eval", "and", "or", "mid", "return", "then", "while", "do",
                           "break", "continue", "endfunction"} : tok \notin Closers(tk)
    /\ \A tok \in {"eval", "return", "break", "continue", "endop", "endif", "endwhile",
                   "endfunction"} : Closers(tok) = {}
BY DEF Closers, Logic

LEMMA NoLogicBelow ==
    ASSUME NEW s \in Seq(Frame), s # <<>>, Stacked(s), s[Len(s)].kind \notin Logic
    PROVE  NoLogic(s)
<1> SUFFICES ASSUME NEW d \in 1 .. Len(s), s[d].kind \in Logic
             PROVE  FALSE
  BY DEF NoLogic
<1>1. Len(s) \in 1 .. Len(s) /\ d < Len(s) /\ s[d] \in Frame
  OBVIOUS
<1>2. s[d].stage \in ExpStages
  BY <1>1, FramesAre DEF ExpStages
<1> QED
  BY <1>1, <1>2 DEF Stacked

\* The stack is the same,
LEMMA CoversSame ==
    ASSUME NEW s, Len(s) \in Nat \ {0}, NEW tok \in {"eval", "return", "break", "continue"},
           tok # "eval" => NoLogic(s)
    PROVE  Covers(s, s, tok, Len(s))
<1>1. Closers(tok) = {} /\ tok \notin Logic \cup {"while"} /\ (tok = "eval" => tok \in ExpToks)
  BY WhatCloses DEF Logic, ExpToks
<1>2. Len(s) \in 1 .. Len(s) + 1 /\ Len(s) \in Nat
  OBVIOUS
<1> QED
  BY <1>1, <1>2 DEF Covers

\* has lost its last frame,
LEMMA CoversPopped ==
    ASSUME NEW S, NEW s \in Seq(S), s # <<>>, NEW t, t = Front(s), NEW tok, Closers(tok) = {},
           tok \notin Logic \cup {"while"}, tok \notin ExpToks => NoLogic(s),
           \A tk : Fits(s[Len(s)], tk) => tok \in Closers(tk)
    PROVE  Covers(s, t, tok, Len(s))
<1>1. Len(t) = Len(s) - 1 /\ Len(s) \in Nat \ {0} /\ \A x \in 1 .. Len(s) - 1 : t[x] = s[x]
  BY FrontIs
<1>2. Len(s) \in 1 .. Len(s) + 1 /\ Len(t) \in Nat
  BY <1>1
<1> QED
  BY <1>1, <1>2 DEF Covers

\* or another last frame.
LEMMA CoversReplaced ==
    ASSUME NEW S, NEW s \in Seq(S), s # <<>>, NEW g, NEW u, u = Front(s), NEW t, Pushed(t, u, g), NEW tok,
           tok \notin Logic \cup {"while"}, tok \notin ExpToks => NoLogic(s),
           \A tk : Fits(s[Len(s)], tk) /\ tok \notin Closers(tk) =>
                      Fits(g, tk) /\ Target(g, tk) = Target(s[Len(s)], tk),
           Closers(tok) # {} => Fits(g, tok)
    PROVE  Covers(s, t, tok, Len(s)) /\ t[Len(s)] = g /\ t # <<>> /\ Len(t) = Len(s)
<1>1. /\ u \in Seq(S) /\ Len(u) = Len(s) - 1 /\ Len(s) \in Nat \ {0}
      /\ \A x \in 1 .. Len(s) - 1 : u[x] = s[x]
  BY FrontIs
<1>2. /\ Len(t) = Len(u) + 1 /\ t[Len(u) + 1] = g /\ t # <<>> /\ \A x \in 1 .. Len(u) : t[x] = u[x]
  BY <1>1, SeqIs, PushedIs
<1>3. /\ Len(t) = Len(s) /\ t[Len(s)] = g /\ \A x \in 1 .. Len(s) - 1 : t[x] = s[x]
      /\ Len(s) \in 1 .. Len(s) + 1
  BY <1>1, <1>2
<1> QED
  BY <1>1, <1>2, <1>3 DEF Covers

\* A node that closes nothing.
LEMMA ClosesNothing ==
    ASSUME NEW tok \in {"eval", "and", "or", "mid", "return", "then", "while", "do",
                        "break", "continue", "endfunction"},
           NEW p, NEW s, NEW q, NEW more, NEW d
    PROVE  Lands(p, s, q, more, tok, d)
BY WhatCloses DEF Lands

LEMMA FrameStays ==
    ASSUME NEW p, NEW s, NEW vd, NEW bb, NEW curr, NEW dn, NEW ex, NEW rel,
           Match(p, s, vd, bb, curr, dn, ex, rel),
           NEW tok, tok \notin {"mid", "endop", "endwhile"}, NEW d, NEW q, Node1(p, q, tok, d),
           NEW more, rel \subseteq more, NEW x \in 1 .. Len(s)
    PROVE  FrameOK(q, s[x], x, more)
<1>1. FrameOK(p, s[x], x, rel)
  BY DEF Match
<1> QED
  BY <1>1, FrameKept

LEMMA NoExtra ==
    ASSUME NEW vd, NEW q, NEW t, NEW cc, NEW more
    PROVE  ExtraSteps(vd, q, t, cc, more, {})
BY DEF ExtraSteps

LEMMA OperandMatches ==
    ASSUME Pass, stack # <<>>, Matching, Operand
    PROVE  Matching'
<1>1. PICK rel : Match(prog, stack, void, blocks, m.curr, done, exp, rel)
  BY DEF Matching
<1>2. /\ Typed /\ IsBlocks(blocks) /\ m.curr \in 1 .. Len(blocks)
      /\ Len(stack) \in Nat \ {0} /\ Len(prog) \in Nat
  BY Context DEF Pass
<1>3. /\ stack' = stack /\ void' = void /\ m' = m /\ done' = "exp" /\ exp' = Here
      /\ Node1(prog, prog', "eval", Len(stack)) /\ Here = Len(prog) + 1 /\ Here = Len(prog')
  BY <1>2, NodeIsLogged DEF Operand, Yields, Node1
<1>4. EmittedAt(blocks, blocks', m.curr, Call(Here))
  BY <1>2, EmitIs DEF Operand
<1>5. IsBlocks(blocks') /\ Extends(blocks, blocks')
  BY <1>2, <1>4, EmittedHere
<1>6. PICK more : more = rel \cup {} \cup NewFront(prog', stack, blocks', m.curr, "exp", Here)
  OBVIOUS
<1>7. Covers(stack, stack, "eval", Len(stack))
  BY <1>2, CoversSame
<1>8. Lands(prog, stack, prog', more, "eval", Len(stack))
  BY ClosesNothing
<1>9. FrameOK(prog', stack[Len(stack)], Len(stack), more)
  <2>1. rel \subseteq more /\ Len(stack) \in 1 .. Len(stack)
    BY <1>2, <1>6
  <2> QED
    BY <1>1, <1>3, <2>1, FrameStays
<1>10. NodeStep(stack, void, blocks, m.curr, done, exp, prog', stack, blocks', more)
  <2>1. SUFFICES ASSUME NEW c, ~ Terminated(blocks[m.curr])
                 PROVE  Step(prog', stack, void, blocks', more, Len(prog'), m.curr,
                             Len(blocks[m.curr]) + 1, c)
    BY DEF NodeStep
  <2>2. ~ IsTerminator(Call(Here))
    BY TargetsAre
  <2>3. /\ At(blocks', m.curr, Len(blocks[m.curr]) + 1, Call(Here))
        /\ Len(blocks'[m.curr]) = Len(blocks[m.curr]) + 1 /\ ~ Terminated(blocks'[m.curr])
    BY <1>2, <1>4, <2>1, <2>2, EmittedHere
  <2>4. <<Len(prog') + 1, m.curr, Len(blocks[m.curr]) + 1 + 1, Ready(Here)>> \in more
    BY <1>6, <2>1, <2>3 DEF NewFront
  <2>5. EvalStep(blocks', more, Len(prog'), m.curr, Len(blocks[m.curr]) + 1)
    BY <1>3, <2>3, <2>4 DEF EvalStep
  <2>6. prog'[Len(prog')].tok = "eval"
    BY <1>3 DEF Node1
  <2> QED
    BY <2>5, <2>6 DEF Step, Logic
<1>11. Match(prog', stack, void, blocks', m.curr, "exp", Here, more)
  BY <1>1, <1>2, <1>3, <1>5, <1>6, <1>7, <1>8, <1>9, <1>10, NoExtra, MatchGoesOn
<1> QED
  BY <1>3, <1>11 DEF Matching

LEMMA StatementsHaveNoLogic ==
    ASSUME Pass, stack # <<>>, WantsStmt
    PROVE  NoLogic(stack)
<1>1. Calm(stack) /\ stack \in Seq(Frame)
  BY StatementsAreCalm, Context
<1>2. \A d \in 1 .. Len(stack) : stack[d] \in Frame /\ stack[d].stage \notin ExpStages
  BY <1>1 DEF Calm
<1>3. \A d \in 1 .. Len(stack) : stack[d].kind \notin Logic
  <2>1. \A f \in Frame : f.kind \in Logic => f.stage \in ExpStages
    BY FramesAre DEF ExpStages
  <2> QED
    BY <1>2, <2>1
<1> QED
  BY <1>3 DEF NoLogic

\* A return of the value v, whatever happens to the stack.
LEMMA ReturnMatches ==
    ASSUME Pass, stack # <<>>, NEW rel,
           Match(prog, stack, void, blocks, m.curr, done, exp, rel),
           NEW v, Returns(v), (v = None /\ void) \/ (done = "exp" /\ v = exp),
           Covers(stack, stack', "return", Len(stack)),
           Len(stack') = Len(stack) => stack'[Len(stack)] = stack[Len(stack)],
           done' = "stmt", void' = void
    PROVE  Matching'
<1>1. /\ Typed /\ IsBlocks(blocks) /\ m.curr \in 1 .. Len(blocks)
      /\ Len(stack) \in Nat \ {0} /\ Len(prog) \in Nat
  BY Context DEF Pass
<1>2. /\ m'.curr = m.curr /\ Node1(prog, prog', "return", Len(stack))
      /\ blocks' = Emit(blocks, m.curr, Return(v))
  BY <1>1, NodeIsLogged DEF Returns, Typed
<1>3. EmittedAt(blocks, blocks', m.curr, Return(v))
  BY <1>1, <1>2, EmitIs
<1>4. IsBlocks(blocks') /\ Extends(blocks, blocks')
  BY <1>1, <1>3, EmittedHere
<1>5. PICK more : more = rel \cup {} \cup NewFront(prog', stack', blocks', m.curr, "stmt", exp')
  OBVIOUS
<1>6. Lands(prog, stack, prog', more, "return", Len(stack))
  BY ClosesNothing
<1>7. Len(stack') = Len(stack) => FrameOK(prog', stack'[Len(stack)], Len(stack), more)
  <2>1. rel \subseteq more /\ Len(stack) \in 1 .. Len(stack)
    BY <1>1, <1>5
  <2>2. FrameOK(prog', stack[Len(stack)], Len(stack), more)
    BY <1>2, <2>1, FrameStays
  <2> QED
    BY <2>2
<1>8. NodeStep(stack, void, blocks, m.curr, done, exp, prog', stack', blocks', more)
  <2>1. SUFFICES ASSUME NEW c, ~ Terminated(blocks[m.curr]), done = "exp" => c = Ready(exp)
                 PROVE  Step(prog', stack', void, blocks', more, Len(prog'), m.curr,
                             Len(blocks[m.curr]) + 1, c)
    BY DEF NodeStep
  <2>2. At(blocks', m.curr, Len(blocks[m.curr]) + 1, Return(v))
    BY <1>1, <1>3, <2>1, EmittedHere
  <2>3. c = Ready(v) \/ (v = None /\ void)
    BY <2>1
  <2>4. ReturnStep(void, blocks', m.curr, Len(blocks[m.curr]) + 1, c)
    BY <2>2, <2>3 DEF ReturnStep
  <2>5. prog'[Len(prog')].tok = "return"
    BY <1>2 DEF Node1
  <2> QED
    BY <2>4, <2>5 DEF Step, Logic
<1>9. Match(prog', stack', void, blocks', m.curr, "stmt", exp', more)
  BY <1>1, <1>2, <1>4, <1>5, <1>6, <1>7, <1>8, NoExtra, MatchGoesOn
<1> QED
  BY <1>2, <1>9 DEF Matching

LEMMA ReturnNothingMatches ==
    ASSUME Pass, stack # <<>>, Matching, ReturnNothing
    PROVE  Matching'
<1>1. PICK rel : Match(prog, stack, void, blocks, m.curr, done, exp, rel)
  BY DEF Matching
<1>2. Len(stack) \in Nat \ {0} /\ NoLogic(stack)
  BY Context, StatementsHaveNoLogic DEF ReturnNothing
<1>3. Covers(stack, stack', "return", Len(stack))
  BY <1>2, CoversSame DEF ReturnNothing
<1>4. Returns(None) /\ void /\ stack' = stack /\ done' = "stmt" /\ void' = void
  BY DEF ReturnNothing
<1> QED
  BY <1>1, <1>3, <1>4, ReturnMatches

LEMMA EndReturnMatches ==
    ASSUME Pass, stack # <<>>, Matching, EndReturn
    PROVE  Matching'
<1>1. PICK rel : Match(prog, stack, void, blocks, m.curr, done, exp, rel)
  BY DEF Matching
<1>2. /\ stack \in Seq(Frame) /\ Len(stack) \in Nat \ {0} /\ Stacked(stack)
      /\ Top = stack[Len(stack)]
  BY Context
<1>3. Top.kind = "return" /\ done = "exp"
  BY DEF EndReturn, Resumes
<1>4. Returns(exp) /\ stack' = Front(stack) /\ done' = "stmt" /\ void' = void
  BY DEF EndReturn, Pop
<1>5. Covers(stack, stack', "return", Len(stack))
  <2>1. NoLogic(stack)
    BY <1>2, <1>3, NoLogicBelow DEF Logic
  <2>2. Closers("return") = {} /\ "return" \notin Logic \cup {"while"}
    BY WhatCloses DEF Logic
  <2>3. \A tk : ~ Fits(stack[Len(stack)], tk)
    <3>1. PICK f : f = stack[Len(stack)]
      OBVIOUS
    <3>2. f.kind \in {"block", "exp", "return"}
      BY <1>2, <1>3, <3>1
    <3>3. \A tk : ~ Fits(f, tk)
      BY <3>2, NothingFits
    <3> QED
      BY <3>1, <3>3
  <2> QED
    BY <1>2, <1>4, <2>1, <2>2, <2>3, CoversPopped
<1>6. Len(stack') # Len(stack)
  BY <1>2, <1>4, FrontIs
<1> QED
  BY <1>1, <1>3, <1>4, <1>5, <1>6, ReturnMatches

\* An instruction after new blocks were made.
LEMMA GrownHere ==
    ASSUME NEW bb, IsBlocks(bb), NEW b \in 1 .. Len(bb), NEW n \in Nat, NEW inst,
           NEW cc, cc = Emit(Fresh(bb, n), b, inst)
    PROVE  /\ IsBlocks(cc) /\ Extends(bb, cc) /\ Len(cc) = Len(bb) + n
           /\ ~ Terminated(bb[b]) => At(cc, b, Len(bb[b]) + 1, inst)
           /\ \A x \in Len(bb) + 1 .. Len(bb) + n : cc[x] = <<>>
<1>1. PICK dd : dd = Fresh(bb, n)
  OBVIOUS
<1>2. Grown(bb, dd, n)
  BY <1>1, FreshIs
<1>3. /\ IsBlocks(dd) /\ Extends(bb, dd) /\ b \in 1 .. Len(dd) /\ Len(bb) \in Nat
      /\ dd[b] = bb[b] /\ Len(dd) = Len(bb) + n
      /\ \A x \in Len(bb) + 1 .. Len(bb) + n : dd[x] = <<>> /\ x \in 1 .. Len(dd) /\ x # b
  <2>1. Len(bb) \in Nat /\ IsBlocks(dd) /\ Len(dd) = Len(bb) + n
    BY <1>2, BlocksAre DEF Grown
  <2>2. /\ b \in 1 .. Len(dd)
        /\ \A x \in Len(bb) + 1 .. Len(bb) + n : x \in 1 .. Len(dd) /\ x # b
    BY <2>1
  <2>3. Extends(bb, dd)
    BY <1>2, GrownExtends
  <2> QED
    BY <1>2, <2>1, <2>2, <2>3 DEF Grown
<1>4. EmittedAt(dd, cc, b, inst)
  BY <1>1, <1>3, EmitIs
<1>5. /\ IsBlocks(cc) /\ Extends(dd, cc) /\ Len(cc) = Len(dd)
      /\ ~ Terminated(dd[b]) => At(cc, b, Len(dd[b]) + 1, inst)
      /\ \A x \in 1 .. Len(dd) : x # b => cc[x] = dd[x]
  BY <1>3, <1>4, EmittedHere
<1> QED
  BY <1>3, <1>5, ExtendsOn

\* The innermost loop around a statement.
LEMMA LoopAround ==
    ASSUME Pass, stack # <<>>, WantsStmt, m.end # None \/ m.cond # None, NEW rel,
           Match(prog, stack, void, blocks, m.curr, done, exp, rel)
    PROVE  \E d \in 1 .. Len(stack), j \in 1 .. Len(prog) :
              /\ prog[j].tok = "while" /\ prog[j].depth = d /\ OpenTo(prog, j, Len(prog) + 1)
              /\ m.end = stack[d].end /\ <<j + 1, m.cond, 1, Plain>> \in rel
              /\ \A x \in 1 .. Len(prog) :
                    prog[x].tok = "while" /\ OpenTo(prog, x, Len(prog) + 1) => x <= j
<1>1. /\ Len(prog) \in Nat /\ stack \in Seq(Frame) /\ Len(stack) \in Nat \ {0} /\ Calm(stack)
  BY Context, StatementsAreCalm
<1>2. LoopIn(stack, Len(stack), m.cond, m.end)
  BY DEF Pass, Loops
<1>3. PICK d \in 1 .. Len(stack) :
          /\ IsLoopBody(stack[d]) /\ m.cond = stack[d].cond /\ m.end = stack[d].end
          /\ \A k \in d + 1 .. Len(stack) : ~ IsLoopBody(stack[k])
  BY <1>2 DEF LoopIn
<1>4. LoopFrame(prog, stack[d], d, rel)
  BY <1>3 DEF Match, FrameOK, IsLoopBody
<1>5. PICK j \in 1 .. Len(prog) :
          /\ prog[j].tok = "while" /\ prog[j].depth = d /\ OpenTo(prog, j, Len(prog) + 1)
          /\ <<j + 1, stack[d].cond, 1, Plain>> \in rel
  BY <1>4 DEF LoopFrame
<1>6. ASSUME NEW x \in 1 .. Len(prog), prog[x].tok = "while", OpenTo(prog, x, Len(prog) + 1), x > j
      PROVE  FALSE
  <2>1. LogOK(prog, stack)
    BY DEF Match
  <2>2. prog[x].depth \in 1 .. Len(stack) /\ Fits(stack[prog[x].depth], "while")
    BY <1>6, <2>1 DEF LogOK
  <2>3. OpenTo(prog, j, x)
    BY <1>1, <1>5, <1>6 DEF OpenTo
  <2>4. prog[x].depth > d
    BY <1>5, <1>6, <2>1, <2>3 DEF LogOK
  <2>5. ~ IsLoopBody(stack[prog[x].depth])
    BY <1>1, <1>3, <2>2, <2>4
  <2>6. PICK f \in Frame : f = stack[prog[x].depth]
    BY <1>1, <2>2
  <2>7. f.kind = "while" /\ f.stage \notin ExpStages
    BY <1>1, <2>2, <2>6 DEF Fits, Logic, Calm
  <2> QED
    BY <2>5, <2>6, <2>7, FramesAre DEF IsLoopBody, ExpStages
<1>7. \A x \in 1 .. Len(prog) : prog[x].tok = "while" /\ OpenTo(prog, x, Len(prog) + 1) => x <= j
  BY <1>1, <1>6
<1> QED
  BY <1>3, <1>5, <1>7

LEMMA LeaveMatches ==
    ASSUME Pass, stack # <<>>, Matching,
           NEW tok \in {"break", "continue"}, NEW target, Leave(tok, target),
           tok = "break" => target = m.end, tok = "continue" => target = m.cond
    PROVE  Matching'
<1>1. PICK rel : Match(prog, stack, void, blocks, m.curr, done, exp, rel)
  BY DEF Matching
<1>2. /\ Typed /\ IsBlocks(blocks) /\ m.curr \in 1 .. Len(blocks) /\ Len(blocks) \in Nat
      /\ Len(stack) \in Nat \ {0} /\ Len(prog) \in Nat
  BY Context DEF Pass
<1>4. /\ WantsStmt /\ target # None /\ void' = void /\ stack' = stack /\ done' = "stmt"
      /\ m' = [m EXCEPT !.curr = New(1)] /\ Node1(prog, prog', tok, Len(stack))
  BY <1>2, NodeIsLogged DEF Leave
<1>5. PICK n : n = New(1)
  OBVIOUS
<1>6. n = Len(blocks) + 1 /\ m'.curr = n
  <2>1. m \in [curr : Nat, cond : Nat, end : Nat, returned : BOOLEAN]
    BY <1>2 DEF Typed
  <2> QED
    BY <1>4, <1>5, <2>1 DEF New
<1>7. blocks' = Emit(Fresh(blocks, 1), m.curr, Jump(target))
  BY DEF Leave
<1>8. /\ IsBlocks(blocks') /\ Extends(blocks, blocks')
      /\ ~ Terminated(blocks[m.curr]) => At(blocks', m.curr, Len(blocks[m.curr]) + 1, Jump(target))
  BY <1>2, <1>7, GrownHere
<1>9. PICK more : more = rel \cup {} \cup NewFront(prog', stack, blocks', n, "stmt", exp')
  OBVIOUS
<1>10. Covers(stack, stack, tok, Len(stack))
  BY <1>2, <1>4, StatementsHaveNoLogic, CoversSame
<1>11. Lands(prog, stack, prog', more, tok, Len(stack))
  BY ClosesNothing
<1>12. FrameOK(prog', stack[Len(stack)], Len(stack), more)
  <2>1. rel \subseteq more /\ Len(stack) \in 1 .. Len(stack) /\ tok \notin {"mid", "endop", "endwhile"}
    BY <1>2, <1>9
  <2> QED
    BY <1>1, <1>4, <2>1, FrameStays
<1>13. PICK d \in 1 .. Len(stack), j \in 1 .. Len(prog) :
              /\ prog[j].tok = "while" /\ prog[j].depth = d /\ OpenTo(prog, j, Len(prog) + 1)
              /\ m.end = stack[d].end /\ <<j + 1, m.cond, 1, Plain>> \in rel
              /\ \A x \in 1 .. Len(prog) :
                    prog[x].tok = "while" /\ OpenTo(prog, x, Len(prog) + 1) => x <= j
  <2>1. m.end # None \/ m.cond # None
    BY <1>4
  <2> QED
    BY <1>1, <1>4, <2>1, LoopAround
<1>14. /\ Longer(prog, prog') /\ Len(prog') = Len(prog) + 1 /\ prog'[Len(prog')].tok = tok
       /\ \A i \in 1 .. Len(prog) : prog'[i] = prog[i]
  BY <1>4 DEF Node1, Longer
<1>15. IsLoop(prog', Len(prog'), j)
  <2>1. Len(prog') \in 1 .. Len(prog) + 1
    BY <1>2, <1>14
  <2>2. OpenTo(prog', j, Len(prog')) /\ prog'[j].tok = "while"
    BY <1>13, <1>14, <2>1, LongerOpen
  <2>3. \A x \in 1 .. Len(prog') : OpenTo(prog', x, Len(prog')) =>
            x \in 1 .. Len(prog) /\ OpenTo(prog, x, Len(prog) + 1)
    <3>1. \A x \in 1 .. Len(prog') : OpenTo(prog', x, Len(prog')) => x \in 1 .. Len(prog)
      BY <1>2, <1>14 DEF OpenTo
    <3> QED
      BY <1>14, <2>1, <3>1, LongerOpen
  <2> QED
    BY <1>13, <1>14, <2>2, <2>3 DEF IsLoop
<1>16. Goes(prog', stack, more, j, m.end)
  <2>1. tok \notin Closers("while")
    BY WhatCloses
  <2>2. OpenTo(prog', j, Len(prog') + 1)
    BY <1>4, <1>13, <2>1, OneMoreNode
  <2>3. prog'[j] = prog[j]
    BY <1>14
  <2> QED
    BY <1>13, <2>2, <2>3 DEF Goes, Target
<1>17. NodeStep(stack, void, blocks, m.curr, done, exp, prog', stack, blocks', more)
  <2>1. SUFFICES ASSUME NEW c, ~ Terminated(blocks[m.curr])
                 PROVE  Step(prog', stack, void, blocks', more, Len(prog'), m.curr,
                             Len(blocks[m.curr]) + 1, c)
    BY DEF NodeStep
  <2>2. PICK k : k = Len(blocks[m.curr]) + 1
    OBVIOUS
  <2>3. At(blocks', m.curr, k, Jump(target))
    BY <1>8, <2>1, <2>2
  <2>4. CASE tok = "break"
    <3>1. BreakStep(prog', stack, blocks', more, Len(prog'), m.curr, k)
      BY <1>15, <1>16, <2>3, <2>4 DEF BreakStep
    <3> QED
      BY <1>14, <2>2, <2>4, <3>1 DEF Step, Logic
  <2>5. CASE tok = "continue"
    <3>1. <<j + 1, m.cond, 1, Plain>> \in more
      BY <1>9, <1>13
    <3>2. ContinueStep(prog', blocks', more, Len(prog'), m.curr, k)
      BY <1>15, <2>3, <2>5, <3>1 DEF ContinueStep
    <3> QED
      BY <1>14, <2>2, <2>5, <3>2 DEF Step, Logic
  <2> QED
    BY <2>4, <2>5
<1>18. Match(prog', stack, void, blocks', n, "stmt", exp', more)
  BY <1>1, <1>2, <1>4, <1>8, <1>9, <1>10, <1>11, <1>12, <1>17, NoExtra, MatchGoesOn
<1> QED
  BY <1>4, <1>6, <1>18 DEF Matching

LEMMA EndFunctionMatches ==
    ASSUME Pass, stack # <<>>, Matching, EndFunction
    PROVE  Matching'
<1>1. PICK rel : Match(prog, stack, void, blocks, m.curr, done, exp, rel)
  BY DEF Matching
<1>2. /\ Typed /\ IsBlocks(blocks) /\ m.curr \in 1 .. Len(blocks) /\ Len(blocks) \in Nat
      /\ stack \in Seq(Frame) /\ Len(prog) \in Nat /\ Stacked(stack) /\ OpenEnded(blocks, m.curr)
  BY Context DEF Pass
<1>3. /\ Len(stack) = 1 /\ stack' = <<>> /\ void' = void /\ done' = "nothing" /\ m' = m
      /\ Node1(prog, prog', "endfunction", 1)
  <2>1. Log("endfunction") /\ Len(stack) = 1
    BY DEF EndFunction
  <2>2. Node1(prog, prog', "endfunction", Len(stack))
    BY <1>2, <2>1, NodeIsLogged
  <2> QED
    BY <2>1, <2>2 DEF EndFunction
<1>4. \/ blocks' = blocks /\ (void => Terminated(blocks[m.curr]))
      \/ blocks' = Emit(blocks, m.curr, Return(None)) /\ ~ Terminated(blocks[m.curr])
  <2>1. CASE void /\ ~ Returned(blocks[m.curr])
    <3>1. blocks' = [blocks EXCEPT ![m.curr] = Append(@, Return(None))]
      BY <2>1 DEF EndFunction
    <3>2. ~ Terminated(blocks[m.curr])
      BY <1>2, <2>1 DEF Returned, OpenEnded, Terminated
    <3>3. try_append(blocks[m.curr], Return(None)) = Append(blocks[m.curr], Return(None))
      BY <3>2 DEF try_append, Terminated
    <3> QED
      BY <3>1, <3>2, <3>3 DEF Emit
  <2>2. CASE ~ (void /\ ~ Returned(blocks[m.curr]))
    <3>1. blocks' = blocks
      BY <2>2 DEF EndFunction
    <3>2. void => Terminated(blocks[m.curr])
      BY <2>2 DEF Returned, Terminated, IsTerminator
    <3> QED
      BY <3>1, <3>2
  <2> QED
    BY <2>1, <2>2
<1>5. /\ IsBlocks(blocks') /\ Extends(blocks, blocks')
      /\ void /\ ~ Terminated(blocks[m.curr]) =>
            At(blocks', m.curr, Len(blocks[m.curr]) + 1, Return(None))
  <2>1. CASE blocks' = blocks /\ (void => Terminated(blocks[m.curr]))
    BY <1>2, <2>1, ExtendsItself
  <2>2. CASE blocks' = Emit(blocks, m.curr, Return(None)) /\ ~ Terminated(blocks[m.curr])
    <3>1. EmittedAt(blocks, blocks', m.curr, Return(None))
      BY <1>2, <2>2, EmitIs
    <3> QED
      BY <1>2, <2>2, <3>1, EmittedHere
  <2> QED
    BY <1>4, <2>1, <2>2
<1>6. PICK more : more = rel \cup {} \cup NewFront(prog', stack', blocks', m.curr, "nothing", exp')
  OBVIOUS
<1>7. Covers(stack, stack', "endfunction", 1)
  <2>1. stack[1].kind = "block"
    BY <1>2, <1>3 DEF Stacked
  <2>2. NoLogic(stack)
    BY <1>3, <2>1 DEF NoLogic, Logic
  <2>3. \A tk : ~ Fits(stack[1], tk)
    BY <2>1 DEF Fits, Logic
  <2>4. Closers("endfunction") = {} /\ "endfunction" \notin Logic \cup {"while"}
    BY WhatCloses DEF Logic
  <2>5. Len(stack') = 0
    BY <1>3
  <2> QED
    BY <1>3, <2>2, <2>3, <2>4, <2>5 DEF Covers
<1>8. Lands(prog, stack, prog', more, "endfunction", 1)
  BY ClosesNothing
<1>9. Len(stack') # 1
  BY <1>3
<1>10. NodeStep(stack, void, blocks, m.curr, done, exp, prog', stack', blocks', more)
  <2>1. SUFFICES ASSUME NEW c, ~ Terminated(blocks[m.curr])
                 PROVE  Step(prog', stack', void, blocks', more, Len(prog'), m.curr,
                             Len(blocks[m.curr]) + 1, c)
    BY DEF NodeStep
  <2>2. prog'[Len(prog')].tok = "endfunction"
    BY <1>3 DEF Node1
  <2> QED
    BY <1>5, <2>1, <2>2 DEF Step, Logic
<1>11. Match(prog', stack', void, blocks', m.curr, "nothing", exp', more)
  BY <1>1, <1>2, <1>3, <1>5, <1>6, <1>7, <1>8, <1>9, <1>10, NoExtra, MatchGoesOn
<1> QED
  BY <1>3, <1>11 DEF Matching

\* Two instructions.
LEMMA TwoHere ==
    ASSUME NEW bb, IsBlocks(bb), NEW b \in 1 .. Len(bb), NEW one, ~ IsTerminator(one), NEW two,
           NEW dd, dd = Emit(bb, b, one), NEW cc, cc = Emit(dd, b, two)
    PROVE  /\ ~ Terminated(bb[b]) => /\ At(cc, b, Len(bb[b]) + 1, one)
                                     /\ At(cc, b, Len(bb[b]) + 2, two)
                                     /\ Len(cc[b]) = Len(bb[b]) + 2
                                     /\ Terminated(cc[b]) <=> IsTerminator(two)
           /\ Terminated(bb[b]) => cc[b] = bb[b]
           /\ IsBlocks(cc) /\ Len(cc) = Len(bb) /\ Extends(bb, cc)
           /\ \A x \in 1 .. Len(bb) : x # b => cc[x] = bb[x]
<1>1. /\ ~ Terminated(bb[b]) => /\ At(dd, b, Len(bb[b]) + 1, one)
                                /\ Len(dd[b]) = Len(bb[b]) + 1
                                /\ ~ Terminated(dd[b])
      /\ Terminated(bb[b]) => dd[b] = bb[b]
      /\ IsBlocks(dd) /\ Len(dd) = Len(bb) /\ Extends(bb, dd)
      /\ \A x \in 1 .. Len(bb) : x # b => dd[x] = bb[x]
      /\ Len(bb[b]) \in Nat
  BY EmitIs, EmittedHere
<1>2. /\ ~ Terminated(dd[b]) => /\ At(cc, b, Len(dd[b]) + 1, two)
                                /\ Len(cc[b]) = Len(dd[b]) + 1
                                /\ Terminated(cc[b]) <=> IsTerminator(two)
      /\ Terminated(dd[b]) => cc[b] = dd[b]
      /\ IsBlocks(cc) /\ Len(cc) = Len(dd) /\ Extends(dd, cc)
      /\ \A x \in 1 .. Len(dd) : x # b => cc[x] = dd[x]
  <2>1. IsBlocks(dd) /\ b \in 1 .. Len(dd)
    BY <1>1
  <2>2. EmittedAt(dd, cc, b, two)
    BY <2>1, EmitIs
  <2> QED
    BY ONLY <2>1, <2>2, EmittedHere
<1>3. Extends(bb, cc)
  BY <1>1, <1>2, ExtendsOn
<1>4. \A k : At(dd, b, k, one) => At(cc, b, k, one)
  BY <1>1, <1>2, ExtendedAt
<1>5. ASSUME ~ Terminated(bb[b])
      PROVE  /\ At(cc, b, Len(bb[b]) + 1, one)
             /\ At(cc, b, Len(bb[b]) + 2, two)
             /\ Len(cc[b]) = Len(bb[b]) + 2
             /\ Terminated(cc[b]) <=> IsTerminator(two)
  <2>1. (Len(bb[b]) + 1) + 1 = Len(bb[b]) + 2
    BY <1>1
  <2> QED
    BY <1>1, <1>2, <1>4, <1>5, <2>1
<1> QED
  BY <1>1, <1>2, <1>3, <1>5

LEMMA LogicalMatches ==
    ASSUME Pass, stack # <<>>, Matching, NEW kind \in Logic, Logical(kind)
    PROVE  Matching'
<1>1. PICK rel : Match(prog, stack, void, blocks, m.curr, done, exp, rel)
  BY DEF Matching
<1>2. /\ Typed /\ IsBlocks(blocks) /\ m.curr \in 1 .. Len(blocks) /\ Len(blocks) \in Nat
      /\ stack \in Seq(Frame) /\ Len(stack) \in Nat \ {0} /\ Len(prog) \in Nat /\ IsSeq(stack)
  BY Context, SeqIs DEF Pass
<1>3. PICK h : h = Here
  OBVIOUS
<1>4. /\ void' = void /\ m' = m /\ done' = "nothing"
      /\ Node1(prog, prog', kind, Len(stack) + 1) /\ h = Len(prog) + 1
  BY <1>2, <1>3, NodeIsLogged DEF Logical, Push
<1>5. /\ Longer(prog, prog') /\ Len(prog') = h /\ prog'[h].tok = kind
      /\ prog'[h].depth = Len(stack) + 1 /\ h \in Nat /\ h \in 1 .. Len(prog')
  BY <1>2, <1>4 DEF Node1
<1>6. PICK f : f = [kind |-> kind, stage |-> "lhs", rhs |-> New(1), end |-> New(2), var |-> Here]
  OBVIOUS
<1>7. f.kind = kind /\ f.stage = "lhs" /\ f.var = h /\ Pushed(stack', stack, f)
  BY <1>3, <1>6 DEF Logical, Push, Pushed
<1>8. /\ Len(stack') = Len(stack) + 1 /\ stack'[Len(stack) + 1] = f /\ stack' # <<>>
      /\ \A d \in 1 .. Len(stack) : stack'[d] = stack[d]
  BY ONLY <1>2, <1>7, PushedIs
<1>9. PICK curr, n, one, two : /\ curr = m.curr /\ n = Len(blocks[m.curr])
                               /\ one = Alloc(Here) /\ two = Set(Here, kind = "or")
  OBVIOUS
<1>10. /\ ~ IsTerminator(one) /\ ~ IsTerminator(two) /\ one = Alloc(h) /\ two = Set(h, kind = "or")
  BY <1>3, <1>9, TargetsAre
<1>11. /\ IsBlocks(blocks') /\ Extends(blocks, blocks')
       /\ ~ Terminated(blocks[curr]) => /\ At(blocks', curr, n + 1, one)
                                        /\ At(blocks', curr, n + 2, two)
                                        /\ Len(blocks'[curr]) = n + 2
                                        /\ ~ Terminated(blocks'[curr])
       /\ Terminated(blocks[curr]) => Terminated(blocks'[curr])
       /\ n \in Nat
  <2>1. PICK b1, b2 : b1 = Fresh(blocks, 2) /\ b2 = Emit(b1, curr, one)
    OBVIOUS
  <2>2. blocks' = Emit(b2, curr, two)
    BY <1>9, <2>1 DEF Logical
  <2>3. Grown(blocks, b1, 2)
    BY <1>2, <2>1, FreshIs
  <2>4. IsBlocks(b1) /\ Extends(blocks, b1) /\ curr \in 1 .. Len(b1) /\ b1[curr] = blocks[curr]
    BY <1>2, <1>9, <2>3, GrownExtends DEF Grown
  <2>5. /\ ~ Terminated(b1[curr]) => /\ At(blocks', curr, Len(b1[curr]) + 1, one)
                                     /\ At(blocks', curr, Len(b1[curr]) + 2, two)
                                     /\ Len(blocks'[curr]) = Len(b1[curr]) + 2
                                     /\ Terminated(blocks'[curr]) <=> IsTerminator(two)
        /\ Terminated(b1[curr]) => blocks'[curr] = b1[curr]
        /\ IsBlocks(blocks') /\ Extends(b1, blocks')
    BY ONLY <1>10, <2>1, <2>2, <2>4, TwoHere
  <2>6. Extends(blocks, blocks')
    BY <1>2, <2>4, <2>5, ExtendsOn
  <2>7. n \in Nat /\ n = Len(b1[curr])
    BY <1>2, <1>9, <2>4, BlocksAre
  <2> QED
    BY <1>10, <2>4, <2>5, <2>6, <2>7
<1>12. PICK extra : extra = IF Terminated(blocks[curr]) THEN {} ELSE {<<h, curr, n + 2, Has(h)>>}
  OBVIOUS
<1>13. PICK more : more = rel \cup extra \cup NewFront(prog', stack', blocks', curr, "nothing", exp')
  OBVIOUS
<1>14. /\ ~ Terminated(blocks[curr]) => /\ <<h, curr, n + 2, Has(h)>> \in more
                                        /\ <<h + 1, curr, n + 3, Plain>> \in more
       /\ rel \subseteq more
  <2>1. ~ Terminated(blocks[curr]) =>
            NewFront(prog', stack', blocks', curr, "nothing", exp') = {<<h + 1, curr, n + 3, Plain>>}
    <3>1. (n + 2) + 1 = n + 3
      BY <1>11
    <3> QED
      BY <1>5, <1>8, <1>11, <3>1 DEF NewFront
  <2> QED
    BY <1>12, <1>13, <2>1
<1>15. Covers(stack, stack', kind, Len(stack) + 1)
  <2>1. Fits(f, kind) /\ kind \in ExpToks
    BY <1>7 DEF Fits, ExpToks, Logic
  <2>2. Len(stack) + 1 \in 1 .. Len(stack) + 1 /\ Len(stack) + 1 >= Len(stack)
    BY <1>2
  <2>3. Len(stack) \in Nat /\ Len(stack') \in Nat /\ Len(stack) + 1 # Len(stack)
        /\ \A x \in 1 .. (Len(stack) + 1) - 1 : x \in 1 .. Len(stack)
    BY <1>2, <1>8
  <2> QED
    BY <1>8, <2>1, <2>2, <2>3 DEF Covers
<1>16. Lands(prog, stack, prog', more, kind, Len(stack) + 1)
  BY ClosesNothing DEF Logic
<1>17. FrameOK(prog', f, Len(stack) + 1, more)
  <2>1. OpenTo(prog', Len(prog'), Len(prog') + 1) /\ NoMid(prog', Len(prog'), Len(prog') + 1)
    <3>1. Closers(kind) # {}
      BY DEF Closers
    <3> QED
      BY <1>4, <3>1, NewNodeIsOpen
  <2>2. LogicFrame(prog', f, Len(stack) + 1)
    BY <1>5, <1>7, <2>1 DEF LogicFrame
  <2> QED
    BY <1>7, <2>2 DEF FrameOK, Logic
<1>18. NodeStep(stack, void, blocks, m.curr, done, exp, prog', stack', blocks', more)
  <2>1. SUFFICES ASSUME NEW c, ~ Terminated(blocks[curr])
                 PROVE  Step(prog', stack', void, blocks', more, h, curr, n + 1, c)
    BY <1>5, <1>9 DEF NodeStep
  <2>2. <<h, curr, (n + 1) + 1, Has(h)>> \in more
    BY <1>11, <1>14, <2>1
  <2>3. LogicStep(prog', blocks', more, h, curr, n + 1, c)
    BY <1>10, <1>11, <2>1, <2>2 DEF LogicStep
  <2> QED
    BY <1>5, <2>3 DEF Step, Logic
<1>19. ExtraSteps(void, prog', stack', blocks', more, extra)
  <2>1. SUFFICES ASSUME NEW i, NEW b, NEW k, NEW c, <<i, b, k, c>> \in extra
                 PROVE  i \in 1 .. Len(prog') /\ Step(prog', stack', void, blocks', more, i, b, k, c)
    BY DEF ExtraSteps
  <2>2. /\ i = h /\ b = curr /\ k = n + 2 /\ c = Has(h) /\ ~ Terminated(blocks[curr])
    BY <1>12, <2>1
  <2>3. <<h + 1, curr, (n + 2) + 1, Plain>> \in more
    BY <1>11, <1>14, <2>2
  <2>4. LogicStep(prog', blocks', more, h, curr, n + 2, c)
    BY <1>5, <1>10, <1>11, <2>2, <2>3 DEF LogicStep
  <2>5. Step(prog', stack', void, blocks', more, h, curr, n + 2, c)
    BY <1>5, <2>4 DEF Step, Logic
  <2> QED
    BY <1>5, <2>2, <2>5
<1>20. Match(prog', stack', void, blocks', m.curr, "nothing", exp', more)
  <2>1. more = rel \cup extra \cup NewFront(prog', stack', blocks', m.curr, "nothing", exp')
    BY <1>9, <1>13
  <2>2. Len(stack') = Len(stack) + 1 =>
            FrameOK(prog', stack'[Len(stack) + 1], Len(stack) + 1, more)
    BY <1>8, <1>17
  <2> QED
    BY <1>1, <1>2, <1>4, <1>11, <1>15, <1>16, <1>18, <1>19, <2>1, <2>2, MatchGoesOn
<1> QED
  BY <1>4, <1>20 DEF Matching

\* Two operators of the same depth are not open at once.
LEMMA OneOperator ==
    ASSUME NEW p \in Seq(ANode), NEW s, LogOK(p, s), NEW k \in 1 .. Len(p) + 1,
           NEW o \in 1 .. Len(p), NEW v \in 1 .. Len(p), OpenTo(p, o, k), OpenTo(p, v, k),
           p[o].tok \in Logic \cup {"while"}, p[v].tok \in Logic \cup {"while"},
           p[o].depth = p[v].depth
    PROVE  o = v
<1>1. ASSUME NEW x \in 1 .. Len(p), NEW y \in 1 .. Len(p), x < y, OpenTo(p, x, k), OpenTo(p, y, k),
             p[y].tok \in Logic \cup {"while"}, p[x].depth = p[y].depth
      PROVE  FALSE
  <2>1. OpenTo(p, x, y)
    BY <1>1 DEF OpenTo
  <2>2. p[y].depth > p[x].depth
    BY <1>1, <2>1 DEF LogOK
  <2>3. p[x].depth \in Nat /\ p[y].depth \in Nat
    <3>1. p[x] \in ANode /\ p[y] \in ANode
      OBVIOUS
    <3> QED
      BY <3>1 DEF ANode
  <2> QED
    BY <1>1, <2>2, <2>3
<1>2. o < v \/ v < o \/ o = v
  OBVIOUS
<1> QED
  BY <1>1, <1>2

LEMMA LogicalLeftMatches ==
    ASSUME Pass, stack # <<>>, Matching, LogicalLeft
    PROVE  Matching'
<1>1. PICK rel : Match(prog, stack, void, blocks, m.curr, done, exp, rel)
  BY DEF Matching
<1>2. /\ Typed /\ IsBlocks(blocks) /\ m.curr \in 1 .. Len(blocks) /\ Len(blocks) \in Nat
      /\ stack \in Seq(Frame) /\ Len(stack) \in Nat \ {0} /\ Len(prog) \in Nat
      /\ Top = stack[Len(stack)] /\ Top \in Frame
      /\ Reserved(stack, blocks, bbs, m.curr, {}, {})
  BY Context DEF Pass
<1>3. PICK f, d, h : f = Top /\ d = Len(stack) /\ h = Len(prog')
  OBVIOUS
<1>4. /\ f.kind \in Logic /\ f.stage = "lhs" /\ f = stack[d] /\ done = "exp"
      /\ f \in [kind : Logic, stage : {"lhs", "rhs"}, rhs : Nat, end : Nat, var : Nat]
  BY <1>2, <1>3, FramesAre DEF LogicalLeft, Resumes, Logic
<1>5. PICK g : g = [f EXCEPT !.stage = "rhs"]
  OBVIOUS
<1>6. /\ g.kind = f.kind /\ g.stage = "rhs" /\ g.rhs = f.rhs /\ g.end = f.end /\ g.var = f.var
  BY <1>4, <1>5
<1>7. /\ void' = void /\ done' = "nothing" /\ m'.curr = f.rhs
      /\ Node1(prog, prog', "mid", d)
  <2>1. m \in [curr : Nat, cond : Nat, end : Nat, returned : BOOLEAN]
    BY <1>2 DEF Typed
  <2>2. m' = [m EXCEPT !.curr = f.rhs]
    BY <1>3 DEF LogicalLeft
  <2>3. void' = void /\ done' = "nothing" /\ Log("mid")
    BY DEF LogicalLeft, Stay
  <2> QED
    BY <1>2, <1>3, <2>1, <2>2, <2>3, NodeIsLogged
<1>8. /\ Longer(prog, prog') /\ h = Len(prog) + 1 /\ prog'[h].tok = "mid"
      /\ prog'[h].depth = d /\ h \in Nat /\ h \in 1 .. Len(prog')
      /\ \A i \in 1 .. Len(prog) : prog'[i] = prog[i]
  BY <1>2, <1>3, <1>7 DEF Node1, Longer
<1>9. Covers(stack, stack', "mid", d) /\ stack'[d] = g /\ stack' # <<>> /\ Len(stack') = d
  <2>1. PICK u : u = Front(stack)
    OBVIOUS
  <2>2. Pushed(stack', u, g)
    BY <1>3, <1>5, <2>1 DEF LogicalLeft, Stay, Pushed
  <2>3. \A tk : Fits(f, tk) /\ "mid" \notin Closers(tk) => Fits(g, tk) /\ Target(g, tk) = Target(f, tk)
    BY <1>4, <1>6 DEF Fits, Target, Logic
  <2>4. Fits(g, "mid")
    BY <1>4, <1>6 DEF Fits
  <2>5. "mid" \notin Logic \cup {"while"} /\ "mid" \in ExpToks
    BY DEF Logic, ExpToks
  <2>6. Covers(stack, stack', "mid", Len(stack)) /\ stack'[Len(stack)] = g /\ stack' # <<>>
        /\ Len(stack') = Len(stack)
    BY <1>2, <1>3, <1>4, <2>1, <2>2, <2>3, <2>4, <2>5, CoversReplaced
  <2> QED
    BY <1>3, <2>6
<1>10. /\ f.end \in 1 .. Len(blocks) /\ f.rhs \in 1 .. Len(blocks)
       /\ blocks[f.rhs] = <<>> /\ f.rhs # m.curr
  <2>1. f.rhs \in PendingOf(Last(stack)) /\ f.end \in PendingOf(Last(stack))
    BY <1>3, <1>4 DEF PendingOf, Top
  <2> QED
    BY <1>2, <2>1, PendingAreBlocks
<1>11. PICK curr, n, inst : /\ curr = m.curr /\ n = Len(blocks[m.curr])
                            /\ inst = BranchOf(f.kind, exp, f.rhs, f.end)
  OBVIOUS
<1>12. EmittedAt(blocks, blocks', curr, inst)
  <2>1. blocks' = Emit(blocks, curr, inst)
    BY <1>3, <1>11 DEF LogicalLeft, LogicalBranch, BranchOf
  <2> QED
    BY <1>2, <1>11, <2>1, EmitIs
<1>13. /\ IsBlocks(blocks') /\ Extends(blocks, blocks') /\ blocks'[f.rhs] = <<>>
       /\ ~ Terminated(blocks[curr]) => At(blocks', curr, n + 1, inst)
  BY <1>2, <1>10, <1>11, <1>12, EmittedHere
<1>14. PICK more : more = rel \cup {} \cup NewFront(prog', stack', blocks', f.rhs, "nothing", exp')
  OBVIOUS
<1>15. <<h + 1, f.rhs, 1, Plain>> \in more /\ rel \subseteq more
  <2>1. ~ Terminated(blocks'[f.rhs]) /\ Len(blocks'[f.rhs]) + 1 = 1
    BY <1>13, NothingIsOpen
  <2>2. <<h + 1, f.rhs, 1, Plain>> \in NewFront(prog', stack', blocks', f.rhs, "nothing", exp')
    BY <1>3, <1>9, <2>1 DEF NewFront
  <2> QED
    BY <1>14, <2>2
<1>16. Lands(prog, stack, prog', more, "mid", d)
  BY ClosesNothing
<1>17. PICK v : v = f.var
  OBVIOUS
<1>18. /\ v \in 1 .. Len(prog) /\ prog[v].tok = f.kind /\ prog[v].depth = d
       /\ OpenTo(prog, v, Len(prog) + 1) /\ NoMid(prog, v, Len(prog) + 1)
  <2>1. LogicFrame(prog, f, d)
    BY <1>1, <1>2, <1>3, <1>4 DEF Match, FrameOK
  <2>2. f.stage # "rhs"
    BY <1>4
  <2> QED
    BY <1>17, <2>1, <2>2, Zenon DEF LogicFrame
<1>19. /\ prog'[v] = prog[v] /\ v \in 1 .. Len(prog') /\ OpenTo(prog', v, h) /\ NoMid(prog', v, h)
  <2>1. h \in 1 .. Len(prog) + 1 /\ h = Len(prog) + 1
    BY <1>2, <1>8
  <2> QED
    BY <1>3, <1>8, <1>18, <2>1, LongerOpen, LongerMid
<1>20. FrameOK(prog', g, d, more)
  <2>1. OpenTo(prog', v, Len(prog') + 1)
    <3>1. "mid" \notin Closers(prog[v].tok)
      BY WhatCloses
    <3> QED
      BY <1>7, <1>18, <3>1, OneMoreNode
  <2>2. ~ NoMid(prog', v, Len(prog') + 1)
    <3>1. h \in v + 1 .. (Len(prog') + 1) - 1
      BY <1>2, <1>3, <1>8, <1>18
    <3>2. prog'[h].depth = prog'[v].depth
      BY <1>8, <1>18, <1>19
    <3> QED
      BY <1>8, <3>1, <3>2 DEF NoMid
  <2>3. LogicFrame(prog', g, d)
    BY <1>6, <1>17, <1>18, <1>19, <2>1, <2>2 DEF LogicFrame
  <2> QED
    BY <1>4, <1>6, <2>3 DEF FrameOK, Logic
<1>21. Opener(prog', v, h)
  BY <1>4, <1>8, <1>18, <1>19 DEF Opener
<1>22. Goes(prog', stack', more, h, f.end)
  <2>1. OpenTo(prog', Len(prog'), Len(prog') + 1)
    <3>1. Closers("mid") # {}
      BY DEF Closers
    <3> QED
      BY <1>7, <3>1, NewNodeIsOpen
  <2>2. d \in 1 .. Len(stack') /\ f.end = Target(stack'[d], "mid")
    BY <1>2, <1>3, <1>6, <1>9 DEF Target
  <2> QED
    BY <1>3, <1>8, <2>1, <2>2 DEF Goes
<1>23. NodeStep(stack, void, blocks, m.curr, done, exp, prog', stack', blocks', more)
  <2>1. SUFFICES ASSUME NEW c, ~ Terminated(blocks[curr]), c = Ready(exp)
                 PROVE  Step(prog', stack', void, blocks', more, h, curr, n + 1, c)
    BY <1>3, <1>4, <1>11 DEF NodeStep
  <2>2. At(blocks', curr, n + 1, BranchOf(prog'[v].tok, exp, f.rhs, f.end))
    BY <1>11, <1>13, <1>18, <1>19, <2>1
  <2>3. MidStep(prog', stack', blocks', more, h, curr, n + 1, c)
    BY <1>15, <1>21, <1>22, <2>1, <2>2 DEF MidStep
  <2> QED
    BY <1>8, <2>3 DEF Step, Logic
<1>24. Match(prog', stack', void, blocks', f.rhs, "nothing", exp', more)
  <2>1. Len(stack') = d => FrameOK(prog', stack'[d], d, more)
    BY <1>9, <1>20
  <2> QED
    BY <1>1, <1>2, <1>7, <1>9, <1>13, <1>14, <1>16, <1>23, <2>1, NoExtra, MatchGoesOn
<1> QED
  BY <1>7, <1>24 DEF Matching

LEMMA LogicalRightMatches ==
    ASSUME Pass, stack # <<>>, Matching, LogicalRight
    PROVE  Matching'
<1>1. PICK rel : Match(prog, stack, void, blocks, m.curr, done, exp, rel)
  BY DEF Matching
<1>2. /\ Typed /\ IsBlocks(blocks) /\ m.curr \in 1 .. Len(blocks) /\ Len(blocks) \in Nat
      /\ stack \in Seq(Frame) /\ Len(stack) \in Nat \ {0} /\ Len(prog) \in Nat
      /\ Top = stack[Len(stack)] /\ Top \in Frame /\ prog \in Seq(ANode)
      /\ Reserved(stack, blocks, bbs, m.curr, {}, {}) /\ Stacked(stack)
  BY Context DEF Pass
<1>3. PICK f, d, h : f = Top /\ d = Len(stack) /\ h = Len(prog')
  OBVIOUS
<1>4. /\ f.kind \in Logic /\ f.stage = "rhs" /\ f = stack[d] /\ done = "exp"
      /\ f \in [kind : Logic, stage : {"lhs", "rhs"}, rhs : Nat, end : Nat, var : Nat]
  BY <1>2, <1>3, FramesAre DEF LogicalRight, Resumes, Logic
<1>5. PICK v, end : v = f.var /\ end = f.end
  OBVIOUS
<1>6. /\ void' = void /\ done' = "exp" /\ exp' = v /\ m'.curr = end /\ stack' = Front(stack)
      /\ Node1(prog, prog', "endop", d)
  <2>1. m \in [curr : Nat, cond : Nat, end : Nat, returned : BOOLEAN]
    BY <1>2 DEF Typed
  <2>2. m' = [m EXCEPT !.curr = end]
    BY <1>3, <1>5 DEF LogicalRight
  <2>3. void' = void /\ done' = "exp" /\ exp' = v /\ Log("endop") /\ stack' = Front(stack)
    BY <1>3, <1>5 DEF LogicalRight, Yields
  <2> QED
    BY <1>2, <1>3, <2>1, <2>2, <2>3, NodeIsLogged
<1>7. /\ Longer(prog, prog') /\ h = Len(prog) + 1 /\ prog'[h].tok = "endop"
      /\ prog'[h].depth = d /\ h \in Nat /\ h \in 1 .. Len(prog')
      /\ \A i \in 1 .. Len(prog) : prog'[i] = prog[i]
  BY <1>2, <1>3, <1>6 DEF Node1, Longer
<1>8. Covers(stack, stack', "endop", d) /\ stack' # <<>> /\ Len(stack') # d
  <2>1. Closers("endop") = {} /\ "endop" \notin Logic \cup {"while"} /\ "endop" \in ExpToks
    BY WhatCloses DEF Logic, ExpToks
  <2>2. \A tk : Fits(f, tk) => "endop" \in Closers(tk)
    BY <1>4, WhatCloses DEF Fits, Logic
  <2>3. Covers(stack, stack', "endop", Len(stack))
    BY <1>2, <1>3, <1>4, <1>6, <2>1, <2>2, CoversPopped
  <2>4. Len(stack') = Len(stack) - 1
    BY <1>2, <1>6, FrontIs
  <2>5. Last(stack).kind # "block"
    BY <1>3, <1>4 DEF Top, Logic
  <2>6. stack' # <<>>
    BY <1>2, <1>6, <2>5, CalmIs
  <2> QED
    BY <1>2, <1>3, <2>3, <2>4, <2>6
<1>9. end \in 1 .. Len(blocks) /\ blocks[end] = <<>> /\ end # m.curr
  <2>1. end \in PendingOf(Last(stack))
    BY <1>3, <1>4, <1>5 DEF PendingOf, Top
  <2> QED
    BY <1>2, <2>1, PendingAreBlocks
<1>10. PICK curr, n, one, two, three :
           /\ curr = m.curr /\ n = Len(blocks[m.curr])
           /\ one = Store(exp, v) /\ two = Jump(end) /\ three = LoadFrom(v)
  OBVIOUS
<1>11. PICK b2 : b2 = Emit(Emit(blocks, curr, one), curr, two)
  OBVIOUS
<1>12. blocks' = Emit(b2, end, three) /\ ~ IsTerminator(one) /\ ~ IsTerminator(three)
  BY <1>3, <1>5, <1>10, <1>11, TargetsAre DEF LogicalRight, ResultBlock
<1>13. /\ ~ Terminated(blocks[curr]) => /\ At(b2, curr, n + 1, one)
                                        /\ At(b2, curr, n + 2, two)
       /\ IsBlocks(b2) /\ Len(b2) = Len(blocks) /\ Extends(blocks, b2)
       /\ b2[end] = <<>> /\ n \in Nat
  <2>1. curr \in 1 .. Len(blocks) /\ end # curr
    BY <1>2, <1>9, <1>10
  <2>2. /\ ~ Terminated(blocks[curr]) => /\ At(b2, curr, Len(blocks[curr]) + 1, one)
                                         /\ At(b2, curr, Len(blocks[curr]) + 2, two)
        /\ IsBlocks(b2) /\ Len(b2) = Len(blocks) /\ Extends(blocks, b2)
        /\ \A x \in 1 .. Len(blocks) : x # curr => b2[x] = blocks[x]
    <3>1. PICK b1 : b1 = Emit(blocks, curr, one)
      OBVIOUS
    <3>2. b2 = Emit(b1, curr, two) /\ ~ IsTerminator(one) /\ IsBlocks(blocks)
      BY <1>2, <1>11, <1>12, <3>1
    <3> QED
      BY ONLY <2>1, <3>1, <3>2, TwoHere
  <2>3. n \in Nat /\ n = Len(blocks[curr])
    BY <1>2, <1>10, BlocksAre
  <2> QED
    BY <1>9, <2>1, <2>2, <2>3
<1>14. /\ IsBlocks(blocks') /\ Extends(b2, blocks') /\ Extends(blocks, blocks')
       /\ At(blocks', end, 1, three) /\ Len(blocks'[end]) = 1 /\ ~ Terminated(blocks'[end])
       /\ ~ Terminated(blocks[curr]) => /\ At(blocks', curr, n + 1, one)
                                        /\ At(blocks', curr, n + 2, two)
  <2>1. end \in 1 .. Len(b2) /\ ~ Terminated(b2[end]) /\ Len(b2[end]) = 0
    BY <1>9, <1>13, NothingIsOpen
  <2>2. EmittedAt(b2, blocks', end, three)
    BY <1>12, <1>13, <2>1, EmitIs
  <2>3. /\ At(blocks', end, Len(b2[end]) + 1, three) /\ Len(blocks'[end]) = Len(b2[end]) + 1
        /\ ~ Terminated(blocks'[end])
        /\ IsBlocks(blocks') /\ Extends(b2, blocks')
    <3>1. IsBlocks(b2) /\ ~ IsTerminator(three)
      BY <1>12, <1>13
    <3>2. /\ ~ Terminated(b2[end]) => /\ At(blocks', end, Len(b2[end]) + 1, three)
                                      /\ Len(blocks'[end]) = Len(b2[end]) + 1
                                      /\ Terminated(blocks'[end]) <=> IsTerminator(three)
          /\ IsBlocks(blocks') /\ Extends(b2, blocks')
      BY <2>1, <2>2, <3>1, EmittedHere, Zenon
    <3> QED
      BY <2>1, <3>1, <3>2, Zenon
  <2>4. Extends(blocks, blocks')
    BY <1>2, <1>13, <2>3, ExtendsOn
  <2>5. \A k, inst : At(b2, curr, k, inst) => At(blocks', curr, k, inst)
    BY <1>13, <2>3, ExtendedAt
  <2>6. Len(b2[end]) + 1 = 1
    BY <2>1
  <2>7. At(blocks', end, 1, three) /\ Len(blocks'[end]) = 1
    BY ONLY <2>3, <2>6
  <2>8. ~ Terminated(blocks[curr]) => /\ At(blocks', curr, n + 1, one)
                                     /\ At(blocks', curr, n + 2, two)
    BY <1>13, <2>5
  <2> QED
    BY <2>3, <2>4, <2>7, <2>8
<1>15. PICK extra : extra = {<<h, end, 1, InVar(v)>>} \cup
                            IF Terminated(blocks[curr]) THEN {} ELSE {<<h, curr, n + 2, InVar(v)>>}
  OBVIOUS
<1>16. PICK more : more = rel \cup extra \cup NewFront(prog', stack', blocks', end, "exp", v)
  OBVIOUS
<1>17. /\ ~ Terminated(blocks[curr]) => <<h, curr, n + 2, InVar(v)>> \in more
       /\ <<h, end, 1, InVar(v)>> \in more
       /\ <<h + 1, end, 2, Ready(v)>> \in more
       /\ rel \subseteq more
  <2>1. <<h + 1, end, 2, Ready(v)>> \in NewFront(prog', stack', blocks', end, "exp", v)
    BY <1>3, <1>8, <1>14 DEF NewFront
  <2> QED
    BY <1>15, <1>16, <2>1
<1>18. /\ v \in 1 .. Len(prog) /\ prog[v].tok \in Logic /\ prog[v].depth = d
       /\ OpenTo(prog, v, Len(prog) + 1) /\ ~ NoMid(prog, v, Len(prog) + 1)
  <2>1. LogicFrame(prog, f, d)
    BY <1>1, <1>2, <1>3, <1>4 DEF Match, FrameOK
  <2> QED
    BY <1>4, <1>5, <2>1, Zenon DEF LogicFrame
<1>19. prog'[v] = prog[v] /\ OpenTo(prog', v, h) /\ ~ NoMid(prog', v, h)
  <2>1. h \in 1 .. Len(prog) + 1 /\ h = Len(prog) + 1
    BY <1>2, <1>7
  <2> QED
    BY <1>3, <1>7, <1>18, <2>1, LongerOpen, LongerMid
<1>20. Lands(prog, stack, prog', more, "endop", d)
  <2>1. SUFFICES ASSUME NEW j \in 1 .. Len(prog), OpenTo(prog, j, Len(prog) + 1),
                        prog[j].depth = d, "endop" \in Closers(prog[j].tok)
                 PROVE  Landed(prog', more, j, h, Target(f, prog[j].tok))
    BY <1>3, <1>4 DEF Lands
  <2>2. prog'[j] = prog[j] /\ prog[j].tok \in {"and", "or", "mid"}
    BY <1>7, <2>1, WhatCloses
  <2>3. ASSUME prog[j].tok = "mid", NEW o, Opener(prog', o, j)
        PROVE  o = v
    <3>1. /\ Opener(prog, o, j) /\ o \in 1 .. Len(prog) /\ prog[o].tok \in Logic
          /\ prog[o].depth = d /\ OpenTo(prog, o, j)
      <4>1. Opener(prog, o, j)
        BY <1>7, <2>3, LongerOpener
      <4> QED
        BY <1>2, <2>1, <4>1 DEF Opener, OpenTo
    <3>2. OpenTo(prog, o, Len(prog) + 1)
      <4>1. \A x \in o + 1 .. Len(prog) : x \in o + 1 .. j - 1 \/ x = j \/ x \in j + 1 .. Len(prog)
        BY <1>2, <3>1
      <4>2. \A x : Closes(prog, o, x) => Closes(prog, j, x) /\ x # j
        <5>1. Closers(prog[o].tok) = {"endop"} /\ Closers(prog[j].tok) = {"endop"}
          BY <2>3, <3>1 DEF Closers
        <5> QED
          BY <2>1, <2>3, <3>1, <5>1 DEF Closes
      <4>3. Closers(prog[o].tok) # {} /\ o \in 1 .. (Len(prog) + 1) - 1 /\ (Len(prog) + 1) - 1 = Len(prog)
        <5>1. Closers(prog[o].tok) = {"endop"}
          BY <3>1 DEF Closers
        <5> QED
          BY <1>2, <3>1, <5>1
      <4> QED
        BY <2>1, <3>1, <4>1, <4>2, <4>3 DEF OpenTo
    <3>3. LogOK(prog, stack) /\ Len(prog) + 1 \in 1 .. Len(prog) + 1
      BY <1>1, <1>2 DEF Match
    <3> QED
      BY <1>2, <1>18, <3>1, <3>2, <3>3, OneOperator
  <2>4. prog[j].tok = "mid" => Target(f, prog[j].tok) = end
    BY <1>5 DEF Target
  <2> QED
    BY <1>17, <2>2, <2>3, <2>4 DEF Landed
<1>21. NodeStep(stack, void, blocks, m.curr, done, exp, prog', stack', blocks', more)
  <2>1. SUFFICES ASSUME NEW c, ~ Terminated(blocks[curr]), c = Ready(exp)
                 PROVE  Step(prog', stack', void, blocks', more, h, curr, n + 1, c)
    BY <1>3, <1>4, <1>10 DEF NodeStep
  <2>2. <<h, curr, (n + 1) + 1, InVar(v)>> \in more /\ At(blocks', curr, n + 1, Store(exp, v))
    BY <1>10, <1>13, <1>14, <1>17, <2>1
  <2>3. EndOpStep(prog', blocks', more, h, curr, n + 1, c)
    BY <1>18, <1>19, <2>1, <2>2 DEF EndOpStep
  <2> QED
    BY <1>7, <2>3 DEF Step, Logic
<1>22. ExtraSteps(void, prog', stack', blocks', more, extra)
  <2>1. SUFFICES ASSUME NEW i, NEW b, NEW k, NEW c, <<i, b, k, c>> \in extra
                 PROVE  i \in 1 .. Len(prog') /\ Step(prog', stack', void, blocks', more, i, b, k, c)
    BY DEF ExtraSteps
  <2>2. \/ i = h /\ b = end /\ k = 1 /\ c = InVar(v)
        \/ i = h /\ b = curr /\ k = n + 2 /\ c = InVar(v) /\ ~ Terminated(blocks[curr])
    BY <1>15, <2>1
  <2>3. EndOpStep(prog', blocks', more, i, b, k, c)
    <3>1. CASE i = h /\ b = end /\ k = 1 /\ c = InVar(v)
      <4>1. <<i + 1, b, k + 1, Ready(v)>> \in more /\ At(blocks', b, k, LoadFrom(v))
        BY <1>10, <1>14, <1>17, <3>1
      <4> QED
        BY <1>18, <1>19, <3>1, <4>1 DEF EndOpStep
    <3>2. CASE i = h /\ b = curr /\ k = n + 2 /\ c = InVar(v) /\ ~ Terminated(blocks[curr])
      <4>1. <<i, end, 1, InVar(v)>> \in more /\ At(blocks', b, k, Jump(end))
        BY <1>10, <1>14, <1>17, <3>2
      <4> QED
        BY <1>18, <1>19, <3>2, <4>1 DEF EndOpStep
    <3> QED
      BY <2>2, <3>1, <3>2
  <2>4. i = h
    BY <2>2
  <2>5. Step(prog', stack', void, blocks', more, i, b, k, c)
    BY <1>7, <2>3, <2>4 DEF Step, Logic
  <2> QED
    BY <1>7, <2>4, <2>5
<1>23. Match(prog', stack', void, blocks', end, "exp", v, more)
  BY <1>1, <1>2, <1>6, <1>8, <1>14, <1>16, <1>20, <1>21, <1>22, MatchGoesOn
<1> QED
  BY <1>6, <1>23 DEF Matching

\* Two blocks are left.
LEMMA LeftAt ==
    ASSUME NEW bb, IsBlocks(bb), NEW a \in 1 .. Len(bb), NEW b \in 1 .. Len(bb), NEW one, NEW two,
           NEW dd, dd = Emit(bb, a, one), NEW cc, cc = Emit(dd, b, two)
    PROVE  /\ ~ Terminated(bb[a]) => At(cc, a, Len(bb[a]) + 1, one)
           /\ IsBlocks(cc) /\ Len(cc) = Len(bb) /\ Extends(bb, cc)
           /\ \A x \in 1 .. Len(bb) : x # a /\ x # b => cc[x] = bb[x]
<1>1. /\ ~ Terminated(bb[a]) => At(dd, a, Len(bb[a]) + 1, one)
      /\ IsBlocks(dd) /\ Len(dd) = Len(bb) /\ Extends(bb, dd)
      /\ \A x \in 1 .. Len(bb) : x # a => dd[x] = bb[x]
  BY EmitIs, EmittedHere
<1>2. /\ IsBlocks(cc) /\ Len(cc) = Len(dd) /\ Extends(dd, cc)
      /\ \A x \in 1 .. Len(dd) : x # b => cc[x] = dd[x]
  <2>1. IsBlocks(dd) /\ b \in 1 .. Len(dd)
    BY <1>1
  <2>2. EmittedAt(dd, cc, b, two)
    BY <2>1, EmitIs
  <2> QED
    BY <2>1, <2>2, EmittedExtends DEF EmittedAt
<1>3. Extends(bb, cc)
  BY <1>1, <1>2, ExtendsOn
<1>4. \A k : At(dd, a, k, one) => At(cc, a, k, one)
  BY <1>1, <1>2, ExtendedAt
<1> QED
  BY <1>1, <1>2, <1>3, <1>4

\* The blocks named by the frame on top.
LEMMA NamedByTop ==
    ASSUME Pass, stack # <<>>
    PROVE  /\ \A b \in PendingOf(Top) : /\ b \in 1 .. Len(blocks) /\ blocks[b] = <<>>
                                        /\ b # m.curr /\ b \notin FilledOf(Top)
           /\ \A b \in FilledOf(Top) : b \in 1 .. Len(blocks)
           /\ Apart(Top)
<1>1. /\ Reserved(stack, blocks, bbs, m.curr, {}, {}) /\ Len(stack) \in 1 .. Len(stack)
      /\ Top = stack[Len(stack)]
  BY Context DEF Pass
<1>2. PICK d \in 1 .. Len(stack) : Top = stack[d]
  BY <1>1
<1>3. /\ \A b \in PendingOf(stack[d]) : Spare(blocks, m.curr, b)
      /\ \A b \in FilledOf(stack[d]) : b \in 1 .. Len(blocks)
      /\ PendingOf(stack[d]) \cap FilledOf(stack[d]) = {}
      /\ Apart(stack[d])
  BY <1>1 DEF Reserved
<1> QED
  BY <1>2, <1>3 DEF Spare

\* The frame on top and the kind of statement it is of.
LEMMA IfOnTop ==
    ASSUME Pass, stack # <<>>, NEW f, f = Top, f.kind = "if", f.stage \in {"then", "else"}
    PROVE  /\ f \in [kind : {"if"}, stage : {"then", "else"}, yes : Nat, no : Nat, end : Nat]
           /\ f = stack[Len(stack)] /\ Len(stack) \in Nat \ {0}
           /\ NoLogic(stack)
<1>1. /\ stack \in Seq(Frame) /\ Len(stack) \in Nat \ {0} /\ Top = stack[Len(stack)] /\ Top \in Frame
      /\ Stacked(stack)
  BY Context
<1>2. f \in [kind : {"if"}, stage : {"then", "else"}, yes : Nat, no : Nat, end : Nat]
  BY <1>1, FramesAre
<1>3. NoLogic(stack)
  BY <1>1, NoLogicBelow DEF Logic
<1> QED
  BY <1>1, <1>2, <1>3

LEMMA IfThenMatches ==
    ASSUME Pass, stack # <<>>, Matching, IfThen
    PROVE  Matching'
<1>1. PICK rel : Match(prog, stack, void, blocks, m.curr, done, exp, rel)
  BY DEF Matching
<1>2. /\ Typed /\ IsBlocks(blocks) /\ m.curr \in 1 .. Len(blocks) /\ Len(blocks) \in Nat
      /\ stack \in Seq(Frame) /\ Len(stack) \in Nat \ {0} /\ Len(prog) \in Nat
      /\ Top = stack[Len(stack)] /\ Stacked(stack)
  BY Context DEF Pass
<1>3. PICK d, h : d = Len(stack) /\ h = Len(prog')
  OBVIOUS
<1>4. Top.kind = "if" /\ Top.stage = "cond" /\ done = "exp"
  BY DEF IfThen, Resumes
<1>5. PICK yes, no, g : /\ yes = New(1) /\ no = New(2)
                        /\ g = [kind |-> "if", stage |-> "then",
                                yes |-> New(1), no |-> New(2), end |-> New(3)]
  OBVIOUS
<1>6. g.kind = "if" /\ g.stage = "then" /\ g.no = no /\ yes = Len(blocks) + 1
  BY <1>5 DEF New
<1>7. /\ void' = void /\ done' = "nothing" /\ m'.curr = yes
      /\ Node1(prog, prog', "then", d)
  <2>1. m \in [curr : Nat, cond : Nat, end : Nat, returned : BOOLEAN]
    BY <1>2 DEF Typed
  <2>2. m' = [m EXCEPT !.curr = yes]
    BY <1>5 DEF IfThen
  <2>3. void' = void /\ done' = "nothing" /\ Log("then")
    BY DEF IfThen, Stay
  <2> QED
    BY <1>2, <1>3, <2>1, <2>2, <2>3, NodeIsLogged
<1>8. /\ prog'[h].tok = "then" /\ prog'[h].depth = d /\ h \in 1 .. Len(prog') /\ h \in Nat
  BY <1>2, <1>3, <1>7 DEF Node1
<1>9. Covers(stack, stack', "then", d) /\ stack'[d] = g /\ stack' # <<>> /\ Len(stack') = d
  <2>1. PICK u : u = Front(stack)
    OBVIOUS
  <2>2. Pushed(stack', u, g)
    BY <1>5, <2>1 DEF IfThen, Stay, Pushed
  <2>3. \A tk : ~ Fits(stack[Len(stack)], tk)
    <3>1. PICK f : f = stack[Len(stack)]
      OBVIOUS
    <3>2. f.kind = "if" /\ f.stage = "cond"
      BY <1>2, <1>4, <3>1
    <3>3. \A tk : ~ Fits(f, tk)
      BY <3>2, NothingFits
    <3> QED
      BY <3>1, <3>3
  <2>4. Fits(g, "then")
    BY <1>6 DEF Fits
  <2>5. NoLogic(stack) /\ "then" \notin Logic \cup {"while"}
    BY <1>2, <1>4, NoLogicBelow DEF Logic
  <2>6. Covers(stack, stack', "then", Len(stack)) /\ stack'[Len(stack)] = g /\ stack' # <<>>
        /\ Len(stack') = Len(stack)
    BY <1>2, <2>1, <2>2, <2>3, <2>4, <2>5, CoversReplaced
  <2> QED
    BY <1>3, <2>6
<1>10. PICK curr, n, inst : /\ curr = m.curr /\ n = Len(blocks[m.curr])
                            /\ inst = Branch(exp, yes, no)
  OBVIOUS
<1>11. /\ IsBlocks(blocks') /\ Extends(blocks, blocks') /\ blocks'[yes] = <<>>
       /\ ~ Terminated(blocks[curr]) => At(blocks', curr, n + 1, inst)
  <2>1. blocks' = Emit(Fresh(blocks, 3), curr, inst)
    BY <1>5, <1>10 DEF IfThen
  <2>2. yes \in Len(blocks) + 1 .. Len(blocks) + 3 /\ 3 \in Nat
    BY <1>2, <1>6
  <2>3. IsBlocks(blocks) /\ curr \in 1 .. Len(blocks)
    BY <1>2, <1>10
  <2>4. /\ IsBlocks(blocks') /\ Extends(blocks, blocks') /\ blocks'[yes] = <<>>
        /\ ~ Terminated(blocks[curr]) => At(blocks', curr, Len(blocks[curr]) + 1, inst)
    BY ONLY <2>1, <2>2, <2>3, GrownHere
  <2> QED
    BY <1>10, <2>4
<1>12. PICK more : more = rel \cup {} \cup NewFront(prog', stack', blocks', yes, "nothing", exp')
  OBVIOUS
<1>13. <<h + 1, yes, 1, Plain>> \in more
  <2>1. ~ Terminated(blocks'[yes]) /\ Len(blocks'[yes]) + 1 = 1
    BY <1>11, NothingIsOpen
  <2>2. <<h + 1, yes, 1, Plain>> \in NewFront(prog', stack', blocks', yes, "nothing", exp')
    BY <1>3, <1>9, <2>1 DEF NewFront
  <2> QED
    BY <1>12, <2>2
<1>14. Lands(prog, stack, prog', more, "then", d)
  BY ClosesNothing
<1>15. FrameOK(prog', g, d, more)
  BY <1>6 DEF FrameOK, Logic
<1>16. Goes(prog', stack', more, h, no)
  <2>1. OpenTo(prog', Len(prog'), Len(prog') + 1)
    <3>1. Closers("then") # {}
      BY DEF Closers, Logic
    <3> QED
      BY <1>7, <3>1, NewNodeIsOpen
  <2>2. d \in 1 .. Len(stack') /\ no = Target(stack'[d], "then")
    BY <1>2, <1>3, <1>6, <1>9 DEF Target
  <2> QED
    BY <1>3, <1>8, <2>1, <2>2 DEF Goes
<1>17. NodeStep(stack, void, blocks, m.curr, done, exp, prog', stack', blocks', more)
  <2>1. SUFFICES ASSUME NEW c, ~ Terminated(blocks[curr]), c = Ready(exp)
                 PROVE  Step(prog', stack', void, blocks', more, h, curr, n + 1, c)
    BY <1>3, <1>4, <1>10 DEF NodeStep
  <2>2. At(blocks', curr, n + 1, Branch(exp, yes, no))
    BY <1>10, <1>11, <2>1
  <2>3. ThenStep(prog', stack', blocks', more, h, curr, n + 1, c)
    BY <1>13, <1>16, <2>1, <2>2 DEF ThenStep
  <2> QED
    BY <1>8, <2>3 DEF Step, Logic
<1>18. Match(prog', stack', void, blocks', yes, "nothing", exp', more)
  <2>1. Len(stack') = d => FrameOK(prog', stack'[d], d, more)
    BY <1>9, <1>15
  <2> QED
    BY <1>1, <1>2, <1>7, <1>9, <1>11, <1>12, <1>14, <1>17, <2>1, NoExtra, MatchGoesOn
<1> QED
  BY <1>7, <1>18 DEF Matching

\* The frame that an open node of its depth is of.
LEMMA OpenOnTop ==
    ASSUME NEW p, NEW s, LogOK(p, s), NEW d, NEW f, f = s[d], NEW j \in 1 .. Len(p),
           OpenTo(p, j, Len(p) + 1), p[j].depth = d
    PROVE  Fits(f, p[j].tok)
BY DEF LogOK

LEMMA IfElseMatches ==
    ASSUME Pass, stack # <<>>, Matching, IfElse
    PROVE  Matching'
<1>1. PICK rel : Match(prog, stack, void, blocks, m.curr, done, exp, rel)
  BY DEF Matching
<1>2. /\ Typed /\ IsBlocks(blocks) /\ m.curr \in 1 .. Len(blocks) /\ Len(blocks) \in Nat
      /\ stack \in Seq(Frame) /\ Len(stack) \in Nat \ {0} /\ Len(prog) \in Nat
      /\ Top = stack[Len(stack)] /\ Stacked(stack)
  BY Context DEF Pass
<1>3. PICK f, d, h : f = Top /\ d = Len(stack) /\ h = Len(prog')
  OBVIOUS
<1>4. /\ f \in [kind : {"if"}, stage : {"then", "else"}, yes : Nat, no : Nat, end : Nat]
      /\ f.kind = "if" /\ f.stage = "then" /\ f = stack[d] /\ NoLogic(stack) /\ d \in Nat \ {0}
  <2>1. Top.kind = "if" /\ Top.stage = "then"
    BY DEF IfElse, Resumes
  <2> QED
    BY <1>3, <2>1, IfOnTop
<1>5. PICK no, end, g : no = f.no /\ end = f.end /\ g = [f EXCEPT !.stage = "else"]
  OBVIOUS
<1>6. g.kind = "if" /\ g.stage = "else" /\ g.end = end
  BY <1>4, <1>5
<1>7. /\ void' = void /\ done' = "nothing" /\ m'.curr = no
      /\ Node1(prog, prog', "else", d)
  <2>1. m \in [curr : Nat, cond : Nat, end : Nat, returned : BOOLEAN]
    BY <1>2 DEF Typed
  <2>2. m' = [m EXCEPT !.curr = no, !.returned = FALSE]
    BY <1>3, <1>5 DEF IfElse
  <2>3. void' = void /\ done' = "nothing" /\ Log("else")
    BY DEF IfElse, Stay
  <2> QED
    BY <1>2, <1>3, <2>1, <2>2, <2>3, NodeIsLogged
<1>8. /\ prog'[h].tok = "else" /\ prog'[h].depth = d /\ h \in 1 .. Len(prog') /\ h \in Nat
      /\ \A i \in 1 .. Len(prog) : prog'[i] = prog[i]
  BY <1>2, <1>3, <1>7 DEF Node1, Longer
<1>9. \A tk : Fits(f, tk) <=> tk = "then"
  BY <1>4 DEF Fits, Logic
<1>10. Covers(stack, stack', "else", d) /\ stack'[d] = g /\ stack' # <<>> /\ Len(stack') = d
  <2>1. PICK u : u = Front(stack)
    OBVIOUS
  <2>2. Pushed(stack', u, g)
    BY <1>3, <1>5, <2>1 DEF IfElse, Stay, Pushed
  <2>3. \A tk : Fits(f, tk) => "else" \in Closers(tk)
    BY <1>9, WhatCloses
  <2>4. Fits(g, "else")
    BY <1>6 DEF Fits
  <2>5. "else" \notin Logic \cup {"while"}
    BY DEF Logic
  <2>6. Covers(stack, stack', "else", Len(stack)) /\ stack'[Len(stack)] = g /\ stack' # <<>>
        /\ Len(stack') = Len(stack)
    BY <1>2, <1>3, <1>4, <2>1, <2>2, <2>3, <2>4, <2>5, CoversReplaced
  <2> QED
    BY <1>3, <2>6
<1>11. PICK curr, n, inst : curr = m.curr /\ n = Len(blocks[m.curr]) /\ inst = Jump(end)
  OBVIOUS
<1>12. /\ IsBlocks(blocks') /\ Extends(blocks, blocks') /\ blocks'[no] = <<>>
       /\ ~ Terminated(blocks[curr]) => At(blocks', curr, n + 1, inst)
  <2>1. PICK dd : dd = Emit(blocks, curr, inst)
    OBVIOUS
  <2>2. blocks' = Emit(dd, f.yes, inst)
    BY <1>3, <1>5, <1>11, <2>1 DEF IfElse, ThenLeft
  <2>3. /\ no \in 1 .. Len(blocks) /\ blocks[no] = <<>> /\ no # curr /\ no # f.yes
        /\ f.yes \in 1 .. Len(blocks)
    <3>1. no \in PendingOf(f) /\ FilledOf(f) = {f.yes}
      BY <1>4, <1>5 DEF PendingOf, FilledOf, Logic
    <3> QED
      BY <1>3, <1>11, <3>1, NamedByTop
  <2>4. curr \in 1 .. Len(blocks) /\ IsBlocks(blocks)
    BY <1>2, <1>11
  <2>5. /\ ~ Terminated(blocks[curr]) => At(blocks', curr, Len(blocks[curr]) + 1, inst)
        /\ IsBlocks(blocks') /\ Extends(blocks, blocks')
        /\ \A x \in 1 .. Len(blocks) : x # curr /\ x # f.yes => blocks'[x] = blocks[x]
    BY ONLY <2>1, <2>2, <2>3, <2>4, LeftAt
  <2> QED
    BY <1>11, <2>3, <2>5
<1>13. PICK more : more = rel \cup {} \cup NewFront(prog', stack', blocks', no, "nothing", exp')
  OBVIOUS
<1>14. <<h + 1, no, 1, Plain>> \in more
  <2>1. ~ Terminated(blocks'[no]) /\ Len(blocks'[no]) + 1 = 1
    BY <1>12, NothingIsOpen
  <2>2. <<h + 1, no, 1, Plain>> \in NewFront(prog', stack', blocks', no, "nothing", exp')
    BY <1>3, <1>10, <2>1 DEF NewFront
  <2> QED
    BY <1>13, <2>2
<1>15. Lands(prog, stack, prog', more, "else", d)
  <2>1. SUFFICES ASSUME NEW j \in 1 .. Len(prog), "else" \in Closers(prog[j].tok)
                 PROVE  Landed(prog', more, j, h, Target(f, prog[j].tok))
    BY <1>3, <1>4 DEF Lands
  <2>2. prog[j].tok = "then" /\ prog'[j] = prog[j]
    BY <1>8, <2>1, WhatCloses
  <2> QED
    BY <1>5, <1>8, <1>14, <2>2 DEF Landed, Target
<1>16. FrameOK(prog', g, d, more)
  BY <1>6 DEF FrameOK, Logic
<1>17. Goes(prog', stack', more, h, end)
  <2>1. OpenTo(prog', Len(prog'), Len(prog') + 1)
    <3>1. Closers("else") # {}
      BY DEF Closers, Logic
    <3> QED
      BY <1>7, <3>1, NewNodeIsOpen
  <2>2. d \in 1 .. Len(stack') /\ end = Target(stack'[d], "else")
    BY <1>2, <1>3, <1>6, <1>10 DEF Target
  <2> QED
    BY <1>3, <1>8, <2>1, <2>2 DEF Goes
<1>18. NodeStep(stack, void, blocks, m.curr, done, exp, prog', stack', blocks', more)
  <2>1. SUFFICES ASSUME NEW c, ~ Terminated(blocks[curr])
                 PROVE  Step(prog', stack', void, blocks', more, h, curr, n + 1, c)
    BY <1>3, <1>11 DEF NodeStep
  <2>2. At(blocks', curr, n + 1, Jump(end))
    BY <1>11, <1>12, <2>1
  <2>3. ElseStep(prog', stack', blocks', more, h, curr, n + 1)
    BY <1>17, <2>2 DEF ElseStep
  <2> QED
    BY <1>8, <2>3 DEF Step, Logic
<1>19. Match(prog', stack', void, blocks', no, "nothing", exp', more)
  <2>1. Len(stack') = d => FrameOK(prog', stack'[d], d, more)
    BY <1>10, <1>16
  <2> QED
    BY <1>1, <1>2, <1>7, <1>10, <1>12, <1>13, <1>15, <1>18, <2>1, NoExtra, MatchGoesOn
<1> QED
  BY <1>7, <1>19 DEF Matching

LEMMA IfEndMatches ==
    ASSUME Pass, stack # <<>>, Matching, IfEnd
    PROVE  Matching'
<1>1. PICK rel : Match(prog, stack, void, blocks, m.curr, done, exp, rel)
  BY DEF Matching
<1>2. /\ Typed /\ IsBlocks(blocks) /\ m.curr \in 1 .. Len(blocks) /\ Len(blocks) \in Nat
      /\ stack \in Seq(Frame) /\ Len(stack) \in Nat \ {0} /\ Len(prog) \in Nat
      /\ Top = stack[Len(stack)] /\ Stacked(stack)
  BY Context DEF Pass
<1>3. PICK f, d, h : f = Top /\ d = Len(stack) /\ h = Len(prog')
  OBVIOUS
<1>4. /\ f \in [kind : {"if"}, stage : {"then", "else"}, yes : Nat, no : Nat, end : Nat]
      /\ f.kind = "if" /\ f.stage = "then" /\ f = stack[d] /\ NoLogic(stack) /\ d \in Nat \ {0}
  <2>1. Top.kind = "if" /\ Top.stage = "then"
    BY DEF IfEnd, Resumes
  <2> QED
    BY <1>3, <2>1, IfOnTop
<1>5. PICK no, end : no = f.no /\ end = f.end
  OBVIOUS
<1>7. /\ void' = void /\ done' = "stmt" /\ m'.curr = end /\ stack' = Front(stack)
      /\ Node1(prog, prog', "endif", d)
  <2>1. m \in [curr : Nat, cond : Nat, end : Nat, returned : BOOLEAN]
    BY <1>2 DEF Typed
  <2>2. m' = [m EXCEPT !.curr = end, !.returned = FALSE]
    BY <1>3, <1>5 DEF IfEnd
  <2>3. void' = void /\ done' = "stmt" /\ Log("endif") /\ stack' = Front(stack)
    BY DEF IfEnd, Pop
  <2> QED
    BY <1>2, <1>3, <2>1, <2>2, <2>3, NodeIsLogged
<1>8. /\ prog'[h].tok = "endif" /\ prog'[h].depth = d /\ h \in 1 .. Len(prog') /\ h \in Nat
      /\ \A i \in 1 .. Len(prog) : prog'[i] = prog[i] /\ i \in 1 .. Len(prog')
  BY <1>2, <1>3, <1>7 DEF Node1, Longer
<1>9. \A tk : Fits(f, tk) <=> tk = "then"
  BY <1>4 DEF Fits, Logic
<1>10. Covers(stack, stack', "endif", d) /\ stack' # <<>> /\ Len(stack') # d
  <2>1. Closers("endif") = {} /\ "endif" \notin Logic \cup {"while"}
    BY WhatCloses DEF Logic
  <2>2. \A tk : Fits(f, tk) => "endif" \in Closers(tk)
    BY <1>9, WhatCloses
  <2>3. Covers(stack, stack', "endif", Len(stack))
    BY <1>2, <1>3, <1>4, <1>7, <2>1, <2>2, CoversPopped
  <2>4. Len(stack') = Len(stack) - 1
    BY <1>2, <1>7, FrontIs
  <2>5. Last(stack).kind # "block"
    BY <1>3, <1>4 DEF Top
  <2>6. stack' # <<>>
    BY <1>2, <1>7, <2>5, CalmIs
  <2> QED
    BY <1>2, <1>3, <2>3, <2>4, <2>6
<1>11. PICK curr, n, inst : curr = m.curr /\ n = Len(blocks[m.curr]) /\ inst = Jump(end)
  OBVIOUS
<1>12. /\ IsBlocks(blocks') /\ Extends(blocks, blocks') /\ blocks'[end] = <<>>
       /\ ~ Terminated(blocks[curr]) => At(blocks', curr, n + 1, inst)
       /\ At(blocks', no, 1, inst)
  <2>1. PICK dd, ee : dd = Emit(blocks, curr, inst) /\ ee = Emit(dd, f.yes, inst)
    OBVIOUS
  <2>2. blocks' = Emit(ee, no, inst)
    BY <1>3, <1>5, <1>11, <2>1 DEF IfEnd, ThenLeft
  <2>3. /\ no \in 1 .. Len(blocks) /\ blocks[no] = <<>> /\ no # curr /\ no # f.yes
        /\ end \in 1 .. Len(blocks) /\ blocks[end] = <<>> /\ end # curr /\ end # f.yes
        /\ f.yes \in 1 .. Len(blocks) /\ no # end
    <3>1. no \in PendingOf(f) /\ end \in PendingOf(f) /\ FilledOf(f) = {f.yes}
      BY <1>4, <1>5 DEF PendingOf, FilledOf, Logic
    <3>2. no # end
      BY <1>3, <1>4, <1>5, NamedByTop DEF Apart
    <3> QED
      BY <1>3, <1>11, <3>1, <3>2, NamedByTop
  <2>4. /\ ~ Terminated(blocks[curr]) => At(ee, curr, n + 1, inst)
        /\ IsBlocks(ee) /\ Len(ee) = Len(blocks) /\ Extends(blocks, ee)
        /\ ee[no] = <<>> /\ ee[end] = <<>>
    <3>1. curr \in 1 .. Len(blocks) /\ f.yes \in 1 .. Len(blocks) /\ IsBlocks(blocks)
      BY <1>2, <1>11, <2>3
    <3>2. /\ ~ Terminated(blocks[curr]) => At(ee, curr, Len(blocks[curr]) + 1, inst)
          /\ IsBlocks(ee) /\ Len(ee) = Len(blocks) /\ Extends(blocks, ee)
          /\ \A x \in 1 .. Len(blocks) : x # curr /\ x # f.yes => ee[x] = blocks[x]
      BY ONLY <2>1, <3>1, LeftAt
    <3> QED
      BY <1>11, <2>3, <3>2
  <2>5. no \in 1 .. Len(ee) /\ end \in 1 .. Len(ee) /\ ~ Terminated(ee[no]) /\ Len(ee[no]) + 1 = 1
    BY <2>3, <2>4, NothingIsOpen
  <2>6. EmittedAt(ee, blocks', no, inst)
    BY <2>2, <2>4, <2>5, EmitIs
  <2>7. /\ ~ Terminated(ee[no]) => At(blocks', no, Len(ee[no]) + 1, inst)
        /\ IsBlocks(blocks') /\ Extends(ee, blocks')
    BY <2>4, <2>5, <2>6, EmittedHere, Zenon
  <2>8. blocks'[end] = ee[end]
    BY <2>3, <2>5, <2>6 DEF EmittedAt
  <2>9. Extends(blocks, blocks')
    BY <1>2, <2>4, <2>7, ExtendsOn
  <2>10. \A k : At(ee, curr, k, inst) => At(blocks', curr, k, inst)
    BY <2>4, <2>7, ExtendedAt
  <2>11. At(blocks', no, 1, inst)
    BY ONLY <2>5, <2>7
  <2> QED
    BY <2>4, <2>7, <2>8, <2>9, <2>10, <2>11
<1>13. PICK extra : extra =
           {<<j, no, 1, Known(FALSE)>> : j \in {x \in 1 .. Len(prog) :
               OpenTo(prog, x, Len(prog) + 1) /\ prog[x].tok = "then" /\ prog[x].depth = d}}
  OBVIOUS
<1>14. PICK more : more = rel \cup extra \cup NewFront(prog', stack', blocks', end, "stmt", exp')
  OBVIOUS
<1>15. <<h + 1, end, 1, Plain>> \in more
  <2>1. ~ Terminated(blocks'[end]) /\ Len(blocks'[end]) + 1 = 1
    BY <1>12, NothingIsOpen
  <2>2. <<h + 1, end, 1, Plain>> \in NewFront(prog', stack', blocks', end, "stmt", exp')
    BY <1>3, <1>10, <2>1 DEF NewFront
  <2> QED
    BY <1>14, <2>2
<1>16. Lands(prog, stack, prog', more, "endif", d)
  <2>1. SUFFICES ASSUME NEW j \in 1 .. Len(prog), OpenTo(prog, j, Len(prog) + 1),
                        prog[j].depth = d, "endif" \in Closers(prog[j].tok)
                 PROVE  Landed(prog', more, j, h, Target(f, prog[j].tok))
    BY <1>3, <1>4 DEF Lands
  <2>2. Fits(f, prog[j].tok)
    BY <1>1, <1>4, <2>1, OpenOnTop DEF Match
  <2>3. prog[j].tok = "then" /\ prog'[j] = prog[j]
    BY <1>8, <1>9, <2>2
  <2>4. <<j, no, 1, Known(FALSE)>> \in more
    BY <1>13, <1>14, <2>1, <2>3
  <2> QED
    BY <1>5, <1>8, <2>3, <2>4 DEF Landed, Target
<1>17. NodeStep(stack, void, blocks, m.curr, done, exp, prog', stack', blocks', more)
  <2>1. SUFFICES ASSUME NEW c, ~ Terminated(blocks[curr])
                 PROVE  Step(prog', stack', void, blocks', more, h, curr, n + 1, c)
    BY <1>3, <1>11 DEF NodeStep
  <2>2. OnStep(blocks', more, h, curr, n + 1)
    BY <1>11, <1>12, <1>15, <2>1 DEF OnStep
  <2> QED
    BY <1>8, <2>2 DEF Step, Logic
<1>18. ExtraSteps(void, prog', stack', blocks', more, extra)
  <2>1. SUFFICES ASSUME NEW i, NEW b, NEW k, NEW c, <<i, b, k, c>> \in extra
                 PROVE  i \in 1 .. Len(prog') /\ Step(prog', stack', void, blocks', more, i, b, k, c)
    BY DEF ExtraSteps
  <2>2. PICK j \in 1 .. Len(prog) :
            /\ OpenTo(prog, j, Len(prog) + 1) /\ prog[j].tok = "then" /\ prog[j].depth = d
            /\ i = j /\ b = no /\ k = 1 /\ c = Known(FALSE)
    BY <1>13, <2>1
  <2>3. NextIs(prog', j, h)
    <3>1. "endif" \in Closers(prog[j].tok)
      BY <2>2, WhatCloses
    <3> QED
      BY <1>3, <1>7, <2>2, <3>1, OneMoreNode
  <2>4. ThenStep(prog', stack', blocks', more, j, no, 1, c)
    BY <1>11, <1>12, <1>15, <2>2, <2>3 DEF ThenStep
  <2>5. prog'[j].tok = "then" /\ j \in 1 .. Len(prog')
    BY <1>8, <2>2
  <2>6. Step(prog', stack', void, blocks', more, j, no, 1, c)
    BY <2>4, <2>5 DEF Step, Logic
  <2> QED
    BY <2>2, <2>5, <2>6
<1>19. Match(prog', stack', void, blocks', end, "stmt", exp', more)
  BY <1>1, <1>2, <1>7, <1>10, <1>12, <1>14, <1>16, <1>17, <1>18, MatchGoesOn
<1> QED
  BY <1>7, <1>19 DEF Matching

LEMMA IfElseEndMatches ==
    ASSUME Pass, stack # <<>>, Matching, IfElseEnd
    PROVE  Matching'
<1>1. PICK rel : Match(prog, stack, void, blocks, m.curr, done, exp, rel)
  BY DEF Matching
<1>2. /\ Typed /\ IsBlocks(blocks) /\ m.curr \in 1 .. Len(blocks) /\ Len(blocks) \in Nat
      /\ stack \in Seq(Frame) /\ Len(stack) \in Nat \ {0} /\ Len(prog) \in Nat
      /\ Top = stack[Len(stack)] /\ Stacked(stack)
  BY Context DEF Pass
<1>3. PICK f, d, h : f = Top /\ d = Len(stack) /\ h = Len(prog')
  OBVIOUS
<1>4. /\ f \in [kind : {"if"}, stage : {"then", "else"}, yes : Nat, no : Nat, end : Nat]
      /\ f.kind = "if" /\ f.stage = "else" /\ f = stack[d] /\ NoLogic(stack) /\ d \in Nat \ {0}
  <2>1. Top.kind = "if" /\ Top.stage = "else"
    BY DEF IfElseEnd, Resumes
  <2> QED
    BY <1>3, <2>1, IfOnTop
<1>5. PICK no, end : no = f.no /\ end = f.end
  OBVIOUS
<1>7. /\ void' = void /\ done' = "stmt" /\ m'.curr = end /\ stack' = Front(stack)
      /\ Node1(prog, prog', "endif", d)
  <2>1. m \in [curr : Nat, cond : Nat, end : Nat, returned : BOOLEAN]
    BY <1>2 DEF Typed
  <2>2. m' = [m EXCEPT !.curr = end, !.returned = FALSE]
    BY <1>3, <1>5 DEF IfElseEnd
  <2>3. void' = void /\ done' = "stmt" /\ Log("endif") /\ stack' = Front(stack)
    BY DEF IfElseEnd, Pop
  <2> QED
    BY <1>2, <1>3, <2>1, <2>2, <2>3, NodeIsLogged
<1>8. /\ prog'[h].tok = "endif" /\ prog'[h].depth = d /\ h \in 1 .. Len(prog') /\ h \in Nat
      /\ \A i \in 1 .. Len(prog) : prog'[i] = prog[i]
  BY <1>2, <1>3, <1>7 DEF Node1, Longer
<1>9. \A tk : Fits(f, tk) <=> tk = "else"
  BY <1>4 DEF Fits, Logic
<1>10. Covers(stack, stack', "endif", d) /\ stack' # <<>> /\ Len(stack') # d
  <2>1. Closers("endif") = {} /\ "endif" \notin Logic \cup {"while"}
    BY WhatCloses DEF Logic
  <2>2. \A tk : Fits(f, tk) => "endif" \in Closers(tk)
    BY <1>9, WhatCloses
  <2>3. Covers(stack, stack', "endif", Len(stack))
    BY <1>2, <1>3, <1>4, <1>7, <2>1, <2>2, CoversPopped
  <2>4. Len(stack') = Len(stack) - 1
    BY <1>2, <1>7, FrontIs
  <2>5. Last(stack).kind # "block"
    BY <1>3, <1>4 DEF Top
  <2>6. stack' # <<>>
    BY <1>2, <1>7, <2>5, CalmIs
  <2> QED
    BY <1>2, <1>3, <2>3, <2>4, <2>6
<1>11. PICK curr, n, inst : curr = m.curr /\ n = Len(blocks[m.curr]) /\ inst = Jump(end)
  OBVIOUS
<1>12. /\ IsBlocks(blocks') /\ Extends(blocks, blocks') /\ blocks'[end] = <<>>
       /\ ~ Terminated(blocks[curr]) => At(blocks', curr, n + 1, inst)
  <2>1. PICK dd : dd = Emit(blocks, curr, inst)
    OBVIOUS
  <2>2. blocks' = Emit(dd, no, inst)
    BY <1>3, <1>5, <1>11, <2>1 DEF IfElseEnd
  <2>3. /\ end \in 1 .. Len(blocks) /\ blocks[end] = <<>> /\ end # curr /\ end # no
        /\ no \in 1 .. Len(blocks)
    <3>1. end \in PendingOf(f) /\ FilledOf(f) = {no}
      BY <1>4, <1>5 DEF PendingOf, FilledOf, Logic
    <3> QED
      BY <1>3, <1>11, <3>1, NamedByTop
  <2>4. curr \in 1 .. Len(blocks) /\ IsBlocks(blocks)
    BY <1>2, <1>11
  <2>5. /\ ~ Terminated(blocks[curr]) => At(blocks', curr, Len(blocks[curr]) + 1, inst)
        /\ IsBlocks(blocks') /\ Extends(blocks, blocks')
        /\ \A x \in 1 .. Len(blocks) : x # curr /\ x # no => blocks'[x] = blocks[x]
    BY ONLY <2>1, <2>2, <2>3, <2>4, LeftAt
  <2> QED
    BY <1>11, <2>3, <2>5
<1>14. PICK more : more = rel \cup {} \cup NewFront(prog', stack', blocks', end, "stmt", exp')
  OBVIOUS
<1>15. <<h + 1, end, 1, Plain>> \in more
  <2>1. ~ Terminated(blocks'[end]) /\ Len(blocks'[end]) + 1 = 1
    BY <1>12, NothingIsOpen
  <2>2. <<h + 1, end, 1, Plain>> \in NewFront(prog', stack', blocks', end, "stmt", exp')
    BY <1>3, <1>10, <2>1 DEF NewFront
  <2> QED
    BY <1>14, <2>2
<1>16. Lands(prog, stack, prog', more, "endif", d)
  <2>1. SUFFICES ASSUME NEW j \in 1 .. Len(prog), OpenTo(prog, j, Len(prog) + 1),
                        prog[j].depth = d, "endif" \in Closers(prog[j].tok)
                 PROVE  Landed(prog', more, j, h, Target(f, prog[j].tok))
    BY <1>3, <1>4 DEF Lands
  <2>2. Fits(f, prog[j].tok)
    BY <1>1, <1>4, <2>1, OpenOnTop DEF Match
  <2>3. prog[j].tok = "else" /\ prog'[j] = prog[j]
    BY <1>8, <1>9, <2>2
  <2> QED
    BY <1>5, <1>8, <1>15, <2>3 DEF Landed, Target
<1>17. NodeStep(stack, void, blocks, m.curr, done, exp, prog', stack', blocks', more)
  <2>1. SUFFICES ASSUME NEW c, ~ Terminated(blocks[curr])
                 PROVE  Step(prog', stack', void, blocks', more, h, curr, n + 1, c)
    BY <1>3, <1>11 DEF NodeStep
  <2>2. OnStep(blocks', more, h, curr, n + 1)
    BY <1>11, <1>12, <1>15, <2>1 DEF OnStep
  <2> QED
    BY <1>8, <2>2 DEF Step, Logic
<1>19. Match(prog', stack', void, blocks', end, "stmt", exp', more)
  BY <1>1, <1>2, <1>7, <1>10, <1>12, <1>14, <1>16, <1>17, NoExtra, MatchGoesOn
<1> QED
  BY <1>7, <1>19 DEF Matching

LEMMA WhileMatches ==
    ASSUME Pass, stack # <<>>, Matching, While
    PROVE  Matching'
<1>1. PICK rel : Match(prog, stack, void, blocks, m.curr, done, exp, rel)
  BY DEF Matching
<1>2. /\ Typed /\ IsBlocks(blocks) /\ m.curr \in 1 .. Len(blocks) /\ Len(blocks) \in Nat
      /\ stack \in Seq(Frame) /\ Len(stack) \in Nat \ {0} /\ Len(prog) \in Nat /\ IsSeq(stack)
  BY Context, SeqIs DEF Pass
<1>3. PICK h, cond : h = Here /\ cond = New(1)
  OBVIOUS
<1>4. /\ void' = void /\ m'.curr = cond /\ done' = "nothing"
      /\ Node1(prog, prog', "while", Len(stack) + 1) /\ h = Len(prog) + 1 /\ cond = Len(blocks) + 1
  <2>1. m \in [curr : Nat, cond : Nat, end : Nat, returned : BOOLEAN]
    BY <1>2 DEF Typed
  <2>2. m' = [m EXCEPT !.curr = cond]
    BY <1>3 DEF While
  <2>3. void' = void /\ done' = "nothing" /\ LogIn("while")
    BY DEF While, Push
  <2> QED
    BY <1>2, <1>3, <2>1, <2>2, <2>3, NodeIsLogged DEF New
<1>5. /\ Longer(prog, prog') /\ Len(prog') = h /\ prog'[h].tok = "while"
      /\ prog'[h].depth = Len(stack) + 1 /\ h \in Nat /\ h \in 1 .. Len(prog')
  BY <1>2, <1>4 DEF Node1
<1>6. PICK f : f = [kind |-> "while", stage |-> "cond",
                    cond |-> New(1), body |-> New(2), end |-> New(3),
                    this_cond |-> m.cond, this_end |-> m.end]
  OBVIOUS
<1>7. f.kind = "while" /\ f.cond = cond /\ Pushed(stack', stack, f)
  BY <1>3, <1>6 DEF While, Push, Pushed
<1>8. /\ Len(stack') = Len(stack) + 1 /\ stack'[Len(stack) + 1] = f /\ stack' # <<>>
      /\ \A d \in 1 .. Len(stack) : stack'[d] = stack[d]
  BY ONLY <1>2, <1>7, PushedIs
<1>9. PICK curr, n, inst : curr = m.curr /\ n = Len(blocks[m.curr]) /\ inst = Jump(cond)
  OBVIOUS
<1>11. /\ IsBlocks(blocks') /\ Extends(blocks, blocks') /\ blocks'[cond] = <<>>
       /\ ~ Terminated(blocks[curr]) => At(blocks', curr, n + 1, inst)
  <2>1. blocks' = Emit(Fresh(blocks, 3), curr, inst)
    BY <1>3, <1>9 DEF While
  <2>2. cond \in Len(blocks) + 1 .. Len(blocks) + 3 /\ 3 \in Nat
    BY <1>2, <1>4
  <2>3. IsBlocks(blocks) /\ curr \in 1 .. Len(blocks)
    BY <1>2, <1>9
  <2>4. /\ IsBlocks(blocks') /\ Extends(blocks, blocks') /\ blocks'[cond] = <<>>
        /\ ~ Terminated(blocks[curr]) => At(blocks', curr, Len(blocks[curr]) + 1, inst)
    BY ONLY <2>1, <2>2, <2>3, GrownHere
  <2> QED
    BY <1>9, <2>4
<1>12. PICK more : more = rel \cup {} \cup NewFront(prog', stack', blocks', cond, "nothing", exp')
  OBVIOUS
<1>13. <<h + 1, cond, 1, Plain>> \in more
  <2>1. ~ Terminated(blocks'[cond]) /\ Len(blocks'[cond]) + 1 = 1
    BY <1>11, NothingIsOpen
  <2>2. <<h + 1, cond, 1, Plain>> \in NewFront(prog', stack', blocks', cond, "nothing", exp')
    BY <1>5, <1>8, <2>1 DEF NewFront
  <2> QED
    BY <1>12, <2>2
<1>15. Covers(stack, stack', "while", Len(stack) + 1)
  <2>1. Fits(f, "while")
    BY <1>7 DEF Fits
  <2>2. Len(stack) + 1 \in 1 .. Len(stack) + 1 /\ Len(stack) + 1 >= Len(stack)
    BY <1>2
  <2>3. Len(stack) \in Nat /\ Len(stack') \in Nat /\ Len(stack) + 1 # Len(stack)
        /\ \A x \in 1 .. (Len(stack) + 1) - 1 : x \in 1 .. Len(stack)
    BY <1>2, <1>8
  <2>4. NoLogic(stack)
    BY StatementsHaveNoLogic DEF While
  <2> QED
    BY <1>8, <2>1, <2>2, <2>3, <2>4 DEF Covers
<1>16. Lands(prog, stack, prog', more, "while", Len(stack) + 1)
  BY ClosesNothing
<1>17. FrameOK(prog', f, Len(stack) + 1, more)
  <2>1. OpenTo(prog', Len(prog'), Len(prog') + 1)
    <3>1. Closers("while") # {}
      BY DEF Closers, Logic
    <3> QED
      BY <1>4, <3>1, NewNodeIsOpen
  <2>2. LoopFrame(prog', f, Len(stack) + 1, more)
    BY <1>5, <1>7, <1>13, <2>1 DEF LoopFrame
  <2> QED
    BY <1>7, <2>2 DEF FrameOK, Logic
<1>18. NodeStep(stack, void, blocks, m.curr, done, exp, prog', stack', blocks', more)
  <2>1. SUFFICES ASSUME NEW c, ~ Terminated(blocks[curr])
                 PROVE  Step(prog', stack', void, blocks', more, h, curr, n + 1, c)
    BY <1>5, <1>9 DEF NodeStep
  <2>2. OnStep(blocks', more, h, curr, n + 1)
    BY <1>9, <1>11, <1>13, <2>1 DEF OnStep
  <2> QED
    BY <1>5, <2>2 DEF Step, Logic
<1>20. Match(prog', stack', void, blocks', cond, "nothing", exp', more)
  <2>2. Len(stack') = Len(stack) + 1 =>
            FrameOK(prog', stack'[Len(stack) + 1], Len(stack) + 1, more)
    BY <1>8, <1>17
  <2> QED
    BY <1>1, <1>2, <1>4, <1>11, <1>12, <1>15, <1>16, <1>18, <2>2, NoExtra, MatchGoesOn
<1> QED
  BY <1>4, <1>20 DEF Matching

LEMMA WhileOnTop ==
    ASSUME Pass, stack # <<>>, NEW f, f = Top, f.kind = "while"
    PROVE  /\ f \in [kind : {"while"}, stage : {"cond", "body"}, cond : Nat, body : Nat,
                     end : Nat, this_cond : Nat, this_end : Nat]
           /\ f = stack[Len(stack)] /\ Len(stack) \in Nat \ {0}
           /\ NoLogic(stack)
<1>1. /\ stack \in Seq(Frame) /\ Len(stack) \in Nat \ {0} /\ Top = stack[Len(stack)] /\ Top \in Frame
      /\ Stacked(stack)
  BY Context
<1>2. f \in [kind : {"while"}, stage : {"cond", "body"}, cond : Nat, body : Nat,
             end : Nat, this_cond : Nat, this_end : Nat]
  BY <1>1, FramesAre
<1>3. NoLogic(stack)
  BY <1>1, NoLogicBelow DEF Logic
<1> QED
  BY <1>1, <1>2, <1>3

LEMMA WhileBodyMatches ==
    ASSUME Pass, stack # <<>>, Matching, WhileBody
    PROVE  Matching'
<1>1. PICK rel : Match(prog, stack, void, blocks, m.curr, done, exp, rel)
  BY DEF Matching
<1>2. /\ Typed /\ IsBlocks(blocks) /\ m.curr \in 1 .. Len(blocks) /\ Len(blocks) \in Nat
      /\ stack \in Seq(Frame) /\ Len(stack) \in Nat \ {0} /\ Len(prog) \in Nat
      /\ Top = stack[Len(stack)] /\ Stacked(stack)
  BY Context DEF Pass
<1>3. PICK f, d, h : f = Top /\ d = Len(stack) /\ h = Len(prog')
  OBVIOUS
<1>4. /\ f \in [kind : {"while"}, stage : {"cond", "body"}, cond : Nat, body : Nat,
                end : Nat, this_cond : Nat, this_end : Nat]
      /\ f.kind = "while" /\ f.stage = "cond" /\ f = stack[d] /\ NoLogic(stack) /\ d \in Nat \ {0}
      /\ done = "exp"
  <2>1. Top.kind = "while" /\ Top.stage = "cond" /\ done = "exp"
    BY DEF WhileBody, Resumes
  <2> QED
    BY <1>3, <2>1, WhileOnTop
<1>5. PICK body, end, g : body = f.body /\ end = f.end /\ g = [f EXCEPT !.stage = "body"]
  OBVIOUS
<1>6. g.kind = "while" /\ g.stage = "body" /\ g.end = end /\ g.cond = f.cond
  BY <1>4, <1>5
<1>7. /\ void' = void /\ done' = "nothing" /\ m'.curr = body
      /\ Node1(prog, prog', "do", d)
  <2>1. m \in [curr : Nat, cond : Nat, end : Nat, returned : BOOLEAN]
    BY <1>2 DEF Typed
  <2>2. m' = [m EXCEPT !.curr = body, !.cond = f.cond, !.end = end]
    BY <1>3, <1>5 DEF WhileBody
  <2>3. void' = void /\ done' = "nothing" /\ Log("do")
    BY DEF WhileBody, Stay
  <2> QED
    BY <1>2, <1>3, <2>1, <2>2, <2>3, NodeIsLogged
<1>8. /\ prog'[h].tok = "do" /\ prog'[h].depth = d /\ h \in 1 .. Len(prog') /\ h \in Nat
  BY <1>2, <1>3, <1>7 DEF Node1
<1>9. \A tk : Fits(f, tk) <=> tk = "while"
  BY <1>4 DEF Fits, Logic
<1>10. Covers(stack, stack', "do", d) /\ stack'[d] = g /\ stack' # <<>> /\ Len(stack') = d
  <2>1. PICK u : u = Front(stack)
    OBVIOUS
  <2>2. Pushed(stack', u, g)
    BY <1>3, <1>5, <2>1 DEF WhileBody, Stay, Pushed
  <2>3. \A tk : Fits(f, tk) => Fits(g, tk) /\ Target(g, tk) = Target(f, tk)
    BY <1>5, <1>6, <1>9 DEF Fits, Target
  <2>4. Fits(g, "do")
    BY <1>6 DEF Fits
  <2>5. "do" \notin Logic \cup {"while"}
    BY DEF Logic
  <2>6. Covers(stack, stack', "do", Len(stack)) /\ stack'[Len(stack)] = g /\ stack' # <<>>
        /\ Len(stack') = Len(stack)
    BY <1>2, <1>3, <1>4, <2>1, <2>2, <2>3, <2>4, <2>5, CoversReplaced
  <2> QED
    BY <1>3, <2>6
<1>11. PICK curr, n, inst : /\ curr = m.curr /\ n = Len(blocks[m.curr])
                            /\ inst = Branch(exp, body, end)
  OBVIOUS
<1>12. /\ IsBlocks(blocks') /\ Extends(blocks, blocks') /\ blocks'[body] = <<>>
       /\ ~ Terminated(blocks[curr]) => At(blocks', curr, n + 1, inst)
  <2>1. blocks' = Emit(blocks, curr, inst)
    BY <1>3, <1>5, <1>11 DEF WhileBody
  <2>2. EmittedAt(blocks, blocks', curr, inst)
    BY <1>2, <1>11, <2>1, EmitIs
  <2>3. body \in 1 .. Len(blocks) /\ blocks[body] = <<>> /\ body # curr
    <3>1. body \in PendingOf(f)
      BY <1>4, <1>5 DEF PendingOf, Logic
    <3> QED
      BY <1>3, <1>11, <3>1, NamedByTop
  <2> QED
    BY <1>2, <1>11, <2>2, <2>3, EmittedHere
<1>13. PICK more : more = rel \cup {} \cup NewFront(prog', stack', blocks', body, "nothing", exp')
  OBVIOUS
<1>14. <<h + 1, body, 1, Plain>> \in more /\ rel \subseteq more
  <2>1. ~ Terminated(blocks'[body]) /\ Len(blocks'[body]) + 1 = 1
    BY <1>12, NothingIsOpen
  <2>2. <<h + 1, body, 1, Plain>> \in NewFront(prog', stack', blocks', body, "nothing", exp')
    BY <1>3, <1>10, <2>1 DEF NewFront
  <2> QED
    BY <1>13, <2>2
<1>15. Lands(prog, stack, prog', more, "do", d)
  BY ClosesNothing
<1>16. FrameOK(prog', g, d, more)
  <2>1. d \in 1 .. Len(stack)
    BY <1>2, <1>3
  <2>2. FrameOK(prog', stack[d], d, more)
    BY <1>1, <1>7, <1>14, <2>1, FrameStays
  <2>3. LoopFrame(prog', f, d, more)
    BY <1>4, <2>2 DEF FrameOK
  <2> QED
    BY <1>6, <2>3 DEF FrameOK, LoopFrame, Logic
<1>17. Goes(prog', stack', more, h, end)
  <2>1. OpenTo(prog', Len(prog'), Len(prog') + 1)
    <3>1. Closers("do") # {}
      BY DEF Closers, Logic
    <3> QED
      BY <1>7, <3>1, NewNodeIsOpen
  <2>2. d \in 1 .. Len(stack') /\ end = Target(stack'[d], "do")
    BY <1>2, <1>3, <1>6, <1>10 DEF Target
  <2> QED
    BY <1>3, <1>8, <2>1, <2>2 DEF Goes
<1>18. NodeStep(stack, void, blocks, m.curr, done, exp, prog', stack', blocks', more)
  <2>1. SUFFICES ASSUME NEW c, ~ Terminated(blocks[curr]), c = Ready(exp)
                 PROVE  Step(prog', stack', void, blocks', more, h, curr, n + 1, c)
    BY <1>3, <1>4, <1>11 DEF NodeStep
  <2>2. At(blocks', curr, n + 1, Branch(exp, body, end))
    BY <1>11, <1>12, <2>1
  <2>3. DoStep(prog', stack', blocks', more, h, curr, n + 1, c)
    BY <1>14, <1>17, <2>1, <2>2 DEF DoStep
  <2> QED
    BY <1>8, <2>3 DEF Step, Logic
<1>19. Match(prog', stack', void, blocks', body, "nothing", exp', more)
  <2>1. Len(stack') = d => FrameOK(prog', stack'[d], d, more)
    BY <1>10, <1>16
  <2> QED
    BY <1>1, <1>2, <1>7, <1>10, <1>12, <1>13, <1>15, <1>18, <2>1, NoExtra, MatchGoesOn
<1> QED
  BY <1>7, <1>19 DEF Matching

LEMMA WhileEndMatches ==
    ASSUME Pass, stack # <<>>, Matching, WhileEnd
    PROVE  Matching'
<1>1. PICK rel : Match(prog, stack, void, blocks, m.curr, done, exp, rel)
  BY DEF Matching
<1>2. /\ Typed /\ IsBlocks(blocks) /\ m.curr \in 1 .. Len(blocks) /\ Len(blocks) \in Nat
      /\ stack \in Seq(Frame) /\ Len(stack) \in Nat \ {0} /\ Len(prog) \in Nat
      /\ Top = stack[Len(stack)] /\ Stacked(stack)
  BY Context DEF Pass
<1>3. PICK f, d, h : f = Top /\ d = Len(stack) /\ h = Len(prog')
  OBVIOUS
<1>4. /\ f \in [kind : {"while"}, stage : {"cond", "body"}, cond : Nat, body : Nat,
                end : Nat, this_cond : Nat, this_end : Nat]
      /\ f.kind = "while" /\ f.stage = "body" /\ f = stack[d] /\ NoLogic(stack) /\ d \in Nat \ {0}
  <2>1. Top.kind = "while" /\ Top.stage = "body"
    BY DEF WhileEnd, Resumes
  <2> QED
    BY <1>3, <2>1, WhileOnTop
<1>5. PICK cond, end : cond = f.cond /\ end = f.end
  OBVIOUS
<1>7. /\ void' = void /\ done' = "stmt" /\ m'.curr = end /\ stack' = Front(stack)
      /\ Node1(prog, prog', "endwhile", d)
  <2>2. m'.curr = end
    BY <1>3, <1>5 DEF WhileEnd
  <2>3. void' = void /\ done' = "stmt" /\ Log("endwhile") /\ stack' = Front(stack)
    BY DEF WhileEnd, Pop
  <2> QED
    BY <1>2, <1>3, <2>2, <2>3, NodeIsLogged
<1>8. /\ prog'[h].tok = "endwhile" /\ prog'[h].depth = d /\ h \in 1 .. Len(prog') /\ h \in Nat
      /\ \A i \in 1 .. Len(prog) : prog'[i] = prog[i]
  BY <1>2, <1>3, <1>7 DEF Node1, Longer
<1>9. \A tk : Fits(f, tk) => tk \in {"while", "do"}
  BY <1>4 DEF Fits, Logic
<1>10. Covers(stack, stack', "endwhile", d) /\ stack' # <<>> /\ Len(stack') # d
  <2>1. Closers("endwhile") = {} /\ "endwhile" \notin Logic \cup {"while"}
    BY WhatCloses DEF Logic
  <2>2. \A tk : Fits(f, tk) => "endwhile" \in Closers(tk)
    BY <1>9, WhatCloses
  <2>3. Covers(stack, stack', "endwhile", Len(stack))
    BY <1>2, <1>3, <1>4, <1>7, <2>1, <2>2, CoversPopped
  <2>4. Len(stack') = Len(stack) - 1
    BY <1>2, <1>7, FrontIs
  <2>5. Last(stack).kind # "block"
    BY <1>3, <1>4 DEF Top
  <2>6. stack' # <<>>
    BY <1>2, <1>7, <2>5, CalmIs
  <2> QED
    BY <1>2, <1>3, <2>3, <2>4, <2>6
<1>11. PICK curr, n, inst : curr = m.curr /\ n = Len(blocks[m.curr]) /\ inst = Jump(cond)
  OBVIOUS
<1>12. /\ IsBlocks(blocks') /\ Extends(blocks, blocks') /\ blocks'[end] = <<>>
       /\ ~ Terminated(blocks[curr]) => At(blocks', curr, n + 1, inst)
  <2>1. blocks' = Emit(blocks, curr, inst)
    BY <1>3, <1>5, <1>11 DEF WhileEnd, LoopBack
  <2>2. EmittedAt(blocks, blocks', curr, inst)
    BY <1>2, <1>11, <2>1, EmitIs
  <2>3. end \in 1 .. Len(blocks) /\ blocks[end] = <<>> /\ end # curr
    <3>1. end \in PendingOf(f)
      BY <1>4, <1>5 DEF PendingOf, Logic
    <3> QED
      BY <1>3, <1>11, <3>1, NamedByTop
  <2> QED
    BY <1>2, <1>11, <2>2, <2>3, EmittedHere
<1>14. PICK more : more = rel \cup {} \cup NewFront(prog', stack', blocks', end, "stmt", exp')
  OBVIOUS
<1>15. <<h + 1, end, 1, Plain>> \in more /\ rel \subseteq more
  <2>1. ~ Terminated(blocks'[end]) /\ Len(blocks'[end]) + 1 = 1
    BY <1>12, NothingIsOpen
  <2>2. <<h + 1, end, 1, Plain>> \in NewFront(prog', stack', blocks', end, "stmt", exp')
    BY <1>3, <1>10, <2>1 DEF NewFront
  <2> QED
    BY <1>14, <2>2
<1>16. Lands(prog, stack, prog', more, "endwhile", d)
  <2>1. SUFFICES ASSUME NEW j \in 1 .. Len(prog), "endwhile" \in Closers(prog[j].tok)
                 PROVE  Landed(prog', more, j, h, Target(f, prog[j].tok))
    BY <1>3, <1>4 DEF Lands
  <2>2. prog[j].tok \in {"while", "do"} /\ prog'[j] = prog[j]
    BY <1>8, <2>1, WhatCloses
  <2> QED
    BY <1>5, <1>8, <1>15, <2>2 DEF Landed, Target
<1>17. PICK j \in 1 .. Len(prog) : /\ prog[j].tok = "while" /\ NextIs(prog', j, h)
                                   /\ <<j + 1, cond, 1, Plain>> \in more
  <2>1. LoopFrame(prog, f, d, rel)
    BY <1>1, <1>2, <1>3, <1>4 DEF Match, FrameOK
  <2>2. PICK j \in 1 .. Len(prog) :
            /\ prog[j].tok = "while" /\ prog[j].depth = d /\ OpenTo(prog, j, Len(prog) + 1)
            /\ <<j + 1, cond, 1, Plain>> \in rel
    BY <1>5, <2>1 DEF LoopFrame
  <2>3. "endwhile" \in Closers(prog[j].tok)
    BY <2>2, WhatCloses
  <2>4. NextIs(prog', j, h)
    BY <1>3, <1>7, <2>2, <2>3, OneMoreNode
  <2> QED
    BY <1>15, <2>2, <2>4
<1>18. NodeStep(stack, void, blocks, m.curr, done, exp, prog', stack', blocks', more)
  <2>1. SUFFICES ASSUME NEW c, ~ Terminated(blocks[curr])
                 PROVE  Step(prog', stack', void, blocks', more, h, curr, n + 1, c)
    BY <1>3, <1>11 DEF NodeStep
  <2>2. prog'[j].tok = "while"
    BY <1>8, <1>17
  <2>3. EndWhileStep(prog', blocks', more, h, curr, n + 1)
    BY <1>11, <1>12, <1>17, <2>1, <2>2 DEF EndWhileStep
  <2> QED
    BY <1>8, <2>3 DEF Step, Logic
<1>19. Match(prog', stack', void, blocks', end, "stmt", exp', more)
  BY <1>1, <1>2, <1>7, <1>10, <1>12, <1>14, <1>16, <1>18, NoExtra, MatchGoesOn
<1> QED
  BY <1>7, <1>19 DEF Matching

LEMMA MatchingInitially == PassInit => Matching
<1> SUFFICES ASSUME PassInit
             PROVE  Matching
  OBVIOUS
<1>1. PICK f : f = [kind |-> "block", stage |-> "items"]
  OBVIOUS
<1>2. /\ prog = <<>> /\ Len(prog) = 0 /\ stack = <<f>> /\ Len(stack) = 1 /\ stack[1] = f /\ stack # <<>>
      /\ f.kind = "block" /\ m.curr = Entry /\ done = "nothing"
      /\ blocks[Entry] = <<>> /\ Len(blocks[Entry]) = 0
  BY <1>1 DEF PassInit, Entry
<1>3. PICK rel : rel = {<<1, Entry, 1, Plain>>}
  OBVIOUS
<1>4. LogOK(prog, stack)
  BY <1>2 DEF LogOK
<1>5. \A d \in 1 .. Len(stack) : FrameOK(prog, stack[d], d, rel)
  <2>1. FrameOK(prog, f, 1, rel)
    BY <1>2 DEF FrameOK, Logic
  <2>2. \A d \in 1 .. Len(stack) : d = 1
    BY <1>2
  <2> QED
    BY <1>2, <2>1, <2>2
<1>6. Matched(prog, stack, void, blocks, rel)
  BY <1>2 DEF Matched
<1>7. AtFront(prog, stack, blocks, m.curr, done, exp, rel)
  <2>1. SUFFICES ASSUME NEW i, NEW b, NEW k, NEW c, <<i, b, k, c>> \in rel
                 PROVE  /\ i = Len(prog) + 1 /\ stack # <<>> /\ ~ Terminated(blocks[m.curr])
                        /\ b = m.curr /\ k = Len(blocks[m.curr]) + 1 /\ done # "exp"
    BY DEF AtFront
  <2>2. i = 1 /\ b = Entry /\ k = 1
    BY <1>3, <2>1
  <2>3. ~ Terminated(blocks[m.curr])
    BY <1>2, NothingIsOpen
  <2> QED
    BY <1>2, <2>2, <2>3
<1>8. Match(prog, stack, void, blocks, m.curr, done, exp, rel)
  BY <1>3, <1>4, <1>5, <1>6, <1>7 DEF Match
<1> QED
  BY <1>8 DEF Matching

LEMMA LowerMatches ==
    ASSUME Pass, Matching, Lower
    PROVE  Matching'
<1>1. stack # <<>>
  BY DEF Lower
<1>2. CASE Operand
  BY <1>1, <1>2, OperandMatches
<1>3. CASE \E kind \in {"and", "or"} : Logical(kind)
  BY <1>1, <1>3, LogicalMatches DEF Logic
<1>4. CASE LogicalLeft
  BY <1>1, <1>4, LogicalLeftMatches
<1>5. CASE LogicalRight
  BY <1>1, <1>5, LogicalRightMatches
<1>6. CASE Semi
  BY <1>1, <1>6, SemiMatches
<1>7. CASE ExpStmt \/ Open \/ ReturnExp \/ If
  BY <1>1, <1>7, CallsMatch
<1>8. CASE EndExpStmt \/ Close
  BY <1>1, <1>8, ReturnsMatch
<1>9. CASE ReturnNothing
  BY <1>1, <1>9, ReturnNothingMatches
<1>10. CASE EndReturn
  BY <1>1, <1>10, EndReturnMatches
<1>11. CASE IfThen
  BY <1>1, <1>11, IfThenMatches
<1>12. CASE IfElse
  BY <1>1, <1>12, IfElseMatches
<1>13. CASE IfEnd
  BY <1>1, <1>13, IfEndMatches
<1>14. CASE IfElseEnd
  BY <1>1, <1>14, IfElseEndMatches
<1>15. CASE While
  BY <1>1, <1>15, WhileMatches
<1>16. CASE WhileBody
  BY <1>1, <1>16, WhileBodyMatches
<1>17. CASE WhileEnd
  BY <1>1, <1>17, WhileEndMatches
<1>18. CASE Break
  <2>1. Leave("break", m.end) /\ "break" \in {"break", "continue"}
    BY <1>18 DEF Break
  <2> QED
    BY <1>1, <2>1, LeaveMatches
<1>19. CASE Continue
  <2>1. Leave("continue", m.cond) /\ "continue" \in {"break", "continue"}
    BY <1>19 DEF Continue
  <2> QED
    BY <1>1, <2>1, LeaveMatches
<1>20. CASE EndFunction
  BY <1>1, <1>20, EndFunctionMatches
<1> QED
  BY <1>2, <1>3, <1>4, <1>5, <1>6, <1>7, <1>8, <1>9, <1>10, <1>11, <1>12, <1>13, <1>14, <1>15,
     <1>16, <1>17, <1>18, <1>19, <1>20 DEF Lower

-----------------------------------------------------------------------------
(* A finished function: where the source goes on. *)

\* Everything is closed, and nothing is left to come.
Whole(p, vd, bb, rel) ==
    /\ p \in Seq(ANode) /\ IsBlocks(bb)
    /\ LogOK(p, <<>>) /\ Matched(p, <<>>, vd, bb, rel)
    /\ \A i, b, k, c : <<i, b, k, c>> \in rel => i \in 1 .. Len(p)
    /\ <<1, Entry, 1, Plain>> \in rel

LEMMA NextIsOnce ==
    ASSUME NEW p, NEW j, NEW e, NextIs(p, j, e), NEW toks, toks = Closers(p[j].tok)
    PROVE  NextOf(p, j, toks) = e
<1> DEFINE Q(x) == /\ p[x].tok \in toks /\ p[x].depth = p[j].depth
                   /\ \A k \in j + 1 .. x - 1 : ~ (p[k].tok \in toks /\ p[k].depth = p[j].depth)
<1>1. j \in 1 .. Len(p) /\ e \in j + 1 .. Len(p) /\ Q(e)
  BY DEF NextIs, Closes
<1>2. ASSUME NEW x \in j + 1 .. Len(p), Q(x)
      PROVE  x = e
  <2>1. ~ (x < e)
    <3>1. x < e => x \in j + 1 .. e - 1
      BY <1>1, <1>2
    <3> QED
      BY <1>1, <1>2, <3>1
  <2>2. ~ (e < x)
    <3>1. e < x => e \in j + 1 .. x - 1
      BY <1>1, <1>2
    <3> QED
      BY <1>1, <1>2, <3>1
  <2> QED
    BY <1>1, <1>2, <2>1, <2>2
<1>3. NextOf(p, j, toks) = CHOOSE x \in j + 1 .. Len(p) : Q(x)
  BY DEF NextOf
<1> HIDE DEF Q
<1> QED
  BY <1>1, <1>2, <1>3

LEMMA EndsAreFound ==
    ASSUME NEW p, NEW j, NEW e, NextIs(p, j, e)
    PROVE  /\ p[j].tok \in Logic \cup {"mid"} => NextOf(p, j, {"endop"}) = e
           /\ p[j].tok = "then" => NextOf(p, j, {"else", "endif"}) = e
           /\ p[j].tok = "else" => NextOf(p, j, {"endif"}) = e
           /\ p[j].tok \in {"while", "do"} => EndOfLoop(p, j) = e
<1>1. NextOf(p, j, Closers(p[j].tok)) = e
  BY NextIsOnce
<1>2. p[j].tok \in Logic \cup {"mid"} => Closers(p[j].tok) = {"endop"}
  BY DEF Closers
<1>3. p[j].tok = "then" => Closers(p[j].tok) = {"else", "endif"}
  BY DEF Closers, Logic
<1>4. p[j].tok = "else" => Closers(p[j].tok) = {"endif"}
  BY DEF Closers, Logic
<1>5. p[j].tok \in {"while", "do"} => Closers(p[j].tok) = {"endwhile"}
  BY DEF Closers, Logic
<1> QED
  BY <1>1, <1>2, <1>3, <1>4, <1>5 DEF EndOfLoop

\* All that is opened is closed.
LEMMA AllIsClosed ==
    ASSUME NEW p, LogOK(p, <<>>), NEW j \in 1 .. Len(p), Closers(p[j].tok) # {}
    PROVE  \E e \in 1 .. Len(p) : NextIs(p, j, e)
<1>1. ~ OpenTo(p, j, Len(p) + 1)
  <2>1. \A x : x \notin 1 .. Len(<<>>)
    OBVIOUS
  <2> QED
    BY <2>1 DEF LogOK
<1> QED
  BY <1>1 DEF LogOK

LEMMA NextIsOpen ==
    ASSUME NEW p, NEW j, NEW e, NextIs(p, j, e)
    PROVE  OpenTo(p, j, e) /\ p[e].depth = p[j].depth /\ e \in 1 .. Len(p) /\ j \in 1 .. Len(p) /\ j < e
<1>1. /\ j \in 1 .. Len(p) /\ e \in j + 1 .. Len(p) /\ Closes(p, j, e)
      /\ \A x \in j + 1 .. e - 1 : ~ Closes(p, j, x)
  BY DEF NextIs
<1>2. j \in 1 .. e - 1 /\ e \in 1 .. Len(p) /\ j < e
  BY <1>1
<1>3. Closers(p[j].tok) # {} /\ p[e].depth = p[j].depth
  BY <1>1 DEF Closes
<1> QED
  BY <1>1, <1>2, <1>3 DEF OpenTo

\* The loop that an "endwhile" ends, and the operator that an "endop" ends.
LEMMA OneIsClosed ==
    ASSUME NEW p \in Seq(ANode), LogOK(p, <<>>), NEW e, NEW j, NextIs(p, j, e),
           NEW x, NextIs(p, x, e),
           p[j].tok \in Logic \cup {"while"}, p[x].tok \in Logic \cup {"while"}
    PROVE  x = j
<1>1. /\ OpenTo(p, j, e) /\ p[e].depth = p[j].depth /\ j \in 1 .. Len(p)
      /\ OpenTo(p, x, e) /\ p[e].depth = p[x].depth /\ x \in 1 .. Len(p)
      /\ e \in 1 .. Len(p)
  BY NextIsOpen
<1>2. e \in 1 .. Len(p) + 1 /\ p[x].depth = p[j].depth
  BY <1>1
<1> QED
  BY <1>1, <1>2, OneOperator

LEMMA BeginIs ==
    ASSUME NEW p \in Seq(ANode), LogOK(p, <<>>), NEW i, NEW j, NextIs(p, j, i), p[j].tok = "while"
    PROVE  Begin(p, i) = j
<1>1. j \in 1 .. Len(p) /\ i \in 1 .. Len(p) /\ j < i /\ EndOfLoop(p, j) = i
  BY NextIsOpen, EndsAreFound
<1>2. j \in 1 .. i
  BY <1>1
<1>3. ASSUME NEW x \in 1 .. i, p[x].tok = "while", EndOfLoop(p, x) = i
      PROVE  x = j
  <2>1. x \in 1 .. Len(p) /\ Closers(p[x].tok) # {}
    BY <1>1, <1>3 DEF Closers, Logic
  <2>2. PICK e \in 1 .. Len(p) : NextIs(p, x, e)
    BY <2>1, AllIsClosed
  <2>3. e = i
    BY <1>3, <2>2, EndsAreFound
  <2> QED
    BY <1>3, <2>2, <2>3, OneIsClosed
<1> QED
  BY <1>1, <1>2, <1>3 DEF Begin

LEMMA OperatorIs ==
    ASSUME NEW p \in Seq(ANode), LogOK(p, <<>>), NEW i \in 1 .. Len(p), p[i].tok = "mid",
           NEW o, Opener(p, o, i), NEW e, NextIs(p, i, e)
    PROVE  OperatorOf(p, i) = o /\ NextIs(p, o, e) /\ NextOf(p, i, {"endop"}) = e
<1>1. /\ p[o].tok \in Logic /\ p[o].depth = p[i].depth /\ OpenTo(p, o, i)
      /\ o \in 1 .. i - 1 /\ Len(p) \in Nat
  BY DEF Opener, OpenTo
<1>2. /\ e \in i + 1 .. Len(p) /\ Closes(p, i, e) /\ \A x \in i + 1 .. e - 1 : ~ Closes(p, i, x)
      /\ NextOf(p, i, {"endop"}) = e
  BY EndsAreFound DEF NextIs
<1>3. \A x : Closes(p, o, x) <=> Closes(p, i, x)
  <2>1. Closers(p[o].tok) = {"endop"} /\ Closers(p[i].tok) = {"endop"}
    BY <1>1 DEF Closers
  <2> QED
    BY <1>1, <2>1 DEF Closes
<1>4. NextIs(p, o, e)
  <2>1. \A x \in o + 1 .. e - 1 : x \in o + 1 .. i - 1 \/ x = i \/ x \in i + 1 .. e - 1
    BY <1>1, <1>2
  <2>2. \A x \in o + 1 .. i - 1 : ~ Closes(p, o, x)
    BY <1>1 DEF OpenTo
  <2>3. ~ Closes(p, o, i)
    BY <1>1 DEF Closes, Closers
  <2>4. o \in 1 .. Len(p) /\ e \in o + 1 .. Len(p)
    BY <1>1, <1>2
  <2> QED
    BY <1>2, <1>3, <2>1, <2>2, <2>3, <2>4 DEF NextIs
<1>5. ASSUME NEW x \in 1 .. i, p[x].tok \in {"and", "or"}, NextOf(p, x, {"endop"}) = e
      PROVE  x = o
  <2>1. x \in 1 .. Len(p) /\ Closers(p[x].tok) # {}
    BY <1>5 DEF Closers, Logic
  <2>2. PICK y \in 1 .. Len(p) : NextIs(p, x, y)
    BY <2>1, AllIsClosed
  <2>3. y = e
    BY <1>5, <2>2, EndsAreFound DEF Logic
  <2> QED
    BY <1>1, <1>4, <1>5, <2>2, <2>3, OneIsClosed DEF Logic
<1>6. o \in 1 .. i /\ p[o].tok \in {"and", "or"} /\ NextOf(p, o, {"endop"}) = e
  BY <1>1, <1>4, EndsAreFound DEF Logic
<1>7. OperatorOf(p, i) = CHOOSE x \in 1 .. i : p[x].tok \in {"and", "or"} /\ NextOf(p, x, {"endop"}) = e
  BY <1>2 DEF OperatorOf
<1>8. OperatorOf(p, i) = o
  BY <1>5, <1>6, <1>7
<1> QED
  BY <1>2, <1>4, <1>8

LEMMA LoopIs ==
    ASSUME NEW p \in Seq(ANode), LogOK(p, <<>>), NEW i \in 1 .. Len(p),
           p[i].tok \notin {"while", "endwhile"}, NEW j, IsLoop(p, i, j)
    PROVE  Loop(p, i) = j
<1> DEFINE Around == {x \in 1 .. i : p[x].tok = "while" /\ i < EndOfLoop(p, x)}
<1>1. ASSUME NEW x \in 1 .. i, p[x].tok = "while"
      PROVE  i < EndOfLoop(p, x) <=> OpenTo(p, x, i)
  <2>1. x \in 1 .. Len(p) /\ Closers(p[x].tok) = {"endwhile"} /\ x # i /\ x \in 1 .. i - 1
    BY <1>1 DEF Closers, Logic
  <2>2. PICK e \in 1 .. Len(p) : NextIs(p, x, e)
    BY <2>1, AllIsClosed
  <2>3. EndOfLoop(p, x) = e
    BY <1>1, <2>2, EndsAreFound
  <2>4. e \in x + 1 .. Len(p) /\ Closes(p, x, e) /\ \A y \in x + 1 .. e - 1 : ~ Closes(p, x, y)
    BY <2>2 DEF NextIs
  <2>5. i < e => OpenTo(p, x, i)
    <3>1. i < e => \A y \in x + 1 .. i - 1 : y \in x + 1 .. e - 1
      BY <2>1
    <3> QED
      BY <2>1, <2>4, <3>1 DEF OpenTo
  <2>6. OpenTo(p, x, i) => i < e
    <3>1. e # i
      BY <2>1, <2>4 DEF Closes
    <3>2. ~ (i < e) => e \in x + 1 .. i - 1
      BY <2>1, <2>4, <3>1
    <3> QED
      BY <2>4, <3>2 DEF OpenTo
  <2> QED
    BY <2>3, <2>5, <2>6
<1>2. p[j].tok = "while" /\ OpenTo(p, j, i) /\ j \in 1 .. i
  BY DEF IsLoop, OpenTo
<1>3. j \in Around
  BY <1>1, <1>2
<1>4. \A x \in Around : x <= j /\ x \in Nat
  BY <1>1 DEF IsLoop
<1>5. \A x \in Around : (\A y \in Around : y <= x) => x = j
  BY <1>3, <1>4
<1>6. Loop(p, i) = CHOOSE x \in Around : \A y \in Around : y <= x
  BY DEF Loop
<1> HIDE DEF Around
<1> QED
  BY <1>3, <1>4, <1>5, <1>6

\* Where the source goes on after each node.
LEMMA FollowNext ==
    ASSUME NEW p, NEW i, NEW last, p[i].tok \in {"and", "or", "endop", "endif", "while"}
    PROVE  Follow(p, i, last) = i + 1
<1>1. PICK tok : tok = p[i].tok
  OBVIOUS
<1> QED
  BY <1>1 DEF Follow

Yes(b) == b = TRUE
No(b)  == b = FALSE

LEMMA FollowYes ==
    ASSUME NEW p, NEW i, NEW last, p[i].tok \in {"then", "do"}, Yes(last)
    PROVE  Follow(p, i, last) = i + 1
<1>1. PICK tok : tok = p[i].tok
  OBVIOUS
<1> QED
  BY <1>1 DEF Follow, Yes

LEMMA FollowNo ==
    ASSUME NEW p, NEW i, NEW last, No(last)
    PROVE  /\ p[i].tok = "then" => Follow(p, i, last) = NextOf(p, i, {"else", "endif"}) + 1
           /\ p[i].tok = "do" => Follow(p, i, last) = EndOfLoop(p, i) + 1
<1>1. PICK tok : tok = p[i].tok
  OBVIOUS
<1> QED
  BY <1>1 DEF Follow, No

LEMMA FollowBack ==
    ASSUME NEW p, NEW i, NEW last
    PROVE  /\ p[i].tok = "else" => Follow(p, i, last) = NextOf(p, i, {"endif"}) + 1
           /\ p[i].tok = "endwhile" => Follow(p, i, last) = Begin(p, i)
           /\ p[i].tok = "break" => Follow(p, i, last) = EndOfLoop(p, Loop(p, i)) + 1
           /\ p[i].tok = "continue" => Follow(p, i, last) = Loop(p, i)
<1>1. PICK tok : tok = p[i].tok
  OBVIOUS
<1> QED
  BY <1>1 DEF Follow

LEMMA FollowMid ==
    ASSUME NEW p, NEW i, NEW last, p[i].tok = "mid", NEW o, o = OperatorOf(p, i)
    PROVE  /\ (p[o].tok = "and" /\ Yes(last)) \/ (p[o].tok = "or" /\ No(last)) =>
                 Follow(p, i, last) = i + 1
           /\ (p[o].tok = "and" /\ No(last)) \/ (p[o].tok = "or" /\ Yes(last)) =>
                 Follow(p, i, last) = NextOf(p, i, {"endop"})
<1>1. PICK tok : tok = p[i].tok
  OBVIOUS
<1> QED
  BY <1>1 DEF Follow, Yes, No

-----------------------------------------------------------------------------
(* A run of the blocks, and the source program along it. *)

Holds(c, vars_, values, last) ==
    \/ c = Plain
    \/ \E v : c = Ready(v) /\ v \in DOMAIN values /\ values[v] = last
    \/ \E v : c = InVar(v) /\ v \in DOMAIN vars_ /\ vars_[v] = last
    \/ \E v : c = Has(v) /\ v \in DOMAIN vars_
    \/ \E b \in BOOLEAN : c = Known(b) /\ last = b

\* The variables of the operators around node i; before the right operand they are what the
\* result is without it.
VarsAt(p, vars_, i) ==
    \A o \in 1 .. Len(p) : p[o].tok \in Logic /\ OpenTo(p, o, i) =>
        o \in DOMAIN vars_ /\ (NoMid(p, o, i) => vars_[o] = (p[o].tok = "or"))

Silent(p, i) == p[i].tok \notin {"eval", "return", "endfunction"}

\* The source is on the way from node i to what can be observed next.
Reach(p, last, i, at) ==
    \A S : i \in S /\ (\A x \in S : Silent(p, x) => Follow(p, x, last) \in S) => at \in S

\* The blocks are about to do what node i does, the source has gone on to "at".
Along(p, rel, at, last, b, k, vars_, values, i, c) ==
    /\ <<i, b, k, c>> \in rel
    /\ Holds(c, vars_, values, last)
    /\ VarsAt(p, vars_, i)
    /\ Reach(p, last, i, at)

Now(rel, i, c) ==
    Along(prog, rel, src.at, src.last, ir.block, ir.at, env.vars, env.values, i, c)

\* The same after a step of the blocks.
Then(rel, i, c) ==
    Along(prog, rel, src.at, src.last, ir'.block, ir'.at, env'.vars, env'.values, i, c)

Shape == /\ src = [at |-> src.at, last |-> src.last] /\ src.last \in BOOLEAN
         /\ ir = [block |-> ir.block, at |-> ir.at]
         /\ env = [vars |-> env.vars, values |-> env.values]

LEMMA ReachesItself ==
    ASSUME NEW p, NEW last, NEW i
    PROVE  Reach(p, last, i, i)
BY DEF Reach

LEMMA ReachOn ==
    ASSUME NEW p, NEW last, NEW i, NEW at, Reach(p, last, i, at), Silent(p, i), ~ Silent(p, at)
    PROVE  Reach(p, last, Follow(p, i, last), at)
<1> SUFFICES ASSUME NEW S, Follow(p, i, last) \in S,
                    \A x \in S : Silent(p, x) => Follow(p, x, last) \in S
             PROVE  at \in S
  BY DEF Reach
<1>1. PICK T : T = S \cup {i}
  OBVIOUS
<1>2. i \in T /\ \A x \in T : Silent(p, x) => Follow(p, x, last) \in T
  BY <1>1
<1>3. at \in T
  BY <1>2 DEF Reach
<1>4. at # i
  OBVIOUS
<1> QED
  BY <1>1, <1>3, <1>4

LEMMA ReachNext ==
    ASSUME NEW p, NEW last, NEW i, NEW at, Reach(p, last, i, at), Silent(p, at)
    PROVE  Reach(p, last, i, Follow(p, at, last))
BY DEF Reach

LEMMA ReachedHere ==
    ASSUME NEW p, NEW last, NEW i, NEW at, Reach(p, last, i, at), ~ Silent(p, i)
    PROVE  at = i
<1>1. PICK S : S = {i}
  OBVIOUS
<1>2. i \in S /\ \A x \in S : Silent(p, x) => Follow(p, x, last) \in S
  BY <1>1
<1>3. at \in S
  BY <1>2 DEF Reach
<1> QED
  BY <1>1, <1>3

\* No operator is open at a statement, nor after it.
LEMMA VarsAtStatements ==
    ASSUME NEW p \in Seq(ANode), LogOK(p, <<>>), NEW i \in 1 .. Len(p), p[i].tok \notin ExpToks,
           NEW vars_
    PROVE  VarsAt(p, vars_, i) /\ VarsAt(p, vars_, i + 1)
<1>1. \A o \in 1 .. Len(p) : p[o].tok \in Logic => ~ OpenTo(p, o, i)
  BY DEF LogOK
<1>2. ASSUME NEW o \in 1 .. Len(p), p[o].tok \in Logic
      PROVE  ~ OpenTo(p, o, i + 1)
  <2>1. OpenTo(p, o, i + 1) => o = i \/ OpenTo(p, o, i)
    <3>1. o \in 1 .. (i + 1) - 1 => o = i \/ o \in 1 .. i - 1
      OBVIOUS
    <3>2. \A x \in o + 1 .. i - 1 : x \in o + 1 .. (i + 1) - 1
      OBVIOUS
    <3> QED
      BY <3>1, <3>2 DEF OpenTo
  <2>2. o # i
    BY <1>2 DEF ExpToks, Logic
  <2> QED
    BY <1>1, <1>2, <2>1, <2>2
<1> QED
  BY <1>1, <1>2 DEF VarsAt

\* The next node.
LEMMA VarsGoOn ==
    ASSUME NEW p \in Seq(ANode), NEW i \in 1 .. Len(p), NEW vars_, VarsAt(p, vars_, i),
           p[i].tok \in Logic => i \in DOMAIN vars_ /\ vars_[i] = (p[i].tok = "or")
    PROVE  VarsAt(p, vars_, i + 1)
<1> SUFFICES ASSUME NEW o \in 1 .. Len(p), p[o].tok \in Logic, OpenTo(p, o, i + 1)
             PROVE  o \in DOMAIN vars_ /\ (NoMid(p, o, i + 1) => vars_[o] = (p[o].tok = "or"))
  BY DEF VarsAt
<1>1. o = i \/ (o \in 1 .. i - 1 /\ OpenTo(p, o, i))
  <2>1. o = i \/ o \in 1 .. i - 1
    BY DEF OpenTo
  <2>2. \A x \in o + 1 .. i - 1 : x \in o + 1 .. (i + 1) - 1
    OBVIOUS
  <2> QED
    BY <2>1, <2>2 DEF OpenTo
<1>2. NoMid(p, o, i + 1) => NoMid(p, o, i)
  <2>1. \A x \in o + 1 .. i - 1 : x \in o + 1 .. (i + 1) - 1
    OBVIOUS
  <2> QED
    BY <2>1 DEF NoMid
<1> QED
  BY <1>1, <1>2 DEF VarsAt

\* The end of an operator of which the right operand is skipped.
LEMMA VarsAtEnd ==
    ASSUME NEW p \in Seq(ANode), LogOK(p, <<>>), NEW i \in 1 .. Len(p), p[i].tok = "mid",
           NEW e, NextIs(p, i, e), NEW vars_, VarsAt(p, vars_, i)
    PROVE  VarsAt(p, vars_, e)
<1> SUFFICES ASSUME NEW o \in 1 .. Len(p), p[o].tok \in Logic, OpenTo(p, o, e)
             PROVE  o \in DOMAIN vars_ /\ (NoMid(p, o, e) => vars_[o] = (p[o].tok = "or"))
  BY DEF VarsAt
<1>1. e \in i + 1 .. Len(p) /\ e \in 1 .. Len(p) /\ p[e].depth = p[i].depth /\ OpenTo(p, i, e)
  BY NextIsOpen DEF NextIs
<1>2. o \in 1 .. e - 1
  BY DEF OpenTo
<1>3. ~ (o > i)
  <2>1. SUFFICES ASSUME o > i
                 PROVE  FALSE
    OBVIOUS
  <2>2. OpenTo(p, i, o)
    <3>1. i \in 1 .. o - 1 /\ \A x \in i + 1 .. o - 1 : x \in i + 1 .. e - 1
      BY <1>1, <1>2, <2>1
    <3> QED
      BY <1>1, <3>1 DEF OpenTo
  <2>3. p[o].depth > p[i].depth
    BY <2>2 DEF LogOK
  <2>4. p[e].depth >= p[o].depth
    BY <1>1 DEF LogOK
  <2>5. p[o] \in ANode /\ p[i] \in ANode
    OBVIOUS
  <2>6. p[o].depth \in Nat /\ p[i].depth \in Nat
    BY <2>5 DEF ANode
  <2> QED
    BY <1>1, <2>3, <2>4, <2>6
<1>4. o # i
  BY DEF Logic
<1>5. o \in 1 .. i - 1
  BY <1>2, <1>3, <1>4
<1>6. \A x \in o + 1 .. i - 1 : x \in o + 1 .. e - 1
  BY <1>1
<1>7. OpenTo(p, o, i) /\ (NoMid(p, o, e) => NoMid(p, o, i))
  BY <1>5, <1>6 DEF OpenTo, NoMid
<1> QED
  BY <1>7 DEF VarsAt

\* What is known.
LEMMA FactsDiffer ==
    /\ \A x : Ready(x) # Plain /\ InVar(x) # Plain /\ Has(x) # Plain /\ Known(x) # Plain
    /\ \A x, y : /\ Ready(x) # InVar(y) /\ Ready(x) # Has(y) /\ Ready(x) # Known(y)
                 /\ InVar(x) # Has(y) /\ InVar(x) # Known(y) /\ Has(x) # Known(y)
    /\ \A x, y : /\ Ready(x) = Ready(y) => x = y
                 /\ InVar(x) = InVar(y) => x = y
                 /\ Has(x) = Has(y) => x = y
                 /\ Known(x) = Known(y) => x = y
BY DEF Ready, InVar, Has, Known, Plain

LEMMA PlainHolds == \A vars_, values, last : Holds(Plain, vars_, values, last)
BY DEF Holds

LEMMA ReadyHolds ==
    ASSUME NEW vars_, NEW values, NEW last, NEW v
    PROVE  Holds(Ready(v), vars_, values, last) <=> v \in DOMAIN values /\ values[v] = last
BY FactsDiffer DEF Holds

LEMMA InVarHolds ==
    ASSUME NEW vars_, NEW values, NEW last, NEW v
    PROVE  Holds(InVar(v), vars_, values, last) <=> v \in DOMAIN vars_ /\ vars_[v] = last
BY FactsDiffer DEF Holds

LEMMA HasHolds ==
    ASSUME NEW vars_, NEW values, NEW last, NEW v
    PROVE  Holds(Has(v), vars_, values, last) <=> v \in DOMAIN vars_
BY FactsDiffer DEF Holds

LEMMA KnownHolds ==
    ASSUME NEW vars_, NEW values, NEW last
    PROVE  Holds(Known(FALSE), vars_, values, last) <=> No(last)
BY FactsDiffer DEF Holds, No

LEMMA PutIs ==
    ASSUME NEW f, NEW v, NEW b, NEW g, g = Put(f, v, b)
    PROVE  /\ DOMAIN g = DOMAIN f \cup {v} /\ g[v] = b
           /\ \A w \in DOMAIN f : w # v => g[w] = f[w]
BY DEF Put

LEMMA VarsPut ==
    ASSUME NEW p, NEW f, NEW i, VarsAt(p, f, i), NEW v, OpenTo(p, v, i) => ~ NoMid(p, v, i),
           NEW b, NEW g, g = Put(f, v, b)
    PROVE  VarsAt(p, g, i)
<1> SUFFICES ASSUME NEW o \in 1 .. Len(p), p[o].tok \in Logic, OpenTo(p, o, i)
             PROVE  o \in DOMAIN g /\ (NoMid(p, o, i) => g[o] = (p[o].tok = "or"))
  BY DEF VarsAt
<1>1. o \in DOMAIN f /\ (NoMid(p, o, i) => f[o] = (p[o].tok = "or"))
  BY DEF VarsAt
<1>2. DOMAIN g = DOMAIN f \cup {v} /\ \A w \in DOMAIN f : w # v => g[w] = f[w]
  BY DEF Put
<1> QED
  BY <1>1, <1>2

\* The instruction that is next.
LEMMA InstIs ==
    ASSUME IsBlocks(blocks), NEW inst, At(blocks, ir.block, ir.at, inst)
    PROVE  /\ ~ AtEnd /\ Inst = inst /\ NextOp = inst.op
           /\ IrMeets <=> inst.op \in {"call", "return"}
<1>1. /\ ir.block \in 1 .. Len(blocks) /\ ir.at \in 1 .. Len(blocks[ir.block])
      /\ blocks[ir.block][ir.at] = inst /\ Len(blocks[ir.block]) \in Nat
  BY BlocksAre DEF At
<1>2. ~ AtEnd /\ Inst = inst
  BY <1>1 DEF AtEnd, Inst, Insts
<1>3. NextOp = inst.op
  BY <1>2 DEF NextOp
<1> QED
  BY <1>2, <1>3 DEF IrMeets, FallsOut

LEMMA InstructionsAre ==
    /\ \A v : Call(v).op = "call" /\ Call(v).value = v
    /\ \A v : Alloc(v).op = "alloc" /\ Alloc(v).var = v
    /\ \A v, b : Set(v, b).op = "set" /\ Set(v, b).var = v /\ Set(v, b).to = b
    /\ \A w, v : Store(w, v).op = "store" /\ Store(w, v).value = w /\ Store(w, v).var = v
    /\ \A v : LoadFrom(v).op = "load" /\ LoadFrom(v).var = v /\ LoadFrom(v).value = v
    /\ \A w, x, y : /\ Branch(w, x, y).op = "branch" /\ Branch(w, x, y).value = w
                    /\ Branch(w, x, y).yes = x /\ Branch(w, x, y).no = y
    /\ \A b : Jump(b).op = "jump" /\ Jump(b).to = b
    /\ \A w : Return(w).op = "return" /\ Return(w).value = w
BY DEF Call, Alloc, Set, Store, LoadFrom, Branch, Jump, Return

LEMMA RunIs ==
    ASSUME IsBlocks(blocks), Shape, IrStep, NEW inst, At(blocks, ir.block, ir.at, inst)
    PROVE  /\ inst.op \in {"alloc", "set", "store", "load"} => ir'.block = ir.block /\ ir'.at = ir.at + 1
           /\ inst.op \in {"branch", "jump"} => ir'.at = 1 /\ env' = env
           /\ inst.op = "load" => env'.vars = env.vars
           /\ inst.op \in {"alloc", "set", "store"} => env'.values = env.values
           /\ inst.op = "alloc" => env'.vars = Put(env.vars, inst.var, FALSE)
           /\ inst.op = "set" => env'.vars = Put(env.vars, inst.var, inst.to)
           /\ inst.op = "store" => env'.vars = Put(env.vars, inst.var, env.values[inst.value])
           /\ inst.op = "load" => env'.values = Put(env.values, inst.value, env.vars[inst.var])
           /\ inst.op = "branch" =>
                 ir'.block = IF env.values[inst.value] THEN inst.yes ELSE inst.no
           /\ inst.op = "jump" => ir'.block = inst.to
<1>1. ~ AtEnd /\ Inst = inst
  BY InstIs
<1>2. PICK op : op = inst.op
  OBVIOUS
<1>3. PICK vs, ws, b, k : vs = env.vars /\ ws = env.values /\ b = ir.block /\ k = ir.at
  OBVIOUS
<1>4. env = [vars |-> vs, values |-> ws] /\ ir = [block |-> b, at |-> k]
  BY <1>3 DEF Shape
<1>5. CASE op \in {"alloc", "set", "store", "load"}
  <2>1. ir' = [ir EXCEPT !.at = ir.at + 1]
    BY <1>1, <1>2, <1>5 DEF IrStep, GoOn
  <2>2. ir'.block = ir.block /\ ir'.at = ir.at + 1
    BY <1>4, <2>1
  <2>3. op = "alloc" => env' = [env EXCEPT !.vars = Put(env.vars, inst.var, FALSE)]
    BY <1>1, <1>2 DEF IrStep
  <2>4. op = "set" => env' = [env EXCEPT !.vars = Put(env.vars, inst.var, inst.to)]
    BY <1>1, <1>2 DEF IrStep
  <2>5. op = "store" => env' = [env EXCEPT !.vars = Put(env.vars, inst.var, env.values[inst.value])]
    BY <1>1, <1>2 DEF IrStep
  <2>6. op = "load" => env' = [env EXCEPT !.values = Put(env.values, inst.value, env.vars[inst.var])]
    BY <1>1, <1>2 DEF IrStep
  <2> QED
    BY <1>2, <1>4, <1>5, <2>2, <2>3, <2>4, <2>5, <2>6
<1>6. CASE op = "branch"
  <2>1. ir' = [block |-> IF env.values[inst.value] THEN inst.yes ELSE inst.no, at |-> 1] /\ env' = env
    BY <1>1, <1>2, <1>6 DEF IrStep, Goto
  <2> QED
    BY <1>2, <1>6, <2>1
<1>7. CASE op = "jump"
  <2>1. ir' = [block |-> inst.to, at |-> 1] /\ env' = env
    BY <1>1, <1>2, <1>7 DEF IrStep, Goto
  <2> QED
    BY <1>2, <1>7, <2>1
<1> QED
  BY <1>2, <1>5, <1>6, <1>7

\* Of both.
LEMMA NowIs ==
    ASSUME NEW rel, Whole(prog, void, blocks, rel), NEW i, NEW c, Now(rel, i, c)
    PROVE  /\ i \in 1 .. Len(prog) /\ prog[i] \in ANode
           /\ Step(prog, <<>>, void, blocks, rel, i, ir.block, ir.at, c)
           /\ Holds(c, env.vars, env.values, src.last)
           /\ VarsAt(prog, env.vars, i)
           /\ Reach(prog, src.last, i, src.at)
BY DEF Whole, Now, Along, Matched

LEMMA GoesToEnd ==
    ASSUME NEW p, NEW rel, NEW j, NEW b, Goes(p, <<>>, rel, j, b)
    PROVE  \E e : NextIs(p, j, e) /\ Landed(p, rel, j, e, b)
<1>1. p[j].depth \notin 1 .. Len(<<>>)
  OBVIOUS
<1> QED
  BY <1>1 DEF Goes

\* A step of the blocks, from what they were about to do to what they are about to do next.
Stepping(rel, i, c) == Whole(prog, void, blocks, rel) /\ Shape /\ IrStep /\ Now(rel, i, c)

Moved(rel) == \E i, c : Then(rel, i, c)

LEMMA Stepped ==
    ASSUME NEW rel, NEW i, NEW c, Stepping(rel, i, c)
    PROVE  /\ prog \in Seq(ANode) /\ LogOK(prog, <<>>) /\ IsBlocks(blocks)
           /\ i \in 1 .. Len(prog) /\ prog[i] \in ANode
           /\ Step(prog, <<>>, void, blocks, rel, i, ir.block, ir.at, c)
           /\ Holds(c, env.vars, env.values, src.last)
           /\ VarsAt(prog, env.vars, i)
           /\ Reach(prog, src.last, i, src.at) /\ ~ Silent(prog, src.at) /\ ~ IrMeets
           /\ src.last \in BOOLEAN
<1>1. ~ Silent(prog, src.at) /\ ~ IrMeets
  BY DEF Stepping, IrStep, SrcMeets, Node, Silent
<1>2. Whole(prog, void, blocks, rel) /\ Now(rel, i, c)
  BY DEF Stepping
<1> QED
  BY <1>1, <1>2, NowIs DEF Stepping, Whole, Shape

\* What an instruction that is reached does.
LEMMA SteppedRun ==
    ASSUME NEW rel, NEW i, NEW c, Stepping(rel, i, c),
           NEW inst, At(blocks, ir.block, ir.at, inst)
    PROVE  /\ inst.op \in {"alloc", "set", "store", "load"} => ir'.block = ir.block /\ ir'.at = ir.at + 1
           /\ inst.op \in {"branch", "jump"} => ir'.at = 1 /\ env' = env
           /\ inst.op = "load" => env'.vars = env.vars
           /\ inst.op \in {"alloc", "set", "store"} => env'.values = env.values
           /\ inst.op = "alloc" => env'.vars = Put(env.vars, inst.var, FALSE)
           /\ inst.op = "set" => env'.vars = Put(env.vars, inst.var, inst.to)
           /\ inst.op = "store" => env'.vars = Put(env.vars, inst.var, env.values[inst.value])
           /\ inst.op = "load" => env'.values = Put(env.values, inst.value, env.vars[inst.var])
           /\ inst.op = "branch" =>
                 ir'.block = IF env.values[inst.value] THEN inst.yes ELSE inst.no
           /\ inst.op = "jump" => ir'.block = inst.to
BY RunIs DEF Stepping, Whole

LEMMA JumpRuns ==
    ASSUME NEW rel, NEW i, NEW c, Stepping(rel, i, c), NEW to, At(blocks, ir.block, ir.at, Jump(to))
    PROVE  ir'.at = 1 /\ env' = env /\ ir'.block = to
<1>1. PICK inst : inst = Jump(to)
  OBVIOUS
<1>2. inst.op = "jump" /\ inst.to = to
  BY <1>1, InstructionsAre
<1>3. At(blocks, ir.block, ir.at, inst)
  BY <1>1
<1> QED
  BY <1>2, <1>3, SteppedRun

LEMMA BranchRuns ==
    ASSUME NEW rel, NEW i, NEW c, Stepping(rel, i, c), NEW v, NEW yes, NEW no, c = Ready(v),
           At(blocks, ir.block, ir.at, Branch(v, yes, no))
    PROVE  /\ ir'.at = 1 /\ env' = env
           /\ Yes(src.last) => ir'.block = yes
           /\ No(src.last) => ir'.block = no
<1>1. PICK inst : inst = Branch(v, yes, no)
  OBVIOUS
<1>2. inst.op = "branch" /\ inst.value = v /\ inst.yes = yes /\ inst.no = no
  BY <1>1, InstructionsAre
<1>3. At(blocks, ir.block, ir.at, inst)
  BY <1>1
<1>4. ir'.at = 1 /\ env' = env /\ ir'.block = IF env.values[v] THEN yes ELSE no
  BY <1>2, <1>3, SteppedRun
<1>5. env.values[v] = src.last
  <2>1. PICK vs, ws, last : vs = env.vars /\ ws = env.values /\ last = src.last
    OBVIOUS
  <2>2. Holds(Ready(v), vs, ws, last)
    BY <2>1, Stepped
  <2>3. ws[v] = last
    BY ONLY <2>2, ReadyHolds
  <2> QED
    BY <2>1, <2>2, <2>3
<1> QED
  BY <1>4, <1>5 DEF Yes, No

LEMMA MovesTo ==
    ASSUME NEW rel, NEW i, NEW b, NEW c, <<i, b, 1, c>> \in rel,
           ir'.block = b, ir'.at = 1, env' = env,
           Holds(c, env.vars, env.values, src.last), VarsAt(prog, env.vars, i),
           Reach(prog, src.last, i, src.at)
    PROVE  Moved(rel)
BY DEF Moved, Then, Along

\* After a statement nothing needs to be known.
LEMMA MovesAfter ==
    ASSUME NEW rel, NEW j, NEW c, Stepping(rel, j, c), NEW i \in 1 .. Len(prog),
           prog[i].tok \notin ExpToks,
           NEW b, <<i + 1, b, 1, Plain>> \in rel, ir'.block = b, ir'.at = 1, env' = env,
           Reach(prog, src.last, i + 1, src.at)
    PROVE  Moved(rel)
<1>1. VarsAt(prog, env.vars, i + 1)
  BY Stepped, VarsAtStatements
<1>2. Holds(Plain, env.vars, env.values, src.last)
  BY PlainHolds
<1> QED
  BY <1>1, <1>2, MovesTo

\* The source goes on to what follows.
LEMMA GoesOn ==
    ASSUME NEW rel, NEW j, NEW c, Stepping(rel, j, c), NEW i, Reach(prog, src.last, i, src.at),
           prog[i].tok \notin {"eval", "return", "endfunction"}, NEW k,
           k = Follow(prog, i, src.last)
    PROVE  Reach(prog, src.last, k, src.at)
BY Stepped, ReachOn DEF Silent

\* Each node in turn.
LEMMA OnMoves ==
    ASSUME NEW rel, NEW i, NEW c, Stepping(rel, i, c), prog[i].tok \in {"endif", "while"}
    PROVE  Moved(rel)
<1>1. PICK to : At(blocks, ir.block, ir.at, Jump(to)) /\ <<i + 1, to, 1, Plain>> \in rel
  BY Stepped DEF Step, OnStep
<1>2. ir'.at = 1 /\ env' = env /\ ir'.block = to
  BY <1>1, JumpRuns
<1>3. Reach(prog, src.last, i + 1, src.at)
  BY Stepped, FollowNext, GoesOn
<1> QED
  BY <1>1, <1>2, <1>3, Stepped, MovesAfter DEF ExpToks

LEMMA ElseMoves ==
    ASSUME NEW rel, NEW i, NEW c, Stepping(rel, i, c), prog[i].tok = "else"
    PROVE  Moved(rel)
<1>1. PICK end : At(blocks, ir.block, ir.at, Jump(end)) /\ Goes(prog, <<>>, rel, i, end)
  BY Stepped DEF Step, ElseStep
<1>2. PICK e : NextIs(prog, i, e) /\ Landed(prog, rel, i, e, end)
  BY <1>1, GoesToEnd
<1>3. ir'.at = 1 /\ env' = env /\ ir'.block = end
  BY <1>1, JumpRuns
<1>4. e \in 1 .. Len(prog) /\ prog[e].tok \notin ExpToks /\ <<e + 1, end, 1, Plain>> \in rel
  BY <1>2, WhatCloses DEF NextIs, Closes, Landed, ExpToks
<1>5. Reach(prog, src.last, e + 1, src.at)
  <2>1. e + 1 = Follow(prog, i, src.last)
    BY <1>2, EndsAreFound, FollowBack
  <2> QED
    BY <2>1, Stepped, GoesOn
<1> QED
  BY <1>3, <1>4, <1>5, MovesAfter

LEMMA DoMoves ==
    ASSUME NEW rel, NEW i, NEW c, Stepping(rel, i, c), prog[i].tok = "do"
    PROVE  Moved(rel)
<1>1. PICK v, body, end : /\ At(blocks, ir.block, ir.at, Branch(v, body, end)) /\ c = Ready(v)
                          /\ <<i + 1, body, 1, Plain>> \in rel /\ Goes(prog, <<>>, rel, i, end)
  BY Stepped DEF Step, DoStep
<1>2. PICK e : NextIs(prog, i, e) /\ Landed(prog, rel, i, e, end)
  BY <1>1, GoesToEnd
<1>3. /\ ir'.at = 1 /\ env' = env
      /\ Yes(src.last) => ir'.block = body
      /\ No(src.last) => ir'.block = end
  BY <1>1, BranchRuns
<1>4. e \in 1 .. Len(prog) /\ prog[e].tok \notin ExpToks /\ <<e + 1, end, 1, Plain>> \in rel
  BY <1>2, WhatCloses DEF NextIs, Closes, Landed, ExpToks
<1>5. CASE Yes(src.last)
  <2>1. i + 1 = Follow(prog, i, src.last)
    BY <1>5, FollowYes
  <2>2. Reach(prog, src.last, i + 1, src.at)
    BY <2>1, Stepped, GoesOn
  <2> QED
    BY <1>1, <1>3, <1>5, <2>2, Stepped, MovesAfter DEF ExpToks
<1>6. CASE No(src.last)
  <2>1. e + 1 = Follow(prog, i, src.last)
    BY <1>2, <1>6, EndsAreFound, FollowNo
  <2>2. Reach(prog, src.last, e + 1, src.at)
    BY <2>1, Stepped, GoesOn
  <2> QED
    BY <1>3, <1>4, <1>6, <2>2, MovesAfter
<1> QED
  BY <1>5, <1>6, Stepped DEF Yes, No

LEMMA ThenMoves ==
    ASSUME NEW rel, NEW i, NEW c, Stepping(rel, i, c), prog[i].tok = "then"
    PROVE  Moved(rel)
<1>1. ThenStep(prog, <<>>, blocks, rel, i, ir.block, ir.at, c)
  BY Stepped DEF Step
<1>2. ASSUME NEW v, NEW yes, NEW no, At(blocks, ir.block, ir.at, Branch(v, yes, no)),
             c = Ready(v), <<i + 1, yes, 1, Plain>> \in rel, Goes(prog, <<>>, rel, i, no)
      PROVE  Moved(rel)
  <2>1. /\ ir'.at = 1 /\ env' = env
        /\ Yes(src.last) => ir'.block = yes
        /\ No(src.last) => ir'.block = no
    BY <1>2, BranchRuns
  <2>2. CASE Yes(src.last)
    <3>1. i + 1 = Follow(prog, i, src.last)
      BY <2>2, FollowYes
    <3>2. Reach(prog, src.last, i + 1, src.at)
      BY <3>1, Stepped, GoesOn
    <3> QED
      BY <1>2, <2>1, <2>2, <3>2, Stepped, MovesAfter DEF ExpToks
  <2>3. CASE No(src.last)
    <3>1. PICK e : NextIs(prog, i, e) /\ Landed(prog, rel, i, e, no)
      BY <1>2, GoesToEnd
    <3>2. CASE prog[e].tok = "else"
      <4>1. e \in 1 .. Len(prog) /\ prog[e].tok \notin ExpToks /\ <<e + 1, no, 1, Plain>> \in rel
        BY <3>1, <3>2 DEF NextIs, Landed, ExpToks
      <4>2. e + 1 = Follow(prog, i, src.last)
        BY <2>3, <3>1, EndsAreFound, FollowNo
      <4>3. Reach(prog, src.last, e + 1, src.at)
        BY <4>2, Stepped, GoesOn
      <4> QED
        BY <2>1, <2>3, <4>1, <4>3, MovesAfter
    <3>3. CASE prog[e].tok # "else"
      <4>1. <<i, no, 1, Known(FALSE)>> \in rel
        BY <3>1, <3>3 DEF Landed
      <4>2. Holds(Known(FALSE), env.vars, env.values, src.last)
        BY <2>3, KnownHolds
      <4> QED
        BY <2>1, <2>3, <4>1, <4>2, Stepped, MovesTo
    <3> QED
      BY <3>2, <3>3
  <2> QED
    BY <2>2, <2>3, Stepped DEF Yes, No
<1>3. ASSUME NEW e, NEW end, At(blocks, ir.block, ir.at, Jump(end)), c = Known(FALSE),
             NextIs(prog, i, e), <<e + 1, end, 1, Plain>> \in rel
      PROVE  Moved(rel)
  <2>1. ir'.at = 1 /\ env' = env /\ ir'.block = end
    BY <1>3, JumpRuns
  <2>2. No(src.last)
    <3>1. Holds(Known(FALSE), env.vars, env.values, src.last)
      BY <1>3, Stepped
    <3> QED
      BY <3>1, KnownHolds
  <2>3. e \in 1 .. Len(prog) /\ prog[e].tok \notin ExpToks
    BY <1>3, WhatCloses DEF NextIs, Closes, ExpToks
  <2>4. e + 1 = Follow(prog, i, src.last)
    BY <1>3, <2>2, EndsAreFound, FollowNo
  <2>5. Reach(prog, src.last, e + 1, src.at)
    BY <2>4, Stepped, GoesOn
  <2> QED
    BY <1>3, <2>1, <2>3, <2>5, MovesAfter
<1> QED
  BY <1>1, <1>2, <1>3 DEF ThenStep

LEMMA EndWhileMoves ==
    ASSUME NEW rel, NEW i, NEW c, Stepping(rel, i, c), prog[i].tok = "endwhile"
    PROVE  Moved(rel)
<1>1. PICK j, cond : /\ prog[j].tok = "while" /\ NextIs(prog, j, i)
                     /\ At(blocks, ir.block, ir.at, Jump(cond)) /\ <<j + 1, cond, 1, Plain>> \in rel
  BY Stepped DEF Step, EndWhileStep
<1>2. ir'.at = 1 /\ env' = env /\ ir'.block = cond
  BY <1>1, JumpRuns
<1>3. Reach(prog, src.last, j, src.at)
  <2>1. j = Follow(prog, i, src.last)
    BY <1>1, Stepped, BeginIs, FollowBack
  <2> QED
    BY <2>1, Stepped, GoesOn
<1>4. Reach(prog, src.last, j + 1, src.at)
  <2>1. j + 1 = Follow(prog, j, src.last)
    BY <1>1, FollowNext
  <2> QED
    BY <1>1, <1>3, <2>1, GoesOn
<1>5. j \in 1 .. Len(prog) /\ prog[j].tok \notin ExpToks
  BY <1>1 DEF NextIs, ExpToks
<1> QED
  BY <1>1, <1>2, <1>4, <1>5, MovesAfter

LEMMA BreakMoves ==
    ASSUME NEW rel, NEW i, NEW c, Stepping(rel, i, c), prog[i].tok = "break"
    PROVE  Moved(rel)
<1>1. PICK j, end : /\ IsLoop(prog, i, j) /\ At(blocks, ir.block, ir.at, Jump(end))
                    /\ Goes(prog, <<>>, rel, j, end)
  BY Stepped DEF Step, BreakStep
<1>2. PICK e : NextIs(prog, j, e) /\ Landed(prog, rel, j, e, end)
  BY <1>1, GoesToEnd
<1>3. ir'.at = 1 /\ env' = env /\ ir'.block = end
  BY <1>1, JumpRuns
<1>4. prog[j].tok = "while"
  BY <1>1 DEF IsLoop
<1>5. e \in 1 .. Len(prog) /\ prog[e].tok \notin ExpToks /\ <<e + 1, end, 1, Plain>> \in rel
  <2>1. <<e + 1, end, 1, Plain>> \in rel
    BY <1>2, <1>4 DEF Landed
  <2>2. e \in 1 .. Len(prog) /\ prog[e].tok \in Closers("while")
    BY <1>2, <1>4 DEF NextIs, Closes
  <2> QED
    BY <2>1, <2>2 DEF Closers, Logic, ExpToks
<1>6. e + 1 = Follow(prog, i, src.last)
  <2>1. Loop(prog, i) = j
    BY <1>1, Stepped, LoopIs
  <2>2. EndOfLoop(prog, j) = e
    BY <1>2, <1>4, EndsAreFound
  <2> QED
    BY <2>1, <2>2, FollowBack
<1>7. Reach(prog, src.last, e + 1, src.at)
  BY <1>6, Stepped, GoesOn
<1> QED
  BY <1>3, <1>5, <1>7, MovesAfter

LEMMA ContinueMoves ==
    ASSUME NEW rel, NEW i, NEW c, Stepping(rel, i, c), prog[i].tok = "continue"
    PROVE  Moved(rel)
<1>1. PICK j, cond : /\ IsLoop(prog, i, j) /\ At(blocks, ir.block, ir.at, Jump(cond))
                     /\ <<j + 1, cond, 1, Plain>> \in rel
  BY Stepped DEF Step, ContinueStep
<1>2. ir'.at = 1 /\ env' = env /\ ir'.block = cond
  BY <1>1, JumpRuns
<1>3. prog[j].tok = "while" /\ j \in 1 .. Len(prog) /\ prog[j].tok \notin ExpToks
  <2>1. prog[j].tok = "while" /\ j \in 1 .. i - 1 /\ i \in 1 .. Len(prog)
    BY <1>1, Stepped DEF IsLoop, OpenTo
  <2>2. j \in 1 .. Len(prog)
    BY <2>1
  <2> QED
    BY <2>1, <2>2 DEF ExpToks
<1>4. Reach(prog, src.last, j, src.at)
  <2>1. j = Follow(prog, i, src.last)
    BY <1>1, Stepped, LoopIs, FollowBack
  <2> QED
    BY <2>1, Stepped, GoesOn
<1>5. Reach(prog, src.last, j + 1, src.at)
  <2>1. j + 1 = Follow(prog, j, src.last)
    BY <1>3, FollowNext
  <2> QED
    BY <1>3, <1>4, <2>1, GoesOn
<1> QED
  BY <1>1, <1>2, <1>3, <1>5, MovesAfter

\* The operators.
LEMMA LogicMoves ==
    ASSUME NEW rel, NEW i, NEW c, Stepping(rel, i, c), prog[i].tok \in Logic
    PROVE  Moved(rel)
<1>1. PICK vs, ws, b, k, kind : /\ vs = env.vars /\ ws = env.values /\ b = ir.block /\ k = ir.at
                                /\ kind = (prog[i].tok = "or")
  OBVIOUS
<1>2. LogicStep(prog, blocks, rel, i, b, k, c)
  BY <1>1, Stepped DEF Step
<1>3. OpenTo(prog, i, i) => ~ NoMid(prog, i, i)
  <2>1. i \notin 1 .. i - 1
    BY Stepped
  <2> QED
    BY <2>1 DEF OpenTo
<1>4. VarsAt(prog, vs, i)
  BY <1>1, Stepped
<1>5. CASE At(blocks, b, k, Alloc(i)) /\ <<i, b, k + 1, Has(i)>> \in rel
  <2>1. PICK inst : inst = Alloc(i)
    OBVIOUS
  <2>2. inst.op = "alloc" /\ inst.var = i /\ At(blocks, ir.block, ir.at, inst)
    BY <1>1, <1>5, <2>1, InstructionsAre
  <2>3. PICK ww : ww = env'.vars
    OBVIOUS
  <2>4. ir'.block = b /\ ir'.at = k + 1 /\ ww = Put(vs, i, FALSE) /\ env'.values = ws
    BY <1>1, <2>2, <2>3, SteppedRun
  <2>5. DOMAIN ww = DOMAIN vs \cup {i}
    BY ONLY <2>4, PutIs
  <2>6. Holds(Has(i), ww, ws, src.last)
    BY <2>5, HasHolds
  <2>7. VarsAt(prog, ww, i)
    BY <1>3, <1>4, <2>4, VarsPut
  <2> QED
    BY <1>5, <2>3, <2>4, <2>6, <2>7, Stepped DEF Moved, Then, Along
<1>6. CASE /\ At(blocks, b, k, Set(i, kind)) /\ c = Has(i) /\ <<i + 1, b, k + 1, Plain>> \in rel
  <2>1. PICK inst : inst = Set(i, kind)
    OBVIOUS
  <2>2. inst.op = "set" /\ inst.var = i /\ inst.to = kind /\ At(blocks, ir.block, ir.at, inst)
    BY <1>1, <1>6, <2>1, InstructionsAre
  <2>3. PICK ww : ww = env'.vars
    OBVIOUS
  <2>4. ir'.block = b /\ ir'.at = k + 1 /\ ww = Put(vs, i, kind) /\ env'.values = ws
    BY <1>1, <2>2, <2>3, SteppedRun
  <2>5. i \in DOMAIN ww /\ ww[i] = kind
    BY <2>4 DEF Put
  <2>6. VarsAt(prog, ww, i)
    BY <1>3, <1>4, <2>4, VarsPut
  <2>7. VarsAt(prog, ww, i + 1)
    BY <1>1, <2>5, <2>6, Stepped, VarsGoOn
  <2>8. i + 1 = Follow(prog, i, src.last)
    BY FollowNext DEF Logic
  <2>9. Reach(prog, src.last, i + 1, src.at)
    BY <2>8, Stepped, GoesOn DEF Logic
  <2> QED
    BY <1>6, <2>3, <2>4, <2>7, <2>9, PlainHolds DEF Moved, Then, Along
<1> QED
  BY <1>1, <1>2, <1>5, <1>6 DEF LogicStep

LEMMA MidMoves ==
    ASSUME NEW rel, NEW i, NEW c, Stepping(rel, i, c), prog[i].tok = "mid"
    PROVE  Moved(rel)
<1>1. PICK o, v, rhs, end :
          /\ Opener(prog, o, i) /\ c = Ready(v)
          /\ At(blocks, ir.block, ir.at, BranchOf(prog[o].tok, v, rhs, end))
          /\ <<i + 1, rhs, 1, Plain>> \in rel /\ Goes(prog, <<>>, rel, i, end)
  BY Stepped DEF Step, MidStep
<1>2. PICK e : NextIs(prog, i, e) /\ Landed(prog, rel, i, e, end)
  BY <1>1, GoesToEnd
<1>3. OperatorOf(prog, i) = o /\ NextOf(prog, i, {"endop"}) = e
  BY <1>1, <1>2, Stepped, OperatorIs
<1>4. prog[o].tok \in Logic /\ OpenTo(prog, o, i) /\ NoMid(prog, o, i) /\ o \in 1 .. Len(prog)
  <2>1. prog[o].tok \in Logic /\ OpenTo(prog, o, i) /\ NoMid(prog, o, i)
    BY <1>1 DEF Opener
  <2>2. o \in 1 .. i - 1 /\ i \in 1 .. Len(prog)
    BY <2>1, Stepped DEF OpenTo
  <2>3. o \in 1 .. Len(prog)
    BY <2>2
  <2> QED
    BY <2>1, <2>3
<1>5. PICK yes, no : /\ BranchOf(prog[o].tok, v, rhs, end) = Branch(v, yes, no)
                     /\ prog[o].tok = "and" => yes = rhs /\ no = end
                     /\ prog[o].tok = "or" => yes = end /\ no = rhs
  BY <1>4 DEF BranchOf, Logic
<1>6. /\ ir'.at = 1 /\ env' = env
      /\ Yes(src.last) => ir'.block = yes
      /\ No(src.last) => ir'.block = no
  <2>1. At(blocks, ir.block, ir.at, Branch(v, yes, no))
    BY <1>1, <1>5
  <2> QED
    BY <1>1, <2>1, BranchRuns
<1>7. CASE (prog[o].tok = "and" /\ Yes(src.last)) \/ (prog[o].tok = "or" /\ No(src.last))
  <2>1. i + 1 = Follow(prog, i, src.last)
    BY <1>3, <1>7, FollowMid
  <2>2. Reach(prog, src.last, i + 1, src.at)
    BY <2>1, Stepped, GoesOn
  <2>3. VarsAt(prog, env.vars, i + 1)
    BY Stepped, VarsGoOn DEF Logic
  <2>4. ir'.block = rhs
    BY <1>5, <1>6, <1>7
  <2> QED
    BY <1>1, <1>6, <2>2, <2>3, <2>4, PlainHolds, MovesTo
<1>8. CASE (prog[o].tok = "and" /\ No(src.last)) \/ (prog[o].tok = "or" /\ Yes(src.last))
  <2>1. e = Follow(prog, i, src.last)
    BY <1>3, <1>8, FollowMid
  <2>2. Reach(prog, src.last, e, src.at)
    BY <2>1, Stepped, GoesOn
  <2>3. VarsAt(prog, env.vars, e)
    BY <1>2, Stepped, VarsAtEnd
  <2>4. ir'.block = end
    BY <1>5, <1>6, <1>8
  <2>5. <<e, end, 1, InVar(o)>> \in rel
    BY <1>1, <1>2 DEF Landed
  <2>6. Holds(InVar(o), env.vars, env.values, src.last)
    <3>1. PICK vs : vs = env.vars
      OBVIOUS
    <3>2. VarsAt(prog, vs, i)
      BY <3>1, Stepped
    <3>3. o \in DOMAIN vs /\ vs[o] = (prog[o].tok = "or")
      BY <1>4, <3>2 DEF VarsAt
    <3>4. vs[o] = src.last
      BY <1>8, <3>3 DEF Yes, No
    <3> QED
      BY <3>1, <3>3, <3>4, InVarHolds
  <2> QED
    BY <1>6, <2>2, <2>3, <2>4, <2>5, <2>6, MovesTo
<1> QED
  BY <1>4, <1>7, <1>8, Stepped DEF Logic, Yes, No

\* Node i is in the right operand of o, or ends it.
InRight(o, i) == prog[o].tok \in Logic /\ OpenTo(prog, o, i) /\ ~ NoMid(prog, o, i)

LEMMA EndOpMoves ==
    ASSUME NEW rel, NEW i, NEW c, Stepping(rel, i, c), prog[i].tok = "endop"
    PROVE  Moved(rel)
<1>1. PICK vs, ws, b, k, last : /\ vs = env.vars /\ ws = env.values /\ b = ir.block /\ k = ir.at
                                /\ last = src.last
  OBVIOUS
<1>2. PICK o, v :
          /\ InRight(o, i)
          /\ \/ At(blocks, b, k, Store(v, o)) /\ c = Ready(v) /\ <<i, b, k + 1, InVar(o)>> \in rel
             \/ At(blocks, b, k, Jump(v)) /\ c = InVar(o) /\ <<i, v, 1, InVar(o)>> \in rel
             \/ At(blocks, b, k, LoadFrom(o)) /\ c = InVar(o) /\ <<i + 1, b, k + 1, Ready(o)>> \in rel
  <2>1. EndOpStep(prog, blocks, rel, i, b, k, c)
    BY <1>1, Stepped DEF Step
  <2> QED
    BY ONLY <2>1 DEF EndOpStep, InRight
<1>3. VarsAt(prog, vs, i) /\ Holds(c, vs, ws, last)
  BY <1>1, Stepped
<1>4. CASE At(blocks, b, k, Store(v, o)) /\ c = Ready(v) /\ <<i, b, k + 1, InVar(o)>> \in rel
  <2>1. PICK inst : inst = Store(v, o)
    OBVIOUS
  <2>2. inst.op = "store" /\ inst.var = o /\ inst.value = v /\ At(blocks, ir.block, ir.at, inst)
    BY <1>1, <1>4, <2>1, InstructionsAre
  <2>3. PICK ww : ww = env'.vars
    OBVIOUS
  <2>4. ir'.block = b /\ ir'.at = k + 1 /\ ww = Put(vs, o, ws[v]) /\ env'.values = ws
    BY <1>1, <2>2, <2>3, SteppedRun
  <2>5. ws[v] = last
    BY <1>3, <1>4, ReadyHolds
  <2>6. o \in DOMAIN ww /\ ww[o] = last
    BY <2>4, <2>5 DEF Put
  <2>7. Holds(InVar(o), ww, ws, last)
    BY <2>6, InVarHolds
  <2>8. VarsAt(prog, ww, i)
    BY <1>2, <1>3, <2>4, VarsPut DEF InRight
  <2> QED
    BY <1>1, <1>4, <2>3, <2>4, <2>7, <2>8, Stepped DEF Moved, Then, Along
<1>5. CASE At(blocks, b, k, Jump(v)) /\ c = InVar(o) /\ <<i, v, 1, InVar(o)>> \in rel
  <2>1. ir'.at = 1 /\ env' = env /\ ir'.block = v
    BY <1>1, <1>5, JumpRuns
  <2> QED
    BY <1>5, <2>1, Stepped, MovesTo
<1>6. CASE At(blocks, b, k, LoadFrom(o)) /\ c = InVar(o) /\ <<i + 1, b, k + 1, Ready(o)>> \in rel
  <2>1. PICK inst : inst = LoadFrom(o)
    OBVIOUS
  <2>2. inst.op = "load" /\ inst.var = o /\ inst.value = o /\ At(blocks, ir.block, ir.at, inst)
    BY <1>1, <1>6, <2>1, InstructionsAre
  <2>3. PICK ww : ww = env'.values
    OBVIOUS
  <2>4. ir'.block = b /\ ir'.at = k + 1 /\ ww = Put(ws, o, vs[o]) /\ env'.vars = vs
    BY <1>1, <2>2, <2>3, SteppedRun
  <2>5. vs[o] = last
    BY <1>3, <1>6, InVarHolds
  <2>6. o \in DOMAIN ww /\ ww[o] = last
    BY <2>4, <2>5 DEF Put
  <2>7. Holds(Ready(o), vs, ww, last)
    BY <2>6, ReadyHolds
  <2>8. VarsAt(prog, vs, i + 1)
    BY <1>3, Stepped, VarsGoOn DEF Logic
  <2>9. i + 1 = Follow(prog, i, src.last)
    BY FollowNext
  <2>10. Reach(prog, src.last, i + 1, src.at)
    BY <2>9, Stepped, GoesOn
  <2> QED
    BY <1>1, <1>6, <2>3, <2>4, <2>7, <2>8, <2>10 DEF Moved, Then, Along
<1> QED
  BY <1>2, <1>4, <1>5, <1>6

\* What is observed meets what is observed.
LEMMA MeetsAtCall ==
    ASSUME IsBlocks(blocks), NEW v, At(blocks, ir.block, ir.at, Call(v)) \/ At(blocks, ir.block, ir.at, Return(v))
    PROVE  IrMeets
<1>1. PICK inst : /\ At(blocks, ir.block, ir.at, inst)
                  /\ inst = Call(v) \/ inst = Return(v)
  OBVIOUS
<1>2. inst.op \in {"call", "return"}
  BY <1>1, InstructionsAre
<1> QED
  BY <1>1, <1>2, InstIs

LEMMA NodesMove ==
    ASSUME NEW rel, NEW i, NEW c, Stepping(rel, i, c)
    PROVE  Moved(rel)
<1>1. prog[i].tok \in Tokens
  BY Stepped DEF ANode
<1>2. ~ IrMeets
  BY Stepped
<1>3. prog[i].tok # "eval"
  <2>1. prog[i].tok = "eval" => At(blocks, ir.block, ir.at, Call(i))
    BY Stepped DEF Step, EvalStep
  <2> QED
    BY <1>2, <2>1, Stepped, MeetsAtCall
<1>4. prog[i].tok # "return"
  <2>1. prog[i].tok = "return" => \E v : At(blocks, ir.block, ir.at, Return(v))
    BY Stepped DEF Step, ReturnStep
  <2> QED
    BY <1>2, <2>1, Stepped, MeetsAtCall
<1>5. prog[i].tok # "endfunction"
  <2>1. prog[i].tok = "endfunction" /\ void => At(blocks, ir.block, ir.at, Return(None))
    BY Stepped DEF Step
  <2>2. prog[i].tok = "endfunction" => src.at = i
    BY Stepped, ReachedHere DEF Silent
  <2>3. ~ Undefined
    BY DEF Stepping, IrStep
  <2> QED
    BY <1>2, <2>1, <2>2, <2>3, Stepped, MeetsAtCall DEF Undefined, Node
<1> QED
  BY <1>1, <1>3, <1>4, <1>5, OnMoves, ElseMoves, DoMoves, ThenMoves, EndWhileMoves, BreakMoves,
     ContinueMoves, LogicMoves, MidMoves, EndOpMoves DEF Tokens, Logic

Ops == {"call", "alloc", "set", "store", "load", "branch", "jump", "return"}

\* The instruction that is next finds what it reads.
Reads(inst) ==
    /\ inst.op \in Ops
    /\ inst.op \in {"store", "branch", "return"} => inst.value \in DOMAIN env.values \cup {None}
    /\ inst.op \in {"set", "store", "load"} => inst.var \in DOMAIN env.vars

Finds(i) == \E inst : /\ At(blocks, ir.block, ir.at, inst) /\ Reads(inst)
                      /\ Silent(prog, i) => inst.op \notin {"call", "return"}

LEMMA FindsJump ==
    ASSUME NEW i, NEW to, At(blocks, ir.block, ir.at, Jump(to))
    PROVE  Finds(i)
<1>1. Jump(to).op = "jump"
  BY InstructionsAre
<1>2. Reads(Jump(to)) /\ Jump(to).op \notin {"call", "return"}
  BY <1>1 DEF Reads, Ops
<1> QED
  BY <1>2 DEF Finds

LEMMA FindsBranch ==
    ASSUME NEW i, NEW v, NEW yes, NEW no, NEW last, Holds(Ready(v), env.vars, env.values, last),
           At(blocks, ir.block, ir.at, Branch(v, yes, no))
    PROVE  Finds(i)
<1>1. PICK inst : inst = Branch(v, yes, no)
  OBVIOUS
<1>2. inst.op = "branch" /\ inst.value = v
  BY <1>1, InstructionsAre
<1>3. v \in DOMAIN env.values
  BY ReadyHolds
<1>4. Reads(inst) /\ inst.op \notin {"call", "return"}
  BY <1>2, <1>3 DEF Reads, Ops
<1> QED
  BY <1>1, <1>4 DEF Finds

LEMMA LogicFinds ==
    ASSUME NEW rel, Whole(prog, void, blocks, rel), NEW i, NEW c, Now(rel, i, c),
           prog[i].tok \in Logic
    PROVE  Finds(i)
<1>1. LogicStep(prog, blocks, rel, i, ir.block, ir.at, c) /\ Holds(c, env.vars, env.values, src.last)
  BY NowIs DEF Step
<1>2. PICK inst : /\ At(blocks, ir.block, ir.at, inst)
                  /\ \/ inst = Alloc(i)
                     \/ inst = Set(i, prog[i].tok = "or") /\ c = Has(i)
  BY <1>1, Zenon DEF LogicStep
<1>3. CASE inst = Alloc(i)
  <2>1. inst.op = "alloc"
    BY <1>3, InstructionsAre
  <2> QED
    BY <1>2, <2>1 DEF Finds, Reads, Ops
<1>4. CASE inst = Set(i, prog[i].tok = "or") /\ c = Has(i)
  <2>1. inst.op = "set" /\ inst.var = i
    BY <1>4 DEF Set
  <2>2. i \in DOMAIN env.vars
    BY <1>1, <1>4, HasHolds
  <2> QED
    BY <1>2, <2>1, <2>2 DEF Finds, Reads, Ops
<1> QED
  BY <1>2, <1>3, <1>4

LEMMA EndOpFinds ==
    ASSUME NEW rel, Whole(prog, void, blocks, rel), NEW i, NEW c, Now(rel, i, c),
           prog[i].tok = "endop"
    PROVE  Finds(i)
<1>1. /\ EndOpStep(prog, blocks, rel, i, ir.block, ir.at, c)
      /\ Holds(c, env.vars, env.values, src.last) /\ VarsAt(prog, env.vars, i)
      /\ i \in 1 .. Len(prog)
  BY NowIs DEF Step
<1>2. PICK o, v, inst :
          /\ prog[o].tok \in Logic /\ OpenTo(prog, o, i)
          /\ At(blocks, ir.block, ir.at, inst)
          /\ \/ inst = Store(v, o) /\ c = Ready(v)
             \/ inst = Jump(v)
             \/ inst = LoadFrom(o)
  BY <1>1 DEF EndOpStep
<1>3. o \in DOMAIN env.vars
  <2>1. o \in 1 .. Len(prog)
    BY <1>1, <1>2 DEF OpenTo
  <2> QED
    BY <1>1, <1>2, <2>1 DEF VarsAt
<1>4. CASE inst = Store(v, o) /\ c = Ready(v)
  <2>1. inst.op = "store" /\ inst.var = o /\ inst.value = v
    BY <1>4, InstructionsAre
  <2>2. v \in DOMAIN env.values
    BY <1>1, <1>4, ReadyHolds
  <2> QED
    BY <1>2, <1>3, <2>1, <2>2 DEF Finds, Reads, Ops
<1>5. CASE inst = Jump(v)
  BY <1>2, <1>5, FindsJump
<1>6. CASE inst = LoadFrom(o)
  <2>1. inst.op = "load" /\ inst.var = o
    BY <1>6, InstructionsAre
  <2> QED
    BY <1>2, <1>3, <2>1 DEF Finds, Reads, Ops
<1> QED
  BY <1>2, <1>4, <1>5, <1>6

LEMMA NodesFind ==
    ASSUME NEW rel, Whole(prog, void, blocks, rel), NEW i, NEW c, Now(rel, i, c),
           prog[i].tok # "endfunction" \/ void
    PROVE  Finds(i)
<1>1. /\ Step(prog, <<>>, void, blocks, rel, i, ir.block, ir.at, c)
      /\ Holds(c, env.vars, env.values, src.last) /\ prog[i].tok \in Tokens
  BY NowIs DEF ANode
<1>2. CASE prog[i].tok = "eval"
  <2>1. At(blocks, ir.block, ir.at, Call(i))
    BY <1>1, <1>2 DEF Step, EvalStep
  <2>2. Reads(Call(i)) /\ ~ Silent(prog, i)
    BY <1>2 DEF Reads, Ops, Call, Silent
  <2> QED
    BY <2>1, <2>2 DEF Finds
<1>3. CASE prog[i].tok = "return" \/ prog[i].tok = "endfunction"
  <2>1. PICK v : At(blocks, ir.block, ir.at, Return(v)) /\ (c = Ready(v) \/ v = None)
    BY <1>1, <1>3 DEF Step, ReturnStep
  <2>2. v \in DOMAIN env.values \cup {None}
    BY <1>1, <2>1, ReadyHolds
  <2>3. Reads(Return(v)) /\ ~ Silent(prog, i)
    BY <1>3, <2>2 DEF Reads, Ops, Return, Silent
  <2> QED
    BY <2>1, <2>3 DEF Finds
<1>4. CASE prog[i].tok \in {"else", "endif", "while", "endwhile", "break", "continue"}
  <2>1. \E to : At(blocks, ir.block, ir.at, Jump(to))
    BY <1>1, <1>4 DEF Step, ElseStep, OnStep, EndWhileStep, BreakStep, ContinueStep
  <2> QED
    BY <2>1, FindsJump
<1>5. CASE prog[i].tok = "mid"
  <2>1. PICK v, yes, no : At(blocks, ir.block, ir.at, Branch(v, yes, no)) /\ c = Ready(v)
    BY <1>1, <1>5 DEF Step, MidStep, BranchOf
  <2> QED
    BY <1>1, <2>1, FindsBranch
<1>6. CASE prog[i].tok = "do"
  <2>1. PICK v, yes, no : At(blocks, ir.block, ir.at, Branch(v, yes, no)) /\ c = Ready(v)
    BY <1>1, <1>6 DEF Step, DoStep
  <2> QED
    BY <1>1, <2>1, FindsBranch
<1>7. CASE prog[i].tok = "then"
  <2>1. \/ \E v, yes, no : At(blocks, ir.block, ir.at, Branch(v, yes, no)) /\ c = Ready(v)
        \/ \E to : At(blocks, ir.block, ir.at, Jump(to))
    BY <1>1, <1>7 DEF Step, ThenStep
  <2> QED
    BY <1>1, <2>1, FindsBranch, FindsJump
<1> QED
  BY <1>1, <1>2, <1>3, <1>4, <1>5, <1>6, <1>7, LogicFinds, EndOpFinds DEF Tokens, Logic

-----------------------------------------------------------------------------
(* Both at once. *)

\* Before the function is finished nothing runs.
AtStart == stack # <<>> => src.at = 1 /\ ir.block = Entry /\ ir.at = 1

\* In a finished function the blocks are about to do what the source does.
AtRun == stack = <<>> => \E rel : /\ Whole(prog, void, blocks, rel)
                                  /\ \E i, c : Now(rel, i, c)

Sim == Shape /\ AtStart /\ AtRun

LEMMA FinishedIsWhole ==
    ASSUME NEW p \in Seq(ANode), NEW bb, IsBlocks(bb), NEW s, s = <<>>, NEW vd, NEW curr, NEW dn,
           NEW ex, NEW rel, Match(p, s, vd, bb, curr, dn, ex, rel)
    PROVE  Whole(p, vd, bb, rel)
BY DEF Match, AtFront, Whole

LEMMA StartsAtEntry ==
    ASSUME NEW p, NEW rel, <<1, Entry, 1, Plain>> \in rel, NEW last, NEW vars_, NEW values
    PROVE  Along(p, rel, 1, last, Entry, 1, vars_, values, 1, Plain)
<1>1. VarsAt(p, vars_, 1)
  <2>1. \A o : ~ OpenTo(p, o, 1)
    BY DEF OpenTo
  <2> QED
    BY <2>1 DEF VarsAt
<1> QED
  BY <1>1, PlainHolds, ReachesItself DEF Along

\* At what can be observed the source is where the blocks are.
LEMMA Together ==
    ASSUME NEW rel, Whole(prog, void, blocks, rel), NEW i, NEW c, Now(rel, i, c), IrMeets
    PROVE  src.at = i \/ (~ void /\ Node.tok = "endfunction")
<1>1. IsBlocks(blocks) /\ Reach(prog, src.last, i, src.at)
  BY NowIs DEF Whole
<1>2. CASE prog[i].tok = "endfunction" /\ ~ void
  BY <1>1, <1>2, ReachedHere DEF Silent
<1>3. CASE prog[i].tok # "endfunction" \/ void
  <2>1. Finds(i)
    BY <1>3, NodesFind
  <2>2. ~ Silent(prog, i)
    BY <1>1, <2>1, InstIs DEF Finds
  <2> QED
    BY <1>1, <2>2, ReachedHere
<1> QED
  BY <1>2, <1>3

LEMMA IrStepKeeps ==
    ASSUME Sim, IrStep
    PROVE  Sim'
<1>1. /\ stack = <<>> /\ stack' = stack /\ prog' = prog /\ void' = void /\ blocks' = blocks
      /\ src' = src
  BY DEF IrStep, Running, pass
<1>2. PICK rel : Whole(prog, void, blocks, rel) /\ \E i, c : Now(rel, i, c)
  BY <1>1 DEF Sim, AtRun
<1>3. PICK i, c : Now(rel, i, c)
  BY <1>2
<1>4. Stepping(rel, i, c)
  BY <1>2, <1>3 DEF Stepping, Sim
<1>5. PICK j, d : Then(rel, j, d)
  BY <1>4, NodesMove DEF Moved
<1>6. Now(rel, j, d)'
  BY <1>1, <1>5 DEF Now, Then
<1>7. Whole(prog, void, blocks, rel)'
  BY <1>1, <1>2
<1>8. Shape'
  <2>1. Finds(i)
    <3>1. prog[i].tok # "endfunction" \/ void
      <4>1. prog[i].tok = "endfunction" => src.at = i
        BY <1>4, Stepped, ReachedHere DEF Silent
      <4> QED
        BY <4>1 DEF IrStep, Undefined, Node
    <3> QED
      BY <1>2, <1>3, <3>1, NodesFind
  <2>2. PICK inst : At(blocks, ir.block, ir.at, inst) /\ inst.op \in Ops
    BY <2>1 DEF Finds, Reads
  <2>3. ~ AtEnd /\ Inst = inst /\ inst.op \notin {"call", "return"}
    BY <1>2, <2>2, InstIs DEF Whole, IrStep
  <2>4. PICK op : op = inst.op
    OBVIOUS
  <2>5. PICK vs, ws, b, k : vs = env.vars /\ ws = env.values /\ b = ir.block /\ k = ir.at
    OBVIOUS
  <2>6. env = [vars |-> vs, values |-> ws] /\ ir = [block |-> b, at |-> k]
    BY <2>5 DEF Sim, Shape
  <2>7. CASE op \in {"branch", "jump"}
    <3>1. /\ env' = env
          /\ \E to : ir' = [block |-> to, at |-> 1]
      BY <2>3, <2>4, <2>7 DEF IrStep, Goto
    <3> QED
      BY <1>1, <2>6, <3>1 DEF Sim, Shape
  <2>8. CASE op \in {"alloc", "set", "store", "load"}
    <3>1. ir' = [ir EXCEPT !.at = ir.at + 1]
      BY <2>3, <2>4, <2>8 DEF IrStep, GoOn
    <3>2. \E f : env' = [env EXCEPT !.vars = f] \/ env' = [env EXCEPT !.values = f]
      BY <2>3, <2>4, <2>8 DEF IrStep
    <3>3. \E b2, k2 : ir' = [block |-> b2, at |-> k2]
      BY <2>6, <3>1
    <3>4. \E vs2, ws2 : env' = [vars |-> vs2, values |-> ws2]
      BY <2>6, <3>2
    <3>5. ir' = [block |-> ir'.block, at |-> ir'.at]
      BY <3>3
    <3>6. env' = [vars |-> env'.vars, values |-> env'.values]
      BY <3>4
    <3> QED
      BY <1>1, <3>5, <3>6 DEF Sim, Shape
  <2> QED
    BY <2>2, <2>3, <2>4, <2>7, <2>8 DEF Ops
<1> QED
  BY <1>1, <1>6, <1>7, <1>8 DEF Sim, AtStart, AtRun

LEMMA SrcStepKeeps ==
    ASSUME Sim, SrcStep
    PROVE  Sim'
<1>1. /\ stack = <<>> /\ stack' = stack /\ prog' = prog /\ void' = void /\ blocks' = blocks
      /\ ir' = ir /\ env' = env /\ Silent(prog, src.at)
  BY DEF SrcStep, Running, pass, SrcMeets, Node, Silent
<1>2. PICK rel : Whole(prog, void, blocks, rel) /\ \E i, c : Now(rel, i, c)
  BY <1>1 DEF Sim, AtRun
<1>3. PICK i, c : Now(rel, i, c)
  BY <1>2
<1>4. PICK at, last : at = src.at /\ last = src.last
  OBVIOUS
<1>5. src = [at |-> at, last |-> last] /\ last \in BOOLEAN
  BY <1>4 DEF Sim, Shape
<1>6. src' = [at |-> Follow(prog, at, last), last |-> last]
  <2>1. PICK to : to = Follow(prog, at, last)
    OBVIOUS
  <2>2. src' = [src EXCEPT !.at = to]
    BY <1>4, <2>1 DEF SrcStep
  <2> QED
    BY <1>5, <2>1, <2>2
<1>7. src'.at = Follow(prog, at, last) /\ src'.last = last
  BY <1>6
<1>8. Along(prog, rel, Follow(prog, at, last), last, ir.block, ir.at, env.vars, env.values, i, c)
  BY <1>1, <1>3, <1>4, ReachNext DEF Now, Along
<1>9. Now(rel, i, c)'
  BY <1>1, <1>7, <1>8 DEF Now
<1>10. Whole(prog, void, blocks, rel)'
  BY <1>1, <1>2
<1>11. Shape'
  BY <1>1, <1>5, <1>6, <1>7 DEF Sim, Shape
<1> QED
  BY <1>1, <1>9, <1>10, <1>11 DEF Sim, AtStart, AtRun

LEMMA EvaluateKeeps ==
    ASSUME Sim, NEW b \in BOOLEAN, Evaluate(b)
    PROVE  Sim'
<1>1. /\ stack = <<>> /\ stack' = stack /\ prog' = prog /\ void' = void /\ blocks' = blocks
      /\ Node.tok = "eval" /\ NextOp = "call"
  BY DEF Evaluate, Meeting, Running, pass
<1>2. PICK rel : Whole(prog, void, blocks, rel) /\ \E i, c : Now(rel, i, c)
  BY <1>1 DEF Sim, AtRun
<1>3. PICK i, c : Now(rel, i, c)
  BY <1>2
<1>4. src.at = i
  BY <1>1, <1>2, <1>3, Together DEF IrMeets
<1>5. prog[i].tok = "eval"
  BY <1>1, <1>4 DEF Node
<1>6. At(blocks, ir.block, ir.at, Call(i)) /\ <<i + 1, ir.block, ir.at + 1, Ready(i)>> \in rel
  BY <1>2, <1>3, <1>5, NowIs DEF Step, EvalStep
<1>7. Inst = Call(i) /\ Inst.value = i
  BY <1>2, <1>6, InstIs, InstructionsAre DEF Whole
<1>8. PICK vs, ws, bl, k : vs = env.vars /\ ws = env.values /\ bl = ir.block /\ k = ir.at
  OBVIOUS
<1>9. env = [vars |-> vs, values |-> ws] /\ ir = [block |-> bl, at |-> k]
  BY <1>8 DEF Sim, Shape
<1>10. PICK ww : ww = Put(ws, i, b)
  OBVIOUS
<1>11. src' = [at |-> i + 1, last |-> b] /\ env' = [vars |-> vs, values |-> ww]
       /\ ir' = [block |-> bl, at |-> k + 1]
  <2>1. src' = [at |-> i + 1, last |-> b]
    BY <1>4 DEF Evaluate
  <2>2. env' = [env EXCEPT !.values = ww]
    BY <1>7, <1>8, <1>10 DEF Evaluate
  <2>3. ir' = [ir EXCEPT !.at = k + 1]
    BY <1>8 DEF Evaluate, GoOn
  <2> QED
    BY <1>9, <2>1, <2>2, <2>3
<1>12. Holds(Ready(i), vs, ww, b)
  <2>1. i \in DOMAIN ww /\ ww[i] = b
    BY <1>10 DEF Put
  <2> QED
    BY <2>1, ReadyHolds
<1>13. VarsAt(prog, vs, i + 1)
  <2>1. prog \in Seq(ANode) /\ i \in 1 .. Len(prog) /\ VarsAt(prog, vs, i)
    BY <1>2, <1>3, <1>8, NowIs DEF Whole
  <2>2. prog[i].tok \notin Logic
    BY <1>5 DEF Logic
  <2> QED
    BY <2>1, <2>2, VarsGoOn
<1>14. Along(prog, rel, i + 1, b, bl, k + 1, vs, ww, i + 1, Ready(i))
  BY <1>6, <1>8, <1>12, <1>13, ReachesItself DEF Along
<1>15. /\ src'.at = i + 1 /\ src'.last = b /\ env'.vars = vs /\ env'.values = ww
       /\ ir'.block = bl /\ ir'.at = k + 1
  BY <1>11
<1>16. Now(rel, i + 1, Ready(i))'
  BY <1>1, <1>14, <1>15 DEF Now
<1>17. Whole(prog, void, blocks, rel)'
  BY <1>1, <1>2
<1>18. Shape'
  BY <1>11, <1>15 DEF Shape
<1> QED
  BY <1>1, <1>16, <1>17, <1>18 DEF Sim, AtStart, AtRun

LEMMA FinishKeeps ==
    ASSUME Sim, Finish
    PROVE  Sim'
<1>1. stack = <<>> /\ stack' = stack /\ prog' = prog /\ void' = void /\ blocks' = blocks
  BY DEF Finish, Meeting, Running, pass
<1>2. PICK rel : Whole(prog, void, blocks, rel)
  BY <1>1 DEF Sim, AtRun
<1>3. /\ src' = [at |-> 1, last |-> FALSE] /\ ir' = [block |-> Entry, at |-> 1]
      /\ env' = [vars |-> NoValues, values |-> NoValues]
  BY DEF Finish, Start
<1>4. /\ src'.at = 1 /\ ir'.block = Entry /\ ir'.at = 1
      /\ Shape'
  BY <1>3 DEF Shape
<1>5. Along(prog, rel, 1, src'.last, Entry, 1, env'.vars, env'.values, 1, Plain)
  BY <1>2, StartsAtEntry DEF Whole
<1>6. Now(rel, 1, Plain)'
  BY <1>1, <1>4, <1>5 DEF Now
<1>7. Whole(prog, void, blocks, rel)'
  BY <1>1, <1>2
<1> QED
  BY <1>1, <1>4, <1>6, <1>7 DEF Sim, AtStart, AtRun

LEMMA LowerStarts ==
    ASSUME Sim, Lower, UNCHANGED <<src, ir, env>>, Pass', Matching'
    PROVE  Sim'
<1>1. stack # <<>>
  BY DEF Lower
<1>2. src.at = 1 /\ ir.block = Entry /\ ir.at = 1
  BY <1>1 DEF Sim, AtStart
<1>3. src' = src /\ ir' = ir /\ env' = env /\ Shape'
  BY DEF Sim, Shape
<1>4. ASSUME stack' = <<>>
      PROVE  AtRun'
  <2>1. PICK rel : Match(prog', stack', void', blocks', m'.curr, done', exp', rel)
    BY DEF Matching
  <2>2. prog' \in Seq(ANode) /\ IsBlocks(blocks')
    BY DEF Pass, Typed
  <2>3. Whole(prog', void', blocks', rel)
    BY <1>4, <2>1, <2>2, FinishedIsWhole
  <2>4. Along(prog', rel, 1, src'.last, Entry, 1, env'.vars, env'.values, 1, Plain)
    BY <2>3, StartsAtEntry DEF Whole
  <2>5. Now(rel, 1, Plain)'
    BY <1>2, <1>3, <2>4 DEF Now
  <2> QED
    BY <2>3, <2>5 DEF AtRun
<1> QED
  BY <1>2, <1>3, <1>4 DEF Sim, AtStart, AtRun

LEMMA SimAlways == Spec => [](Pass /\ Matching /\ Sim)
<1>1. Init => Pass /\ Matching /\ Sim
  <2>1. SUFFICES ASSUME Init
                 PROVE  Pass /\ Matching /\ Sim
    OBVIOUS
  <2>2. Pass /\ Matching
    BY <2>1, PassInitially, MatchingInitially DEF Init
  <2>3. stack # <<>>
    BY <2>1 DEF Init, PassInit
  <2>4. Sim
    BY <2>1, <2>3 DEF Init, Sim, Shape, AtStart, AtRun
  <2> QED
    BY <2>2, <2>4
<1>2. Pass /\ Matching /\ Sim /\ [Next]_vars => (Pass /\ Matching /\ Sim)'
  <2>1. SUFFICES ASSUME Pass, Matching, Sim, [Next]_vars
                 PROVE  (Pass /\ Matching /\ Sim)'
    OBVIOUS
  <2>2. CASE Lower /\ UNCHANGED <<src, ir, env>>
    <3>1. Pass'
      BY <2>1, <2>2, LowerKeeps
    <3>2. Matching'
      BY <2>1, <2>2, LowerMatches
    <3>3. Sim'
      BY <2>1, <2>2, <3>1, <3>2, LowerStarts
    <3> QED
      BY <3>1, <3>2, <3>3
  <2>3. CASE UNCHANGED pass
    <3>1. Pass'
      BY <2>1, <2>3 DEF Pass, Typed, pass
    <3>2. Matching'
      BY <2>1, <2>3 DEF Matching, pass
    <3>3. CASE SrcStep
      BY <2>1, <3>1, <3>2, <3>3, SrcStepKeeps
    <3>4. CASE IrStep
      BY <2>1, <3>1, <3>2, <3>4, IrStepKeeps
    <3>5. CASE \E b \in BOOLEAN : Evaluate(b)
      BY <2>1, <3>1, <3>2, <3>5, EvaluateKeeps
    <3>6. CASE Finish
      BY <2>1, <3>1, <3>2, <3>6, FinishKeeps
    <3>7. CASE UNCHANGED vars
      BY <2>1, <3>1, <3>2, <3>7 DEF vars, Sim, Shape, AtStart, AtRun, Now
    <3>8. SrcStep \/ IrStep \/ (\E b \in BOOLEAN : Evaluate(b)) \/ Finish \/ UNCHANGED vars
          \/ (Lower /\ UNCHANGED <<src, ir, env>>)
      BY <2>1 DEF Next
    <3> QED
      BY <2>2, <3>3, <3>4, <3>5, <3>6, <3>7, <3>8
  <2>4. (Lower /\ UNCHANGED <<src, ir, env>>) \/ UNCHANGED pass
    BY <2>1 DEF Next, vars, pass, SrcStep, IrStep, Evaluate, Finish
  <2> QED
    BY <2>2, <2>3, <2>4
<1> QED
  BY <1>1, <1>2, PTL DEF Spec

\* Where the source and the blocks are, when both have got to what can be observed.
LEMMA RunsMeet ==
    ASSUME Pass, Matching, Sim, Meeting
    PROVE  /\ Node.tok = "eval" => NextOp = "call" /\ Inst = Call(src.at)
           /\ Node.tok = "return" => /\ NextOp = "return"
                                     /\ ~ void => env.values[Inst.value] = src.last
           /\ Node.tok = "endfunction" => Undefined \/ NextOp = "return"
<1>1. stack = <<>>
  BY DEF Meeting, Running
<1>2. PICK rel : Whole(prog, void, blocks, rel) /\ \E i, c : Now(rel, i, c)
  BY <1>1 DEF Sim, AtRun
<1>3. PICK i, c : Now(rel, i, c)
  BY <1>2
<1>4. CASE Undefined
  BY <1>4 DEF Undefined
<1>5. CASE ~ Undefined
  <2>1. IrMeets
    BY <1>5 DEF Meeting
  <2>2. src.at = i /\ Node = prog[i]
    BY <1>2, <1>3, <1>5, <2>1, Together DEF Undefined, Node
  <2>3. /\ Step(prog, <<>>, void, blocks, rel, i, ir.block, ir.at, c)
        /\ Holds(c, env.vars, env.values, src.last) /\ IsBlocks(blocks)
    BY <1>2, <1>3, NowIs DEF Whole
  <2>4. ASSUME prog[i].tok = "eval"
        PROVE  NextOp = "call" /\ Inst = Call(i)
    <3>1. PICK inst : inst = Call(i)
      OBVIOUS
    <3>2. At(blocks, ir.block, ir.at, inst)
      BY <2>3, <2>4, <3>1 DEF Step, EvalStep
    <3> QED
      BY <2>3, <3>1, <3>2, InstIs, InstructionsAre
  <2>5. ASSUME prog[i].tok = "return"
        PROVE  NextOp = "return" /\ (~ void => env.values[Inst.value] = src.last)
    <3>1. PICK v : At(blocks, ir.block, ir.at, Return(v)) /\ (c = Ready(v) \/ void)
      BY <2>3, <2>5 DEF Step, ReturnStep
    <3>2. PICK inst : inst = Return(v)
      OBVIOUS
    <3>3. inst.op = "return" /\ inst.value = v /\ At(blocks, ir.block, ir.at, inst)
      BY <3>1, <3>2, InstructionsAre
    <3>4. NextOp = "return" /\ Inst = inst
      BY <2>3, <3>3, InstIs
    <3>5. ASSUME ~ void
          PROVE  env.values[v] = src.last
      <4>1. PICK vs, ws, last : vs = env.vars /\ ws = env.values /\ last = src.last
        OBVIOUS
      <4>2. Holds(Ready(v), vs, ws, last)
        BY <2>3, <3>1, <3>5, <4>1
      <4>3. ws[v] = last
        BY <4>2, ReadyHolds
      <4> QED
        BY <4>1, <4>3
    <3> QED
      BY <3>3, <3>4, <3>5
  <2>6. ASSUME prog[i].tok = "endfunction"
        PROVE  NextOp = "return"
    <3>1. void
      BY <1>5, <2>2, <2>6 DEF Undefined
    <3>2. PICK inst : inst = Return(None)
      OBVIOUS
    <3>3. inst.op = "return" /\ At(blocks, ir.block, ir.at, inst)
      BY <2>3, <2>6, <3>1, <3>2, InstructionsAre DEF Step
    <3> QED
      BY <2>3, <3>3, InstIs
  <2> QED
    BY <2>2, <2>4, <2>5, <2>6
<1> QED
  BY <1>4, <1>5

\* What is read has been computed.
LEMMA ReadsAreReady ==
    ASSUME Pass, Matching, Sim, stack = <<>>, ~ Undefined
    PROVE  Computed /\ Allocated
<1>1. PICK rel : Whole(prog, void, blocks, rel) /\ \E i, c : Now(rel, i, c)
  BY DEF Sim, AtRun
<1>2. PICK i, c : Now(rel, i, c)
  BY <1>1
<1>3. prog[i].tok # "endfunction" \/ void
  <2>1. prog[i].tok = "endfunction" => src.at = i
    BY <1>1, <1>2, NowIs, ReachedHere DEF Silent
  <2> QED
    BY <2>1 DEF Undefined, Node
<1>4. PICK inst : At(blocks, ir.block, ir.at, inst) /\ Reads(inst)
  BY <1>1, <1>2, <1>3, NodesFind DEF Finds
<1>5. Inst = inst
  BY <1>1, <1>4, InstIs DEF Whole
<1> QED
  BY <1>4, <1>5 DEF Computed, Allocated, Reads

\* The blocks do what the source program does, whatever its operands turn out to be: they
\* evaluate the operands that it evaluates, in its order, and return when it does, with its
\* value (Stmt and Exp in src/src/ir.c).
THEOREM BlocksRunAsTheSource == Spec => []SameRun
<1>1. Pass /\ Matching /\ Sim => SameRun
  <2>1. SUFFICES ASSUME Pass, Matching, Sim, Meeting
                 PROVE  CASE Node.tok = "eval" -> NextOp = "call" /\ Inst = Call(src.at)
                          [] Node.tok = "return" ->
                                 /\ NextOp = "return"
                                 /\ ~ void => env.values[Inst.value] = src.last
                          [] Node.tok = "endfunction" -> Undefined \/ NextOp = "return"
    BY DEF SameRun
  <2>2. Node.tok \in {"eval", "return", "endfunction"}
    BY <2>1 DEF Meeting, SrcMeets
  <2>3. PICK tok : tok = Node.tok
    OBVIOUS
  <2> QED
    BY <2>1, <2>2, <2>3, RunsMeet
<1> QED
  BY <1>1, SimAlways, PTL

\* No instruction that is reached reads a value that was not computed on the way to it, or a
\* variable that was not allocated: try_append in src/src/ir.c drops instructions only where
\* nothing that follows them is reached.
THEOREM OperandsAreReady == Spec => []OperandsReady
<1>1. Pass /\ Matching /\ Sim => OperandsReady
  BY ReadsAreReady DEF OperandsReady, Running
<1> QED
  BY <1>1, SimAlways, PTL
=============================================================================
