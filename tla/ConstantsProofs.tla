-------------------------- MODULE ConstantsProofs --------------------------
(***************************************************************************)
(* Theorems about the list of constants, from the parser to the symbol     *)
(* table, for lists and words of any length.                               *)
(***************************************************************************)
EXTENDS Constants, TLAPS, SequenceTheorems
-----------------------------------------------------------------------------
(* The operators. *)

\* Words are the numbers below "all", and "half" is the least one with the sign.
Powers(all, half) ==
    /\ all \in Nat /\ half \in Nat /\ half > 0 /\ all = 2 * half
    /\ \A a : a \in Word <=> a \in Nat /\ a < all
    /\ \A a \in Word : Signed(a) = IF a < half THEN a ELSE a - all
    /\ \A n : Bits(n) = n % all

LEMMA PowersAre ==
    \E all, half : Powers(all, half)
<1>1. W \in Nat /\ W > 1 /\ W \in 0 .. W /\ W - 1 \in 0 .. W
  BY ArithmeticAssumption
<1>2. PICK all : all = 2^W
  OBVIOUS
<1>3. PICK half : half = 2^(W - 1)
  OBVIOUS
<1>4. all \in Nat /\ half \in Nat /\ half # 0 /\ all = 2 * half
  BY <1>1, <1>2, <1>3, PowersAssumption
<1>5. \A a : a \in Word <=> a \in Nat /\ a < all
  BY <1>2, <1>4 DEF Word
<1>6. \A a \in Word : Signed(a) = IF a < half THEN a ELSE a - all
  BY <1>2, <1>3 DEF Signed
<1>7. \A n : Bits(n) = n % all
  BY <1>2 DEF Bits
<1>8. half > 0
  BY <1>4
<1>9. Powers(all, half)
  BY <1>4, <1>5, <1>6, <1>7, <1>8 DEF Powers
<1> QED
  BY <1>9

LEMMA BitsAreWord ==
    ASSUME NEW n \in Int
    PROVE  Bits(n) \in Word /\ (n \in Word => Bits(n) = n)
<1>1. PICK all, half : Powers(all, half)
  BY PowersAre
<1>2. n % all \in 0 .. all - 1 /\ (n \in 0 .. all - 1 => n % all = n)
  BY <1>1 DEF Powers
<1> QED
  BY <1>1, <1>2 DEF Powers

LEMMA TruthIsWord ==
    ASSUME NEW condition
    PROVE  Truth(condition) \in {0, 1} /\ Truth(condition) \in Word
<1>1. PICK all, half : Powers(all, half)
  BY PowersAre
<1>2. all > 1 /\ 0 \in Word /\ 1 \in Word
  BY <1>1 DEF Powers
<1> QED
  BY <1>2 DEF Truth

LEMMA SignedIs ==
    ASSUME NEW a \in Word
    PROVE  /\ a \in Nat /\ Signed(a) \in Int /\ (a # 0 => Signed(a) # 0)
           /\ Signed(a) >= 0 => Signed(a) = a
<1>1. PICK all, half : Powers(all, half)
  BY PowersAre
<1> QED
  BY <1>1 DEF Powers

LEMMA DivisionIs ==
    ASSUME NEW m \in Int, NEW n \in Int, n # 0
    PROVE  /\ Quotient(m, n) \in Int
           /\ m >= 0 /\ n > 0 => Quotient(m, n) = m \div n
<1> DEFINE size(k) == IF k < 0 THEN -k ELSE k
           q == size(m) \div size(n)
<1>1. size(m) \in Nat /\ size(n) \in Nat /\ size(n) > 0
  OBVIOUS
<1>2. q \in Int
  <2> HIDE DEF size
  <2> QED  BY <1>1
<1>3. Quotient(m, n) = IF (m < 0) = (n < 0) THEN q ELSE -q
  BY DEF Quotient
<1>4. m >= 0 /\ n > 0 => q = m \div n /\ (m < 0) = (n < 0)
  OBVIOUS
<1> HIDE DEF q
<1> QED
  BY <1>2, <1>3, <1>4

LEMMA DivideIs ==
    ASSUME NEW a \in Word, NEW b \in Word, b # 0
    PROVE  /\ a \div b \in Word /\ a % b \in Word
           /\ a - b * (a \div b) = a % b
<1>1. PICK all, half : Powers(all, half)
  BY PowersAre
<1>2. a \in Nat /\ b \in Nat /\ b > 0 /\ a < all /\ b < all /\ all \in Nat
  BY <1>1 DEF Powers
<1>3. a \div b \in 0 .. a /\ a % b \in 0 .. b - 1 /\ a - b * (a \div b) = a % b
  BY <1>2
<1> QED
  BY <1>1, <1>2, <1>3 DEF Powers

LEMMA ComputedIsWord ==
    ASSUME NEW op \in Translated, NEW a \in Word, NEW b \in Word
    PROVE  Computed(op, a, b) \in Word
<1>1. a \in Nat /\ b \in Nat /\ 0 \in Word /\ 2^W - 1 \in Word
  BY ArithmeticAssumption, PowersAssumption DEF Word
<1>2. CASE op \in {"u+", "u-", "+", "-", "*"}
  BY <1>1, <1>2, BitsAreWord DEF Computed, sub
<1>3. CASE op \in {"!", "==", "!=", "<", ">", "<=", ">="}
  BY <1>3, TruthIsWord DEF Computed, seqz, snez, slt, sgt
<1>4. CASE op \in {"||", "&&"}
  <2>1. snez(xor(b, 0)) \in Word /\ 1 \in Word
    BY TruthIsWord DEF snez, Truth
  <2> QED
    BY <1>1, <1>4, <2>1 DEF Computed
<1>5. CASE op = "/"
  <2>1. b # 0 => Bits(Quotient(Signed(a), Signed(b))) \in Word
    BY SignedIs, DivisionIs, BitsAreWord
  <2> QED
    BY <1>1, <1>5, <2>1 DEF Computed, div
<1>6. CASE op = "%"
  <2>1. ASSUME b # 0
        PROVE  Bits(Signed(a) - Signed(b) * Quotient(Signed(a), Signed(b))) \in Word
    <3>1. PICK q \in Int : q = Quotient(Signed(a), Signed(b))
      BY <2>1, SignedIs, DivisionIs
    <3>2. Signed(a) - Signed(b) * q \in Int
      BY <3>1, SignedIs
    <3> QED
      BY <3>1, <3>2, BitsAreWord
  <2> QED
    BY <1>6, <2>1 DEF Computed, rem
<1> QED
  BY <1>2, <1>3, <1>4, <1>5, <1>6 DEF Translated, Ops, UnaryOps

LEMMA FoldedAreWords ==
    ASSUME NEW op \in Ops, NEW a \in Word, NEW b \in Word
    PROVE  Folded(op, a, b) \subseteq Word
<1>1. a \in Nat /\ b \in Nat
  BY SignedIs
<1>2. CASE op \in {"u+", "u-", "+", "-", "*"}
  BY <1>1, <1>2, BitsAreWord DEF Folded
<1>3. CASE op \in {"!", "||", "&&", "==", "!="}
  BY <1>3, TruthIsWord DEF Folded
<1>4. CASE op \in {"<", ">", "<=", ">="}
  BY <1>4, TruthIsWord DEF Folded
<1>5. CASE op = "<<"
  <2>1. b < W => a * 2^b \in Int
    <3>1. b < W => 2^b \in Nat
      BY <1>1, PowersAssumption, ArithmeticAssumption
    <3> QED
      BY <1>1, <3>1
  <2> QED
    BY <1>5, <2>1, BitsAreWord DEF Folded
<1>6. CASE op = ">>"
  <2>1. b < W => a \div 2^b \in Word
    <3>1. PICK n : n = 2^b
      OBVIOUS
    <3>2. b < W => n \in Nat /\ n > 0
      BY <1>1, <3>1, PowersAssumption, ArithmeticAssumption
    <3>3. b < W => a \div n \in 0 .. a
      BY <1>1, <3>2
    <3>4. 0 .. a \subseteq Word
      <4>1. PICK all, half : Powers(all, half)
        BY PowersAre
      <4> QED
        BY <1>1, <4>1 DEF Powers
    <3> QED
      BY <3>1, <3>3, <3>4
  <2> QED
    BY <1>6, <2>1 DEF Folded
<1>7. CASE op \in {"/", "%"}
  BY <1>7 DEF Folded
<1> QED
  BY <1>2, <1>3, <1>4, <1>5, <1>6, <1>7 DEF Ops, UnaryOps

\* The evaluator of semantic.c and the code that is generated compute an operator to
\* the same word, and the evaluator to one only, wherever Agree says so: of the operators
\* there is code for, the shifts are none (ir.c:438-451).
THEOREM OperatorsAgree ==
    ASSUME NEW op \in Translated, NEW a \in Word, NEW b \in Word, Agree(op, a, b)
    PROVE  Folded(op, a, b) = {Computed(op, a, b)}
<1>1. a \in Nat /\ b \in Nat
  BY SignedIs
<1>2. CASE op \in {"u+", "u-", "+", "-", "*"}
  <2>1. 0 - a = -a
    BY <1>1
  <2> QED
    BY <1>2, <2>1 DEF Folded, Computed, sub
<1>3. CASE op \in {"!", "||", "&&", "==", "!="}
  BY <1>3 DEF Folded, Computed, Truth, seqz, snez, xor
<1>4. CASE op \in {"<", ">", "<=", ">="}
  <2>1. Signed(a) = a /\ Signed(b) = b
    BY <1>4, SignedIs DEF Agree
  <2>2. Folded(op, a, b) = {Truth(FoldRelop(op, a, b))}
    BY <1>4 DEF Folded
  <2>3. /\ op = "<" => Computed(op, a, b) = Truth(a < b)
        /\ op = ">" => Computed(op, a, b) = Truth(b < a)
        /\ op = "<=" => Computed(op, a, b) = seqz(Truth(b < a))
        /\ op = ">=" => Computed(op, a, b) = seqz(Truth(a < b))
    BY <2>1 DEF Computed, slt, sgt
  <2>4. /\ a > b <=> b < a
        /\ a <= b <=> ~ (b < a)
        /\ a >= b <=> ~ (a < b)
    BY <1>1
  <2>5. Truth(FoldRelop(op, a, b)) = Computed(op, a, b)
    BY <1>4, <2>3, <2>4 DEF FoldRelop, Truth, seqz
  <2> QED
    BY <2>2, <2>5
<1>5. CASE op \in {"/", "%"}
  <2>1. Signed(a) = a /\ b # 0 /\ Signed(b) = b /\ Signed(b) > 0 /\ Signed(a) >= 0
    BY <1>5, SignedIs DEF Agree, Signed
  <2>2. Quotient(Signed(a), Signed(b)) = a \div b
    <3>1. a \in Int /\ b \in Int /\ b # 0 /\ a >= 0 /\ b > 0
      BY <1>1, <2>1
    <3>2. Quotient(a, b) = a \div b
      BY <3>1, DivisionIs
    <3> QED
      BY <2>1, <3>2
  <2>3. a \div b \in Word /\ a % b \in Word /\ a - b * (a \div b) = a % b
    BY <2>1, DivideIs
  <2>4. \A n \in Word : Bits(n) = n
    BY BitsAreWord, SignedIs
  <2>5. CASE op = "/"
    <3>1. Computed(op, a, b) = a \div b
      BY <2>1, <2>2, <2>3, <2>4, <2>5 DEF Computed, div
    <3>2. Folded(op, a, b) = {a \div b}
      BY <2>1, <2>3, <2>5 DEF Folded
    <3> QED
      BY <3>1, <3>2
  <2>6. CASE op = "%"
    <3>1. Computed(op, a, b) = Bits(a - b * (a \div b))
      BY <2>1, <2>2, <2>6 DEF Computed, rem
    <3>2. Folded(op, a, b) = {a % b}
      BY <2>1, <2>3, <2>6 DEF Folded
    <3> QED
      BY <2>3, <2>4, <3>1, <3>2
  <2> QED
    BY <1>5, <2>5, <2>6
<1> QED
  BY <1>2, <1>3, <1>4, <1>5 DEF Translated, Ops, UnaryOps

-----------------------------------------------------------------------------
(* The nodes.  Every item knows its place in the source, so no two of the  *)
(* nodes below are the same.                                               *)

ItemsIn(h, s) ==
    \A k \in 1 .. Len(s) : s[k] \in DOMAIN h /\ h[s[k]] = node_new(k, 0)

\* The list has the items after the first n, backwards.
ListIn(h, l, n) ==
    /\ l \in DOMAIN h
    /\ h[l] = [item |-> 0, capacity |-> h[l].capacity, children |-> h[l].children]
    /\ h[l].capacity \in Nat /\ h[l].children \in Seq(Nat)
    /\ Len(h[l].children) \in 1 .. h[l].capacity
    /\ \A j \in 1 .. Len(h[l].children) :
           /\ h[l].children[j] \in DOMAIN h
           /\ h[h[l].children[j]] = node_new(n + (Len(h[l].children) + 1 - j), 0)

RootIn(h, r, l) == /\ r \in DOMAIN h /\ r # l
                   /\ h[r].item = 0 /\ h[r].capacity = 1 /\ h[r].children = <<l>>

\* The nodes are the items on the stack, the list with the others as its children,
\* and the root; nothing else is allocated.
Built ==
    /\ allocs \in Nat /\ DOMAIN heap \subseteq 1 .. allocs
    /\ stack \in Seq(Nat) /\ ItemsIn(heap, stack)
    /\ list = Null => comp_unit = Null /\ DOMAIN heap = Range(stack)
    /\ list # Null =>
           /\ ListIn(heap, list, Len(stack))
           /\ DOMAIN heap = Range(stack) \cup Range(heap[list].children)
                                \cup ({list, comp_unit} \ {Null})
    /\ comp_unit # Null => list # Null /\ stack = <<>> /\ RootIn(heap, comp_unit, list)

Kids == heap[list].children

\* The constants are those of the children that the index has passed.
Constant == [item : Nat, value : Word, run : Word, agree : BOOLEAN]

\* The index and the constants move together.
Ordered ==
    /\ consts \in Seq(Constant)
    /\ \A k \in 1 .. Len(consts) : consts[k].item = k
    /\ stage = "read" => consts = <<>>
    /\ stage \in {"visit", "done"} => i \in Nat /\ Len(consts) + i = Len(Kids)
    /\ stage = "done" => i = 0

\* What a later definition needs of the constants before it.
Exactly ==
    \A k \in 1 .. Len(consts) :
        consts[k].agree => /\ consts[k].value = consts[k].run
                           /\ ~ (stage = "trapped" /\ k = Len(consts))

Stages ==
    /\ stage \in {"read", "error", "visit", "done", "rejected", "trapped", "end"}
    /\ stage \in {"read", "error"} => comp_unit = Null
    /\ stage \notin {"read", "error"} => comp_unit # Null
    /\ stage # "end" => Built
    /\ stage = "end" => heap = [p \in {} |-> Null]

LEMMA SequenceIs ==
    ASSUME NEW S, NEW s \in Seq(S)
    PROVE  /\ Len(s) \in Nat /\ DOMAIN s = 1 .. Len(s) /\ (s # <<>> <=> Len(s) > 0)
           /\ \A k \in 1 .. Len(s) : s[k] \in S /\ s[k] \in Range(s)
           /\ Range(s) = {s[k] : k \in 1 .. Len(s)}
<1>1. Len(s) \in Nat /\ DOMAIN s = 1 .. Len(s) /\ \A k \in 1 .. Len(s) : s[k] \in S
  BY LenProperties, ElementOfSeq
<1>2. s # <<>> <=> Len(s) > 0
  BY <1>1, EmptySeq
<1> QED
  BY <1>1, <1>2 DEF Range

\* "t" is "s" with "e" behind it.
Longer(t, s, e) == /\ Len(s) \in Nat /\ Len(t) = Len(s) + 1
                   /\ t[Len(s) + 1] = e /\ \A k \in 1 .. Len(s) : t[k] = s[k]
                   /\ Range(t) = Range(s) \cup {e}

LEMMA FrontIs ==
    ASSUME NEW S, NEW s \in Seq(S), s # <<>>, NEW t, t = Front(s)
    PROVE  t \in Seq(S) /\ Last(s) \in S /\ Longer(s, t, Last(s))
<1>1. PICK n : n = Len(s) - 1
  OBVIOUS
<1>2. /\ Len(s) \in Nat /\ n \in Nat /\ Len(s) = n + 1 /\ DOMAIN s = 1 .. n + 1
      /\ \A k \in 1 .. Len(s) : s[k] \in S
  BY <1>1, SequenceIs
<1>3. t = SubSeq(s, 1, n)
  BY <1>1 DEF Front
<1>4. /\ t \in Seq(S) /\ Len(t) = (IF 1 <= n THEN n - 1 + 1 ELSE 0)
      /\ \A k \in 1 .. n - 1 + 1 : t[k] = s[1 + k - 1]
  <2>1. 1 \in Int /\ n \in Int /\ \A k \in 1 .. n : s[k] \in S
    BY <1>2
  <2> QED
    BY <1>3, <2>1, SubSeqProperties
<1>5. Len(t) = n /\ \A k \in 1 .. n : t[k] = s[k]
  BY <1>2, <1>4
<1>6. Last(s) = s[n + 1] /\ Last(s) \in S
  BY <1>2 DEF Last
<1>7. Range(s) = Range(t) \cup {s[n + 1]}
  <2>1. DOMAIN t = 1 .. n
    BY <1>4, <1>5, SequenceIs
  <2>2. 1 .. n + 1 = 1 .. n \cup {n + 1}
    BY <1>2
  <2> QED
    BY <1>2, <1>5, <2>1, <2>2 DEF Range
<1>8. \A k \in 1 .. n : s[k] = t[k]
  BY <1>5
<1> QED
  BY <1>2, <1>4, <1>5, <1>6, <1>7, <1>8 DEF Longer

LEMMA AppendedIs ==
    ASSUME NEW S, NEW s \in Seq(S), NEW e \in S, NEW t, t = Append(s, e)
    PROVE  t \in Seq(S) /\ Longer(t, s, e)
<1>1. /\ t \in Seq(S) /\ Len(t) = Len(s) + 1 /\ t[Len(s) + 1] = e
      /\ \A k \in 1 .. Len(s) : t[k] = s[k]
  BY AppendProperties
<1>2. Len(s) \in Nat /\ DOMAIN s = 1 .. Len(s) /\ DOMAIN t = 1 .. Len(s) + 1
  BY <1>1, SequenceIs
<1>3. 1 .. Len(s) + 1 = 1 .. Len(s) \cup {Len(s) + 1}
  BY <1>2
<1> QED
  BY <1>1, <1>2, <1>3 DEF Range, Longer


LEMMA ItemStep ==
    ASSUME Built, Item
    PROVE  Built'
<1>1. PICK at : at = Fresh
  OBVIOUS
<1>2. PICK n : n = Len(stack)
  OBVIOUS
<1>3. /\ n \in Nat /\ allocs \in Nat /\ at = allocs + 1 /\ at \in Nat
      /\ at \notin DOMAIN heap /\ at # Null
  <2>1. n \in Nat
    BY <1>2, SequenceIs DEF Built
  <2>2. allocs \in Nat /\ DOMAIN heap \subseteq 1 .. allocs
    BY DEF Built
  <2> QED
    BY <1>1, <2>1, <2>2 DEF Fresh, Null
<1>4. /\ heap' = [p \in DOMAIN heap \cup {at} |-> IF p = at THEN node_new(n + 1, 0) ELSE heap[p]]
      /\ allocs' = at /\ stack' = Append(stack, at) /\ list = Null /\ list' = Null
      /\ comp_unit' = comp_unit
  BY <1>1, <1>2 DEF Item, New
<1>5. PICK s : s = Append(stack, at)
  OBVIOUS
<1>6. /\ s \in Seq(Nat) /\ Len(s) = n + 1 /\ s[n + 1] = at
      /\ \A k \in 1 .. n : s[k] = stack[k]
      /\ Range(s) = Range(stack) \cup {at}
  <2>1. stack \in Seq(Nat)
    BY DEF Built
  <2>2. s \in Seq(Nat) /\ Longer(s, stack, at)
    BY <1>3, <1>5, <2>1, AppendedIs
  <2> QED
    BY <1>2, <2>2 DEF Longer
<1>7. ItemsIn(heap', s)
  <2>1. ASSUME NEW k \in 1 .. n + 1
        PROVE  s[k] \in DOMAIN heap' /\ heap'[s[k]] = node_new(k, 0)
    <3>1. CASE k = n + 1
      BY <1>4, <1>6, <3>1
    <3>2. CASE k \in 1 .. n
      <4>1. stack[k] \in DOMAIN heap /\ heap[stack[k]] = node_new(k, 0)
        BY <1>2, <3>2 DEF Built, ItemsIn
      <4> QED
        BY <1>3, <1>4, <1>6, <3>2, <4>1
    <3> QED
      BY <1>3, <2>1, <3>1, <3>2
  <2> QED
    BY <1>6, <2>1 DEF ItemsIn
<1>8. DOMAIN heap' = Range(s) /\ comp_unit' = Null
  BY <1>4, <1>6 DEF Built
<1>9. DOMAIN heap \subseteq 1 .. allocs
  BY DEF Built
<1>10. DOMAIN heap' \subseteq 1 .. at
  BY <1>3, <1>4, <1>9
<1>11. stack' = s /\ list' = Null /\ allocs' = at
  BY <1>4, <1>5
<1> QED
  BY <1>3, <1>6, <1>7, <1>8, <1>10, <1>11 DEF Built

LEMMA SingletonIs ==
    ASSUME NEW S, NEW e \in S, NEW t, t = Append(<<>>, e)
    PROVE  t = <<e>> /\ t \in Seq(S) /\ Len(t) = 1 /\ t[1] = e /\ Range(t) = {e}
<1>1. t = <<e>>
  OBVIOUS
<1>2. t \in Seq(S) /\ Len(t) = 1 /\ t[1] = e
  BY <1>1
<1>3. DOMAIN t = 1 .. 1 /\ 1 .. 1 = {1}
  BY <1>2, SequenceIs
<1> QED
  BY <1>1, <1>2, <1>3 DEF Range

\* A list node that gets its first child.
LEMMA NtermIs ==
    ASSUME NEW child \in Nat, NEW node, node = ast_nterm(child)
    PROVE  /\ node.item = 0 /\ node.capacity = 1 /\ node.children = <<child>>
           /\ node.children \in Seq(Nat) /\ Len(node.children) = 1
           /\ node.children[1] = child /\ Range(node.children) = {child}
           /\ node = [item |-> 0, capacity |-> 1, children |-> <<child>>]
<1>1. PICK t : t = Append(<<>>, child)
  OBVIOUS
<1>2. t = <<child>> /\ t \in Seq(Nat) /\ Len(t) = 1 /\ t[1] = child /\ Range(t) = {child}
  BY <1>1, SingletonIs
<1>3. node = Grown([item |-> 0, capacity |-> 1, children |-> t])
  BY <1>1 DEF ast_nterm, Appended, node_new
<1>4. node = [item |-> 0, capacity |-> 1, children |-> t]
  BY <1>2, <1>3 DEF Grown
<1>5. node.item = 0 /\ node.capacity = 1 /\ node.children = t
  BY <1>4
<1> QED
  BY <1>2, <1>4, <1>5

LEMMA AppendedToRecord ==
    ASSUME NEW s, NEW room, NEW child
    PROVE  Appended([item |-> 0, capacity |-> room, children |-> s], child) =
               Grown([item |-> 0, capacity |-> room, children |-> Append(s, child)])
<1>1. [item |-> 0, capacity |-> room, children |-> s].children = s
  OBVIOUS
<1>2. [[item |-> 0, capacity |-> room, children |-> s] EXCEPT !.children = Append(s, child)]
        = [item |-> 0, capacity |-> room, children |-> Append(s, child)]
  OBVIOUS
<1> QED
  BY <1>1, <1>2 DEF Appended

\* A list node with these children, that has room for them.
HasRoom(node, t) ==
    \E more \in Nat : /\ Len(t) <= more
                      /\ node = [item |-> 0, capacity |-> more, children |-> t]

LEMMA AppendedNode ==
    ASSUME NEW s \in Seq(Nat), NEW room \in Nat, Len(s) <= room, NEW child \in Nat,
           NEW t, t = Append(s, child),
           NEW old, old = [item |-> 0, capacity |-> room, children |-> s],
           NEW node, node = Appended(old, child)
    PROVE  HasRoom(node, t)
<1>1. t \in Seq(Nat) /\ Len(t) \in Nat
  <2>1. t \in Seq(Nat) /\ Longer(t, s, child)
    BY AppendedIs
  <2> QED
    BY <2>1, SequenceIs
<1>2. PICK new : new = [item |-> 0, capacity |-> room, children |-> t]
  OBVIOUS
<1>3. node = Grown(new)
  BY <1>2, AppendedToRecord
<1>4. node = IF Len(t) > room
             THEN [item |-> 0, capacity |-> 2 * Len(t), children |-> t] ELSE new
  BY <1>2, <1>3 DEF Grown
<1>5. CASE Len(t) > room
  <2>1. node = [item |-> 0, capacity |-> 2 * Len(t), children |-> t]
    BY <1>4, <1>5
  <2>2. 2 * Len(t) \in Nat /\ Len(t) <= 2 * Len(t)
    BY <1>1
  <2> QED
    BY <2>1, <2>2 DEF HasRoom
<1>6. CASE ~ (Len(t) > room)
  <2>1. node = [item |-> 0, capacity |-> room, children |-> t] /\ Len(t) <= room
    BY <1>1, <1>2, <1>4, <1>6
  <2> QED
    BY <2>1 DEF HasRoom
<1> QED
  BY <1>5, <1>6

\* Items are not the list: these have a number.
LEMMA ItemNode ==
    ASSUME NEW n, NEW k
    PROVE  /\ node_new(n, k).item = n /\ node_new(n, k).children = <<>>
           /\ node_new(n, k).capacity = k
BY DEF node_new
\* What every step finds: the numbers of the items tell them from the other nodes.
LEMMA BuiltIs ==
    ASSUME Built, NEW at, at = Fresh
    PROVE  /\ stack \in Seq(Nat) /\ Len(stack) \in Nat /\ (stack # <<>> <=> Len(stack) > 0)
           /\ allocs \in Nat /\ at \in Nat /\ at = allocs + 1 /\ at # Null
           /\ at \notin DOMAIN heap /\ DOMAIN heap \subseteq 1 .. at
           /\ \A k \in 1 .. Len(stack) : /\ stack[k] \in DOMAIN heap
                                         /\ heap[stack[k]] = node_new(k, 0)
                                         /\ heap[stack[k]].item = k
<1>1. allocs \in Nat /\ DOMAIN heap \subseteq 1 .. allocs /\ stack \in Seq(Nat)
  BY DEF Built
<1>2. at = allocs + 1 /\ at \in Nat /\ at # Null
  BY <1>1 DEF Fresh, Null
<1>3. at \notin DOMAIN heap /\ DOMAIN heap \subseteq 1 .. at
  BY <1>1, <1>2
<1>4. Len(stack) \in Nat /\ (stack # <<>> <=> Len(stack) > 0)
  BY <1>1, SequenceIs
<1>5. \A k \in 1 .. Len(stack) : /\ stack[k] \in DOMAIN heap
                                 /\ heap[stack[k]] = node_new(k, 0)
                                 /\ heap[stack[k]].item = k
  BY ItemNode DEF Built, ItemsIn
<1> QED
  BY <1>1, <1>2, <1>3, <1>4, <1>5

LEMMA LastItemStep ==
    ASSUME Built, LastItem
    PROVE  Built'
<1>1. PICK at : at = Fresh
  OBVIOUS
<1>2. /\ stack \in Seq(Nat) /\ allocs \in Nat /\ at \in Nat /\ at # Null /\ at = allocs + 1
      /\ at \notin DOMAIN heap /\ DOMAIN heap \subseteq 1 .. at
      /\ \A k \in 1 .. Len(stack) : stack[k] \in DOMAIN heap /\ heap[stack[k]] = node_new(k, 0)
  BY <1>1, BuiltIs
<1>3. PICK s : s = Front(stack)
  OBVIOUS
<1>4. PICK e : e = Last(stack)
  OBVIOUS
<1>5. s \in Seq(Nat) /\ e \in Nat /\ Longer(stack, s, e)
  <2>1. stack # <<>>
    BY DEF LastItem
  <2> QED
    BY <1>2, <1>3, <1>4, <2>1, FrontIs
<1>6. PICK n : n = Len(s)
  OBVIOUS
<1>7. /\ n \in Nat /\ Len(stack) = n + 1 /\ stack[n + 1] = e
      /\ \A k \in 1 .. n : stack[k] = s[k]
      /\ Range(stack) = Range(s) \cup {e}
  BY <1>5, <1>6 DEF Longer
<1>8. PICK node : node = ast_nterm(e)
  OBVIOUS
<1>9. PICK c : c = <<e>>
  OBVIOUS
<1>10. /\ node.item = 0 /\ node.capacity = 1 /\ node.children = c
       /\ c \in Seq(Nat) /\ Len(c) = 1 /\ c[1] = e /\ Range(c) = {e}
  BY <1>5, <1>8, <1>9, NtermIs
<1>11. PICK g : g = heap'
  OBVIOUS
<1>12. /\ g = [p \in DOMAIN heap \cup {at} |-> IF p = at THEN node ELSE heap[p]]
       /\ allocs' = at /\ stack' = s /\ list' = at /\ list = Null
       /\ comp_unit' = comp_unit
  BY <1>1, <1>3, <1>4, <1>8, <1>11 DEF LastItem, New
<1>13. /\ DOMAIN g = DOMAIN heap \cup {at} /\ g[at] = node
       /\ \A p \in DOMAIN heap : g[p] = heap[p]
  BY <1>2, <1>12
<1>14. ItemsIn(g, s)
  BY <1>2, <1>6, <1>7, <1>13 DEF ItemsIn
<1>15. ListIn(g, at, n)
  <2>1. node = [item |-> 0, capacity |-> 1, children |-> c]
    BY <1>5, <1>8, <1>9, NtermIs
  <2>2. e \in DOMAIN g /\ g[e] = node_new(n + 1, 0)
    BY <1>2, <1>7, <1>13
  <2>3. \A j \in 1 .. Len(c) : j = 1 /\ c[j] = e /\ n + (Len(c) + 1 - j) = n + 1
    BY <1>7, <1>10
  <2>4. Len(c) \in 1 .. 1 /\ 1 \in Nat
    BY <1>10
  <2> QED
    BY <1>10, <1>13, <2>1, <2>2, <2>3, <2>4 DEF ListIn
<1>16. comp_unit = Null /\ DOMAIN heap = Range(stack)
  BY <1>12 DEF Built
<1>17. DOMAIN g = Range(s) \cup Range(g[at].children) \cup ({at, comp_unit} \ {Null})
  BY <1>2, <1>7, <1>10, <1>13, <1>16
<1>18. DOMAIN g \subseteq 1 .. at
  <2>1. DOMAIN g = DOMAIN heap \cup {at} /\ at \in 1 .. at
    BY <1>2, <1>13
  <2> QED
    BY <1>2, <2>1
<1> QED
  BY <1>2, <1>5, <1>6, <1>11, <1>12, <1>14, <1>15, <1>16, <1>17, <1>18 DEF Built

LEMMA MoreItemsStep ==
    ASSUME Built, MoreItems
    PROVE  Built'
<1>1. PICK at : at = Fresh
  OBVIOUS
<1>2. /\ stack \in Seq(Nat) /\ allocs \in Nat /\ at \in Nat /\ at = allocs + 1 /\ at # Null
      /\ at \notin DOMAIN heap
  BY <1>1, BuiltIs
<1>3. \A k \in 1 .. Len(stack) : /\ stack[k] \in DOMAIN heap
                                 /\ heap[stack[k]] = node_new(k, 0)
                                 /\ heap[stack[k]].item = k
  BY <1>1, BuiltIs
<1>4. PICK s : s = Front(stack)
  OBVIOUS
<1>5. PICK e : e = Last(stack)
  OBVIOUS
<1>6. s \in Seq(Nat) /\ e \in Nat /\ Longer(stack, s, e) /\ stack # <<>>
  <2>1. stack # <<>>
    BY DEF MoreItems
  <2> QED
    BY <1>2, <1>4, <1>5, <2>1, FrontIs
<1>7. PICK n : n = Len(s)
  OBVIOUS
<1>8. /\ n \in Nat /\ Len(stack) = n + 1 /\ stack[n + 1] = e
      /\ \A k \in 1 .. n : stack[k] = s[k]
      /\ Range(stack) = Range(s) \cup {e}
  BY <1>6, <1>7 DEF Longer
<1>9. PICK l : l = list
  OBVIOUS
<1>10. /\ l # Null /\ ListIn(heap, l, n + 1) /\ comp_unit = Null
       /\ DOMAIN heap = Range(stack) \cup Range(heap[l].children) \cup {l}
  <2>1. l # Null
    BY <1>9 DEF MoreItems
  <2>2. comp_unit = Null
    BY <1>6 DEF Built
  <2> QED
    BY <1>8, <1>9, <2>1, <2>2 DEF Built
<1>11. PICK c : c = heap[l].children
  OBVIOUS
<1>12. PICK room : room = heap[l].capacity
  OBVIOUS
<1>13. /\ l \in DOMAIN heap /\ heap[l] = [item |-> 0, capacity |-> room, children |-> c]
       /\ room \in Nat /\ c \in Seq(Nat) /\ Len(c) \in Nat /\ 1 <= Len(c) /\ Len(c) <= room
       /\ \A j \in 1 .. Len(c) : /\ c[j] \in DOMAIN heap
                                 /\ heap[c[j]] = node_new((n + 1) + (Len(c) + 1 - j), 0)
  <2>1. Len(c) \in 1 .. room /\ c \in Seq(Nat) /\ room \in Nat
    BY <1>10, <1>11, <1>12 DEF ListIn
  <2>2. Len(c) \in Nat /\ 1 <= Len(c) /\ Len(c) <= room
    BY <2>1
  <2>3. /\ l \in DOMAIN heap
        /\ heap[l] = [item |-> 0, capacity |-> room, children |-> c]
    BY <1>10, <1>11, <1>12 DEF ListIn
  <2>4. \A j \in 1 .. Len(c) : /\ c[j] \in DOMAIN heap
                               /\ heap[c[j]] = node_new((n + 1) + (Len(c) + 1 - j), 0)
    BY <1>10, <1>11 DEF ListIn
  <2> QED
    BY <2>1, <2>2, <2>3, <2>4
<1>14. PICK t : t = Append(c, e)
  OBVIOUS
<1>15. t \in Seq(Nat) /\ Longer(t, c, e)
  BY <1>6, <1>13, <1>14, AppendedIs
<1>16. PICK m : m = Len(c)
  OBVIOUS
<1>17. /\ m \in Nat /\ Len(t) = m + 1 /\ t[m + 1] = e
       /\ \A j \in 1 .. m : t[j] = c[j]
       /\ Range(t) = Range(c) \cup {e}
  BY <1>15, <1>16 DEF Longer
<1>18. PICK node : node = Appended(heap[l], e)
  OBVIOUS
<1>19. HasRoom(node, t)
  <2>1. PICK old : old = heap[l]
    OBVIOUS
  <2>2. c \in Seq(Nat) /\ room \in Nat /\ Len(c) <= room /\ e \in Nat
    BY <1>6, <1>13
  <2>3. old = [item |-> 0, capacity |-> room, children |-> c] /\ node = Appended(old, e)
    BY <1>13, <1>18, <2>1
  <2> QED
    BY <1>14, <2>2, <2>3, AppendedNode
<1>20. PICK more \in Nat : Len(t) <= more /\ node = [item |-> 0, capacity |-> more, children |-> t]
  BY <1>19 DEF HasRoom
<1>21. node.item = 0 /\ node.capacity = more /\ node.children = t
  BY <1>20
<1>22. PICK to \in Moves(l, node) : /\ Replace(l, to, node) /\ list' = Root(l, to)
  BY <1>5, <1>9, <1>18 DEF MoreItems
<1>23. PICK g : g = heap'
  OBVIOUS
<1>24. /\ to \in {l, at} /\ list' = to /\ stack' = s /\ comp_unit' = comp_unit
       /\ g = [p \in (DOMAIN heap \ {l}) \cup {to} |-> IF p = to THEN node ELSE heap[p]]
       /\ allocs' = IF to = l THEN allocs ELSE at
  BY <1>1, <1>4, <1>22, <1>23 DEF MoreItems, Moves, Replace, Root
<1>25. /\ DOMAIN g = (DOMAIN heap \ {l}) \cup {to} /\ g[to] = node
       /\ \A p \in DOMAIN heap : p # l => g[p] = heap[p]
  BY <1>2, <1>24
<1>26. \A k \in 1 .. n + 1 : /\ stack[k] \in DOMAIN heap /\ stack[k] # l
                             /\ heap[stack[k]] = node_new(k, 0)
  BY <1>3, <1>8, <1>13
<1>27. \A j \in 1 .. m : /\ c[j] \in DOMAIN heap /\ c[j] # l
                         /\ heap[c[j]] = node_new((n + 1) + (m + 1 - j), 0)
  <2> SUFFICES ASSUME NEW j \in 1 .. m
               PROVE  /\ c[j] \in DOMAIN heap /\ c[j] # l
                      /\ heap[c[j]] = node_new((n + 1) + (m + 1 - j), 0)
    OBVIOUS
  <2>1. PICK k : k = (n + 1) + (m + 1 - j)
    OBVIOUS
  <2>2. k # 0
    BY <1>8, <1>17, <2>1
  <2>3. c[j] \in DOMAIN heap /\ heap[c[j]] = node_new(k, 0)
    BY <1>13, <1>16, <2>1
  <2>4. heap[c[j]].item = k
    BY <2>3, ItemNode
  <2>5. heap[l].item = 0
    BY <1>13
  <2> QED
    BY <2>1, <2>2, <2>3, <2>4, <2>5
<1>28. ItemsIn(g, s)
  BY <1>7, <1>8, <1>25, <1>26 DEF ItemsIn
<1>29. ListIn(g, to, n)
  <2>1. ASSUME NEW j \in 1 .. m + 1
        PROVE  t[j] \in DOMAIN g /\ g[t[j]] = node_new(n + (m + 1 + 1 - j), 0)
    <3>1. CASE j = m + 1
      <4>1. n + (m + 1 + 1 - j) = n + 1 /\ n + 1 \in 1 .. n + 1
        BY <1>8, <1>17, <3>1
      <4>2. e \in DOMAIN g /\ g[e] = node_new(n + 1, 0)
        BY <1>8, <1>25, <1>26, <4>1
      <4> QED
        BY <1>17, <3>1, <4>1, <4>2
    <3>2. CASE j \in 1 .. m
      <4>1. n + (m + 1 + 1 - j) = (n + 1) + (m + 1 - j)
        BY <1>8, <1>17, <3>2
      <4> QED
        BY <1>17, <1>25, <1>27, <3>2, <4>1
    <3> QED
      BY <1>17, <2>1, <3>1, <3>2
  <2>2. Len(t) = m + 1 /\ Len(t) \in 1 .. more
    BY <1>17, <1>20
  <2>3. to \in DOMAIN g /\ g[to] = [item |-> 0, capacity |-> g[to].capacity, children |-> g[to].children]
    BY <1>20, <1>21, <1>25
  <2>4. g[to].capacity = more /\ g[to].children = t
    BY <1>21, <1>25
  <2> QED
    BY <1>15, <2>1, <2>2, <2>3, <2>4 DEF ListIn
<1>30. l \notin Range(stack) /\ l \notin Range(c)
  <2>1. Range(stack) = {stack[k] : k \in 1 .. n + 1}
    BY <1>2, <1>8, SequenceIs
  <2>2. Range(c) = {c[j] : j \in 1 .. m}
    BY <1>13, <1>16, SequenceIs
  <2> QED
    BY <1>26, <1>27, <2>1, <2>2
<1>31. to # Null /\ DOMAIN g = Range(s) \cup Range(t) \cup {to}
  BY <1>2, <1>8, <1>10, <1>11, <1>17, <1>24, <1>25, <1>30
<1>32. DOMAIN g \subseteq 1 .. allocs' /\ allocs' \in Nat
  <2>1. DOMAIN heap \subseteq 1 .. allocs
    BY DEF Built
  <2>2. 1 .. allocs \subseteq 1 .. at /\ at \in 1 .. at
    BY <1>2
  <2> QED
    BY <1>2, <1>13, <1>24, <1>25, <2>1, <2>2
<1>33. /\ heap' = g /\ stack' = s /\ list' = to /\ comp_unit' = Null
       /\ DOMAIN g = Range(s) \cup Range(g[to].children) \cup ({to, Null} \ {Null})
  BY <1>10, <1>21, <1>23, <1>24, <1>25, <1>31
<1>34. Len(s) = n
  BY <1>7
<1> QED
  BY <1>6, <1>28, <1>29, <1>31, <1>32, <1>33, <1>34 DEF Built

LEMMA CompUnitStep ==
    ASSUME Built, comp_unit = Null, CompUnit
    PROVE  /\ Built' /\ comp_unit' # Null
           /\ heap'[list'].children = heap[list].children
<1>1. PICK at : at = Fresh
  OBVIOUS
<1>2. /\ allocs \in Nat /\ at \in Nat /\ at # Null /\ at = allocs + 1
      /\ at \notin DOMAIN heap /\ DOMAIN heap \subseteq 1 .. at
  BY <1>1, BuiltIs
<1>3. /\ list # Null /\ stack = <<>> /\ ListIn(heap, list, Len(stack))
      /\ DOMAIN heap = Range(stack) \cup Range(heap[list].children)
                           \cup ({list, comp_unit} \ {Null})
  BY DEF CompUnit, Built
<1>4. PICK g : g = heap'
  OBVIOUS
<1>5. PICK node : node = ast_nterm(list)
  OBVIOUS
<1>6. /\ g = [p \in DOMAIN heap \cup {at} |-> IF p = at THEN node ELSE heap[p]]
      /\ allocs' = at /\ stack' = stack /\ list' = list /\ comp_unit' = at
  BY <1>1, <1>4, <1>5 DEF CompUnit, New
<1>7. /\ DOMAIN g = DOMAIN heap \cup {at} /\ g[at] = node
      /\ \A p \in DOMAIN heap : g[p] = heap[p]
  BY <1>2, <1>6
<1>8. list \in DOMAIN heap /\ list # at /\ list \in Nat
  <2>1. list \in DOMAIN heap
    BY <1>3 DEF ListIn
  <2> QED
    BY <1>2, <2>1
<1>9. node.item = 0 /\ node.capacity = 1 /\ node.children = <<list>>
  BY <1>5, <1>8, NtermIs
<1>10. RootIn(g, at, list)
  BY <1>7, <1>8, <1>9 DEF RootIn
<1>11. g[list] = heap[list]
  BY <1>7, <1>8
<1>12. ListIn(g, list, Len(stack))
  <2>1. \A p \in DOMAIN heap : p \in DOMAIN g /\ g[p] = heap[p]
    BY <1>7
  <2> QED
    BY <1>3, <1>11, <2>1 DEF ListIn
<1>13. ItemsIn(g, stack) /\ stack \in Seq(Nat)
  <2>1. Len(stack) = 0
    BY <1>3
  <2> QED
    BY <1>3, <2>1 DEF ItemsIn
<1>14. {list, comp_unit} \ {Null} = {list} /\ {list, at} \ {Null} = {list, at}
  BY <1>2, <1>3
<1>15. DOMAIN g = Range(stack) \cup Range(g[list].children) \cup ({list, at} \ {Null})
  <2>1. Range(g[list].children) = Range(heap[list].children)
    BY <1>11
  <2> QED
    BY <1>3, <1>7, <1>14, <2>1
<1>16. DOMAIN g \subseteq 1 .. at
  <2>1. DOMAIN g = DOMAIN heap \cup {at} /\ at \in 1 .. at
    BY <1>2, <1>7
  <2> QED
    BY <1>2, <2>1
<1> QED
  BY <1>2, <1>3, <1>4, <1>6, <1>10, <1>11, <1>12, <1>13, <1>14, <1>15, <1>16 DEF Built

\* The children of the list are items that are not on the stack, each once.
LEMMA ChildrenAre ==
    ASSUME Built, list # Null, NEW c, c = heap[list].children
    PROVE  /\ c \in Seq(Nat) /\ IsInjective(c) /\ Len(c) <= heap[list].capacity
           /\ Range(c) \subseteq DOMAIN heap \ Range(stack)
           /\ list \in DOMAIN heap /\ list \notin Range(c) /\ list \notin Range(stack)
           /\ \A p \in Range(c) : heap[p].children = <<>>
<1>1. PICK n : n = Len(stack)
  OBVIOUS
<1>2. /\ ListIn(heap, list, n) /\ n \in Nat /\ stack \in Seq(Nat)
      /\ Range(stack) = {stack[k] : k \in 1 .. n}
      /\ \A k \in 1 .. n : stack[k] \in DOMAIN heap /\ heap[stack[k]].item = k
  <2>1. PICK at : at = Fresh
    OBVIOUS
  <2>2. /\ stack \in Seq(Nat) /\ n \in Nat
        /\ \A k \in 1 .. n : stack[k] \in DOMAIN heap /\ heap[stack[k]].item = k
    BY <1>1, <2>1, BuiltIs
  <2>3. Range(stack) = {stack[k] : k \in 1 .. n}
    BY <1>1, <2>2, SequenceIs
  <2>4. ListIn(heap, list, n)
    BY <1>1 DEF Built
  <2> QED
    BY <2>2, <2>3, <2>4
<1>3. PICK m : m = Len(c)
  OBVIOUS
<1>4. /\ c \in Seq(Nat) /\ m \in Nat /\ m <= heap[list].capacity
      /\ list \in DOMAIN heap /\ heap[list].item = 0
  <2>1. /\ c \in Seq(Nat) /\ list \in DOMAIN heap /\ heap[list].capacity \in Nat
        /\ Len(c) \in 1 .. heap[list].capacity
        /\ heap[list] = [item |-> 0, capacity |-> heap[list].capacity,
                         children |-> heap[list].children]
    BY <1>2 DEF ListIn
  <2>2. heap[list].item = 0
    BY <2>1
  <2> QED
    BY <1>3, <2>1, <2>2
<1>5. \A j \in 1 .. m : /\ c[j] \in DOMAIN heap /\ heap[c[j]].children = <<>>
                        /\ heap[c[j]].item = n + (m + 1 - j)
  <2>1. \A j \in 1 .. m : c[j] \in DOMAIN heap /\ heap[c[j]] = node_new(n + (m + 1 - j), 0)
    BY <1>2, <1>3 DEF ListIn
  <2> QED
    BY <2>1, ItemNode
<1>6. DOMAIN c = 1 .. m /\ Range(c) = {c[j] : j \in 1 .. m}
  BY <1>3, <1>4, SequenceIs
<1>7. \A j \in 1 .. m : n + (m + 1 - j) > n
  BY <1>2, <1>4
<1>8. \A j, k \in 1 .. m : n + (m + 1 - j) = n + (m + 1 - k) => j = k
  BY <1>2, <1>4
<1>9. IsInjective(c)
  BY <1>5, <1>6, <1>8 DEF IsInjective
<1>10. Range(c) \subseteq DOMAIN heap \ Range(stack)
  <2>1. \A j, k : j \in 1 .. m /\ k \in 1 .. n => c[j] # stack[k]
    <3>1. ASSUME NEW j \in 1 .. m, NEW k \in 1 .. n, c[j] = stack[k]
          PROVE  FALSE
      <4>1. n + (m + 1 - j) = k
        BY <1>2, <1>5, <3>1
      <4> QED
        BY <1>2, <1>7, <4>1
    <3> QED
      BY <3>1
  <2>2. Range(c) \subseteq DOMAIN heap
    BY <1>5, <1>6
  <2>3. ASSUME NEW p \in Range(c), p \in Range(stack)
        PROVE  FALSE
    <3>1. PICK j \in 1 .. m : p = c[j]
      BY <1>6, <2>3
    <3>2. PICK k \in 1 .. n : p = stack[k]
      BY <1>2, <2>3
    <3> QED
      BY <2>1, <3>1, <3>2
  <2> QED
    BY <2>2, <2>3
<1>11. list \notin Range(c)
  <2>1. \A j \in 1 .. m : n + (m + 1 - j) # 0
    BY <1>2, <1>7
  <2> QED
    BY <1>4, <1>5, <1>6, <2>1
<1>12. list \notin Range(stack)
  BY <1>2, <1>4
<1> QED
  BY <1>3, <1>4, <1>5, <1>6, <1>9, <1>10, <1>11, <1>12

LEMMA SoundWhileBuilt ==
    ASSUME Built, stage # "end"
    PROVE  TreeSound
<1>1. PICK at : at = Fresh
  OBVIOUS
<1>2. /\ stack \in Seq(Nat) /\ Range(stack) = {stack[k] : k \in 1 .. Len(stack)}
      /\ \A k \in 1 .. Len(stack) : /\ stack[k] \in DOMAIN heap
                                    /\ heap[stack[k]] = node_new(k, 0)
  <2>1. /\ stack \in Seq(Nat)
        /\ \A k \in 1 .. Len(stack) : /\ stack[k] \in DOMAIN heap
                                      /\ heap[stack[k]] = node_new(k, 0)
    BY <1>1, BuiltIs
  <2> QED
    BY <2>1, SequenceIs
<1>3. \A p \in Range(stack) : /\ p \in DOMAIN heap /\ heap[p].children = <<>>
                              /\ heap[p].capacity = 0
  BY <1>2, ItemNode
<1>4. Range(<<>>) = {} /\ IsInjective(<<>>) /\ Len(<<>>) = 0
  BY DEF Range, IsInjective
<1>5. CASE list = Null
  <2>1. comp_unit = Null /\ DOMAIN heap = Range(stack)
    BY <1>5 DEF Built
  <2> QED
    BY <1>3, <1>4, <1>5, <2>1 DEF TreeSound, Held
<1>6. CASE list # Null
  <2>1. PICK c : c = heap[list].children
    OBVIOUS
  <2>2. /\ c \in Seq(Nat) /\ IsInjective(c) /\ Len(c) <= heap[list].capacity
        /\ Range(c) \subseteq DOMAIN heap \ Range(stack)
        /\ list \in DOMAIN heap /\ list \notin Range(c) /\ list \notin Range(stack)
        /\ \A p \in Range(c) : heap[p].children = <<>>
    BY <1>6, <2>1, ChildrenAre
  <2>3. DOMAIN heap = Range(stack) \cup Range(c) \cup ({list, comp_unit} \ {Null})
    BY <1>6, <2>1 DEF Built
  <2>4. \A p \in Range(c) : heap[p].capacity = 0
    <3>1. ListIn(heap, list, Len(stack))
      BY <1>6 DEF Built
    <3>2. \A j \in 1 .. Len(c) : heap[c[j]].capacity = 0
      BY <2>1, <3>1, ItemNode DEF ListIn
    <3> QED
      BY <2>2, <3>2, SequenceIs
  <2>5. comp_unit # Null => /\ comp_unit \in DOMAIN heap /\ comp_unit # list
                            /\ heap[comp_unit].children = <<list>>
                            /\ heap[comp_unit].capacity = 1
    BY DEF Built, RootIn
  <2>6. \A p \in DOMAIN heap :
            \/ p = list /\ heap[p].children = c /\ Len(c) <= heap[p].capacity
            \/ /\ p = comp_unit /\ comp_unit # Null /\ comp_unit # list
               /\ heap[p].children = <<list>> /\ heap[p].capacity = 1
            \/ heap[p].children = <<>> /\ heap[p].capacity = 0
    BY <1>3, <2>1, <2>2, <2>3, <2>4, <2>5
  <2>7. Range(<<list>>) = {list} /\ IsInjective(<<list>>) /\ Len(<<list>>) = 1
    BY DEF Range, IsInjective
  <2>8. Held \subseteq DOMAIN heap
    BY <1>3, <2>2, <2>5 DEF Held
  <2>9. ASSUME NEW p \in DOMAIN heap
        PROVE  /\ Range(heap[p].children) \subseteq DOMAIN heap \ Range(stack)
               /\ IsInjective(heap[p].children)
               /\ Len(heap[p].children) <= heap[p].capacity
    <3>1. CASE p = list /\ heap[p].children = c
      BY <2>2, <3>1
    <3>2. CASE heap[p].children = <<list>> /\ heap[p].capacity = 1
      BY <2>2, <2>7, <3>2
    <3>3. CASE heap[p].children = <<>> /\ heap[p].capacity = 0
      BY <1>4, <3>3
    <3> QED
      BY <2>6, <3>1, <3>2, <3>3
  <2>10. ASSUME NEW p \in DOMAIN heap, NEW q \in DOMAIN heap \ {p}
         PROVE  Range(heap[p].children) \cap Range(heap[q].children) = {}
    <3>1. CASE heap[p].children = <<>> \/ heap[q].children = <<>>
      BY <1>4, <3>1
    <3>2. CASE \/ heap[p].children = c /\ heap[q].children = <<list>>
               \/ heap[p].children = <<list>> /\ heap[q].children = c
      <4>1. Range(c) \cap Range(<<list>>) = {}
        BY <2>2, <2>7
      <4> QED
        BY <3>2, <4>1
    <3> QED
      BY <2>6, <2>10, <3>1, <3>2
  <2> QED
    BY <2>8, <2>9, <2>10 DEF TreeSound
<1> QED
  BY <1>5, <1>6

\* What node_delete goes over.
Deleted(h, f) ==
    f = [q \in DOMAIN h |->
            {q} \cup UNION {f[c] : c \in Range(h[q].children) \cap DOMAIN h}]

LEMMA BelowIs ==
    ASSUME NEW r, NEW f, f = CHOOSE g : Deleted(heap, g)
    PROVE  Below(r) = f[r]
BY DEF Below, Deleted

LEMMA AllBelow ==
    ASSUME Built, comp_unit # Null
    PROVE  Below(comp_unit) = DOMAIN heap
<1>1. PICK h : h = heap
  OBVIOUS
<1>2. PICK c : c = h[list].children
  OBVIOUS
<1>3. PICK l : l = list
  OBVIOUS
<1>4. PICK r : r = comp_unit
  OBVIOUS
<1>5. /\ l \in DOMAIN h /\ l \notin Range(c) /\ Range(c) \subseteq DOMAIN h
      /\ h[l].children = c
      /\ \A p \in Range(c) : h[p].children = <<>>
  <2>1. list # Null
    BY DEF Built
  <2> QED
    BY <1>1, <1>2, <1>3, <2>1, ChildrenAre
<1>6. r \in DOMAIN h /\ r # l /\ h[r].children = <<l>>
  BY <1>1, <1>3, <1>4 DEF Built, RootIn
<1>7. DOMAIN h = Range(c) \cup {l, r}
  <2>1. Range(stack) = {}
    BY DEF Built, Range
  <2> QED
    BY <1>1, <1>2, <1>3, <1>4, <1>5, <1>6, <2>1 DEF Built
<1>8. Range(<<>>) = {} /\ Range(<<l>>) = {l}
  BY DEF Range
<1>9. /\ r \notin Range(c)
      /\ \A p \in Range(c) : Range(h[p].children) \cap DOMAIN h = {}
      /\ Range(h[l].children) \cap DOMAIN h = Range(c)
      /\ Range(h[r].children) \cap DOMAIN h = {l}
  <2>1. r \notin Range(c)
    BY <1>5, <1>6, <1>8
  <2> QED
    BY <1>5, <1>6, <1>8, <2>1
<1> HIDE DEF Range
<1>10. PICK f : f = [q \in DOMAIN h |-> IF q = r THEN DOMAIN h
                                        ELSE IF q = l THEN {l} \cup Range(c) ELSE {q}]
  OBVIOUS
<1>11. /\ f[r] = DOMAIN h /\ f[l] = {l} \cup Range(c)
       /\ \A p \in Range(c) : f[p] = {p}
  BY <1>5, <1>6, <1>9, <1>10
<1>12. Deleted(h, f)
  <2>1. ASSUME NEW q \in DOMAIN h
        PROVE  f[q] = {q} \cup UNION {f[d] : d \in Range(h[q].children) \cap DOMAIN h}
    <3>1. CASE q = r
      <4>1. UNION {f[d] : d \in {l}} = f[l]
        OBVIOUS
      <4> QED
        BY <1>7, <1>9, <1>11, <3>1, <4>1
    <3>2. CASE q = l
      <4>1. UNION {f[d] : d \in Range(c)} = Range(c)
        BY <1>11
      <4> QED
        BY <1>9, <1>11, <3>2, <4>1
    <3>3. CASE q \in Range(c)
      BY <1>9, <1>11, <3>3
    <3> QED
      BY <1>7, <2>1, <3>1, <3>2, <3>3
  <2>2. f = [q \in DOMAIN h |-> f[q]]
    BY <1>10
  <2> QED
    BY <2>1, <2>2 DEF Deleted
<1>13. PICK g : g = CHOOSE x : Deleted(h, x)
  OBVIOUS
<1>14. Deleted(h, g)
  BY <1>12, <1>13
<1>15. \A q \in DOMAIN h :
           g[q] = {q} \cup UNION {g[d] : d \in Range(h[q].children) \cap DOMAIN h}
  BY <1>14 DEF Deleted
<1>16. \A p \in Range(c) : g[p] = {p}
  BY <1>5, <1>9, <1>15
<1>17. g[l] = {l} \cup Range(c)
  <2>1. UNION {g[d] : d \in Range(c)} = Range(c)
    BY <1>16
  <2>2. g[l] = {l} \cup UNION {g[d] : d \in Range(h[l].children) \cap DOMAIN h}
    BY <1>5, <1>15
  <2> QED
    BY <1>9, <2>1, <2>2
<1>18. g[r] = DOMAIN h
  <2>1. UNION {g[d] : d \in {l}} = g[l]
    OBVIOUS
  <2>2. g[r] = {r} \cup UNION {g[d] : d \in Range(h[r].children) \cap DOMAIN h}
    BY <1>6, <1>15
  <2> QED
    BY <1>7, <1>9, <1>17, <2>1, <2>2
<1> QED
  BY <1>1, <1>4, <1>13, <1>18, BelowIs

-----------------------------------------------------------------------------
(* The tree, from the first item to node_delete. *)

LEMMA SameIsBuilt ==
    ASSUME Built, UNCHANGED <<heap, allocs, stack, list, comp_unit>>
    PROVE  Built'
<1>1. /\ heap' = heap /\ allocs' = allocs /\ stack' = stack /\ list' = list
      /\ comp_unit' = comp_unit
  OBVIOUS
<1> QED
  BY <1>1 DEF Built

LEMMA StagesInit ==
    ASSUME Init
    PROVE  Stages
<1>1. /\ stage = "read" /\ heap = [p \in {} |-> Null] /\ allocs = 0 /\ stack = <<>>
      /\ list = Null /\ comp_unit = Null
  BY DEF Init, TreeInit
<1>2. DOMAIN heap = {} /\ Len(stack) = 0 /\ Range(stack) = {} /\ stack \in Seq(Nat)
  BY <1>1 DEF Range
<1> QED
  BY <1>1, <1>2 DEF Stages, Built, ItemsIn

LEMMA StagesStep ==
    ASSUME Stages, [Next]_vars
    PROVE  Stages'
<1>1. CASE Item \/ LastItem \/ MoreItems
  <2>1. /\ stage = "read" /\ stage' = "read" /\ comp_unit' = comp_unit
        /\ Built /\ comp_unit = Null
    BY <1>1 DEF Stages, Item, LastItem, MoreItems
  <2>2. Built'
    BY <1>1, <2>1, ItemStep, LastItemStep, MoreItemsStep
  <2> QED
    BY <2>1, <2>2 DEF Stages
<1>2. CASE SyntaxError
  <2>1. /\ stage = "read" /\ stage' = "error" /\ comp_unit' = comp_unit
        /\ Built /\ comp_unit = Null
    BY <1>2 DEF Stages, SyntaxError
  <2>2. Built'
    BY <1>2, <2>1, SameIsBuilt DEF SyntaxError
  <2> QED
    BY <2>1, <2>2 DEF Stages
<1>3. CASE node_delete
  <2>1. /\ stage \in {"done", "rejected"} /\ stage' = "end"
        /\ comp_unit' = comp_unit /\ comp_unit # Null /\ Built
    BY <1>3 DEF Stages, node_delete
  <2>2. DOMAIN heap \ Below(comp_unit) = {}
    BY <2>1, AllBelow
  <2>3. heap' = [p \in {} |-> heap[p]]
    BY <1>3, <2>2 DEF node_delete
  <2>4. heap' = [p \in {} |-> Null]
    BY <2>3
  <2> QED
    BY <2>1, <2>4 DEF Stages
<1>4. CASE Declaration
  <2>1. /\ stage = "read" /\ stage' = "visit" /\ Built /\ comp_unit = Null /\ CompUnit
    BY <1>4 DEF Stages, Declaration, CompUnit
  <2>2. Built' /\ comp_unit' # Null
    BY <2>1, CompUnitStep
  <2> QED
    BY <2>1, <2>2 DEF Stages
<1>5. CASE (\E exp \in Exps : Reject(exp) \/ ConstDef(exp) \/ Trap(exp)) \/ EndOfList
  <2>1. /\ stage = "visit" /\ stage' \in {"visit", "rejected", "trapped", "done"}
        /\ UNCHANGED <<heap, allocs, stack, list, comp_unit>>
    BY <1>5 DEF Reject, ConstDef, Trap, EndOfList, Visiting, Same
  <2>2. Built' /\ comp_unit # Null /\ comp_unit' = comp_unit
    BY <2>1, SameIsBuilt DEF Stages
  <2> QED
    BY <2>1, <2>2 DEF Stages
<1>6. CASE UNCHANGED vars
  <2>1. /\ stage' = stage /\ heap' = heap /\ comp_unit' = comp_unit
        /\ UNCHANGED <<heap, allocs, stack, list, comp_unit>>
    BY <1>6 DEF vars, tree
  <2>2. stage # "end" => Built'
    BY <2>1, SameIsBuilt DEF Stages
  <2> QED
    BY <2>1, <2>2 DEF Stages
<1> QED
  BY <1>1, <1>2, <1>3, <1>4, <1>5, <1>6 DEF Next, Over

\* Every node of the parser has one owner from the first item on, the list's array
\* is never shorter than its children, though it moves, and node_delete, which goes
\* down from the root, frees them all.
THEOREM TreeIsSound == Spec => []TreeSound
<1>1. Init => Stages
  BY StagesInit
<1>2. Stages /\ [Next]_vars => Stages'
  BY StagesStep
<1>3. Stages => TreeSound
  <2> SUFFICES ASSUME Stages
               PROVE  TreeSound
    OBVIOUS
  <2>1. CASE stage = "end"
    BY <2>1 DEF Stages, TreeSound
  <2>2. CASE stage # "end"
    BY <2>2, SoundWhileBuilt DEF Stages
  <2> QED
    BY <2>1, <2>2
<1> QED
  BY <1>1, <1>2, <1>3, PTL DEF Spec

-----------------------------------------------------------------------------
(* The constants. *)

LEMMA ExpIs ==
    ASSUME NEW exp \in Exps
    PROVE  exp.op \in Ops /\ exp.lhs \in Operand /\ exp.rhs \in Operand
<1>1. 1 \in Operand
  BY ConstantsAssumption DEF Operand
<1>2. "u+" \in Ops /\ UnaryOps \subseteq Ops
  BY DEF Ops, UnaryOps
<1>3. CASE exp \in Unary
  <2>1. exp.op \in UnaryOps /\ exp.lhs \in Operand /\ exp.rhs \in {1}
    BY <1>3 DEF Unary
  <2> QED
    BY <1>1, <1>2, <2>1
<1>4. CASE exp \in Binary
  <2>1. exp.op \in Ops \ UnaryOps /\ exp.lhs \in Operand /\ exp.rhs \in Operand
    BY <1>4 DEF Binary
  <2> QED
    BY <2>1
<1>5. CASE exp = Plain
  <2>1. exp.op = "u+" /\ exp.lhs = 1 /\ exp.rhs = 1
    BY <1>5 DEF Plain
  <2> QED
    BY <1>1, <1>2, <2>1
<1> QED
  BY <1>3, <1>4, <1>5 DEF Exps

\* What a value is to the rest.
IsValue(v) == /\ v.value \in Word /\ v.run \in Word /\ v.agree \in BOOLEAN
              /\ v.agree => v.value = v.run

LEMMA ValueIs ==
    ASSUME Ordered, Exactly, stage # "trapped", NEW n \in Operand, n \in Names => Lookup(n) # {}
    PROVE  IsValue(Value(n))
<1>1. CASE n \in Names
  <2>1. PICK c : c = CHOOSE d \in Lookup(n) : TRUE
    OBVIOUS
  <2>2. c \in Range(consts)
    BY <1>1, <2>1 DEF Lookup
  <2>3. PICK k \in 1 .. Len(consts) : c = consts[k]
    <3>1. Range(consts) = {consts[k] : k \in 1 .. Len(consts)}
      BY SequenceIs DEF Ordered
    <3> QED
      BY <2>2, <3>1
  <2>4. c \in Constant
    BY <2>3, SequenceIs DEF Ordered
  <2>5. c.value \in Word /\ c.run \in Word /\ c.agree \in BOOLEAN
    BY <2>4 DEF Constant
  <2>6. c.agree => c.value = c.run
    BY <2>3 DEF Exactly
  <2>7. Value(n) = c
    BY <1>1, <2>1 DEF Value
  <2> QED
    BY <2>5, <2>6, <2>7 DEF IsValue
<1>2. CASE n \notin Names
  <2>1. n \in Word
    BY <1>2, ConstantsAssumption DEF Operand
  <2>2. Value(n) = [item |-> 0, value |-> n, run |-> n, agree |-> TRUE]
    BY <1>2 DEF Value, Literal
  <2> QED
    BY <2>1, <2>2 DEF IsValue
<1> QED
  BY <1>1, <1>2

\* The child under the index is the first definition that has no constant.
LEMMA DefIs ==
    ASSUME Stages, Ordered, Visiting
    PROVE  /\ Def.item = Len(consts) + 1 /\ Len(consts) \in Nat
           /\ i \in Nat /\ i > 0 /\ Len(consts) + i = Len(Kids)
<1>1. /\ Built /\ comp_unit # Null /\ stack = <<>> /\ list # Null
      /\ ListIn(heap, list, Len(stack)) /\ stage = "visit" /\ i > 0
  BY DEF Stages, Built, Visiting
<1>2. /\ consts \in Seq(Constant) /\ i \in Nat /\ Len(consts) + i = Len(Kids)
      /\ Len(consts) \in Nat
  BY <1>1, SequenceIs DEF Ordered
<1>3. PICK c : c = heap[list].children
  OBVIOUS
<1>4. PICK m : m = Len(c)
  OBVIOUS
<1>5. m = Len(consts) + i /\ i \in 1 .. m /\ Len(stack) = 0
  BY <1>1, <1>2, <1>3, <1>4 DEF Kids
<1>6. heap[c[i]] = node_new(Len(stack) + (Len(c) + 1 - i), 0)
  BY <1>1, <1>3, <1>4, <1>5 DEF ListIn
<1>7. Len(stack) + (Len(c) + 1 - i) = Len(consts) + 1
  BY <1>2, <1>4, <1>5
<1>8. Def.item = Len(consts) + 1
  BY <1>3, <1>6, <1>7, ItemNode DEF Def
<1> QED
  BY <1>1, <1>2, <1>8

\* One more constant, the run of the compiler going on or dying of it.
IsLonger(s, e) ==
    /\ s \in Seq(Constant) /\ Len(s) = Len(consts) + 1
    /\ \A k \in 1 .. Len(s) : s[k].item = k
    /\ \A k \in 1 .. Len(consts) : s[k].agree => s[k].value = s[k].run
    /\ s[Len(s)] = e

LEMMA OneMore ==
    ASSUME Ordered, Exactly, stage # "trapped", NEW e,
           e \in Constant, e.item = Len(consts) + 1,
           NEW s, s = Append(consts, e)
    PROVE  IsLonger(s, e)
<1>1. consts \in Seq(Constant) /\ Len(consts) \in Nat
  BY SequenceIs DEF Ordered
<1>2. s \in Seq(Constant) /\ Longer(s, consts, e)
  BY <1>1, AppendedIs
<1>3. PICK n : n = Len(consts)
  OBVIOUS
<1>4. /\ n \in Nat /\ Len(s) = n + 1 /\ s[n + 1] = e
      /\ \A k \in 1 .. n : s[k] = consts[k]
  BY <1>2, <1>3 DEF Longer
<1>5. \A k \in 1 .. n : consts[k].item = k /\ (consts[k].agree => consts[k].value = consts[k].run)
  BY <1>3 DEF Ordered, Exactly
<1>6. \A k \in 1 .. n + 1 : k \in 1 .. n \/ k = n + 1
  BY <1>4
<1>7. \A k \in 1 .. n + 1 : s[k].item = k
  BY <1>3, <1>4, <1>5, <1>6
<1> QED
  BY <1>2, <1>3, <1>4, <1>5, <1>7 DEF IsLonger

\* The new constant, and the values it can have.
IsConstant(e, values) ==
    /\ e \in Constant /\ e.item = Len(consts) + 1
    /\ e.agree => values # {} /\ (e.value \in values => e.value = e.run)
    /\ values \subseteq Word

\* A shift has a value, whatever C makes of one past the width.
LEMMA ShiftFolds ==
    ASSUME NEW op \in Ops, op \notin Translated, NEW a, NEW b
    PROVE  Folded(op, a, b) # {}
<1>1. op = "<<" \/ op = ">>"
  BY DEF Translated
<1>2. Word # {}
  BY TruthIsWord
<1> QED
  BY <1>1, <1>2 DEF Folded

LEMMA EvaluatedIs ==
    ASSUME Stages, Ordered, Exactly, Visiting, NEW exp \in Exps,
           \A n \in Used(exp) : Lookup(n) # {},
           NEW value \in Word, NEW e, e = Evaluated(exp, value)
    PROVE  IsConstant(e, Values(exp)) /\ e.value = value
<1>1. exp.op \in Ops /\ exp.lhs \in Operand /\ exp.rhs \in Operand
  BY ExpIs
<1>2. stage # "trapped"
  BY DEF Visiting
<1>3. PICK a : a = Value(exp.lhs)
  OBVIOUS
<1>4. PICK b : b = Value(exp.rhs)
  OBVIOUS
<1>5. IsValue(a) /\ IsValue(b)
  <2>1. exp.lhs \in Names => Lookup(exp.lhs) # {}
    BY DEF Used
  <2>2. exp.rhs \in Names => Lookup(exp.rhs) # {}
    BY DEF Used
  <2>3. IsValue(a)
    BY <1>1, <1>2, <1>3, <2>1, ValueIs
  <2>4. IsValue(b)
    BY <1>1, <1>2, <1>4, <2>2, ValueIs
  <2> QED
    BY <2>3, <2>4
<1>6. /\ a.value \in Word /\ a.run \in Word /\ b.value \in Word /\ b.run \in Word
      /\ a.agree => a.value = a.run
      /\ b.agree => b.value = b.run
  BY <1>5 DEF IsValue
<1>7. Def.item = Len(consts) + 1 /\ Def.item \in Nat
  <2>1. Def.item = Len(consts) + 1 /\ Len(consts) \in Nat
    BY DefIs
  <2> QED
    BY <2>1
<1>8. Values(exp) = Folded(exp.op, a.value, b.value)
  BY <1>3, <1>4 DEF Values
<1>9. Values(exp) \subseteq Word
  BY <1>1, <1>6, <1>8, FoldedAreWords
<1>10. CASE exp.op \notin Translated
  <2>1. e = [item |-> Def.item, value |-> value, run |-> value, agree |-> TRUE]
    BY <1>10 DEF Evaluated, Folds
  <2>2. Values(exp) # {}
    BY <1>1, <1>8, <1>10, ShiftFolds
  <2>3. e \in Constant
    BY <1>7, <2>1 DEF Constant
  <2>4. e.item = Def.item /\ e.value = value /\ e.run = value
    BY <2>1
  <2> QED
    BY <1>7, <1>9, <2>2, <2>3, <2>4 DEF IsConstant
<1>11. CASE exp.op \in Translated
  <2>1. PICK run : run = Computed(exp.op, a.run, b.run)
    OBVIOUS
  <2>2. PICK agree : agree = (a.agree /\ b.agree /\ Agree(exp.op, a.run, b.run))
    OBVIOUS
  <2>3. e = [item |-> Def.item, value |-> value, run |-> run, agree |-> agree]
    BY <1>3, <1>4, <1>11, <2>1, <2>2, Zenon DEF Evaluated
  <2>4. run \in Word
    BY <1>6, <1>11, <2>1, ComputedIsWord
  <2>5. agree \in BOOLEAN
    BY <2>2, Zenon
  <2>6. ASSUME agree
        PROVE  Values(exp) = {run}
    <3>1. a.agree /\ b.agree /\ Agree(exp.op, a.run, b.run)
      BY <2>2, <2>6, Zenon
    <3>2. Folded(exp.op, a.run, b.run) = {run}
      BY <1>6, <1>11, <2>1, <3>1, OperatorsAgree
    <3> QED
      BY <1>6, <1>8, <3>1, <3>2
  <2>7. e.item = Def.item /\ e.value = value /\ e.run = run /\ e.agree = agree
    BY <2>3
  <2>8. e \in Constant
    BY <1>7, <2>3, <2>4, <2>5 DEF Constant
  <2>9. e.agree => Values(exp) # {} /\ (value \in Values(exp) => value = run)
    BY <2>6, <2>7
  <2> QED
    BY <1>7, <1>9, <2>7, <2>8, <2>9 DEF IsConstant
<1> QED
  BY <1>10, <1>11

LEMMA ConstantsInit ==
    ASSUME Init
    PROVE  Ordered /\ Exactly
<1>1. stage = "read" /\ consts = <<>>
  BY DEF Init, TreeInit
<1>2. Len(consts) = 0 /\ consts \in Seq(Constant)
  BY <1>1
<1> QED
  BY <1>1, <1>2 DEF Ordered, Exactly

\* A step that leaves the constants alone.
LEMMA NoneMore ==
    ASSUME Ordered, Exactly, consts' = consts,
           stage' = "trapped" => stage = "trapped",
           stage' = "read" => stage = "read",
           stage' \in {"visit", "done"} =>
               /\ i' \in Nat /\ Len(consts) + i' = Len(heap'[list'].children)
               /\ stage' = "done" => i' = 0
    PROVE  Ordered' /\ Exactly'
<1>1. Ordered'
  BY DEF Ordered, Kids
<1>2. Exactly'
  BY DEF Exactly
<1> QED
  BY <1>1, <1>2

LEMMA ConstDefStep ==
    ASSUME Stages, Ordered, Exactly, NEW exp \in Exps, ConstDef(exp)
    PROVE  Ordered' /\ Exactly'
<1>1. /\ Visiting /\ stage = "visit" /\ stage' = "visit"
      /\ \A n \in Used(exp) : Lookup(n) # {}
      /\ i' = i - 1 /\ heap' = heap /\ list' = list
  BY DEF ConstDef, Visiting, NextChild, Same
<1>2. PICK value \in Values(exp) : consts' = Append(consts, Evaluated(exp, value))
  BY DEF ConstDef
<1>3. PICK e : e = Evaluated(exp, value)
  OBVIOUS
<1>4. value \in Word
  <2>1. PICK word : word \in Word
    BY ConstantsAssumption
  <2>2. PICK f : f = Evaluated(exp, word)
    OBVIOUS
  <2>3. IsConstant(f, Values(exp))
    BY <1>1, <2>1, <2>2, EvaluatedIs
  <2> QED
    BY <1>2, <2>3 DEF IsConstant
<1>5. /\ e \in Constant /\ e.item = Len(consts) + 1
      /\ e.agree => e.value = e.run
  <2>1. IsConstant(e, Values(exp)) /\ e.value = value
    BY <1>1, <1>3, <1>4, EvaluatedIs
  <2> QED
    BY <1>2, <2>1 DEF IsConstant
<1>6. e.agree => e.value = e.run
  BY <1>5
<1>7. PICK s : s = Append(consts, e)
  OBVIOUS
<1>8. PICK n : n = Len(consts)
  OBVIOUS
<1>9. /\ s \in Seq(Constant) /\ Len(s) = n + 1
      /\ \A k \in 1 .. Len(s) : s[k].item = k
      /\ \A k \in 1 .. n : s[k].agree => s[k].value = s[k].run
      /\ s[Len(s)] = e
  <2>1. stage # "trapped"
    BY <1>1
  <2>2. IsLonger(s, e)
    BY <1>5, <1>7, <2>1, OneMore
  <2> QED
    BY <1>8, <2>2 DEF IsLonger
<1>10. n \in Nat /\ i \in Nat /\ i > 0 /\ n + i = Len(Kids)
  BY <1>1, <1>8, DefIs
<1>11. i' \in Nat /\ Len(s) + i' = Len(Kids) /\ Kids' = Kids /\ consts' = s
  <2>1. Kids' = Kids /\ consts' = s
    BY <1>1, <1>2, <1>3, <1>7 DEF Kids
  <2>2. PICK m : m = Len(Kids)
    OBVIOUS
  <2>3. i - 1 \in Nat /\ (n + 1) + (i - 1) = m
    BY <1>10, <2>2
  <2> QED
    BY <1>1, <1>9, <2>1, <2>2, <2>3
<1>12. Ordered'
  BY <1>1, <1>9, <1>11 DEF Ordered
<1>13. \A k \in 1 .. Len(s) : s[k].agree => s[k].value = s[k].run
  <2>1. \A k \in 1 .. n + 1 : k \in 1 .. n \/ k = n + 1
    BY <1>10
  <2> QED
    BY <1>6, <1>9, <2>1
<1>14. Exactly'
  BY <1>1, <1>11, <1>13 DEF Exactly
<1> QED
  BY <1>12, <1>14

\* The compiler dies of nothing the program would not die of as well.
LEMMA TrapStep ==
    ASSUME Stages, Ordered, Exactly, NEW exp \in Exps, Trap(exp)
    PROVE  Ordered' /\ Exactly'
<1>1. /\ Visiting /\ stage = "visit" /\ stage' = "trapped"
      /\ \A n \in Used(exp) : Lookup(n) # {}
      /\ Values(exp) = {} /\ consts' = Append(consts, Evaluated(exp, 0))
  BY DEF Trap, Visiting
<1>2. PICK e : e = Evaluated(exp, 0)
  OBVIOUS
<1>3. 0 \in Word
  BY TruthIsWord DEF Truth
<1>4. /\ e \in Constant /\ e.item = Len(consts) + 1
      /\ e.agree => Values(exp) # {}
  <2>1. IsConstant(e, Values(exp))
    BY <1>1, <1>2, <1>3, EvaluatedIs
  <2> QED
    BY <2>1 DEF IsConstant
<1>5. ~ e.agree
  BY <1>1, <1>4
<1>6. PICK s : s = Append(consts, e)
  OBVIOUS
<1>7. PICK n : n = Len(consts)
  OBVIOUS
<1>8. /\ s \in Seq(Constant) /\ Len(s) = n + 1
      /\ \A k \in 1 .. Len(s) : s[k].item = k
      /\ \A k \in 1 .. n : s[k].agree => s[k].value = s[k].run
      /\ s[Len(s)] = e
  <2>1. stage # "trapped"
    BY <1>1
  <2>2. IsLonger(s, e)
    BY <1>4, <1>6, <2>1, OneMore
  <2> QED
    BY <1>7, <2>2 DEF IsLonger
<1>9. n \in Nat
  BY <1>1, <1>7, DefIs
<1>10. consts' = s
  BY <1>1, <1>2, <1>6
<1>11. Ordered'
  BY <1>1, <1>8, <1>10 DEF Ordered
<1>12. \A k \in 1 .. Len(s) : s[k].agree => s[k].value = s[k].run /\ k # Len(s)
  <2>1. \A k \in 1 .. n + 1 : k \in 1 .. n \/ k = n + 1
    BY <1>9
  <2>2. \A k \in 1 .. n : k # n + 1
    BY <1>9
  <2> QED
    BY <1>5, <1>8, <2>1, <2>2
<1>13. Exactly'
  BY <1>10, <1>12 DEF Exactly
<1> QED
  BY <1>11, <1>13

LEMMA ConstantsStep ==
    ASSUME Stages, Ordered, Exactly, [Next]_vars
    PROVE  Ordered' /\ Exactly'
<1>1. CASE (Item \/ LastItem \/ MoreItems \/ SyntaxError \/ node_delete) /\ UNCHANGED <<i, consts>>
  <2>1. /\ consts' = consts /\ stage' \in {"read", "error", "end"}
        /\ stage' = "read" => stage = "read"
    BY <1>1 DEF Item, LastItem, MoreItems, SyntaxError, node_delete
  <2> QED
    BY <2>1, NoneMore
<1>2. CASE Declaration
  <2>1. /\ stage = "read" /\ stage' = "visit" /\ consts' = consts /\ CompUnit
        /\ i' = Len(heap[list].children) /\ list # Null
    BY <1>2 DEF Declaration, CompUnit
  <2>2. Built /\ comp_unit = Null /\ consts = <<>>
    BY <2>1 DEF Stages, Ordered
  <2>3. heap'[list'].children = heap[list].children
    BY <2>1, <2>2, CompUnitStep
  <2>4. PICK c : c = heap[list].children
    OBVIOUS
  <2>5. c \in Seq(Nat)
    BY <2>1, <2>2, <2>4, ChildrenAre
  <2>6. i' = Len(c) /\ Len(c) \in Nat /\ Len(consts) = 0
    BY <2>1, <2>2, <2>4, <2>5, SequenceIs
  <2>7. i' \in Nat /\ Len(consts) + i' = Len(heap'[list'].children)
    BY <2>3, <2>4, <2>6
  <2> QED
    BY <2>1, <2>7, NoneMore
<1>3. ASSUME NEW exp \in Exps, Reject(exp)
      PROVE  Ordered' /\ Exactly'
  <2>1. consts' = consts /\ stage' = "rejected"
    BY <1>3 DEF Reject
  <2> QED
    BY <2>1, NoneMore
<1>4. CASE EndOfList
  <2>1. /\ stage = "visit" /\ i = 0 /\ stage' = "done" /\ heap' = heap /\ list' = list
        /\ i' = i /\ consts' = consts
    BY <1>4 DEF EndOfList, Same
  <2>2. i' \in Nat /\ Len(consts) + i' = Len(heap'[list'].children)
    BY <2>1 DEF Ordered, Kids
  <2> QED
    BY <2>1, <2>2, NoneMore
<1>5. CASE UNCHANGED vars
  <2>1. stage' = stage /\ heap' = heap /\ list' = list /\ i' = i /\ consts' = consts
    BY <1>5 DEF vars, tree
  <2> QED
    BY <2>1 DEF Ordered, Exactly, Kids
<1> QED
  BY <1>1, <1>2, <1>3, <1>4, <1>5, ConstDefStep, TrapStep DEF Next, Over

\* The list is built from its end, its node moves as it grows, and the index goes down
\* from the last child: the constants are defined in the order of the source all the
\* same, for lists of any length.
THEOREM ConstantsInOrder == Spec => []SourceOrder
<1>1. Init => Stages /\ Ordered /\ Exactly
  BY StagesInit, ConstantsInit
<1>2. (Stages /\ Ordered /\ Exactly) /\ [Next]_vars => (Stages /\ Ordered /\ Exactly)'
  BY StagesStep, ConstantsStep
<1>3. Stages /\ Ordered /\ Exactly => SourceOrder
  <2> SUFFICES ASSUME Stages, Ordered, Exactly
               PROVE  SourceOrder
    OBVIOUS
  <2>1. DOMAIN consts = 1 .. Len(consts) /\ Len(consts) \in Nat
    BY SequenceIs DEF Ordered
  <2>2. Visiting => Def.item = Len(consts) + 1
    BY DefIs
  <2>3. stage = "done" => Len(consts) = Len(heap[list].children)
    BY <2>1 DEF Ordered, Kids
  <2>4. \A k \in DOMAIN consts : consts[k].item = k
    BY <2>1 DEF Ordered
  <2> QED
    BY <2>2, <2>3, <2>4 DEF SourceOrder
<1> QED
  BY <1>1, <1>2, <1>3, PTL DEF Spec

\* A constant has the value that the program would compute, through chains of any
\* length and for words of any width, as long as no operation that tells signed from
\* unsigned was given a negative number; then the compiler survives it, too.  A shift
\* has no other value than its folded one: the program cannot compute it.
THEOREM ConstantsAreExact == Spec => []Exact
<1>1. Init => Stages /\ Ordered /\ Exactly
  BY StagesInit, ConstantsInit
<1>2. (Stages /\ Ordered /\ Exactly) /\ [Next]_vars => (Stages /\ Ordered /\ Exactly)'
  BY StagesStep, ConstantsStep
<1>3. Stages /\ Ordered /\ Exactly => Exact
  <2> SUFFICES ASSUME Ordered, Exactly
               PROVE  Exact
    OBVIOUS
  <2>1. DOMAIN consts = 1 .. Len(consts)
    BY SequenceIs DEF Ordered
  <2> QED
    BY <2>1 DEF Exact, Exactly
<1> QED
  BY <1>1, <1>2, <1>3, PTL DEF Spec
=============================================================================
