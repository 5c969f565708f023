----------------------------- MODULE Arithmetic -----------------------------
(***************************************************************************)
(* The operators of SysY on machine words, computed twice: by the first    *)
(* pass, which folds constants in the unsigned arithmetic of C (Exp and    *)
(* UnaryExp of src/src/semantic.c), and by the instructions the second     *)
(* pass (src/src/ir.c) and raw_kind_binary (src/src/codegen.c) choose for  *)
(* the same operator, if they do: the second pass translates no shift.     *)
(* A word is its bit pattern, read as unsigned.                            *)
(***************************************************************************)
EXTENDS Integers

CONSTANT W     \* bits of a word: 32 in the code

ASSUME ArithmeticAssumption == W \in Nat /\ W > 1

\* What the provers must be told of powers.
ASSUME PowersAssumption ==
    \A k \in 0 .. W : 2^k \in Nat \ {0} /\ (k > 0 => 2^k = 2 * 2^(k - 1))

Word == 0 .. 2^W - 1

Bits(n) == n % 2^W

Signed(w) == IF w < 2^(W - 1) THEN w ELSE w - 2^W

Truth(condition) == IF condition THEN 1 ELSE 0

UnaryOps == {"u+", "u-", "!"}

Ops == UnaryOps \cup {"||", "&&", "==", "!=", "<", ">", "<=", ">=", "<<", ">>",
                      "+", "-", "*", "/", "%"}

\* The operators there is code for.  The case of the shifts in Exp (ir.c:438-444) runs on
\* into that of "+" and "-" and panics there (ir.c:451), see "shift" in Semantic.
Translated == Ops \ {"<<", ">>"}
-----------------------------------------------------------------------------
\* slips: an operator for its neighbour; a difference that does not wrap to a word
FoldRelop_Strict(op, a, b) == IF op \in {"<", "<="} THEN a < b ELSE a > b

FoldRelop(op, a, b) == CASE op = "<"  -> a < b
                         [] op = ">"  -> a > b
                         [] op = "<=" -> a <= b
                         [] op = ">=" -> a >= b

\* The values C may give the operation on uint32_t operands: none when the division
\* traps, any when a shift is by the width of a word or more.
Folded(op, a, b) ==
    CASE op = "u+" -> {a}
      [] op = "u-" -> {Bits(-a)}
      [] op = "!"  -> {Truth(a = 0)}
      [] op = "||" -> {Truth(a # 0 \/ b # 0)}
      [] op = "&&" -> {Truth(a # 0 /\ b # 0)}
      [] op = "==" -> {Truth(a = b)}
      [] op = "!=" -> {Truth(a # b)}
      [] op \in {"<", ">", "<=", ">="} -> {Truth(FoldRelop(op, a, b))}
      [] op = "<<" -> IF b < W THEN {Bits(a * 2^b)} ELSE Word
      [] op = ">>" -> IF b < W THEN {a \div 2^b} ELSE Word
      [] op = "+"  -> {Bits(a + b)}
      [] op = "-"  -> {Bits(a - b)}
      [] op = "*"  -> {Bits(a * b)}
      [] op = "/"  -> {n \in Word : b # 0 /\ n = a \div b}
      [] op = "%"  -> {n \in Word : b # 0 /\ n = a % b}
-----------------------------------------------------------------------------
(* The instructions, as the RISC-V manual has them. *)

\* Division rounds towards zero; by zero it has a result, too.
Quotient(m, n) == LET size(k) == IF k < 0 THEN -k ELSE k
                      q == size(m) \div size(n)
                  IN  IF (m < 0) = (n < 0) THEN q ELSE -q

div(a, b) == IF b = 0 THEN 2^W - 1 ELSE Bits(Quotient(Signed(a), Signed(b)))
rem(a, b) == IF b = 0 THEN a
             ELSE Bits(Signed(a) - Signed(b) * Quotient(Signed(a), Signed(b)))
slt(a, b) == Truth(Signed(a) < Signed(b))
sgt(a, b) == slt(b, a)
sub(a, b) == Bits(a - b)

seqz(a)   == Truth(a = 0)
snez(a)   == Truth(a # 0)

\* "xor" of two words is zero exactly if they are equal.
xor(a, b) == IF a = b THEN 0 ELSE 1

\* What the program computes for the operator.  The second pass writes a unary
\* operator as a binary one with the left operand 0, and "&&" and "||" as branches
\* on a comparison with 0.  Only operators that are translated have a value here.
Computed(op, a, b) ==
    CASE op = "u+" -> a
      [] op = "u-" -> sub(0, a)
      [] op = "!"  -> seqz(xor(0, a))
      [] op = "||" -> IF snez(xor(a, 0)) = 1 THEN 1 ELSE snez(xor(b, 0))
      [] op = "&&" -> IF snez(xor(a, 0)) = 1 THEN snez(xor(b, 0)) ELSE 0
      [] op = "==" -> seqz(xor(a, b))
      [] op = "!=" -> snez(xor(a, b))
      [] op = "<"  -> slt(a, b)
      [] op = ">"  -> sgt(a, b)
      [] op = "<=" -> seqz(sgt(a, b))
      [] op = ">=" -> seqz(slt(a, b))
      [] op = "+"  -> Bits(a + b)
      [] op = "-"  -> sub(a, b)
      [] op = "*"  -> Bits(a * b)
      [] op = "/"  -> div(a, b)
      [] op = "%"  -> rem(a, b)

\* Translated operators that only see the bits of their operands agree always.  The
\* others read them as unsigned in the first pass and as signed in the program: they
\* agree where that makes no difference and C defines the result.
Agree(op, a, b) ==
    CASE op \in {"<", ">", "<=", ">="} -> Signed(a) >= 0 /\ Signed(b) >= 0
      [] op \in {"/", "%"} -> Signed(a) >= 0 /\ Signed(b) > 0
      [] OTHER -> TRUE
=============================================================================
