---------------------------- MODULE CodegenProofs ----------------------------
(***************************************************************************)
(* Theorems about the code generator, for any number of registers, for     *)
(* functions of any size and for any path through them.                    *)
(*                                                                         *)
(* The argument: the areas of a frame lie apart (FrameLayout), so the      *)
(* slots that the code works with, "Working", are no variable's, nor the   *)
(* return address's, nor the caller's; and the registers it works with are *)
(* those from m_bb.reg_idx on, two scratch registers and those a call      *)
(* passes its arguments in, which are no live value's.  "Kept" is the      *)
(* invariant that says so; "Carries" is what it leaves of the state in the *)
(* machine in the middle of an instruction, and a lemma for each helper of *)
(* the generator shows that it goes on carrying it.                        *)
(***************************************************************************)
EXTENDS Codegen, TLAPS, FiniteSetTheorems, SequenceTheorems, WellFoundedInduction
-----------------------------------------------------------------------------
(* The frame. *)

\* Every value has a register, or no a register is taken from the values.
NoGap(fn) == fn.args = 0 \/ fn.vals <= RegisterEnd(fn)

\* The counts are numbers.
LEMMA CountsAreNatural ==
    ASSUME NEW fn \in Function, fn.params <= fn.allocs
    PROVE  /\ R_MAX \in Nat
           /\ saved_regs(fn) \in Nat /\ saved_regs(fn) <= R_MAX
           /\ spill_vals(fn) \in Nat
           /\ spill_args(fn) \in Nat
           /\ par_spill(fn) \in Nat
           /\ var_count(fn) \in Nat
BY FrameAssumption DEF Function, R_MAX, saved_regs, spill_vals, spill_args, par_spill,
                       var_count, Least, Excess

\* The frame has room for its areas and three words besides the return address.
LEMMA FrameHasRoom ==
    ASSUME NEW fn \in Function, fn.params <= fn.allocs
    PROVE  /\ stack_size(fn) \in Nat
           /\ Total(fn) <= stack_size(fn)
           /\ RaSlot(fn) \in 0 .. stack_size(fn) - 1
<1>1. Total(fn) \in Nat /\ Total(fn) >= 4
  BY CountsAreNatural DEF Total
<1>2. /\ (Total(fn) + 3) \div 4 \in Nat
      /\ Total(fn) <= 4 * ((Total(fn) + 3) \div 4)
  BY <1>1
<1>3. QED
  BY <1>1, <1>2 DEF stack_size, RaSlot

\* The slot of a spilled value is reckoned without wrapping around.
LEMMA OutSlotIsExact ==
    ASSUME NEW fn \in Function, fn.params <= fn.allocs, NoGap(fn),
           stack_size(fn) < WRAP,
           NEW i \in Nat, RegisterEnd(fn) <= i, i < fn.vals
    PROVE  OutSlot(fn, i) = var_count(fn) + saved_regs(fn) + spill_args(fn) + (i - R_MAX)
<1>1. R_MAX <= i /\ fn.vals = R_MAX + spill_vals(fn)
  BY FrameAssumption DEF NoGap, RegisterEnd, regst_args, Least, Excess, spill_vals,
                         Function, R_MAX
<1>2. i - R_MAX \in Nat /\ i - R_MAX < spill_vals(fn)
  BY <1>1, FrameAssumption, CountsAreNatural
<1> DEFINE slot == i - R_MAX + var_count(fn) + saved_regs(fn) + spill_args(fn)
<1>3. slot \in Nat /\ slot < Total(fn)
  BY <1>2, CountsAreNatural DEF Total
<1>4. slot < WRAP
  BY <1>3, FrameHasRoom, CountsAreNatural, FrameAssumption DEF Total
<1>5. slot % WRAP = slot
  BY <1>3, <1>4, FrameAssumption
<1>6. QED
  BY <1>5, <1>2, CountsAreNatural DEF OutSlot

\* The areas of the frame, from low to high: outgoing arguments, saved registers, local
\* variables, spilled values, the return address; nothing reaches below sp or above the
\* frame.  This is the comment of function_prologue, for the functions without a gap.
THEOREM FrameLayout ==
    ASSUME NEW fn \in Function, fn.params <= fn.allocs, NoGap(fn),
           stack_size(fn) < WRAP,
           NEW j \in A_MAX .. fn.args - 1,
           NEW r \in 0 .. saved_regs(fn) - 1,
           NEW n \in 0 .. var_count(fn) - 1,
           NEW i \in RegisterEnd(fn) .. fn.vals - 1
    PROVE  /\ 0 <= ArgumentSlot(j)
           /\ ArgumentSlot(j) < SavedSlot(fn, r)
           /\ SavedSlot(fn, r) < VariableSlot(fn, n)
           /\ VariableSlot(fn, n) < OutSlot(fn, i)
           /\ OutSlot(fn, i) < RaSlot(fn)
           /\ RaSlot(fn) < stack_size(fn)
<1>1. 0 <= ArgumentSlot(j) /\ ArgumentSlot(j) < spill_args(fn)
  BY FrameAssumption DEF ArgumentSlot, spill_args, Excess, Function
<1>2. spill_args(fn) <= SavedSlot(fn, r) /\ SavedSlot(fn, r) < saved_regs(fn) + spill_args(fn)
  BY CountsAreNatural DEF SavedSlot
<1>3. /\ saved_regs(fn) + spill_args(fn) <= VariableSlot(fn, n)
      /\ VariableSlot(fn, n) < var_count(fn) + saved_regs(fn) + spill_args(fn)
  BY CountsAreNatural DEF VariableSlot
<1>4. i \in Nat /\ R_MAX <= i /\ i - R_MAX < spill_vals(fn)
  BY FrameAssumption DEF NoGap, RegisterEnd, regst_args, Least, Excess, spill_vals,
                         Function, R_MAX
<1>5. OutSlot(fn, i) = var_count(fn) + saved_regs(fn) + spill_args(fn) + (i - R_MAX)
  BY <1>4, OutSlotIsExact, FrameAssumption, CountsAreNatural DEF Function
<1>6. OutSlot(fn, i) < Total(fn) - 1 /\ Total(fn) - 1 <= RaSlot(fn)
  BY <1>4, <1>5, CountsAreNatural, FrameHasRoom DEF Total, RaSlot
<1>7. VariableSlot(fn, n) < OutSlot(fn, i)
  BY <1>3, <1>4, <1>5, CountsAreNatural DEF VariableSlot
<1>8. RaSlot(fn) < stack_size(fn)
  BY FrameHasRoom DEF RaSlot
<1>9. /\ OutSlot(fn, i) \in Int /\ RaSlot(fn) \in Int
      /\ ArgumentSlot(j) \in Int /\ SavedSlot(fn, r) \in Int
      /\ VariableSlot(fn, n) \in Int
  BY <1>4, <1>5, CountsAreNatural, FrameHasRoom, FrameAssumption
     DEF RaSlot, ArgumentSlot, SavedSlot, VariableSlot
<1>10. OutSlot(fn, i) < RaSlot(fn)
  BY <1>6, <1>9, CountsAreNatural DEF Total
<1>11. ArgumentSlot(j) < SavedSlot(fn, r) /\ SavedSlot(fn, r) < VariableSlot(fn, n)
  BY <1>1, <1>2, <1>3, <1>9, CountsAreNatural
<1>12. QED
  BY <1>1, <1>7, <1>8, <1>10, <1>11

\* A variable's slot is among the local variables, or above the frame if the caller
\* passed it there; no two variables share one.
THEOREM VariablesApart ==
    ASSUME NEW fn \in Function, fn.params <= fn.allocs,
           NEW m \in 0 .. fn.allocs - 1, NEW n \in 0 .. fn.allocs - 1, m # n
    PROVE  /\ \/ AllocSlot(fn, n) >= stack_size(fn)
              \/ \E k \in 0 .. var_count(fn) - 1 : AllocSlot(fn, n) = VariableSlot(fn, k)
           /\ AllocSlot(fn, m) # AllocSlot(fn, n)
<1> DEFINE Place(k) == IF k < fn.params THEN k ELSE k - par_spill(fn)
           Passed(k) == k \in A_MAX .. fn.params - 1
<1>1. ASSUME NEW k \in 0 .. fn.allocs - 1, ~ Passed(k)
      PROVE  Place(k) \in 0 .. var_count(fn) - 1
  BY <1>1, FrameAssumption DEF par_spill, var_count, Excess, Function
<1>2. ASSUME NEW k \in 0 .. fn.allocs - 1
      PROVE  /\ Passed(k) => AllocSlot(fn, k) = stack_size(fn) + k - A_MAX
             /\ ~ Passed(k) => AllocSlot(fn, k) = VariableSlot(fn, Place(k))
  BY DEF AllocSlot, ParamSlot
<1>3. ~ Passed(m) /\ ~ Passed(n) => Place(m) # Place(n)
  BY FrameAssumption DEF par_spill, Excess, Function
<1>4. ASSUME NEW k \in 0 .. var_count(fn) - 1
      PROVE  VariableSlot(fn, k) \in Nat /\ VariableSlot(fn, k) < stack_size(fn)
  BY CountsAreNatural, FrameHasRoom DEF VariableSlot, Total
<1> HIDE DEF Place
<1>5. /\ Passed(n) => AllocSlot(fn, n) >= stack_size(fn)
      /\ Passed(m) => AllocSlot(fn, m) >= stack_size(fn)
  BY <1>2, FrameHasRoom, FrameAssumption DEF Function
<1>6. ~ Passed(n) => \E k \in 0 .. var_count(fn) - 1 : AllocSlot(fn, n) = VariableSlot(fn, k)
  BY <1>1, <1>2
<1>7. CASE Passed(m) /\ Passed(n)
  BY <1>7, <1>2, <1>5, FrameHasRoom, FrameAssumption DEF Function
<1>8. CASE ~ Passed(m) /\ ~ Passed(n)
  <2>1. Place(m) \in Nat /\ Place(n) \in Nat /\ Place(m) # Place(n)
    BY <1>8, <1>1, <1>3, CountsAreNatural
  <2>2. VariableSlot(fn, Place(m)) # VariableSlot(fn, Place(n))
    BY <2>1, CountsAreNatural DEF VariableSlot
  <2>3. QED
    BY <1>8, <1>2, <1>6, <2>2
<1>9. CASE Passed(m) # Passed(n)
  <2>1. ASSUME NEW k \in 0 .. fn.allocs - 1, ~ Passed(k)
        PROVE  AllocSlot(fn, k) \in Nat /\ AllocSlot(fn, k) < stack_size(fn)
    BY <2>1, <1>1, <1>2, <1>4
  <2>2. AllocSlot(fn, m) # AllocSlot(fn, n)
    BY <1>9, <2>1, <1>5, FrameHasRoom
  <2>3. QED
    BY <1>5, <1>6, <2>2
<1>10. QED
  BY <1>7, <1>8, <1>9

-----------------------------------------------------------------------------
(* Folds. *)

\* A set that has 0 and the successor of each of its naturals has every natural.
LEMMA SetInduction ==
    ASSUME NEW G, 0 \in G, \A n \in Nat : n \in G => n + 1 \in G
    PROVE  Nat \subseteq G
<1> DEFINE R == {ss \in Nat \X Nat : ss[1] < ss[2]}
           U == {n \in Nat : n \notin G}
<1> SUFFICES ASSUME U # {} PROVE FALSE
  OBVIOUS
<1>1. IsWellFoundedOn(R, Nat)
  BY NatLessThanWellFounded, Zenon DEF OpToRel
<1>2. PICK m \in U : \A u \in U : ~(<<u, m>> \in R)
  <2>1. U \subseteq Nat
    OBVIOUS
  <2> HIDE DEF R, U
  <2> QED  BY <1>1, <2>1, WFMin
<1>3. m \in Nat /\ m # 0 /\ m \notin G
  OBVIOUS
<1>4. m - 1 \in Nat /\ m - 1 < m
  BY <1>3
<1>5. m - 1 \in G
  BY <1>2, <1>3, <1>4
<1> QED
  BY <1>3, <1>4, <1>5

\* What the three folds over operands do with the k-th one.
FoldStep(fold, asked, m, k) ==
    CASE fold = "raw_value" -> raw_value(m, asked[k])
      [] fold = "opnd"      -> opnd(m, asked[k])
      [] fold = "pass"      -> pass(m, asked[k], k - 1)

\* The machines after 0, 1, ... n operands.
FoldRun(run, fold, asked, m, n) ==
    /\ run[0] = m
    /\ \A k \in 0 .. n - 1 : run[k + 1] = FoldStep(fold, asked, run[k], k + 1)

\* A fold as MapThenFoldSet has it: over sets of places, the greatest last.
FoldTable(F, fold, asked, m, n) ==
    F = [s \in SUBSET (1 .. n) |->
            IF s = {} THEN m ELSE FoldStep(fold, asked, F[s \ {Max(s)}], Max(s))]

LEMMA MaxIsLast ==
    ASSUME NEW n \in Nat, NEW s \in SUBSET (1 .. n + 1), n + 1 \in s
    PROVE  Max(s) = n + 1
<1>1. \A y \in s : n + 1 >= y
  OBVIOUS
<1>2. Max(s) \in s /\ \A y \in s : Max(s) >= y
  BY <1>1 DEF Max
<1>3. Max(s) \in 1 .. n + 1 /\ Max(s) >= n + 1
  BY <1>2
<1> QED
  BY <1>3

LEMMA MaxIsIn ==
    ASSUME NEW n \in Nat, NEW s \in SUBSET (1 .. n), s # {}
    PROVE  Max(s) \in s
<1> DEFINE G == {k \in Nat : \A t \in SUBSET (1 .. k) : t # {} => Max(t) \in t}
<1>1. 0 \in G
  <2>1. 1 .. 0 = {}
    OBVIOUS
  <2> QED  BY <2>1
<1>2. ASSUME NEW k \in Nat, k \in G
      PROVE  k + 1 \in G
  <2>1. ASSUME NEW t \in SUBSET (1 .. k + 1), t # {}
        PROVE  Max(t) \in t
    <3>1. CASE k + 1 \in t
      BY <3>1, MaxIsLast
    <3>2. CASE k + 1 \notin t
      <4>1. t \in SUBSET (1 .. k)
        BY <3>2
      <4> QED  BY <1>2, <2>1, <4>1
    <3> QED  BY <3>1, <3>2
  <2> HIDE DEF G
  <2> QED  BY <2>1 DEF G
<1>3. Nat \subseteq G
  <2> HIDE DEF G
  <2> QED  BY <1>1, <1>2, SetInduction
<1> QED
  BY <1>3

LEMMA FoldTableExists ==
    ASSUME NEW fold, NEW asked, NEW m
    PROVE  \A n \in Nat : \E F : FoldTable(F, fold, asked, m, n)
<1> DEFINE G == {n \in Nat : \E F : FoldTable(F, fold, asked, m, n)}
<1>1. 0 \in G
  <2> DEFINE F == [s \in SUBSET (1 .. 0) |-> m]
  <2>1. 1 .. 0 = {}
    OBVIOUS
  <2>2. F = [s \in SUBSET (1 .. 0) |->
               IF s = {} THEN m ELSE FoldStep(fold, asked, F[s \ {Max(s)}], Max(s))]
    BY <2>1
  <2> HIDE DEF F
  <2> QED
    BY <2>2 DEF FoldTable
<1>2. ASSUME NEW n \in Nat, n \in G
      PROVE  n + 1 \in G
  <2>1. PICK F : FoldTable(F, fold, asked, m, n)
    BY <1>2
  <2> DEFINE H == [s \in SUBSET (1 .. n + 1) |->
                     IF n + 1 \in s THEN FoldStep(fold, asked, F[s \ {n + 1}], n + 1)
                                    ELSE F[s]]
             B(s) == IF s = {} THEN m
                     ELSE FoldStep(fold, asked, H[s \ {Max(s)}], Max(s))
  <2>2. ASSUME NEW s \in SUBSET (1 .. n + 1), n + 1 \in s
        PROVE  H[s] = B(s)
    <3>1. Max(s) = n + 1 /\ s # {}
      BY <2>2, MaxIsLast
    <3>2. s \ {n + 1} \in SUBSET (1 .. n + 1) /\ n + 1 \notin s \ {n + 1}
      OBVIOUS
    <3>3. H[s \ {n + 1}] = F[s \ {n + 1}]
      BY <3>2
    <3>4. H[s] = FoldStep(fold, asked, F[s \ {n + 1}], n + 1)
      BY <2>2
    <3> HIDE DEF H
    <3> QED
      BY <3>1, <3>3, <3>4
  <2>3. ASSUME NEW s \in SUBSET (1 .. n + 1), n + 1 \notin s
        PROVE  H[s] = B(s)
    <3>1. s \in SUBSET (1 .. n)
      BY <2>3
    <3>2. H[s] = F[s]
      BY <2>3
    <3>3. F[s] = IF s = {} THEN m ELSE FoldStep(fold, asked, F[s \ {Max(s)}], Max(s))
      BY <2>1, <3>1 DEF FoldTable
    <3>4. H[s \ {Max(s)}] = F[s \ {Max(s)}]
      BY <2>3
    <3> HIDE DEF H
    <3> QED
      BY <3>2, <3>3, <3>4
  <2>4. FoldTable(H, fold, asked, m, n + 1)
    <3>1. \A s \in SUBSET (1 .. n + 1) : H[s] = B(s)
      BY <2>2, <2>3
    <3>2. H = [s \in SUBSET (1 .. n + 1) |-> H[s]]
      OBVIOUS
    <3> HIDE DEF H
    <3> QED
      BY <3>1, <3>2 DEF FoldTable
  <2> HIDE DEF H
  <2> QED
    BY <2>4
<1>3. Nat \subseteq G
  <2> HIDE DEF G
  <2> QED  BY <1>1, <1>2, SetInduction
<1> QED
  BY <1>3

LEMMA FoldTableRuns ==
    ASSUME NEW fold, NEW asked, NEW m, NEW n \in Nat, NEW F,
           FoldTable(F, fold, asked, m, n)
    PROVE  \E run : FoldRun(run, fold, asked, m, n) /\ run[n] = F[1 .. n]
<1> DEFINE run == [k \in 0 .. n |-> F[1 .. k]]
<1>1. run[0] = m
  <2>1. 1 .. 0 = {} /\ {} \in SUBSET (1 .. n)
    OBVIOUS
  <2> QED  BY <2>1 DEF FoldTable
<1>2. ASSUME NEW k \in 0 .. n - 1
      PROVE  run[k + 1] = FoldStep(fold, asked, run[k], k + 1)
  <2>1. /\ k \in Nat /\ k \in 0 .. n /\ k + 1 \in 0 .. n
        /\ 1 .. k + 1 \in SUBSET (1 .. n) /\ k + 1 \in 1 .. k + 1
    OBVIOUS
  <2>2. Max(1 .. k + 1) = k + 1
    BY <2>1, MaxIsLast
  <2>3. (1 .. k + 1) \ {k + 1} = 1 .. k
    BY <2>1
  <2>4. F[1 .. k + 1] = FoldStep(fold, asked, F[(1 .. k + 1) \ {k + 1}], k + 1)
    BY <2>1, <2>2 DEF FoldTable
  <2> QED
    BY <2>1, <2>3, <2>4
<1>3. run[n] = F[1 .. n]
  OBVIOUS
<1> HIDE DEF run
<1> QED
  BY <1>1, <1>2, <1>3 DEF FoldRun

\* So each of the folds has a run.
LEMMA RawValueFold ==
    ASSUME NEW asked, NEW n \in Nat, DOMAIN asked = 1 .. n, NEW m
    PROVE  \E run : FoldRun(run, "raw_value", asked, m, n)
                    /\ FoldLeft(raw_value, m, asked) = run[n]
<1> DEFINE Is(F) == F = [s \in SUBSET (1 .. n) |->
                            IF s = {} THEN m ELSE raw_value(F[s \ {Max(s)}], asked[Max(s)])]
           F == CHOOSE f : Is(f)
<1>1. \A f : Is(f) <=> FoldTable(f, "raw_value", asked, m, n)
  BY DEF FoldTable, FoldStep
<1>2. Is(F)
  <2>1. \E f : Is(f)
    <3> HIDE DEF Is
    <3> QED  BY <1>1, FoldTableExists
  <2> HIDE DEF Is
  <2> QED  BY <2>1
<1>3. FoldLeft(raw_value, m, asked) = F[1 .. n]
  BY Zenon DEF FoldLeft, MapThenFoldSet
<1> HIDE DEF F, Is
<1> QED
  BY <1>1, <1>2, <1>3, FoldTableRuns

LEMMA OpndFold ==
    ASSUME NEW asked, NEW n \in Nat, DOMAIN asked = 1 .. n, NEW m
    PROVE  \E run : FoldRun(run, "opnd", asked, m, n)
                    /\ FoldLeft(opnd, m, asked) = run[n]
<1> DEFINE Is(F) == F = [s \in SUBSET (1 .. n) |->
                            IF s = {} THEN m ELSE opnd(F[s \ {Max(s)}], asked[Max(s)])]
           F == CHOOSE f : Is(f)
<1>1. \A f : Is(f) <=> FoldTable(f, "opnd", asked, m, n)
  BY DEF FoldTable, FoldStep
<1>2. Is(F)
  <2>1. \E f : Is(f)
    <3> HIDE DEF Is
    <3> QED  BY <1>1, FoldTableExists
  <2> HIDE DEF Is
  <2> QED  BY <2>1
<1>3. FoldLeft(opnd, m, asked) = F[1 .. n]
  BY Zenon DEF FoldLeft, MapThenFoldSet
<1> HIDE DEF F, Is
<1> QED
  BY <1>1, <1>2, <1>3, FoldTableRuns

\* The arguments of a call are passed.
PassAll(m, asked) == FoldLeftDomain(LAMBDA q, k : pass(q, asked[k], k - 1), m, asked)

LEMMA PassFold ==
    ASSUME NEW asked, NEW n \in Nat, DOMAIN asked = 1 .. n, NEW m
    PROVE  \E run : FoldRun(run, "pass", asked, m, n) /\ PassAll(m, asked) = run[n]
<1> DEFINE places == [i \in DOMAIN asked |-> i]
           Is(F) == F = [s \in SUBSET DOMAIN places |->
                            IF s = {} THEN m
                            ELSE pass(F[s \ {Max(s)}], asked[places[Max(s)]],
                                      places[Max(s)] - 1)]
           F == CHOOSE f : Is(f)
<1>1. \A f : Is(f) <=> FoldTable(f, "pass", asked, m, n)
  <2>1. \A s \in SUBSET (1 .. n) : s # {} => Max(s) \in 1 .. n
    BY MaxIsIn
  <2>2. DOMAIN places = 1 .. n /\ \A i \in 1 .. n : places[i] = i
    OBVIOUS
  <2>3. \A s \in SUBSET (1 .. n) : s # {} => places[Max(s)] = Max(s)
    BY <2>1, <2>2
  <2> HIDE DEF places
  <2> QED
    BY <2>2, <2>3 DEF FoldTable, FoldStep
<1>2. Is(F)
  <2>1. \E f : Is(f)
    <3> HIDE DEF Is
    <3> QED  BY <1>1, FoldTableExists
  <2> HIDE DEF Is
  <2> QED  BY <2>1
<1>3. PassAll(m, asked) = F[DOMAIN places]
  BY Zenon DEF PassAll, FoldLeftDomain, FoldLeft, MapThenFoldSet
<1>4. DOMAIN places = 1 .. n
  OBVIOUS
<1> HIDE DEF F, Is, places
<1> QED
  BY <1>1, <1>2, <1>3, <1>4, FoldTableRuns

-----------------------------------------------------------------------------
(* Slots and registers. *)

\* A function whose frame the generator can lay out without a mistake.
Fits(fn) == /\ fn \in Function /\ fn.params <= fn.allocs
            /\ NoGap(fn) /\ stack_size(fn) < WRAP

\* The slots below the variables and those between them and the return address.
Working(fn) ==
    {s \in Nat : \/ s < saved_regs(fn) + spill_args(fn)
                 \/ /\ var_count(fn) + saved_regs(fn) + spill_args(fn) <= s
                    /\ s < RaSlot(fn)}

\* The variables that the caller has passed on the stack.
StackParams(fn) == A_MAX .. fn.params - 1

LEMMA RegisterEndIs ==
    ASSUME NEW fn, Fits(fn)
    PROVE  /\ T_MAX \in Nat /\ A_MAX \in Nat /\ R_MAX = T_MAX + A_MAX
           /\ RegisterEnd(fn) \in Nat /\ RegisterEnd(fn) <= R_MAX
           /\ T_MAX <= RegisterEnd(fn)
           /\ fn.args \in Nat /\ fn.vals \in Nat /\ fn.params \in Nat /\ fn.allocs \in Nat
           /\ fn.args <= A_MAX => RegisterEnd(fn) = R_MAX - fn.args
           /\ fn.args > A_MAX => RegisterEnd(fn) = T_MAX
           /\ fn.args = 0 \/ fn.vals <= RegisterEnd(fn)
BY FrameAssumption DEF Fits, Function, NoGap, RegisterEnd, R_MAX, regst_args, Least

LEMMA CountsFit ==
    ASSUME NEW fn, Fits(fn)
    PROVE  /\ saved_regs(fn) \in Nat /\ spill_args(fn) \in Nat /\ var_count(fn) \in Nat
           /\ stack_size(fn) \in Nat /\ RaSlot(fn) \in Nat
           /\ RaSlot(fn) = stack_size(fn) - 1
           /\ var_count(fn) + saved_regs(fn) + spill_args(fn) + 3 <= RaSlot(fn)
<1>1. /\ saved_regs(fn) \in Nat /\ spill_args(fn) \in Nat /\ var_count(fn) \in Nat
      /\ spill_vals(fn) \in Nat
  BY CountsAreNatural DEF Fits
<1>2. /\ stack_size(fn) \in Nat /\ Total(fn) <= stack_size(fn)
      /\ RaSlot(fn) \in 0 .. stack_size(fn) - 1
  BY FrameHasRoom DEF Fits
<1> QED
  BY <1>1, <1>2 DEF Total, RaSlot

\* The slot of a spilled value is above the variables and below the return address.
LEMMA OutSlotIs ==
    ASSUME NEW fn, Fits(fn), NEW i \in Nat, RegisterEnd(fn) <= i, i < fn.vals
    PROVE  /\ i >= R_MAX
           /\ OutSlot(fn, i) = var_count(fn) + saved_regs(fn) + spill_args(fn) + (i - R_MAX)
           /\ OutSlot(fn, i) < RaSlot(fn)
<1>1. OutSlot(fn, i) = var_count(fn) + saved_regs(fn) + spill_args(fn) + (i - R_MAX)
  BY OutSlotIsExact DEF Fits
<1>2. i >= R_MAX /\ i - R_MAX < spill_vals(fn)
  BY RegisterEndIs DEF RegisterEnd, regst_args, Least, spill_vals, Excess
<1>3. Total(fn) <= stack_size(fn) /\ spill_vals(fn) \in Nat
  BY FrameHasRoom, CountsAreNatural DEF Fits
<1> QED
  BY <1>1, <1>2, <1>3, CountsFit, RegisterEndIs DEF Total

\* What the code works with is no variable's, no return address's, no caller's.
LEMMA VariablesAreNotWorking ==
    ASSUME NEW fn, Fits(fn), NEW n \in 0 .. fn.allocs - 1
    PROVE  /\ AllocSlot(fn, n) \in Nat \ Working(fn)
           /\ AllocSlot(fn, n) # RaSlot(fn)
           /\ AllocSlot(fn, n) < RaSlot(fn) \/ AllocSlot(fn, n) <= stack_size(fn) + fn.params
           /\ AllocSlot(fn, n) >= stack_size(fn)
                  => n \in StackParams(fn) /\ AllocSlot(fn, n) = ParamSlot(fn, n)
<1>1. CASE n \in StackParams(fn)
  <2>1. AllocSlot(fn, n) = stack_size(fn) + n - A_MAX
    BY <1>1 DEF AllocSlot, ParamSlot, StackParams
  <2>2. n \in Nat /\ A_MAX <= n /\ n < fn.params
    BY <1>1, RegisterEndIs DEF StackParams
  <2> QED
    BY <1>1, <2>1, <2>2, CountsFit, RegisterEndIs DEF Working, ParamSlot
<1>2. CASE n \notin StackParams(fn)
  <2> DEFINE k == IF n < fn.params THEN n ELSE n - par_spill(fn)
  <2>1. k \in 0 .. var_count(fn) - 1
    BY <1>2, RegisterEndIs DEF StackParams, par_spill, var_count, Excess, Fits
  <2>2. AllocSlot(fn, n) = VariableSlot(fn, k)
    BY <1>2 DEF AllocSlot, StackParams
  <2> HIDE DEF k
  <2>3. AllocSlot(fn, n) = saved_regs(fn) + spill_args(fn) + k
    BY <2>2 DEF VariableSlot
  <2> QED
    BY <2>1, <2>3, CountsFit DEF Working
<1> QED
  BY <1>1, <1>2

LEMMA CallSlotsAreWorking ==
    ASSUME NEW fn, Fits(fn)
    PROVE  /\ \A j \in A_MAX .. fn.args - 1 : ArgumentSlot(j) \in 0 .. spill_args(fn) - 1
           /\ \A i \in 0 .. saved_regs(fn) - 1 :
                  SavedSlot(fn, i) \in spill_args(fn) .. saved_regs(fn) + spill_args(fn) - 1
           /\ 0 .. saved_regs(fn) + spill_args(fn) - 1 \subseteq Working(fn)
           /\ \A i \in RegisterEnd(fn) .. fn.vals - 1 :
                  /\ OutSlot(fn, i) \in Working(fn)
                  /\ OutSlot(fn, i) >= saved_regs(fn) + spill_args(fn)
           /\ Working(fn) \subseteq 0 .. RaSlot(fn) - 1
<1>1. ASSUME NEW j \in A_MAX .. fn.args - 1
      PROVE  ArgumentSlot(j) \in 0 .. spill_args(fn) - 1
  BY RegisterEndIs DEF ArgumentSlot, spill_args, Excess
<1>2. ASSUME NEW i \in 0 .. saved_regs(fn) - 1
      PROVE  SavedSlot(fn, i) \in spill_args(fn) .. saved_regs(fn) + spill_args(fn) - 1
  BY CountsFit DEF SavedSlot
<1>3. ASSUME NEW i \in RegisterEnd(fn) .. fn.vals - 1
      PROVE  /\ OutSlot(fn, i) \in Working(fn)
             /\ OutSlot(fn, i) >= saved_regs(fn) + spill_args(fn)
  <2>1. i \in Nat /\ RegisterEnd(fn) <= i /\ i < fn.vals
    BY RegisterEndIs
  <2> QED
    BY <2>1, OutSlotIs, CountsFit, RegisterEndIs DEF Working
<1>4. 0 .. saved_regs(fn) + spill_args(fn) - 1 \subseteq Working(fn)
  BY CountsFit DEF Working
<1>5. Working(fn) \subseteq 0 .. RaSlot(fn) - 1
  BY CountsFit DEF Working
<1> QED
  BY <1>1, <1>2, <1>3, <1>4, <1>5

\* The registers of values are their own, whatever the number of a registers a call needs.
LEMMA ValueRegistersApart ==
    ASSUME NEW fn, Fits(fn), NEW i \in Nat, i < RegisterEnd(fn)
    PROVE  /\ ValueRegister(fn, i) \in Registers
           /\ ValueRegister(fn, i) # X0
           /\ ValueRegister(fn, i) # Scratch(0) /\ ValueRegister(fn, i) # Scratch(1)
           /\ \A k \in Nat : k < RegisterEnd(fn) /\ k # i
                                 => ValueRegister(fn, k) # ValueRegister(fn, i)
           /\ \A j \in Nat : j < fn.args => ValueRegister(fn, i) # A(j)
<1>1. CASE i < T_MAX
  <2>1. ValueRegister(fn, i) = T(i)
    BY <1>1 DEF ValueRegister
  <2>2. ASSUME NEW k \in Nat, k < RegisterEnd(fn), k # i
        PROVE  ValueRegister(fn, k) # T(i)
    BY <2>2 DEF ValueRegister, T, A
  <2> QED
    BY <1>1, <2>1, <2>2, RegisterEndIs DEF T, A, X0, Scratch, Registers
<1>2. CASE i >= T_MAX
  <2>1. ValueRegister(fn, i) = A(i - T_MAX + fn.args)
    BY <1>2, RegisterEndIs DEF ValueRegister
  <2>2. i - T_MAX + fn.args \in fn.args .. A_MAX - 1
    BY <1>2, RegisterEndIs
  <2>3. ASSUME NEW k \in Nat, k < RegisterEnd(fn), k # i
        PROVE  ValueRegister(fn, k) # A(i - T_MAX + fn.args)
    BY <2>3, <1>2, RegisterEndIs DEF ValueRegister, T, A
  <2>4. A(i - T_MAX + fn.args) \in Registers
    BY <2>2, RegisterEndIs DEF Registers
  <2> QED
    BY <2>1, <2>2, <2>3, <2>4, RegisterEndIs DEF T, A, X0, Scratch
<1> QED
  BY <1>1, <1>2, RegisterEndIs

LEMMA OtherRegisters ==
    /\ X0 \in Registers /\ Scratch(0) \in Registers /\ Scratch(1) \in Registers
    /\ X0 # Scratch(0) /\ X0 # Scratch(1) /\ Scratch(0) # Scratch(1)
    /\ \A j \in Nat : /\ A(j) # X0 /\ A(j) # Scratch(0) /\ A(j) # Scratch(1)
                      /\ j < A_MAX => A(j) \in Registers
                      /\ \A k \in Nat : A(j) = A(k) => j = k
<1>1. X0 \in Registers
  BY DEF Registers
<1>2. Scratch(0) \in Registers
  <2>1. T_MAX + 0 \in 0 .. T_MAX + 1
    BY FrameAssumption
  <2> QED  BY <2>1 DEF Scratch, Registers
<1>3. Scratch(1) \in Registers
  <2>1. T_MAX + 1 \in 0 .. T_MAX + 1
    BY FrameAssumption
  <2> QED  BY <2>1 DEF Scratch, Registers
<1>4. X0 # Scratch(0) /\ X0 # Scratch(1) /\ Scratch(0) # Scratch(1)
  BY FrameAssumption DEF X0, Scratch, T
<1>5. ASSUME NEW j \in Nat
      PROVE  /\ A(j) # X0 /\ A(j) # Scratch(0) /\ A(j) # Scratch(1)
             /\ j < A_MAX => A(j) \in Registers
             /\ \A k \in Nat : A(j) = A(k) => j = k
  <2>1. j < A_MAX => j \in 0 .. A_MAX - 1
    BY FrameAssumption
  <2>2. j < A_MAX => A(j) \in Registers
    BY <2>1 DEF Registers
  <2>3. A(j) # X0 /\ A(j) # Scratch(0) /\ A(j) # Scratch(1)
    BY DEF A, X0, Scratch, T
  <2>4. \A k \in Nat : A(j) = A(k) => j = k
    BY DEF A
  <2> QED
    BY <2>2, <2>3, <2>4
<1> QED
  BY <1>1, <1>2, <1>3, <1>4, <1>5

-----------------------------------------------------------------------------
(* What a machine must hold. *)

VarsIn(fn, slots, vs) == \A n \in vs : slots[AllocSlot(fn, n)] = Variable(n)

FrameIn(fn, slots) ==
    /\ slots[RaSlot(fn)] = Ra
    /\ \A s \in Slots(fn) :
           s >= stack_size(fn) =>
               slots[s] = Caller \/ \E n \in StackParams(fn) : s = ParamSlot(fn, n)

\* The slots, when the variables "vs" have been stored to.
MemRight(fn, slots, vs) ==
    /\ DOMAIN slots = Slots(fn)
    /\ VarsIn(fn, slots, vs)
    /\ FrameIn(fn, slots)

\* Only slots the code works with have changed.
Tame(fn, old, new) ==
    /\ DOMAIN old = Slots(fn) /\ DOMAIN new = Slots(fn)
    /\ \A s \in Slots(fn) \ Working(fn) : new[s] = old[s]

\* The value with index i is where it should be.
Place(fn, regs, slots, i) ==
    IF i < RegisterEnd(fn) THEN regs[ValueRegister(fn, i)] ELSE slots[OutSlot(fn, i)]

LEMMA AllocSlotIsSlot ==
    ASSUME NEW fn, Fits(fn), fn.params <= MaxParams, NEW n \in 0 .. fn.allocs - 1
    PROVE  AllocSlot(fn, n) \in Slots(fn)
BY VariablesAreNotWorking, CountsFit, RegisterEndIs, CodegenAssumption DEF Slots

LEMMA TameKeeps ==
    ASSUME NEW fn, Fits(fn), fn.params <= MaxParams, NEW old, NEW new, Tame(fn, old, new),
           NEW vs \in SUBSET (0 .. fn.allocs - 1), MemRight(fn, old, vs)
    PROVE  MemRight(fn, new, vs)
<1>1. VarsIn(fn, new, vs)
  <2>1. ASSUME NEW n \in vs
        PROVE  new[AllocSlot(fn, n)] = Variable(n)
    <3>1. AllocSlot(fn, n) \in Slots(fn) \ Working(fn)
      BY VariablesAreNotWorking, AllocSlotIsSlot
    <3> QED
      BY <3>1 DEF Tame, MemRight, VarsIn
  <2> QED
    BY <2>1 DEF VarsIn
<1>2. FrameIn(fn, new)
  <2>1. RaSlot(fn) \in Slots(fn) \ Working(fn)
    BY CountsFit, CallSlotsAreWorking, CodegenAssumption DEF Slots
  <2>2. ASSUME NEW s \in Slots(fn), s >= stack_size(fn)
        PROVE  s \notin Working(fn)
    BY <2>2, CountsFit, CallSlotsAreWorking
  <2> QED
    BY <2>1, <2>2 DEF Tame, MemRight, FrameIn
<1> QED
  BY <1>1, <1>2 DEF MemRight, Tame

-----------------------------------------------------------------------------
(* The steps of a machine. *)

IsMachine(m) ==
    /\ m = [reg |-> m.reg, mem |-> m.mem, idx |-> m.idx, queue |-> m.queue]
    /\ DOMAIN m.reg = Registers /\ DOMAIN m.mem = Slots(m_fn)
    /\ m.idx \in Nat

\* Values with these indices have a register or a slot.
Placed(i) == i \in Nat /\ (i < RegisterEnd(m_fn) \/ i < m_fn.vals)

LEMMA LiIs ==
    ASSUME NEW m, IsMachine(m), NEW r \in Registers, NEW what,
           NEW n, n = li(m, r, what)
    PROVE  /\ IsMachine(n) /\ n.mem = m.mem /\ n.idx = m.idx /\ n.queue = m.queue
           /\ n.reg[r] = what /\ \A q \in Registers : q # r => n.reg[q] = m.reg[q]
BY DEF IsMachine, li

LEMMA PutIs ==
    ASSUME NEW m, IsMachine(m), NEW slot \in Slots(m_fn), NEW what,
           NEW n, n = put(m, slot, what)
    PROVE  /\ IsMachine(n) /\ n.reg = m.reg /\ n.idx = m.idx /\ n.queue = m.queue
           /\ n.mem[slot] = what
           /\ \A s \in Slots(m_fn) : s # slot => n.mem[s] = m.mem[s]
BY DEF IsMachine, put

LEMMA MovesAre ==
    ASSUME NEW m, IsMachine(m), NEW r \in Registers, NEW q \in Registers,
           NEW slot \in Slots(m_fn)
    PROVE  /\ lw(m, r, slot) = li(m, r, m.mem[slot])
           /\ mv(m, r, q) = li(m, r, m.reg[q])
           /\ sw(m, r, slot) = put(m, slot, m.reg[r])
BY DEF IsMachine, lw, mv, sw, li

LEMMA YieldIs ==
    ASSUME NEW m, IsMachine(m), NEW r, NEW n, n = Yield(m, r)
    PROVE  /\ IsMachine(n) /\ n.reg = m.reg /\ n.mem = m.mem /\ n.idx = m.idx
           /\ n.queue = Append(m.queue, r)
BY DEF IsMachine, Yield

LEMMA OutSlotsApart ==
    ASSUME NEW fn, Fits(fn),
           NEW i \in Nat, RegisterEnd(fn) <= i, i < fn.vals,
           NEW k \in Nat, RegisterEnd(fn) <= k, k < fn.vals, k # i
    PROVE  OutSlot(fn, k) # OutSlot(fn, i)
<1> DEFINE c == var_count(fn) + saved_regs(fn) + spill_args(fn)
<1>1. c \in Nat
  BY CountsFit
<1>2. OutSlot(fn, i) = c + (i - R_MAX) /\ OutSlot(fn, k) = c + (k - R_MAX)
  BY OutSlotIs
<1> HIDE DEF c
<1> QED
  BY <1>1, <1>2, RegisterEndIs

\* What "Out" writes to.
LEMMA OutWrites ==
    ASSUME Fits(m_fn), NEW m, IsMachine(m), Placed(m_bb.out_idx), NEW what,
           NEW n, n = Out(m, what)
    PROVE  /\ IsMachine(n) /\ n.idx = m.idx /\ n.queue = m.queue
           /\ Tame(m_fn, m.mem, n.mem)
           /\ \A s \in 0 .. saved_regs(m_fn) + spill_args(m_fn) - 1 : n.mem[s] = m.mem[s]
           /\ Place(m_fn, n.reg, n.mem, m_bb.out_idx) = what
           /\ \A r \in Registers : r # out(m_bb.out_idx) => n.reg[r] = m.reg[r]
           /\ \A i \in Nat : Placed(i) /\ i # m_bb.out_idx =>
                  Place(m_fn, n.reg, n.mem, i) = Place(m_fn, m.reg, m.mem, i)
<1> DEFINE i == m_bb.out_idx
<1> PICK w : w = li(m, out(i), what)
  OBVIOUS
<1>0. i \in Nat /\ RegisterEnd(m_fn) \in Nat /\ m_fn.vals \in Nat
  BY RegisterEndIs DEF Placed
<1>1. out(i) \in Registers
  BY <1>0, ValueRegistersApart, OtherRegisters DEF out
<1>2. IsMachine(w) /\ w.mem = m.mem /\ w.idx = m.idx /\ w.queue = m.queue
  BY <1>1, LiIs
<1>3. /\ w.reg[out(i)] = what
      /\ \A r \in Registers : r # out(i) => w.reg[r] = m.reg[r]
  BY <1>1, LiIs
<1>4. CASE i < RegisterEnd(m_fn)
  <2>1. n = w /\ out(i) = ValueRegister(m_fn, i)
    BY <1>4 DEF Out, out
  <2>2. Tame(m_fn, m.mem, n.mem)
    BY <2>1, <1>2 DEF Tame, IsMachine
  <2>3. ASSUME NEW k \in Nat, Placed(k), k # i
        PROVE  Place(m_fn, n.reg, n.mem, k) = Place(m_fn, m.reg, m.mem, k)
    <3>1. CASE k < RegisterEnd(m_fn)
      <4>1. ValueRegister(m_fn, k) \in Registers /\ ValueRegister(m_fn, k) # out(i)
        BY <3>1, <2>1, <2>3, <1>0, <1>4, ValueRegistersApart
      <4> QED
        BY <4>1, <2>1, <1>3, <3>1 DEF Place
    <3>2. CASE ~ (k < RegisterEnd(m_fn))
      BY <3>2, <2>1, <1>2 DEF Place
    <3> QED  BY <3>1, <3>2
  <2>4. Place(m_fn, n.reg, n.mem, i) = what
    BY <2>1, <1>3, <1>4 DEF Place
  <2> QED
    BY <2>1, <2>2, <2>3, <2>4, <1>2, <1>3
<1>5. CASE ~ (i < RegisterEnd(m_fn))
  <2> DEFINE slot == OutSlot(m_fn, i)
  <2>0. RegisterEnd(m_fn) <= i /\ i < m_fn.vals
    BY <1>5, <1>0 DEF Placed
  <2>1. n = sw(w, out(i), slot) /\ out(i) = Scratch(0)
    BY <1>5 DEF Out, out
  <2>2. /\ slot \in Working(m_fn) /\ slot >= saved_regs(m_fn) + spill_args(m_fn)
        /\ slot \in Nat
    <3>1. i \in RegisterEnd(m_fn) .. m_fn.vals - 1
      BY <2>0, <1>0
    <3> QED
      BY <3>1, CallSlotsAreWorking DEF Working
  <2>3. slot \in Slots(m_fn)
    BY <2>2, CallSlotsAreWorking, CountsFit, CodegenAssumption DEF Slots
  <2> HIDE DEF slot
  <2>4. n = put(w, slot, what)
    BY <2>1, <2>3, <1>1, <1>2, <1>3, MovesAre
  <2>5. /\ IsMachine(n) /\ n.reg = w.reg /\ n.idx = m.idx /\ n.queue = m.queue
        /\ \A s \in Slots(m_fn) : s # slot => n.mem[s] = m.mem[s]
    BY <2>3, <2>4, <1>2, PutIs
  <2>6. n.mem[slot] = what
    BY <2>3, <2>4, <1>2, PutIs
  <2>7. Tame(m_fn, m.mem, n.mem)
    BY <2>2, <2>5 DEF Tame, IsMachine
  <2>8. \A s \in 0 .. saved_regs(m_fn) + spill_args(m_fn) - 1 :
            s \in Slots(m_fn) /\ s # slot
    BY <2>2, CountsFit, CodegenAssumption DEF Slots
  <2>9. ASSUME NEW k \in Nat, Placed(k), k # i
        PROVE  Place(m_fn, n.reg, n.mem, k) = Place(m_fn, m.reg, m.mem, k)
    <3>1. CASE k < RegisterEnd(m_fn)
      <4>1. ValueRegister(m_fn, k) \in Registers /\ ValueRegister(m_fn, k) # out(i)
        BY <3>1, <2>1, ValueRegistersApart
      <4> QED
        BY <4>1, <2>5, <1>3, <3>1 DEF Place
    <3>2. CASE ~ (k < RegisterEnd(m_fn))
      <4>1. RegisterEnd(m_fn) <= k /\ k < m_fn.vals
        BY <3>2, <2>9, <1>0 DEF Placed
      <4>2. OutSlot(m_fn, k) # slot
        BY <4>1, <2>0, <2>9, <1>0, OutSlotsApart DEF slot
      <4>3. OutSlot(m_fn, k) \in Slots(m_fn)
        <5>1. k \in RegisterEnd(m_fn) .. m_fn.vals - 1
          BY <4>1, <1>0
        <5>2. OutSlot(m_fn, k) \in 0 .. RaSlot(m_fn) - 1
          BY <5>1, CallSlotsAreWorking
        <5> QED
          BY <5>2, CountsFit, CodegenAssumption DEF Slots
      <4> QED
        BY <3>2, <4>2, <4>3, <2>5 DEF Place
    <3> QED  BY <3>1, <3>2
  <2>10. Place(m_fn, n.reg, n.mem, i) = what
    BY <2>6, <1>5 DEF Place, slot
  <2> QED
    BY <2>5, <2>7, <2>8, <2>9, <2>10, <1>3
<1> QED
  BY <1>4, <1>5

-----------------------------------------------------------------------------
(* Operands. *)

\* What opnd is asked for: a value is one of this block.
Operand(what) ==
    \/ what = Zero
    \/ \E k \in Nat : what = Literal(k)
    \/ \E i \in Nat : what = Value(i) /\ i < m_bb.out_idx /\ Placed(i)
    \/ \E v \in Nat : what = Variable(v)

\* It is there to be fetched: a value in its place, one that has waited, and has just
\* been loaded again, in the place that reg_idx tells.
Has(m, what) ==
    /\ what[1] = "zero" => m.reg[X0] = Zero
    /\ what[1] = "value" => Place(m_fn, m.reg, m.mem, what[2]) = what
    /\ what[1] = "variable" => Placed(m.idx) /\ Place(m_fn, m.reg, m.mem, m.idx) = what

\* A fetch queues register r, and changes no other but one that is free.
Fetched(m, n, r) ==
    /\ IsMachine(n) /\ n.mem = m.mem
    /\ r \in Registers /\ n.queue = Append(m.queue, r)
    /\ n.idx \in {m.idx, m.idx + 1}
    /\ \A q \in Registers :
           /\ q # Scratch(Len(m.queue))
           /\ m.idx < RegisterEnd(m_fn) => q # ValueRegister(m_fn, m.idx)
           => n.reg[q] = m.reg[q]
    /\ \/ r = X0 \/ r = Scratch(Len(m.queue))
       \/ \E i \in Nat : /\ i < n.idx /\ i < RegisterEnd(m_fn)
                         /\ r = ValueRegister(m_fn, i)

Cursor(m) == /\ Fits(m_fn) /\ m_bb.out_idx \in Nat
             /\ IsMachine(m) /\ m_bb.out_idx <= m.idx
             /\ Len(m.queue) \in {0, 1}

LEMMA FetchOfZero ==
    ASSUME NEW m, Cursor(m), NEW n, n = opnd(m, Zero)
    PROVE  Fetched(m, n, X0) /\ n.idx = m.idx /\ (Has(m, Zero) => n.reg[X0] = Zero)
<1>1. n = Yield(m, X0)
  BY DEF opnd, Zero
<1>2. IsMachine(n) /\ n.reg = m.reg /\ n.mem = m.mem /\ n.idx = m.idx
      /\ n.queue = Append(m.queue, X0)
  BY <1>1, YieldIs DEF Cursor
<1>3. Has(m, Zero) => m.reg[X0] = Zero
  BY DEF Has, Zero
<1> QED
  BY <1>2, <1>3, OtherRegisters DEF Fetched

LEMMA FetchOfLiteral ==
    ASSUME NEW m, Cursor(m), NEW k, NEW n, n = opnd(m, Literal(k))
    PROVE  \E r : Fetched(m, n, r) /\ n.reg[r] = Literal(k)
<1> PICK r : r = Free(m)
  OBVIOUS
<1> PICK w : w = li(m, r, Literal(k))
  OBVIOUS
<1>0. PICK v : v = [w EXCEPT !.idx = @ + 1]
  OBVIOUS
<1>1. n = Yield(v, r)
  BY <1>0 DEF opnd, Literal
<1>2. /\ r \in Registers
      /\ \/ r = Scratch(Len(m.queue))
         \/ m.idx < RegisterEnd(m_fn) /\ r = ValueRegister(m_fn, m.idx)
  BY ValueRegistersApart, OtherRegisters DEF Cursor, Free, ScratchFor, IsMachine
<1>3. /\ IsMachine(w) /\ w.mem = m.mem /\ w.idx = m.idx /\ w.queue = m.queue
      /\ w.reg[r] = Literal(k) /\ \A q \in Registers : q # r => w.reg[q] = m.reg[q]
  BY <1>2, LiIs DEF Cursor
<1>4. IsMachine(v) /\ v.reg = w.reg /\ v.mem = m.mem /\ v.idx = m.idx + 1 /\ v.queue = m.queue
  BY <1>0, <1>3 DEF IsMachine
<1>5. /\ IsMachine(n) /\ n.reg = w.reg /\ n.mem = m.mem /\ n.idx = m.idx + 1
      /\ n.queue = Append(m.queue, r)
  BY <1>1, <1>4, YieldIs
<1>6. m.idx \in Nat /\ m.idx < m.idx + 1
  BY DEF Cursor, IsMachine
<1>7. Fetched(m, n, r)
  BY <1>2, <1>3, <1>5, <1>6 DEF Fetched
<1> QED
  BY <1>3, <1>5, <1>7

\* Only the two that are loaded from a slot use the scratch register.
LEMMA FetchOfPlaced ==
    ASSUME NEW m, Cursor(m), NEW i \in Nat, NEW base, NEW what, NEW n,
           IsMachine(base), base.reg = m.reg, base.mem = m.mem, base.queue = m.queue,
           base.idx \in {m.idx, m.idx + 1}, i < base.idx,
           n = IF i < RegisterEnd(m_fn)
               THEN Yield(base, ValueRegister(m_fn, i))
               ELSE Yield(lw(base, ScratchFor(m), OutSlot(m_fn, i)), ScratchFor(m))
    PROVE  \E r : /\ Fetched(m, n, r) /\ n.idx = base.idx
                  /\ Placed(i) /\ Place(m_fn, m.reg, m.mem, i) = what => n.reg[r] = what
<1>0. RegisterEnd(m_fn) \in Nat
  BY RegisterEndIs DEF Cursor
<1>1. CASE i < RegisterEnd(m_fn)
  <2> PICK r : r = ValueRegister(m_fn, i)
    OBVIOUS
  <2>1. r \in Registers
    BY <1>1, ValueRegistersApart DEF Cursor
  <2>2. /\ IsMachine(n) /\ n.reg = m.reg /\ n.mem = m.mem /\ n.idx = base.idx
        /\ n.queue = Append(m.queue, r)
    BY <1>1, YieldIs
  <2>3. Fetched(m, n, r)
    BY <1>1, <2>1, <2>2 DEF Fetched
  <2> QED
    BY <1>1, <2>2, <2>3 DEF Place
<1>2. CASE ~ (i < RegisterEnd(m_fn))
  <2> PICK r : r = Scratch(Len(m.queue))
    OBVIOUS
  <2> PICK slot : slot = OutSlot(m_fn, i)
    OBVIOUS
  <2> PICK found : found = IF slot \in Slots(m_fn) THEN m.mem[slot] ELSE Junk
    OBVIOUS
  <2> PICK w : w = li(base, r, found)
    OBVIOUS
  <2>1. r \in Registers
    BY OtherRegisters DEF Cursor
  <2>2. n = Yield(w, r)
    <3>1. lw(base, r, slot) = w
      BY DEF lw, li, IsMachine
    <3> QED
      BY <1>2, <3>1 DEF ScratchFor
  <2>3. /\ IsMachine(w) /\ w.mem = m.mem /\ w.idx = base.idx /\ w.queue = m.queue
        /\ w.reg[r] = found /\ \A q \in Registers : q # r => w.reg[q] = m.reg[q]
    BY <2>1, LiIs
  <2>4. /\ IsMachine(n) /\ n.reg = w.reg /\ n.mem = m.mem /\ n.idx = base.idx
        /\ n.queue = Append(m.queue, r)
    BY <2>2, <2>3, YieldIs
  <2>5. Fetched(m, n, r)
    BY <2>1, <2>3, <2>4 DEF Fetched
  <2>6. ASSUME Placed(i), Place(m_fn, m.reg, m.mem, i) = what
        PROVE  n.reg[r] = what
    <3>1. i \in RegisterEnd(m_fn) .. m_fn.vals - 1
      BY <2>6, <1>0, <1>2, RegisterEndIs DEF Placed, Cursor
    <3>2. slot \in 0 .. RaSlot(m_fn) - 1
      BY <3>1, CallSlotsAreWorking DEF Cursor
    <3>3. slot \in Slots(m_fn)
      <4>1. /\ RaSlot(m_fn) \in Nat /\ RaSlot(m_fn) = stack_size(m_fn) - 1
            /\ stack_size(m_fn) \in Nat /\ MaxParams \in Nat
        BY CountsFit, CodegenAssumption DEF Cursor
      <4> QED
        BY <3>2, <4>1 DEF Slots
    <3> QED
      BY <2>3, <2>4, <2>6, <1>2, <3>3 DEF Place
  <2> QED
    BY <2>4, <2>5, <2>6
<1> QED
  BY <1>1, <1>2

LEMMA OpndFetches ==
    ASSUME NEW m, Cursor(m), NEW what, Operand(what), NEW n, n = opnd(m, what)
    PROVE  \E r : /\ Fetched(m, n, r)
                  /\ Has(m, what) => n.reg[r] = what
                  /\ what[1] \in {"zero", "value"} => n.idx = m.idx
<1>1. CASE what = Zero
  BY <1>1, FetchOfZero
<1>2. ASSUME NEW k \in Nat, what = Literal(k)
      PROVE  \E r : Fetched(m, n, r) /\ n.reg[r] = what
                    /\ what[1] \notin {"zero", "value"}
  <2>1. what[1] = "literal"
    BY <1>2 DEF Literal
  <2> QED
    BY <1>2, <2>1, FetchOfLiteral
<1>3. ASSUME NEW i \in Nat, what = Value(i), i < m_bb.out_idx, Placed(i)
      PROVE  \E r : Fetched(m, n, r) /\ (Has(m, what) => n.reg[r] = what) /\ n.idx = m.idx
  <2>1. what[1] = "value" /\ what[2] = i
    BY <1>3 DEF Value
  <2>2. n = IF i < RegisterEnd(m_fn)
            THEN Yield(m, ValueRegister(m_fn, i))
            ELSE Yield(lw(m, ScratchFor(m), OutSlot(m_fn, i)), ScratchFor(m))
    BY <2>1 DEF opnd
  <2>3. IsMachine(m) /\ m.idx \in Nat /\ i < m.idx
    BY <1>3 DEF Cursor, IsMachine
  <2>4. \E r : /\ Fetched(m, n, r) /\ n.idx = m.idx
               /\ Placed(i) /\ Place(m_fn, m.reg, m.mem, i) = what => n.reg[r] = what
    BY <2>2, <2>3, FetchOfPlaced
  <2>5. Has(m, what) => Place(m_fn, m.reg, m.mem, i) = what
    BY <2>1 DEF Has
  <2> QED
    BY <1>3, <2>4, <2>5
<1>4. ASSUME NEW v \in Nat, what = Variable(v)
      PROVE  \E r : Fetched(m, n, r) /\ (Has(m, what) => n.reg[r] = what)
                    /\ what[1] \notin {"zero", "value"}
  <2>1. what[1] = "variable"
    BY <1>4 DEF Variable
  <2>a. PICK base : base = [m EXCEPT !.idx = @ + 1]
    OBVIOUS
  <2>b. PICK i : i = m.idx
    OBVIOUS
  <2>2. n = IF i < RegisterEnd(m_fn)
            THEN Yield(base, ValueRegister(m_fn, i))
            ELSE Yield(lw(base, ScratchFor(m), OutSlot(m_fn, i)), ScratchFor(m))
    BY <2>1, <2>a, <2>b DEF opnd
  <2>3. /\ IsMachine(base) /\ base.reg = m.reg /\ base.mem = m.mem /\ base.queue = m.queue
        /\ base.idx = m.idx + 1 /\ i \in Nat /\ i < base.idx
    BY <2>a, <2>b DEF Cursor, IsMachine
  <2>4. \E r : /\ Fetched(m, n, r) /\ n.idx = base.idx
               /\ Placed(i) /\ Place(m_fn, m.reg, m.mem, i) = what => n.reg[r] = what
    BY <2>2, <2>3, <2>b, FetchOfPlaced
  <2>5. Has(m, what) => Placed(i) /\ Place(m_fn, m.reg, m.mem, i) = what
    BY <2>1, <2>b DEF Has
  <2> QED
    BY <2>1, <2>4, <2>5
<1> QED
  BY <1>1, <1>2, <1>3, <1>4, FetchOfZero DEF Operand

-----------------------------------------------------------------------------
(* The operands of an instruction. *)

LEMMA AfterIs ==
    ASSUME NEW kinds \in Seq(Kinds), NEW k \in 1 .. Len(kinds),
           NEW after, after = SubSeq(kinds, k + 1, Len(kinds))
    PROVE  /\ Len(kinds) \in Nat /\ DOMAIN kinds = 1 .. Len(kinds)
           /\ after \in Seq(Kinds)
           /\ Len(after) = Len(kinds) - k /\ DOMAIN after = 1 .. Len(kinds) - k
           /\ \A j \in 1 .. Len(kinds) - k : after[j] = kinds[k + j]
<1>2. /\ Len(kinds) \in Nat /\ DOMAIN kinds = 1 .. Len(kinds)
      /\ \A j \in 1 .. Len(kinds) : kinds[j] \in Kinds
  BY LenProperties, ElementOfSeq
<1>3. /\ k + 1 \in Int /\ Len(kinds) \in Int
      /\ \A j \in k + 1 .. Len(kinds) : kinds[j] \in Kinds
  BY <1>2
<1>4. /\ after \in Seq(Kinds)
      /\ Len(after) = IF k + 1 <= Len(kinds) THEN Len(kinds) - (k + 1) + 1 ELSE 0
      /\ \A j \in 1 .. Len(kinds) - (k + 1) + 1 : after[j] = kinds[(k + 1) + j - 1]
  <2>1. \A m, n \in Int : (\A i \in m .. n : kinds[i] \in Kinds) =>
           /\ SubSeq(kinds, m, n) \in Seq(Kinds)
           /\ Len(SubSeq(kinds, m, n)) = IF m <= n THEN n - m + 1 ELSE 0
           /\ \A j \in 1 .. n - m + 1 : SubSeq(kinds, m, n)[j] = kinds[m + j - 1]
    BY SubSeqProperties
  <2>2. PICK m, n \in Int : m = k + 1 /\ n = Len(kinds)
    BY <1>3
  <2>3. \A i \in m .. n : kinds[i] \in Kinds
    BY <1>3, <2>2
  <2>4. /\ SubSeq(kinds, m, n) \in Seq(Kinds)
        /\ Len(SubSeq(kinds, m, n)) = IF m <= n THEN n - m + 1 ELSE 0
        /\ \A j \in 1 .. n - m + 1 : SubSeq(kinds, m, n)[j] = kinds[m + j - 1]
    BY <2>1, <2>3, Zenon
  <2>5. after = SubSeq(kinds, m, n)
    BY <2>2, Zenon
  <2>6. /\ after \in Seq(Kinds)
        /\ Len(after) = IF m <= n THEN n - m + 1 ELSE 0
        /\ \A j \in 1 .. n - m + 1 : after[j] = kinds[m + j - 1]
    BY <2>4, <2>5, Zenon
  <2> QED
    BY <2>2, <2>6
<1>5. /\ Len(after) = Len(kinds) - k /\ DOMAIN after = 1 .. Len(kinds) - k
      /\ \A j \in 1 .. Len(kinds) - k : after[j] = kinds[k + j]
  <2>0. \A l \in Nat : \A j \in 1 .. l :
            (IF j + 1 <= l THEN l - (j + 1) + 1 ELSE 0) = l - j
    OBVIOUS
  <2>1. Len(after) = Len(kinds) - k
    BY <1>2, <1>4, <2>0, Zenon
  <2>2. DOMAIN after = 1 .. Len(after)
    BY <1>4, LenProperties
  <2>3. \A j \in 1 .. Len(kinds) - k : /\ j \in 1 .. Len(kinds) - (k + 1) + 1
                                       /\ (k + 1) + j - 1 = k + j
    BY <1>2
  <2> QED
    BY <1>4, <2>1, <2>2, <2>3
<1> QED
  BY <1>2, <1>4, <1>5

LEMMA CountsAfter ==
    ASSUME NEW kinds \in Seq(Kinds), NEW k \in 1 .. Len(kinds), NEW kind,
           kinds[k] = kind
    PROVE  /\ Count(SubSeq(kinds, k + 1, Len(kinds)), kind) \in Nat
           /\ Count(kinds, kind) \in Nat
           /\ Count(SubSeq(kinds, k + 1, Len(kinds)), kind) < Count(kinds, kind)
<1>1. PICK after : after = SubSeq(kinds, k + 1, Len(kinds))
  OBVIOUS
<1>2. Len(kinds) \in Nat /\ DOMAIN kinds = 1 .. Len(kinds)
  BY LenProperties
<1>5. /\ DOMAIN after = 1 .. Len(kinds) - k
      /\ \A j \in 1 .. Len(kinds) - k : after[j] = kinds[k + j]
  BY <1>1, AfterIs
<1> DEFINE S == {j \in DOMAIN kinds : kinds[j] = kind}
           U == {j \in DOMAIN after : after[j] = kind}
           f == [j \in U |-> k + j]
<1>6. IsFiniteSet(DOMAIN kinds)
  BY <1>2, FS_Interval
<1>7. IsFiniteSet(S) /\ Cardinality(S) \in Nat
  <2>1. S \in SUBSET DOMAIN kinds
    OBVIOUS
  <2> HIDE DEF S
  <2> QED  BY <1>6, <2>1, FS_Subset, FS_CardinalityType
<1>8. k \in S
  BY <1>2
<1>9. IsFiniteSet(S \ {k}) /\ Cardinality(S \ {k}) = Cardinality(S) - 1
  <2> HIDE DEF S
  <2> QED  BY <1>7, <1>8, FS_RemoveElement
<1>10. f \in Injection(U, S \ {k})
  <2>1. \A j \in U : k + j \in S \ {k}
    BY <1>2, <1>5
  <2>2. \A i, j \in U : k + i = k + j => i = j
    BY <1>5
  <2> HIDE DEF U, S
  <2> QED  BY <2>1, <2>2 DEF Injection, IsInjective
<1>11. IsFiniteSet(U) /\ Cardinality(U) <= Cardinality(S \ {k})
  <2> HIDE DEF f, U, S
  <2> QED  BY <1>9, <1>10, FS_Injection
<1>12. Cardinality(U) \in Nat
  <2> HIDE DEF U
  <2> QED  BY <1>11, FS_CardinalityType
<1>13. Count(kinds, kind) = Cardinality(S) /\ Count(after, kind) = Cardinality(U)
  BY DEF Count
<1> HIDE DEF S, U
<1> QED
  BY <1>1, <1>7, <1>9, <1>11, <1>12, <1>13

-----------------------------------------------------------------------------
(* The inductive invariant. *)

\* Frames are not as large as the address space.
FramesFit == \A fn \in Functions : stack_size(fn) < WRAP

FnRight == m_fn # None => /\ m_fn \in Functions /\ m_fn.params <= m_fn.allocs
                          /\ Supported(m_fn)

\* While values of an expression are live, reg_idx follows right behind the last one.
Counted ==
    /\ m_bb \in [reg_idx : Nat, out_idx : Nat]
    /\ m_bb.out_idx <= m_bb.reg_idx
    /\ m_fn # None => m_bb.out_idx <= m_fn.vals
    /\ m_fn = None => m_bb.out_idx = 0
    /\ live # <<>> => m_bb.reg_idx = m_bb.out_idx
    /\ passed \in Nat

Ordered(s, end) ==
    /\ s \in Seq(Nat)
    /\ \A k \in 1 .. Len(s) : s[k] < end /\ \A j \in 1 .. k - 1 : s[j] < s[k]

LiveOrdered == Ordered(live, m_bb.out_idx)

Stored ==
    /\ waiting \in Seq(Nat) /\ Range(waiting) \subseteq ready
    /\ m_fn # None => ready \subseteq 0 .. m_fn.allocs - 1
    /\ m_fn = None => ready = {} /\ live = <<>>

RegsHeld == DOMAIN reg = Registers /\ reg[X0] = Zero

\* The parameters passed on the stack are in their slots before they are taken.
MemHeld == m_fn # None => MemRight(m_fn, mem, ready \cup StackParams(m_fn))

ParamsHeld ==
    m_fn # None =>
        \A n \in 0 .. Least(m_fn.params, A_MAX) - 1 : n \notin ready => reg[A(n)] = Param(n)

\* Only a call while a value is in an a register may lose it.
LiveHeld == "call_past_t" \notin Admit => LiveKept

Kept == /\ FnRight /\ Counted /\ LiveOrdered /\ Stored
        /\ RegsHeld /\ MemHeld /\ ParamsHeld /\ LiveHeld

LEMMA FunctionFits ==
    ASSUME FramesFit, "spill_gap" \notin Admit, FnRight, m_fn # None
    PROVE  Fits(m_fn) /\ m_fn.params <= MaxParams /\ m_fn.allocs <= MaxAllocs
<1>1. /\ m_fn.params \in 0 .. MaxParams /\ m_fn.allocs \in 0 .. MaxAllocs
      /\ m_fn.vals \in 0 .. MaxVals /\ m_fn.args \in 0 .. MaxArgs
      /\ m_fn = [params |-> m_fn.params, allocs |-> m_fn.allocs,
                 vals |-> m_fn.vals, args |-> m_fn.args]
  BY DEF FnRight, Functions
<1>2. m_fn \in Function
  BY <1>1 DEF Function
<1>3. stack_size(m_fn) < WRAP
  BY DEF FramesFit, FnRight
<1>4. NoGap(m_fn)
  BY DEF FnRight, Supported, NoGap
<1> QED
  BY <1>1, <1>2, <1>3, <1>4, CodegenAssumption DEF Fits, FnRight

LEMMA PrefixIs ==
    ASSUME NEW s \in Seq(Nat), NEW n \in Nat, n <= Len(s)
    PROVE  /\ SubSeq(s, 1, n) \in Seq(Nat) /\ Len(SubSeq(s, 1, n)) = n
           /\ \A k \in 1 .. n : SubSeq(s, 1, n)[k] = s[k]
           /\ Range(SubSeq(s, 1, n)) \subseteq Range(s)
<1>1. \A k \in 1 .. n : s[k] \in Nat /\ k \in DOMAIN s
  BY LenProperties, ElementOfSeq
<1>2. /\ SubSeq(s, 1, n) \in Seq(Nat)
      /\ Len(SubSeq(s, 1, n)) = IF 1 <= n THEN n - 1 + 1 ELSE 0
      /\ \A k \in 1 .. n - 1 + 1 : SubSeq(s, 1, n)[k] = s[1 + k - 1]
  <2>1. 1 \in Int /\ n \in Int
    OBVIOUS
  <2> QED
    BY <1>1, <2>1, SubSeqProperties
<1>3. PICK t : t = SubSeq(s, 1, n)
  OBVIOUS
<1>4. t \in Seq(Nat) /\ Len(t) = n /\ \A k \in 1 .. n : t[k] = s[k]
  BY <1>2, <1>3
<1>5. DOMAIN t = 1 .. n
  BY <1>4, LenProperties
<1>6. Range(t) \subseteq Range(s)
  BY <1>1, <1>4, <1>5 DEF Range
<1> QED
  BY <1>3, <1>4, <1>6

LEMMA OrderedPrefix ==
    ASSUME NEW s, NEW end, Ordered(s, end), NEW n \in Nat, n <= Len(s)
    PROVE  Ordered(SubSeq(s, 1, n), end)
<1>1. PICK t : t = SubSeq(s, 1, n)
  OBVIOUS
<1>2. t \in Seq(Nat) /\ Len(t) = n /\ \A k \in 1 .. n : t[k] = s[k]
  BY <1>1, PrefixIs DEF Ordered
<1>3. s \in Seq(Nat) /\ Len(s) \in Nat
  BY LenProperties DEF Ordered
<1>4. \A k \in 1 .. n : k \in 1 .. Len(s) /\ \A j \in 1 .. k - 1 : j \in 1 .. n
  BY <1>3
<1>5. Ordered(t, end)
  BY <1>2, <1>4 DEF Ordered
<1> QED
  BY <1>1, <1>5

LEMMA AppendIs ==
    ASSUME NEW s \in Seq(Nat), NEW e \in Nat
    PROVE  /\ Append(s, e) \in Seq(Nat) /\ Append(s, e) # <<>>
           /\ Range(Append(s, e)) = Range(s) \cup {e}
<1>1. PICK t : t = Append(s, e)
  OBVIOUS
<1>2. /\ t \in Seq(Nat) /\ t # <<>> /\ Len(t) = Len(s) + 1
      /\ \A i \in 1 .. Len(s) : t[i] = s[i]
      /\ t[Len(s) + 1] = e
  BY <1>1, AppendProperties
<1>3. DOMAIN t = 1 .. Len(s) + 1 /\ DOMAIN s = 1 .. Len(s) /\ Len(s) \in Nat
  BY <1>2, LenProperties
<1>4. 1 .. Len(s) + 1 = (1 .. Len(s)) \cup {Len(s) + 1}
  BY <1>3
<1>5. Range(t) = Range(s) \cup {e}
  BY <1>2, <1>3, <1>4 DEF Range
<1> QED
  BY <1>1, <1>2, <1>5

LEMMA OrderedAppend ==
    ASSUME NEW s, NEW end \in Nat, Ordered(s, end)
    PROVE  Ordered(Append(s, end), end + 1)
<1>1. PICK t : t = Append(s, end)
  OBVIOUS
<1>2. /\ t \in Seq(Nat) /\ Len(t) = Len(s) + 1
      /\ \A i \in 1 .. Len(s) : t[i] = s[i]
      /\ t[Len(s) + 1] = end
  BY <1>1, AppendProperties DEF Ordered
<1>3. s \in Seq(Nat) /\ Len(s) \in Nat /\ \A i \in 1 .. Len(s) : s[i] \in Nat
  BY LenProperties, ElementOfSeq DEF Ordered
<1>4. ASSUME NEW k \in 1 .. Len(t)
      PROVE  t[k] < end + 1 /\ \A j \in 1 .. k - 1 : t[j] < t[k]
  <2>1. CASE k \in 1 .. Len(s)
    <3>1. s[k] < end /\ \A j \in 1 .. k - 1 : s[j] < s[k]
      BY <2>1 DEF Ordered
    <3>2. \A j \in 1 .. k - 1 : j \in 1 .. Len(s)
      BY <2>1, <1>3
    <3>3. s[k] \in Nat /\ t[k] = s[k] /\ \A j \in 1 .. k - 1 : t[j] = s[j]
      BY <2>1, <3>2, <1>2, <1>3
    <3> QED
      BY <3>1, <3>3
  <2>2. CASE k = Len(s) + 1
    BY <2>2, <1>2, <1>3 DEF Ordered
  <2> QED
    BY <2>1, <2>2, <1>2, <1>3
<1>5. Ordered(t, end + 1)
  BY <1>2, <1>4 DEF Ordered
<1> QED
  BY <1>1, <1>5

\* What an instruction may ask for.
LEMMA OperandsAre ==
    ASSUME LiveOrdered, Stored, NEW kinds \in Seq(Kinds),
           ValuesIn(kinds) <= Len(live), WaitingIn(kinds) <= Len(waiting),
           NEW k \in 1 .. Len(kinds), NEW what, what = Operands(kinds)[k]
    PROVE  /\ kinds[k] = "zero" => what = Zero
           /\ kinds[k] = "literal" => what = Literal(k)
           /\ kinds[k] = "value" => \E i \in Range(live) : what = Value(i)
           /\ kinds[k] = "waiting" => \E v \in Range(waiting) : what = Variable(v)
<1>1. k \in DOMAIN kinds
  BY LenProperties
<1>2. PICK after : after = SubSeq(kinds, k + 1, Len(kinds))
  OBVIOUS
<1>3. what = CASE kinds[k] = "zero"    -> Zero
               [] kinds[k] = "literal" -> Literal(k)
               [] kinds[k] = "value"   -> Value(live[Len(live) - ValuesIn(after)])
               [] kinds[k] = "waiting" -> Variable(waiting[Len(waiting) - WaitingIn(after)])
  BY <1>1, <1>2, Zenon DEF Operands
<1>4. ASSUME kinds[k] = "value"
      PROVE  \E i \in Range(live) : what = Value(i)
  <2>1. ValuesIn(after) \in Nat /\ ValuesIn(kinds) \in Nat /\ ValuesIn(after) < ValuesIn(kinds)
    BY <1>2, <1>4, CountsAfter DEF ValuesIn
  <2>2. Len(live) \in Nat /\ DOMAIN live = 1 .. Len(live)
    BY LenProperties DEF LiveOrdered, Ordered
  <2>3. Len(live) - ValuesIn(after) \in DOMAIN live
    BY <2>1, <2>2
  <2>4. what = Value(live[Len(live) - ValuesIn(after)])
    BY <1>3, <1>4
  <2> QED
    BY <2>3, <2>4 DEF Range
<1>5. ASSUME kinds[k] = "waiting"
      PROVE  \E v \in Range(waiting) : what = Variable(v)
  <2>1. WaitingIn(after) \in Nat /\ WaitingIn(kinds) \in Nat
        /\ WaitingIn(after) < WaitingIn(kinds)
    BY <1>2, <1>5, CountsAfter DEF WaitingIn
  <2>2. Len(waiting) \in Nat /\ DOMAIN waiting = 1 .. Len(waiting)
    BY LenProperties DEF Stored
  <2>3. Len(waiting) - WaitingIn(after) \in DOMAIN waiting
    BY <2>1, <2>2
  <2>4. what = Variable(waiting[Len(waiting) - WaitingIn(after)])
    BY <1>3, <1>5
  <2> QED
    BY <2>3, <2>4 DEF Range
<1>6. (kinds[k] = "zero" => what = Zero) /\ (kinds[k] = "literal" => what = Literal(k))
  BY <1>3
<1> QED
  BY <1>4, <1>5, <1>6

-----------------------------------------------------------------------------
(* The state as a machine. *)

Inside == FramesFit /\ "spill_gap" \notin Admit /\ Kept /\ m_fn # None

\* What a machine keeps of the state while an instruction is carried out.
Carries(m) ==
    /\ IsMachine(m) /\ m.reg[X0] = Zero
    /\ m_bb.out_idx <= m.idx
    /\ Tame(m_fn, mem, m.mem)
    /\ \A i \in Nat : i < m_bb.out_idx =>
           Place(m_fn, m.reg, m.mem, i) = Place(m_fn, reg, mem, i)

LEMMA InsideIs ==
    ASSUME Inside
    PROVE  /\ Fits(m_fn) /\ m_fn.params <= MaxParams
           /\ m_bb.out_idx \in Nat /\ m_bb.reg_idx \in Nat /\ m_fn.vals \in Nat
           /\ m_bb.out_idx <= m_bb.reg_idx /\ m_bb.out_idx <= m_fn.vals
           /\ \A i \in Nat : i < m_bb.out_idx => Placed(i)
           /\ ready \cup StackParams(m_fn) \in SUBSET (0 .. m_fn.allocs - 1)
           /\ ready \in SUBSET (0 .. m_fn.allocs - 1)
<1>1. Fits(m_fn) /\ m_fn.params <= MaxParams
  BY FunctionFits DEF Inside, Kept
<1>2. /\ m_bb.out_idx \in Nat /\ m_bb.reg_idx \in Nat
      /\ m_bb.out_idx <= m_bb.reg_idx /\ m_bb.out_idx <= m_fn.vals
  BY DEF Inside, Kept, Counted
<1>3. /\ m_fn.params \in Nat /\ m_fn.allocs \in Nat /\ m_fn.params <= m_fn.allocs
      /\ m_fn.vals \in Nat /\ A_MAX \in Nat
  BY <1>1, RegisterEndIs DEF Fits
<1>4. \A i \in Nat : i < m_bb.out_idx => Placed(i)
  BY <1>2, <1>3 DEF Placed
<1>5. StackParams(m_fn) \subseteq 0 .. m_fn.allocs - 1
  BY <1>3 DEF StackParams
<1>6. ready \subseteq 0 .. m_fn.allocs - 1
  BY DEF Inside, Kept, Stored
<1> QED
  BY <1>1, <1>2, <1>3, <1>4, <1>5, <1>6

LEMMA MachineCarries ==
    ASSUME Inside, NEW m, m = Machine
    PROVE  /\ Carries(m) /\ Cursor(m) /\ m.queue = <<>> /\ m.idx = m_bb.reg_idx
           /\ m.reg = reg /\ m.mem = mem
<1>1. /\ m.reg = reg /\ m.mem = mem /\ m.idx = m_bb.reg_idx /\ m.queue = <<>>
      /\ m = [reg |-> m.reg, mem |-> m.mem, idx |-> m.idx, queue |-> m.queue]
  BY DEF Machine
<1>2. DOMAIN reg = Registers /\ reg[X0] = Zero
  BY DEF Inside, Kept, RegsHeld
<1>3. DOMAIN mem = Slots(m_fn)
  BY DEF Inside, Kept, MemHeld, MemRight
<1>4. IsMachine(m)
  BY <1>1, <1>2, <1>3, InsideIs DEF IsMachine
<1>5. Tame(m_fn, mem, m.mem)
  BY <1>1, <1>3 DEF Tame
<1>6. Len(m.queue) = 0
  BY <1>1, EmptySeq
<1>7. Cursor(m)
  BY <1>1, <1>4, <1>6, InsideIs DEF Cursor
<1>8. Carries(m)
  BY <1>1, <1>2, <1>4, <1>5, InsideIs DEF Carries
<1> QED
  BY <1>1, <1>7, <1>8

LEMMA CarriesMem ==
    ASSUME Inside, NEW m, Carries(m)
    PROVE  MemRight(m_fn, m.mem, ready \cup StackParams(m_fn))
<1>1. MemRight(m_fn, mem, ready \cup StackParams(m_fn))
  BY DEF Inside, Kept, MemHeld
<1>2. Tame(m_fn, mem, m.mem)
  BY DEF Carries
<1> QED
  BY <1>1, <1>2, InsideIs, TameKeeps, Zenon

LEMMA TameTrans ==
    ASSUME NEW fn, NEW a, NEW b, NEW c, Tame(fn, a, b), Tame(fn, b, c)
    PROVE  Tame(fn, a, c)
BY DEF Tame

LEMMA FetchCarries ==
    ASSUME Inside, NEW m, Carries(m), Cursor(m), NEW n, NEW r, Fetched(m, n, r)
    PROVE  Carries(n)
<1>1. /\ IsMachine(n) /\ n.mem = m.mem /\ n.idx \in {m.idx, m.idx + 1}
      /\ \A q \in Registers :
             /\ q # Scratch(Len(m.queue))
             /\ m.idx < RegisterEnd(m_fn) => q # ValueRegister(m_fn, m.idx)
             => n.reg[q] = m.reg[q]
  BY DEF Fetched
<1>2. m.idx \in Nat /\ m_bb.out_idx <= m.idx /\ Len(m.queue) \in {0, 1}
  BY DEF Cursor, IsMachine
<1>3. m_bb.out_idx <= n.idx
  BY <1>1, <1>2, InsideIs
<1>4. X0 # Scratch(Len(m.queue)) /\ X0 \in Registers
  BY <1>2, OtherRegisters
<1>5. n.reg[X0] = Zero
  BY <1>1, <1>2, <1>4, InsideIs, ValueRegistersApart DEF Carries
<1>6. ASSUME NEW i \in Nat, i < m_bb.out_idx
      PROVE  Place(m_fn, n.reg, n.mem, i) = Place(m_fn, m.reg, m.mem, i)
  <2>1. CASE i < RegisterEnd(m_fn)
    <3>1. PICK q : q = ValueRegister(m_fn, i)
      OBVIOUS
    <3>2. q \in Registers /\ q # Scratch(0) /\ q # Scratch(1)
      BY <2>1, <3>1, InsideIs, ValueRegistersApart
    <3>3. i # m.idx
      BY <1>2, <1>6, InsideIs
    <3>4. m.idx < RegisterEnd(m_fn) => q # ValueRegister(m_fn, m.idx)
      BY <1>2, <2>1, <3>1, <3>3, InsideIs, ValueRegistersApart
    <3>5. n.reg[q] = m.reg[q]
      BY <1>1, <1>2, <3>2, <3>4
    <3> QED
      BY <2>1, <3>1, <3>5 DEF Place
  <2>2. CASE ~ (i < RegisterEnd(m_fn))
    BY <1>1, <2>2 DEF Place
  <2> QED
    BY <2>1, <2>2
<1>7. \A i \in Nat : i < m_bb.out_idx =>
          Place(m_fn, n.reg, n.mem, i) = Place(m_fn, reg, mem, i)
  BY <1>6 DEF Carries
<1>8. Tame(m_fn, mem, n.mem)
  BY <1>1 DEF Carries
<1> QED
  BY <1>1, <1>3, <1>5, <1>7, <1>8 DEF Carries

\* What a call has saved, and what it passes on the stack, is below this slot.
CallEnd == saved_regs(m_fn) + spill_args(m_fn)

Again(m, n, what) ==
    /\ Carries(n) /\ n.idx = m.idx /\ n.queue = m.queue
    /\ \A s \in 0 .. CallEnd - 1 : n.mem[s] = m.mem[s]
    /\ \A r \in Registers : r # out(m_bb.out_idx) => n.reg[r] = m.reg[r]
    /\ what[1] # "variable" => n = m
    /\ \A v \in ready : what = Variable(v) =>
           Place(m_fn, n.reg, n.mem, m_bb.out_idx) = what

\* A value that has waited is generated in the place of the next one.
LEMMA RawCarries ==
    ASSUME Inside, NEW m, Carries(m), NEW what, what[1] = "variable" => Placed(m_bb.out_idx),
           NEW n, n = raw_value(m, what)
    PROVE  Again(m, n, what)
<1>1. CASE what[1] # "variable"
  <2>1. n = m
    BY <1>1 DEF raw_value
  <2>2. \A v \in ready : what # Variable(v)
    BY <1>1 DEF Variable
  <2> QED
    BY <2>1, <2>2, <1>1 DEF Again
<1>2. CASE what[1] = "variable"
  <2>1. PICK slot : slot = AllocSlot(m_fn, what[2])
    OBVIOUS
  <2>2. PICK found : found = m.mem[slot]
    OBVIOUS
  <2>3. n = Out(m, found)
    BY <1>2, <2>1, <2>2 DEF raw_value
  <2>4. Fits(m_fn) /\ IsMachine(m) /\ Placed(m_bb.out_idx)
    BY <1>2, InsideIs DEF Carries
  <2>5. /\ IsMachine(n) /\ n.idx = m.idx /\ n.queue = m.queue
        /\ Tame(m_fn, m.mem, n.mem)
        /\ \A s \in 0 .. saved_regs(m_fn) + spill_args(m_fn) - 1 : n.mem[s] = m.mem[s]
        /\ Place(m_fn, n.reg, n.mem, m_bb.out_idx) = found
        /\ \A r \in Registers : r # out(m_bb.out_idx) => n.reg[r] = m.reg[r]
        /\ \A i \in Nat : Placed(i) /\ i # m_bb.out_idx =>
               Place(m_fn, n.reg, n.mem, i) = Place(m_fn, m.reg, m.mem, i)
    BY <2>3, <2>4, OutWrites
  <2>6. out(m_bb.out_idx) # X0
    BY InsideIs, ValueRegistersApart, OtherRegisters DEF out
  <2>7. \A i \in Nat : i < m_bb.out_idx => Placed(i) /\ i # m_bb.out_idx
    BY InsideIs
  <2>8. \A i \in Nat : i < m_bb.out_idx =>
            Place(m_fn, n.reg, n.mem, i) = Place(m_fn, reg, mem, i)
    BY <2>5, <2>7 DEF Carries
  <2>9. Tame(m_fn, mem, n.mem)
    BY <2>5, TameTrans DEF Carries
  <2>10. Carries(n)
    <3>1. n.reg[X0] = Zero
      BY <2>5, <2>6, OtherRegisters DEF Carries
    <3>2. m_bb.out_idx <= n.idx
      BY <2>5 DEF Carries
    <3> QED
      BY <2>5, <2>8, <2>9, <3>1, <3>2 DEF Carries
  <2>11. ASSUME NEW v \in ready, what = Variable(v)
         PROVE  found = what
    <3>1. slot = AllocSlot(m_fn, v)
      BY <2>1, <2>11 DEF Variable
    <3>2. VarsIn(m_fn, m.mem, ready \cup StackParams(m_fn))
      BY CarriesMem DEF MemRight
    <3> QED
      BY <3>1, <3>2, <2>2, <2>11 DEF VarsIn
  <2> QED
    <3>0. CallEnd - 1 = saved_regs(m_fn) + spill_args(m_fn) - 1
      BY InsideIs, CountsFit DEF CallEnd
    <3>1. \A s \in 0 .. CallEnd - 1 : n.mem[s] = m.mem[s]
      BY <2>5, <3>0, Zenon
    <3> QED
      BY <2>5, <2>10, <2>11, <1>2, <3>1 DEF Again
<1> QED
  BY <1>1, <1>2

-----------------------------------------------------------------------------
(* The operands of an operator, a store, a branch or a return. *)

\* Nothing else is passed, so the second of two operands is a value if the first has
\* waited.
LEMMA WaitedIsFirst ==
    ASSUME NEW kinds \in Seq(Kinds), Len(kinds) <= 2, Waited(kinds),
           NEW k \in 1 .. Len(kinds), kinds[k] = "waiting"
    PROVE  Len(kinds) = 2 /\ k = 1 /\ kinds[2] = "value"
<1>1. PICK after : after = SubSeq(kinds, k + 1, Len(kinds))
  OBVIOUS
<1>2. /\ Len(kinds) \in Nat /\ DOMAIN kinds = 1 .. Len(kinds)
      /\ DOMAIN after = 1 .. Len(kinds) - k
      /\ \A j \in 1 .. Len(kinds) - k : after[j] = kinds[k + j]
  BY <1>1, AfterIs
<1>3. "value" \in Range(after)
  BY <1>1, <1>2 DEF Waited
<1>4. PICK j \in 1 .. Len(kinds) - k : after[j] = "value"
  BY <1>2, <1>3 DEF Range
<1>5. Len(kinds) = 2 /\ k = 1 /\ j = 1
  BY <1>2, <1>4
<1> QED
  BY <1>2, <1>4, <1>5

LEMMA OperandIsThere ==
    ASSUME Inside, NEW m, Carries(m), NEW what,
           \/ what = Zero
           \/ \E k \in Nat : what = Literal(k)
           \/ \E i \in Range(live) : what = Value(i)
    PROVE  Operand(what) /\ what[1] # "variable" /\ (LiveKept => Has(m, what))
<1>1. CASE what = Zero
  BY <1>1 DEF Operand, Zero, Has, Carries
<1>2. ASSUME NEW k \in Nat, what = Literal(k)
      PROVE  Operand(what) /\ Has(m, what) /\ what[1] # "variable"
  BY <1>2 DEF Operand, Literal, Has
<1>3. ASSUME NEW i \in Range(live), what = Value(i)
      PROVE  Operand(what) /\ what[1] # "variable" /\ (LiveKept => Has(m, what))
  <2>1. i \in Nat /\ i < m_bb.out_idx
    <3>1. live \in Seq(Nat) /\ \A k \in 1 .. Len(live) : live[k] < m_bb.out_idx
      BY DEF Inside, Kept, LiveOrdered, Ordered
    <3>2. DOMAIN live = 1 .. Len(live) /\ \A k \in 1 .. Len(live) : live[k] \in Nat
      BY <3>1, LenProperties, ElementOfSeq
    <3> QED
      BY <3>1, <3>2 DEF Range
  <2>2. Operand(what)
    BY <1>3, <2>1, InsideIs DEF Operand
  <2>3. what[1] = "value" /\ what[2] = i
    BY <1>3 DEF Value
  <2>4. LiveKept => Place(m_fn, reg, mem, i) = what
    BY <1>3 DEF LiveKept, Place
  <2>5. LiveKept => Has(m, what)
    BY <2>1, <2>3, <2>4 DEF Has, Carries
  <2> QED
    BY <2>2, <2>3, <2>5
<1> QED
  BY <1>1, <1>2, <1>3

LEMMA FetchOne ==
    ASSUME Inside, NEW m, Carries(m), Cursor(m), NEW what, Operand(what),
           NEW n, n = opnd(m, what)
    PROVE  \E r : Carries(n) /\ Fetched(m, n, r) /\ (Has(m, what) => n.reg[r] = what)
<1>1. PICK r : Fetched(m, n, r) /\ (Has(m, what) => n.reg[r] = what)
  BY OpndFetches
<1>2. Carries(n)
  BY <1>1, FetchCarries
<1> QED
  BY <1>1, <1>2

LEMMA AppendedAt ==
    ASSUME NEW S, NEW s \in Seq(S), NEW q \in S
    PROVE  /\ \A i \in 1 .. Len(s) : Append(s, q)[i] = s[i]
           /\ Append(s, q)[Len(s) + 1] = q
BY AppendProperties

\* The second fetch leaves the register of the first alone.
LEMMA FetchLasts ==
    ASSUME Inside, NEW m, Cursor(m), m.queue = <<>>, NEW n, NEW r, Fetched(m, n, r),
           NEW p, NEW q, Fetched(n, p, q)
    PROVE  p.reg[r] = n.reg[r] /\ p.queue[1] = r /\ p.queue[2] = q
<1>1. n.queue = <<r>> /\ Len(n.queue) = 1
  BY DEF Fetched
<1>2. /\ r \in Registers /\ n.idx \in Nat
      /\ r # Scratch(1)
      /\ n.idx < RegisterEnd(m_fn) => r # ValueRegister(m_fn, n.idx)
  <2>1. n.idx \in Nat /\ r \in Registers /\ Len(m.queue) = 0
    BY EmptySeq DEF Fetched, IsMachine
  <2>2. CASE r = X0 \/ r = Scratch(0)
    BY <2>1, <2>2, InsideIs, OtherRegisters, ValueRegistersApart
  <2>3. CASE \E i \in Nat : /\ i < n.idx /\ i < RegisterEnd(m_fn)
                            /\ r = ValueRegister(m_fn, i)
    <3>1. PICK i \in Nat : /\ i < n.idx /\ i < RegisterEnd(m_fn)
                           /\ r = ValueRegister(m_fn, i)
      BY <2>3
    <3>2. i # n.idx
      BY <3>1, <2>1
    <3> QED
      BY <3>1, <3>2, <2>1, InsideIs, ValueRegistersApart
  <2> QED
    BY <2>1, <2>2, <2>3 DEF Fetched
<1>3. p.reg[r] = n.reg[r]
  BY <1>1, <1>2 DEF Fetched
<1>4. p.queue = Append(n.queue, q)
  BY DEF Fetched
<1>5. ASSUME NEW s, s = <<r>>
      PROVE  Append(s, q)[1] = r /\ Append(s, q)[2] = q
  <2>0. PICK S : S = {r, q}
    OBVIOUS
  <2>1. s \in Seq(S) /\ Len(s) = 1 /\ s[1] = r /\ q \in S
    BY <1>5, <2>0
  <2>2. /\ \A i \in 1 .. Len(s) : Append(s, q)[i] = s[i]
        /\ Append(s, q)[Len(s) + 1] = q
    BY <2>1, AppendedAt
  <2>3. 1 \in 1 .. 1 /\ 1 + 1 = 2
    OBVIOUS
  <2> QED
    BY <2>1, <2>2, <2>3, Zenon
<1> QED
  BY <1>1, <1>3, <1>4, <1>5, Zenon

LEMMA CarriesCursor ==
    ASSUME Inside, NEW m, Carries(m), Len(m.queue) \in {0, 1}
    PROVE  Cursor(m)
BY InsideIs DEF Carries, Cursor

\* The operands asked for, one by one.
Plain(what) == \/ what = Zero
               \/ \E k \in Nat : what = Literal(k)
               \/ \E i \in Range(live) : what = Value(i)

LEMMA AskedAre ==
    ASSUME Inside, NEW kinds \in Seq(Kinds), At(kinds), NEW asked, asked = Operands(kinds)
    PROVE  /\ Len(kinds) \in Nat /\ DOMAIN asked = 1 .. Len(kinds)
           /\ \A k \in 1 .. Len(kinds) :
                  /\ kinds[k] # "waiting" => Plain(asked[k])
                  /\ kinds[k] = "waiting" => \E v \in ready : asked[k] = Variable(v)
                  /\ kinds[k] = "zero" => asked[k] = Zero
                  /\ kinds[k] = "value" => live # <<>>
<1>1. /\ LiveOrdered /\ Stored /\ live \in Seq(Nat) /\ Range(waiting) \subseteq ready
      /\ ValuesIn(kinds) <= Len(live) /\ WaitingIn(kinds) <= Len(waiting)
  BY DEF Inside, Kept, At, LiveOrdered, Ordered, Stored
<1>2. Len(kinds) \in Nat /\ DOMAIN kinds = 1 .. Len(kinds)
  BY LenProperties
<1>3. DOMAIN asked = 1 .. Len(kinds)
  BY <1>2 DEF Operands
<1>4. ASSUME NEW k \in 1 .. Len(kinds)
      PROVE  /\ kinds[k] # "waiting" => Plain(asked[k])
             /\ kinds[k] = "waiting" => \E v \in ready : asked[k] = Variable(v)
             /\ kinds[k] = "zero" => asked[k] = Zero
             /\ kinds[k] = "value" => live # <<>>
  <2>1. PICK what : what = asked[k]
    OBVIOUS
  <2>2. what = Operands(kinds)[k]
    BY <2>1
  <2>3. /\ kinds[k] = "zero" => what = Zero
        /\ kinds[k] = "literal" => what = Literal(k)
        /\ kinds[k] = "value" => \E i \in Range(live) : what = Value(i)
        /\ kinds[k] = "waiting" => \E v \in Range(waiting) : what = Variable(v)
    BY <1>1, <2>2, OperandsAre
  <2>4. kinds[k] \in Kinds /\ k \in Nat
    BY ElementOfSeq
  <2>5. (\E i \in Range(live) : what = Value(i)) => live # <<>>
    BY DEF Range
  <2> QED
    BY <1>1, <2>1, <2>3, <2>4, <2>5 DEF Plain, Kinds
<1> QED
  BY <1>2, <1>3, <1>4

\* After the values that have waited are there again.
Fresh(m, kinds, asked) ==
    /\ Carries(m) /\ m.queue = <<>> /\ m.idx = m_bb.reg_idx
    /\ "waiting" \in Range(kinds) =>
           /\ Len(kinds) = 2 /\ kinds[1] = "waiting" /\ kinds[2] = "value"
           /\ m_bb.reg_idx = m_bb.out_idx /\ Placed(m_bb.out_idx)
           /\ Place(m_fn, m.reg, m.mem, m_bb.out_idx) = asked[1]

LEMMA RawWaiting ==
    ASSUME Inside, NEW m, Carries(m), Placed(m_bb.out_idx),
           NEW v \in ready, NEW what, what = Variable(v), NEW n, n = raw_value(m, what)
    PROVE  /\ Carries(n) /\ n.idx = m.idx /\ n.queue = m.queue
           /\ Place(m_fn, n.reg, n.mem, m_bb.out_idx) = what
<1>1. what[1] = "variable" => Placed(m_bb.out_idx)
  OBVIOUS
<1>2. Again(m, n, what)
  BY <1>1, RawCarries
<1> QED
  BY <1>2 DEF Again

LEMMA RawAll ==
    ASSUME Inside, NEW kinds \in Seq(Kinds), At(kinds), Len(kinds) <= 2,
           "waiting" \in Range(kinds) => Placed(m_bb.out_idx),
           NEW asked, asked = Operands(kinds),
           NEW m, m = FoldLeft(raw_value, Machine, asked)
    PROVE  Fresh(m, kinds, asked)
<1>s. PICK s : s = Machine
  OBVIOUS
<1> PICK n : n = Len(kinds)
  OBVIOUS
<1>1. /\ n \in Nat /\ DOMAIN asked = 1 .. n /\ DOMAIN kinds = 1 .. n
      /\ \A k \in 1 .. n :
             /\ kinds[k] # "waiting" => Plain(asked[k])
             /\ kinds[k] = "waiting" => \E v \in ready : asked[k] = Variable(v)
             /\ kinds[k] = "value" => live # <<>>
  BY AskedAre, LenProperties
<1>2. Carries(s) /\ s.queue = <<>> /\ s.idx = m_bb.reg_idx
  BY <1>s, MachineCarries
<1>3. PICK a : FoldRun(a, "raw_value", asked, s, n) /\ m = a[n]
  BY <1>1, <1>s, RawValueFold
<1>4. a[0] = s /\ \A k \in 0 .. n - 1 : a[k + 1] = raw_value(a[k], asked[k + 1])
  BY <1>3 DEF FoldRun, FoldStep
<1>5. ASSUME NEW what, Plain(what)
      PROVE  what[1] # "variable"
  BY <1>2, <1>5, OperandIsThere DEF Plain
<1>6. \A k \in 1 .. n : kinds[k] # "waiting" => asked[k][1] # "variable"
  BY <1>1, <1>5
<1>7. CASE "waiting" \notin Range(kinds)
  <2>1. \A k \in 1 .. n : asked[k][1] # "variable"
    BY <1>1, <1>6, <1>7 DEF Range
  <2>2. \A k \in 0 .. n - 1 : k + 1 \in 1 .. n
    BY <1>1
  <2>3. \A k \in 0 .. n - 1 : a[k + 1] = a[k]
    BY <1>4, <2>1, <2>2 DEF raw_value
  <2>4. n = 0 \/ n = 1 \/ n = 2
    BY <1>1
  <2>5. n = 1 => a[0 + 1] = a[0]
    BY <2>3
  <2>6. n = 2 => a[0 + 1] = a[0] /\ a[1 + 1] = a[1]
    BY <2>3
  <2>7. m = s
    BY <1>3, <1>4, <2>4, <2>5, <2>6
  <2> QED
    BY <1>2, <1>7, <2>7 DEF Fresh
<1>8. CASE "waiting" \in Range(kinds)
  <2>1. PICK k \in 1 .. n : kinds[k] = "waiting"
    BY <1>1, <1>8 DEF Range
  <2>2. n = 2 /\ kinds[1] = "waiting" /\ kinds[2] = "value"
    BY <2>1, WaitedIsFirst DEF At
  <2>3. live # <<>> /\ m_bb.reg_idx = m_bb.out_idx
    BY <1>1, <2>2 DEF Inside, Kept, Counted
  <2>4. PICK v \in ready : asked[1] = Variable(v)
    BY <1>1, <2>2
  <2>5. a[1] = raw_value(s, asked[1]) /\ a[2] = raw_value(a[1], asked[2])
    <3>1. 0 \in 0 .. n - 1 /\ 0 + 1 = 1 /\ 1 \in 0 .. n - 1 /\ 1 + 1 = 2
      BY <2>2
    <3> QED
      BY <1>4, <3>1
  <2>6. asked[2][1] # "variable"
    BY <1>6, <2>2
  <2>7. m = a[1]
    BY <1>3, <2>2, <2>5, <2>6 DEF raw_value
  <2>8. PICK what : what = asked[1]
    OBVIOUS
  <2>p. PICK p : p = a[1]
    OBVIOUS
  <2>9. p = raw_value(s, what) /\ what = Variable(v)
    BY <2>4, <2>5, <2>8, <2>p
  <2>10. Placed(m_bb.out_idx)
    BY <1>8
  <2>11. /\ Carries(p) /\ p.idx = s.idx /\ p.queue = s.queue
         /\ Place(m_fn, p.reg, p.mem, m_bb.out_idx) = what
    BY <1>2, <2>9, <2>10, RawWaiting
  <2>12. Place(m_fn, m.reg, m.mem, m_bb.out_idx) = asked[1]
    BY <2>7, <2>8, <2>9, <2>11, <2>p
  <2> QED
    BY <1>2, <2>2, <2>3, <2>7, <2>10, <2>11, <2>12, <2>p DEF Fresh
<1> QED
  BY <1>7, <1>8

LEMMA OpndsCarry ==
    ASSUME Inside, NEW kinds \in Seq(Kinds), At(kinds), Len(kinds) <= 2,
           "waiting" \in Range(kinds) => Placed(m_bb.out_idx),
           NEW asked, asked = Operands(kinds), NEW m, m = opnds(asked)
    PROVE  Carries(m) /\ (LiveKept => \A pair \in Found(m, asked) : pair[1] = pair[2])
<1> PICK n : n = Len(kinds)
  OBVIOUS
<1>1. /\ n \in Nat /\ DOMAIN asked = 1 .. n /\ DOMAIN kinds = 1 .. n
      /\ \A k \in 1 .. n :
             /\ kinds[k] # "waiting" => Plain(asked[k])
             /\ kinds[k] = "waiting" => \E v \in ready : asked[k] = Variable(v)
  BY AskedAre, LenProperties
<1>2. PICK s : s = FoldLeft(raw_value, Machine, asked)
  OBVIOUS
<1>3. Fresh(s, kinds, asked)
  BY <1>2, RawAll
<1>4. PICK b : FoldRun(b, "opnd", asked, s, n) /\ m = b[n]
  <2>1. m = FoldLeft(opnd, s, asked)
    BY <1>2, Zenon DEF opnds
  <2> QED
    BY <1>1, <2>1, OpndFold
<1>5. b[0] = s /\ \A k \in 0 .. n - 1 : b[k + 1] = opnd(b[k], asked[k + 1])
  BY <1>4 DEF FoldRun, FoldStep
<1>6. Carries(s) /\ Cursor(s) /\ s.queue = <<>>
  BY <1>3, EmptySeq, CarriesCursor DEF Fresh
<1>7. ASSUME 1 <= n
      PROVE  Operand(asked[1]) /\ (LiveKept => Has(s, asked[1]))
  <2>1. 1 \in 1 .. n
    BY <1>1, <1>7
  <2>2. CASE kinds[1] # "waiting"
    BY <1>1, <1>6, <2>1, <2>2, OperandIsThere DEF Plain
  <2>3. CASE kinds[1] = "waiting"
    <3>1. PICK v \in ready : asked[1] = Variable(v)
      BY <1>1, <2>1, <2>3
    <3>2. v \in Nat
      BY InsideIs
    <3>3. Operand(asked[1])
      BY <3>1, <3>2 DEF Operand
    <3>4. "waiting" \in Range(kinds)
      BY <1>1, <2>1, <2>3 DEF Range
    <3>5. Has(s, asked[1])
      BY <1>3, <3>1, <3>4 DEF Has, Fresh, Variable
    <3> QED
      BY <3>3, <3>5
  <2> QED
    BY <2>2, <2>3
<1>8. ASSUME n = 2
      PROVE  Plain(asked[2])
  <2>1. 2 \in 1 .. n
    BY <1>8
  <2>2. kinds[2] # "waiting"
    BY <1>1, <1>3, <2>1 DEF Fresh, Range
  <2> QED
    BY <1>1, <2>1, <2>2
<1>9. CASE n = 0
  <2>1. m = s /\ DOMAIN asked = {}
    BY <1>1, <1>4, <1>5, <1>9
  <2> QED
    BY <1>6, <2>1 DEF Found
<1>10. CASE n = 1
  <2>1. m = opnd(s, asked[1])
    <3>1. 0 \in 0 .. n - 1 /\ 0 + 1 = 1
      BY <1>10
    <3> QED
      BY <1>4, <1>5, <1>10, <3>1
  <2>2. PICK r : Carries(m) /\ Fetched(s, m, r) /\ (Has(s, asked[1]) => m.reg[r] = asked[1])
    BY <1>6, <1>7, <1>10, <2>1, FetchOne
  <2>3. m.queue[1] = r
    BY <1>6, <2>2 DEF Fetched
  <2>4. DOMAIN asked = {1}
    BY <1>1, <1>10
  <2> QED
    BY <1>7, <1>10, <2>2, <2>3, <2>4 DEF Found
<1>11. CASE n = 2
  <2>1. PICK p : p = b[1]
    OBVIOUS
  <2>2. p = opnd(s, asked[1]) /\ m = opnd(p, asked[2])
    <3>1. 0 \in 0 .. n - 1 /\ 0 + 1 = 1 /\ 1 \in 0 .. n - 1 /\ 1 + 1 = 2
      BY <1>11
    <3> QED
      BY <1>4, <1>5, <1>11, <2>1, <3>1
  <2>3. PICK r : Carries(p) /\ Fetched(s, p, r) /\ (Has(s, asked[1]) => p.reg[r] = asked[1])
    BY <1>6, <1>7, <1>11, <2>2, FetchOne
  <2>4. p.queue = <<r>> /\ Len(p.queue) = 1
    BY <1>6, <2>3 DEF Fetched
  <2>5. Cursor(p)
    BY <2>3, <2>4, CarriesCursor
  <2>6. Operand(asked[2]) /\ (LiveKept => Has(p, asked[2]))
    BY <1>8, <1>11, <2>3, OperandIsThere DEF Plain
  <2>7. PICK q : Carries(m) /\ Fetched(p, m, q) /\ (Has(p, asked[2]) => m.reg[q] = asked[2])
    BY <2>2, <2>3, <2>5, <2>6, FetchOne
  <2>8. m.reg[r] = p.reg[r] /\ m.queue[1] = r /\ m.queue[2] = q
    BY <1>6, <2>3, <2>7, FetchLasts
  <2>9. DOMAIN asked = {1, 2}
    BY <1>1, <1>11
  <2> QED
    BY <1>7, <1>11, <2>3, <2>6, <2>7, <2>8, <2>9 DEF Found
<1> QED
  BY <1>1, <1>9, <1>10, <1>11

-----------------------------------------------------------------------------
(* The end of an instruction. *)

Settled(m, alive) ==
    /\ live' = alive /\ DOMAIN reg' = Registers /\ reg'[X0] = Zero
    /\ \A i \in Range(alive) :
           Placed(i) /\ Place(m_fn, m.reg, m.mem, i) = Value(i)
               => Place(m_fn, reg', mem', i) = Value(i)
    /\ \A r \in Registers, n \in Nat :
           m.reg[r] = Param(n) /\ n \notin ready => reg'[r] = Param(n)

LEMMA SettleIs ==
    ASSUME Inside, NEW m, IsMachine(m), m.reg[X0] = Zero, NEW alive, Settle(m, alive)
    PROVE  Settled(m, alive)
<1> DEFINE Kept0(cell) == \/ cell[1] \in {"variable", "zero", "ra", "caller"}
                          \/ cell[1] = "value" /\ cell[2] \in Range(alive)
                          \/ cell[1] = "param" /\ cell[2] \notin ready
<1>1. /\ live' = alive
      /\ reg' = [c \in DOMAIN m.reg |-> IF Kept0(m.reg[c]) THEN m.reg[c] ELSE Junk]
      /\ mem' = [c \in DOMAIN m.mem |-> IF Kept0(m.mem[c]) THEN m.mem[c] ELSE Junk]
  BY Zenon DEF Settle
<1>2. DOMAIN m.reg = Registers /\ DOMAIN m.mem = Slots(m_fn)
  BY DEF IsMachine
<1>3. /\ Kept0(Zero) /\ \A i \in Range(alive) : Kept0(Value(i))
      /\ \A n \in Nat : n \notin ready => Kept0(Param(n))
  BY DEF Zero, Value, Param
<1> HIDE DEF Kept0
<1>4. DOMAIN reg' = Registers /\ \A c \in Registers : Kept0(m.reg[c]) => reg'[c] = m.reg[c]
  BY <1>1, <1>2
<1>5. \A c \in Slots(m_fn) : Kept0(m.mem[c]) => mem'[c] = m.mem[c]
  BY <1>1, <1>2
<1>6. reg'[X0] = Zero
  BY <1>3, <1>4, OtherRegisters
<1>7. ASSUME NEW i \in Range(alive), Placed(i), Place(m_fn, m.reg, m.mem, i) = Value(i)
      PROVE  Place(m_fn, reg', mem', i) = Value(i)
  <2>1. CASE i < RegisterEnd(m_fn)
    <3>1. ValueRegister(m_fn, i) \in Registers
      BY <1>7, <2>1, InsideIs, ValueRegistersApart DEF Placed
    <3> QED
      BY <1>3, <1>4, <1>7, <2>1, <3>1 DEF Place
  <2>2. CASE ~ (i < RegisterEnd(m_fn))
    <3>1. OutSlot(m_fn, i) \in Slots(m_fn)
      <4>0. Fits(m_fn) /\ RegisterEnd(m_fn) \in Nat /\ m_fn.vals \in Nat
        BY InsideIs, RegisterEndIs
      <4>1. i \in RegisterEnd(m_fn) .. m_fn.vals - 1
        BY <1>7, <2>2, <4>0 DEF Placed
      <4>2. OutSlot(m_fn, i) \in 0 .. RaSlot(m_fn) - 1
        BY <4>0, <4>1, CallSlotsAreWorking
      <4> QED
        BY <4>0, <4>2, CountsFit, CodegenAssumption DEF Slots
    <3> QED
      BY <1>3, <1>5, <1>7, <2>2, <3>1 DEF Place
  <2> QED
    BY <2>1, <2>2
<1>8. ASSUME NEW r \in Registers, NEW n \in Nat, m.reg[r] = Param(n), n \notin ready
      PROVE  reg'[r] = Param(n)
  BY <1>3, <1>4, <1>8
<1> QED
  BY <1>1, <1>4, <1>6, <1>7, <1>8 DEF Settled

LEMMA SettleMem ==
    ASSUME Inside, NEW m, IsMachine(m), NEW alive, Settle(m, alive),
           NEW vs, vs \subseteq 0 .. m_fn.allocs - 1, MemRight(m_fn, m.mem, vs)
    PROVE  MemRight(m_fn, mem', vs)
<1> DEFINE Kept0(cell) == \/ cell[1] \in {"variable", "zero", "ra", "caller"}
                          \/ cell[1] = "value" /\ cell[2] \in Range(alive)
                          \/ cell[1] = "param" /\ cell[2] \notin ready
<1>1. mem' = [c \in DOMAIN m.mem |-> IF Kept0(m.mem[c]) THEN m.mem[c] ELSE Junk]
  BY Zenon DEF Settle
<1>2. DOMAIN m.mem = Slots(m_fn)
  BY DEF IsMachine
<1>3. Kept0(Ra) /\ Kept0(Caller) /\ \A n \in vs : Kept0(Variable(n))
  BY DEF Ra, Caller, Variable
<1> HIDE DEF Kept0
<1>4. DOMAIN mem' = Slots(m_fn) /\ \A c \in Slots(m_fn) : Kept0(m.mem[c]) => mem'[c] = m.mem[c]
  BY <1>1, <1>2
<1>5. \A n \in vs : AllocSlot(m_fn, n) \in Slots(m_fn)
  BY InsideIs, AllocSlotIsSlot
<1>6. VarsIn(m_fn, mem', vs)
  BY <1>3, <1>4, <1>5 DEF MemRight, VarsIn
<1>7. RaSlot(m_fn) \in Slots(m_fn)
  BY InsideIs, CountsFit, CodegenAssumption DEF Slots
<1>8. FrameIn(m_fn, mem')
  BY <1>3, <1>4, <1>7 DEF MemRight, FrameIn
<1> QED
  BY <1>4, <1>6, <1>8 DEF MemRight

\* The counters, lists and sets that go with the live values after a step.
Counts(alive) ==
    /\ m_bb' \in [reg_idx : Nat, out_idx : Nat]
    /\ m_bb'.out_idx <= m_bb'.reg_idx /\ m_bb'.out_idx <= m_fn.vals
    /\ alive # <<>> => m_bb'.reg_idx = m_bb'.out_idx
    /\ Ordered(alive, m_bb'.out_idx)
    /\ passed' \in Nat
    /\ waiting' \in Seq(Nat) /\ Range(waiting') \subseteq ready'
    /\ ready' \subseteq 0 .. m_fn.allocs - 1 /\ ready \subseteq ready'

Holds(m, alive) ==
    /\ IsMachine(m) /\ m.reg[X0] = Zero
    /\ MemRight(m_fn, m.mem, ready' \cup StackParams(m_fn))
    /\ "call_past_t" \notin Admit =>
           \A i \in Range(alive) : Place(m_fn, m.reg, m.mem, i) = Value(i)

LEMMA StepKeeps ==
    ASSUME Inside, ParamsTaken, m_fn' = m_fn, NEW m, NEW alive,
           Counts(alive), Holds(m, alive), Settle(m, alive)
    PROVE  Kept'
<1>1. Settled(m, alive)
  BY SettleIs DEF Holds
<1>2. ready' \cup StackParams(m_fn) \subseteq 0 .. m_fn.allocs - 1
  BY InsideIs DEF Counts
<1>3. MemRight(m_fn, mem', ready' \cup StackParams(m_fn))
  BY <1>2, SettleMem DEF Holds
<1>4. m_fn' # None /\ live' = alive
  BY <1>1 DEF Inside, Settled
<1>5. FnRight'
  BY DEF FnRight, Inside, Kept
<1>6. Counted'
  BY <1>4 DEF Counts, Counted
<1>7. LiveOrdered'
  BY <1>4 DEF Counts, LiveOrdered
<1>8. Stored'
  BY <1>4 DEF Counts, Stored
<1>9. RegsHeld'
  BY <1>1 DEF Settled, RegsHeld
<1>10. MemHeld'
  BY <1>3 DEF MemHeld
<1>11. ParamsHeld'
  <2>1. ASSUME NEW n \in 0 .. Least(m_fn.params, A_MAX) - 1
        PROVE  n \in ready'
    <3>1. m_fn.params \in Nat /\ A_MAX \in Nat
      BY InsideIs, RegisterEndIs
    <3>2. n \in 0 .. m_fn.params - 1
      BY <3>1 DEF Least
    <3> QED
      BY <3>2 DEF ParamsTaken, Counts
  <2> QED
    BY <2>1 DEF ParamsHeld
<1>12. LiveHeld'
  <2>1. ASSUME "call_past_t" \notin Admit, NEW i \in Range(alive)
        PROVE  Value(i) = IF i < RegisterEnd(m_fn) THEN reg'[ValueRegister(m_fn, i)]
                                                   ELSE mem'[OutSlot(m_fn, i)]
    <3>1. i \in Nat /\ i < m_bb'.out_idx
      <4>1. /\ alive \in Seq(Nat) /\ \A k \in 1 .. Len(alive) : alive[k] < m_bb'.out_idx
        BY DEF Counts, Ordered
      <4>2. DOMAIN alive = 1 .. Len(alive) /\ \A k \in 1 .. Len(alive) : alive[k] \in Nat
        BY <4>1, LenProperties, ElementOfSeq
      <4> QED
        BY <4>1, <4>2 DEF Range
    <3>2. Placed(i)
      BY <3>1, InsideIs DEF Counts, Placed
    <3>3. Place(m_fn, m.reg, m.mem, i) = Value(i)
      BY <2>1 DEF Holds
    <3>4. Place(m_fn, reg', mem', i) = Value(i)
      BY <1>1, <2>1, <3>2, <3>3 DEF Settled
    <3> QED
      BY <3>4 DEF Place
  <2> QED
    BY <1>4, <2>1 DEF LiveHeld, LiveKept
<1> QED
  BY <1>5, <1>6, <1>7, <1>8, <1>9, <1>10, <1>11, <1>12 DEF Kept

LEMMA CountIsNatural ==
    ASSUME NEW kinds \in Seq(Kinds), NEW kind
    PROVE  Count(kinds, kind) \in Nat
<1> DEFINE S == {k \in DOMAIN kinds : kinds[k] = kind}
<1>1. DOMAIN kinds = 1 .. Len(kinds) /\ Len(kinds) \in Nat
  BY LenProperties
<1>2. IsFiniteSet(DOMAIN kinds)
  BY <1>1, FS_Interval
<1>3. S \in SUBSET DOMAIN kinds
  OBVIOUS
<1>4. Cardinality(S) \in Nat
  <2> HIDE DEF S
  <2> QED  BY <1>2, <1>3, FS_Subset, FS_CardinalityType
<1> QED
  BY <1>4 DEF Count

Remain(rest, waits) ==
    /\ Ordered(rest, m_bb.out_idx) /\ Range(rest) \subseteq Range(live)
    /\ waits \in Seq(Nat) /\ Range(waits) \subseteq ready

LEMMA RestIs ==
    ASSUME Inside, NEW kinds \in Seq(Kinds), At(kinds)
    PROVE  Remain(Rest(kinds), RestWaiting(kinds))
<1>1. /\ Ordered(live, m_bb.out_idx) /\ live \in Seq(Nat)
      /\ waiting \in Seq(Nat) /\ Range(waiting) \subseteq ready
  BY DEF Inside, Kept, LiveOrdered, Ordered, Stored
<1>2. /\ ValuesIn(kinds) \in Nat /\ WaitingIn(kinds) \in Nat
      /\ Len(live) \in Nat /\ Len(waiting) \in Nat
  BY <1>1, CountIsNatural, LenProperties DEF ValuesIn, WaitingIn
<1>3. PICK n : n = Len(live) - ValuesIn(kinds)
  OBVIOUS
<1>4. PICK w : w = Len(waiting) - WaitingIn(kinds)
  OBVIOUS
<1>5. n \in Nat /\ n <= Len(live) /\ w \in Nat /\ w <= Len(waiting)
  BY <1>2, <1>3, <1>4 DEF At
<1>6. Rest(kinds) = SubSeq(live, 1, n) /\ RestWaiting(kinds) = SubSeq(waiting, 1, w)
  BY <1>3, <1>4 DEF Rest, RestWaiting
<1>7. Ordered(SubSeq(live, 1, n), m_bb.out_idx)
  BY <1>1, <1>5, OrderedPrefix
<1>8. Range(SubSeq(live, 1, n)) \subseteq Range(live)
  BY <1>1, <1>5, PrefixIs
<1>9. SubSeq(waiting, 1, w) \in Seq(Nat)
  BY <1>1, <1>5, PrefixIs
<1>10. Range(SubSeq(waiting, 1, w)) \subseteq Range(waiting)
  BY <1>1, <1>5, PrefixIs
<1> QED
  BY <1>1, <1>6, <1>7, <1>8, <1>9, <1>10 DEF Remain

LEMMA LiveIsPlaced ==
    ASSUME Inside, NEW i \in Range(live)
    PROVE  i \in Nat /\ i < m_bb.out_idx
<1>1. live \in Seq(Nat) /\ \A k \in 1 .. Len(live) : live[k] < m_bb.out_idx
  BY DEF Inside, Kept, LiveOrdered, Ordered
<1>2. DOMAIN live = 1 .. Len(live) /\ \A k \in 1 .. Len(live) : live[k] \in Nat
  BY <1>1, LenProperties, ElementOfSeq
<1> QED
  BY <1>1, <1>2 DEF Range

LEMMA CarriesHolds ==
    ASSUME Inside, ready' = ready, NEW m, Carries(m), NEW alive, Range(alive) \subseteq Range(live)
    PROVE  Holds(m, alive)
<1>1. MemRight(m_fn, m.mem, ready' \cup StackParams(m_fn))
  BY CarriesMem
<1>2. ASSUME "call_past_t" \notin Admit, NEW i \in Range(alive)
      PROVE  Place(m_fn, m.reg, m.mem, i) = Value(i)
  <2>1. i \in Range(live) /\ i \in Nat /\ i < m_bb.out_idx
    BY LiveIsPlaced
  <2>2. Place(m_fn, reg, mem, i) = Value(i)
    BY <1>2, <2>1 DEF Inside, Kept, LiveHeld, LiveKept, Place
  <2> QED
    BY <2>1, <2>2 DEF Carries
<1> QED
  BY <1>1, <1>2 DEF Holds, Carries

\* The value computed is in its place then, and the others still are.
LEMMA OperHolds ==
    ASSUME Inside, ready' = ready, NEW m, Carries(m), m_bb.out_idx < m_fn.vals,
           NEW rest \in Seq(Nat), Range(rest) \subseteq Range(live),
           NEW alive, alive = <<>> \/ alive = Append(rest, m_bb.out_idx),
           NEW n, n = oper(m)
    PROVE  Holds(n, alive)
<1>1. PICK i : i = m_bb.out_idx
  OBVIOUS
<1>2. n = Out(m, Value(i)) /\ Fits(m_fn) /\ IsMachine(m) /\ Placed(m_bb.out_idx)
  BY <1>1, InsideIs DEF oper, Carries, Placed
<1>3. /\ IsMachine(n) /\ n.idx = m.idx /\ n.queue = m.queue
      /\ Tame(m_fn, m.mem, n.mem)
      /\ \A s \in 0 .. saved_regs(m_fn) + spill_args(m_fn) - 1 : n.mem[s] = m.mem[s]
      /\ Place(m_fn, n.reg, n.mem, m_bb.out_idx) = Value(i)
      /\ \A r \in Registers : r # out(m_bb.out_idx) => n.reg[r] = m.reg[r]
      /\ \A k \in Nat : Placed(k) /\ k # m_bb.out_idx =>
             Place(m_fn, n.reg, n.mem, k) = Place(m_fn, m.reg, m.mem, k)
  BY <1>2, OutWrites
<1>4. out(m_bb.out_idx) # X0 /\ X0 \in Registers
  BY InsideIs, ValueRegistersApart, OtherRegisters DEF out
<1>5. n.reg[X0] = Zero
  BY <1>3, <1>4 DEF Carries
<1>6. MemRight(m_fn, n.mem, ready' \cup StackParams(m_fn))
  <2>1. MemRight(m_fn, m.mem, ready \cup StackParams(m_fn))
    BY CarriesMem
  <2>2. Tame(m_fn, m.mem, n.mem)
    BY <1>3
  <2> QED
    BY <2>1, <2>2, InsideIs, TameKeeps
<1>7. ASSUME "call_past_t" \notin Admit, NEW k \in Range(alive)
      PROVE  Place(m_fn, n.reg, n.mem, k) = Value(k)
  <2>1. CASE k = i
    BY <1>1, <1>3, <2>1
  <2>2. CASE k # i
    <3>1. Range(Append(rest, m_bb.out_idx)) = Range(rest) \cup {m_bb.out_idx}
      BY InsideIs, AppendIs
    <3>2. k \in Range(live)
      <4>1. CASE alive = <<>>
        <5>1. Range(alive) = {}
          BY <4>1 DEF Range
        <5> QED  BY <1>7, <5>1
      <4>2. CASE alive = Append(rest, m_bb.out_idx)
        <5>1. Range(alive) = Range(rest) \cup {m_bb.out_idx}
          BY <3>1, <4>2, Zenon
        <5> QED
          BY <1>1, <1>7, <2>2, <5>1
      <4> QED
        BY <4>1, <4>2
    <3>3. k \in Nat /\ k < m_bb.out_idx /\ Placed(k)
      BY <3>2, LiveIsPlaced, InsideIs
    <3>4. Place(m_fn, reg, mem, k) = Value(k)
      BY <1>7, <3>2 DEF Inside, Kept, LiveHeld, LiveKept, Place
    <3>5. Place(m_fn, m.reg, m.mem, k) = Value(k)
      BY <3>3, <3>4 DEF Carries
    <3> QED
      BY <1>1, <1>3, <2>2, <3>3, <3>5
  <2> QED
    BY <2>1, <2>2
<1> QED
  BY <1>3, <1>5, <1>6, <1>7 DEF Holds

LEMMA ComputesCounts ==
    ASSUME Inside, NEW rest, NEW waits, Remain(rest, waits), ready' = ready,
           m_bb.out_idx < m_fn.vals,
           m_bb' = [reg_idx |-> m_bb.out_idx + 1, out_idx |-> m_bb.out_idx + 1],
           passed' \in Nat, waiting' = waits
    PROVE  Counts(Append(rest, m_bb.out_idx)) /\ Counts(<<>>)
<1>1. m_bb.out_idx \in Nat /\ m_fn.vals \in Nat
  BY InsideIs
<1>2. m_bb'.out_idx = m_bb.out_idx + 1
  OBVIOUS
<1>3. Ordered(Append(rest, m_bb.out_idx), m_bb'.out_idx)
  BY <1>1, <1>2, OrderedAppend DEF Remain
<1>4. Ordered(<<>>, m_bb'.out_idx)
  BY EmptySeq DEF Ordered
<1>5. /\ m_bb' \in [reg_idx : Nat, out_idx : Nat]
      /\ m_bb'.out_idx <= m_bb'.reg_idx /\ m_bb'.out_idx <= m_fn.vals
      /\ m_bb'.reg_idx = m_bb'.out_idx
  BY <1>1
<1>6. /\ waiting' \in Seq(Nat) /\ Range(waiting') \subseteq ready'
      /\ ready' \subseteq 0 .. m_fn.allocs - 1 /\ ready \subseteq ready'
  BY InsideIs DEF Remain
<1> QED
  BY <1>3, <1>4, <1>5, <1>6 DEF Counts

-----------------------------------------------------------------------------
(* The actions. *)

Right == Admit = {} => OperandsRight

LEMMA LiveIsThere ==
    ASSUME Inside, Admit = {}
    PROVE  LiveKept
BY DEF Inside, Kept, LiveHeld

LEMMA ComputesStep ==
    ASSUME Inside, ParamsTaken, m_fn' = m_fn, ready' = ready, passed' \in Nat,
           NEW rest, Remain(rest, waiting'), NEW m, Carries(m), NEW n, n = oper(m),
           Computes(n, rest)
    PROVE  Kept'
<1>1. PICK alive : alive = Append(rest, m_bb.out_idx)
  OBVIOUS
<1>2. /\ m_bb.out_idx < m_fn.vals /\ Settle(n, alive)
      /\ m_bb' = [reg_idx |-> m_bb.out_idx + 1, out_idx |-> m_bb.out_idx + 1]
  BY <1>1 DEF Computes, Stepped
<1>3. PICK waits : waits = waiting'
  OBVIOUS
<1>4. Remain(rest, waits)
  BY <1>3
<1>5. Counts(alive)
  <2>1. Counts(Append(rest, m_bb.out_idx)) /\ Counts(<<>>)
    BY <1>2, <1>3, <1>4, ComputesCounts
  <2> QED
    BY <1>1, <2>1
<1>6. rest \in Seq(Nat) /\ Range(rest) \subseteq Range(live)
  BY <1>4 DEF Remain, Ordered
<1>7. Holds(n, alive)
  BY <1>1, <1>2, <1>6, OperHolds
<1> QED
  BY <1>2, <1>5, <1>7, StepKeeps

LEMMA VariableIsThere ==
    ASSUME Inside, NEW n \in ready
    PROVE  mem[AllocSlot(m_fn, n)] = Variable(n)
BY DEF Inside, Kept, MemHeld, MemRight, VarsIn

LEMMA LoadStep ==
    ASSUME Inside, NEW n, Load(n)
    PROVE  Kept' /\ Right'
<1>1. /\ ParamsTaken /\ m_fn' = m_fn /\ ready' = ready /\ passed' = passed
      /\ waiting' = waiting /\ n \in ready
      /\ took' = {<<Variable(n), mem[AllocSlot(m_fn, n)]>>}
      /\ Computes(oper(Machine), live)
  BY DEF Load, At
<1>2. PICK m : m = Machine
  OBVIOUS
<1>3. PICK p : p = oper(m)
  OBVIOUS
<1>4. Carries(m)
  BY <1>2, MachineCarries
<1>5. Remain(live, waiting')
  BY <1>1 DEF Inside, Kept, LiveOrdered, Stored, Remain
<1>6. passed' \in Nat
  BY <1>1 DEF Inside, Kept, Counted
<1>7. Computes(p, live)
  BY <1>1, <1>2, <1>3
<1>8. Kept'
  BY <1>1, <1>3, <1>4, <1>5, <1>6, <1>7, ComputesStep
<1>9. Right'
  BY <1>1, VariableIsThere DEF Right, OperandsRight
<1> QED
  BY <1>8, <1>9

LEMMA LoadEarlyStep ==
    ASSUME Inside, NEW n, LoadEarly(n)
    PROVE  Kept' /\ Right'
<1>1. /\ ParamsTaken /\ m_fn' = m_fn /\ ready' = ready /\ passed' = passed
      /\ waiting' = Append(waiting, n) /\ n \in ready
      /\ m_bb.out_idx < m_fn.vals
      /\ took' = {<<Variable(n), mem[AllocSlot(m_fn, n)]>>}
      /\ Settle(oper(Machine), <<>>)
      /\ m_bb' = [reg_idx |-> m_bb.out_idx + 1, out_idx |-> m_bb.out_idx + 1]
  BY DEF LoadEarly, At, Stepped
<1>2. PICK m : m = Machine
  OBVIOUS
<1>3. PICK p : p = oper(m)
  OBVIOUS
<1>4. PICK waits : waits = waiting'
  OBVIOUS
<1>5. Carries(m)
  BY <1>2, MachineCarries
<1>6. Remain(live, waits)
  <2>1. n \in Nat /\ waiting \in Seq(Nat) /\ Range(waiting) \subseteq ready
    BY <1>1, InsideIs DEF Inside, Kept, Stored
  <2>2. waits \in Seq(Nat) /\ Range(waits) = Range(waiting) \cup {n}
    BY <1>1, <1>4, <2>1, AppendIs
  <2> QED
    BY <1>1, <2>1, <2>2 DEF Inside, Kept, LiveOrdered, Remain
<1>7. passed' \in Nat
  BY <1>1 DEF Inside, Kept, Counted
<1>8. Counts(<<>>)
  BY <1>1, <1>4, <1>6, <1>7, ComputesCounts
<1>9. Holds(p, <<>>)
  <2>1. live \in Seq(Nat) /\ Range(live) \subseteq Range(live)
    BY <1>6 DEF Remain, Ordered
  <2> QED
    BY <1>1, <1>3, <1>5, <2>1, OperHolds
<1>10. Settle(p, <<>>)
  BY <1>1, <1>2, <1>3
<1>11. Kept'
  BY <1>1, <1>8, <1>9, <1>10, StepKeeps
<1>12. Right'
  BY <1>1, VariableIsThere DEF Right, OperandsRight
<1> QED
  BY <1>11, <1>12

LEMMA OperateStep ==
    ASSUME Inside, NEW kinds \in Seq(Kinds), Operate(kinds)
    PROVE  Kept' /\ Right'
<1>1. PICK asked : asked = Operands(kinds)
  OBVIOUS
<1>2. PICK m : m = opnds(asked)
  OBVIOUS
<1>3. PICK p : p = oper(m)
  OBVIOUS
<1>4. /\ At(kinds) /\ ParamsTaken /\ m_fn' = m_fn /\ ready' = ready /\ passed' = passed
      /\ waiting' = RestWaiting(kinds)
      /\ kinds = <<"literal">> \/ Len(kinds) = 2
      /\ took' = Found(m, asked) /\ Computes(p, Rest(kinds))
  BY <1>1, <1>2, <1>3, Zenon DEF Operate, At, Resume
<1>5. Len(kinds) <= 2
  <2>1. kinds = <<"literal">> \/ Len(kinds) = 2
    BY <1>4, Zenon
  <2> QED
    BY <2>1
<1>6. "waiting" \in Range(kinds) => Placed(m_bb.out_idx)
  BY <1>4, InsideIs DEF Computes, Placed
<1>7. Carries(m) /\ (LiveKept => \A pair \in Found(m, asked) : pair[1] = pair[2])
  BY <1>1, <1>2, <1>4, <1>5, <1>6, OpndsCarry
<1>8. Remain(Rest(kinds), waiting')
  BY <1>4, RestIs
<1>9. passed' \in Nat
  BY <1>4 DEF Inside, Kept, Counted
<1>10. PICK rest : rest = Rest(kinds)
  OBVIOUS
<1>11. Kept'
  BY <1>3, <1>4, <1>7, <1>8, <1>9, <1>10, ComputesStep
<1>12. Right'
  BY <1>4, <1>7, LiveIsThere DEF Right, OperandsRight
<1> QED
  BY <1>11, <1>12

LEMMA NoneWaits ==
    ASSUME NEW kinds \in Seq(Kinds), At(kinds), Len(kinds) <= 2,
           Len(kinds) <= 1 \/ kinds[2] # "value"
    PROVE  "waiting" \notin Range(kinds)
<1>1. DOMAIN kinds = 1 .. Len(kinds) /\ Len(kinds) \in Nat
  BY LenProperties
<1>2. ASSUME NEW k \in 1 .. Len(kinds), kinds[k] = "waiting"
      PROVE  FALSE
  <2>1. Len(kinds) = 2 /\ kinds[2] = "value"
    BY <1>2, WaitedIsFirst DEF At
  <2> QED  BY <2>1
<1> QED
  BY <1>1, <1>2 DEF Range

Stores(m, p, n, vs) ==
    /\ IsMachine(p) /\ p.reg = m.reg /\ p.idx = m.idx
    /\ MemRight(m_fn, p.mem, vs \cup {n})
    /\ \A i \in Nat : Placed(i) => Place(m_fn, p.reg, p.mem, i) = Place(m_fn, m.reg, m.mem, i)

LEMMA StoreWrites ==
    ASSUME Inside, NEW m, IsMachine(m), NEW vs, vs \subseteq 0 .. m_fn.allocs - 1,
           MemRight(m_fn, m.mem, vs), NEW n \in 0 .. m_fn.allocs - 1,
           NEW p, p = put(m, AllocSlot(m_fn, n), Variable(n))
    PROVE  Stores(m, p, n, vs)
<1>0. PICK slot : slot = AllocSlot(m_fn, n)
  OBVIOUS
<1>1. /\ slot \in Slots(m_fn) /\ slot \notin Working(m_fn) /\ slot # RaSlot(m_fn)
      /\ slot >= stack_size(m_fn) => n \in StackParams(m_fn) /\ slot = ParamSlot(m_fn, n)
  BY <1>0, InsideIs, AllocSlotIsSlot, VariablesAreNotWorking
<1>2. /\ IsMachine(p) /\ p.reg = m.reg /\ p.idx = m.idx /\ p.mem[slot] = Variable(n)
      /\ \A s \in Slots(m_fn) : s # slot => p.mem[s] = m.mem[s]
  BY <1>0, <1>1, PutIs
<1>3. VarsIn(m_fn, p.mem, vs \cup {n})
  <2>1. ASSUME NEW k \in vs, k # n
        PROVE  p.mem[AllocSlot(m_fn, k)] = Variable(k)
    <3>1. AllocSlot(m_fn, k) \in Slots(m_fn)
      BY InsideIs, AllocSlotIsSlot
    <3>2. AllocSlot(m_fn, k) # slot
      BY <1>0, <2>1, InsideIs, VariablesApart DEF Fits
    <3> QED
      BY <1>2, <3>1, <3>2 DEF MemRight, VarsIn
  <2> QED
    BY <1>0, <1>2, <2>1 DEF VarsIn
<1>4. FrameIn(m_fn, p.mem)
  <2>1. RaSlot(m_fn) \in Slots(m_fn)
    BY InsideIs, CountsFit, CodegenAssumption DEF Slots
  <2>2. FrameIn(m_fn, m.mem)
    BY DEF MemRight
  <2> QED
    BY <1>1, <1>2, <2>1, <2>2 DEF FrameIn
<1>5. ASSUME NEW i \in Nat, Placed(i)
      PROVE  Place(m_fn, p.reg, p.mem, i) = Place(m_fn, m.reg, m.mem, i)
  <2>1. CASE i < RegisterEnd(m_fn)
    BY <1>2, <2>1 DEF Place
  <2>2. CASE ~ (i < RegisterEnd(m_fn))
    <3>0. Fits(m_fn) /\ RegisterEnd(m_fn) \in Nat /\ m_fn.vals \in Nat
      BY InsideIs, RegisterEndIs
    <3>1. i \in RegisterEnd(m_fn) .. m_fn.vals - 1
      BY <1>5, <2>2, <3>0 DEF Placed
    <3>2. OutSlot(m_fn, i) \in Working(m_fn) /\ OutSlot(m_fn, i) \in 0 .. RaSlot(m_fn) - 1
      BY <3>0, <3>1, CallSlotsAreWorking
    <3>3. OutSlot(m_fn, i) \in Slots(m_fn) /\ OutSlot(m_fn, i) # slot
      BY <1>1, <3>0, <3>2, CountsFit, CodegenAssumption DEF Slots
    <3> QED
      BY <1>2, <2>2, <3>3 DEF Place
  <2> QED
    BY <2>1, <2>2
<1>6. MemRight(m_fn, p.mem, vs \cup {n})
  BY <1>2, <1>3, <1>4 DEF MemRight, IsMachine
<1> QED
  BY <1>2, <1>5, <1>6 DEF Stores

\* No value is live after a statement.
LEMMA EmptyCounts ==
    ASSUME Inside, m_bb' \in [reg_idx : Nat, out_idx : Nat],
           m_bb'.out_idx <= m_bb'.reg_idx, m_bb'.out_idx <= m_fn.vals, passed' \in Nat,
           waiting' \in Seq(Nat), Range(waiting') \subseteq ready,
           ready' \subseteq 0 .. m_fn.allocs - 1, ready \subseteq ready'
    PROVE  Counts(<<>>)
<1>1. PICK none : none = <<>>
  OBVIOUS
<1>2. none \in Seq(Nat) /\ Len(none) = 0 /\ 1 .. 0 = {}
  BY <1>1, EmptySeq
<1>3. Ordered(none, m_bb'.out_idx)
  BY <1>2 DEF Ordered
<1>4. Range(waiting') \subseteq ready'
  OBVIOUS
<1>5. Counts(none)
  BY <1>1, <1>3, <1>4 DEF Counts
<1> QED
  BY <1>1, <1>5

LEMMA StoreStep ==
    ASSUME Inside, NEW kinds \in Seq(Kinds), NEW n, Store(kinds, n)
    PROVE  Kept' /\ Right'
<1>1. PICK asked : asked = Operands(kinds)
  OBVIOUS
<1>2. PICK m : m = opnds(asked)
  OBVIOUS
<1>3. PICK p : p = put(m, AllocSlot(m_fn, n), Variable(n))
  OBVIOUS
<1>4. /\ At(kinds) /\ ParamsTaken /\ m_fn' = m_fn /\ ready' = ready \cup {n}
      /\ passed' = passed /\ waiting' = waiting
      /\ n \in 0 .. m_fn.allocs - 1 /\ Len(kinds) = 1
      /\ took' = Found(m, asked) /\ Settle(p, <<>>)
      /\ m_bb' = [m_bb EXCEPT !.reg_idx = m.idx]
  BY <1>1, <1>2, <1>3, Zenon DEF Store, At
<1>5. Len(kinds) <= 2 /\ "waiting" \notin Range(kinds)
  <2>1. At(kinds) /\ Len(kinds) = 1
    BY <1>4, Zenon
  <2>2. Len(kinds) <= 2 /\ Len(kinds) <= 1
    BY <2>1
  <2> QED
    BY <2>1, <2>2, NoneWaits
<1>6. Carries(m) /\ (LiveKept => \A pair \in Found(m, asked) : pair[1] = pair[2])
  BY <1>1, <1>2, <1>4, <1>5, OpndsCarry
<1>7. Stores(m, p, n, ready \cup StackParams(m_fn))
  <2>1. IsMachine(m) /\ MemRight(m_fn, m.mem, ready \cup StackParams(m_fn))
    BY <1>6, CarriesMem DEF Carries
  <2>2. ready \cup StackParams(m_fn) \subseteq 0 .. m_fn.allocs - 1
    BY InsideIs
  <2> QED
    BY <1>3, <1>4, <2>1, <2>2, StoreWrites
<1>8. m.idx \in Nat /\ m_bb.out_idx <= m.idx /\ m_bb \in [reg_idx : Nat, out_idx : Nat]
  BY <1>6 DEF Carries, IsMachine, Inside, Kept, Counted
<1>9. Counts(<<>>)
  <2>1. m_bb' \in [reg_idx : Nat, out_idx : Nat] /\ m_bb'.out_idx <= m_bb'.reg_idx
        /\ m_bb'.out_idx <= m_fn.vals
    BY <1>4, <1>8, InsideIs
  <2>2. /\ waiting' \in Seq(Nat) /\ Range(waiting') \subseteq ready /\ passed' \in Nat
        /\ ready' \subseteq 0 .. m_fn.allocs - 1 /\ ready \subseteq ready'
    BY <1>4, InsideIs DEF Inside, Kept, Stored, Counted
  <2> QED
    BY <2>1, <2>2, EmptyCounts
<1>10. Holds(p, <<>>)
  <2>1. ready' \cup StackParams(m_fn) = (ready \cup StackParams(m_fn)) \cup {n}
    BY <1>4
  <2>2. Range(<<>>) = {}
    BY DEF Range
  <2>3. MemRight(m_fn, p.mem, ready' \cup StackParams(m_fn))
    BY <1>7, <2>1 DEF Stores
  <2> QED
    BY <1>6, <1>7, <2>2, <2>3 DEF Holds, Carries, Stores
<1>11. Kept'
  BY <1>4, <1>9, <1>10, StepKeeps
<1>12. Right'
  BY <1>4, <1>6, LiveIsThere DEF Right, OperandsRight
<1> QED
  BY <1>11, <1>12

LEMMA EmptyHolds ==
    ASSUME Inside, ready' = ready, NEW m, Carries(m)
    PROVE  Holds(m, <<>>)
<1>1. PICK none : none = <<>>
  OBVIOUS
<1>2. Range(none) \subseteq Range(live)
  BY <1>1 DEF Range
<1>3. Holds(m, none)
  BY <1>2, CarriesHolds
<1> QED
  BY <1>1, <1>3

LEMMA StoreGlobalStep ==
    ASSUME Inside, NEW kinds \in Seq(Kinds), StoreGlobal(kinds)
    PROVE  Kept' /\ Right'
<1>1. PICK asked : asked = Operands(kinds)
  OBVIOUS
<1>2. PICK m : m = opnds(asked)
  OBVIOUS
<1>4. /\ At(kinds) /\ ParamsTaken /\ m_fn' = m_fn /\ ready' = ready
      /\ passed' = passed /\ waiting' = waiting
      /\ Len(kinds) = 2 /\ kinds[2] = "literal"
      /\ took' = Found(m, asked) /\ Settle(m, <<>>)
      /\ m_bb' = [m_bb EXCEPT !.reg_idx = m.idx]
  BY <1>1, <1>2, Zenon DEF StoreGlobal, At
<1>5. Len(kinds) <= 2 /\ "waiting" \notin Range(kinds)
  <2>1. At(kinds) /\ Len(kinds) = 2 /\ kinds[2] = "literal"
    BY <1>4, Zenon
  <2>2. Len(kinds) <= 2 /\ kinds[2] # "value"
    BY <2>1
  <2> QED
    BY <2>1, <2>2, NoneWaits
<1>6. Carries(m) /\ (LiveKept => \A pair \in Found(m, asked) : pair[1] = pair[2])
  BY <1>1, <1>2, <1>4, <1>5, OpndsCarry
<1>8. m.idx \in Nat /\ m_bb.out_idx <= m.idx /\ m_bb \in [reg_idx : Nat, out_idx : Nat]
  BY <1>6 DEF Carries, IsMachine, Inside, Kept, Counted
<1>9. Counts(<<>>)
  <2>1. m_bb' \in [reg_idx : Nat, out_idx : Nat] /\ m_bb'.out_idx <= m_bb'.reg_idx
        /\ m_bb'.out_idx <= m_fn.vals
    BY <1>4, <1>8, InsideIs
  <2>2. /\ waiting' \in Seq(Nat) /\ Range(waiting') \subseteq ready /\ passed' \in Nat
        /\ ready' \subseteq 0 .. m_fn.allocs - 1 /\ ready \subseteq ready'
    BY <1>4, InsideIs DEF Inside, Kept, Stored, Counted
  <2> QED
    BY <2>1, <2>2, EmptyCounts
<1>10. Holds(m, <<>>)
  BY <1>4, <1>6, EmptyHolds
<1>11. Kept'
  BY <1>4, <1>9, <1>10, StepKeeps
<1>12. Right'
  BY <1>4, <1>6, LiveIsThere DEF Right, OperandsRight
<1> QED
  BY <1>11, <1>12

LEMMA BranchStep ==
    ASSUME Inside, NEW kinds \in Seq(Kinds), Branch(kinds)
    PROVE  Kept' /\ Right'
<1>1. PICK asked : asked = Operands(kinds)
  OBVIOUS
<1>2. PICK m : m = opnds(asked)
  OBVIOUS
<1>4. /\ At(kinds) /\ ParamsTaken /\ m_fn' = m_fn /\ ready' = ready
      /\ passed' = 0 /\ waiting' = waiting /\ Len(kinds) <= 1
      /\ took' = Found(m, asked) /\ Settle(m, <<>>)
      /\ m_bb' = [reg_idx |-> 0, out_idx |-> 0]
  BY <1>1, <1>2, Zenon DEF Branch, At, EmptyBlock
<1>5. Len(kinds) <= 2 /\ "waiting" \notin Range(kinds)
  <2>1. At(kinds) /\ Len(kinds) <= 1
    BY <1>4, Zenon
  <2>2. Len(kinds) <= 2
    BY <2>1, LenProperties
  <2> QED
    BY <2>1, <2>2, NoneWaits
<1>6. Carries(m) /\ (LiveKept => \A pair \in Found(m, asked) : pair[1] = pair[2])
  BY <1>1, <1>2, <1>4, <1>5, OpndsCarry
<1>9. Counts(<<>>)
  <2>1. m_bb' \in [reg_idx : Nat, out_idx : Nat] /\ m_bb'.out_idx <= m_bb'.reg_idx
        /\ m_bb'.out_idx <= m_fn.vals
    BY <1>4, InsideIs
  <2>2. /\ waiting' \in Seq(Nat) /\ Range(waiting') \subseteq ready /\ passed' \in Nat
        /\ ready' \subseteq 0 .. m_fn.allocs - 1 /\ ready \subseteq ready'
    BY <1>4, InsideIs DEF Inside, Kept, Stored, Counted
  <2> QED
    BY <2>1, <2>2, EmptyCounts
<1>10. Holds(m, <<>>)
  BY <1>4, <1>6, EmptyHolds
<1>11. Kept'
  BY <1>4, <1>9, <1>10, StepKeeps
<1>12. Right'
  BY <1>4, <1>6, LiveIsThere DEF Right, OperandsRight
<1> QED
  BY <1>11, <1>12

LEMMA DiscardStep ==
    ASSUME Inside, Discard
    PROVE  Kept' /\ Right'
<1>2. PICK m : m = Machine
  OBVIOUS
<1>4. /\ ParamsTaken /\ m_fn' = m_fn /\ ready' = ready /\ m_bb' = m_bb
      /\ passed' = passed /\ waiting' = waiting
      /\ took' = {} /\ Settle(m, <<>>)
  BY <1>2, Zenon DEF Discard, At
<1>6. Carries(m)
  BY <1>2, MachineCarries
<1>9. Counts(<<>>)
  <2>1. m_bb' \in [reg_idx : Nat, out_idx : Nat] /\ m_bb'.out_idx <= m_bb'.reg_idx
        /\ m_bb'.out_idx <= m_fn.vals
    BY <1>4, InsideIs DEF Inside, Kept, Counted
  <2>2. /\ waiting' \in Seq(Nat) /\ Range(waiting') \subseteq ready /\ passed' \in Nat
        /\ ready' \subseteq 0 .. m_fn.allocs - 1 /\ ready \subseteq ready'
    BY <1>4, InsideIs DEF Inside, Kept, Stored, Counted
  <2> QED
    BY <2>1, <2>2, EmptyCounts
<1>10. Holds(m, <<>>)
  BY <1>4, <1>6, EmptyHolds
<1>11. Kept'
  BY <1>4, <1>9, <1>10, StepKeeps
<1>12. Right'
  BY <1>4 DEF Right, OperandsRight
<1> QED
  BY <1>11, <1>12

LEMMA IdleRegisters ==
    DOMAIN [r \in Registers |-> Idle(r)] = Registers /\ [r \in Registers |-> Idle(r)][X0] = Zero
BY OtherRegisters DEF Idle

\* Outside of functions there is nothing to be kept.
Outside == /\ m_fn = None /\ m_bb = EmptyBlock /\ passed = 0 /\ live = <<>>
           /\ waiting = <<>> /\ ready = {} /\ reg = [r \in Registers |-> Idle(r)]

LEMMA NothingKept == Outside => Kept
<1> SUFFICES ASSUME Outside PROVE Kept
  OBVIOUS
<1> USE DEF Outside
<1>1. live \in Seq(Nat) /\ waiting \in Seq(Nat) /\ Len(live) = 0
  BY EmptySeq
<1>2. LiveOrdered
  BY <1>1 DEF LiveOrdered, Ordered
<1>3. Range(waiting) = {} /\ Range(live) = {}
  BY DEF Range
<1>4. LiveHeld
  BY <1>3 DEF LiveHeld, LiveKept
<1>5. RegsHeld
  BY IdleRegisters DEF RegsHeld
<1>6. Stored
  BY <1>1, <1>3 DEF Stored
<1>7. Counted
  BY DEF Counted, EmptyBlock
<1> QED
  BY <1>2, <1>4, <1>5, <1>6, <1>7 DEF Kept, FnRight, MemHeld, ParamsHeld

LEMMA ReturnStep ==
    ASSUME Inside, NEW kinds \in Seq(Kinds), Return(kinds)
    PROVE  Kept' /\ Right'
<1>1. PICK asked : asked = Operands(kinds)
  OBVIOUS
<1>2. PICK m : m = opnds(asked)
  OBVIOUS
<1>4. /\ At(kinds) /\ Len(kinds) <= 1
      /\ took' = Found(m, asked) \cup {<<Ra, m.mem[RaSlot(m_fn)]>>}
  BY <1>1, <1>2, Zenon DEF Return
<1>5. Len(kinds) <= 2 /\ "waiting" \notin Range(kinds)
  <2>1. At(kinds) /\ Len(kinds) <= 1
    BY <1>4, Zenon
  <2>2. Len(kinds) <= 2
    BY <2>1, LenProperties
  <2> QED
    BY <2>1, <2>2, NoneWaits
<1>6. Carries(m) /\ (LiveKept => \A pair \in Found(m, asked) : pair[1] = pair[2])
  BY <1>1, <1>2, <1>4, <1>5, OpndsCarry
<1>7. m.mem[RaSlot(m_fn)] = Ra
  BY <1>6, CarriesMem DEF MemRight, FrameIn
<1>8. Right'
  BY <1>4, <1>6, <1>7, LiveIsThere DEF Right, OperandsRight
<1>9. Outside'
  BY Zenon DEF Return, Outside
<1>10. Kept'
  BY <1>9, NothingKept, PTL
<1> QED
  BY <1>8, <1>10

LEMMA EnterMem ==
    ASSUME NEW fn, Fits(fn), fn.params <= MaxParams, NEW slots,
           slots = [s \in Slots(fn) |->
                      CASE s = RaSlot(fn) -> Ra
                        [] s < RaSlot(fn) -> Junk
                        [] OTHER -> IF \E n \in A_MAX .. fn.params - 1 : s = ParamSlot(fn, n)
                                    THEN Variable(s - ParamSlot(fn, 0)) ELSE Caller]
    PROVE  MemRight(fn, slots, StackParams(fn))
<1>1. /\ RaSlot(fn) \in Nat /\ stack_size(fn) \in Nat /\ RaSlot(fn) = stack_size(fn) - 1
      /\ A_MAX \in Nat /\ fn.params \in Nat /\ MaxParams \in Nat
  BY CountsFit, RegisterEndIs, CodegenAssumption
<1>2. RaSlot(fn) \in Slots(fn)
  BY <1>1 DEF Slots
<1>3. VarsIn(fn, slots, StackParams(fn))
  <2>1. ASSUME NEW n \in StackParams(fn)
        PROVE  slots[AllocSlot(fn, n)] = Variable(n)
    <3>1. PICK s : s = stack_size(fn) + n - A_MAX
      OBVIOUS
    <3>2. n \in A_MAX .. fn.params - 1 /\ n \in Nat
      BY <1>1 DEF StackParams
    <3>3. AllocSlot(fn, n) = s /\ s = ParamSlot(fn, n)
      BY <3>1, <3>2 DEF AllocSlot, ParamSlot
    <3>4. s - ParamSlot(fn, 0) = n
      BY <1>1, <3>1, <3>2 DEF ParamSlot
    <3>5. s \in Slots(fn) /\ s # RaSlot(fn) /\ ~ (s < RaSlot(fn))
      BY <1>1, <3>1, <3>2 DEF Slots
    <3>6. \E k \in A_MAX .. fn.params - 1 : s = ParamSlot(fn, k)
      BY <3>2, <3>3
    <3> QED
      BY <3>3, <3>4, <3>5, <3>6
  <2> QED
    BY <2>1 DEF VarsIn
<1>4. slots[RaSlot(fn)] = Ra
  <2>1. ~ (RaSlot(fn) < RaSlot(fn))
    BY <1>1
  <2> QED
    BY <1>2, <2>1
<1>5. ASSUME NEW s \in Slots(fn), s >= stack_size(fn)
      PROVE  slots[s] = Caller \/ \E n \in StackParams(fn) : s = ParamSlot(fn, n)
  <2>1. s # RaSlot(fn) /\ ~ (s < RaSlot(fn))
    BY <1>1, <1>5 DEF Slots
  <2> QED
    BY <2>1 DEF StackParams
<1>6. DOMAIN slots = Slots(fn)
  OBVIOUS
<1>7. FrameIn(fn, slots)
  BY <1>4, <1>5 DEF FrameIn
<1> QED
  BY <1>3, <1>6, <1>7 DEF MemRight

LEMMA EnterStep ==
    ASSUME FramesFit, "spill_gap" \notin Admit, Kept, NEW fn \in Functions, Enter(fn)
    PROVE  Kept' /\ Right'
<1>1. /\ m_fn = None /\ fn.params <= fn.allocs /\ Supported(fn) /\ m_fn' = fn /\ took' = {}
      /\ m_bb' = m_bb /\ passed' = passed /\ live' = live /\ waiting' = waiting
      /\ ready' = ready
  BY DEF Enter
<1>2. fn # None /\ fn \in Function
  BY CodegenAssumption DEF Functions, Function, MaxAllocs
<1>3. FnRight'
  BY <1>1 DEF FnRight
<1>4. Fits(fn) /\ fn.params <= MaxParams
  <2>1. fn.params <= MaxParams
    BY CodegenAssumption DEF Functions
  <2> QED
    BY <1>1, <1>2, <2>1 DEF FramesFit, Fits, Supported, NoGap
<1>5. ready' = {} /\ live' = <<>> /\ Range(live') = {}
  BY <1>1 DEF Kept, Stored, Range
<1>6. Counted'
  <2>1. m_fn' # None
    BY <1>1, <1>2
  <2>2. /\ m_bb' \in [reg_idx : Nat, out_idx : Nat] /\ m_bb'.out_idx <= m_bb'.reg_idx
        /\ m_bb'.out_idx = 0 /\ passed' \in Nat
    BY <1>1 DEF Kept, Counted
  <2>3. 0 <= fn.vals
    BY <1>2 DEF Function
  <2> QED
    BY <1>1, <1>5, <2>1, <2>2, <2>3 DEF Counted
<1>7. LiveOrdered'
  BY <1>1 DEF Kept, LiveOrdered
<1>8. Stored'
  <2>1. m_fn' # None
    BY <1>1, <1>2
  <2>2. waiting' \in Seq(Nat) /\ Range(waiting') \subseteq ready'
    BY <1>1 DEF Kept, Stored
  <2> QED
    BY <1>5, <2>1, <2>2 DEF Stored
<1>9. MemHeld'
  <2>1. PICK slots : slots = mem'
    OBVIOUS
  <2>2. slots = [s \in Slots(fn) |->
                   CASE s = RaSlot(fn) -> Ra
                     [] s < RaSlot(fn) -> Junk
                     [] OTHER -> IF \E n \in A_MAX .. fn.params - 1 : s = ParamSlot(fn, n)
                                 THEN Variable(s - ParamSlot(fn, 0)) ELSE Caller]
    BY <2>1, Zenon DEF Enter
  <2>3. MemRight(fn, slots, StackParams(fn))
    BY <1>4, <2>2, EnterMem, Zenon
  <2>4. ready' \cup StackParams(fn) = StackParams(fn)
    BY <1>5
  <2> QED
    BY <1>1, <2>1, <2>3, <2>4 DEF MemHeld
<1>10. reg' = [r \in Registers |->
                  IF \E n \in 0 .. Least(fn.params, A_MAX) - 1 : r = A(n)
                  THEN Param(r[2]) ELSE Idle(r)]
  BY DEF Enter
<1>11. ASSUME NEW n \in 0 .. Least(fn.params, A_MAX) - 1
       PROVE  n \in Nat /\ A(n) \in Registers /\ A(n) # X0 /\ A(n)[2] = n
  <2>1. fn.params \in Nat /\ A_MAX \in Nat
    BY <1>4, RegisterEndIs
  <2>2. n \in Nat /\ n < A_MAX
    BY <2>1 DEF Least
  <2> QED
    BY <2>2, OtherRegisters DEF A
<1>12. RegsHeld'
  <2>1. ~ \E n \in 0 .. Least(fn.params, A_MAX) - 1 : X0 = A(n)
    BY <1>11
  <2>2. reg'[X0] = Idle(X0) /\ DOMAIN reg' = Registers
    BY <1>10, <2>1, OtherRegisters
  <2> QED
    BY <2>2 DEF RegsHeld, Idle
<1>13. ParamsHeld'
  <2>1. ASSUME NEW n \in 0 .. Least(fn.params, A_MAX) - 1
        PROVE  reg'[A(n)] = Param(n)
    BY <1>10, <1>11
  <2> QED
    BY <1>1, <2>1 DEF ParamsHeld
<1>14. LiveHeld'
  BY <1>5 DEF LiveHeld, LiveKept
<1>15. Right'
  BY <1>1 DEF Right, OperandsRight
<1> QED
  BY <1>3, <1>6, <1>7, <1>8, <1>9, <1>12, <1>13, <1>14, <1>15 DEF Kept

LEMMA TakeParamStep ==
    ASSUME Inside, NEW n, TakeParam(n)
    PROVE  Kept' /\ Right'
<1>1. /\ m_fn' = m_fn /\ m_bb' = m_bb /\ passed' = passed /\ waiting' = waiting
      /\ n \in 0 .. m_fn.params - 1 /\ ready = 0 .. n - 1 /\ ready' = ready \cup {n}
      /\ m_fn # None
  BY DEF TakeParam
<1>2. /\ Fits(m_fn) /\ m_fn.params \in Nat /\ m_fn.allocs \in Nat
      /\ m_fn.params <= m_fn.allocs /\ A_MAX \in Nat
  BY InsideIs, RegisterEndIs DEF Fits
<1>3. n \in 0 .. m_fn.allocs - 1 /\ n \in Nat /\ n \notin ready
  BY <1>1, <1>2
<1>4. live' = live
  BY DEF TakeParam, Settle
<1>5. FnRight' /\ Counted' /\ LiveOrdered'
  BY <1>1, <1>4 DEF Inside, Kept, FnRight, Counted, LiveOrdered
<1>6. Stored'
  <2>1. /\ waiting \in Seq(Nat) /\ Range(waiting) \subseteq ready
        /\ ready \subseteq 0 .. m_fn.allocs - 1
    BY <1>1 DEF Inside, Kept, Stored
  <2> QED
    BY <1>1, <1>3, <2>1 DEF Stored
<1>7. CASE n < A_MAX
  <2>1. PICK m : m = Machine
    OBVIOUS
  <2>2. PICK p : p = put(m, HomeSlot(n), Variable(n))
    OBVIOUS
  <2>3. took' = {<<Param(n), reg[A(n)]>>} /\ Settle(p, live)
    BY <1>7, <2>1, <2>2, Zenon DEF TakeParam
  <2>4. Carries(m) /\ m.reg = reg /\ m.mem = mem
    BY <2>1, MachineCarries
  <2>5. HomeSlot(n) = AllocSlot(m_fn, n)
    BY <1>1, <1>2, <1>7 DEF HomeSlot, AllocSlot
  <2>6. Stores(m, p, n, ready \cup StackParams(m_fn))
    <3>1. IsMachine(m) /\ MemRight(m_fn, m.mem, ready \cup StackParams(m_fn))
      BY <2>4, CarriesMem DEF Carries
    <3>2. ready \cup StackParams(m_fn) \subseteq 0 .. m_fn.allocs - 1
      BY InsideIs
    <3>3. p = put(m, AllocSlot(m_fn, n), Variable(n))
      BY <2>2, <2>5
    <3> QED
      BY <1>3, <3>1, <3>2, <3>3, StoreWrites
  <2>7. IsMachine(p) /\ p.reg = reg /\ p.reg[X0] = Zero
    BY <2>4, <2>6 DEF Stores, Carries
  <2>8. Settled(p, live)
    BY <2>3, <2>7, SettleIs
  <2>9. RegsHeld'
    BY <2>8 DEF Settled, RegsHeld
  <2>10. MemHeld'
    <3>1. PICK vs : vs = ready' \cup StackParams(m_fn)
      OBVIOUS
    <3>2. vs = (ready \cup StackParams(m_fn)) \cup {n}
      BY <1>1, <3>1
    <3>3. vs \subseteq 0 .. m_fn.allocs - 1 /\ MemRight(m_fn, p.mem, vs)
      BY <1>3, <2>6, <3>2, InsideIs DEF Stores
    <3>4. MemRight(m_fn, mem', vs)
      BY <2>3, <2>7, <3>3, SettleMem
    <3> QED
      BY <1>1, <3>1, <3>4 DEF MemHeld
  <2>11. \A k \in 0 .. Least(m_fn.params, A_MAX) - 1 :
             k \in Nat /\ k < A_MAX /\ A(k) \in Registers
    BY <1>2, OtherRegisters DEF Least
  <2>12. \A k \in 0 .. Least(m_fn.params, A_MAX) - 1 : k \notin ready => reg[A(k)] = Param(k)
    BY <1>1 DEF Inside, Kept, ParamsHeld
  <2>13. ParamsHeld'
    <3>1. ASSUME NEW k \in 0 .. Least(m_fn.params, A_MAX) - 1, k \notin ready'
          PROVE  reg'[A(k)] = Param(k)
      <4>1. k \notin ready /\ p.reg[A(k)] = Param(k)
        BY <1>1, <2>7, <2>12, <3>1
      <4> QED
        BY <2>8, <2>11, <4>1 DEF Settled
    <3> QED
      BY <1>1, <3>1 DEF ParamsHeld
  <2>14. LiveHeld'
    <3>1. ASSUME "call_past_t" \notin Admit, NEW i \in Range(live)
          PROVE  Place(m_fn, reg', mem', i) = Value(i)
      <4>1. i \in Nat /\ Placed(i)
        BY LiveIsPlaced, InsideIs
      <4>2. Place(m_fn, reg, mem, i) = Value(i)
        BY <3>1 DEF Inside, Kept, LiveHeld, LiveKept, Place
      <4>3. Place(m_fn, p.reg, p.mem, i) = Value(i)
        BY <2>4, <2>6, <4>1, <4>2 DEF Stores
      <4> QED
        BY <2>8, <4>1, <4>3 DEF Settled
    <3> QED
      BY <1>1, <1>4, <3>1 DEF LiveHeld, LiveKept, Place
  <2>15. Right'
    <3>1. n \in 0 .. Least(m_fn.params, A_MAX) - 1
      BY <1>1, <1>2, <1>7 DEF Least
    <3>2. reg[A(n)] = Param(n)
      BY <1>3, <2>12, <3>1
    <3> QED
      BY <2>3, <3>2 DEF Right, OperandsRight
  <2> QED
    BY <1>5, <1>6, <2>9, <2>10, <2>13, <2>14, <2>15 DEF Kept
<1>8. CASE ~ (n < A_MAX)
  <2>1. took' = {} /\ reg' = reg /\ mem' = mem
    BY <1>8, Zenon DEF TakeParam
  <2>2. n \in StackParams(m_fn)
    BY <1>1, <1>2, <1>8 DEF StackParams
  <2>3. ready' \cup StackParams(m_fn) = ready \cup StackParams(m_fn)
    BY <1>1, <2>2
  <2>4. RegsHeld' /\ MemHeld' /\ LiveHeld'
    BY <1>1, <1>4, <2>1, <2>3
       DEF Inside, Kept, RegsHeld, MemHeld, LiveHeld, LiveKept
  <2>5. ParamsHeld'
    BY <1>1, <2>1 DEF Inside, Kept, ParamsHeld
  <2>6. Right'
    BY <2>1 DEF Right, OperandsRight
  <2> QED
    BY <1>5, <1>6, <2>4, <2>5, <2>6 DEF Kept
<1> QED
  BY <1>7, <1>8

-----------------------------------------------------------------------------
(* The arguments of a call. *)

\* Where the callee will look for the argument j.
Passing(m, j) == IF j < A_MAX THEN m.reg[A(j)] ELSE m.mem[ArgumentSlot(j)]

Fetches(m, n, what, r) ==
    /\ Carries(n) /\ r \in Registers /\ n.queue[1] = r
    /\ \A s \in 0 .. CallEnd - 1 : n.mem[s] = m.mem[s]
    /\ \A i \in Nat : i < m_fn.args /\ i < A_MAX => n.reg[A(i)] = m.reg[A(i)]
    /\ what = Zero => n.idx = m.idx
    /\ (LiveKept /\ (what[1] = "variable" => m.idx = m_bb.out_idx)) => n.reg[r] = what

LEMMA PassFetches ==
    ASSUME Inside, NEW m, Carries(m), NEW what,
           Plain(what) \/ (Placed(m_bb.out_idx) /\ \E w \in ready : what = Variable(w)),
           NEW n, n = opnd(raw_value([m EXCEPT !.queue = <<>>], what), what)
    PROVE  \E r : Fetches(m, n, what, r)
<1>1. PICK o : o = [m EXCEPT !.queue = <<>>]
  OBVIOUS
<1>2. PICK v : v = raw_value(o, what)
  OBVIOUS
<1>3. n = opnd(v, what)
  BY <1>1, <1>2
<1>4. /\ o.reg = m.reg /\ o.mem = m.mem /\ o.idx = m.idx /\ o.queue = <<>>
      /\ IsMachine(o) /\ m.idx \in Nat
  BY <1>1 DEF Carries, IsMachine
<1>5. Carries(o)
  BY <1>4 DEF Carries
<1>6. what[1] = "variable" => Placed(m_bb.out_idx)
  BY <1>5, OperandIsThere DEF Plain
<1>7. Again(o, v, what)
  BY <1>2, <1>5, <1>6, RawCarries
<1>8. Carries(v) /\ v.idx = m.idx /\ v.queue = <<>>
  BY <1>4, <1>7 DEF Again
<1>9. Cursor(v) /\ Len(v.queue) = 0
  BY <1>8, EmptySeq, CarriesCursor
<1>10. Operand(what)
  <2>1. CASE Plain(what)
    BY <1>5, <2>1, OperandIsThere DEF Plain
  <2>2. CASE \E w \in ready : what = Variable(w)
    BY <2>2, InsideIs DEF Operand
  <2> QED
    BY <2>1, <2>2
<1>11. PICK r : Fetched(v, n, r) /\ (Has(v, what) => n.reg[r] = what)
                /\ (what[1] \in {"zero", "value"} => n.idx = v.idx)
  BY <1>3, <1>9, <1>10, OpndFetches
<1>12. Carries(n)
  BY <1>8, <1>9, <1>11, FetchCarries
<1>13. r \in Registers /\ n.queue[1] = r /\ n.mem = v.mem
  BY <1>8, <1>11 DEF Fetched
<1>14. \A s \in 0 .. CallEnd - 1 : n.mem[s] = m.mem[s]
  <2>1. \A s \in 0 .. CallEnd - 1 : v.mem[s] = o.mem[s]
    BY <1>7 DEF Again
  <2> QED
    BY <1>4, <1>13, <2>1
<1>15. ASSUME NEW i \in Nat, i < m_fn.args, i < A_MAX
       PROVE  n.reg[A(i)] = m.reg[A(i)]
  <2>0. PICK a : a = A(i)
    OBVIOUS
  <2>1. a \in Registers /\ a # Scratch(0)
    BY <1>15, <2>0, OtherRegisters
  <2>2. \A k \in Nat : k < RegisterEnd(m_fn) => ValueRegister(m_fn, k) # a
    BY <1>15, <2>0, InsideIs, ValueRegistersApart
  <2>3. a # out(m_bb.out_idx)
    BY <2>1, <2>2, InsideIs DEF out
  <2>4. v.reg[a] = o.reg[a]
    BY <1>7, <2>1, <2>3 DEF Again
  <2>5. v.idx \in Nat
    BY <1>4, <1>8
  <2>6. n.reg[a] = v.reg[a]
    BY <1>9, <1>11, <2>1, <2>2, <2>5 DEF Fetched
  <2> QED
    BY <1>4, <2>0, <2>4, <2>6
<1>16. what = Zero => n.idx = m.idx
  BY <1>8, <1>11 DEF Zero
<1>17. ASSUME LiveKept, what[1] = "variable" => m.idx = m_bb.out_idx
       PROVE  n.reg[r] = what
  <2>1. CASE Plain(what)
    BY <1>8, <1>11, <1>17, <2>1, OperandIsThere DEF Plain
  <2>2. CASE Placed(m_bb.out_idx) /\ \E w \in ready : what = Variable(w)
    <3>1. PICK w \in ready : what = Variable(w)
      BY <2>2
    <3>2. what[1] = "variable" /\ what[1] # "zero" /\ what[1] # "value"
      BY <3>1 DEF Variable
    <3>3. Place(m_fn, v.reg, v.mem, m_bb.out_idx) = what
      BY <1>7, <3>1 DEF Again
    <3>4. v.idx = m_bb.out_idx
      BY <1>8, <1>17, <3>2
    <3>5. Has(v, what)
      BY <2>2, <3>2, <3>3, <3>4 DEF Has
    <3> QED
      BY <1>11, <3>5
  <2> QED
    BY <2>1, <2>2
<1>18. Fetches(m, n, what, r)
  BY <1>12, <1>13, <1>14, <1>15, <1>16, <1>17 DEF Fetches
<1> QED
  BY <1>18

Passes(m, p, what, j) ==
    /\ Carries(p)
    /\ \A s \in spill_args(m_fn) .. CallEnd - 1 : p.mem[s] = m.mem[s]
    /\ what = Zero => p.idx = m.idx
    /\ \A i \in Nat : i < m_fn.args /\ i # j => Passing(p, i) = Passing(m, i)
    /\ (LiveKept /\ (what[1] = "variable" => m.idx = m_bb.out_idx)) => Passing(p, j) = what

LEMMA PassStep ==
    ASSUME Inside, NEW m, Carries(m), NEW what,
           Plain(what) \/ (Placed(m_bb.out_idx) /\ \E w \in ready : what = Variable(w)),
           NEW j \in Nat, j < m_fn.args,
           NEW p, p = pass(m, what, j)
    PROVE  Passes(m, p, what, j)
<1>1. PICK n : n = opnd(raw_value([m EXCEPT !.queue = <<>>], what), what)
  OBVIOUS
<1>2. PICK r : Fetches(m, n, what, r)
  BY <1>1, PassFetches
<1>3. /\ Carries(n) /\ r \in Registers /\ n.queue[1] = r /\ IsMachine(n)
      /\ \A s \in 0 .. CallEnd - 1 : n.mem[s] = m.mem[s]
      /\ \A i \in Nat : i < m_fn.args /\ i < A_MAX => n.reg[A(i)] = m.reg[A(i)]
      /\ what = Zero => n.idx = m.idx
      /\ (LiveKept /\ (what[1] = "variable" => m.idx = m_bb.out_idx)) => n.reg[r] = what
  BY <1>2 DEF Fetches, Carries
<1>4. p = IF j < A_MAX THEN mv(n, A(j), r) ELSE sw(n, r, ArgumentSlot(j))
  BY <1>1, <1>3, Zenon DEF pass
<1>5. PICK found : found = n.reg[r]
  OBVIOUS
<1>6. /\ Fits(m_fn) /\ m_fn.args \in Nat /\ A_MAX \in Nat
      /\ saved_regs(m_fn) \in Nat /\ spill_args(m_fn) \in Nat /\ RaSlot(m_fn) \in Nat
      /\ RaSlot(m_fn) = stack_size(m_fn) - 1 /\ stack_size(m_fn) \in Nat /\ MaxParams \in Nat
      /\ CallEnd = saved_regs(m_fn) + spill_args(m_fn) /\ CallEnd <= RaSlot(m_fn)
      /\ RegisterEnd(m_fn) \in Nat
  BY InsideIs, RegisterEndIs, CountsFit, CodegenAssumption DEF CallEnd
<1>7. 0 .. CallEnd - 1 \subseteq Slots(m_fn)
  BY <1>6 DEF Slots
<1>8. CASE j < A_MAX
  <2>1. PICK a : a = A(j)
    OBVIOUS
  <2>2. a \in Registers /\ a # X0
    BY <1>8, <2>1, OtherRegisters
  <2>3. p = li(n, a, found)
    BY <1>3, <1>4, <1>5, <1>7, <1>8, <2>1, <2>2 DEF mv, li
  <2>4. /\ IsMachine(p) /\ p.mem = n.mem /\ p.idx = n.idx /\ p.reg[a] = found
        /\ \A q \in Registers : q # a => p.reg[q] = n.reg[q]
    BY <1>3, <2>2, <2>3, LiIs
  <2>5. ASSUME NEW i \in Nat, i < m_bb.out_idx
        PROVE  Place(m_fn, p.reg, p.mem, i) = Place(m_fn, n.reg, n.mem, i)
    <3>1. CASE i < RegisterEnd(m_fn)
      <4>1. ValueRegister(m_fn, i) \in Registers /\ ValueRegister(m_fn, i) # a
        BY <1>6, <2>1, <3>1, ValueRegistersApart
      <4> QED
        BY <2>4, <3>1, <4>1 DEF Place
    <3>2. CASE ~ (i < RegisterEnd(m_fn))
      BY <2>4, <3>2 DEF Place
    <3> QED
      BY <3>1, <3>2
  <2>6. Carries(p)
    <3>1. p.reg[X0] = Zero
      BY <1>3, <2>2, <2>4, OtherRegisters DEF Carries
    <3>2. m_bb.out_idx <= p.idx /\ Tame(m_fn, mem, p.mem)
      BY <1>3, <2>4 DEF Carries
    <3>3. \A i \in Nat : i < m_bb.out_idx =>
              Place(m_fn, p.reg, p.mem, i) = Place(m_fn, reg, mem, i)
      BY <1>3, <2>5 DEF Carries
    <3> QED
      BY <2>4, <3>1, <3>2, <3>3 DEF Carries
  <2>7. ASSUME NEW i \in Nat, i < m_fn.args, i # j
        PROVE  Passing(p, i) = Passing(m, i)
    <3>1. CASE i < A_MAX
      <4>1. A(i) \in Registers /\ A(i) # a
        BY <2>1, <2>7, <3>1, OtherRegisters
      <4> QED
        BY <1>3, <2>4, <2>7, <3>1, <4>1 DEF Passing
    <3>2. CASE ~ (i < A_MAX)
      <4>1. i \in A_MAX .. m_fn.args - 1
        BY <1>6, <2>7, <3>2
      <4>2. ArgumentSlot(i) \in 0 .. spill_args(m_fn) - 1
        BY <1>6, <4>1, CallSlotsAreWorking
      <4>3. ArgumentSlot(i) \in 0 .. CallEnd - 1
        BY <1>6, <4>2
      <4> QED
        BY <1>3, <2>4, <3>2, <4>3 DEF Passing
    <3> QED
      BY <3>1, <3>2
  <2>8. Passing(p, j) = found
    BY <1>8, <2>1, <2>4 DEF Passing
  <2>9. \A s \in spill_args(m_fn) .. CallEnd - 1 : p.mem[s] = m.mem[s]
    <3>1. \A s \in spill_args(m_fn) .. CallEnd - 1 : s \in 0 .. CallEnd - 1
      BY <1>6
    <3> QED
      BY <1>3, <2>4, <3>1
  <2> QED
    BY <1>3, <1>5, <2>4, <2>6, <2>7, <2>8, <2>9 DEF Passes
<1>9. CASE ~ (j < A_MAX)
  <2>1. PICK slot : slot = ArgumentSlot(j)
    OBVIOUS
  <2>2. slot \in 0 .. spill_args(m_fn) - 1
    <3>1. j \in A_MAX .. m_fn.args - 1
      BY <1>6, <1>9
    <3> QED
      BY <1>6, <2>1, <3>1, CallSlotsAreWorking
  <2>3. slot \in Slots(m_fn) /\ slot \in Working(m_fn) /\ slot \in 0 .. CallEnd - 1
    <3>1. slot \in 0 .. CallEnd - 1
      BY <1>6, <2>2
    <3> QED
      BY <1>6, <1>7, <3>1, CallSlotsAreWorking
  <2>4. p = put(n, slot, found)
    BY <1>3, <1>4, <1>5, <1>9, <2>1, <2>3, MovesAre
  <2>5. /\ IsMachine(p) /\ p.reg = n.reg /\ p.idx = n.idx /\ p.mem[slot] = found
        /\ \A s \in Slots(m_fn) : s # slot => p.mem[s] = n.mem[s]
    <3>1. IsMachine(n) /\ slot \in Slots(m_fn)
      BY <1>3, <2>3
    <3> QED
      BY <2>4, <3>1, PutIs
  <2>6. ASSUME NEW i \in Nat, i < m_bb.out_idx
        PROVE  Place(m_fn, p.reg, p.mem, i) = Place(m_fn, n.reg, n.mem, i)
    <3>1. CASE i < RegisterEnd(m_fn)
      BY <2>5, <3>1 DEF Place
    <3>2. CASE ~ (i < RegisterEnd(m_fn))
      <4>1. i \in RegisterEnd(m_fn) .. m_fn.vals - 1
        BY <1>6, <2>6, <3>2, InsideIs
      <4>2. OutSlot(m_fn, i) \in 0 .. RaSlot(m_fn) - 1 /\ OutSlot(m_fn, i) >= CallEnd
        BY <1>6, <4>1, CallSlotsAreWorking
      <4>3. OutSlot(m_fn, i) \in Slots(m_fn) /\ OutSlot(m_fn, i) # slot
        BY <1>6, <2>3, <4>2 DEF Slots
      <4> QED
        BY <2>5, <3>2, <4>3 DEF Place
    <3> QED
      BY <3>1, <3>2
  <2>7. Carries(p)
    <3>1. p.reg[X0] = Zero /\ m_bb.out_idx <= p.idx
      BY <1>3, <2>5 DEF Carries
    <3>2. Tame(m_fn, mem, p.mem)
      BY <1>3, <2>3, <2>5 DEF Carries, Tame, IsMachine
    <3>3. \A i \in Nat : i < m_bb.out_idx =>
              Place(m_fn, p.reg, p.mem, i) = Place(m_fn, reg, mem, i)
      BY <1>3, <2>6 DEF Carries
    <3> QED
      BY <2>5, <3>1, <3>2, <3>3 DEF Carries
  <2>8. ASSUME NEW i \in Nat, i < m_fn.args, i # j
        PROVE  Passing(p, i) = Passing(m, i)
    <3>1. CASE i < A_MAX
      BY <1>3, <2>5, <2>8, <3>1 DEF Passing
    <3>2. CASE ~ (i < A_MAX)
      <4>1. i \in A_MAX .. m_fn.args - 1
        BY <1>6, <2>8, <3>2
      <4>2. ArgumentSlot(i) \in 0 .. spill_args(m_fn) - 1 /\ ArgumentSlot(i) # slot
        BY <1>6, <2>1, <2>8, <4>1, CallSlotsAreWorking DEF ArgumentSlot
      <4>3. ArgumentSlot(i) \in 0 .. CallEnd - 1
        BY <1>6, <4>2
      <4> QED
        BY <1>3, <1>7, <2>5, <3>2, <4>2, <4>3 DEF Passing
    <3> QED
      BY <3>1, <3>2
  <2>9. Passing(p, j) = found
    BY <1>9, <2>1, <2>5 DEF Passing
  <2>10. \A s \in spill_args(m_fn) .. CallEnd - 1 : p.mem[s] = m.mem[s]
    <3>1. \A s \in spill_args(m_fn) .. CallEnd - 1 : s \in 0 .. CallEnd - 1 /\ s # slot
      BY <1>6, <2>2
    <3> QED
      BY <1>3, <1>7, <2>5, <3>1
  <2> QED
    BY <1>3, <1>5, <2>5, <2>7, <2>8, <2>9, <2>10 DEF Passes
<1> QED
  BY <1>8, <1>9

\* After the arguments 0, 1, ... k - 1, with what was saved in "s".
Passed(m, s, kinds, asked, k) ==
    /\ Carries(m)
    /\ \A c \in spill_args(m_fn) .. CallEnd - 1 : m.mem[c] = s.mem[c]
    /\ (\A i \in 1 .. k : kinds[i] = "zero") => m.idx = m_bb.reg_idx
    /\ Admit = {} => \A j \in Nat : j < k => Passing(m, j) = asked[j + 1]

\* Only zeros come before an argument that has waited, so it is where reg_idx says.
LEMMA WaitedIsNext ==
    ASSUME Inside, NEW kinds \in Seq(Kinds), At(kinds), ~ WaitingLate(kinds),
           NEW k \in 1 .. Len(kinds), kinds[k] = "waiting"
    PROVE  /\ \A i \in 1 .. k - 1 : kinds[i] = "zero"
           /\ m_bb.reg_idx = m_bb.out_idx
<1>1. PICK before : before = SubSeq(kinds, 1, k - 1)
  OBVIOUS
<1>2. PICK after : after = SubSeq(kinds, k + 1, Len(kinds))
  OBVIOUS
<1>3. /\ Len(kinds) \in Nat /\ DOMAIN kinds = 1 .. Len(kinds)
      /\ \A i \in 1 .. Len(kinds) : kinds[i] \in Kinds
  BY LenProperties, ElementOfSeq
<1>4. k \in DOMAIN kinds
  BY <1>3
<1>5. "value" \in Range(after) /\ "value" \notin Range(before)
  BY <1>1, <1>2, <1>4 DEF At, Waited
<1>6. Range(before) \cap {"waiting", "literal"} = {}
  BY <1>1, <1>4 DEF WaitingLate
<1>7. \A i \in 1 .. k - 1 : kinds[i] \in Range(before)
  <2>1. PICK n \in Int : n = k - 1
    OBVIOUS
  <2>2. 1 \in Int /\ \A i \in 1 .. n : kinds[i] \in Kinds
    BY <1>3, <2>1
  <2>3. /\ SubSeq(kinds, 1, n) \in Seq(Kinds)
        /\ Len(SubSeq(kinds, 1, n)) = IF 1 <= n THEN n - 1 + 1 ELSE 0
        /\ \A i \in 1 .. n - 1 + 1 : SubSeq(kinds, 1, n)[i] = kinds[1 + i - 1]
    BY <2>2, SubSeqProperties
  <2>4. before = SubSeq(kinds, 1, n)
    BY <1>1, <2>1
  <2>5. /\ before \in Seq(Kinds)
        /\ Len(before) = IF 1 <= n THEN n - 1 + 1 ELSE 0
        /\ \A i \in 1 .. n - 1 + 1 : before[i] = kinds[1 + i - 1]
    BY <2>3, <2>4, Zenon
  <2>6. DOMAIN before = 1 .. Len(before)
    BY <2>5, LenProperties
  <2>7. \A i \in 1 .. n : i \in DOMAIN before /\ before[i] = kinds[i]
    BY <2>5, <2>6
  <2> QED
    BY <2>1, <2>7 DEF Range
<1>8. \A i \in 1 .. k - 1 : kinds[i] = "zero"
  <2>1. \A i \in 1 .. k - 1 : i \in 1 .. Len(kinds)
    BY <1>3
  <2> QED
    BY <1>3, <1>5, <1>6, <1>7, <2>1 DEF Kinds
<1>9. live # <<>>
  <2>1. /\ DOMAIN after = 1 .. Len(kinds) - k
        /\ \A j \in 1 .. Len(kinds) - k : after[j] = kinds[k + j]
    BY <1>2, AfterIs
  <2>2. PICK j \in 1 .. Len(kinds) - k : kinds[k + j] = "value"
    BY <1>5, <2>1 DEF Range
  <2>3. PICK c : c = k + j
    OBVIOUS
  <2>4. c \in 1 .. Len(kinds) /\ kinds[c] = "value"
    BY <1>3, <2>2, <2>3
  <2> QED
    BY <2>4, AskedAre
<1> QED
  BY <1>8, <1>9 DEF Inside, Kept, Counted

LEMMA PassNext ==
    ASSUME Inside, NEW kinds \in Seq(Kinds), At(kinds), Len(kinds) <= m_fn.args,
           Admit = {} => ~ WaitingLate(kinds),
           "waiting" \in Range(kinds) => Placed(m_bb.out_idx),
           NEW asked, asked = Operands(kinds), NEW s,
           NEW k \in Nat, k < Len(kinds), NEW m, Passed(m, s, kinds, asked, k),
           NEW p, p = pass(m, asked[k + 1], k)
    PROVE  Passed(p, s, kinds, asked, k + 1)
<1>1. PICK what : what = asked[k + 1]
  OBVIOUS
<1>2. /\ Len(kinds) \in Nat /\ DOMAIN kinds = 1 .. Len(kinds) /\ k + 1 \in 1 .. Len(kinds)
      /\ m_fn.args \in Nat
  BY LenProperties, InsideIs, RegisterEndIs
<1>3. /\ kinds[k + 1] # "waiting" => Plain(what)
      /\ kinds[k + 1] = "waiting" => \E v \in ready : what = Variable(v)
      /\ kinds[k + 1] = "zero" => what = Zero
  BY <1>1, <1>2, AskedAre
<1>4. kinds[k + 1] = "waiting" => Placed(m_bb.out_idx)
  BY <1>2 DEF Range
<1>5. /\ Carries(m)
      /\ \/ Plain(what)
         \/ Placed(m_bb.out_idx) /\ \E v \in ready : what = Variable(v)
      /\ k < m_fn.args /\ p = pass(m, what, k)
  BY <1>1, <1>2, <1>3, <1>4 DEF Passed
<1>6. Passes(m, p, what, k)
  BY <1>5, PassStep
<1>7. Carries(p) /\ \A c \in spill_args(m_fn) .. CallEnd - 1 : p.mem[c] = s.mem[c]
  BY <1>6 DEF Passes, Passed
<1>8. ASSUME \A i \in 1 .. k + 1 : kinds[i] = "zero"
      PROVE  p.idx = m_bb.reg_idx
  <2>1. k + 1 \in 1 .. k + 1 /\ \A i \in 1 .. k : i \in 1 .. k + 1
    OBVIOUS
  <2>2. what = Zero /\ m.idx = m_bb.reg_idx
    BY <1>3, <1>8, <2>1 DEF Passed
  <2> QED
    BY <1>6, <2>2 DEF Passes
<1>9. ASSUME Admit = {}, NEW j \in Nat, j < k + 1
      PROVE  Passing(p, j) = asked[j + 1]
  <2>1. CASE j = k
    <3>1. LiveKept
      BY <1>9, LiveIsThere
    <3>2. what[1] = "variable" => m.idx = m_bb.out_idx
      <4>1. CASE kinds[k + 1] # "waiting"
        <5>1. Plain(what) /\ Carries(m)
          BY <1>3, <1>5, <4>1
        <5> QED
          BY <5>1, OperandIsThere DEF Plain
      <4>2. CASE kinds[k + 1] = "waiting"
        <5>1. PICK c : c = k + 1
          OBVIOUS
        <5>2. c \in 1 .. Len(kinds) /\ kinds[c] = "waiting" /\ ~ WaitingLate(kinds)
          BY <1>2, <1>9, <4>2, <5>1
        <5>3. (\A i \in 1 .. c - 1 : kinds[i] = "zero") /\ m_bb.reg_idx = m_bb.out_idx
          BY <5>2, WaitedIsNext
        <5>4. c - 1 = k
          BY <5>1
        <5>5. \A i \in 1 .. k : kinds[i] = "zero"
          BY <5>3, <5>4, Zenon
        <5> QED
          BY <5>3, <5>5 DEF Passed
      <4> QED
        BY <4>1, <4>2
    <3>3. Passing(p, k) = what
      BY <1>6, <3>1, <3>2 DEF Passes
    <3> QED
      BY <1>1, <2>1, <3>3
  <2>2. CASE j # k
    <3>1. j < k /\ j < m_fn.args
      BY <1>2, <1>5, <1>9, <2>2
    <3>2. Passing(p, j) = Passing(m, j)
      BY <1>6, <2>2, <3>1 DEF Passes
    <3>3. Passing(m, j) = asked[j + 1]
      BY <1>9, <3>1 DEF Passed
    <3> QED
      BY <3>2, <3>3
  <2> QED
    BY <2>1, <2>2
<1> QED
  BY <1>7, <1>8, <1>9 DEF Passed

LEMMA PassAllIs ==
    ASSUME Inside, NEW kinds \in Seq(Kinds), At(kinds), Len(kinds) <= m_fn.args,
           Admit = {} => ~ WaitingLate(kinds),
           "waiting" \in Range(kinds) => Placed(m_bb.out_idx),
           NEW asked, asked = Operands(kinds),
           NEW s, Carries(s), s.idx = m_bb.reg_idx,
           NEW m, m = PassAll(s, asked)
    PROVE  Passed(m, s, kinds, asked, Len(kinds))
<1>1. PICK n \in Nat : n = Len(kinds)
  BY LenProperties
<1>2. DOMAIN asked = 1 .. n
  BY <1>1, AskedAre
<1>3. PICK run : FoldRun(run, "pass", asked, s, n) /\ m = run[n]
  BY <1>1, <1>2, PassFold
<1>4. run[0] = s /\ \A k \in 0 .. n - 1 : run[k + 1] = pass(run[k], asked[k + 1], k)
  <2>1. run[0] = s /\ \A k \in 0 .. n - 1 : run[k + 1] = pass(run[k], asked[k + 1], k + 1 - 1)
    BY <1>3 DEF FoldRun, FoldStep
  <2>2. \A k \in 0 .. n - 1 : k + 1 - 1 = k
    OBVIOUS
  <2> QED
    BY <2>1, <2>2
<1> DEFINE G == {k \in Nat : k <= n => Passed(run[k], s, kinds, asked, k)}
<1>5. 0 \in G
  <2>1. Passed(s, s, kinds, asked, 0)
    BY DEF Passed
  <2> QED
    BY <1>4, <2>1
<1>6. ASSUME NEW k \in Nat, k \in G
      PROVE  k + 1 \in G
  <2>1. ASSUME k + 1 <= n
        PROVE  Passed(run[k + 1], s, kinds, asked, k + 1)
    <3>1. k <= n /\ k < Len(kinds) /\ k \in 0 .. n - 1
      BY <1>1, <2>1
    <3>2. PICK q : q = run[k]
      OBVIOUS
    <3>3. PICK p : p = run[k + 1]
      OBVIOUS
    <3>4. Passed(q, s, kinds, asked, k) /\ p = pass(q, asked[k + 1], k)
      BY <1>4, <1>6, <3>1, <3>2, <3>3
    <3>5. Passed(p, s, kinds, asked, k + 1)
      BY <3>1, <3>4, PassNext
    <3> QED
      BY <3>3, <3>5
  <2> QED
    BY <2>1
<1>7. n \in G
  <2> HIDE DEF G
  <2> QED  BY <1>5, <1>6, SetInduction
<1> QED
  BY <1>1, <1>3, <1>7

-----------------------------------------------------------------------------
(* What a call saves. *)

SavedWell(i) ==
    /\ i \in Nat /\ SavedSlot(m_fn, i) = i + spill_args(m_fn)
    /\ SavedSlot(m_fn, i) \in spill_args(m_fn) .. CallEnd - 1
    /\ SavedSlot(m_fn, i) \in Slots(m_fn) /\ SavedSlot(m_fn, i) \in Working(m_fn)
    /\ SavedRegister(i) \in Registers /\ SavedRegister(i) # X0
    /\ \A k \in Pushed : SavedRegister(k) = SavedRegister(i) => k = i
    /\ m_bb.out_idx < RegisterEnd(m_fn) => SavedRegister(i) # ValueRegister(m_fn, m_bb.out_idx)

LEMMA PushedIs ==
    ASSUME Inside, NEW i \in Pushed
    PROVE  SavedWell(i)
<1>1. /\ Fits(m_fn) /\ m_bb.out_idx \in Nat /\ m_fn.vals \in Nat /\ m_fn.args \in Nat
      /\ m_bb.out_idx <= m_fn.vals
      /\ T_MAX \in Nat /\ A_MAX \in Nat /\ R_MAX = T_MAX + A_MAX
      /\ RegisterEnd(m_fn) \in Nat /\ RegisterEnd(m_fn) <= R_MAX
  BY InsideIs, RegisterEndIs
<1>2. /\ saved_regs(m_fn) \in Nat /\ spill_args(m_fn) \in Nat /\ RaSlot(m_fn) \in Nat
      /\ RaSlot(m_fn) = stack_size(m_fn) - 1 /\ stack_size(m_fn) \in Nat /\ MaxParams \in Nat
      /\ CallEnd = saved_regs(m_fn) + spill_args(m_fn) /\ CallEnd <= RaSlot(m_fn)
  BY <1>1, CountsFit, CodegenAssumption DEF CallEnd
<1>3. \A k \in Pushed : k \in Nat /\ k < m_bb.out_idx /\ k < T_MAX + A_MAX
  BY <1>1 DEF Pushed, Least
<1>4. i < saved_regs(m_fn)
  BY <1>1, <1>3 DEF saved_regs, Least
<1>5. /\ SavedSlot(m_fn, i) = i + spill_args(m_fn)
      /\ SavedSlot(m_fn, i) \in spill_args(m_fn) .. CallEnd - 1
  BY <1>2, <1>3, <1>4 DEF SavedSlot
<1>6. SavedSlot(m_fn, i) \in Slots(m_fn) /\ SavedSlot(m_fn, i) \in Working(m_fn)
  BY <1>2, <1>5 DEF Slots, Working
<1>7. SavedRegister(i) \in Registers /\ SavedRegister(i) # X0
  <2>1. CASE i < T_MAX
    <3>1. i \in 0 .. T_MAX + 1
      BY <1>1, <1>3, <2>1
    <3> QED
      BY <2>1, <3>1 DEF SavedRegister, Registers, X0, T
  <2>2. CASE ~ (i < T_MAX)
    <3>1. i - T_MAX \in 0 .. A_MAX - 1
      BY <1>1, <1>3, <2>2
    <3> QED
      BY <2>2, <3>1 DEF SavedRegister, Registers, X0, A
  <2> QED
    BY <2>1, <2>2
<1>8. ASSUME NEW k \in Pushed, SavedRegister(k) = SavedRegister(i)
      PROVE  k = i
  <2>1. k \in Nat /\ i \in Nat
    BY <1>3
  <2>2. (k < T_MAX <=> i < T_MAX) /\ (k < T_MAX => k = i)
    BY <1>8 DEF SavedRegister, T, A
  <2>3. ~ (k < T_MAX) => k - T_MAX = i - T_MAX
    BY <1>8, <2>2 DEF SavedRegister, A
  <2> QED
    BY <1>1, <2>1, <2>2, <2>3
<1>9. ASSUME m_bb.out_idx < RegisterEnd(m_fn)
      PROVE  SavedRegister(i) # ValueRegister(m_fn, m_bb.out_idx)
  <2>1. PICK o \in Nat : o = m_bb.out_idx
    BY <1>1
  <2>2. i \in Nat /\ i < o
    BY <1>3, <2>1
  <2>3. SUFFICES ASSUME SavedRegister(i) = ValueRegister(m_fn, o)
                 PROVE  FALSE
    BY <2>1
  <2>4. (i < T_MAX <=> o < T_MAX) /\ (o < T_MAX => i = o)
    BY <2>3 DEF SavedRegister, ValueRegister, T, A
  <2>5. ~ (o < T_MAX) => i - T_MAX = o - T_MAX + m_fn.args
    BY <2>3, <2>4 DEF SavedRegister, ValueRegister, A
  <2> QED
    BY <1>1, <2>2, <2>4, <2>5
<1> QED
  BY <1>3, <1>5, <1>6, <1>7, <1>8, <1>9 DEF SavedWell

\* Only with "call_past_t" is a value in an a register while others are passed in these.
LEMMA InUseIsPushed ==
    ASSUME Inside, NEW k \in Nat, k < m_bb.out_idx, k < RegisterEnd(m_fn),
           k < T_MAX \/ m_fn.args = 0
    PROVE  k \in Pushed /\ SavedRegister(k) = ValueRegister(m_fn, k)
<1>1. /\ m_bb.out_idx \in Nat /\ T_MAX \in Nat /\ R_MAX \in Nat /\ RegisterEnd(m_fn) <= R_MAX
      /\ RegisterEnd(m_fn) \in Nat
  BY InsideIs, RegisterEndIs
<1>2. k \in Pushed
  BY <1>1 DEF Pushed, Least
<1>3. SavedRegister(k) = ValueRegister(m_fn, k)
  <2>1. CASE k < T_MAX
    BY <2>1 DEF SavedRegister, ValueRegister
  <2>2. CASE ~ (k < T_MAX)
    <3>1. m_fn.args = 0 /\ k - T_MAX + 0 = k - T_MAX
      BY <1>1, <2>2
    <3> QED
      BY <2>2, <3>1 DEF SavedRegister, ValueRegister
  <2> QED
    BY <2>1, <2>2
<1> QED
  BY <1>2, <1>3

Pushes(p) ==
    /\ Carries(p) /\ p.idx = m_bb.reg_idx
    /\ \A i \in Pushed : p.mem[SavedSlot(m_fn, i)] = reg[SavedRegister(i)]

LEMMA PushIs ==
    ASSUME Inside, NEW p, p = push(Machine)
    PROVE  Pushes(p)
<1>1. PICK m : m = Machine
  OBVIOUS
<1>2. /\ Carries(m) /\ IsMachine(m) /\ m.idx = m_bb.reg_idx /\ m.reg = reg /\ m.mem = mem
      /\ m.idx \in Nat
  BY <1>1, MachineCarries DEF Carries, IsMachine
<1>3. PICK f : f = [s \in Slots(m_fn) |->
                      IF s - spill_args(m_fn) \in Pushed
                      THEN reg[SavedRegister(s - spill_args(m_fn))] ELSE mem[s]]
  OBVIOUS
<1>4. p = [m EXCEPT !.mem = f]
  BY <1>1, <1>2, <1>3 DEF push, IsMachine
<1>5. IsMachine(p) /\ p.reg = reg /\ p.mem = f /\ p.idx = m_bb.reg_idx
  BY <1>2, <1>3, <1>4 DEF IsMachine
<1>6. /\ spill_args(m_fn) \in Nat /\ saved_regs(m_fn) \in Nat
      /\ CallEnd = saved_regs(m_fn) + spill_args(m_fn)
      /\ DOMAIN mem = Slots(m_fn) /\ Fits(m_fn) /\ RegisterEnd(m_fn) \in Nat
      /\ Slots(m_fn) \subseteq Nat
  BY <1>2, InsideIs, CountsFit, RegisterEndIs, CodegenAssumption DEF IsMachine, CallEnd, Slots
<1>7. ASSUME NEW i \in Pushed
      PROVE  p.mem[SavedSlot(m_fn, i)] = reg[SavedRegister(i)]
  <2>1. PICK s : s = SavedSlot(m_fn, i)
    OBVIOUS
  <2>2. s \in Slots(m_fn) /\ s - spill_args(m_fn) = i
    BY <1>6, <2>1, PushedIs DEF SavedWell
  <2> QED
    BY <1>3, <1>5, <2>1, <2>2
<1>8. ASSUME NEW s \in Slots(m_fn), s \notin spill_args(m_fn) .. CallEnd - 1
      PROVE  p.mem[s] = mem[s]
  <2>1. s - spill_args(m_fn) \notin Pushed
    <3>1. PICK i : i = s - spill_args(m_fn)
      OBVIOUS
    <3>2. i \in Pushed => SavedSlot(m_fn, i) = i + spill_args(m_fn) /\ i \in Nat
                          /\ SavedSlot(m_fn, i) \in spill_args(m_fn) .. CallEnd - 1
      BY PushedIs DEF SavedWell
    <3> QED
      BY <1>6, <1>8, <3>1, <3>2
  <2> QED
    BY <1>3, <1>5, <2>1
<1>9. Tame(m_fn, mem, p.mem)
  <2>1. \A s \in Slots(m_fn) : s \in spill_args(m_fn) .. CallEnd - 1 => s \in Working(m_fn)
    BY <1>6 DEF Working
  <2> QED
    BY <1>3, <1>5, <1>6, <1>8, <2>1 DEF Tame
<1>10. ASSUME NEW i \in Nat, i < m_bb.out_idx
       PROVE  Place(m_fn, p.reg, p.mem, i) = Place(m_fn, reg, mem, i)
  <2>1. CASE i < RegisterEnd(m_fn)
    BY <1>5, <2>1 DEF Place
  <2>2. CASE ~ (i < RegisterEnd(m_fn))
    <3>1. i \in RegisterEnd(m_fn) .. m_fn.vals - 1
      BY <1>6, <1>10, <2>2, InsideIs
    <3>2. OutSlot(m_fn, i) \in 0 .. RaSlot(m_fn) - 1 /\ OutSlot(m_fn, i) >= CallEnd
      BY <1>6, <3>1, CallSlotsAreWorking
    <3>3. OutSlot(m_fn, i) \in Slots(m_fn)
      <4>1. /\ RaSlot(m_fn) \in Nat /\ RaSlot(m_fn) = stack_size(m_fn) - 1
            /\ stack_size(m_fn) \in Nat /\ MaxParams \in Nat
        BY <1>6, CountsFit, CodegenAssumption
      <4> QED
        BY <3>2, <4>1 DEF Slots
    <3>4. OutSlot(m_fn, i) \notin spill_args(m_fn) .. CallEnd - 1
      <4>1. PICK s : s = OutSlot(m_fn, i)
        OBVIOUS
      <4>2. s \in Int /\ s >= CallEnd /\ CallEnd \in Nat
        BY <1>6, <3>2, <4>1, CountsFit
      <4> QED
        BY <4>1, <4>2
    <3> QED
      BY <1>8, <2>2, <3>3, <3>4 DEF Place
  <2> QED
    BY <2>1, <2>2
<1>11. Carries(p)
  BY <1>2, <1>5, <1>9, <1>10, InsideIs DEF Carries
<1> QED
  BY <1>5, <1>7, <1>11 DEF Pushes

Called(m, c) ==
    /\ IsMachine(c) /\ c.reg[X0] = Zero /\ c.idx = m.idx
    /\ Tame(m_fn, mem, c.mem)
    /\ \A s \in Slots(m_fn) : s >= spill_args(m_fn) => c.mem[s] = m.mem[s]

LEMMA CalleeIs ==
    ASSUME Inside, NEW m, Carries(m), NEW c, c = callee(m)
    PROVE  Called(m, c)
<1>1. PICK f : f = [s \in Slots(m_fn) |-> IF s < spill_args(m_fn) THEN Junk ELSE m.mem[s]]
  OBVIOUS
<1>2. PICK g : g = [r \in Registers |-> Idle(r)]
  OBVIOUS
<1>3. IsMachine(m) /\ m.idx \in Nat
  BY DEF Carries, IsMachine
<1>4. c = [m EXCEPT !.reg = g, !.mem = f]
  BY <1>1, <1>2, <1>3 DEF callee, IsMachine
<1>5. DOMAIN g = Registers /\ g[X0] = Zero
  BY <1>2, IdleRegisters
<1>6. IsMachine(c) /\ c.reg = g /\ c.mem = f /\ c.idx = m.idx
  BY <1>1, <1>3, <1>4, <1>5 DEF IsMachine
<1>7. /\ spill_args(m_fn) \in Nat /\ saved_regs(m_fn) \in Nat
      /\ Slots(m_fn) \subseteq Nat
  BY InsideIs, CountsFit, CodegenAssumption DEF Slots
<1>8. \A s \in Slots(m_fn) : s >= spill_args(m_fn) => c.mem[s] = m.mem[s]
  BY <1>1, <1>6, <1>7
<1>9. \A s \in Slots(m_fn) \ Working(m_fn) : s >= spill_args(m_fn)
  BY <1>7 DEF Working
<1>10. Tame(m_fn, mem, c.mem)
  BY <1>1, <1>6, <1>8, <1>9 DEF Carries, Tame
<1> QED
  BY <1>5, <1>6, <1>8, <1>10 DEF Called

Pops(o, p) ==
    /\ IsMachine(p) /\ p.mem = o.mem /\ p.idx = o.idx
    /\ \A i \in Pushed : p.reg[SavedRegister(i)] = o.mem[SavedSlot(m_fn, i)]
    /\ \A r \in Registers : (\A i \in Pushed : r # SavedRegister(i)) => p.reg[r] = o.reg[r]

LEMMA PopIs ==
    ASSUME Inside, NEW o, IsMachine(o), NEW p, p = pop(o)
    PROVE  Pops(o, p)
<1>1. PICK g : g = [r \in Registers |->
                      IF \E i \in Pushed : r = SavedRegister(i)
                      THEN o.mem[SavedSlot(m_fn, CHOOSE i \in Pushed : r = SavedRegister(i))]
                      ELSE o.reg[r]]
  OBVIOUS
<1>2. p = [o EXCEPT !.reg = g]
  BY <1>1 DEF pop, IsMachine
<1>3. IsMachine(p) /\ p.mem = o.mem /\ p.idx = o.idx /\ p.reg = g
  BY <1>1, <1>2 DEF IsMachine
<1>4. ASSUME NEW i \in Pushed
      PROVE  p.reg[SavedRegister(i)] = o.mem[SavedSlot(m_fn, i)]
  <2>1. PICK r : r = SavedRegister(i)
    OBVIOUS
  <2>2. r \in Registers /\ \A k \in Pushed : SavedRegister(k) = r => k = i
    BY <2>1, PushedIs DEF SavedWell
  <2>3. (CHOOSE k \in Pushed : r = SavedRegister(k)) = i
    BY <2>1, <2>2
  <2>4. g[r] = o.mem[SavedSlot(m_fn, CHOOSE k \in Pushed : r = SavedRegister(k))]
    BY <1>1, <2>1, <2>2
  <2> QED
    BY <1>3, <2>1, <2>3, <2>4
<1>5. \A r \in Registers : (\A i \in Pushed : r # SavedRegister(i)) => p.reg[r] = o.reg[r]
  BY <1>1, <1>3
<1> QED
  BY <1>3, <1>4, <1>5 DEF Pops

Saves(s, m) == \A c \in spill_args(m_fn) .. CallEnd - 1 : m.mem[c] = s.mem[c]

LEMMA CallHolds ==
    ASSUME Inside, ready' = ready, NEW s, Pushes(s), NEW m, Carries(m), Saves(s, m),
           NEW c, Called(m, c), m_bb.out_idx < m_fn.vals,
           NEW o, o = oper(c), NEW p, Pops(o, p),
           NEW rest \in Seq(Nat), Range(rest) \subseteq Range(live),
           "call_past_t" \notin Admit => m_fn.args = 0 \/ ~ PastT(rest),
           NEW alive, alive = Append(rest, m_bb.out_idx)
    PROVE  Holds(p, alive)
<1>1. PICK i : i = m_bb.out_idx
  OBVIOUS
<1>2. /\ Fits(m_fn) /\ i \in Nat /\ RegisterEnd(m_fn) \in Nat /\ m_fn.vals \in Nat
      /\ T_MAX \in Nat /\ T_MAX <= RegisterEnd(m_fn)
      /\ spill_args(m_fn) \in Nat /\ saved_regs(m_fn) \in Nat
      /\ CallEnd = saved_regs(m_fn) + spill_args(m_fn)
      /\ RaSlot(m_fn) \in Nat /\ RaSlot(m_fn) = stack_size(m_fn) - 1
      /\ stack_size(m_fn) \in Nat /\ MaxParams \in Nat
  BY <1>1, InsideIs, RegisterEndIs, CountsFit, CodegenAssumption DEF CallEnd
<1>3. o = Out(c, Value(i)) /\ IsMachine(c) /\ Placed(m_bb.out_idx)
  BY <1>1, InsideIs DEF oper, Called, Placed
<1>4. /\ IsMachine(o) /\ o.idx = c.idx /\ o.queue = c.queue
      /\ Tame(m_fn, c.mem, o.mem)
      /\ \A a \in 0 .. saved_regs(m_fn) + spill_args(m_fn) - 1 : o.mem[a] = c.mem[a]
      /\ Place(m_fn, o.reg, o.mem, m_bb.out_idx) = Value(i)
      /\ \A r \in Registers : r # out(m_bb.out_idx) => o.reg[r] = c.reg[r]
      /\ \A k \in Nat : Placed(k) /\ k # m_bb.out_idx =>
             Place(m_fn, o.reg, o.mem, k) = Place(m_fn, c.reg, c.mem, k)
  BY <1>2, <1>3, OutWrites
<1>5. /\ IsMachine(p) /\ p.mem = o.mem
      /\ \A k \in Pushed : p.reg[SavedRegister(k)] = o.mem[SavedSlot(m_fn, k)]
      /\ \A r \in Registers : (\A k \in Pushed : r # SavedRegister(k)) => p.reg[r] = o.reg[r]
  BY DEF Pops
<1>6. p.reg[X0] = Zero
  <2>1. X0 # out(m_bb.out_idx) /\ X0 \in Registers
    BY InsideIs, ValueRegistersApart, OtherRegisters DEF out
  <2>2. \A k \in Pushed : X0 # SavedRegister(k)
    BY PushedIs DEF SavedWell
  <2> QED
    BY <1>4, <1>5, <2>1, <2>2 DEF Called
<1>7. MemRight(m_fn, p.mem, ready' \cup StackParams(m_fn))
  <2>1. Tame(m_fn, mem, c.mem) /\ Tame(m_fn, c.mem, o.mem)
    BY <1>4 DEF Called
  <2>2. Tame(m_fn, mem, p.mem)
    BY <1>5, <2>1, TameTrans
  <2>3. MemRight(m_fn, mem, ready \cup StackParams(m_fn))
    BY DEF Inside, Kept, MemHeld
  <2> QED
    BY <2>2, <2>3, InsideIs, TameKeeps
<1>8. \A k \in Pushed : p.reg[SavedRegister(k)] = reg[SavedRegister(k)]
  <2>1. ASSUME NEW k \in Pushed
        PROVE  o.mem[SavedSlot(m_fn, k)] = reg[SavedRegister(k)]
    <3>1. PICK a : a = SavedSlot(m_fn, k)
      OBVIOUS
    <3>2. a \in spill_args(m_fn) .. CallEnd - 1 /\ a \in Slots(m_fn)
      BY <3>1, PushedIs DEF SavedWell
    <3>3. a \in 0 .. saved_regs(m_fn) + spill_args(m_fn) - 1 /\ a >= spill_args(m_fn)
      BY <1>2, <3>2
    <3>4. o.mem[a] = c.mem[a]
      BY <1>4, <3>3
    <3>5. c.mem[a] = m.mem[a] /\ m.mem[a] = s.mem[a]
      BY <3>2, <3>3 DEF Called, Saves
    <3>6. s.mem[a] = reg[SavedRegister(k)]
      BY <3>1 DEF Pushes
    <3> QED
      BY <3>1, <3>4, <3>5, <3>6
  <2> QED
    BY <1>5, <2>1
<1>9. Place(m_fn, p.reg, p.mem, i) = Value(i)
  <2>1. CASE i < RegisterEnd(m_fn)
    <3>1. /\ ValueRegister(m_fn, i) \in Registers
          /\ \A k \in Pushed : ValueRegister(m_fn, i) # SavedRegister(k)
      BY <1>1, <1>2, <2>1, ValueRegistersApart, PushedIs DEF SavedWell
    <3> QED
      BY <1>1, <1>4, <1>5, <2>1, <3>1 DEF Place
  <2>2. CASE ~ (i < RegisterEnd(m_fn))
    BY <1>1, <1>4, <1>5, <2>2 DEF Place
  <2> QED
    BY <2>1, <2>2
<1>10. ASSUME "call_past_t" \notin Admit, NEW k \in Range(rest)
       PROVE  Place(m_fn, p.reg, p.mem, k) = Value(k)
  <2>1. k \in Range(live) /\ k \in Nat /\ k < i /\ k < m_bb.out_idx /\ Placed(k)
    BY <1>1, LiveIsPlaced, InsideIs
  <2>2. Place(m_fn, reg, mem, k) = Value(k)
    BY <1>10, <2>1 DEF Inside, Kept, LiveHeld, LiveKept, Place
  <2>3. CASE k < RegisterEnd(m_fn)
    <3>1. k < T_MAX \/ m_fn.args = 0
      BY <1>2, <1>10, <2>1, <2>3 DEF PastT
    <3>2. k \in Pushed /\ SavedRegister(k) = ValueRegister(m_fn, k)
      BY <2>1, <2>3, <3>1, InUseIsPushed
    <3> QED
      BY <1>8, <2>2, <2>3, <3>2 DEF Place
  <2>4. CASE ~ (k < RegisterEnd(m_fn))
    <3>1. PICK a : a = OutSlot(m_fn, k)
      OBVIOUS
    <3>2. k \in RegisterEnd(m_fn) .. m_fn.vals - 1
      BY <1>2, <2>1, <2>4 DEF Placed
    <3>3. a \in 0 .. RaSlot(m_fn) - 1 /\ a >= CallEnd
      BY <1>2, <3>1, <3>2, CallSlotsAreWorking
    <3>4. a \in Slots(m_fn) /\ a >= spill_args(m_fn)
      <4>1. a \in 0 .. stack_size(m_fn) + MaxParams
        BY <1>2, <3>3
      <4>2. a >= spill_args(m_fn)
        BY <1>2, <3>3
      <4> QED
        BY <4>1, <4>2 DEF Slots
    <3>5. Place(m_fn, o.reg, o.mem, k) = Place(m_fn, c.reg, c.mem, k)
      BY <1>1, <1>2, <1>4, <2>1
    <3>6. o.mem[a] = c.mem[a] /\ c.mem[a] = m.mem[a]
      BY <2>4, <3>1, <3>4, <3>5 DEF Place, Called
    <3>7. m.mem[a] = Value(k)
      BY <2>1, <2>2, <2>4, <3>1 DEF Carries, Place
    <3> QED
      BY <1>5, <2>4, <3>1, <3>6, <3>7 DEF Place
  <2> QED
    BY <2>3, <2>4
<1>11. Range(alive) = Range(rest) \cup {i}
  BY <1>1, <1>2, AppendIs
<1> QED
  BY <1>5, <1>6, <1>7, <1>9, <1>10, <1>11 DEF Holds

LEMMA WaitingIsCounted ==
    ASSUME NEW kinds \in Seq(Kinds), "waiting" \in Range(kinds)
    PROVE  WaitingIn(kinds) > 0
<1> DEFINE S == {k \in DOMAIN kinds : kinds[k] = "waiting"}
<1>1. DOMAIN kinds = 1 .. Len(kinds) /\ Len(kinds) \in Nat
  BY LenProperties
<1>2. IsFiniteSet(DOMAIN kinds)
  BY <1>1, FS_Interval
<1>3. S \in SUBSET DOMAIN kinds /\ S # {}
  BY DEF Range
<1>4. Cardinality(S) \in Nat /\ Cardinality(S) # 0
  <2> HIDE DEF S
  <2>1. IsFiniteSet(S)
    BY <1>2, <1>3, FS_Subset
  <2> QED  BY <1>3, <2>1, FS_EmptySet, FS_CardinalityType
<1> QED
  BY <1>4 DEF WaitingIn, Count

\* What a call does: "s" is the machine with the registers saved, "m" with the arguments
\* passed, and "c" when the callee is back.
CallsWith(kinds, returns, asked, s, m, c) ==
    /\ asked = Operands(kinds) /\ s = push(Machine) /\ m = PassAll(s, asked) /\ c = callee(m)
    /\ At(kinds) /\ passed + Len(kinds) <= m_fn.args
    /\ WaitingLate(kinds) => "waiting_arg" \in Admit
    /\ Uncounted(kinds, returns) => "spill_gap" \in Admit
    /\ m_fn.args > 0 /\ PastT(Rest(kinds)) => "call_past_t" \in Admit
    /\ passed' = passed + Len(kinds) /\ m_fn' = m_fn /\ ready' = ready
    /\ waiting' = RestWaiting(kinds) /\ took' = Received(m, asked)
    /\ returns => Computes(pop(oper(c)), Rest(kinds))
    /\ ~ returns => /\ m_bb' = [m_bb EXCEPT !.reg_idx = c.idx]
                    /\ Settle(c, <<>>)

LEMMA CallIs ==
    ASSUME NEW kinds, NEW returns, Call(kinds, returns)
    PROVE  \E asked, s, m, c : CallsWith(kinds, returns, asked, s, m, c)
<1>1. PICK asked : asked = Operands(kinds)
  OBVIOUS
<1>2. PICK s : s = push(Machine)
  OBVIOUS
<1>3. PICK m : m = PassAll(s, asked)
  OBVIOUS
<1>4. PICK c : c = callee(m)
  OBVIOUS
<1>5. m = PassAll(push(Machine), Operands(kinds))
  BY <1>1, <1>2, <1>3, Zenon
<1>6. /\ At(kinds) /\ passed + Len(kinds) <= m_fn.args
      /\ WaitingLate(kinds) => "waiting_arg" \in Admit
      /\ Uncounted(kinds, returns) => "spill_gap" \in Admit
      /\ m_fn.args > 0 /\ PastT(Rest(kinds)) => "call_past_t" \in Admit
      /\ passed' = passed + Len(kinds) /\ m_fn' = m_fn /\ ready' = ready
      /\ waiting' = RestWaiting(kinds)
  BY Zenon DEF Call, Resume
<1>7. LET q == PassAll(push(Machine), Operands(kinds))
      IN  /\ took' = Received(q, Operands(kinds))
          /\ returns => Computes(pop(oper(callee(q))), Rest(kinds))
          /\ ~ returns => /\ m_bb' = [m_bb EXCEPT !.reg_idx = callee(q).idx]
                          /\ Settle(callee(q), <<>>)
  BY Zenon DEF Call, PassAll
<1>8. took' = Received(m, asked) /\ (returns => Computes(pop(oper(c)), Rest(kinds)))
  BY <1>1, <1>4, <1>5, <1>7, Zenon
<1>9. ~ returns => m_bb' = [m_bb EXCEPT !.reg_idx = c.idx] /\ Settle(c, <<>>)
  BY <1>4, <1>5, <1>7, Zenon
<1>10. CallsWith(kinds, returns, asked, s, m, c)
  BY <1>1, <1>2, <1>3, <1>4, <1>6, <1>7, <1>8, <1>9, Zenon DEF CallsWith
<1> QED
  BY <1>10

LEMMA CallCarries ==
    ASSUME Inside, NEW kinds \in Seq(Kinds), NEW returns, NEW asked, NEW s, NEW m, NEW c,
           CallsWith(kinds, returns, asked, s, m, c)
    PROVE  /\ Pushes(s) /\ Passed(m, s, kinds, asked, Len(kinds)) /\ Called(m, c)
           /\ passed' \in Nat
<1>1. /\ asked = Operands(kinds) /\ s = push(Machine) /\ m = PassAll(s, asked)
      /\ c = callee(m) /\ At(kinds) /\ passed + Len(kinds) <= m_fn.args
      /\ WaitingLate(kinds) => "waiting_arg" \in Admit
      /\ Uncounted(kinds, returns) => "spill_gap" \in Admit
      /\ passed' = passed + Len(kinds)
      /\ returns => Computes(pop(oper(c)), Rest(kinds))
  BY Zenon DEF CallsWith
<1>2. Len(kinds) \in Nat /\ passed \in Nat /\ m_fn.args \in Nat
  BY LenProperties, InsideIs DEF Inside, Kept, Counted, Fits, Function
<1>3. Len(kinds) <= m_fn.args /\ passed' \in Nat
  BY <1>1, <1>2
<1>4. Admit = {} => ~ WaitingLate(kinds)
  BY <1>1
<1>5. "waiting" \in Range(kinds) => Placed(m_bb.out_idx)
  <2>1. CASE returns
    BY <1>1, <2>1, InsideIs DEF Computes, Placed
  <2>2. CASE ~ returns
    <3>1. "waiting" \in Range(kinds) => WaitingIn(kinds) > 0
      BY WaitingIsCounted
    <3>2. m_bb.out_idx \in Nat /\ RegisterEnd(m_fn) \in Nat
      BY InsideIs, RegisterEndIs
    <3> QED
      BY <1>1, <2>2, <3>1, <3>2 DEF Inside, Uncounted, Placed
  <2> QED
    BY <2>1, <2>2
<1>6. Pushes(s)
  BY <1>1, PushIs
<1>7. Passed(m, s, kinds, asked, Len(kinds))
  <2>1. Carries(s) /\ s.idx = m_bb.reg_idx
    BY <1>6 DEF Pushes
  <2>2. At(kinds) /\ asked = Operands(kinds) /\ m = PassAll(s, asked)
    BY <1>1, Zenon
  <2> QED
    BY <1>3, <1>4, <1>5, <2>1, <2>2, PassAllIs
<1>8. Called(m, c)
  BY <1>1, <1>7, CalleeIs DEF Passed
<1> QED
  BY <1>3, <1>6, <1>7, <1>8

LEMMA ArgumentsAreRight ==
    ASSUME Inside, Admit = {}, NEW kinds \in Seq(Kinds), At(kinds),
           NEW asked, asked = Operands(kinds), NEW s, NEW m,
           Passed(m, s, kinds, asked, Len(kinds)), NEW pair \in Received(m, asked)
    PROVE  pair[1] = pair[2]
<1>1. DOMAIN asked = 1 .. Len(kinds) /\ Len(kinds) \in Nat /\ A_MAX \in Nat
  BY AskedAre, InsideIs, RegisterEndIs
<1>2. PICK k \in DOMAIN asked :
          pair = <<asked[k], IF k <= A_MAX THEN m.reg[A(k - 1)] ELSE m.mem[ArgumentSlot(k - 1)]>>
  BY DEF Received
<1>3. PICK j \in Nat : j = k - 1
  BY <1>1
<1>4. k = j + 1 /\ j < Len(kinds) /\ (k <= A_MAX <=> j < A_MAX)
  BY <1>1, <1>3
<1>5. Passing(m, j) = asked[k]
  BY <1>4 DEF Passed
<1> QED
  BY <1>2, <1>3, <1>4, <1>5 DEF Passing

LEMMA CallStep ==
    ASSUME Inside, NEW kinds \in Seq(Kinds), NEW returns, Call(kinds, returns)
    PROVE  Kept' /\ Right'
<1>1. PICK asked, s, m, c : CallsWith(kinds, returns, asked, s, m, c)
  BY CallIs
<1>2. /\ asked = Operands(kinds) /\ At(kinds) /\ ParamsTaken
      /\ m_fn.args > 0 /\ PastT(Rest(kinds)) => "call_past_t" \in Admit
      /\ m_fn' = m_fn /\ ready' = ready
      /\ waiting' = RestWaiting(kinds) /\ took' = Received(m, asked)
  BY <1>1, Zenon DEF CallsWith, At
<1>3. /\ Pushes(s) /\ Passed(m, s, kinds, asked, Len(kinds)) /\ Called(m, c)
      /\ passed' \in Nat
  BY <1>1, CallCarries
<1>4. Right'
  <2>1. Admit = {} => \A pair \in Received(m, asked) : pair[1] = pair[2]
    BY <1>2, <1>3, ArgumentsAreRight
  <2> QED
    BY <1>2, <2>1 DEF Right, OperandsRight
<1>5. Remain(Rest(kinds), RestWaiting(kinds))
  BY <1>2, RestIs
<1>6. CASE returns
  <2>1. PICK rest : rest = Rest(kinds)
    OBVIOUS
  <2>2. PICK waits : waits = RestWaiting(kinds)
    OBVIOUS
  <2>3. PICK o : o = oper(c)
    OBVIOUS
  <2>4. PICK p : p = pop(o)
    OBVIOUS
  <2>5. PICK alive : alive = Append(rest, m_bb.out_idx)
    OBVIOUS
  <2>6. Computes(p, rest)
    BY <1>1, <1>6, <2>1, <2>3, <2>4, Zenon DEF CallsWith
  <2>7. /\ m_bb.out_idx < m_fn.vals /\ Settle(p, alive)
        /\ m_bb' = [reg_idx |-> m_bb.out_idx + 1, out_idx |-> m_bb.out_idx + 1]
    BY <2>5, <2>6 DEF Computes, Stepped
  <2>8. Remain(rest, waits) /\ rest \in Seq(Nat) /\ Range(rest) \subseteq Range(live)
    BY <1>5, <2>1, <2>2 DEF Remain, Ordered
  <2>9. Counts(alive)
    <3>1. Counts(Append(rest, m_bb.out_idx)) /\ Counts(<<>>)
      BY <1>2, <1>3, <2>2, <2>7, <2>8, ComputesCounts
    <3> QED
      BY <2>5, <3>1
  <2>10. Pops(o, p)
    <3>1. IsMachine(o)
      <4>1. o = Out(c, Value(m_bb.out_idx)) /\ IsMachine(c) /\ Fits(m_fn) /\ Placed(m_bb.out_idx)
        BY <1>3, <2>3, <2>7, InsideIs DEF oper, Called, Placed
      <4> QED
        BY <4>1, OutWrites
    <3> QED
      BY <2>4, <3>1, PopIs
  <2>11. Carries(m) /\ Saves(s, m)
    BY <1>3 DEF Passed, Saves
  <2>12. "call_past_t" \notin Admit => m_fn.args = 0 \/ ~ PastT(rest)
    <3>1. m_fn.args \in Nat
      BY InsideIs DEF Fits, Function
    <3> QED
      BY <1>2, <2>1, <3>1
  <2>13. Holds(p, alive)
    BY <1>2, <1>3, <2>3, <2>5, <2>7, <2>8, <2>10, <2>11, <2>12, CallHolds
  <2>14. Kept'
    BY <1>2, <2>7, <2>9, <2>13, StepKeeps
  <2> QED
    BY <1>4, <2>14
<1>7. CASE ~ returns
  <2>1. m_bb' = [m_bb EXCEPT !.reg_idx = c.idx] /\ Settle(c, <<>>)
    BY <1>1, <1>7, Zenon DEF CallsWith
  <2>2. c.idx \in Nat /\ m_bb.out_idx <= c.idx /\ m_bb \in [reg_idx : Nat, out_idx : Nat]
    BY <1>3 DEF Passed, Carries, Called, IsMachine, Inside, Kept, Counted
  <2>3. PICK waits : waits = RestWaiting(kinds)
    OBVIOUS
  <2>4. Remain(Rest(kinds), waits)
    BY <1>5, <2>3
  <2>5. Counts(<<>>)
    <3>1. m_bb' \in [reg_idx : Nat, out_idx : Nat] /\ m_bb'.out_idx <= m_bb'.reg_idx
          /\ m_bb'.out_idx <= m_fn.vals
      BY <2>1, <2>2, InsideIs
    <3>2. /\ waiting' \in Seq(Nat) /\ Range(waiting') \subseteq ready
          /\ ready' \subseteq 0 .. m_fn.allocs - 1 /\ ready \subseteq ready'
      BY <1>2, <2>3, <2>4, InsideIs DEF Remain
    <3> QED
      BY <1>3, <3>1, <3>2, EmptyCounts
  <2>6. Holds(c, <<>>)
    <3>1. MemRight(m_fn, mem, ready \cup StackParams(m_fn)) /\ Tame(m_fn, mem, c.mem)
      BY <1>3 DEF Inside, Kept, MemHeld, Called
    <3>2. MemRight(m_fn, c.mem, ready' \cup StackParams(m_fn))
      BY <1>2, <3>1, InsideIs, TameKeeps
    <3>3. Range(<<>>) = {}
      BY DEF Range
    <3> QED
      BY <1>3, <3>2, <3>3 DEF Holds, Called
  <2>7. Kept'
    BY <1>2, <2>1, <2>5, <2>6, StepKeeps
  <2> QED
    BY <1>4, <2>7
<1> QED
  BY <1>6, <1>7

-----------------------------------------------------------------------------
(* The specification. *)

LEMMA PatternsAreSequences ==
    ASSUME NEW n \in Nat, NEW kinds \in PatternsUpTo(n)
    PROVE  kinds \in Seq(Kinds)
<1>1. PICK k \in 0 .. n : kinds \in [1 .. k -> Kinds]
  BY DEF PatternsUpTo, BoundedSeq, SeqOf
<1> QED
  BY <1>1

LEMMA InitKept ==
    ASSUME Init
    PROVE  Kept /\ Right
<1>1. Outside
  BY IdleRegisters DEF Init, Outside
<1>2. Right
  BY DEF Init, Right, OperandsRight
<1> QED
  BY <1>1, <1>2, NothingKept

LEMMA StepIsRight ==
    ASSUME FramesFit, "spill_gap" \notin Admit, Kept, Right, [Next]_vars
    PROVE  Kept' /\ Right'
<1>1. CASE m_fn = None /\ Next
  <2>1. PICK fn \in Functions : Enter(fn)
    BY <1>1 DEF Next, TakeParam, Load, LoadEarly, Operate, StoreGlobal, Branch, Return,
                Store, Call, Discard, At
  <2> QED
    BY <2>1, EnterStep
<1>2. CASE m_fn # None /\ Next
  <2>1. Inside
    BY <1>2 DEF Inside
  <2>2. \A kinds \in Patterns : kinds \in Seq(Kinds)
    BY PatternsAreSequences DEF Patterns
  <2>3. \A kinds \in ArgumentPatterns : kinds \in Seq(Kinds)
    BY PatternsAreSequences, CodegenAssumption DEF ArgumentPatterns
  <2>4. ASSUME NEW fn \in Functions, Enter(fn)
        PROVE  Kept' /\ Right'
    BY <1>2, <2>4 DEF Enter
  <2>5. ASSUME NEW n \in 0 .. MaxAllocs, TakeParam(n) \/ Load(n) \/ LoadEarly(n)
        PROVE  Kept' /\ Right'
    BY <2>1, <2>5, TakeParamStep, LoadStep, LoadEarlyStep
  <2>6. ASSUME NEW kinds \in Patterns,
               Operate(kinds) \/ StoreGlobal(kinds) \/ Branch(kinds) \/ Return(kinds)
        PROVE  Kept' /\ Right'
    BY <2>1, <2>2, <2>6, OperateStep, StoreGlobalStep, BranchStep, ReturnStep
  <2>7. ASSUME NEW kinds \in Patterns, NEW n \in 0 .. MaxAllocs, Store(kinds, n)
        PROVE  Kept' /\ Right'
    BY <2>1, <2>2, <2>7, StoreStep
  <2>8. ASSUME NEW kinds \in ArgumentPatterns, NEW returns \in BOOLEAN, Call(kinds, returns)
        PROVE  Kept' /\ Right'
    BY <2>1, <2>3, <2>8, CallStep
  <2>9. ASSUME Discard
        PROVE  Kept' /\ Right'
    BY <2>1, <2>9, DiscardStep
  <2> QED
    BY <1>2, <2>4, <2>5, <2>6, <2>7, <2>8, <2>9, Zenon DEF Next
<1>3. CASE UNCHANGED vars
  <2>1. /\ m_fn' = m_fn /\ m_bb' = m_bb /\ passed' = passed /\ live' = live
        /\ waiting' = waiting /\ split' = split /\ ready' = ready /\ reg' = reg
        /\ mem' = mem /\ took' = took
    BY <1>3 DEF vars
  <2>2. FnRight' /\ Counted' /\ LiveOrdered' /\ Stored'
    BY <2>1 DEF Kept, FnRight, Counted, LiveOrdered, Stored
  <2>3. RegsHeld' /\ MemHeld' /\ ParamsHeld' /\ LiveHeld'
    BY <2>1 DEF Kept, RegsHeld, MemHeld, ParamsHeld, LiveHeld, LiveKept
  <2>4. Right'
    BY <2>1 DEF Right, OperandsRight
  <2> QED
    BY <2>2, <2>3, <2>4 DEF Kept
<1> QED
  BY <1>1, <1>2, <1>3

LEMMA AlwaysKept ==
    ASSUME FramesFit, "spill_gap" \notin Admit
    PROVE  Spec => [](Kept /\ Right)
<1>1. Init => Kept /\ Right
  BY InitKept
<1>2. (Kept /\ Right) /\ [Next]_vars => (Kept /\ Right)'
  BY StepIsRight
<1> QED
  BY <1>1, <1>2, PTL DEF Spec

LEMMA KeptIsTyped ==
    ASSUME FramesFit, "spill_gap" \notin Admit, Kept
    PROVE  TypeOK
<1>1. m_fn \in Functions \cup {None}
  BY DEF Kept, FnRight
<1>2. m_bb \in [reg_idx : Nat, out_idx : Nat] /\ m_bb.out_idx <= m_bb.reg_idx /\ passed \in Nat
  BY DEF Kept, Counted
<1>3. \A k \in DOMAIN live : live[k] < m_bb.out_idx /\ (k > 1 => live[k - 1] < live[k])
  <2>1. /\ live \in Seq(Nat) /\ DOMAIN live = 1 .. Len(live) /\ Len(live) \in Nat
        /\ \A k \in 1 .. Len(live) : live[k] < m_bb.out_idx /\ \A j \in 1 .. k - 1 : live[j] < live[k]
    BY LenProperties DEF Kept, LiveOrdered, Ordered
  <2>2. \A k \in 1 .. Len(live) : k > 1 => k - 1 \in 1 .. k - 1
    BY <2>1
  <2> QED
    BY <2>1, <2>2
<1>4. ready \subseteq 0 .. MaxAllocs /\ Range(waiting) \subseteq ready
  <2>1. CASE m_fn = None
    BY <2>1 DEF Kept, Stored
  <2>2. CASE m_fn # None
    <3>1. Fits(m_fn) /\ m_fn.allocs <= MaxAllocs /\ MaxAllocs \in Nat
      BY <2>2, FunctionFits, CodegenAssumption DEF Kept, MaxAllocs
    <3>2. ready \subseteq 0 .. m_fn.allocs - 1 /\ Range(waiting) \subseteq ready
      BY <2>2 DEF Kept, Stored
    <3> QED
      BY <3>1, <3>2 DEF Fits, Function
  <2> QED
    BY <2>1, <2>2
<1>5. DOMAIN reg = Registers /\ (m_fn # None => DOMAIN mem = Slots(m_fn))
  BY DEF Kept, RegsHeld, MemHeld, MemRight
<1> QED
  BY <1>1, <1>2, <1>3, <1>4, <1>5 DEF TypeOK

\* Types, and that the indices of the values still to be used grow (codegen.c: m_bb, m_fn).
\* Functions whose calls need a register that holds a spilled value are left out.
THEOREM TypesAreRight ==
    ASSUME FramesFit, "spill_gap" \notin Admit
    PROVE  Spec => []TypeOK
<1>1. Spec => [](Kept /\ Right)
  BY AlwaysKept
<1>2. Kept => TypeOK
  BY KeptIsTyped
<1> QED
  BY <1>1, <1>2, PTL

\* Nothing an instruction puts on the stack - a spilled value, a saved register, an outgoing
\* argument - is put over a variable or a parameter that came on the stack.
THEOREM VariablesAreKept ==
    ASSUME FramesFit, "spill_gap" \notin Admit
    PROVE  Spec => []VarsKept
<1>1. Spec => [](Kept /\ Right)
  BY AlwaysKept
<1>2. Kept => VarsKept
  BY DEF Kept, Stored, MemHeld, MemRight, VarsIn, VarsKept
<1> QED
  BY <1>1, <1>2, PTL

\* The return address stays where raw_kind_return looks for it, and the words of the caller
\* are its own.
THEOREM FrameIsKept ==
    ASSUME FramesFit, "spill_gap" \notin Admit
    PROVE  Spec => []FrameKept
<1>1. Spec => [](Kept /\ Right)
  BY AlwaysKept
<1>2. Kept => FrameKept
  BY DEF Kept, MemHeld, MemRight, FrameIn, FrameKept, StackParams
<1> QED
  BY <1>1, <1>2, PTL

\* A value still to be used is where opnd looks for it, whatever was called, spilled and
\* stored meanwhile, as long as no call is made while a value waits in an a register.
THEOREM ValuesAreKept ==
    ASSUME FramesFit, Admit \cap {"spill_gap", "call_past_t"} = {}
    PROVE  Spec => []LiveKept
<1>1. Spec => [](Kept /\ Right)
  BY AlwaysKept
<1>2. Kept => LiveKept
  BY DEF Kept, LiveHeld
<1> QED
  BY <1>1, <1>2, PTL

\* Every instruction, and every callee, finds its operands: for the functions that have no
\* call past the t registers, no gap for spilled values and no second waiting argument.
THEOREM OperandsAreRight ==
    ASSUME FramesFit, Admit = {}
    PROVE  Spec => []OperandsRight
<1>1. Spec => [](Kept /\ Right)
  BY AlwaysKept
<1>2. Right => OperandsRight
  BY DEF Right
<1> QED
  BY <1>1, <1>2, PTL
=============================================================================
