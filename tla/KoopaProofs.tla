---------------------------- MODULE KoopaProofs ----------------------------
(***************************************************************************)
(* Theorems about the Koopa objects and the area they are in, for areas    *)
(* and programs of any size.                                               *)
(***************************************************************************)
EXTENDS Koopa, TLAPS, SequenceTheorems, FiniteSetTheorems,
        WellFoundedInduction

-----------------------------------------------------------------------------
(* The words of the area. *)

Fields(p, m, o, b, r) == [ptr |-> p, mem |-> m, ok |-> o, blocks |-> b, reach |-> r]

IsArea(a) == a = Fields(a.ptr, a.mem, a.ok, a.blocks, a.reach)

LEMMA FieldsAre ==
    ASSUME NEW p, NEW m, NEW o, NEW b, NEW r, NEW a, a = Fields(p, m, o, b, r)
    PROVE  /\ a.ptr = p /\ a.mem = m /\ a.ok = o /\ a.blocks = b /\ a.reach = r
           /\ IsArea(a)
<1>1. a.ptr = p /\ a.mem = m /\ a.ok = o /\ a.blocks = b /\ a.reach = r
  BY DEF Fields
<1> QED
  BY <1>1 DEF IsArea

\* What memory becomes when words are written.
Written(m, at, words) ==
    [w \in DOMAIN m \cup (at .. at + Len(words) - 1) |->
        IF w \in at .. at + Len(words) - 1 THEN words[w - at + 1] ELSE m[w]]

LEMMA WriteToFields ==
    ASSUME NEW p, NEW m, NEW o, NEW b, NEW r, NEW at, NEW words
    PROVE  Write(Fields(p, m, o, b, r), at, words) =
               Fields(p, Written(m, at, words), o, b, r)
<1>1. Fields(p, m, o, b, r).mem = m
  BY FieldsAre
<1>2. [Fields(p, m, o, b, r) EXCEPT !.mem = Written(m, at, words)] =
          Fields(p, Written(m, at, words), o, b, r)
  BY DEF Fields
<1>3. Write(Fields(p, m, o, b, r), at, words) =
          [Fields(p, m, o, b, r) EXCEPT !.mem = Written(Fields(p, m, o, b, r).mem, at, words)]
  BY Zenon DEF Write, Written
<1> QED
  BY <1>1, <1>2, <1>3, Zenon

LEMMA WriteIs ==
    ASSUME NEW a, IsArea(a), NEW at \in Int, NEW words, Len(words) \in Nat,
           NEW r, r = Write(a, at, words)
    PROVE  /\ IsArea(r) /\ r.ptr = a.ptr /\ r.ok = a.ok /\ r.blocks = a.blocks
           /\ r.reach = a.reach
           /\ \A w : Read(r, w) = IF w \in at .. at + Len(words) - 1
                                  THEN words[w - at + 1] ELSE Read(a, w)
<1>1. r = Fields(a.ptr, Written(a.mem, at, words), a.ok, a.blocks, a.reach)
  <2>1. PICK p : p = a.ptr
    OBVIOUS
  <2>2. PICK m : m = a.mem
    OBVIOUS
  <2>3. PICK o : o = a.ok
    OBVIOUS
  <2>4. PICK b : b = a.blocks
    OBVIOUS
  <2>5. PICK e : e = a.reach
    OBVIOUS
  <2>6. a = Fields(p, m, o, b, e)
    BY <2>1, <2>2, <2>3, <2>4, <2>5 DEF IsArea
  <2>7. r = Write(Fields(p, m, o, b, e), at, words)
    BY <2>6
  <2>8. r = Fields(p, Written(m, at, words), o, b, e)
    BY <2>7, WriteToFields
  <2> QED
    BY <2>1, <2>2, <2>3, <2>4, <2>5, <2>8
<1>2. /\ IsArea(r) /\ r.ptr = a.ptr /\ r.ok = a.ok /\ r.blocks = a.blocks
      /\ r.reach = a.reach /\ r.mem = Written(a.mem, at, words)
  BY <1>1, FieldsAre
<1>3. \A w : Read(r, w) = IF w \in at .. at + Len(words) - 1
                          THEN words[w - at + 1] ELSE Read(a, w)
  BY <1>2 DEF Read, Written
<1> QED
  BY <1>2, <1>3

LEMMA AlignedIs ==
    ASSUME NEW p \in Int
    PROVE  aligned(p) \in Int /\ aligned(p) <= p /\ p <= aligned(p) + 1
<1>1. p % 2 \in 0 .. 1
  OBVIOUS
<1> QED
  BY <1>1 DEF aligned, ALIGNMENT

\* An area is sound, and what is free in it is below everything that is not.
Solid(a) ==
    /\ IsArea(a) /\ a.ptr \in Nat /\ a.ptr <= Size /\ a.ok \in BOOLEAN
    /\ \A b \in a.blocks : /\ b.at \in Nat /\ b.size \in Nat
                           /\ a.ptr <= b.at - 2 /\ 1 <= b.at - 2 /\ b.at + b.size <= Size
                           /\ Read(a, b.at - 2) = b.size
    /\ \A b, c \in a.blocks : b # c => \/ b.at + b.size <= c.at - 2
                                       \/ c.at + c.size <= b.at - 2
    /\ a.reach \in Nat /\ a.reach <= Size

LEMMA SolidIsSound ==
    ASSUME NEW a, Solid(a)
    PROVE  Sound(a)
<1>1. Size \in Nat
  BY BumpAssumption
<1>2. ASSUME NEW b \in a.blocks
      PROVE  Words(b) \subseteq 1 .. Size - 1 /\ Read(a, Header(b.at)) = b.size
  <2>1. /\ b.at \in Nat /\ b.size \in Nat /\ 1 <= b.at - 2 /\ b.at + b.size <= Size
        /\ Read(a, b.at - 2) = b.size
    BY DEF Solid
  <2>2. Words(b) = b.at - 2 .. b.at + b.size - 1 /\ Header(b.at) = b.at - 2
    BY DEF Words, Header, ALIGNMENT
  <2>3. ASSUME NEW w \in b.at - 2 .. b.at + b.size - 1
        PROVE  w \in 1 .. Size - 1
    BY <1>1, <2>1
  <2> QED
    BY <2>1, <2>2, <2>3
<1>3. ASSUME NEW b \in a.blocks, NEW c \in a.blocks \ {b}
      PROVE  Words(b) \cap Words(c) = {}
  <2>1. /\ b.at \in Nat /\ b.size \in Nat /\ c.at \in Nat /\ c.size \in Nat
        /\ b.at + b.size <= c.at - 2 \/ c.at + c.size <= b.at - 2
    BY <1>3 DEF Solid
  <2>2. /\ Words(b) = b.at - 2 .. b.at + b.size - 1
        /\ Words(c) = c.at - 2 .. c.at + c.size - 1
    BY DEF Words, Header, ALIGNMENT
  <2>3. \A w : ~ (w \in b.at - 2 .. b.at + b.size - 1 /\ w \in c.at - 2 .. c.at + c.size - 1)
    BY <2>1
  <2> QED
    BY <2>2, <2>3
<1>4. a.reach <= Size
  BY DEF Solid
<1> QED
  BY <1>2, <1>3, <1>4 DEF Sound

\* What is written below or inside no header changes nothing.
LEMMA SolidWrite ==
    ASSUME NEW a, Solid(a), NEW at \in Int, NEW words, Len(words) \in Nat,
           NEW r, r = Write(a, at, words),
           \A b \in a.blocks : b.at - 2 < at \/ at + Len(words) <= b.at - 2
    PROVE  Solid(r)
<1>1. /\ IsArea(r) /\ r.ptr = a.ptr /\ r.ok = a.ok /\ r.blocks = a.blocks
      /\ r.reach = a.reach
      /\ \A w : Read(r, w) = IF w \in at .. at + Len(words) - 1
                             THEN words[w - at + 1] ELSE Read(a, w)
  BY WriteIs DEF Solid
<1>2. PICK n : n = Len(words)
  OBVIOUS
<1>3. ASSUME NEW b \in a.blocks
      PROVE  Read(r, b.at - 2) = b.size
  <2>1. /\ b.at \in Nat /\ Read(a, b.at - 2) = b.size
        /\ b.at - 2 < at \/ at + n <= b.at - 2
    BY <1>2 DEF Solid
  <2>2. b.at - 2 \notin at .. at + n - 1
    BY <1>2, <2>1
  <2> QED
    BY <1>1, <1>2, <2>1, <2>2
<1> QED
  BY <1>1, <1>3 DEF Solid

LEMMA OffIs ==
    ASSUME NEW a, IsArea(a), NEW r, r = [a EXCEPT !.ok = FALSE]
    PROVE  /\ IsArea(r) /\ r.ptr = a.ptr /\ r.mem = a.mem /\ ~r.ok
           /\ r.blocks = a.blocks /\ r.reach = a.reach
<1>1. /\ r.ptr = a.ptr /\ r.mem = a.mem /\ r.ok = FALSE
      /\ r.blocks = a.blocks /\ r.reach = a.reach
      /\ r = Fields(a.ptr, a.mem, FALSE, a.blocks, a.reach)
  BY DEF IsArea, Fields
<1>2. ~r.ok
  BY <1>1, Zenon
<1>3. IsArea(r)
  BY <1>1, Zenon DEF IsArea
<1> QED
  BY <1>1, <1>2, <1>3

Lower(a, ptr, b) == [a EXCEPT !.ptr = ptr, !.blocks = @ \cup {b}]

LEMMA LowerIs ==
    ASSUME NEW a, IsArea(a), NEW ptr, NEW b, NEW r, r = Lower(a, ptr, b)
    PROVE  /\ IsArea(r) /\ r.ptr = ptr /\ r.mem = a.mem /\ r.ok = a.ok
           /\ r.blocks = a.blocks \cup {b} /\ r.reach = a.reach
<1>1. r = Fields(ptr, a.mem, a.ok, a.blocks \cup {b}, a.reach)
  BY DEF IsArea, Fields, Lower
<1> QED
  BY <1>1, FieldsAre

Reached(a, e) == [a EXCEPT !.reach = IF e > @ THEN e ELSE @]

LEMMA ReachIs ==
    ASSUME NEW a, IsArea(a), NEW e, NEW r, r = Reached(a, e)
    PROVE  /\ IsArea(r) /\ r.ptr = a.ptr /\ r.mem = a.mem /\ r.ok = a.ok
           /\ r.blocks = a.blocks /\ r.reach = IF e > a.reach THEN e ELSE a.reach
<1>1. r = Fields(a.ptr, a.mem, a.ok, a.blocks, IF e > a.reach THEN e ELSE a.reach)
  BY DEF IsArea, Fields, Reached
<1> QED
  BY <1>1, FieldsAre

\* What is in use in an area stays the same, and what has failed does not work again.
Keeps(a, b) == /\ b.ptr <= a.ptr
               /\ b.ok => a.ok
               /\ \A w \in Int : a.ptr <= w => Read(b, w) = Read(a, w)

LEMMA KeepsOn ==
    ASSUME NEW a, NEW b, NEW c, a.ptr \in Nat, b.ptr \in Nat, c.ptr \in Nat,
           Keeps(a, b), Keeps(b, c)
    PROVE  Keeps(a, c)
<1>1. /\ b.ptr <= a.ptr /\ c.ptr <= b.ptr /\ (b.ok => a.ok) /\ (c.ok => b.ok)
      /\ \A w \in Int : a.ptr <= w => Read(b, w) = Read(a, w)
      /\ \A w \in Int : b.ptr <= w => Read(c, w) = Read(b, w)
  BY DEF Keeps
<1>2. c.ptr <= a.ptr /\ \A w \in Int : a.ptr <= w => b.ptr <= w
  BY <1>1
<1> QED
  BY <1>1, <1>2 DEF Keeps

\* A new block: it and its header are where the area was free.
Made(a, r, at, size) ==
    /\ a.ok /\ r.ok /\ at \in Nat /\ r.ptr = at - 2 /\ 1 <= at - 2 /\ at + size <= a.ptr
    /\ Read(r, at - 2) = size
    /\ r.blocks = a.blocks \cup {[at |-> at, size |-> size]}
    /\ r.reach = a.reach
    /\ \A w \in Int : a.ptr <= w => Read(r, w) = Read(a, w)

LEMMA MallocIs ==
    ASSUME NEW a, Solid(a), NEW size \in Nat, NEW r, r = bump_malloc(a, size)
    PROVE  Solid(r) /\ Keeps(a, r) /\ (r.ok => Made(a, r, Alloc(a, size), size))
<1>1. PICK at : at = Alloc(a, size)
  OBVIOUS
<1>2. at \in Int /\ at + size <= a.ptr /\ a.ptr \in Nat /\ IsArea(a)
  <2>1. a.ptr \in Nat /\ IsArea(a)
    BY DEF Solid
  <2>2. PICK p : p = a.ptr - size
    OBVIOUS
  <2>3. at = aligned(p) /\ p \in Int
    BY <1>1, <2>1, <2>2 DEF Alloc
  <2> QED
    BY <2>1, <2>2, <2>3, AlignedIs
<1>3. Header(at) = at - 2
  BY DEF Header, ALIGNMENT
<1>4. CASE ~a.ok \/ at - 2 <= 0
  <2>1. r = [a EXCEPT !.ok = FALSE]
    BY <1>1, <1>3, <1>4 DEF bump_malloc
  <2>2. /\ IsArea(r) /\ r.ptr = a.ptr /\ r.mem = a.mem /\ ~r.ok
        /\ r.blocks = a.blocks /\ r.reach = a.reach
    BY <1>2, <2>1, OffIs
  <2>3. r.ok = FALSE
    BY <1>2, <2>1 DEF IsArea, Fields
  <2>4. \A w : Read(r, w) = Read(a, w)
    BY <2>2 DEF Read
  <2>5. Solid(r)
    BY <2>2, <2>3, <2>4 DEF Solid
  <2>6. Keeps(a, r)
    BY <1>2, <2>2, <2>4 DEF Keeps
  <2> QED
    BY <2>2, <2>5, <2>6
<1>5. CASE ~(~a.ok \/ at - 2 <= 0)
  <2>1. a.ok /\ at \in Nat /\ 1 <= at - 2
    BY <1>2, <1>5
  <2>2. PICK b : b = [at |-> at, size |-> size]
    OBVIOUS
  <2>3. PICK lower : lower = [a EXCEPT !.ptr = at - 2, !.blocks = @ \cup {b}]
    OBVIOUS
  <2>4. /\ IsArea(lower) /\ lower.ptr = at - 2 /\ lower.mem = a.mem /\ lower.ok = a.ok
        /\ lower.blocks = a.blocks \cup {b} /\ lower.reach = a.reach
    <3>1. PICK ptr : ptr = at - 2
      OBVIOUS
    <3>2. lower = Lower(a, ptr, b)
      BY <2>3, <3>1, Zenon DEF Lower
    <3>3. /\ IsArea(lower) /\ lower.ptr = ptr /\ lower.mem = a.mem /\ lower.ok = a.ok
          /\ lower.blocks = a.blocks \cup {b} /\ lower.reach = a.reach
      BY <1>2, <3>2, LowerIs
    <3> QED
      BY <3>1, <3>3
  <2>5. r = Write(lower, at - 2, <<size>>)
    BY <1>1, <1>3, <1>5, <2>2, <2>3 DEF bump_malloc
  <2>6. PICK words : words = <<size>>
    OBVIOUS
  <2>7. Len(words) = 1 /\ words[1] = size
    BY <2>6
  <2>8. /\ IsArea(r) /\ r.ptr = at - 2 /\ r.ok = a.ok
        /\ r.blocks = a.blocks \cup {b} /\ r.reach = a.reach
        /\ \A w : Read(r, w) = IF w \in at - 2 .. at - 2 + 1 - 1
                               THEN words[w - (at - 2) + 1] ELSE Read(lower, w)
    <3>1. r = Write(lower, at - 2, words) /\ at - 2 \in Int /\ Len(words) \in Nat
      BY <1>2, <2>5, <2>6, <2>7
    <3>2. PICK to : to = at - 2
      OBVIOUS
    <3>3. r = Write(lower, to, words) /\ to \in Int /\ IsArea(lower)
      BY <2>4, <3>1, <3>2
    <3>4. /\ IsArea(r) /\ r.ptr = lower.ptr /\ r.ok = lower.ok
          /\ r.blocks = lower.blocks /\ r.reach = lower.reach
          /\ \A w : Read(r, w) = IF w \in to .. to + Len(words) - 1
                                 THEN words[w - to + 1] ELSE Read(lower, w)
      BY ONLY <3>1, <3>3, WriteIs
    <3> QED
      BY <2>4, <2>7, <3>2, <3>4
  <2>9. \A w : Read(lower, w) = Read(a, w)
    BY <2>4 DEF Read
  <2>10. \A w \in Int : Read(r, w) = IF w = at - 2 THEN size ELSE Read(a, w)
    <3>1. \A w \in Int : w \in at - 2 .. at - 2 + 1 - 1 <=> w = at - 2
      BY <1>2
    <3>2. (at - 2) - (at - 2) + 1 = 1
      BY <1>2
    <3>3. ASSUME NEW w \in Int, w = at - 2
          PROVE  Read(r, w) = size
      <4>1. w \in at - 2 .. at - 2 + 1 - 1 /\ w - (at - 2) + 1 = 1
        BY <3>1, <3>2, <3>3
      <4> QED
        BY <2>7, <2>8, <4>1
    <3>4. ASSUME NEW w \in Int, w # at - 2
          PROVE  Read(r, w) = Read(a, w)
      BY <2>8, <2>9, <3>1, <3>4
    <3> QED
      BY <3>3, <3>4
  <2>11. Made(a, r, at, size)
    <3>1. \A w \in Int : a.ptr <= w => w # at - 2
      BY <1>2
    <3>2. at - 2 \in Int
      BY <1>2
    <3> QED
      BY <1>2, <2>1, <2>2, <2>8, <2>10, <3>1, <3>2 DEF Made
  <2>12. Solid(r)
    <3>1. b.at = at /\ b.size = size
      BY <2>2
    <3>2. at + size <= Size /\ a.ptr <= Size /\ at - 2 \in Nat /\ at - 2 <= Size
      BY <1>2, <2>1, BumpAssumption DEF Solid
    <3>3. ASSUME NEW c \in r.blocks
          PROVE  /\ c.at \in Nat /\ c.size \in Nat
                 /\ at - 2 <= c.at - 2 /\ 1 <= c.at - 2 /\ c.at + c.size <= Size
                 /\ Read(r, c.at - 2) = c.size
      <4>1. CASE c = b
        BY <2>1, <2>10, <3>1, <3>2, <4>1
      <4>2. CASE c \in a.blocks
        <5>1. /\ c.at \in Nat /\ c.size \in Nat /\ a.ptr <= c.at - 2 /\ 1 <= c.at - 2
              /\ c.at + c.size <= Size /\ Read(a, c.at - 2) = c.size
          BY <4>2 DEF Solid
        <5>2. c.at - 2 # at - 2 /\ at - 2 <= c.at - 2 /\ c.at - 2 \in Int
          BY <1>2, <5>1
        <5> QED
          BY <2>10, <5>1, <5>2
      <4> QED
        BY <2>8, <3>3, <4>1, <4>2
    <3>4. ASSUME NEW c \in r.blocks, NEW d \in r.blocks, c # d
          PROVE  c.at + c.size <= d.at - 2 \/ d.at + d.size <= c.at - 2
      <4>1. CASE c \in a.blocks /\ d \in a.blocks
        BY <3>4, <4>1 DEF Solid
      <4>2. \A e \in a.blocks : at + size <= e.at - 2
        <5>1. \A e \in a.blocks : e.at \in Nat /\ a.ptr <= e.at - 2
          BY DEF Solid
        <5> QED
          BY <1>2, <5>1
      <4> QED
        BY <2>8, <3>1, <3>4, <4>1, <4>2
    <3>5. r.ok \in BOOLEAN /\ r.reach \in Nat /\ r.reach <= Size
      BY <2>8 DEF Solid
    <3> QED
      BY <2>8, <3>2, <3>3, <3>4, <3>5 DEF Solid
  <2>13. Keeps(a, r)
    <3>1. r.ptr <= a.ptr
      BY <1>2, <2>8
    <3> QED
      BY <2>11, <3>1 DEF Keeps, Made
  <2> QED
    BY <1>1, <2>11, <2>12, <2>13
<1> QED
  BY <1>4, <1>5

LEMMA WordsAre ==
    ASSUME NEW a, NEW from, NEW n \in Nat,
           NEW s, s = [k \in 1 .. n |-> Read(a, from + k - 1)]
    PROVE  Len(s) = n /\ \A k \in 1 .. n : s[k] = Read(a, from + k - 1)
<1>1. s \in Seq({Read(a, from + k - 1) : k \in 1 .. n})
  <2>1. PICK S : S = {Read(a, from + k - 1) : k \in 1 .. n}
    OBVIOUS
  <2>2. s \in [1 .. n -> S]
    BY <2>1
  <2>3. s \in Seq(S)
    BY <2>2, SeqDef
  <2> QED
    BY <2>1, <2>3
<1>2. Len(s) \in Nat /\ DOMAIN s = 1 .. Len(s) /\ DOMAIN s = 1 .. n
  BY <1>1, LenProperties
<1> QED
  BY <1>2

\* A copy goes to a new block, and the old one stays.
Copies(a, r, at, n, old) ==
    /\ a.ok /\ r.ok /\ at \in Nat /\ r.ptr = at - 2 /\ at + n <= a.ptr
    /\ \A w \in Int : a.ptr <= w => Read(r, w) = Read(a, w)
    /\ \A k \in 1 .. n : Read(r, at + k - 1) = Read(a, old + k - 1)
    /\ r.blocks = a.blocks \cup {[at |-> at, size |-> n]}

LEMMA ReallocIs ==
    ASSUME NEW a, Solid(a), NEW old \in Nat, NEW n \in Nat, a.ptr <= old, old + n <= Size,
           NEW r, r = bump_realloc(a, old, n), NEW at, at = Alloc(a, n)
    PROVE  Solid(r) /\ Keeps(a, r) /\ (r.ok => Copies(a, r, at, n, old))
<1>1. PICK grown : grown = bump_malloc(a, n)
  OBVIOUS
<1>2. Solid(grown) /\ Keeps(a, grown) /\ (grown.ok => Made(a, grown, at, n))
  BY <1>1, MallocIs
<1>3. CASE ~grown.ok
  <2>1. r = grown
    BY <1>1, <1>3 DEF bump_realloc
  <2> QED
    BY <1>2, <1>3, <2>1
<1>4. CASE grown.ok
  <2>1. Made(a, grown, at, n)
    BY <1>2, <1>4
  <2>2. /\ a.ok /\ at \in Nat /\ grown.ptr = at - 2 /\ 1 <= at - 2 /\ at + n <= a.ptr
        /\ Read(grown, at - 2) = n
        /\ grown.blocks = a.blocks \cup {[at |-> at, size |-> n]}
        /\ \A w \in Int : a.ptr <= w => Read(grown, w) = Read(a, w)
    BY <2>1 DEF Made
  <2>3. Copied(grown, at) = n
    BY <2>2 DEF Copied, Header, ALIGNMENT
  <2>4. PICK s : s = [k \in 1 .. n |-> Read(grown, old + k - 1)]
    OBVIOUS
  <2>5. Len(s) = n /\ \A k \in 1 .. n : s[k] = Read(grown, old + k - 1)
    BY <2>4, WordsAre
  <2>6. PICK e : e = old + n
    OBVIOUS
  <2>7. PICK g : g = Reached(grown, e)
    OBVIOUS
  <2>8. r = Write(g, at, s)
    BY <1>1, <1>4, <2>3, <2>4, <2>6, <2>7, Zenon DEF bump_realloc, Reached
  <2>9. /\ IsArea(g) /\ g.ptr = grown.ptr /\ g.mem = grown.mem /\ g.ok = grown.ok
        /\ g.blocks = grown.blocks /\ g.reach = IF e > grown.reach THEN e ELSE grown.reach
    BY <1>2, <2>7, ReachIs DEF Solid
  <2>10. Solid(g)
    <3>1. \A w : Read(g, w) = Read(grown, w)
      BY <2>9 DEF Read
    <3>2. g.reach \in Nat /\ g.reach <= Size
      <4>1. e \in Nat /\ e <= Size /\ grown.reach \in Nat /\ grown.reach <= Size
        BY <1>2, <2>6 DEF Solid
      <4> QED
        BY <2>9, <4>1
    <3> QED
      BY <1>2, <2>9, <3>1, <3>2 DEF Solid
  <2>11. \A b \in g.blocks : b.at - 2 < at \/ at + n <= b.at - 2
    <3>1. PICK new : new = [at |-> at, size |-> n]
      OBVIOUS
    <3>2. \A b \in a.blocks : b.at \in Nat /\ a.ptr <= b.at - 2
      BY DEF Solid
    <3>3. a.ptr \in Nat /\ new.at = at
      BY <3>1 DEF Solid
    <3>4. \A b \in a.blocks : at + n <= b.at - 2
      BY <2>2, <3>2, <3>3
    <3>5. at - 2 < at
      BY <2>2
    <3> QED
      BY <2>2, <2>9, <3>1, <3>3, <3>4, <3>5
  <2>12. Solid(r)
    BY <2>2, <2>5, <2>8, <2>10, <2>11, SolidWrite
  <2>13. /\ r.ptr = g.ptr /\ r.ok = g.ok /\ r.blocks = g.blocks
         /\ \A w : Read(r, w) = IF w \in at .. at + n - 1 THEN s[w - at + 1] ELSE Read(g, w)
    <3>1. at \in Int /\ Len(s) \in Nat /\ Len(s) = n
      BY <2>2, <2>5
    <3>2. /\ r.ptr = g.ptr /\ r.ok = g.ok /\ r.blocks = g.blocks
          /\ \A w : Read(r, w) = IF w \in at .. at + Len(s) - 1
                                 THEN s[w - at + 1] ELSE Read(g, w)
      BY <2>8, <2>9, <3>1, WriteIs
    <3> QED
      BY <3>1, <3>2
  <2>14. \A w : Read(g, w) = Read(grown, w)
    BY <2>9 DEF Read
  <2>15. \A w \in Int : a.ptr <= w => Read(r, w) = Read(a, w)
    <3>1. a.ptr \in Nat
      BY DEF Solid
    <3>2. \A w \in Int : a.ptr <= w => w \notin at .. at + n - 1
      BY <2>2, <3>1
    <3> QED
      BY <2>2, <2>13, <2>14, <3>2
  <2>16. \A k \in 1 .. n : Read(r, at + k - 1) = Read(a, old + k - 1)
    <3>1. ASSUME NEW k \in 1 .. n
          PROVE  Read(r, at + k - 1) = Read(a, old + k - 1)
      <4>1. at + k - 1 \in at .. at + n - 1 /\ (at + k - 1) - at + 1 = k
        BY <2>2
      <4>2. Read(r, at + k - 1) = Read(grown, old + k - 1)
        BY <2>5, <2>13, <4>1
      <4>3. old + k - 1 \in Int /\ a.ptr <= old + k - 1
        BY DEF Solid
      <4> QED
        BY <2>2, <4>2, <4>3
    <3> QED
      BY <3>1
  <2>17. Copies(a, r, at, n, old)
    BY <1>4, <2>2, <2>9, <2>13, <2>15, <2>16 DEF Copies
  <2>18. Keeps(a, r)
    <3>1. r.ptr <= a.ptr
      BY <1>2, <2>9, <2>13 DEF Keeps
    <3> QED
      BY <2>2, <2>15, <3>1 DEF Keeps
  <2> QED
    BY <2>12, <2>17, <2>18
<1> QED
  BY <1>3, <1>4

-----------------------------------------------------------------------------
(* The slices. *)

Slice == [len : Nat, buffer : Nat]

\* What the area and the slices in it must be before every call, and are after it.
\* The word above a slice is in the area, too: the copy reads it.
Store(a, sl) ==
    /\ Solid(a) /\ (a.ok => a.ptr < Size)
    /\ \A l \in DOMAIN sl :
          /\ sl[l] \in Slice
          /\ sl[l].len > 0 => a.ptr <= sl[l].buffer /\ sl[l].buffer + sl[l].len < Size


\* No slice but this one changes, and it is longer by the item.
Grew(a, sl, b, tl, list, item) ==
    /\ DOMAIN tl = DOMAIN sl
    /\ tl[list].len = sl[list].len + 1
    /\ \A k \in 1 .. sl[list].len :
          Read(b, tl[list].buffer + k - 1) = Read(a, sl[list].buffer + k - 1)
    /\ Read(b, tl[list].buffer + sl[list].len) = item
    /\ \A l \in DOMAIN sl \ {list} : tl[l] = sl[l]
    /\ \A w \in Int : a.ptr <= w => Read(b, w) = Read(a, w)

LEMMA AppendIs ==
    ASSUME NEW a, NEW sl, Store(a, sl), NEW list \in DOMAIN sl, NEW item,
           NEW r, r = slice_append([area |-> a, slices |-> sl], list, item)
    PROVE  /\ r = [area |-> r.area, slices |-> r.slices]
           /\ Store(r.area, r.slices)
           /\ r.area.ok => a.ok /\ Grew(a, sl, r.area, r.slices, list, item)
           /\ DOMAIN r.slices = DOMAIN sl /\ Keeps(a, r.area)
<1>1. PICK st : st = [area |-> a, slices |-> sl]
  OBVIOUS
<1>2. st.area = a /\ st.slices = sl
  BY <1>1
<1>3. PICK len : len = sl[list].len
  OBVIOUS
<1>4. PICK old : old = sl[list].buffer
  OBVIOUS
<1>5. PICK n : n = len + 1
  OBVIOUS
<1>6. /\ len \in Nat /\ old \in Nat /\ n \in Nat /\ n > 0 /\ n - 1 = len /\ sl[list] \in Slice
      /\ Solid(a) /\ a.ptr \in Nat
      /\ len > 0 => a.ptr <= old /\ old + len < Size
  <2>1. sl[list] \in Slice /\ Solid(a) /\ (len > 0 => a.ptr <= old /\ old + len < Size)
    BY <1>3, <1>4 DEF Store
  <2>2. len \in Nat /\ old \in Nat
    BY <1>3, <1>4, <2>1 DEF Slice
  <2> QED
    BY <1>5, <2>1, <2>2 DEF Solid
<1>7. PICK b : b = IF len = 0 THEN bump_malloc(a, 1) ELSE bump_realloc(a, old, n)
  OBVIOUS
<1>8. PICK at : at = Alloc(a, n)
  OBVIOUS
<1>9. /\ Solid(b) /\ Keeps(a, b)
      /\ b.ok => /\ a.ok /\ at \in Nat /\ b.ptr = at - 2 /\ at + n <= a.ptr
                 /\ \A w \in Int : a.ptr <= w => Read(b, w) = Read(a, w)
                 /\ \A k \in 1 .. len : Read(b, at + k - 1) = Read(a, old + k - 1)
                 /\ b.blocks = a.blocks \cup {[at |-> at, size |-> n]}
  <2>1. CASE len = 0
    <3>1. b = bump_malloc(a, n) /\ 1 .. len = {}
      BY <1>5, <1>7, <2>1
    <3>2. Solid(b) /\ Keeps(a, b) /\ (b.ok => Made(a, b, at, n))
      BY <1>6, <1>8, <3>1, MallocIs
    <3> QED
      BY <3>1, <3>2 DEF Made
  <2>2. CASE len # 0
    <3>1. b = bump_realloc(a, old, n) /\ a.ptr <= old /\ old + n <= Size /\ len \in Nat
      BY <1>5, <1>6, <1>7, <2>2, BumpAssumption
    <3>2. Solid(b) /\ Keeps(a, b) /\ (b.ok => Copies(a, b, at, n, old))
      BY <1>6, <1>8, <3>1, ReallocIs
    <3>3. \A k \in 1 .. len : k \in 1 .. n
      BY <1>5, <1>6
    <3> QED
      BY <3>2, <3>3 DEF Copies
  <2> QED
    BY <2>1, <2>2
<1>10. r = IF ~b.ok THEN [st EXCEPT !.area = b]
           ELSE [area   |-> Write(b, at + n - 1, <<item>>),
                 slices |-> [sl EXCEPT ![list] = [len |-> n, buffer |-> at]]]
  BY <1>1, <1>2, <1>3, <1>4, <1>5, <1>7, <1>8, Zenon DEF slice_append
<1>11. CASE ~b.ok
  <2>1. r = [area |-> b, slices |-> sl]
    BY <1>1, <1>10, <1>11
  <2>2. r.area = b /\ r.slices = sl
    BY <2>1
  <2>3. \A l \in DOMAIN sl : sl[l].len > 0 => b.ptr <= sl[l].buffer
    <3>1. b.ptr \in Nat /\ b.ptr <= a.ptr
      BY <1>9 DEF Solid, Keeps
    <3> QED
      BY <1>6, <3>1 DEF Store, Slice
  <2>4. Store(b, sl)
    BY <1>9, <1>11, <2>3 DEF Store
  <2> QED
    BY <1>9, <1>11, <2>1, <2>2, <2>4
<1>12. CASE b.ok
  <2>1. PICK c : c = Write(b, at + n - 1, <<item>>)
    OBVIOUS
  <2>2. PICK tl : tl = [sl EXCEPT ![list] = [len |-> n, buffer |-> at]]
    OBVIOUS
  <2>3. r = [area |-> c, slices |-> tl] /\ r.area = c /\ r.slices = tl
    <3>1. r = [area |-> c, slices |-> tl]
      BY <1>10, <1>12, <2>1, <2>2, Zenon
    <3> QED
      BY <3>1
  <2>4. /\ a.ok /\ at \in Nat /\ b.ptr = at - 2 /\ at + n <= a.ptr
        /\ \A w \in Int : a.ptr <= w => Read(b, w) = Read(a, w)
        /\ \A k \in 1 .. len : Read(b, at + k - 1) = Read(a, old + k - 1)
        /\ b.blocks = a.blocks \cup {[at |-> at, size |-> n]}
    BY <1>9, <1>12
  <2>5. PICK words : words = <<item>>
    OBVIOUS
  <2>6. PICK last : last = at + n - 1
    OBVIOUS
  <2>7. /\ c = Write(b, last, words) /\ last \in Int /\ Len(words) = 1 /\ words[1] = item
        /\ Len(words) \in Nat
    BY <1>6, <2>1, <2>4, <2>5, <2>6
  <2>8. \A x \in b.blocks : x.at - 2 < last \/ last + 1 <= x.at - 2
    <3>1. PICK new : new = [at |-> at, size |-> n]
      OBVIOUS
    <3>2. new.at = at /\ at - 2 < last
      BY <1>6, <2>4, <2>6, <3>1
    <3>3. \A x \in a.blocks : last + 1 <= x.at - 2
      <4>1. \A x \in a.blocks : x.at \in Nat /\ a.ptr <= x.at - 2
        BY <1>6 DEF Solid
      <4>2. last + 1 <= a.ptr /\ last \in Int
        BY <1>6, <2>4, <2>6
      <4> QED
        BY <1>6, <4>1, <4>2
    <3> QED
      BY <2>4, <3>1, <3>2, <3>3
  <2>9. Solid(c)
    BY <1>9, <2>7, <2>8, SolidWrite
  <2>10. /\ c.ptr = b.ptr /\ c.ok = b.ok
         /\ \A w \in Int : Read(c, w) = IF w = last THEN item ELSE Read(b, w)
    <3>1. IsArea(b)
      BY <1>9 DEF Solid
    <3>2. /\ c.ptr = b.ptr /\ c.ok = b.ok
          /\ \A w : Read(c, w) = IF w \in last .. last + Len(words) - 1
                                 THEN words[w - last + 1] ELSE Read(b, w)
      <4>1. c = Write(b, last, words) /\ last \in Int /\ Len(words) \in Nat
        BY <2>7
      <4> QED
        BY <3>1, <4>1, WriteIs
    <3>3. \A w \in Int : w \in last .. last + 1 - 1 <=> w = last
      BY <2>7
    <3>4. last - last + 1 = 1
      BY <2>7
    <3> QED
      BY <2>7, <3>2, <3>3, <3>4
  <2>11. /\ DOMAIN tl = DOMAIN sl /\ tl[list].len = n /\ tl[list].buffer = at
         /\ tl[list] \in Slice
         /\ \A l \in DOMAIN sl \ {list} : tl[l] = sl[l]
    BY <1>6, <2>2, <2>4 DEF Slice
  <2>12. Grew(a, sl, c, tl, list, item)
    <3>1. \A k \in 1 .. len : Read(c, at + k - 1) = Read(a, old + k - 1)
      <4>1. \A k \in 1 .. len : at + k - 1 # last /\ at + k - 1 \in Int
        BY <1>5, <1>6, <2>4, <2>6
      <4> QED
        BY <2>4, <2>10, <4>1
    <3>2. Read(c, at + len) = item
      <4>1. at + len = last
        BY <1>5, <1>6, <2>4, <2>6
      <4> QED
        BY <2>7, <2>10, <4>1
    <3>3. \A w \in Int : a.ptr <= w => Read(c, w) = Read(a, w)
      <4>1. \A w \in Int : a.ptr <= w => w # last
        BY <1>6, <2>4, <2>6
      <4> QED
        BY <2>4, <2>10, <4>1
    <3> QED
      BY <1>3, <1>4, <1>5, <2>11, <3>1, <3>2, <3>3 DEF Grew
  <2>13. Store(c, tl)
    <3>1. c.ptr < Size /\ at + n < Size /\ c.ptr <= at /\ c.ptr <= a.ptr
      BY <1>6, <2>4, <2>10, BumpAssumption DEF Store
    <3>2. ASSUME NEW l \in DOMAIN tl
          PROVE  /\ tl[l] \in Slice
                 /\ tl[l].len > 0 => c.ptr <= tl[l].buffer /\ tl[l].buffer + tl[l].len < Size
      <4>1. CASE l = list
        BY <2>11, <3>1, <4>1
      <4>2. CASE l # list
        <5>1. tl[l] = sl[l] /\ sl[l] \in Slice
              /\ (sl[l].len > 0 => a.ptr <= sl[l].buffer /\ sl[l].buffer + sl[l].len < Size)
          BY <2>11, <3>2, <4>2 DEF Store
        <5>2. sl[l].buffer \in Nat /\ c.ptr \in Int
          BY <2>4, <2>10, <5>1 DEF Slice
        <5> QED
          BY <1>6, <3>1, <5>1, <5>2
      <4> QED
        BY <4>1, <4>2
    <3> QED
      BY <2>9, <3>1, <3>2 DEF Store
  <2>14. Keeps(a, c)
    <3>1. c.ptr <= a.ptr
      BY <1>9, <2>10 DEF Keeps
    <3> QED
      BY <2>4, <2>12, <3>1 DEF Keeps, Grew
  <2> QED
    BY <2>3, <2>4, <2>11, <2>12, <2>13, <2>14
<1> QED
  BY <1>11, <1>12

-----------------------------------------------------------------------------
(* Folds. *)

\* A set that has 0 and the successor of each of its naturals has every natural.
LEMMA SetInduction ==
    ASSUME NEW G, 0 \in G, \A n \in Nat : n \in G => n + 1 \in G
    PROVE  Nat \subseteq G
<1> DEFINE R == {ss \in Nat \X Nat : ss[1] < ss[2]}
           U == {n \in Nat : n \notin G}
<1> SUFFICES ASSUME U # {} PROVE FALSE
  OBVIOUS
<1>1. IsWellFoundedOn(R, Nat)
  BY NatLessThanWellFounded, Zenon DEF OpToRel
<1>2. PICK m \in U : \A u \in U : ~(<<u, m>> \in R)
  <2>1. U \subseteq Nat
    OBVIOUS
  <2> HIDE DEF R, U
  <2> QED  BY <1>1, <2>1, WFMin
<1>3. m \in Nat /\ m # 0 /\ m \notin G
  OBVIOUS
<1>4. m - 1 \in Nat /\ m - 1 < m
  BY <1>3
<1>5. m - 1 \in G
  BY <1>2, <1>3, <1>4
<1> QED
  BY <1>3, <1>4, <1>5

\* What the folds of New do with the k-th element: "use", with the number of the new
\* object, appends it to a list of users, and 0 in its place makes a block.
FoldStep(use, asked, m, k) ==
    IF use = 0 THEN bump_malloc(m, asked[k])
               ELSE slice_append(m, <<asked[k], "used_by">>, use)

\* What they have made after 0, 1, ... n of them.
FoldRun(run, use, asked, m, n) ==
    /\ run[0] = m
    /\ \A k \in 0 .. n - 1 : run[k + 1] = FoldStep(use, asked, run[k], k + 1)

\* A fold as MapThenFoldSet has it: over sets of places, the greatest last.
FoldTable(F, use, asked, m, n) ==
    F = [s \in SUBSET (1 .. n) |->
            IF s = {} THEN m ELSE FoldStep(use, asked, F[s \ {Max(s)}], Max(s))]

LEMMA MaxIsLast ==
    ASSUME NEW n \in Nat, NEW s \in SUBSET (1 .. n + 1), n + 1 \in s
    PROVE  Max(s) = n + 1
<1>1. \A y \in s : n + 1 >= y
  OBVIOUS
<1>2. Max(s) \in s /\ \A y \in s : Max(s) >= y
  BY <1>1 DEF Max
<1>3. Max(s) \in 1 .. n + 1 /\ Max(s) >= n + 1
  BY <1>2
<1> QED
  BY <1>3

LEMMA FoldTableExists ==
    ASSUME NEW use, NEW asked, NEW m
    PROVE  \A n \in Nat : \E F : FoldTable(F, use, asked, m, n)
<1> DEFINE G == {n \in Nat : \E F : FoldTable(F, use, asked, m, n)}
<1>1. 0 \in G
  <2> DEFINE F == [s \in SUBSET (1 .. 0) |-> m]
  <2>1. 1 .. 0 = {}
    OBVIOUS
  <2>2. F = [s \in SUBSET (1 .. 0) |->
               IF s = {} THEN m ELSE FoldStep(use, asked, F[s \ {Max(s)}], Max(s))]
    BY <2>1
  <2> HIDE DEF F
  <2> QED
    BY <2>2 DEF FoldTable
<1>2. ASSUME NEW n \in Nat, n \in G
      PROVE  n + 1 \in G
  <2>1. PICK F : FoldTable(F, use, asked, m, n)
    BY <1>2
  <2> DEFINE H == [s \in SUBSET (1 .. n + 1) |->
                     IF n + 1 \in s THEN FoldStep(use, asked, F[s \ {n + 1}], n + 1)
                                    ELSE F[s]]
             B(s) == IF s = {} THEN m
                     ELSE FoldStep(use, asked, H[s \ {Max(s)}], Max(s))
  <2>2. ASSUME NEW s \in SUBSET (1 .. n + 1), n + 1 \in s
        PROVE  H[s] = B(s)
    <3>1. Max(s) = n + 1 /\ s # {}
      BY <2>2, MaxIsLast
    <3>2. s \ {n + 1} \in SUBSET (1 .. n + 1) /\ n + 1 \notin s \ {n + 1}
      OBVIOUS
    <3>3. H[s \ {n + 1}] = F[s \ {n + 1}]
      BY <3>2
    <3>4. H[s] = FoldStep(use, asked, F[s \ {n + 1}], n + 1)
      BY <2>2
    <3> HIDE DEF H
    <3> QED
      BY <3>1, <3>3, <3>4
  <2>3. ASSUME NEW s \in SUBSET (1 .. n + 1), n + 1 \notin s
        PROVE  H[s] = B(s)
    <3>1. s \in SUBSET (1 .. n)
      BY <2>3
    <3>2. H[s] = F[s]
      BY <2>3
    <3>3. F[s] = IF s = {} THEN m ELSE FoldStep(use, asked, F[s \ {Max(s)}], Max(s))
      BY <2>1, <3>1 DEF FoldTable
    <3>4. H[s \ {Max(s)}] = F[s \ {Max(s)}]
      BY <2>3
    <3> HIDE DEF H
    <3> QED
      BY <3>2, <3>3, <3>4
  <2>4. FoldTable(H, use, asked, m, n + 1)
    <3>1. \A s \in SUBSET (1 .. n + 1) : H[s] = B(s)
      BY <2>2, <2>3
    <3>2. H = [s \in SUBSET (1 .. n + 1) |-> H[s]]
      OBVIOUS
    <3> HIDE DEF H
    <3> QED
      BY <3>1, <3>2 DEF FoldTable
  <2> HIDE DEF H
  <2> QED
    BY <2>4
<1>3. Nat \subseteq G
  <2> HIDE DEF G
  <2> QED  BY <1>1, <1>2, SetInduction
<1> QED
  BY <1>3

LEMMA FoldTableRuns ==
    ASSUME NEW use, NEW asked, NEW m, NEW n \in Nat, NEW F,
           FoldTable(F, use, asked, m, n)
    PROVE  \E run : FoldRun(run, use, asked, m, n) /\ run[n] = F[1 .. n]
<1> DEFINE run == [k \in 0 .. n |-> F[1 .. k]]
<1>1. run[0] = m
  <2>1. 1 .. 0 = {} /\ {} \in SUBSET (1 .. n)
    OBVIOUS
  <2> QED  BY <2>1 DEF FoldTable
<1>2. ASSUME NEW k \in 0 .. n - 1
      PROVE  run[k + 1] = FoldStep(use, asked, run[k], k + 1)
  <2>1. /\ k \in Nat /\ k \in 0 .. n /\ k + 1 \in 0 .. n
        /\ 1 .. k + 1 \in SUBSET (1 .. n) /\ k + 1 \in 1 .. k + 1
    OBVIOUS
  <2>2. Max(1 .. k + 1) = k + 1
    BY <2>1, MaxIsLast
  <2>3. (1 .. k + 1) \ {k + 1} = 1 .. k
    BY <2>1
  <2>4. F[1 .. k + 1] = FoldStep(use, asked, F[(1 .. k + 1) \ {k + 1}], k + 1)
    BY <2>1, <2>2 DEF FoldTable
  <2> QED
    BY <2>1, <2>3, <2>4
<1>3. run[n] = F[1 .. n]
  OBVIOUS
<1> HIDE DEF run
<1> QED
  BY <1>1, <1>2, <1>3 DEF FoldRun

LEMMA MallocFold ==
    ASSUME NEW asked, NEW n \in Nat, DOMAIN asked = 1 .. n, NEW m
    PROVE  \E run : FoldRun(run, 0, asked, m, n) /\ FoldLeft(bump_malloc, m, asked) = run[n]
<1> DEFINE Tabled(F) == F = [s \in SUBSET (1 .. n) |->
                            IF s = {} THEN m ELSE bump_malloc(F[s \ {Max(s)}], asked[Max(s)])]
           F == CHOOSE f : Tabled(f)
<1>1. \A f : Tabled(f) <=> FoldTable(f, 0, asked, m, n)
  BY DEF FoldTable, FoldStep
<1>2. Tabled(F)
  <2>1. \E f : Tabled(f)
    <3> HIDE DEF Tabled
    <3> QED  BY <1>1, FoldTableExists
  <2> HIDE DEF Tabled
  <2> QED  BY <2>1
<1>3. FoldLeft(bump_malloc, m, asked) = F[1 .. n]
  BY Zenon DEF FoldLeft, MapThenFoldSet
<1> HIDE DEF F, Tabled
<1> QED
  BY <1>1, <1>2, <1>3, FoldTableRuns

\* The new object is entered in the lists of users.
EnterAll(m, uses, id) ==
    FoldLeft(LAMBDA s, o : slice_append(s, <<o, "used_by">>, id), m, uses)

LEMMA UseFold ==
    ASSUME NEW asked, NEW n \in Nat, DOMAIN asked = 1 .. n, NEW m, NEW id, id # 0
    PROVE  \E run : FoldRun(run, id, asked, m, n) /\ EnterAll(m, asked, id) = run[n]
<1> DEFINE Tabled(F) == F = [s \in SUBSET (1 .. n) |->
                            IF s = {} THEN m
                            ELSE slice_append(F[s \ {Max(s)}], <<asked[Max(s)], "used_by">>, id)]
           F == CHOOSE f : Tabled(f)
<1>1. \A f : Tabled(f) <=> FoldTable(f, id, asked, m, n)
  BY DEF FoldTable, FoldStep
<1>2. Tabled(F)
  <2>1. \E f : Tabled(f)
    <3> HIDE DEF Tabled
    <3> QED  BY <1>1, FoldTableExists
  <2> HIDE DEF Tabled
  <2> QED  BY <2>1
<1>3. EnterAll(m, asked, id) = F[1 .. n]
  BY Zenon DEF EnterAll, FoldLeft, MapThenFoldSet
<1> HIDE DEF F, Tabled
<1> QED
  BY <1>1, <1>2, <1>3, FoldTableRuns

-----------------------------------------------------------------------------
(* What a builder does to the area and the slices. *)

LEMMA StoreLower ==
    ASSUME NEW a, NEW sl, Store(a, sl), NEW b, Solid(b), b.ptr <= a.ptr, b.ok => a.ok
    PROVE  Store(b, sl)
<1>1. a.ptr \in Nat /\ b.ptr \in Nat /\ Size \in Nat
  BY BumpAssumption DEF Store, Solid
<1>2. b.ok => b.ptr < Size
  <2>1. a.ok => a.ptr < Size
    BY DEF Store
  <2> QED
    BY <1>1, <2>1
<1>3. ASSUME NEW l \in DOMAIN sl
      PROVE  /\ sl[l] \in Slice
             /\ sl[l].len > 0 => b.ptr <= sl[l].buffer /\ sl[l].buffer + sl[l].len < Size
  <2>1. /\ sl[l] \in Slice
        /\ sl[l].len > 0 => a.ptr <= sl[l].buffer /\ sl[l].buffer + sl[l].len < Size
    BY DEF Store
  <2>2. sl[l].buffer \in Nat
    BY <2>1 DEF Slice
  <2> QED
    BY <1>1, <2>1, <2>2
<1> QED
  BY <1>2, <1>3 DEF Store

LEMMA MallocsAre ==
    ASSUME NEW a, Solid(a), NEW n \in Nat, NEW sizes, DOMAIN sizes = 1 .. n,
           \A k \in 1 .. n : sizes[k] \in Nat,
           NEW r, r = FoldLeft(bump_malloc, a, sizes)
    PROVE  Solid(r) /\ Keeps(a, r)
<1>1. PICK run : FoldRun(run, 0, sizes, a, n) /\ r = run[n]
  <2>1. \E run : FoldRun(run, 0, sizes, a, n) /\ FoldLeft(bump_malloc, a, sizes) = run[n]
    BY MallocFold
  <2>2. PICK run : FoldRun(run, 0, sizes, a, n) /\ FoldLeft(bump_malloc, a, sizes) = run[n]
    BY <2>1, Zenon
  <2>3. r = run[n]
    BY <2>2, Zenon
  <2> QED
    BY <2>2, <2>3
<1> DEFINE G == {k \in Nat : k <= n => Solid(run[k]) /\ Keeps(a, run[k])}
<1>2. 0 \in G
  <2>1. run[0] = a
    BY <1>1 DEF FoldRun
  <2>2. Keeps(a, a)
    BY DEF Keeps, Solid
  <2> QED
    BY <2>1, <2>2
<1>3. ASSUME NEW k \in Nat, k \in G
      PROVE  k + 1 \in G
  <2>1. CASE k + 1 <= n
    <3>1. k \in 0 .. n - 1 /\ k + 1 \in 1 .. n
      BY <2>1
    <3>2. PICK b : b = run[k]
      OBVIOUS
    <3>3. PICK size : size = sizes[k + 1]
      OBVIOUS
    <3>4. PICK c : c = run[k + 1]
      OBVIOUS
    <3>5. Solid(b) /\ Keeps(a, b) /\ size \in Nat
      BY <1>3, <3>1, <3>2, <3>3
    <3>6. c = bump_malloc(b, size)
      BY <1>1, <3>1, <3>2, <3>3, <3>4 DEF FoldRun, FoldStep
    <3>7. Solid(c) /\ Keeps(b, c)
      BY <3>5, <3>6, MallocIs
    <3>9. a.ptr \in Nat /\ b.ptr \in Nat /\ c.ptr \in Nat
      BY <3>5, <3>7 DEF Solid
    <3>10. Keeps(a, c)
      BY <3>5, <3>7, <3>9, KeepsOn
    <3> QED
      BY <3>4, <3>7, <3>10
  <2> QED
    BY <2>1
<1>4. n \in G
  <2> HIDE DEF G
  <2> QED
    BY <1>2, <1>3, SetInduction
<1> QED
  BY <1>1, <1>4

\* Some of the operands, each as often as it is one, have the new user at the end.
Entered(a, sl, b, tl, asked, n, id) ==
    /\ DOMAIN tl = DOMAIN sl
    /\ \A l \in DOMAIN sl :
          /\ tl[l].len = sl[l].len + Cardinality({j \in 1 .. n : <<asked[j], "used_by">> = l})
          /\ \A k \in 1 .. sl[l].len :
                Read(b, tl[l].buffer + k - 1) = Read(a, sl[l].buffer + k - 1)
          /\ \A k \in sl[l].len + 1 .. tl[l].len : Read(b, tl[l].buffer + k - 1) = id

\* How often one is among the first k operands.
Times(asked, k, l) == {j \in 1 .. k : <<asked[j], "used_by">> = l}

LEMMA TimesIs ==
    ASSUME NEW asked, NEW l, NEW k \in Nat
    PROVE  /\ IsFiniteSet(Times(asked, k, l)) /\ Cardinality(Times(asked, k, l)) \in Nat
           /\ Cardinality(Times(asked, 0, l)) = 0
           /\ Cardinality(Times(asked, k + 1, l)) =
                  Cardinality(Times(asked, k, l))
                      + IF <<asked[k + 1], "used_by">> = l THEN 1 ELSE 0
<1>1. PICK s : s = Times(asked, k, l)
  OBVIOUS
<1>2. IsFiniteSet(s) /\ Cardinality(s) \in Nat
  <2>1. IsFiniteSet(1 .. k) /\ s \subseteq 1 .. k
    BY <1>1, FS_Interval DEF Times
  <2>2. IsFiniteSet(s)
    BY <2>1, FS_Subset
  <2> QED
    BY <2>2, FS_CardinalityType
<1>3. Times(asked, 0, l) = {}
  BY DEF Times
<1>4. Cardinality(Times(asked, 0, l)) = 0
  BY <1>3, FS_EmptySet
<1>5. k + 1 \notin s
  BY <1>1 DEF Times
<1>6. Times(asked, k + 1, l) = s \cup IF <<asked[k + 1], "used_by">> = l THEN {k + 1} ELSE {}
  BY <1>1 DEF Times
<1>7. CASE <<asked[k + 1], "used_by">> = l
  <2>1. Cardinality(s \cup {k + 1}) = Cardinality(s) + 1
    BY <1>2, <1>5, FS_AddElement
  <2> QED
    BY <1>1, <1>2, <1>4, <1>6, <1>7, <2>1
<1>8. CASE <<asked[k + 1], "used_by">> # l
  <2>1. Times(asked, k + 1, l) = s
    BY <1>6, <1>8
  <2> QED
    BY <1>1, <1>2, <1>4, <1>8, <2>1
<1> QED
  BY <1>7, <1>8

LEMMA EnterOne ==
    ASSUME NEW a, NEW sl, Store(a, sl), NEW b, NEW tl, Store(b, tl), NEW c, NEW ul,
           NEW k \in Nat, NEW asked, NEW id, Entered(a, sl, b, tl, asked, k, id),
           NEW list, list = <<asked[k + 1], "used_by">>, list \in DOMAIN tl,
           Grew(b, tl, c, ul, list, id), Store(c, ul)
    PROVE  Entered(a, sl, c, ul, asked, k + 1, id)
<1>1. /\ DOMAIN tl = DOMAIN sl /\ DOMAIN ul = DOMAIN tl
      /\ ul[list].len = tl[list].len + 1
      /\ \A j \in 1 .. tl[list].len :
            Read(c, ul[list].buffer + j - 1) = Read(b, tl[list].buffer + j - 1)
      /\ Read(c, ul[list].buffer + tl[list].len) = id
      /\ \A l \in DOMAIN tl \ {list} : ul[l] = tl[l]
      /\ \A w \in Int : b.ptr <= w => Read(c, w) = Read(b, w)
  BY DEF Grew, Entered
<1> SUFFICES ASSUME NEW l \in DOMAIN sl
             PROVE  /\ ul[l].len = sl[l].len + Cardinality(Times(asked, k + 1, l))
                    /\ \A j \in 1 .. sl[l].len :
                          Read(c, ul[l].buffer + j - 1) = Read(a, sl[l].buffer + j - 1)
                    /\ \A j \in sl[l].len + 1 .. ul[l].len : Read(c, ul[l].buffer + j - 1) = id
  BY <1>1 DEF Entered, Times
<1>2. PICK more : more = Cardinality(Times(asked, k, l))
  OBVIOUS
<1>3. PICK m : m = sl[l].len
  OBVIOUS
<1>4. PICK n : n = tl[l].len
  OBVIOUS
<1>5. /\ n = m + more
      /\ \A j \in 1 .. m : Read(b, tl[l].buffer + j - 1) = Read(a, sl[l].buffer + j - 1)
      /\ \A j \in m + 1 .. n : Read(b, tl[l].buffer + j - 1) = id
  BY <1>2, <1>3, <1>4 DEF Entered, Times
<1>6. /\ more \in Nat /\ m \in Nat /\ n \in Nat /\ m <= n
      /\ Cardinality(Times(asked, k + 1, l)) = more + IF list = l THEN 1 ELSE 0
  <2>1. more \in Nat /\ Cardinality(Times(asked, k + 1, l)) = more + IF list = l THEN 1 ELSE 0
    BY <1>2, TimesIs
  <2>2. m \in Nat
    BY <1>3 DEF Store, Slice
  <2> QED
    BY <1>5, <2>1, <2>2
<1>7. CASE l = list
  <2>1. /\ ul[l].len = n + 1
        /\ \A j \in 1 .. n : Read(c, ul[l].buffer + j - 1) = Read(b, tl[l].buffer + j - 1)
        /\ Read(c, ul[l].buffer + n) = id
    BY <1>1, <1>4, <1>7
  <2>2. \A j \in 1 .. m : j \in 1 .. n
    BY <1>6
  <2>3. ASSUME NEW j \in m + 1 .. n + 1
        PROVE  Read(c, ul[l].buffer + j - 1) = id
    <3>1. CASE j \in m + 1 .. n
      <4>1. j \in 1 .. n
        BY <1>6, <3>1
      <4> QED
        BY <1>5, <2>1, <3>1, <4>1
    <3>2. CASE j = n + 1
      <4>1. PICK at : at = ul[l].buffer
        OBVIOUS
      <4>2. at \in Nat
        BY <1>1, <4>1 DEF Store, Slice
      <4>3. at + j - 1 = at + n
        BY <1>6, <3>2, <4>2
      <4> QED
        BY <2>1, <4>1, <4>3
    <3> QED
      BY <1>6, <2>3, <3>1, <3>2
  <2>4. ul[l].len = m + Cardinality(Times(asked, k + 1, l))
    BY <1>5, <1>6, <1>7, <2>1
  <2>5. \A j \in 1 .. m : Read(c, ul[l].buffer + j - 1) = Read(a, sl[l].buffer + j - 1)
    BY <1>5, <2>1, <2>2
  <2>6. \A j \in m + 1 .. ul[l].len : Read(c, ul[l].buffer + j - 1) = id
    BY <2>1, <2>3
  <2> QED
    BY <1>3, <2>4, <2>5, <2>6
<1>8. CASE l # list
  <2>1. ul[l] = tl[l]
    BY <1>1, <1>8
  <2>2. \A j \in 1 .. n : Read(c, tl[l].buffer + j - 1) = Read(b, tl[l].buffer + j - 1)
    <3>1. PICK at : at = tl[l].buffer
      OBVIOUS
    <3>2. at \in Nat /\ b.ptr \in Nat /\ (n > 0 => b.ptr <= at)
      BY <1>1, <1>4, <3>1 DEF Store, Slice, Solid
    <3>3. \A j \in 1 .. n : at + j - 1 \in Int /\ b.ptr <= at + j - 1
      BY <1>6, <3>2
    <3> QED
      BY <1>1, <3>1, <3>3
  <2>3. \A j \in 1 .. m : j \in 1 .. n
    BY <1>6
  <2>4. \A j \in m + 1 .. n : j \in 1 .. n
    BY <1>6
  <2>5. ul[l].len = m + Cardinality(Times(asked, k + 1, l))
    <3>1. ul[l].len = n /\ n = m + more
      BY <1>4, <1>5, <2>1
    <3>2. Cardinality(Times(asked, k + 1, l)) = more
      BY <1>6, <1>8
    <3> QED
      BY <3>1, <3>2
  <2>6. \A j \in 1 .. m : Read(c, ul[l].buffer + j - 1) = Read(a, sl[l].buffer + j - 1)
    BY <1>5, <2>1, <2>2, <2>3
  <2>7. \A j \in m + 1 .. ul[l].len : Read(c, ul[l].buffer + j - 1) = id
    BY <1>4, <1>5, <2>1, <2>2, <2>4
  <2> QED
    BY <1>3, <2>5, <2>6, <2>7
<1> QED
  BY <1>7, <1>8

\* The area and the slices as slice_append takes them.
Pair(a, sl) == [area |-> a, slices |-> sl]

\* A step of the fold, with what is known of it.
EnteredSoFar(a, sl, st, asked, k, id) ==
    /\ st = Pair(st.area, st.slices) /\ Store(st.area, st.slices) /\ Keeps(a, st.area)
    /\ DOMAIN st.slices = DOMAIN sl
    /\ st.area.ok => a.ok /\ Entered(a, sl, st.area, st.slices, asked, k, id)

LEMMA NoneEntered ==
    ASSUME NEW a, NEW sl, Store(a, sl), NEW asked, NEW id
    PROVE  EnteredSoFar(a, sl, Pair(a, sl), asked, 0, id)
<1>1. Pair(a, sl).area = a /\ Pair(a, sl).slices = sl
  BY DEF Pair
<1>2. Keeps(a, a)
  BY DEF Store, Solid, Keeps
<1>3. ASSUME NEW l \in DOMAIN sl
      PROVE  /\ sl[l].len = sl[l].len + Cardinality(Times(asked, 0, l))
             /\ \A k \in sl[l].len + 1 .. sl[l].len : Read(a, sl[l].buffer + k - 1) = id
  <2>1. sl[l].len \in Nat
    BY DEF Store, Slice
  <2>2. Cardinality(Times(asked, 0, l)) = 0
    BY TimesIs
  <2> QED
    BY <2>1, <2>2
<1>4. Entered(a, sl, a, sl, asked, 0, id)
  BY <1>3 DEF Entered, Times
<1> QED
  BY <1>1, <1>2, <1>4 DEF EnteredSoFar

LEMMA OneEntered ==
    ASSUME NEW a, NEW sl, Store(a, sl), NEW asked, NEW id, NEW k \in Nat,
           NEW st, EnteredSoFar(a, sl, st, asked, k, id),
           NEW list, list = <<asked[k + 1], "used_by">>, list \in DOMAIN sl,
           NEW r, r = slice_append(st, list, id)
    PROVE  EnteredSoFar(a, sl, r, asked, k + 1, id)
<1>1. PICK b : b = st.area
  OBVIOUS
<1>2. PICK tl : tl = st.slices
  OBVIOUS
<1>3. /\ st = Pair(b, tl) /\ Store(b, tl) /\ Keeps(a, b) /\ DOMAIN tl = DOMAIN sl
      /\ b.ok => a.ok /\ Entered(a, sl, b, tl, asked, k, id)
  BY <1>1, <1>2 DEF EnteredSoFar
<1>4. /\ r = [area |-> r.area, slices |-> r.slices]
      /\ Store(r.area, r.slices)
      /\ r.area.ok => b.ok /\ Grew(b, tl, r.area, r.slices, list, id)
      /\ DOMAIN r.slices = DOMAIN tl /\ Keeps(b, r.area)
  <2>1. r = slice_append([area |-> b, slices |-> tl], list, id)
    BY <1>3 DEF Pair
  <2> QED
    BY <1>3, <2>1, AppendIs
<1>5. PICK c : c = r.area
  OBVIOUS
<1>6. PICK ul : ul = r.slices
  OBVIOUS
<1>7. /\ r = Pair(c, ul) /\ Store(c, ul) /\ DOMAIN ul = DOMAIN sl
      /\ c.ok => b.ok /\ Grew(b, tl, c, ul, list, id)
      /\ Keeps(b, c)
  BY <1>3, <1>4, <1>5, <1>6 DEF Pair
<1>8. c.ok => a.ok /\ Entered(a, sl, c, ul, asked, k + 1, id)
  <2>1. ASSUME c.ok
        PROVE  a.ok /\ Entered(a, sl, c, ul, asked, k + 1, id)
    <3>1. b.ok /\ Grew(b, tl, c, ul, list, id) /\ a.ok /\ Entered(a, sl, b, tl, asked, k, id)
      BY <1>3, <1>7, <2>1
    <3>2. list \in DOMAIN tl
      BY <1>3
    <3> QED
      BY <1>3, <1>7, <3>1, <3>2, EnterOne
  <2> QED
    BY <2>1
<1>9. Keeps(a, c)
  <2>1. a.ptr \in Nat /\ b.ptr \in Nat /\ c.ptr \in Nat
    BY <1>3, <1>7 DEF Store, Solid
  <2> QED
    BY <1>3, <1>7, <2>1, KeepsOn
<1> QED
  BY <1>5, <1>6, <1>7, <1>8, <1>9 DEF EnteredSoFar

LEMMA AllEntered ==
    ASSUME NEW a, NEW sl, Store(a, sl), NEW n \in Nat, NEW asked, DOMAIN asked = 1 .. n,
           NEW id, id # 0, \A k \in 1 .. n : <<asked[k], "used_by">> \in DOMAIN sl,
           NEW r, r = EnterAll(Pair(a, sl), asked, id)
    PROVE  EnteredSoFar(a, sl, r, asked, n, id)
<1>1. PICK run : FoldRun(run, id, asked, Pair(a, sl), n) /\ r = run[n]
  <2>1. \E run : FoldRun(run, id, asked, Pair(a, sl), n)
                 /\ EnterAll(Pair(a, sl), asked, id) = run[n]
    BY UseFold
  <2>2. PICK run : FoldRun(run, id, asked, Pair(a, sl), n)
                   /\ EnterAll(Pair(a, sl), asked, id) = run[n]
    BY <2>1, Zenon
  <2>3. r = run[n]
    BY <2>2, Zenon
  <2> QED
    BY <2>2, <2>3
<1> DEFINE G == {k \in Nat : k <= n => EnteredSoFar(a, sl, run[k], asked, k, id)}
<1>2. 0 \in G
  <2>1. run[0] = Pair(a, sl)
    BY <1>1 DEF FoldRun
  <2> QED
    BY <2>1, NoneEntered
<1>3. ASSUME NEW k \in Nat, k \in G
      PROVE  k + 1 \in G
  <2>1. CASE k + 1 <= n
    <3>1. k \in 0 .. n - 1 /\ k + 1 \in 1 .. n /\ k <= n
      BY <2>1
    <3>2. PICK st : st = run[k]
      OBVIOUS
    <3>3. PICK list : list = <<asked[k + 1], "used_by">>
      OBVIOUS
    <3>4. PICK next : next = run[k + 1]
      OBVIOUS
    <3>5. EnteredSoFar(a, sl, st, asked, k, id) /\ list \in DOMAIN sl
      BY <1>3, <3>1, <3>2, <3>3
    <3>6. next = slice_append(st, list, id)
      BY <1>1, <3>1, <3>2, <3>3, <3>4 DEF FoldRun, FoldStep
    <3>7. EnteredSoFar(a, sl, next, asked, k + 1, id)
      BY <3>3, <3>5, <3>6, OneEntered
    <3> QED
      BY <3>4, <3>7
  <2> QED
    BY <2>1
<1>4. n \in G
  <2> HIDE DEF G
  <2> QED
    BY <1>2, <1>3, SetInduction
<1> QED
  BY <1>1, <1>4

-----------------------------------------------------------------------------
(* The users of an object, as the abstract specification has them.           *)

LEMMA SameCardinality ==
    ASSUME NEW s
    PROVE  Ideal!Cardinality(s) = Cardinality(s)
  BY Zenon DEF Ideal!Cardinality, Cardinality

LEMMA SameFlattenSeq ==
    ASSUME NEW s
    PROVE  Ideal!FlattenSeq(s) = FlattenSeq(s)
  BY Zenon DEF Ideal!FlattenSeq, FlattenSeq

\* What FlattenSeq makes of the first 1, 2, ... n sequences.
FlatTable(F, s, n) ==
    F = [k \in 1 .. n |-> IF k = 1 THEN s[k] ELSE F[k - 1] \o s[k]]

LEMMA FlatTableExists ==
    ASSUME NEW s
    PROVE  \A n \in Nat : \E F : FlatTable(F, s, n)
<1> DEFINE G == {n \in Nat : \E F : FlatTable(F, s, n)}
<1>1. 0 \in G
  <2> DEFINE F == [k \in 1 .. 0 |-> s]
  <2>1. F = [k \in 1 .. 0 |-> IF k = 1 THEN s[k] ELSE F[k - 1] \o s[k]]
    OBVIOUS
  <2> HIDE DEF F
  <2> QED
    BY <2>1 DEF FlatTable
<1>2. ASSUME NEW n \in Nat, n \in G
      PROVE  n + 1 \in G
  <2>1. PICK F : FlatTable(F, s, n)
    BY <1>2
  <2> DEFINE H == [k \in 1 .. n + 1 |->
                     IF k = n + 1 THEN IF k = 1 THEN s[k] ELSE F[n] \o s[k] ELSE F[k]]
  <2>2. ASSUME NEW k \in 1 .. n + 1
        PROVE  H[k] = IF k = 1 THEN s[k] ELSE H[k - 1] \o s[k]
    <3>1. CASE k = n + 1
      <4>1. H[k] = IF k = 1 THEN s[k] ELSE F[n] \o s[k]
        BY <3>1
      <4>2. k # 1 => k - 1 = n /\ n \in 1 .. n + 1 /\ n # n + 1
        BY <3>1
      <4>3. k # 1 => H[k - 1] = F[n]
        BY <4>2
      <4> HIDE DEF H
      <4> QED
        BY <4>1, <4>3
    <3>2. CASE k # n + 1
      <4>1. k \in 1 .. n
        BY <3>2
      <4>2. H[k] = F[k]
        BY <3>2
      <4>3. k # 1 => k - 1 \in 1 .. n + 1 /\ k - 1 # n + 1
        BY <4>1
      <4>4. k # 1 => H[k - 1] = F[k - 1]
        BY <4>3
      <4>5. F[k] = IF k = 1 THEN s[k] ELSE F[k - 1] \o s[k]
        BY <2>1, <4>1 DEF FlatTable
      <4> HIDE DEF H
      <4> QED
        BY <4>2, <4>4, <4>5
    <3> QED
      BY <3>1, <3>2
  <2>3. H = [k \in 1 .. n + 1 |-> IF k = 1 THEN s[k] ELSE H[k - 1] \o s[k]]
    <3>1. H = [k \in 1 .. n + 1 |-> H[k]]
      OBVIOUS
    <3> HIDE DEF H
    <3> QED
      BY <2>2, <3>1
  <2>4. FlatTable(H, s, n + 1)
    <3> HIDE DEF H
    <3> QED  BY <2>3 DEF FlatTable
  <2> HIDE DEF H
  <2> QED
    BY <2>4
<1>3. Nat \subseteq G
  <2> HIDE DEF G
  <2> QED  BY <1>1, <1>2, SetInduction
<1> QED
  BY <1>3

LEMMA FlattenIs ==
    ASSUME NEW s, NEW n \in Nat, Len(s) = n
    PROVE  /\ n = 0 => FlattenSeq(s) = s
           /\ n > 0 => \E F : FlatTable(F, s, n) /\ FlattenSeq(s) = F[n]
<1> DEFINE Tabled(F) == F = [k \in 1 .. Len(s) |-> IF k = 1 THEN s[k] ELSE F[k - 1] \o s[k]]
           F == CHOOSE f : Tabled(f)
<1>1. n = 0 => FlattenSeq(s) = s
  BY DEF FlattenSeq
<1>2. \A f : Tabled(f) <=> FlatTable(f, s, n)
  BY DEF FlatTable
<1>3. Tabled(F)
  <2>1. \E f : Tabled(f)
    <3> HIDE DEF Tabled
    <3> QED  BY <1>2, FlatTableExists
  <2> HIDE DEF Tabled
  <2> QED  BY <2>1
<1>4. n > 0 => FlattenSeq(s) = F[Len(s)]
  <2>1. n > 0 => Len(s) # 0
    OBVIOUS
  <2>2. Len(s) # 0 => FlattenSeq(s) = F[Len(s)]
    BY Zenon DEF FlattenSeq
  <2> HIDE DEF F
  <2> QED
    BY <2>1, <2>2
<1> HIDE DEF F, Tabled
<1> QED
  BY <1>1, <1>2, <1>3, <1>4

\* One sequence more is one sequence more at the end.
LEMMA FlattenGrows ==
    ASSUME NEW S, NEW n \in Nat, NEW s \in Seq(Seq(S)), NEW t \in Seq(Seq(S)),
           Len(s) = n, Len(t) = n + 1, \A k \in 1 .. n : t[k] = s[k]
    PROVE  FlattenSeq(t) = FlattenSeq(s) \o t[n + 1] /\ FlattenSeq(s) \in Seq(S)
<1>1. PICK G : FlatTable(G, t, n + 1) /\ FlattenSeq(t) = G[n + 1]
  BY FlattenIs
<1>2. \A k \in 1 .. n + 1 : t[k] \in Seq(S)
  BY ElementOfSeq
<1>3. CASE n = 0
  <2>1. s = <<>> /\ FlattenSeq(s) = s
    BY <1>3, EmptySeq, FlattenIs
  <2>2. G[1] = t[1] /\ t[1] \in Seq(S)
    BY <1>1, <1>2, <1>3 DEF FlatTable
  <2>3. <<>> \o t[1] = t[1] /\ <<>> \in Seq(S)
    BY <2>2, ConcatEmptySeq, EmptySeq
  <2>4. n + 1 = 1
    BY <1>3
  <2>5. FlattenSeq(t) = t[1] /\ FlattenSeq(s) = <<>>
    BY <1>1, <2>1, <2>2, <2>4
  <2> QED
    BY <2>3, <2>4, <2>5
<1>4. CASE n # 0
  <2>1. PICK F : FlatTable(F, s, n) /\ FlattenSeq(s) = F[n]
    BY <1>4, FlattenIs
  <2> DEFINE A == {k \in Nat : k + 1 <= n => F[k + 1] = G[k + 1] /\ F[k + 1] \in Seq(S)}
  <2>2. 0 \in A
    <3>1. F[1] = s[1] /\ G[1] = t[1] /\ t[1] = s[1] /\ t[1] \in Seq(S)
      BY <1>1, <1>2, <1>4, <2>1 DEF FlatTable
    <3> QED
      BY <3>1
  <2>3. ASSUME NEW k \in Nat, k \in A
        PROVE  k + 1 \in A
    <3>1. CASE k + 2 <= n
      <4>1. PICK i : i = k + 2
        OBVIOUS
      <4>2. i \in 1 .. n /\ i \in 1 .. n + 1 /\ i # 1 /\ i - 1 = k + 1 /\ (k + 1) + 1 = i
        BY <3>1, <4>1
      <4>3. F[i] = F[i - 1] \o s[i] /\ G[i] = G[i - 1] \o t[i]
        BY <1>1, <2>1, <4>2 DEF FlatTable
      <4>4. F[k + 1] = G[k + 1] /\ F[k + 1] \in Seq(S)
        BY <2>3, <3>1
      <4>5. F[i] = G[i] /\ F[i] = F[k + 1] \o t[i] /\ t[i] \in Seq(S)
        BY <1>2, <4>2, <4>3, <4>4
      <4>6. F[i] \in Seq(S)
        BY <4>4, <4>5, ConcatProperties
      <4>7. F[(k + 1) + 1] = G[(k + 1) + 1] /\ F[(k + 1) + 1] \in Seq(S)
        BY <4>2, <4>5, <4>6
      <4> QED
        BY <4>7
    <3>2. CASE ~(k + 2 <= n)
      <4>1. ~((k + 1) + 1 <= n)
        BY <3>2
      <4> QED
        BY <4>1
    <3> QED
      BY <3>1, <3>2
  <2>4. n - 1 \in A
    <3>1. n - 1 \in Nat
      BY <1>4
    <3> HIDE DEF A
    <3> QED
      BY <2>2, <2>3, <3>1, SetInduction
  <2>5. F[n] = G[n] /\ F[n] \in Seq(S)
    <3>1. (n - 1) + 1 = n /\ n <= n
      OBVIOUS
    <3> QED
      BY <2>4, <3>1
  <2>6. G[n + 1] = G[n] \o t[n + 1]
    <3>1. n + 1 \in 1 .. n + 1 /\ n + 1 # 1 /\ (n + 1) - 1 = n
      BY <1>4
    <3> QED
      BY <1>1, <3>1 DEF FlatTable
  <2> QED
    BY <1>1, <2>1, <2>5, <2>6
<1> QED
  BY <1>3, <1>4

LEMMA FlattenNothing ==
    ASSUME NEW S, NEW n \in Nat, NEW s \in Seq(Seq(S)), Len(s) = n,
           \A k \in 1 .. n : s[k] = <<>>
    PROVE  FlattenSeq(s) = <<>>
<1>1. CASE n = 0
  <2>1. s = <<>> /\ FlattenSeq(s) = s
    BY <1>1, EmptySeq, FlattenIs
  <2> QED
    BY <2>1
<1>2. CASE n # 0
  <2>1. PICK F : FlatTable(F, s, n) /\ FlattenSeq(s) = F[n]
    BY <1>2, FlattenIs
  <2> DEFINE A == {k \in Nat : k + 1 <= n => F[k + 1] = <<>>}
  <2>2. 0 \in A
    BY <1>2, <2>1 DEF FlatTable
  <2>3. ASSUME NEW k \in Nat, k \in A
        PROVE  k + 1 \in A
    <3>1. CASE k + 2 <= n
      <4>1. PICK i : i = k + 2
        OBVIOUS
      <4>2. i \in 1 .. n /\ i # 1 /\ i - 1 = k + 1 /\ (k + 1) + 1 = i
        BY <3>1, <4>1
      <4>3. F[i] = F[i - 1] \o s[i]
        BY <2>1, <4>2 DEF FlatTable
      <4>4. F[k + 1] = <<>> /\ s[i] = <<>>
        BY <2>3, <3>1, <4>2
      <4>5. <<>> \o <<>> = <<>>
        BY EmptySeq, ConcatEmptySeq
      <4>6. F[(k + 1) + 1] = <<>>
        BY <4>2, <4>3, <4>4, <4>5
      <4> QED
        BY <4>6
    <3>2. CASE ~(k + 2 <= n)
      <4>1. ~((k + 1) + 1 <= n)
        BY <3>2
      <4> QED
        BY <4>1
    <3> QED
      BY <3>1, <3>2
  <2>4. n - 1 \in A
    <3>1. n - 1 \in Nat
      BY <1>2
    <3> HIDE DEF A
    <3> QED
      BY <2>2, <2>3, <3>1, SetInduction
  <2>5. (n - 1) + 1 = n /\ n <= n
    OBVIOUS
  <2> QED
    BY <2>1, <2>4, <2>5
<1> QED
  BY <1>1, <1>2

AnObject == [kind : Kinds, operands : Seq(Nat)]

\* The places at which an object is named.
Named(uses, o) == {k \in DOMAIN uses : uses[k] = o}

\* What object u is for the users of o: itself, for each of its operands that is o.
Entries(u, obj, o) == [k \in 1 .. Cardinality(Named(Ideal!Uses(obj), o)) |-> u]

AllEntries(all, o) == [u \in DOMAIN all |-> Entries(u, all[u], o)]

LEMMA UsersAre ==
    ASSUME NEW all, NEW o
    PROVE  Ideal!Users(all, o) = FlattenSeq(AllEntries(all, o))
<1>1. \A s : Ideal!Cardinality(s) = Cardinality(s)
  BY SameCardinality
<1>2. \A u : Entries(u, all[u], o) =
          [k \in 1 .. Ideal!Cardinality({k \in DOMAIN Ideal!Uses(all[u]) :
                                             Ideal!Uses(all[u])[k] = o}) |-> u]
  BY <1>1 DEF Entries, Named
<1>3. Ideal!Users(all, o) = Ideal!FlattenSeq(AllEntries(all, o))
  BY <1>2 DEF Ideal!Users, AllEntries
<1> QED
  BY <1>3, SameFlattenSeq

LEMMA EntriesAre ==
    ASSUME NEW u \in Nat, NEW obj \in AnObject, NEW o
    PROVE  /\ Entries(u, obj, o) \in Seq(Nat)
           /\ Cardinality(Named(Ideal!Uses(obj), o)) \in Nat
           /\ Named(Ideal!Uses(obj), o) = {} => Entries(u, obj, o) = <<>>
<1>1. PICK uses : uses = Ideal!Uses(obj)
  OBVIOUS
<1>2. uses \in Seq(Nat)
  BY <1>1, EmptySeq DEF Ideal!Uses, AnObject
<1>3. IsFiniteSet(Named(uses, o))
  <2>1. DOMAIN uses = 1 .. Len(uses) /\ Len(uses) \in Nat
    BY <1>2, LenProperties
  <2>2. IsFiniteSet(1 .. Len(uses))
    BY <2>1, FS_Interval
  <2>3. Named(uses, o) \subseteq 1 .. Len(uses)
    BY <2>1 DEF Named
  <2> QED
    BY <2>2, <2>3, FS_Subset
<1>4. PICK n : n = Cardinality(Named(uses, o))
  OBVIOUS
<1>5. n \in Nat
  BY <1>3, <1>4, FS_CardinalityType
<1>6. Entries(u, obj, o) = [k \in 1 .. n |-> u]
  BY <1>1, <1>4 DEF Entries
<1>7. [k \in 1 .. n |-> u] \in Seq(Nat)
  <2>1. [k \in 1 .. n |-> u] \in [1 .. n -> Nat]
    OBVIOUS
  <2> QED
    BY <1>5, <2>1, SeqDef
<1>8. ASSUME Named(uses, o) = {}
      PROVE  Entries(u, obj, o) = <<>>
  <2>1. n = 0
    BY <1>4, <1>8, FS_EmptySet
  <2>2. Len([k \in 1 .. n |-> u]) = 0
    BY <1>7, <2>1, LenProperties
  <2> QED
    BY <1>6, <1>7, <2>2, EmptySeq
<1> QED
  BY <1>1, <1>4, <1>5, <1>6, <1>7, <1>8

\* What Users flattens.
LEMMA EntriesOfAll ==
    ASSUME NEW n \in Nat, NEW all \in Seq(AnObject), Len(all) = n, NEW o,
           NEW s, s = AllEntries(all, o)
    PROVE  s \in Seq(Seq(Nat)) /\ Len(s) = n
<1>1. DOMAIN all = 1 .. n /\ \A u \in 1 .. n : all[u] \in AnObject
  BY LenProperties, ElementOfSeq
<1>2. \A u \in 1 .. n : Entries(u, all[u], o) \in Seq(Nat)
  BY <1>1, EntriesAre
<1>3. s \in [1 .. n -> Seq(Nat)]
  BY <1>1, <1>2 DEF AllEntries
<1>4. s \in Seq(Seq(Nat))
  BY <1>3, SeqDef
<1>5. DOMAIN s = 1 .. n /\ DOMAIN s = 1 .. Len(s) /\ Len(s) \in Nat
  BY <1>3, <1>4, LenProperties
<1> QED
  BY <1>4, <1>5

LEMMA UsersGrow ==
    ASSUME NEW n \in Nat, NEW all \in Seq(AnObject), Len(all) = n, NEW obj \in AnObject,
           NEW o
    PROVE  /\ Ideal!Users(Append(all, obj), o) =
                  Ideal!Users(all, o) \o Entries(n + 1, obj, o)
           /\ Ideal!Users(all, o) \in Seq(Nat)
<1>1. PICK more : more = Append(all, obj)
  OBVIOUS
<1>2. /\ more \in Seq(AnObject) /\ Len(more) = n + 1 /\ more[n + 1] = obj
      /\ \A k \in 1 .. n : more[k] = all[k]
  BY <1>1, AppendProperties
<1>3. PICK s : s = AllEntries(all, o)
  OBVIOUS
<1>4. PICK t : t = AllEntries(more, o)
  OBVIOUS
<1>5. s \in Seq(Seq(Nat)) /\ Len(s) = n
  BY <1>3, EntriesOfAll
<1>6. t \in Seq(Seq(Nat)) /\ Len(t) = n + 1
  <2>1. n + 1 \in Nat
    OBVIOUS
  <2> QED
    BY <1>2, <1>4, <2>1, EntriesOfAll
<1>7. DOMAIN all = 1 .. n /\ DOMAIN more = 1 .. n + 1
  BY <1>2, LenProperties
<1>8. \A k \in 1 .. n : t[k] = s[k]
  BY <1>2, <1>3, <1>4, <1>7 DEF AllEntries
<1>9. t[n + 1] = Entries(n + 1, obj, o)
  BY <1>2, <1>4, <1>7 DEF AllEntries
<1>10. FlattenSeq(t) = FlattenSeq(s) \o t[n + 1] /\ FlattenSeq(s) \in Seq(Nat)
  BY <1>5, <1>6, <1>8, FlattenGrows
<1>11. Ideal!Users(all, o) = FlattenSeq(s) /\ Ideal!Users(more, o) = FlattenSeq(t)
  BY <1>3, <1>4, UsersAre
<1> QED
  BY <1>1, <1>9, <1>10, <1>11

LEMMA NoUsers ==
    ASSUME NEW n \in Nat, NEW all \in Seq(AnObject), Len(all) = n, NEW o,
           \A u \in 1 .. n : Named(Ideal!Uses(all[u]), o) = {}
    PROVE  Ideal!Users(all, o) = <<>>
<1>1. PICK s : s = AllEntries(all, o)
  OBVIOUS
<1>2. s \in Seq(Seq(Nat)) /\ Len(s) = n
  BY <1>1, EntriesOfAll
<1>3. DOMAIN all = 1 .. n /\ \A u \in 1 .. n : all[u] \in AnObject
  BY LenProperties, ElementOfSeq
<1>4. \A u \in 1 .. n : Entries(u, all[u], o) = <<>>
  BY <1>3, EntriesAre
<1>5. \A k \in 1 .. n : s[k] = <<>>
  BY <1>1, <1>3, <1>4 DEF AllEntries
<1>6. FlattenSeq(s) = <<>>
  BY <1>2, <1>5, FlattenNothing
<1> QED
  BY <1>1, <1>6, UsersAre

-----------------------------------------------------------------------------
(* What lists hold.                                                          *)

ContentIn(a, s) == [k \in 1 .. s.len |-> Read(a, s.buffer + k - 1)]

\* What is in use stays the same, and so does what a slice in it holds.
LEMMA SameContent ==
    ASSUME NEW a, NEW sl, Store(a, sl), NEW l \in DOMAIN sl, NEW b, Keeps(a, b)
    PROVE  ContentIn(b, sl[l]) = ContentIn(a, sl[l])
<1>1. PICK n : n = sl[l].len
  OBVIOUS
<1>2. PICK at : at = sl[l].buffer
  OBVIOUS
<1>3. n \in Nat /\ at \in Nat /\ a.ptr \in Nat /\ (n > 0 => a.ptr <= at)
  BY <1>1, <1>2 DEF Store, Slice, Solid
<1>4. \A k \in 1 .. n : at + k - 1 \in Int /\ a.ptr <= at + k - 1
  BY <1>3
<1>5. \A k \in 1 .. n : Read(b, at + k - 1) = Read(a, at + k - 1)
  BY <1>4 DEF Keeps
<1> QED
  BY <1>1, <1>2, <1>5 DEF ContentIn

LEMMA ContentIsSeq ==
    ASSUME NEW a, NEW s, s.len \in Nat, NEW c, c = ContentIn(a, s)
    PROVE  /\ Len(c) = s.len /\ DOMAIN c = 1 .. s.len
           /\ \A k \in 1 .. s.len : c[k] = Read(a, s.buffer + k - 1)
           /\ s.len = 0 => c = <<>>
           /\ c \in Seq(Range(c))
<1>1. c = [k \in 1 .. s.len |-> Read(a, s.buffer + k - 1)]
  BY DEF ContentIn
<1>2. Len(c) = s.len /\ \A k \in 1 .. s.len : c[k] = Read(a, s.buffer + k - 1)
  BY <1>1, WordsAre
<1>3. DOMAIN c = 1 .. s.len
  BY <1>1
<1>4. c \in Seq(Range(c))
  <2>1. c = [k \in 1 .. s.len |-> c[k]]
    BY <1>1
  <2>2. \A k \in 1 .. s.len : c[k] \in Range(c)
    BY <1>3 DEF Range
  <2>3. c \in [1 .. s.len -> Range(c)]
    BY <2>1, <2>2
  <2> QED
    BY <2>3, SeqDef
<1>5. s.len = 0 => c = <<>>
  BY <1>2, <1>4, EmptySeq
<1> QED
  BY <1>2, <1>3, <1>4, <1>5

\* An item, this many times.
Again(id, m) == [k \in 1 .. m |-> id]

\* A sequence goes on with the item.
GoesOn(c, d, n, m, id) ==
    /\ n \in Nat /\ m \in Nat /\ Len(c) = n /\ Len(d) = n + m
    /\ c \in Seq(Range(c)) /\ d \in Seq(Range(d))
    /\ \A k \in 1 .. n : d[k] = c[k]
    /\ \A k \in n + 1 .. n + m : d[k] = id

LEMMA GoesOnWith ==
    ASSUME NEW c, NEW d, NEW n, NEW m, NEW id, GoesOn(c, d, n, m, id)
    PROVE  d = c \o Again(id, m)
<1>1. /\ n \in Nat /\ m \in Nat /\ Len(c) = n /\ Len(d) = n + m
      /\ \A k \in 1 .. n : d[k] = c[k]
      /\ \A k \in n + 1 .. n + m : d[k] = id
  BY DEF GoesOn
<1>2. PICK S : S = Range(c) /\ c \in Seq(S)
  BY DEF GoesOn
<1>3. PICK T : T = Range(d) /\ d \in Seq(T)
  BY DEF GoesOn
<1>4. PICK e : e = Again(id, m)
  OBVIOUS
<1>5. PICK U : U = S \cup T \cup {id}
  OBVIOUS
<1>6. e \in Seq({id}) /\ Len(e) = m
  <2>1. e \in [1 .. m -> {id}]
    BY <1>4 DEF Again
  <2>2. e \in Seq({id})
    BY <1>1, <2>1, SeqDef
  <2> QED
    BY <1>1, <2>1, <2>2, LenProperties
<1>7. c \in Seq(U) /\ d \in Seq(U) /\ e \in Seq(U)
  <2>1. S \subseteq U /\ T \subseteq U /\ {id} \subseteq U
    BY <1>5
  <2> QED
    BY <1>2, <1>3, <1>6, <2>1, SeqMonotonic
<1>8. /\ c \o e \in Seq(U) /\ Len(c \o e) = n + m
      /\ \A k \in 1 .. n + m : (c \o e)[k] = IF k <= n THEN c[k] ELSE e[k - n]
  <2>1. /\ c \o e \in Seq(U) /\ Len(c \o e) = Len(c) + Len(e)
        /\ \A k \in 1 .. Len(c) + Len(e) :
              (c \o e)[k] = IF k <= Len(c) THEN c[k] ELSE e[k - Len(c)]
    BY <1>7, ConcatProperties
  <2> QED
    BY <1>1, <1>6, <2>1
<1>9. \A k \in 1 .. n + m : d[k] = (c \o e)[k]
  <2>1. ASSUME NEW k \in 1 .. n + m, k <= n
        PROVE  d[k] = (c \o e)[k]
    <3>1. k \in 1 .. n
      BY <1>1, <2>1
    <3> QED
      BY <1>1, <1>8, <2>1, <3>1
  <2>2. ASSUME NEW k \in 1 .. n + m, ~(k <= n)
        PROVE  d[k] = (c \o e)[k]
    <3>1. k \in n + 1 .. n + m /\ k - n \in 1 .. m
      BY <1>1, <2>2
    <3>2. e[k - n] = id
      BY <1>4, <3>1 DEF Again
    <3> QED
      BY <1>1, <1>8, <2>2, <3>1, <3>2
  <2> QED
    BY <2>1, <2>2
<1>10. Len(d) = n + m /\ Len(c \o e) = n + m
  BY <1>1, <1>8
<1>11. d = c \o e
  BY <1>7, <1>8, <1>9, <1>10, SeqEqual
<1> QED
  BY <1>4, <1>11

-----------------------------------------------------------------------------
(* A builder, as a whole.                                                    *)

\* Lists belong to the program or to an object, and every object has its own.
Lists(all, sl) ==
    /\ \A l \in DOMAIN sl : l = <<l[1], l[2]>> /\ l[1] \in 0 .. Len(all)
    /\ {<<0, "values">>, <<0, "funcs">>} \subseteq DOMAIN sl
    /\ \A o \in DOMAIN all : {o} \X FieldsOf(all[o].kind) \subseteq DOMAIN sl

\* Operands are there before the objects that name them, and have lists of users.
Proper(all, obj) ==
    /\ obj \in AnObject
    /\ \A k \in DOMAIN obj.operands :
           /\ obj.operands[k] \in 1 .. Len(all)
           /\ obj.kind # "call" => all[obj.operands[k]].kind # "function"

\* What a builder begins with.
NewSlices(sl, id, kind) ==
    [l \in DOMAIN sl \cup ({id} \X FieldsOf(kind)) |->
        IF l \in {id} \X FieldsOf(kind) THEN NoSlice ELSE sl[l]]

AreNew(sl, nl, own) ==
    /\ DOMAIN nl = DOMAIN sl \cup own
    /\ \A l \in DOMAIN sl : l \notin own /\ nl[l] = sl[l]
    /\ \A l \in own : nl[l] = NoSlice

LEMMA FieldsAreNew ==
    ASSUME NEW all, Len(all) \in Nat, NEW sl, Lists(all, sl), NEW id, id = Len(all) + 1,
           NEW kind, NEW nl, nl = NewSlices(sl, id, kind)
    PROVE  AreNew(sl, nl, {id} \X FieldsOf(kind))
<1>1. ASSUME NEW l \in DOMAIN sl
      PROVE  l \notin {id} \X FieldsOf(kind)
  <2>1. l[1] \in 0 .. Len(all)
    BY DEF Lists
  <2>2. l[1] # id
    BY <2>1
  <2> QED
    BY <2>2
<1> QED
  BY <1>1 DEF NewSlices, AreNew

LEMMA NewStore ==
    ASSUME NEW all, Len(all) \in Nat, NEW sl, Lists(all, sl), NEW id, id = Len(all) + 1,
           NEW kind, NEW nl, nl = NewSlices(sl, id, kind), NEW a, Store(a, sl)
    PROVE  Store(a, nl)
<1>1. AreNew(sl, nl, {id} \X FieldsOf(kind))
  BY FieldsAreNew
<1>2. NoSlice \in Slice /\ NoSlice.len = 0
  BY DEF NoSlice, Slice
<1> QED
  BY <1>1, <1>2 DEF Store, AreNew

LEMMA UsedByIs ==
    ASSUME NEW kind \in Kinds
    PROVE  "used_by" \in FieldsOf(kind) <=> kind # "function"
  BY DEF FieldsOf, Kinds, Insts, Terminators

\* What the lists are when a builder is done.
Built(a, sl, b, tl, id, obj) ==
    /\ DOMAIN tl = DOMAIN sl \cup ({id} \X FieldsOf(obj.kind))
    /\ \A l \in DOMAIN sl :
           ContentIn(b, tl[l]) = IF l[2] = "used_by"
                                 THEN ContentIn(a, sl[l]) \o Entries(id, obj, l[1])
                                 ELSE ContentIn(a, sl[l])
    /\ \A l \in {id} \X FieldsOf(obj.kind) : ContentIn(b, tl[l]) = <<>>

\* How often a list is asked for is how often its object is named.
LEMMA TimesAre ==
    ASSUME NEW n \in Nat, NEW uses, DOMAIN uses = 1 .. n, NEW l, l = <<l[1], l[2]>>
    PROVE  Times(uses, n, l) = IF l[2] = "used_by" THEN Named(uses, l[1]) ELSE {}
<1>1. PICK o : o = l[1]
  OBVIOUS
<1>2. PICK f : f = l[2]
  OBVIOUS
<1>3. l = <<o, f>>
  BY <1>1, <1>2
<1>4. \A k : <<uses[k], "used_by">> = l <=> uses[k] = o /\ f = "used_by"
  BY <1>3
<1> QED
  BY <1>1, <1>2, <1>4 DEF Times, Named


\* A slice is longer by m times the item.
Longer(a, s, b, t, m, id) ==
    /\ s.len \in Nat /\ t.len \in Nat /\ m \in Nat /\ t.len = s.len + m
    /\ \A k \in 1 .. s.len : Read(b, t.buffer + k - 1) = Read(a, s.buffer + k - 1)
    /\ \A k \in s.len + 1 .. t.len : Read(b, t.buffer + k - 1) = id

LEMMA ContentGrew ==
    ASSUME NEW a, NEW s, NEW b, NEW t, NEW m, NEW id, Longer(a, s, b, t, m, id)
    PROVE  ContentIn(b, t) = ContentIn(a, s) \o Again(id, m)
<1>1. PICK c : c = ContentIn(a, s)
  OBVIOUS
<1>2. PICK d : d = ContentIn(b, t)
  OBVIOUS
<1>3. PICK n : n = s.len
  OBVIOUS
<1>4. s.len \in Nat /\ t.len \in Nat /\ m \in Nat
  BY DEF Longer
<1>5. /\ n \in Nat /\ Len(c) = n /\ c \in Seq(Range(c))
      /\ \A k \in 1 .. n : c[k] = Read(a, s.buffer + k - 1)
  BY <1>1, <1>3, <1>4, ContentIsSeq
<1>6. /\ Len(d) = n + m /\ d \in Seq(Range(d))
      /\ \A k \in 1 .. n + m : d[k] = Read(b, t.buffer + k - 1)
  <2>1. /\ Len(d) = t.len /\ d \in Seq(Range(d))
        /\ \A k \in 1 .. t.len : d[k] = Read(b, t.buffer + k - 1)
    BY <1>2, <1>4, ContentIsSeq
  <2>2. t.len = n + m
    BY <1>3 DEF Longer
  <2> QED
    BY <2>1, <2>2
<1>7. \A k \in 1 .. n : d[k] = c[k]
  <2>1. \A k \in 1 .. n : k \in 1 .. n + m
    BY <1>4, <1>5
  <2>2. \A k \in 1 .. n : Read(b, t.buffer + k - 1) = Read(a, s.buffer + k - 1)
    BY <1>3 DEF Longer
  <2> QED
    BY <1>5, <1>6, <2>1, <2>2
<1>8. \A k \in n + 1 .. n + m : d[k] = id
  <2>1. \A k \in n + 1 .. n + m : k \in 1 .. n + m
    BY <1>4, <1>5
  <2>2. \A k \in n + 1 .. n + m : Read(b, t.buffer + k - 1) = id
    BY <1>3 DEF Longer
  <2> QED
    BY <1>6, <2>1, <2>2
<1>9. GoesOn(c, d, n, m, id)
  BY <1>4, <1>5, <1>6, <1>7, <1>8 DEF GoesOn
<1>10. d = c \o Again(id, m)
  BY <1>9, GoesOnWith
<1> QED
  BY <1>1, <1>2, <1>10

\* Before the first user is entered, and of any operand: its list is there.
LEMMA OperandsHaveLists ==
    ASSUME NEW all \in Seq(AnObject), NEW sl, Lists(all, sl), NEW obj, Proper(all, obj),
           NEW uses, uses = Ideal!Uses(obj)
    PROVE  /\ Len(uses) \in Nat /\ DOMAIN uses = 1 .. Len(uses)
           /\ \A k \in 1 .. Len(uses) : /\ uses[k] \in 1 .. Len(all)
                                        /\ all[uses[k]].kind # "function"
                                        /\ <<uses[k], "used_by">> \in DOMAIN sl
<1>1. /\ DOMAIN all = 1 .. Len(all) /\ \A o \in 1 .. Len(all) : all[o] \in AnObject
  BY LenProperties, ElementOfSeq
<1>2. uses \in Seq(Nat) /\ (uses = <<>> \/ (uses = obj.operands /\ obj.kind # "call"))
  BY EmptySeq DEF Proper, Ideal!Uses, AnObject
<1>3. Len(uses) \in Nat /\ DOMAIN uses = 1 .. Len(uses)
  BY <1>2, LenProperties
<1>4. CASE uses = <<>>
  <2>1. 1 .. Len(uses) = {}
    BY <1>4, EmptySeq
  <2> QED
    BY <1>3, <2>1
<1>5. CASE uses = obj.operands /\ obj.kind # "call"
  <2>1. ASSUME NEW k \in 1 .. Len(uses)
        PROVE  /\ uses[k] \in 1 .. Len(all) /\ all[uses[k]].kind # "function"
               /\ <<uses[k], "used_by">> \in DOMAIN sl
    <3>1. uses[k] \in 1 .. Len(all) /\ all[uses[k]].kind # "function"
      BY <1>3, <1>5 DEF Proper
    <3>2. PICK o : o = uses[k]
      OBVIOUS
    <3>3. PICK kind : kind = all[o].kind
      OBVIOUS
    <3>4. kind \in Kinds /\ kind # "function" /\ o \in DOMAIN all
      BY <1>1, <3>1, <3>2, <3>3 DEF AnObject
    <3>5. "used_by" \in FieldsOf(kind)
      BY <3>4, UsedByIs
    <3>6. {o} \X FieldsOf(kind) \subseteq DOMAIN sl
      BY <3>3, <3>4 DEF Lists
    <3>7. <<o, "used_by">> \in DOMAIN sl
      BY <3>5, <3>6
    <3> QED
      BY <3>1, <3>2, <3>7
  <2> QED
    BY <1>3, <2>1
<1> QED
  BY <1>2, <1>4, <1>5

\* When every user is entered the lists are what they should be.
LEMMA EnteredIsBuilt ==
    ASSUME NEW a, NEW sl, Store(a, sl), NEW m, Keeps(a, m), NEW id, NEW obj,
           NEW nl, AreNew(sl, nl, {id} \X FieldsOf(obj.kind)), Store(m, nl),
           NEW uses, uses = Ideal!Uses(obj), NEW n \in Nat, DOMAIN uses = 1 .. n,
           \A k \in 1 .. n : uses[k] # id,
           \A l \in DOMAIN sl : l = <<l[1], l[2]>>,
           NEW b, NEW tl, DOMAIN tl = DOMAIN nl, Entered(m, nl, b, tl, uses, n, id)
    PROVE  Built(a, sl, b, tl, id, obj)
<1>1. ASSUME NEW l \in DOMAIN nl
      PROVE  /\ Cardinality(Times(uses, n, l)) \in Nat
             /\ nl[l].len \in Nat /\ tl[l].len = nl[l].len + Cardinality(Times(uses, n, l))
             /\ ContentIn(b, tl[l]) = ContentIn(m, nl[l])
                                          \o Again(id, Cardinality(Times(uses, n, l)))
  <2>1. PICK s : s = nl[l]
    OBVIOUS
  <2>2. PICK t : t = tl[l]
    OBVIOUS
  <2>3. PICK c : c = Cardinality(Times(uses, n, l))
    OBVIOUS
  <2>4. c \in Nat
    BY <2>3, TimesIs
  <2>5. s.len \in Nat
    BY <2>1 DEF Store, Slice
  <2>6. /\ t.len = s.len + c
        /\ \A k \in 1 .. s.len : Read(b, t.buffer + k - 1) = Read(m, s.buffer + k - 1)
        /\ \A k \in s.len + 1 .. t.len : Read(b, t.buffer + k - 1) = id
    BY <2>1, <2>2, <2>3 DEF Entered, Times
  <2>7. t.len \in Nat
    BY <2>4, <2>5, <2>6
  <2>8. Longer(m, s, b, t, c, id)
    BY <2>4, <2>5, <2>6, <2>7 DEF Longer
  <2>9. ContentIn(b, t) = ContentIn(m, s) \o Again(id, c)
    BY <2>8, ContentGrew
  <2> QED
    BY <2>1, <2>2, <2>3, <2>4, <2>5, <2>6, <2>9
<1>2. ASSUME NEW l \in DOMAIN sl
      PROVE  ContentIn(b, tl[l]) = IF l[2] = "used_by"
                                   THEN ContentIn(a, sl[l]) \o Entries(id, obj, l[1])
                                   ELSE ContentIn(a, sl[l])
  <2>1. l \in DOMAIN nl /\ nl[l] = sl[l]
    BY DEF AreNew
  <2>2. ContentIn(m, nl[l]) = ContentIn(a, sl[l])
    BY <2>1, SameContent
  <2>3. Times(uses, n, l) = IF l[2] = "used_by" THEN Named(uses, l[1]) ELSE {}
    BY TimesAre
  <2>4. CASE l[2] = "used_by"
    <3>1. Again(id, Cardinality(Times(uses, n, l))) = Entries(id, obj, l[1])
      BY <2>3, <2>4 DEF Entries, Again
    <3> QED
      BY <1>1, <2>1, <2>2, <2>4, <3>1
  <2>5. CASE l[2] # "used_by"
    <3>1. Cardinality(Times(uses, n, l)) = 0
      BY <2>3, <2>5, FS_EmptySet
    <3>2. PICK s : s = nl[l]
      OBVIOUS
    <3>3. PICK t : t = tl[l]
      OBVIOUS
    <3>4. PICK c : c = ContentIn(m, s)
      OBVIOUS
    <3>5. s.len \in Nat
      BY <1>1, <2>1, <3>2
    <3>6. c \in Seq(Range(c))
      BY <3>4, <3>5, ContentIsSeq
    <3>7. Again(id, 0) = <<>>
      BY DEF Again
    <3>8. c \o <<>> = c
      BY <3>6, ConcatEmptySeq
    <3>9. ContentIn(b, t) = c \o Again(id, 0)
      BY <1>1, <2>1, <3>1, <3>2, <3>3, <3>4
    <3> QED
      BY <2>2, <2>5, <3>2, <3>3, <3>4, <3>7, <3>8, <3>9
  <2> QED
    BY <2>4, <2>5
<1>3. ASSUME NEW l \in {id} \X FieldsOf(obj.kind)
      PROVE  ContentIn(b, tl[l]) = <<>>
  <2>1. l \in DOMAIN nl /\ nl[l] = NoSlice /\ l = <<l[1], l[2]>> /\ l[1] = id
    BY DEF AreNew
  <2>2. Times(uses, n, l) = IF l[2] = "used_by" THEN Named(uses, l[1]) ELSE {}
    BY <2>1, TimesAre
  <2>3. Times(uses, n, l) = {}
    BY <2>1, <2>2 DEF Named
  <2>4. Cardinality(Times(uses, n, l)) = 0
    BY <2>3, FS_EmptySet
  <2>5. tl[l].len = 0
    <3>1. NoSlice.len = 0
      BY DEF NoSlice
    <3>2. tl[l].len = nl[l].len + Cardinality(Times(uses, n, l))
      BY <1>1, <2>1
    <3> QED
      BY <2>1, <2>4, <3>1, <3>2
  <2>6. PICK t : t = tl[l]
    OBVIOUS
  <2>7. PICK c : c = ContentIn(b, t)
    OBVIOUS
  <2>8. t.len = 0 /\ 0 \in Nat
    BY <2>5, <2>6
  <2>9. c = <<>>
    BY <2>7, <2>8, ContentIsSeq
  <2> QED
    BY <2>6, <2>7, <2>9
<1> QED
  BY <1>2, <1>3 DEF Built, AreNew

\* What the area and the slices are after New, whether it has succeeded or not.
NewDone(a, sl, st, id, obj) ==
    /\ Store(st.area, sl) /\ Keeps(a, st.area) /\ Store(st.area, st.slices)
    /\ st.area.ok => Built(a, sl, st.area, st.slices, id, obj)

LEMMA NewIs ==
    ASSUME NEW all \in Seq(AnObject), NEW a, NEW sl, Store(a, sl), Lists(all, sl),
           NEW id, id = Len(all) + 1, NEW obj, Proper(all, obj),
           NEW sizes \in Seq(Nat), NEW m, m = FoldLeft(bump_malloc, a, sizes),
           NEW nl, nl = NewSlices(sl, id, obj.kind),
           NEW uses, uses = Ideal!Uses(obj),
           NEW st, st = EnterAll(Pair(m, nl), uses, id)
    PROVE  NewDone(a, sl, st, id, obj)
<1>1. PICK n : n = Len(uses)
  OBVIOUS
<1>2. /\ n \in Nat /\ DOMAIN uses = 1 .. n
      /\ \A k \in 1 .. n : uses[k] \in 1 .. Len(all) /\ <<uses[k], "used_by">> \in DOMAIN sl
  BY <1>1, OperandsHaveLists
<1>3. Len(all) \in Nat
  BY LenProperties
<1>4. Solid(m) /\ Keeps(a, m)
  <2>1. PICK k : k = Len(sizes)
    OBVIOUS
  <2>2. k \in Nat /\ DOMAIN sizes = 1 .. k
    BY <2>1, LenProperties
  <2>3. \A j \in 1 .. k : sizes[j] \in Nat
    BY <2>1, ElementOfSeq
  <2>4. Solid(a)
    BY DEF Store
  <2> QED
    BY <2>2, <2>3, <2>4, MallocsAre
<1>5. Store(m, sl)
  BY <1>4, StoreLower DEF Keeps
<1>6. AreNew(sl, nl, {id} \X FieldsOf(obj.kind)) /\ Store(m, nl)
  BY <1>3, <1>5, FieldsAreNew, NewStore
<1>7. \A k \in 1 .. n : <<uses[k], "used_by">> \in DOMAIN nl
  BY <1>2, <1>6 DEF AreNew
<1>8. id # 0 /\ \A k \in 1 .. n : uses[k] # id
  <2>1. PICK last : last = Len(all)
    OBVIOUS
  <2>2. last \in Nat /\ id = last + 1
    BY <1>3, <2>1
  <2>3. id # 0 /\ \A u \in 1 .. last : u # id
    BY <2>2
  <2>4. \A k \in 1 .. n : uses[k] \in 1 .. last
    BY <1>2, <2>1
  <2> QED
    BY <2>3, <2>4
<1>9. EnteredSoFar(m, nl, st, uses, n, id)
  BY <1>2, <1>6, <1>7, <1>8, AllEntered
<1>10. PICK b : b = st.area
  OBVIOUS
<1>11. PICK tl : tl = st.slices
  OBVIOUS
<1>12. /\ Store(b, tl) /\ Keeps(m, b) /\ DOMAIN tl = DOMAIN nl
       /\ b.ok => Entered(m, nl, b, tl, uses, n, id)
  BY <1>9, <1>10, <1>11 DEF EnteredSoFar
<1>13. Keeps(a, b)
  <2>1. a.ptr \in Nat /\ m.ptr \in Nat /\ b.ptr \in Nat
    BY <1>4, <1>12 DEF Store, Solid
  <2> QED
    BY <1>4, <1>12, <2>1, KeepsOn
<1>14. Store(b, sl)
  <2>1. Solid(b) /\ b.ptr <= a.ptr /\ (b.ok => a.ok)
    BY <1>12, <1>13 DEF Store, Keeps
  <2> QED
    BY <2>1, StoreLower
<1>15. ASSUME b.ok
       PROVE  Built(a, sl, b, tl, id, obj)
  <2>1. Entered(m, nl, b, tl, uses, n, id)
    BY <1>12, <1>15
  <2>2. \A l \in DOMAIN sl : l = <<l[1], l[2]>>
    BY DEF Lists
  <2> QED
    BY <1>2, <1>4, <1>6, <1>8, <1>12, <2>1, <2>2, EnteredIsBuilt
<1> QED
  BY <1>10, <1>11, <1>12, <1>13, <1>14, <1>15 DEF NewDone

\* Objects name objects that are there, and no instruction but a call a function.
Objects(all) ==
    /\ all \in Seq(AnObject)
    /\ \A o \in DOMAIN all : \A k \in DOMAIN all[o].operands :
           /\ all[o].operands[k] \in 1 .. o - 1
           /\ all[o].kind # "call" => all[all[o].operands[k]].kind # "function"

\* The list of users of an object is the one that can be told from the operands.
UsersListed(all, a, sl) ==
    \A o \in DOMAIN all :
        Ideal!Users(all, o) = IF all[o].kind = "function" THEN <<>>
                              ELSE ContentIn(a, sl[<<o, "used_by">>])

LEMMA NewObjects ==
    ASSUME NEW all, Objects(all), NEW obj, Proper(all, obj)
    PROVE  /\ Objects(Append(all, obj)) /\ Len(all) \in Nat
           /\ Len(Append(all, obj)) = Len(all) + 1
           /\ DOMAIN Append(all, obj) = DOMAIN all \cup {Len(all) + 1}
           /\ DOMAIN all = 1 .. Len(all)
           /\ \A o \in DOMAIN all : Append(all, obj)[o] = all[o]
           /\ Append(all, obj)[Len(all) + 1] = obj
<1>1. PICK n : n = Len(all)
  OBVIOUS
<1>2. PICK more : more = Append(all, obj)
  OBVIOUS
<1>3. n \in Nat /\ DOMAIN all = 1 .. n /\ all \in Seq(AnObject)
  BY <1>1, LenProperties DEF Objects
<1>4. obj \in AnObject
  BY DEF Proper
<1>5. /\ more \in Seq(AnObject) /\ Len(more) = n + 1 /\ more[n + 1] = obj
      /\ \A k \in 1 .. n : more[k] = all[k]
  BY <1>1, <1>2, <1>3, <1>4, AppendProperties
<1>6. DOMAIN more = 1 .. n + 1
  BY <1>5, LenProperties
<1>7. 1 .. n + 1 = (1 .. n) \cup {n + 1}
  BY <1>3
<1>8. ASSUME NEW o \in DOMAIN more, NEW k \in DOMAIN more[o].operands
      PROVE  /\ more[o].operands[k] \in 1 .. o - 1
             /\ more[o].kind # "call" => more[more[o].operands[k]].kind # "function"
  <2>1. CASE o \in 1 .. n
    <3>1. more[o] = all[o]
      BY <1>5, <2>1
    <3>2. PICK v : v = all[o].operands[k]
      OBVIOUS
    <3>3. v \in 1 .. o - 1 /\ (all[o].kind # "call" => all[v].kind # "function")
      BY <1>3, <1>8, <2>1, <3>1, <3>2 DEF Objects
    <3>4. v \in 1 .. n
      BY <1>3, <2>1, <3>3
    <3>5. more[v] = all[v]
      BY <1>5, <3>4
    <3> QED
      BY <3>1, <3>2, <3>3, <3>5
  <2>2. CASE o = n + 1
    <3>1. more[o] = obj
      BY <1>5, <2>2
    <3>2. PICK v : v = obj.operands[k]
      OBVIOUS
    <3>3. v \in 1 .. n /\ (obj.kind # "call" => all[v].kind # "function")
      BY <1>1, <1>8, <3>1, <3>2 DEF Proper
    <3>4. more[v] = all[v] /\ v \in 1 .. o - 1
      BY <1>3, <1>5, <2>2, <3>3
    <3> QED
      BY <3>1, <3>2, <3>3, <3>4
  <2> QED
    BY <1>6, <1>7, <1>8, <2>1, <2>2
<1>9. Objects(more)
  BY <1>5, <1>8 DEF Objects
<1> QED
  BY <1>1, <1>2, <1>3, <1>5, <1>6, <1>7, <1>9

LEMMA NewLists ==
    ASSUME NEW all, Objects(all), NEW sl, Lists(all, sl), NEW obj, Proper(all, obj),
           NEW id, id = Len(all) + 1,
           NEW tl, DOMAIN tl = DOMAIN sl \cup ({id} \X FieldsOf(obj.kind))
    PROVE  Lists(Append(all, obj), tl)
<1>1. PICK n : n = Len(all)
  OBVIOUS
<1>2. PICK more : more = Append(all, obj)
  OBVIOUS
<1>3. /\ n \in Nat /\ id = n + 1 /\ Len(more) = n + 1
      /\ DOMAIN more = DOMAIN all \cup {id} /\ more[id] = obj
      /\ \A o \in DOMAIN all : more[o] = all[o]
  BY <1>1, <1>2, NewObjects
<1>4. ASSUME NEW l \in DOMAIN tl
      PROVE  l = <<l[1], l[2]>> /\ l[1] \in 0 .. n + 1
  <2>1. CASE l \in DOMAIN sl
    <3>1. l = <<l[1], l[2]>> /\ l[1] \in 0 .. n
      BY <1>1, <2>1 DEF Lists
    <3> QED
      BY <1>3, <3>1
  <2>2. CASE l \in {id} \X FieldsOf(obj.kind)
    <3>1. l = <<l[1], l[2]>> /\ l[1] = id
      BY <2>2
    <3> QED
      BY <1>3, <3>1
  <2> QED
    BY <1>4, <2>1, <2>2
<1>5. {<<0, "values">>, <<0, "funcs">>} \subseteq DOMAIN tl
  BY DEF Lists
<1>6. ASSUME NEW o \in DOMAIN more
      PROVE  {o} \X FieldsOf(more[o].kind) \subseteq DOMAIN tl
  <2>1. CASE o \in DOMAIN all
    <3>1. {o} \X FieldsOf(all[o].kind) \subseteq DOMAIN sl
      BY <2>1 DEF Lists
    <3> QED
      BY <1>3, <2>1, <3>1
  <2>2. CASE o = id
    BY <1>3, <2>2
  <2> QED
    BY <1>3, <1>6, <2>1, <2>2
<1>7. Lists(more, tl)
  BY <1>3, <1>4, <1>5, <1>6 DEF Lists
<1> QED
  BY <1>2, <1>7

\* The list of users of an object that is not a function.
LEMMA HasUsers ==
    ASSUME NEW all, Objects(all), NEW sl, Lists(all, sl), NEW o \in DOMAIN all,
           all[o].kind # "function"
    PROVE  <<o, "used_by">> \in DOMAIN sl
<1>1. PICK kind : kind = all[o].kind
  OBVIOUS
<1>2. kind \in Kinds /\ kind # "function"
  <2>1. DOMAIN all = 1 .. Len(all) /\ all \in Seq(AnObject)
    BY LenProperties DEF Objects
  <2>2. all[o] \in AnObject
    BY <2>1, ElementOfSeq
  <2> QED
    BY <1>1, <2>2 DEF AnObject
<1>3. "used_by" \in FieldsOf(kind)
  BY <1>2, UsedByIs
<1>4. {o} \X FieldsOf(kind) \subseteq DOMAIN sl
  BY <1>1 DEF Lists
<1> QED
  BY <1>3, <1>4

\* Nobody names a function, and nobody an object that is not there.
LEMMA UsesAre ==
    ASSUME NEW all, NEW obj, Proper(all, obj), NEW o,
           o \notin 1 .. Len(all) \/ all[o].kind = "function"
    PROVE  Named(Ideal!Uses(obj), o) = {}
<1>1. CASE obj.kind = "call"
  BY <1>1 DEF Ideal!Uses, Named
<1>2. CASE obj.kind # "call"
  <2>1. Ideal!Uses(obj) = obj.operands
    BY <1>2 DEF Ideal!Uses
  <2>2. \A k \in DOMAIN obj.operands : obj.operands[k] # o
    BY <1>2 DEF Proper
  <2> QED
    BY <2>1, <2>2 DEF Named
<1> QED
  BY <1>1, <1>2

\* The objects an object names are older than it.
LEMMA OldUsesAre ==
    ASSUME NEW all, Objects(all), NEW u \in DOMAIN all, NEW o, o \notin DOMAIN all
    PROVE  Named(Ideal!Uses(all[u]), o) = {}
<1>1. DOMAIN all = 1 .. Len(all) /\ Len(all) \in Nat
  BY LenProperties DEF Objects
<1>2. \A k \in DOMAIN all[u].operands : all[u].operands[k] \in 1 .. u - 1
  BY DEF Objects
<1>3. 1 .. u - 1 \subseteq DOMAIN all
  BY <1>1
<1>4. \A k \in DOMAIN all[u].operands : all[u].operands[k] # o
  BY <1>2, <1>3
<1>5. CASE all[u].kind = "call"
  BY <1>5 DEF Ideal!Uses, Named
<1>6. CASE all[u].kind # "call"
  BY <1>4, <1>6 DEF Ideal!Uses, Named
<1> QED
  BY <1>5, <1>6

LEMMA NewUsers ==
    ASSUME NEW all, Objects(all), NEW sl, Lists(all, sl), NEW obj, Proper(all, obj),
           NEW id, id = Len(all) + 1, NEW a, UsersListed(all, a, sl),
           NEW b, NEW tl, Built(a, sl, b, tl, id, obj)
    PROVE  UsersListed(Append(all, obj), b, tl)
<1>1. PICK n : n = Len(all)
  OBVIOUS
<1>2. PICK more : more = Append(all, obj)
  OBVIOUS
<1>3. /\ n \in Nat /\ id = n + 1 /\ Len(more) = n + 1 /\ DOMAIN all = 1 .. n
      /\ DOMAIN more = DOMAIN all \cup {id} /\ more[id] = obj
      /\ \A o \in DOMAIN all : more[o] = all[o]
  BY <1>1, <1>2, NewObjects
<1>4. all \in Seq(AnObject) /\ obj \in AnObject
  BY DEF Objects, Proper
<1>5. ASSUME NEW o
      PROVE  /\ Ideal!Users(more, o) = Ideal!Users(all, o) \o Entries(id, obj, o)
             /\ Ideal!Users(all, o) \in Seq(Nat)
  <2>1. /\ Ideal!Users(Append(all, obj), o) =
               Ideal!Users(all, o) \o Entries(n + 1, obj, o)
        /\ Ideal!Users(all, o) \in Seq(Nat)
    BY <1>1, <1>3, <1>4, UsersGrow
  <2>2. n + 1 = id
    BY <1>3
  <2> QED
    BY <1>2, <2>1, <2>2
<1>6. ASSUME NEW o, Named(Ideal!Uses(obj), o) = {}
      PROVE  Ideal!Users(more, o) = Ideal!Users(all, o)
  <2>1. id \in Nat
    BY <1>3
  <2>2. Entries(id, obj, o) = <<>>
    BY <1>4, <1>6, <2>1, EntriesAre
  <2> QED
    BY <1>5, <2>2, ConcatEmptySeq
<1>7. ASSUME NEW o \in DOMAIN all, more[o].kind = "function"
      PROVE  Ideal!Users(more, o) = <<>>
  <2>1. all[o].kind = "function"
    BY <1>3, <1>7
  <2>2. Named(Ideal!Uses(obj), o) = {}
    BY <2>1, UsesAre
  <2>3. Ideal!Users(all, o) = <<>>
    BY <2>1 DEF UsersListed
  <2> QED
    BY <1>6, <2>2, <2>3
<1>8. ASSUME NEW o \in DOMAIN all, more[o].kind # "function"
      PROVE  Ideal!Users(more, o) = ContentIn(b, tl[<<o, "used_by">>])
  <2>1. all[o].kind # "function"
    BY <1>3, <1>8
  <2>2. PICK l : l = <<o, "used_by">>
    OBVIOUS
  <2>3. l \in DOMAIN sl /\ l[1] = o /\ l[2] = "used_by"
    BY <2>1, <2>2, HasUsers
  <2>4. ContentIn(b, tl[l]) = ContentIn(a, sl[l]) \o Entries(id, obj, o)
    BY <2>3 DEF Built
  <2>5. Ideal!Users(all, o) = ContentIn(a, sl[l])
    BY <2>1, <2>2 DEF UsersListed
  <2> QED
    BY <1>5, <2>2, <2>4, <2>5
<1>9. Ideal!Users(more, id) = <<>>
  <2>1. id \notin DOMAIN all
    BY <1>3
  <2>2. \A u \in 1 .. n : Named(Ideal!Uses(all[u]), id) = {}
    BY <1>3, <2>1, OldUsesAre
  <2>3. Ideal!Users(all, id) = <<>>
    BY <1>1, <1>3, <1>4, <2>2, NoUsers
  <2>4. Named(Ideal!Uses(obj), id) = {}
    BY <1>1, <1>3, <2>1, UsesAre
  <2> QED
    BY <1>6, <2>3, <2>4
<1>10. obj.kind # "function" => ContentIn(b, tl[<<id, "used_by">>]) = <<>>
  <2>1. obj.kind \in Kinds
    BY <1>4 DEF AnObject
  <2>2. obj.kind # "function" => "used_by" \in FieldsOf(obj.kind)
    BY <2>1, UsedByIs
  <2>3. obj.kind # "function" => <<id, "used_by">> \in {id} \X FieldsOf(obj.kind)
    BY <2>2
  <2> QED
    BY <2>3 DEF Built
<1>11. UsersListed(more, b, tl)
  <2>1. ASSUME NEW o \in DOMAIN more
        PROVE  Ideal!Users(more, o) = IF more[o].kind = "function" THEN <<>>
                                      ELSE ContentIn(b, tl[<<o, "used_by">>])
    <3>1. CASE o = id
      BY <1>3, <1>9, <1>10, <3>1
    <3>2. CASE o \in DOMAIN all
      BY <1>7, <1>8, <3>2
    <3> QED
      BY <1>3, <2>1, <3>1, <3>2
  <2> QED
    BY <2>1 DEF UsersListed
<1> QED
  BY <1>2, <1>11

\* After a call that fails the lists are still the same.
LEMMA SameUsers ==
    ASSUME NEW all, Objects(all), NEW sl, Lists(all, sl), NEW a, Store(a, sl),
           UsersListed(all, a, sl), NEW b, Keeps(a, b)
    PROVE  UsersListed(all, b, sl)
<1>1. ASSUME NEW o \in DOMAIN all, all[o].kind # "function"
      PROVE  ContentIn(b, sl[<<o, "used_by">>]) = ContentIn(a, sl[<<o, "used_by">>])
  <2>1. PICK l : l = <<o, "used_by">>
    OBVIOUS
  <2>2. l \in DOMAIN sl
    BY <1>1, <2>1, HasUsers
  <2>3. ContentIn(b, sl[l]) = ContentIn(a, sl[l])
    BY <2>2, SameContent
  <2> QED
    BY <2>1, <2>3
<1> QED
  BY <1>1 DEF UsersListed

\* What an append the pass makes itself does, whether it has succeeded or not.
AddDone(a, sl, st, list, item) ==
    /\ Store(st.area, sl) /\ Keeps(a, st.area) /\ Store(st.area, st.slices)
    /\ DOMAIN st.slices = DOMAIN sl
    /\ st.area.ok =>
          /\ ContentIn(st.area, st.slices[list]) = Append(ContentIn(a, sl[list]), item)
          /\ \A l \in DOMAIN sl \ {list} :
                ContentIn(st.area, st.slices[l]) = ContentIn(a, sl[l])

LEMMA AddIs ==
    ASSUME NEW a, NEW sl, Store(a, sl), NEW list \in DOMAIN sl, NEW item,
           NEW st, st = slice_append(Pair(a, sl), list, item)
    PROVE  AddDone(a, sl, st, list, item)
<1>1. PICK b : b = st.area
  OBVIOUS
<1>2. PICK tl : tl = st.slices
  OBVIOUS
<1>3. /\ Store(b, tl) /\ DOMAIN tl = DOMAIN sl /\ Keeps(a, b)
      /\ b.ok => a.ok /\ Grew(a, sl, b, tl, list, item)
  <2>1. st = slice_append([area |-> a, slices |-> sl], list, item)
    BY DEF Pair
  <2> QED
    BY <1>1, <1>2, <2>1, AppendIs
<1>4. Store(b, sl)
  <2>1. Solid(b) /\ b.ptr <= a.ptr /\ (b.ok => a.ok)
    BY <1>3 DEF Store, Keeps
  <2> QED
    BY <2>1, StoreLower
<1>5. ASSUME b.ok, NEW l \in DOMAIN sl \ {list}
      PROVE  ContentIn(b, tl[l]) = ContentIn(a, sl[l])
  <2>1. tl[l] = sl[l]
    BY <1>3, <1>5 DEF Grew
  <2>2. ContentIn(b, sl[l]) = ContentIn(a, sl[l])
    BY <1>3, SameContent
  <2> QED
    BY <2>1, <2>2
<1>6. ASSUME b.ok
      PROVE  ContentIn(b, tl[list]) = Append(ContentIn(a, sl[list]), item)
  <2>1. PICK s : s = sl[list]
    OBVIOUS
  <2>2. PICK t : t = tl[list]
    OBVIOUS
  <2>3. s.len \in Nat
    BY <2>1 DEF Store, Slice
  <2>4. /\ t.len = s.len + 1
        /\ \A k \in 1 .. s.len : Read(b, t.buffer + k - 1) = Read(a, s.buffer + k - 1)
        /\ Read(b, t.buffer + s.len) = item
    BY <1>3, <1>6, <2>1, <2>2 DEF Grew
  <2>5. t.buffer \in Nat
    BY <1>3, <2>2 DEF Store, Slice
  <2>6. \A k \in s.len + 1 .. t.len : Read(b, t.buffer + k - 1) = item
    <3>1. \A k \in s.len + 1 .. t.len : k = s.len + 1
      BY <2>3, <2>4
    <3>2. t.buffer + (s.len + 1) - 1 = t.buffer + s.len
      BY <2>3, <2>5
    <3> QED
      BY <2>4, <3>1, <3>2
  <2>7. Longer(a, s, b, t, 1, item)
    BY <2>3, <2>4, <2>6 DEF Longer
  <2>8. ContentIn(b, t) = ContentIn(a, s) \o Again(item, 1)
    BY <2>7, ContentGrew
  <2>9. Again(item, 1) = <<item>>
    BY DEF Again
  <2>10. PICK c : c = ContentIn(a, s)
    OBVIOUS
  <2>11. PICK S : S = Range(c) \cup {item}
    OBVIOUS
  <2>12. c \in Seq(Range(c))
    BY <2>3, <2>10, ContentIsSeq
  <2>13. c \in Seq(S) /\ item \in S
    <3>1. Range(c) \subseteq S
      BY <2>11
    <3> QED
      BY <2>11, <2>12, <3>1, SeqMonotonic
  <2>14. Append(c, item) = c \o <<item>>
    BY <2>13, AppendIsConcat
  <2> QED
    BY <2>1, <2>2, <2>8, <2>9, <2>10, <2>14
<1> QED
  BY <1>1, <1>2, <1>3, <1>4, <1>5, <1>6 DEF AddDone

LEMMA AddUsers ==
    ASSUME NEW all, Objects(all), NEW sl, Lists(all, sl), NEW a, UsersListed(all, a, sl),
           NEW list, list[2] # "used_by", NEW item, NEW st, AddDone(a, sl, st, list, item),
           st.area.ok
    PROVE  UsersListed(all, st.area, st.slices) /\ Lists(all, st.slices)
<1>1. PICK b : b = st.area
  OBVIOUS
<1>2. PICK tl : tl = st.slices
  OBVIOUS
<1>3. /\ DOMAIN tl = DOMAIN sl
      /\ \A l \in DOMAIN sl \ {list} : ContentIn(b, tl[l]) = ContentIn(a, sl[l])
  BY <1>1, <1>2 DEF AddDone
<1>4. ASSUME NEW o \in DOMAIN all, all[o].kind # "function"
      PROVE  ContentIn(b, tl[<<o, "used_by">>]) = ContentIn(a, sl[<<o, "used_by">>])
  <2>1. PICK l : l = <<o, "used_by">>
    OBVIOUS
  <2>2. l \in DOMAIN sl
    BY <1>4, <2>1, HasUsers
  <2>3. l # list
    BY <2>1
  <2> QED
    BY <1>3, <2>1, <2>2, <2>3
<1>5. UsersListed(all, b, tl)
  BY <1>4 DEF UsersListed
<1>6. Lists(all, tl)
  BY <1>3 DEF Lists
<1> QED
  BY <1>1, <1>2, <1>5, <1>6

-----------------------------------------------------------------------------
(* The refinement mapping.                                                   *)

UsersBar(all, a, sl) ==
    [o \in DOMAIN all |-> IF all[o].kind = "function" THEN <<>>
                          ELSE ContentIn(a, sl[<<o, "used_by">>])]

ListsBar(a, sl) == [l \in {k \in DOMAIN sl : k[2] # "used_by"} |-> ContentIn(a, sl[l])]

LEMMA BarsAre ==
    /\ Ideal!vars = <<objs, UsersBar(objs, area, slices), ListsBar(area, slices)>>
    /\ Ideal!vars' = <<objs', UsersBar(objs', area', slices'), ListsBar(area', slices')>>
<1>1. Ideal!vars = <<objs, UsersBar(objs, area, slices), ListsBar(area, slices)>>
  BY DEF Ideal!vars, UsersBar, ListsBar, Content, ContentIn, Is
<1>2. Ideal!vars' = <<objs', UsersBar(objs', area', slices'), ListsBar(area', slices')>>
  BY DEF Ideal!vars, UsersBar, ListsBar, Content, ContentIn, Is
<1> QED
  BY <1>1, <1>2

AllUsers(all) == [o \in DOMAIN all |-> Ideal!Users(all, o)]

LEMMA UsersBarIs ==
    ASSUME NEW all, NEW a, NEW sl, UsersListed(all, a, sl)
    PROVE  UsersBar(all, a, sl) = AllUsers(all)
  BY DEF UsersListed, UsersBar, AllUsers

LEMMA SameBars ==
    ASSUME NEW all, Objects(all), NEW sl, Lists(all, sl), NEW a, Store(a, sl),
           UsersListed(all, a, sl), NEW b, Keeps(a, b)
    PROVE  UsersBar(all, b, sl) = UsersBar(all, a, sl) /\ ListsBar(b, sl) = ListsBar(a, sl)
<1>1. UsersListed(all, b, sl)
  BY SameUsers
<1>2. UsersBar(all, b, sl) = UsersBar(all, a, sl)
  BY <1>1, UsersBarIs
<1>3. \A l \in DOMAIN sl : ContentIn(b, sl[l]) = ContentIn(a, sl[l])
  BY SameContent
<1>4. ListsBar(b, sl) = ListsBar(a, sl)
  BY <1>3 DEF ListsBar
<1> QED
  BY <1>2, <1>4

LEMMA OtherFields ==
    ASSUME NEW kind \in Kinds
    PROVE  {f \in FieldsOf(kind) : f # "used_by"} = Ideal!FieldsOf(kind)
  BY DEF FieldsOf, Ideal!FieldsOf, Kinds, Insts, Terminators

\* The other lists after a builder.
MoreLists(lists, id, kind) ==
    [l \in DOMAIN lists \cup ({id} \X Ideal!FieldsOf(kind)) |->
        IF l \in DOMAIN lists THEN lists[l] ELSE <<>>]

LEMMA NewListsBar ==
    ASSUME NEW all, Len(all) \in Nat, NEW sl, Lists(all, sl), NEW obj, obj \in AnObject,
           NEW id, id = Len(all) + 1, NEW a, NEW b, NEW tl, Built(a, sl, b, tl, id, obj)
    PROVE  ListsBar(b, tl) = MoreLists(ListsBar(a, sl), id, obj.kind)
<1>1. PICK lists : lists = ListsBar(a, sl)
  OBVIOUS
<1>2. PICK own : own = {id} \X FieldsOf(obj.kind)
  OBVIOUS
<1>3. /\ DOMAIN tl = DOMAIN sl \cup own
      /\ \A l \in own : ContentIn(b, tl[l]) = <<>>
      /\ \A l \in DOMAIN sl : l[2] # "used_by" => ContentIn(b, tl[l]) = ContentIn(a, sl[l])
  BY <1>2 DEF Built
<1>4. DOMAIN lists = {k \in DOMAIN sl : k[2] # "used_by"}
  BY <1>1 DEF ListsBar
<1>5. {k \in own : k[2] # "used_by"} = {id} \X Ideal!FieldsOf(obj.kind)
  <2>1. obj.kind \in Kinds
    BY DEF AnObject
  <2>2. {f \in FieldsOf(obj.kind) : f # "used_by"} = Ideal!FieldsOf(obj.kind)
    BY <2>1, OtherFields
  <2> QED
    BY <1>2, <2>2
<1>6. {k \in DOMAIN tl : k[2] # "used_by"} =
          DOMAIN lists \cup ({id} \X Ideal!FieldsOf(obj.kind))
  BY <1>3, <1>4, <1>5
<1>7. ASSUME NEW l \in {k \in DOMAIN tl : k[2] # "used_by"}
      PROVE  ContentIn(b, tl[l]) = IF l \in DOMAIN lists THEN lists[l] ELSE <<>>
  <2>1. CASE l \in DOMAIN lists
    <3>1. lists[l] = ContentIn(a, sl[l]) /\ l \in DOMAIN sl /\ l[2] # "used_by"
      BY <1>1, <1>4, <2>1 DEF ListsBar
    <3> QED
      BY <1>3, <2>1, <3>1
  <2>2. CASE l \notin DOMAIN lists
    <3>1. l \in own
      BY <1>3, <1>4, <1>7, <2>2
    <3> QED
      BY <1>3, <2>2, <3>1
  <2> QED
    BY <2>1, <2>2
<1>8. ListsBar(b, tl) = [l \in {k \in DOMAIN tl : k[2] # "used_by"} |->
                            IF l \in DOMAIN lists THEN lists[l] ELSE <<>>]
  BY <1>7 DEF ListsBar
<1> QED
  BY <1>1, <1>6, <1>8 DEF MoreLists

\* The other lists after an append.
LongerList(lists, list, item, more) ==
    list \in DOMAIN lists /\ more = [lists EXCEPT ![list] = Append(@, item)]

LEMMA AddListsBar ==
    ASSUME NEW a, NEW sl, NEW list \in DOMAIN sl, list[2] # "used_by", NEW item,
           NEW st, AddDone(a, sl, st, list, item), st.area.ok
    PROVE  LongerList(ListsBar(a, sl), list, item, ListsBar(st.area, st.slices))
<1>1. PICK b : b = st.area
  OBVIOUS
<1>2. PICK tl : tl = st.slices
  OBVIOUS
<1>3. /\ DOMAIN tl = DOMAIN sl
      /\ ContentIn(b, tl[list]) = Append(ContentIn(a, sl[list]), item)
      /\ \A l \in DOMAIN sl \ {list} : ContentIn(b, tl[l]) = ContentIn(a, sl[l])
  BY <1>1, <1>2 DEF AddDone
<1>4. list \in DOMAIN ListsBar(a, sl)
  BY DEF ListsBar
<1>5. ListsBar(b, tl) = [ListsBar(a, sl) EXCEPT ![list] = Append(@, item)]
  BY <1>3 DEF ListsBar
<1> QED
  BY <1>1, <1>2, <1>4, <1>5 DEF LongerList

-----------------------------------------------------------------------------
(* The inductive invariant.                                                  *)

\* The area is sound and all slices are in what is in use of it; objects are older than
\* what names them; every object has its lists, and the one of its users is right.
IInv ==
    /\ Store(area, slices)
    /\ Objects(objs)
    /\ Lists(objs, slices)
    /\ UsersListed(objs, area, slices)
    /\ idle \subseteq DOMAIN objs

\* A step that may be taken: as the abstract specification says, and back to IInv.
Fine == IInv' /\ [Ideal!Next]_(Ideal!vars)

LEMMA ExhaustedIsFine ==
    ASSUME IInv, NEW a, Exhausted(a), Store(a, slices), Keeps(area, a)
    PROVE  Fine
<1>1. area' = a /\ objs' = objs /\ slices' = slices /\ idle' = idle
  BY DEF Exhausted
<1>2. /\ Store(area, slices) /\ Objects(objs) /\ Lists(objs, slices)
      /\ UsersListed(objs, area, slices) /\ idle \subseteq DOMAIN objs
  BY DEF IInv
<1>3. UsersListed(objs, a, slices)
  BY <1>2, SameUsers
<1>4. IInv'
  BY <1>1, <1>2, <1>3 DEF IInv
<1>5. /\ UsersBar(objs, a, slices) = UsersBar(objs, area, slices)
      /\ ListsBar(a, slices) = ListsBar(area, slices)
  BY <1>2, SameBars
<1>6. Ideal!vars' = Ideal!vars
  BY <1>1, <1>5, BarsAre
<1> QED
  BY <1>4, <1>6 DEF Fine

\* The object a builder makes.
Object(kind, operands) == [kind |-> kind, operands |-> operands]

LEMMA CreateIsNext ==
    ASSUME NEW obj, Objects(objs), Proper(objs, obj), objs' = Append(objs, obj),
           UsersListed(objs', area', slices'),
           Built(area, slices, area', slices', Len(objs) + 1, obj), Lists(objs, slices)
    PROVE  Ideal!Next
<1>1. PICK n : n = Len(objs)
  OBVIOUS
<1>2. /\ n \in Nat /\ Len(objs') = n + 1 /\ objs'[n + 1] = obj
      /\ objs \in Seq(AnObject) /\ obj \in AnObject
  BY <1>1, NewObjects DEF Objects, Proper
<1>3. Ideal!Last(objs') = obj
  BY <1>2 DEF Ideal!Last
<1>4. objs' # <<>>
  BY <1>2, AppendProperties
<1>5. Ideal!Range(obj.operands) \subseteq 0 .. Len(objs)
  <2>1. \A k \in DOMAIN obj.operands : obj.operands[k] \in 1 .. n
    BY <1>1 DEF Proper
  <2>2. \A k \in DOMAIN obj.operands : obj.operands[k] \in 0 .. n
    BY <1>2, <2>1
  <2> QED
    BY <1>1, <2>2 DEF Ideal!Range
<1>6. UsersBar(objs', area', slices') = AllUsers(objs')
  BY UsersBarIs
<1>7. ListsBar(area', slices') = MoreLists(ListsBar(area, slices), Len(objs'), obj.kind)
  <2>1. PICK id : id = Len(objs) + 1
    OBVIOUS
  <2>2. Len(objs) \in Nat /\ Len(objs') = id /\ Built(area, slices, area', slices', id, obj)
    BY <1>1, <1>2, <2>1
  <2>3. ListsBar(area', slices') = MoreLists(ListsBar(area, slices), id, obj.kind)
    BY <1>2, <2>1, <2>2, NewListsBar
  <2> QED
    BY <2>2, <2>3
<1>8. Ideal!Create(Ideal!Last(objs'))
  BY <1>3, <1>6, <1>7 DEF Ideal!Create, AllUsers, MoreLists,
                          UsersBar, ListsBar, Content, ContentIn, Is
<1>9. /\ objs' # <<>>
      /\ Ideal!Range(Ideal!Last(objs').operands) \subseteq 0 .. Len(objs)
      /\ Ideal!Create(Ideal!Last(objs'))
  BY <1>3, <1>4, <1>5, <1>8
<1> QED
  BY <1>9, Zenon DEF Ideal!Next

\* What New does, with the operators of this module.
AfterNew(a, sl, id, kind, sizes, uses) ==
    EnterAll(Pair(FoldLeft(bump_malloc, a, sizes), NewSlices(sl, id, kind)), uses, id)

LEMMA NewUnfolds ==
    ASSUME NEW kind, NEW sizes, NEW operands, NEW uses, New(kind, sizes, operands, uses)
    PROVE  LET st == AfterNew(area, slices, Len(objs) + 1, kind, sizes, uses)
           IN  \/ Exhausted(st.area)
               \/ /\ st.area.ok
                  /\ area' = st.area
                  /\ slices' = st.slices
                  /\ objs' = Append(objs, Object(kind, operands))
                  /\ idle' = IF kind \in Insts THEN idle \cup {Len(objs) + 1} ELSE idle
  BY Zenon DEF New, AfterNew, EnterAll, Pair, NewSlices, UsedBy, Object

LEMMA NewIsFine ==
    ASSUME IInv, NEW kind, NEW sizes \in Seq(Nat), NEW operands, NEW uses,
           Proper(objs, Object(kind, operands)), uses = Ideal!Uses(Object(kind, operands)),
           New(kind, sizes, operands, uses)
    PROVE  Fine
<1>1. PICK obj : obj = Object(kind, operands)
  OBVIOUS
<1>2. PICK id : id = Len(objs) + 1
  OBVIOUS
<1>3. PICK m : m = FoldLeft(bump_malloc, area, sizes)
  OBVIOUS
<1>4. PICK nl : nl = NewSlices(slices, id, kind)
  OBVIOUS
<1>5. PICK st : st = AfterNew(area, slices, id, kind, sizes, uses)
  OBVIOUS
<1>6. \/ Exhausted(st.area)
      \/ /\ st.area.ok
         /\ area' = st.area
         /\ slices' = st.slices
         /\ objs' = Append(objs, obj)
         /\ idle' = IF kind \in Insts THEN idle \cup {id} ELSE idle
  BY <1>1, <1>2, <1>5, NewUnfolds
<1>7. /\ Store(area, slices) /\ Objects(objs) /\ Lists(objs, slices)
      /\ UsersListed(objs, area, slices) /\ idle \subseteq DOMAIN objs
  BY DEF IInv
<1>8. NewDone(area, slices, st, id, obj)
  <2>1. obj.kind = kind /\ objs \in Seq(AnObject)
    BY <1>1, <1>7 DEF Object, Objects
  <2>2. nl = NewSlices(slices, id, obj.kind) /\ uses = Ideal!Uses(obj) /\ Proper(objs, obj)
    BY <1>1, <1>4, <2>1
  <2>3. st = EnterAll(Pair(m, nl), uses, id)
    BY <1>3, <1>4, <1>5, Zenon DEF AfterNew
  <2> QED
    BY <1>2, <1>3, <1>7, <2>1, <2>2, <2>3, NewIs
<1>9. CASE Exhausted(st.area)
  <2>1. PICK a : a = st.area
    OBVIOUS
  <2>2. Exhausted(a) /\ Store(a, slices) /\ Keeps(area, a)
    BY <1>8, <1>9, <2>1 DEF NewDone
  <2> QED
    BY <2>2, ExhaustedIsFine
<1>10. CASE /\ st.area.ok
            /\ area' = st.area
            /\ slices' = st.slices
            /\ objs' = Append(objs, obj)
            /\ idle' = IF kind \in Insts THEN idle \cup {id} ELSE idle
  <2>1. objs' = Append(objs, obj) /\ Proper(objs, obj)
    BY <1>1, <1>10
  <2>2. Built(area, slices, area', slices', id, obj) /\ Store(area', slices')
    BY <1>8, <1>10 DEF NewDone
  <2>3. Objects(objs') /\ DOMAIN objs' = DOMAIN objs \cup {id}
    BY <1>2, <1>7, <2>1, NewObjects
  <2>4. Lists(objs', slices')
    <3>1. DOMAIN slices' = DOMAIN slices \cup ({id} \X FieldsOf(obj.kind))
      BY <2>2 DEF Built
    <3> QED
      BY <1>2, <1>7, <2>1, <3>1, NewLists
  <2>5. UsersListed(objs', area', slices')
    BY <1>2, <1>7, <2>1, <2>2, NewUsers
  <2>6. idle' \subseteq DOMAIN objs'
    BY <1>7, <1>10, <2>3
  <2>7. IInv'
    BY <2>2, <2>3, <2>4, <2>5, <2>6 DEF IInv
  <2>8. Ideal!Next
    BY <1>2, <1>7, <2>1, <2>2, <2>5, CreateIsNext
  <2> QED
    BY <2>7, <2>8 DEF Fine
<1> QED
  BY <1>6, <1>9, <1>10

LEMMA AddIsFine ==
    ASSUME IInv, NEW list \in DOMAIN slices, list[2] # "used_by",
           NEW item \in 0 .. Len(objs), Add(list, item)
    PROVE  Fine
<1>1. PICK st : st = slice_append(Pair(area, slices), list, item)
  OBVIOUS
<1>2. \/ Exhausted(st.area)
      \/ /\ st.area.ok /\ area' = st.area /\ slices' = st.slices
         /\ idle' = idle \ {item} /\ objs' = objs
  BY <1>1 DEF Add, Pair
<1>3. /\ Store(area, slices) /\ Objects(objs) /\ Lists(objs, slices)
      /\ UsersListed(objs, area, slices) /\ idle \subseteq DOMAIN objs
  BY DEF IInv
<1>4. AddDone(area, slices, st, list, item)
  BY <1>1, <1>3, AddIs
<1>5. CASE Exhausted(st.area)
  <2>1. PICK a : a = st.area
    OBVIOUS
  <2>2. Exhausted(a) /\ Store(a, slices) /\ Keeps(area, a)
    BY <1>4, <1>5, <2>1 DEF AddDone
  <2> QED
    BY <2>2, ExhaustedIsFine
<1>6. CASE /\ st.area.ok /\ area' = st.area /\ slices' = st.slices
           /\ idle' = idle \ {item} /\ objs' = objs
  <2>1. st.area.ok
    BY <1>6
  <2>2. UsersListed(objs, area', slices') /\ Lists(objs, slices')
    BY <1>3, <1>4, <1>6, <2>1, AddUsers
  <2>3. Store(area', slices')
    BY <1>4, <1>6 DEF AddDone
  <2>4. IInv'
    BY <1>3, <1>6, <2>2, <2>3 DEF IInv
  <2>5. LongerList(ListsBar(area, slices), list, item, ListsBar(area', slices'))
    <3>1. LongerList(ListsBar(area, slices), list, item, ListsBar(st.area, st.slices))
      BY <1>4, <2>1, AddListsBar
    <3> QED
      BY <1>6, <3>1
  <2>6. UsersBar(objs', area', slices') = UsersBar(objs, area, slices)
    <3>1. UsersBar(objs, area', slices') = AllUsers(objs)
      BY <2>2, UsersBarIs
    <3>2. UsersBar(objs, area, slices) = AllUsers(objs)
      BY <1>3, UsersBarIs
    <3> QED
      BY <1>6, <3>1, <3>2
  <2>7. Ideal!Add(list, item)
    BY <1>6, <2>5, <2>6 DEF Ideal!Add, LongerList, UsersBar, ListsBar, Content, ContentIn, Is
  <2>8. list \in {k \in DOMAIN slices : k[2] # "used_by"}
    OBVIOUS
  <2>9. Ideal!Next
    BY <2>7, <2>8 DEF Ideal!Next
  <2> QED
    BY <2>4, <2>9 DEF Fine
<1> QED
  BY <1>2, <1>5, <1>6

\* Nothing the abstract specification knows of changes.
LEMMA SameIsFine ==
    ASSUME IInv, UNCHANGED <<area, objs, slices>>, idle' \subseteq idle
    PROVE  Fine
<1>1. IInv'
  BY DEF IInv
<1>2. Ideal!vars' = Ideal!vars
  BY BarsAre
<1> QED
  BY <1>1, <1>2 DEF Fine

LEMMA OfAre ==
    ASSUME IInv, NEW kinds, NEW o \in Of(kinds)
    PROVE  o \in 1 .. Len(objs) /\ o \in DOMAIN objs /\ objs[o].kind \in kinds
<1>1. DOMAIN objs = 1 .. Len(objs)
  BY LenProperties DEF IInv, Objects
<1> QED
  BY <1>1 DEF Of, Is

LEMMA HasLists ==
    ASSUME IInv, NEW kinds, NEW o \in Of(kinds), NEW f,
           \A kind \in kinds : f \in FieldsOf(kind)
    PROVE  <<o, f>> \in DOMAIN slices
<1>1. o \in DOMAIN objs /\ objs[o].kind \in kinds
  BY OfAre
<1>2. {o} \X FieldsOf(objs[o].kind) \subseteq DOMAIN slices
  BY <1>1 DEF IInv, Lists
<1>3. f \in FieldsOf(objs[o].kind)
  BY <1>1
<1> QED
  BY <1>2, <1>3

LEMMA ProperIs ==
    ASSUME NEW kind \in Kinds, kind # "call", NEW operands \in Seq(Nat),
           \A k \in DOMAIN operands : /\ operands[k] \in 1 .. Len(objs)
                                      /\ objs[operands[k]].kind # "function"
    PROVE  /\ Proper(objs, Object(kind, operands))
           /\ operands = Ideal!Uses(Object(kind, operands))
<1>1. Object(kind, operands).kind = kind /\ Object(kind, operands).operands = operands
  BY DEF Object
<1>2. Object(kind, operands) \in AnObject
  BY DEF Object, AnObject
<1> QED
  BY <1>1, <1>2 DEF Proper, Ideal!Uses

\* The builders of objects that name none, one, two or three others.
LEMMA NoneIsFine ==
    ASSUME IInv, NEW kind \in Kinds, kind # "call", NEW sizes \in Seq(Nat),
           New(kind, sizes, <<>>, <<>>)
    PROVE  Fine
<1>1. PICK operands : operands = <<>>
  OBVIOUS
<1>2. operands \in Seq(Nat) /\ DOMAIN operands = {}
  BY <1>1
<1>3. /\ Proper(objs, Object(kind, operands))
      /\ operands = Ideal!Uses(Object(kind, operands))
  BY <1>2, ProperIs
<1>4. New(kind, sizes, operands, operands)
  BY <1>1
<1> QED
  BY <1>3, <1>4, NewIsFine

LEMMA OneIsFine ==
    ASSUME IInv, NEW kind \in Kinds, kind # "call", NEW sizes \in Seq(Nat),
           NEW kinds, "function" \notin kinds, NEW o \in Of(kinds),
           New(kind, sizes, <<o>>, <<o>>)
    PROVE  Fine
<1>1. PICK operands : operands = <<o>>
  OBVIOUS
<1>2. o \in 1 .. Len(objs) /\ objs[o].kind # "function"
  BY OfAre
<1>3. operands \in Seq(Nat) /\ DOMAIN operands = {1} /\ operands[1] = o
  BY <1>1, <1>2
<1>4. /\ Proper(objs, Object(kind, operands))
      /\ operands = Ideal!Uses(Object(kind, operands))
  BY <1>2, <1>3, ProperIs
<1>5. New(kind, sizes, operands, operands)
  BY <1>1
<1> QED
  BY <1>4, <1>5, NewIsFine

LEMMA TwoIsFine ==
    ASSUME IInv, NEW kind \in Kinds, kind # "call", NEW sizes \in Seq(Nat),
           NEW kinds, "function" \notin kinds, NEW o \in Of(kinds),
           NEW others, "function" \notin others, NEW p \in Of(others),
           New(kind, sizes, <<o, p>>, <<o, p>>)
    PROVE  Fine
<1>1. PICK operands : operands = <<o, p>>
  OBVIOUS
<1>2. /\ o \in 1 .. Len(objs) /\ objs[o].kind # "function"
      /\ p \in 1 .. Len(objs) /\ objs[p].kind # "function"
  BY OfAre
<1>3. operands \in Seq(Nat) /\ DOMAIN operands = 1 .. 2 /\ operands[1] = o /\ operands[2] = p
  BY <1>1, <1>2
<1>4. \A k \in DOMAIN operands : k = 1 \/ k = 2
  BY <1>3
<1>5. /\ Proper(objs, Object(kind, operands))
      /\ operands = Ideal!Uses(Object(kind, operands))
  BY <1>2, <1>3, <1>4, ProperIs
<1>6. New(kind, sizes, operands, operands)
  BY <1>1
<1> QED
  BY <1>5, <1>6, NewIsFine

LEMMA BranchIsFine ==
    ASSUME IInv, NEW cond \in Of(Exps), NEW true_bb \in Of({"block"}),
           NEW false_bb \in Of({"block"}), koopa_raw_branch(cond, true_bb, false_bb)
    PROVE  Fine
<1>1. PICK operands : operands = <<cond, true_bb, false_bb>>
  OBVIOUS
<1>2. /\ cond \in 1 .. Len(objs) /\ objs[cond].kind # "function"
      /\ true_bb \in 1 .. Len(objs) /\ objs[true_bb].kind # "function"
      /\ false_bb \in 1 .. Len(objs) /\ objs[false_bb].kind # "function"
  BY OfAre DEF Exps
<1>3. /\ operands \in Seq(Nat) /\ DOMAIN operands = 1 .. 3 /\ operands[1] = cond
      /\ operands[2] = true_bb /\ operands[3] = false_bb
  BY <1>1, <1>2
<1>4. \A k \in DOMAIN operands : k = 1 \/ k = 2 \/ k = 3
  BY <1>3
<1>5. "branch" \in Kinds /\ <<Value>> \in Seq(Nat)
  BY DEF Kinds, Insts, Terminators, Value
<1>6. /\ Proper(objs, Object("branch", operands))
      /\ operands = Ideal!Uses(Object("branch", operands))
  BY <1>2, <1>3, <1>4, <1>5, ProperIs
<1>7. New("branch", <<Value>>, operands, operands)
  BY <1>1 DEF koopa_raw_branch
<1> QED
  BY <1>5, <1>6, <1>7, NewIsFine

\* A call is not told to the function.
LEMMA CallIsFine ==
    ASSUME IInv, NEW callee \in Of({"function"}), koopa_raw_call(callee)
    PROVE  Fine
<1>1. PICK obj : obj = Object("call", <<callee>>)
  OBVIOUS
<1>2. callee \in 1 .. Len(objs)
  BY OfAre
<1>3. "call" \in Kinds /\ <<Value>> \in Seq(Nat)
  BY DEF Kinds, Insts, Value
<1>4. Proper(objs, obj) /\ <<>> = Ideal!Uses(obj)
  <2>1. obj.kind = "call" /\ obj.operands = <<callee>>
    BY <1>1 DEF Object
  <2>2. obj \in AnObject
    BY <1>1, <1>2, <1>3 DEF Object, AnObject
  <2> QED
    BY <1>2, <2>1, <2>2 DEF Proper, Ideal!Uses
<1>5. New("call", <<Value>>, <<callee>>, <<>>)
  BY DEF koopa_raw_call
<1> QED
  BY <1>1, <1>3, <1>4, <1>5, NewIsFine

LEMMA BuildersAreFine ==
    ASSUME IInv, Builders
    PROVE  Fine
<1> USE DEF Kinds, Insts, Terminators
<1>1. /\ <<Value>> \in Seq(Nat) /\ <<Name, Value>> \in Seq(Nat)
      /\ <<Name, Value, Type>> \in Seq(Nat) /\ <<Block, Name>> \in Seq(Nat)
      /\ <<Type, Func, Name>> \in Seq(Nat)
  BY DEF Value, Name, Type, Block, Func
<1>2. CASE koopa_raw_integer
  BY <1>1, <1>2, NoneIsFine DEF koopa_raw_integer
<1>3. CASE koopa_raw_zero_init
  BY <1>1, <1>3, NoneIsFine DEF koopa_raw_zero_init
<1>4. CASE koopa_raw_func_arg_ref
  BY <1>1, <1>4, NoneIsFine DEF koopa_raw_func_arg_ref
<1>5. CASE koopa_raw_alloc
  BY <1>1, <1>5, NoneIsFine DEF koopa_raw_alloc
<1>6. CASE koopa_raw_basic_block
  BY <1>1, <1>6, NoneIsFine DEF koopa_raw_basic_block
<1>7. CASE koopa_raw_function
  BY <1>1, <1>7, NoneIsFine DEF koopa_raw_function
<1>8. CASE koopa_raw_return_nothing
  BY <1>1, <1>8, NoneIsFine DEF koopa_raw_return_nothing
<1>9. ASSUME NEW init \in Of({"integer", "zero_init"}), koopa_raw_global_alloc(init)
      PROVE  Fine
  BY <1>1, <1>9, OneIsFine DEF koopa_raw_global_alloc
<1>10. ASSUME NEW src \in Of(Variables), koopa_raw_load(src)
       PROVE  Fine
  <2>1. "function" \notin Variables
    BY DEF Variables
  <2> QED
    BY <1>1, <1>10, <2>1, OneIsFine DEF koopa_raw_load
<1>11. ASSUME NEW value \in Of(Exps \cup {"func_arg_ref"}), NEW dest \in Of(Variables),
              koopa_raw_store(value, dest)
       PROVE  Fine
  <2>1. "function" \notin Variables /\ "function" \notin Exps \cup {"func_arg_ref"}
    BY DEF Variables, Exps
  <2> QED
    BY <1>1, <1>11, <2>1, TwoIsFine DEF koopa_raw_store
<1>12. ASSUME NEW lhs \in Of(Exps), NEW rhs \in Of(Exps), koopa_raw_binary(lhs, rhs)
       PROVE  Fine
  <2>1. "function" \notin Exps
    BY DEF Exps
  <2> QED
    BY <1>1, <1>12, <2>1, TwoIsFine DEF koopa_raw_binary
<1>13. ASSUME NEW target \in Of({"block"}), koopa_raw_jump(target)
       PROVE  Fine
  BY <1>1, <1>13, OneIsFine DEF koopa_raw_jump
<1>14. ASSUME NEW value \in Of(Exps), koopa_raw_return(value)
       PROVE  Fine
  <2>1. "function" \notin Exps
    BY DEF Exps
  <2> QED
    BY <1>1, <1>14, <2>1, OneIsFine DEF koopa_raw_return
<1> QED
  BY <1>2, <1>3, <1>4, <1>5, <1>6, <1>7, <1>8, <1>9, <1>10, <1>11, <1>12, <1>13, <1>14,
     BranchIsFine, CallIsFine DEF Builders

LEMMA AppendsAreFine ==
    ASSUME IInv, Appends
    PROVE  Fine
<1>1. Len(objs) \in Nat /\ 1 .. Len(objs) \subseteq 0 .. Len(objs)
  BY LenProperties DEF IInv, Objects
<1>2. {<<0, "values">>, <<0, "funcs">>} \subseteq DOMAIN slices /\ idle \subseteq 1 .. Len(objs)
  BY LenProperties DEF IInv, Lists, Objects
<1>3. ASSUME NEW f \in Of({"function"}), AddOnce(<<0, "funcs">>, f)
      PROVE  Fine
  <2>1. f \in 0 .. Len(objs)
    BY <1>1, OfAre
  <2> QED
    BY <1>2, <1>3, <2>1, AddIsFine DEF AddOnce
<1>4. ASSUME NEW g \in Of({"global_alloc"}), AddOnce(<<0, "values">>, g)
      PROVE  Fine
  <2>1. g \in 0 .. Len(objs)
    BY <1>1, OfAre
  <2> QED
    BY <1>2, <1>4, <2>1, AddIsFine DEF AddOnce
<1>5. ASSUME NEW f \in Of({"function"}), NEW b \in Of({"block"}), AddOnce(<<f, "bbs">>, b)
      PROVE  Fine
  <2>1. b \in 0 .. Len(objs)
    BY <1>1, OfAre
  <2>2. <<f, "bbs">> \in DOMAIN slices
    BY HasLists DEF FieldsOf
  <2> QED
    BY <1>5, <2>1, <2>2, AddIsFine DEF AddOnce
<1>6. ASSUME NEW f \in Of({"function"}), NEW p \in Of({"func_arg_ref"}),
             AddOnce(<<f, "params">>, p)
      PROVE  Fine
  <2>1. p \in 0 .. Len(objs)
    BY <1>1, OfAre
  <2>2. <<f, "params">> \in DOMAIN slices
    BY HasLists DEF FieldsOf
  <2> QED
    BY <1>6, <2>1, <2>2, AddIsFine DEF AddOnce
<1>7. ASSUME NEW f \in Of({"function"}), Add(<<f, "types">>, 0)
      PROVE  Fine
  <2>1. <<f, "types">> \in DOMAIN slices /\ 0 \in 0 .. Len(objs)
    BY <1>1, HasLists DEF FieldsOf
  <2> QED
    BY <1>7, <2>1, AddIsFine
<1>8. ASSUME NEW c \in Of({"call"}), NEW value \in Of(Exps), AddOnce(<<c, "args">>, value)
      PROVE  Fine
  <2>1. value \in 0 .. Len(objs)
    BY <1>1, OfAre
  <2>2. <<c, "args">> \in DOMAIN slices
    BY HasLists DEF FieldsOf
  <2> QED
    BY <1>8, <2>1, <2>2, AddIsFine DEF AddOnce
<1>9. ASSUME NEW b \in Of({"block"}), NEW inst \in idle, TryAppend(b, inst)
      PROVE  Fine
  <2>1. inst \in 0 .. Len(objs)
    BY <1>1, <1>2
  <2>2. <<b, "insts">> \in DOMAIN slices
    BY HasLists DEF FieldsOf
  <2>3. Add(<<b, "insts">>, inst) \/ (UNCHANGED <<area, objs, slices>> /\ idle' \subseteq idle)
    BY <1>9 DEF TryAppend
  <2> QED
    BY <2>1, <2>2, <2>3, AddIsFine, SameIsFine
<1> QED
  BY <1>3, <1>4, <1>5, <1>6, <1>7, <1>8, <1>9 DEF Appends

LEMMA NextIsFine == IInv /\ [Next]_vars => Fine
<1> SUFFICES ASSUME IInv, [Next]_vars
             PROVE  Fine
  OBVIOUS
<1>1. CASE UNCHANGED vars
  BY <1>1, SameIsFine DEF vars
<1> QED
  BY <1>1, BuildersAreFine, AppendsAreFine DEF Next, Over

\* Before anything is made.
LEMMA InitIsFine == Init => IInv /\ Ideal!Init
<1> SUFFICES ASSUME Init
             PROVE  IInv /\ Ideal!Init
  OBVIOUS
<1>1. /\ area = bump_malloc(bump_new, Type) /\ objs = <<>> /\ idle = {}
      /\ slices = [l \in {<<0, "values">>, <<0, "funcs">>} |-> NoSlice]
  BY DEF Init
<1>2. Solid(bump_new) /\ bump_new.ptr = Size /\ Size \in Nat
  <2>1. PICK m : m = [w \in {} |-> Junk]
    OBVIOUS
  <2>2. bump_new = Fields(Size, m, TRUE, {}, 0)
    BY <2>1 DEF bump_new, Fields
  <2>3. PICK z : z = bump_new
    OBVIOUS
  <2> PICK sound : sound = TRUE
    OBVIOUS
  <2>4. z = Fields(Size, m, sound, {}, 0)
    BY <2>2, <2>3, Zenon
  <2>5. /\ z.ptr = Size /\ z.ok = sound /\ z.blocks = {} /\ z.reach = 0 /\ IsArea(z)
    BY <2>4 DEF Fields, IsArea
  <2>6. Size \in Nat
    BY BumpAssumption
  <2>7. z.ok \in BOOLEAN
    BY <2>5, Zenon
  <2>8. Solid(z)
    BY <2>5, <2>6, <2>7 DEF Solid
  <2> QED
    BY <2>3, <2>5, <2>6, <2>8, Zenon
<1>3. Solid(area) /\ (area.ok => area.ptr < Size)
  <2>1. PICK at : at = Alloc(bump_new, Type)
    OBVIOUS
  <2>2. Type \in Nat
    BY DEF Type
  <2>3. Solid(area) /\ (area.ok => Made(bump_new, area, at, Type))
    BY <1>1, <1>2, <2>1, <2>2, MallocIs
  <2>4. ASSUME area.ok
        PROVE  area.ptr < Size
    <3>1. at \in Nat /\ area.ptr = at - 2 /\ at + Type <= bump_new.ptr
      BY <2>3, <2>4 DEF Made
    <3> QED
      BY <1>2, <3>1 DEF Type
  <2> QED
    BY <2>3, <2>4
<1>4. NoSlice \in Slice /\ NoSlice.len = 0
  BY DEF NoSlice, Slice
<1>5. Store(area, slices)
  BY <1>1, <1>3, <1>4 DEF Store
<1>6. Objects(objs) /\ Len(objs) = 0 /\ DOMAIN objs = {}
  BY <1>1, EmptySeq DEF Objects
<1>7. Lists(objs, slices)
  BY <1>1, <1>6 DEF Lists
<1>8. UsersListed(objs, area, slices)
  BY <1>6 DEF UsersListed
<1>9. IInv
  BY <1>1, <1>5, <1>6, <1>7, <1>8 DEF IInv
<1>10. Ideal!Init
  <2>1. \A l \in DOMAIN slices : ContentIn(area, slices[l]) = <<>>
    BY <1>1, <1>4, ContentIsSeq
  <2>2. UsersBar(objs, area, slices) = <<>>
    BY <1>1, <1>6 DEF UsersBar
  <2>3. ListsBar(area, slices) = [l \in Ideal!ProgramLists |-> <<>>]
    <3>1. {k \in DOMAIN slices : k[2] # "used_by"} = Ideal!ProgramLists
      BY <1>1 DEF Ideal!ProgramLists
    <3> QED
      BY <2>1, <3>1 DEF ListsBar
  <2> QED
    BY <1>1, <2>2, <2>3 DEF Ideal!Init, UsersBar, ListsBar, Content, ContentIn, Is
<1> QED
  BY <1>9, <1>10

-----------------------------------------------------------------------------
LEMMA Invariance == Spec => []IInv
<1>1. Init => IInv
  BY InitIsFine
<1>2. IInv /\ [Next]_vars => IInv'
  BY NextIsFine DEF Fine
<1> QED
  BY <1>1, <1>2, PTL DEF Spec

\* In an area of any size, whatever is made of it: no two allocations or headers ever
\* overlap, and no copy of an array, which reads on past its end, reads past the area.
THEOREM AreaIsSound == Spec => []AreaSound
<1>1. IInv => AreaSound
  BY SolidIsSound DEF IInv, Store, AreaSound
<1> QED
  BY <1>1, Invariance, PTL

\* However the arrays are copied in the area, the slices in it hold what the builders
\* promise: lists that only grow at their ends, none losing or mixing up an item, and
\* for every object the instructions that name it, once for each operand.
THEOREM Refinement == Spec => ImplementsUseLists
<1>1. Init => Ideal!Init
  BY InitIsFine
<1>2. IInv /\ [Next]_vars => [Ideal!Next]_(Ideal!vars)
  BY NextIsFine DEF Fine
<1> QED
  BY <1>1, <1>2, Invariance, PTL DEF Spec, ImplementsUseLists, Ideal!Spec
=============================================================================
