--------------------------- MODULE SymbolsProofs ---------------------------
(* What the operators of Symbols do, as lemmas about any table; the modules of *)
(* proofs about the symbol table and about the passes rest on them.           *)
EXTENDS Symbols, TLAPS, WellFoundedInduction

\* A non-empty set of naturals with an upper bound has a greatest element.
LEMMA Greatest ==
    ASSUME NEW n \in Nat, NEW S \in SUBSET (0 .. n), S # {}
    PROVE  \E m \in S : \A k \in S : k <= m
<1> DEFINE T == {n - k : k \in S}
           R == {ss \in Nat \X Nat : ss[1] < ss[2]}
<1>1. T \subseteq Nat /\ T # {}
  <2>1. PICK k \in S : TRUE
    OBVIOUS
  <2>2. n - k \in T
    BY <2>1
  <2>3. \A j \in S : n - j \in Nat
    OBVIOUS
  <2> QED
    BY <2>2, <2>3
<1>2. IsWellFoundedOn(R, Nat)
  BY NatLessThanWellFounded, Zenon DEF OpToRel
<1>3. PICK t \in T : \A u \in T : ~(<<u, t>> \in R)
  <2> HIDE DEF T, R
  <2> QED  BY <1>1, <1>2, WFMin
<1>4. ASSUME NEW u \in T
      PROVE  t <= u
  <2>1. u \in Nat /\ t \in Nat
    BY <1>1, <1>3
  <2>2. <<u, t>> \notin R
    BY <1>3
  <2>3. ~(u < t)
    BY <2>1, <2>2
  <2> QED
    BY <2>1, <2>3
<1>5. PICK m \in S : t = n - m
  OBVIOUS
<1>6. \A k \in S : k <= m
  BY <1>4, <1>5
<1> QED
  BY <1>6

\* The stop of a run of pops: everything above it is a scope with symbols, and
\* it is an empty scope or the outermost level that can be popped.
IsStop(p, level, links) == /\ p \in 0 .. level
                           /\ p > 1 => links[p] = {}
                           /\ \A q \in p + 1 .. level : q > 1 /\ links[q] # {}

\* There is a stop ...
LEMMA StopExists ==
    ASSUME NEW level \in Nat, NEW links
    PROVE  IsStop(LastPopped(level, links), level, links)
<1> DEFINE S == {p \in 0 .. level : p > 1 => links[p] = {}}
<1>1. S \in SUBSET (0 .. level) /\ 0 \in S
  OBVIOUS
<1>2. PICK p \in S : \A k \in S : k <= p
  BY <1>1, Greatest
<1>3. ASSUME NEW q \in p + 1 .. level
      PROVE  q > 1 /\ links[q] # {}
  BY <1>2, <1>3
<1>4. IsStop(p, level, links)
  BY <1>2, <1>3 DEF IsStop
<1> QED
  BY <1>4 DEF LastPopped, IsStop

\* ... and only one.
LEMMA StopUnique ==
    ASSUME NEW level \in Nat, NEW links, NEW p, NEW r,
           IsStop(p, level, links), IsStop(r, level, links)
    PROVE  p = r
BY DEF IsStop

\* A stop above the global scope unless the global scope is all there is.
LEMMA StopAboveGlobal ==
    ASSUME NEW level \in Nat, NEW links, NEW p, IsStop(p, level, links), level > 0
    PROVE  p > 0
BY DEF IsStop

\* Only which scopes are empty matters.
LEMMA StopByEmptiness ==
    ASSUME NEW level \in Nat, NEW a, NEW b,
           \A q \in 1 .. level : a[q] = {} <=> b[q] = {}
    PROVE  LastPopped(level, a) = LastPopped(level, b)
<1>1. IsStop(LastPopped(level, a), level, a)
  BY StopExists
<1>2. IsStop(LastPopped(level, b), level, b)
  BY StopExists
<1>3. IsStop(LastPopped(level, b), level, a)
  BY <1>2 DEF IsStop
<1> QED
  BY <1>1, <1>3, StopUnique

-----------------------------------------------------------------------------
(* The operations on one level, field by field. *)

\* A new level (level_new) is an empty queue with no current scope.
LEMMA LevelNew ==
    /\ IsLevel(level_new)
    /\ level_new.begin = 0 /\ level_new.end = 0 /\ level_new.mem = "held"
    /\ level_new.scopes = [k \in {} |-> {}]
BY DEF level_new, IsLevel

\* The scopes of a level once one more has been appended.
Offered(v, link) == [k \in 0 .. v.end |-> IF k = v.end THEN link ELSE v.scopes[k]]

\* level_offer appends one scope, which becomes the current one, and keeps the
\* rest of the level.
LEMMA LevelOffer ==
    ASSUME NEW v, IsLevel(v), NEW link
    PROVE  /\ IsLevel(level_offer(v, link))
           /\ level_offer(v, link).begin = v.begin
           /\ level_offer(v, link).end = v.end + 1
           /\ level_offer(v, link).scope = v.end
           /\ level_offer(v, link).mem = v.mem
           /\ level_offer(v, link).scopes = Offered(v, link)
BY DEF level_offer, IsLevel, Offered

\* Linking an item (in symbols_add) changes the current scope and nothing else.
LEMMA LevelLink ==
    ASSUME NEW v, IsLevel(v), NEW item
    PROVE  /\ IsLevel(level_link(v, item))
           /\ level_link(v, item).begin = v.begin
           /\ level_link(v, item).end = v.end
           /\ level_link(v, item).scope = v.scope
           /\ level_link(v, item).mem = v.mem
           /\ level_link(v, item).scopes =
                  [v.scopes EXCEPT ![v.scope] = @ \cup {item}]
BY DEF level_link, IsLevel

\* symbols_enter moves the current scope of a level one on, cyclically.
LEMMA LevelNext ==
    ASSUME NEW v, IsLevel(v)
    PROVE  /\ IsLevel(level_next(v))
           /\ level_next(v).begin = v.begin
           /\ level_next(v).end = v.end
           /\ level_next(v).scope = (v.scope + 1) % v.end
           /\ level_next(v).mem = v.mem
           /\ level_next(v).scopes = v.scopes
BY DEF level_next, IsLevel

\* Dropping a scope (in symbols_dedent) polls the head of the queue, and frees the
\* level exactly when it was the last.
LEMMA LevelDrop ==
    ASSUME NEW v, IsLevel(v), v.begin \in Nat, v.end \in Nat, v.begin < v.end
    PROVE  /\ IsLevel(level_drop(v))
           /\ level_drop(v).begin = v.begin + 1
           /\ level_drop(v).end = v.end
           /\ level_drop(v).scope = v.scope
           /\ level_drop(v).mem = (IF v.begin + 1 = v.end THEN "freed" ELSE v.mem)
           /\ level_drop(v).scopes = v.scopes
           /\ PolledLink(v) = v.scopes[v.begin]
<1> DEFINE Rec(mem) == [begin |-> v.begin + 1, end |-> v.end, scope |-> v.scope,
                         scopes |-> v.scopes, mem |-> mem]
<1>1. ~level_empty(v) /\ PolledLink(v) = v.scopes[v.begin]
  BY DEF level_empty, PolledLink
<1>2. level_poll(v) = Rec(v.mem)
  BY <1>1 DEF level_poll, IsLevel
<1>3. level_delete(Rec(v.mem)) = Rec("freed")
  BY DEF level_delete
<1>4. level_empty(Rec(v.mem)) <=> v.begin + 1 = v.end
  BY DEF level_empty
<1>5. level_drop(v) = Rec(IF v.begin + 1 = v.end THEN "freed" ELSE v.mem)
  <2> HIDE DEF Rec
  <2> QED  BY <1>2, <1>3, <1>4 DEF level_drop
<1>6. \A mem : /\ Rec(mem).begin = v.begin + 1 /\ Rec(mem).end = v.end
               /\ Rec(mem).scope = v.scope /\ Rec(mem).mem = mem
               /\ Rec(mem).scopes = v.scopes /\ IsLevel(Rec(mem))
  BY DEF IsLevel
<1> HIDE DEF Rec
<1> QED
  BY <1>1, <1>5, <1>6

-----------------------------------------------------------------------------
(* The operations on a table, field by field. *)

\* What symbols_indent changes: one level, to which it appends an empty scope.
LEMMA SymbolsIndent ==
    ASSUME NEW s, IsSymbols(s), s.depth \in Nat, s.level \in Int,
           s.level >= -1, s.level < s.depth, DOMAIN s.levels = 0 .. s.depth - 1
    PROVE  LET t == symbols_indent(s)
               l == s.level + 1
           IN  /\ IsSymbols(t)
               /\ t.table = s.table /\ t.count = s.count
               /\ t.level = l
               /\ t.depth = (IF l = s.depth THEN s.depth + 1 ELSE s.depth)
               /\ DOMAIN t.levels = 0 .. t.depth - 1
               /\ t.levels[l] = level_offer(IF l = s.depth THEN level_new
                                                           ELSE s.levels[l], {})
               /\ \A k \in 0 .. s.depth - 1 : k # l => t.levels[k] = s.levels[k]
BY DEF symbols_indent, IsSymbols

\* What symbols_add changes: the table, and the current scope of the current level.
LEMMA SymbolsAdd ==
    ASSUME NEW s, IsSymbols(s), NEW key, NEW tag,
           s.level \in DOMAIN s.levels
    PROVE  LET t == symbols_add(s, key, tag)
               new == NewItem(s, key, tag)
           IN  /\ IsSymbols(t)
               /\ t.table = s.table \cup {new} /\ t.count = s.count + 1
               /\ t.level = s.level /\ t.depth = s.depth
               /\ DOMAIN t.levels = DOMAIN s.levels
               /\ t.levels[s.level] = level_link(s.levels[s.level], new)
               /\ \A k \in DOMAIN s.levels : k # s.level => t.levels[k] = s.levels[k]
BY DEF symbols_add, IsSymbols

\* What symbols_leave changes: the level only.
LEMMA SymbolsLeave ==
    ASSUME NEW s, IsSymbols(s)
    PROVE  LET t == symbols_leave(s)
           IN  /\ IsSymbols(t)
               /\ t.table = s.table /\ t.count = s.count
               /\ t.level = LeaveStop(s) - 1 /\ t.depth = s.depth
               /\ t.levels = s.levels
BY DEF symbols_leave, IsSymbols

\* What symbols_enter changes: the level, and the current scope of the new one.
LEMMA SymbolsEnter ==
    ASSUME NEW s, IsSymbols(s), s.level + 1 \in DOMAIN s.levels
    PROVE  LET t == symbols_enter(s)
               l == s.level + 1
           IN  /\ IsSymbols(t)
               /\ t.table = s.table /\ t.count = s.count
               /\ t.level = l /\ t.depth = s.depth
               /\ DOMAIN t.levels = DOMAIN s.levels
               /\ t.levels[l] = level_next(s.levels[l])
               /\ \A k \in DOMAIN s.levels : k # l => t.levels[k] = s.levels[k]
BY DEF symbols_enter, IsSymbols

\* What symbols_dedent changes: it drops the head of every level it pops and
\* unlinks the symbols of those scopes.
LEMMA SymbolsDedent ==
    ASSUME NEW s, IsSymbols(s)
    PROVE  LET t == symbols_dedent(s)
               stop == DedentStop(s)
           IN  /\ IsSymbols(t)
               /\ t.table = s.table \ UNION {PolledLink(s.levels[l]) : l \in stop .. s.level}
               /\ t.count = s.count
               /\ t.level = stop - 1 /\ t.depth = s.depth
               /\ DOMAIN t.levels = 0 .. s.depth - 1
               /\ \A k \in 0 .. s.depth - 1 :
                     t.levels[k] = IF k \in stop .. s.level THEN level_drop(s.levels[k])
                                                            ELSE s.levels[k]
BY DEF symbols_dedent, Unlinked, IsSymbols
-----------------------------------------------------------------------------
\* The queues during the build: nothing is polled, the last scope is current.
BuildQueues(s) ==
    /\ s.level \in 0 .. s.depth - 1
    /\ s.levels[0].end = 1
    /\ \A l \in 0 .. s.depth - 1 : /\ s.levels[l].begin = 0
                                   /\ s.levels[l].scope = s.levels[l].end - 1
                                   /\ s.levels[l].mem = "held"

\* The queues during the visit: the head of the queue of an open level is its
\* current scope, that of any other level is the scope after it, cyclically.
VisitQueues(s) ==
    \A l \in 0 .. s.depth - 1 :
        LET v == s.levels[l]
        IN  /\ v.mem = IF v.begin < v.end THEN "held" ELSE "freed"
            /\ l <= s.level => v.begin < v.end /\ v.scope = v.begin
            /\ l > s.level => v.scope = IF v.begin = 0 THEN v.end - 1 ELSE v.begin - 1

\* How many scopes of a level the build has opened and closed.
Closed(s, l) == IF l >= s.depth THEN 0
                ELSE IF l > s.level THEN s.levels[l].end ELSE s.levels[l].end - 1

\* t is a later table of the same build than s.
Before(s, t) ==
    /\ s.depth <= t.depth
    /\ \A l \in 0 .. s.depth - 1 :
          /\ s.levels[l].end <= t.levels[l].end
          /\ Closed(s, l) <= Closed(t, l)
          /\ \A k \in 0 .. Closed(s, l) - 1 :
                t.levels[l].scopes[k] = s.levels[l].scopes[k]

\* The table s of the visit is where the build was with t; f is the final table.
Matches(s, t, f) ==
    /\ s.level = t.level
    /\ s.depth = f.depth
    /\ \A l \in 0 .. f.depth - 1 : /\ s.levels[l].end = f.levels[l].end
                                   /\ s.levels[l].scopes = f.levels[l].scopes
                                   /\ s.levels[l].begin = Closed(t, l)

-----------------------------------------------------------------------------
(* The calls of the build. *)

\* symbols_indent keeps the shape the queues have during the build.
LEMMA IndentBuilds ==
    ASSUME NEW s, SymbolsOK(s), BuildQueues(s)
    PROVE  LET t == symbols_indent(s)
           IN  SymbolsOK(t) /\ BuildQueues(t) /\ Before(s, t)
<1> DEFINE t == symbols_indent(s)
           l == s.level + 1
           v == IF l = s.depth THEN level_new ELSE s.levels[l]
           w == level_offer(v, {})
<1>1. /\ IsSymbols(t) /\ t.table = s.table /\ t.count = s.count
      /\ t.level = l
      /\ t.depth = (IF l = s.depth THEN s.depth + 1 ELSE s.depth)
      /\ DOMAIN t.levels = 0 .. t.depth - 1
      /\ t.levels[l] = w
      /\ \A k \in 0 .. s.depth - 1 : k # l => t.levels[k] = s.levels[k]
  BY SymbolsIndent DEF SymbolsOK
<1>2. /\ l \in 1 .. s.depth /\ s.depth \in Nat /\ t.depth \in Nat
      /\ \A k \in 0 .. t.depth - 1 : k # l => k \in 0 .. s.depth - 1
  BY <1>1 DEF SymbolsOK, BuildQueues
<1>3. /\ IsLevel(v) /\ v.begin = 0 /\ v.mem = "held"
      /\ v.end \in Nat
      /\ l < s.depth => v = s.levels[l] /\ v.scopes \in [0 .. v.end - 1 -> SUBSET Item]
      /\ l = s.depth => v.end = 0
  <2>1. CASE l = s.depth
    BY <1>2, <2>1, LevelNew
  <2>2. CASE l # s.depth
    <3>1. l \in 0 .. s.depth - 1 /\ v = s.levels[l] /\ l < s.depth
      BY <1>2, <2>2
    <3>2. LevelOK(v) /\ v.begin = 0 /\ v.mem = "held"
      BY <3>1 DEF SymbolsOK, BuildQueues
    <3> HIDE DEF v, l
    <3> QED
      BY <2>2, <3>1, <3>2 DEF LevelOK
  <2> QED  BY <2>1, <2>2
<1> HIDE DEF v
<1>4. /\ IsLevel(w) /\ w.begin = 0 /\ w.end = v.end + 1 /\ w.scope = v.end
      /\ w.mem = "held"
      /\ w.scopes = [k \in 0 .. v.end |-> IF k = v.end THEN {} ELSE v.scopes[k]]
  <2>1. /\ IsLevel(w) /\ w.begin = v.begin /\ w.end = v.end + 1 /\ w.scope = v.end
        /\ w.mem = v.mem
        /\ w.scopes = Offered(v, {})
    BY <1>3, LevelOffer
  <2> HIDE DEF w
  <2> QED
    BY <1>3, <2>1 DEF Offered
<1> HIDE DEF w
<1>5. w.scopes \in [0 .. w.end - 1 -> SUBSET Item]
  <2>1. \A k \in 0 .. v.end : k # v.end => v.scopes[k] \in SUBSET Item
    BY <1>2, <1>3
  <2> QED  BY <1>3, <1>4, <2>1
<1>6. LevelOK(w)
  <2>1. w.end \in Nat \ {0} /\ w.begin \in 0 .. w.end /\ w.scope \in 0 .. w.end - 1
    BY <1>3, <1>4
  <2> QED
    BY <1>4, <1>5, <2>1 DEF LevelOK
<1> HIDE DEF t, l
<1>7. SymbolsOK(t)
  <2>1. t.level \in -1 .. t.depth - 1 /\ t.depth \in Nat \ {0}
    BY <1>1, <1>2
  <2>2. \A k \in 0 .. t.depth - 1 : LevelOK(t.levels[k])
    BY <1>1, <1>2, <1>6 DEF SymbolsOK
  <2> QED
    BY <1>1, <2>1, <2>2 DEF SymbolsOK
<1>8. BuildQueues(t)
  <2>1. t.level \in 0 .. t.depth - 1
    BY <1>1, <1>2
  <2>2. t.levels[0].end = 1
    <3>1. 0 \in 0 .. s.depth - 1 /\ 0 # l
      BY <1>2
    <3>2. t.levels[0] = s.levels[0]
      BY <1>1, <3>1
    <3> QED
      BY <3>2 DEF BuildQueues
  <2>3. ASSUME NEW k \in 0 .. t.depth - 1
        PROVE  /\ t.levels[k].begin = 0 /\ t.levels[k].mem = "held"
               /\ t.levels[k].scope = t.levels[k].end - 1
    <3>1. CASE k = l
      BY <1>1, <1>3, <1>4, <3>1
    <3>2. CASE k # l
      BY <1>1, <1>2, <3>2 DEF BuildQueues
    <3> QED  BY <3>1, <3>2
  <2> QED
    BY <2>1, <2>2, <2>3 DEF BuildQueues
<1>9. Before(s, t)
  <2>1. s.depth <= t.depth
    BY <1>1, <1>2
  <2>2. s.level < l /\ t.level = l /\ s.level \in Int /\ l \in Int
    BY <1>1, <1>2 DEF l, SymbolsOK
  <2>3. ASSUME NEW k \in 0 .. s.depth - 1, k # l
        PROVE  s.levels[k] = t.levels[k] /\ Closed(s, k) = Closed(t, k)
    <3>1. s.levels[k] = t.levels[k]
      BY <1>1, <2>3
    <3>2. k < s.depth /\ k < t.depth /\ (k > s.level <=> k > t.level)
      BY <1>2, <2>1, <2>2, <2>3 DEF l
    <3> QED
      BY <1>2, <3>1, <3>2 DEF Closed
  <2>4. ASSUME NEW k \in 0 .. s.depth - 1
        PROVE  k # l => s.levels[k].end <= t.levels[k].end /\ Closed(s, k) <= Closed(t, k)
    <3>1. s.levels[k].end \in Nat
      BY DEF SymbolsOK, LevelOK
    <3>2. Closed(s, k) \in Int
      BY <1>2, <3>1 DEF Closed
    <3> QED
      BY <2>3, <3>1, <3>2
  <2>5. ASSUME l \in 0 .. s.depth - 1
        PROVE  /\ s.levels[l] = v
               /\ Closed(s, l) = v.end
               /\ Closed(t, l) = v.end
               /\ t.levels[l].end = v.end + 1
               /\ \A j \in 0 .. v.end - 1 : t.levels[l].scopes[j] = v.scopes[j]
    <3>1. v = s.levels[l] /\ ~(l >= s.depth) /\ l > s.level /\ ~(l >= t.depth) /\ ~(l > t.level)
      BY <1>2, <1>3, <2>1, <2>2, <2>5
    <3>2. Closed(s, l) = v.end
      BY <3>1 DEF Closed
    <3>3. Closed(t, l) = v.end
      BY <1>1, <1>3, <1>4, <3>1 DEF Closed
    <3>4. \A j \in 0 .. v.end - 1 : t.levels[l].scopes[j] = v.scopes[j]
      BY <1>1, <1>3, <1>4
    <3> QED
      BY <1>1, <1>4, <3>1, <3>2, <3>3, <3>4
  <2>6. v.end \in Nat
    BY <1>3
  <2> QED
    BY <2>1, <2>3, <2>4, <2>5, <2>6 DEF Before
<1> QED
  BY <1>7, <1>8, <1>9 DEF t

\* So does symbols_add.
LEMMA AddBuilds ==
    ASSUME NEW s, SymbolsOK(s), BuildQueues(s), NEW key \in Name, NEW tag \in Tag
    PROVE  LET t == symbols_add(s, key, tag)
           IN  SymbolsOK(t) /\ BuildQueues(t) /\ Before(s, t)
<1> DEFINE t == symbols_add(s, key, tag)
           l == s.level
           v == s.levels[l]
           new == NewItem(s, key, tag)
           w == level_link(v, new)
<1>1. /\ IsSymbols(t) /\ t.table = s.table \cup {new} /\ t.count = s.count + 1
      /\ t.level = l /\ t.depth = s.depth
      /\ DOMAIN t.levels = 0 .. s.depth - 1
      /\ t.levels[l] = w
      /\ \A k \in 0 .. s.depth - 1 : k # l => t.levels[k] = s.levels[k]
  BY SymbolsAdd DEF SymbolsOK, BuildQueues
<1>2. /\ l \in 0 .. s.depth - 1 /\ s.depth \in Nat \ {0} /\ s.count \in Nat
      /\ LevelOK(v) /\ v.begin = 0 /\ v.scope = v.end - 1 /\ v.mem = "held"
  BY DEF SymbolsOK, BuildQueues
<1>3. new \in Item
  BY <1>2
     DEF NewItem, Item, Tag, symbols_level, symbols_scope, LevelOK
<1> HIDE DEF v, new
<1>4. /\ IsLevel(w) /\ w.begin = v.begin /\ w.end = v.end /\ w.scope = v.scope
      /\ w.mem = v.mem
      /\ w.scopes = [v.scopes EXCEPT ![v.scope] = @ \cup {new}]
  BY <1>2, LevelLink DEF LevelOK
<1> HIDE DEF t, l, w
<1>5. LevelOK(w)
  BY <1>2, <1>3, <1>4 DEF LevelOK
<1>6. \A j \in 0 .. v.end - 2 : w.scopes[j] = v.scopes[j]
  BY <1>2, <1>4 DEF LevelOK
<1>7. SymbolsOK(t)
  <2>1. \A k \in 0 .. s.depth - 1 : LevelOK(t.levels[k])
    BY <1>1, <1>5 DEF SymbolsOK
  <2>2. t.table \in SUBSET Item
    BY <1>1, <1>3 DEF SymbolsOK
  <2> QED
    BY <1>1, <1>2, <2>1, <2>2 DEF SymbolsOK
<1>8. \A k \in 0 .. s.depth - 1 :
         /\ t.levels[k].begin = s.levels[k].begin /\ t.levels[k].end = s.levels[k].end
         /\ t.levels[k].scope = s.levels[k].scope /\ t.levels[k].mem = s.levels[k].mem
  <2>1. v = s.levels[l]
    BY DEF v
  <2>2. t.levels[l] = w
    BY <1>1, <1>2
  <2> HIDE DEF l
  <2>3. ASSUME NEW k \in 0 .. s.depth - 1, k = l
        PROVE  /\ t.levels[k].begin = s.levels[k].begin
               /\ t.levels[k].end = s.levels[k].end
               /\ t.levels[k].scope = s.levels[k].scope
               /\ t.levels[k].mem = s.levels[k].mem
    BY <1>4, <2>1, <2>2, <2>3
  <2>4. \A k \in 0 .. s.depth - 1 : k # l => t.levels[k] = s.levels[k]
    BY <1>1
  <2> QED
    BY <2>3, <2>4
<1>9. BuildQueues(t)
  <2>1. /\ t.level \in 0 .. t.depth - 1
        /\ t.levels[0].end = s.levels[0].end
    BY <1>1, <1>2, <1>8
  <2>2. \A k \in 0 .. s.depth - 1 : /\ s.levels[k].begin = 0
                                    /\ s.levels[k].scope = s.levels[k].end - 1
                                    /\ s.levels[k].mem = "held"
    BY DEF BuildQueues
  <2>3. \A k \in 0 .. t.depth - 1 : /\ t.levels[k].begin = 0
                                    /\ t.levels[k].scope = t.levels[k].end - 1
                                    /\ t.levels[k].mem = "held"
    BY <1>1, <1>8, <2>2
  <2> QED
    BY <2>1, <2>3 DEF BuildQueues
<1>10. \A k \in 0 .. s.depth - 1 : Closed(t, k) = Closed(s, k)
  BY <1>1, <1>2, <1>8 DEF Closed, l
<1>11. ASSUME NEW k \in 0 .. s.depth - 1, NEW j \in 0 .. Closed(s, k) - 1
       PROVE  t.levels[k].scopes[j] = s.levels[k].scopes[j]
  <2>1. CASE k = l
    <3>1. Closed(s, l) = v.end - 1 /\ v = s.levels[l]
      BY <1>2 DEF Closed, l, v
    <3>2. v.end \in Nat
      BY <1>2 DEF LevelOK
    <3>3. j \in 0 .. v.end - 2
      BY <2>1, <3>1, <3>2
    <3> QED
      BY <1>1, <1>6, <2>1, <3>1, <3>3
  <2>2. CASE k # l
    BY <1>1, <2>2
  <2> QED  BY <2>1, <2>2
<1>12. Before(s, t)
  <2>1. ASSUME NEW k \in 0 .. s.depth - 1
        PROVE  s.levels[k].end \in Int /\ Closed(s, k) \in Int
    BY <1>2 DEF SymbolsOK, LevelOK, Closed
  <2>2. ASSUME NEW k \in 0 .. s.depth - 1
        PROVE  s.levels[k].end <= t.levels[k].end /\ Closed(s, k) <= Closed(t, k)
    BY <1>8, <1>10, <2>1
  <2>3. s.depth <= t.depth
    BY <1>1, <1>2
  <2> QED
    BY <1>11, <2>2, <2>3 DEF Before
<1> QED
  BY <1>7, <1>9, <1>12 DEF t

\* symbols_leave pops at least one level and never the global one.
LEMMA LeaveStopRange ==
    ASSUME NEW s, s.level \in Nat, s.level > 0
    PROVE  LeaveStop(s) \in 1 .. s.level
<1> DEFINE links == [l \in 0 .. s.level |-> level_at(s.levels[l])]
<1>1. IsStop(LeaveStop(s), s.level, links)
  BY StopExists DEF LeaveStop
<1> HIDE DEF links
<1> QED
  BY <1>1 DEF IsStop

\* symbols_leave, too, keeps the shape of the queues.
LEMMA LeaveBuilds ==
    ASSUME NEW s, SymbolsOK(s), BuildQueues(s), s.level > 0
    PROVE  LET t == symbols_leave(s)
           IN  SymbolsOK(t) /\ BuildQueues(t) /\ Before(s, t)
<1> DEFINE t == symbols_leave(s)
<1>1. /\ IsSymbols(t) /\ t.table = s.table /\ t.count = s.count
      /\ t.level = LeaveStop(s) - 1 /\ t.depth = s.depth
      /\ t.levels = s.levels
  BY SymbolsLeave DEF SymbolsOK
<1>2. s.level \in Nat /\ s.level < s.depth /\ s.depth \in Nat \ {0}
  BY DEF SymbolsOK, BuildQueues
<1>3. LeaveStop(s) \in 1 .. s.level
  BY <1>2, LeaveStopRange
<1> HIDE DEF t
<1>4. SymbolsOK(t)
  BY <1>1, <1>2, <1>3 DEF SymbolsOK
<1>5. BuildQueues(t)
  BY <1>1, <1>2, <1>3 DEF BuildQueues
<1>6. \A k \in 0 .. s.depth - 1 : s.levels[k].end \in Nat
  BY DEF SymbolsOK, LevelOK
<1>7. \A k \in 0 .. s.depth - 1 : Closed(s, k) <= Closed(t, k)
  BY <1>1, <1>2, <1>3, <1>6 DEF Closed
<1> QED
  BY <1>1, <1>2, <1>4, <1>5, <1>6, <1>7 DEF Before, t

\* What the type invariant says of one queue, as plain arithmetic.
LEMMA QueueTypes ==
    ASSUME NEW s, SymbolsOK(s), NEW l \in 0 .. s.depth - 1
    PROVE  /\ IsLevel(s.levels[l])
           /\ s.levels[l].begin \in Nat /\ s.levels[l].end \in Nat \ {0}
           /\ s.levels[l].scope \in Nat /\ s.levels[l].begin <= s.levels[l].end
           /\ s.levels[l].scope < s.levels[l].end
BY DEF SymbolsOK, LevelOK

\* A table is one of its own past.
LEMMA BeforeItself ==
    ASSUME NEW s, SymbolsOK(s)
    PROVE  Before(s, s)
BY DEF Before, Closed, SymbolsOK, LevelOK

\* The past of a build is transitive: a scope, once closed, never changes.
LEMMA BeforeTransitive ==
    ASSUME NEW a, NEW b, NEW c, SymbolsOK(a), SymbolsOK(b), SymbolsOK(c),
           Before(a, b), Before(b, c)
    PROVE  Before(a, c)
<1>1. a.depth \in Nat /\ b.depth \in Nat /\ c.depth \in Nat
      /\ a.depth <= b.depth /\ b.depth <= c.depth
  BY DEF SymbolsOK, Before
<1>2. ASSUME NEW l \in 0 .. a.depth - 1
      PROVE  /\ a.levels[l].end <= c.levels[l].end
             /\ Closed(a, l) <= Closed(c, l)
             /\ \A k \in 0 .. Closed(a, l) - 1 :
                    c.levels[l].scopes[k] = a.levels[l].scopes[k]
  <2>1. l \in 0 .. b.depth - 1 /\ l \in 0 .. c.depth - 1
    BY <1>1
  <2>2. /\ a.levels[l].end \in Int /\ b.levels[l].end \in Int
        /\ c.levels[l].end \in Int
    BY <2>1, QueueTypes
  <2>3. Closed(a, l) \in Int /\ Closed(b, l) \in Int /\ Closed(c, l) \in Int
    BY <2>2 DEF Closed
  <2>4. /\ a.levels[l].end <= b.levels[l].end /\ Closed(a, l) <= Closed(b, l)
        /\ \A k \in 0 .. Closed(a, l) - 1 :
               b.levels[l].scopes[k] = a.levels[l].scopes[k]
    BY DEF Before
  <2>5. /\ b.levels[l].end <= c.levels[l].end /\ Closed(b, l) <= Closed(c, l)
        /\ \A k \in 0 .. Closed(b, l) - 1 :
               c.levels[l].scopes[k] = b.levels[l].scopes[k]
    BY <2>1 DEF Before
  <2> QED
    BY <2>2, <2>3, <2>4, <2>5
<1> QED
  BY <1>1, <1>2 DEF Before

-----------------------------------------------------------------------------
(* What the calls of the build close. *)

\* symbols_indent closes no scope; the scope it opens is numbered by those closed.
LEMMA IndentCloses ==
    ASSUME NEW s, SymbolsOK(s), BuildQueues(s), NEW k \in Nat
    PROVE  LET t == symbols_indent(s)
               l == s.level + 1
           IN  /\ Closed(t, k) = Closed(s, k)
               /\ t.level = l /\ l < t.depth /\ t.depth \in Nat
               /\ t.levels[l].end = Closed(s, l) + 1
<1> DEFINE t == symbols_indent(s)
           l == s.level + 1
           v == IF l = s.depth THEN level_new ELSE s.levels[l]
           w == level_offer(v, {})
<1>1. /\ t.level = l
      /\ t.depth = (IF l = s.depth THEN s.depth + 1 ELSE s.depth)
      /\ t.levels[l] = w
      /\ \A j \in 0 .. s.depth - 1 : j # l => t.levels[j] = s.levels[j]
  BY SymbolsIndent DEF SymbolsOK
<1>2. l \in 1 .. s.depth /\ s.depth \in Nat /\ s.level = l - 1
  BY DEF SymbolsOK, BuildQueues
<1>3. IsLevel(v) /\ v.end = Closed(s, l) /\ v.end \in Nat
  <2>1. CASE l = s.depth
    BY <1>2, <2>1, LevelNew DEF Closed
  <2>2. CASE l # s.depth
    <3>1. l \in 0 .. s.depth - 1 /\ v = s.levels[l] /\ l < s.depth
      BY <1>2, <2>2
    <3> HIDE DEF v, l
    <3> QED
      BY <1>2, <3>1, QueueTypes DEF Closed
  <2> QED  BY <2>1, <2>2
<1> HIDE DEF v
<1>4. w.end = v.end + 1
  BY <1>3, LevelOffer
<1> HIDE DEF t, l, w
<1>5. l < t.depth /\ t.depth \in Nat /\ t.levels[l].end = Closed(s, l) + 1
  BY <1>1, <1>2, <1>3, <1>4
<1>6. Closed(t, k) = Closed(s, k)
  <2>1. CASE k = l
    <3>1. Closed(t, l) = t.levels[l].end - 1
      BY <1>1, <1>2, <1>5 DEF Closed
    <3> QED
      BY <1>3, <1>5, <2>1, <3>1
  <2>2. CASE k # l /\ k >= s.depth
    <3>1. k >= t.depth
      BY <1>1, <1>2, <2>2
    <3> QED
      BY <2>2, <3>1 DEF Closed
  <2>3. CASE k # l /\ k < s.depth
    <3>1. k < t.depth /\ t.levels[k] = s.levels[k] /\ (k > t.level <=> k > s.level)
      BY <1>1, <1>2, <2>3
    <3> QED
      BY <1>1, <1>2, <2>3, <3>1 DEF Closed
  <2> QED
    BY <1>2, <2>1, <2>2, <2>3
<1> QED
  BY <1>1, <1>5, <1>6 DEF t, l

\* symbols_add closes no scope.
LEMMA AddCloses ==
    ASSUME NEW s, SymbolsOK(s), BuildQueues(s), NEW key, NEW tag, NEW k \in Nat
    PROVE  LET t == symbols_add(s, key, tag)
           IN  Closed(t, k) = Closed(s, k) /\ t.level = s.level
<1> DEFINE t == symbols_add(s, key, tag)
           v == s.levels[s.level]
           new == NewItem(s, key, tag)
<1>1. /\ t.level = s.level /\ t.depth = s.depth
      /\ t.levels[s.level] = level_link(v, new)
      /\ \A j \in 0 .. s.depth - 1 : j # s.level => t.levels[j] = s.levels[j]
  BY SymbolsAdd DEF SymbolsOK, BuildQueues
<1>2. s.level \in 0 .. s.depth - 1 /\ s.depth \in Nat
  BY DEF SymbolsOK, BuildQueues
<1>3. level_link(v, new).end = v.end
  BY <1>2, QueueTypes, LevelLink
<1> HIDE DEF t, new
<1> QED
  BY <1>1, <1>2, <1>3 DEF Closed, t

\* symbols_leave closes one scope at every level it pops.
LEMMA LeaveCloses ==
    ASSUME NEW s, SymbolsOK(s), BuildQueues(s), s.level > 0
    PROVE  LET t == symbols_leave(s)
               stop == LeaveStop(s)
           IN  /\ stop \in 1 .. s.level
               /\ t.level = stop - 1 /\ t.depth = s.depth /\ t.levels = s.levels
               /\ \A k \in Nat : Closed(t, k) = Closed(s, k) +
                                       (IF k \in stop .. s.level THEN 1 ELSE 0)
<1> DEFINE t == symbols_leave(s)
           stop == LeaveStop(s)
<1>1. t.level = stop - 1 /\ t.depth = s.depth /\ t.levels = s.levels
  BY SymbolsLeave DEF SymbolsOK
<1>2. s.level \in Nat /\ s.level < s.depth /\ s.depth \in Nat \ {0}
  BY DEF SymbolsOK, BuildQueues
<1>3. stop \in 1 .. s.level
  BY <1>2, LeaveStopRange
<1> HIDE DEF t, stop
<1>4. ASSUME NEW k \in Nat
      PROVE  Closed(t, k) = Closed(s, k) + (IF k \in stop .. s.level THEN 1 ELSE 0)
  <2>1. CASE k >= s.depth
    BY <1>1, <1>2, <2>1 DEF Closed
  <2>2. CASE k < s.depth
    <3>1. s.levels[k].end \in Nat
      BY <1>2, <2>2, QueueTypes
    <3> QED
      BY <1>1, <1>2, <1>3, <2>2, <3>1 DEF Closed
  <2> QED  BY <1>2, <2>1, <2>2
<1> QED
  BY <1>1, <1>3, <1>4 DEF t, stop

-----------------------------------------------------------------------------
(* The calls of the visit.  Together(s, t, f): the visit has the table s where *)
(* the build had t, and the build ended with f. *)

Together(s, t, f) == /\ SymbolsOK(s) /\ VisitQueues(s)
                     /\ SymbolsOK(t) /\ BuildQueues(t)
                     /\ SymbolsOK(f) /\ BuildQueues(f)
                     /\ Matches(s, t, f) /\ Before(t, f)

\* In the visit the current scope of an open level is the one the build had.
LEMMA OpenScopes ==
    ASSUME NEW s, NEW t, NEW f, Together(s, t, f), NEW l \in 0 .. s.level
    PROVE  /\ l \in 0 .. s.depth - 1 /\ l \in 0 .. t.depth - 1
           /\ s.levels[l].mem = "held"
           /\ s.levels[l].begin < s.levels[l].end
           /\ s.levels[l].scope = s.levels[l].begin
           /\ s.levels[l].begin = t.levels[l].end - 1
           /\ t.levels[l].scope = t.levels[l].end - 1
<1>1. /\ s.level = t.level /\ t.level \in 0 .. t.depth - 1
      /\ t.depth \in Nat /\ f.depth \in Nat /\ t.depth <= f.depth /\ f.depth = s.depth
  BY DEF Together, Matches, SymbolsOK, BuildQueues, Before
<1>2. l \in 0 .. s.depth - 1 /\ l \in 0 .. t.depth - 1
  BY <1>1
<1>3. /\ s.levels[l].mem = "held"
      /\ s.levels[l].begin < s.levels[l].end
      /\ s.levels[l].scope = s.levels[l].begin
  BY <1>1, <1>2 DEF Together, VisitQueues
<1>4. s.levels[l].begin = Closed(t, l)
  BY <1>1, <1>2 DEF Together, Matches
<1>5. Closed(t, l) = t.levels[l].end - 1
  BY <1>1, <1>2 DEF Closed
<1>6. t.levels[l].scope = t.levels[l].end - 1
  BY <1>2 DEF Together, BuildQueues
<1> QED
  BY <1>2, <1>3, <1>4, <1>5, <1>6

\* symbols_enter does in the visit what symbols_indent did in the build: it is
\* defined, and moves to the scope that was opened.
LEMMA EnterFollows ==
    ASSUME NEW s, NEW t, NEW f, Together(s, t, f), Before(symbols_indent(t), f)
    PROVE  LET u == symbols_enter(s)
           IN  /\ CanEnter(s)
               /\ SymbolsOK(u) /\ VisitQueues(u)
               /\ Matches(u, symbols_indent(t), f)
<1> DEFINE u == symbols_enter(s)
           n == symbols_indent(t)
           l == s.level + 1
           v == s.levels[l]
           w == level_next(v)
<1>1. /\ SymbolsOK(s) /\ VisitQueues(s) /\ SymbolsOK(t) /\ BuildQueues(t)
      /\ SymbolsOK(f) /\ Matches(s, t, f)
  BY DEF Together
<1>2. /\ s.level = t.level /\ s.depth = f.depth /\ s.depth \in Nat \ {0}
      /\ l \in Nat \ {0} /\ n.depth <= f.depth
  BY <1>1 DEF Matches, SymbolsOK, BuildQueues, Before
<1>3. \A k \in Nat : Closed(n, k) = Closed(t, k)
  <2>1. TAKE k \in Nat
  <2> QED  BY <1>1, IndentCloses
<1>4. n.level = l /\ l < n.depth /\ n.levels[l].end = Closed(t, l) + 1
  BY <1>1, <1>2, IndentCloses
<1>5. n.depth \in Nat
  BY <1>1, <1>2, IndentCloses
<1> HIDE DEF n
<1>6. l \in 0 .. s.depth - 1 /\ l \in 0 .. n.depth - 1
  BY <1>2, <1>4, <1>5
<1>7. n.levels[l].end <= v.end /\ v.begin = Closed(t, l)
  BY <1>1, <1>2, <1>6 DEF Before, Matches, n
<1>8. /\ IsLevel(v) /\ v.begin \in Nat /\ v.end \in Nat \ {0}
      /\ v.begin < v.end /\ LevelOK(v)
  <2>1. v.begin \in Nat /\ v.end \in Nat \ {0} /\ IsLevel(v) /\ LevelOK(v)
    BY <1>1, <1>6, QueueTypes DEF SymbolsOK
  <2> QED  BY <1>4, <1>7, <2>1
<1>9. v.mem = "held" /\ v.scope = IF v.begin = 0 THEN v.end - 1 ELSE v.begin - 1
  <2>1. l > s.level
    BY <1>1 DEF SymbolsOK
  <2> HIDE DEF l, v
  <2> QED
    BY <1>1, <1>6, <1>8, <2>1 DEF VisitQueues, v
<1>10. CanEnter(s)
  BY <1>2, <1>6, <1>9 DEF CanEnter
<1>11. /\ IsSymbols(u) /\ u.table = s.table /\ u.count = s.count
       /\ u.level = l /\ u.depth = s.depth
       /\ DOMAIN u.levels = 0 .. s.depth - 1
       /\ u.levels[l] = w
       /\ \A k \in 0 .. s.depth - 1 : k # l => u.levels[k] = s.levels[k]
  BY <1>1, <1>6, SymbolsEnter DEF SymbolsOK
<1>12. /\ IsLevel(w) /\ w.begin = v.begin /\ w.end = v.end /\ w.mem = v.mem
       /\ w.scopes = v.scopes /\ w.scope = (v.scope + 1) % v.end
  BY <1>8, LevelNext
<1>13. s.level = l - 1
  BY <1>1 DEF SymbolsOK
<1> HIDE DEF u, l, v, w
<1>14. w.scope = v.begin
  <2>1. CASE v.begin = 0
    BY <1>8, <1>9, <1>12, <2>1
  <2>2. CASE v.begin # 0
    BY <1>8, <1>9, <1>12, <2>2
  <2> QED  BY <2>1, <2>2
<1>15. LevelOK(w)
  BY <1>8, <1>12, <1>14 DEF LevelOK
<1>16. SymbolsOK(u)
  <2>1. \A k \in 0 .. u.depth - 1 : LevelOK(u.levels[k])
    BY <1>1, <1>11, <1>15 DEF SymbolsOK
  <2>2. u.table \in SUBSET Item /\ u.count \in Nat
    BY <1>1, <1>11 DEF SymbolsOK
  <2> QED
    BY <1>2, <1>6, <1>11, <2>1, <2>2 DEF SymbolsOK
<1>17. VisitQueues(u)
  <2>1. ASSUME NEW k \in 0 .. s.depth - 1, k # l
        PROVE  u.levels[k] = s.levels[k] /\ (k <= u.level <=> k <= s.level)
    BY <1>2, <1>11, <1>13, <2>1
  <2>2. /\ w.mem = IF w.begin < w.end THEN "held" ELSE "freed"
        /\ w.begin < w.end /\ w.scope = w.begin
    BY <1>8, <1>9, <1>12, <1>14
  <2>3. ASSUME NEW k \in 0 .. s.depth - 1
        PROVE  LET q == u.levels[k]
               IN  /\ q.mem = IF q.begin < q.end THEN "held" ELSE "freed"
                   /\ k <= u.level => q.begin < q.end /\ q.scope = q.begin
                   /\ k > u.level => q.scope = IF q.begin = 0 THEN q.end - 1
                                                             ELSE q.begin - 1
    <3>1. CASE k = l
      BY <1>2, <1>11, <2>2, <3>1
    <3>2. CASE k # l
      <4>1. u.levels[k] = s.levels[k] /\ (k <= u.level <=> k <= s.level)
            /\ (k > u.level <=> k > s.level)
        BY <1>2, <1>11, <1>13, <3>2
      <4> QED  BY <1>1, <4>1 DEF VisitQueues
    <3> QED  BY <3>1, <3>2
  <2> QED
    BY <1>11, <2>3 DEF VisitQueues
<1>18. Matches(u, n, f)
  <2>1. ASSUME NEW k \in 0 .. f.depth - 1
        PROVE  /\ u.levels[k].end = f.levels[k].end
               /\ u.levels[k].scopes = f.levels[k].scopes
               /\ u.levels[k].begin = Closed(n, k)
    <3>1. /\ u.levels[k].end = s.levels[k].end
          /\ u.levels[k].scopes = s.levels[k].scopes
          /\ u.levels[k].begin = s.levels[k].begin
      BY <1>2, <1>11, <1>12 DEF v
    <3> QED
      BY <1>1, <1>3, <3>1 DEF Matches
  <2> QED
    BY <1>2, <1>4, <1>11, <2>1 DEF Matches
<1> QED
  BY <1>10, <1>16, <1>17, <1>18 DEF u, n

\* symbols_dedent is defined whenever a level is left to pop, and polls one scope
\* of every level it pops.
LEMMA DedentQueues ==
    ASSUME NEW s, SymbolsOK(s), VisitQueues(s), s.level >= 0
    PROVE  LET u == symbols_dedent(s)
               stop == DedentStop(s)
           IN  /\ DedentAsserts(s)
               /\ stop \in 0 .. s.level
               /\ SymbolsOK(u) /\ VisitQueues(u)
               /\ u.level = stop - 1 /\ u.depth = s.depth
               /\ \A k \in 0 .. s.depth - 1 :
                     /\ u.levels[k].end = s.levels[k].end
                     /\ u.levels[k].scopes = s.levels[k].scopes
                     /\ u.levels[k].begin = s.levels[k].begin +
                                              (IF k \in stop .. s.level THEN 1 ELSE 0)
<1> DEFINE u == symbols_dedent(s)
           stop == DedentStop(s)
<1>1. s.level \in Nat /\ s.depth \in Nat \ {0} /\ s.level < s.depth
  BY DEF SymbolsOK
<1>2. stop \in 0 .. s.level
  <2> DEFINE links == [l \in 0 .. s.level |-> PolledLink(s.levels[l])]
  <2>1. IsStop(stop, s.level, links)
    BY <1>1, StopExists DEF DedentStop
  <2> HIDE DEF links, stop
  <2> QED
    BY <2>1 DEF IsStop
<1>3. DedentAsserts(s)
  <2>1. ASSUME NEW l \in stop .. s.level
        PROVE  s.levels[l].mem = "held" /\ s.levels[l].scope = s.levels[l].begin
    <3> HIDE DEF stop
    <3>1. l \in 0 .. s.depth - 1 /\ l <= s.level
      BY <1>1, <1>2
    <3> QED
      BY <3>1 DEF VisitQueues
  <2> QED
    BY <2>1 DEF DedentAsserts
<1>4. /\ IsSymbols(u)
      /\ u.table = s.table \ UNION {PolledLink(s.levels[l]) : l \in stop .. s.level}
      /\ u.count = s.count
      /\ u.level = stop - 1 /\ u.depth = s.depth
      /\ DOMAIN u.levels = 0 .. s.depth - 1
      /\ \A k \in 0 .. s.depth - 1 :
            u.levels[k] = IF k \in stop .. s.level THEN level_drop(s.levels[k])
                                                   ELSE s.levels[k]
  BY SymbolsDedent DEF SymbolsOK
<1> HIDE DEF u, stop
<1>5. ASSUME NEW k \in 0 .. s.depth - 1
      PROVE  LET v == s.levels[k]
                 w == u.levels[k]
             IN  /\ LevelOK(w)
                 /\ w.end = v.end /\ w.scopes = v.scopes
                 /\ w.begin = v.begin + (IF k \in stop .. s.level THEN 1 ELSE 0)
                 /\ w.mem = IF w.begin < w.end THEN "held" ELSE "freed"
                 /\ k <= u.level => w.begin < w.end /\ w.scope = w.begin
                 /\ k > u.level => w.scope = IF w.begin = 0 THEN w.end - 1 ELSE w.begin - 1
  <2> DEFINE v == s.levels[k]
             w == u.levels[k]
  <2>1. /\ LevelOK(v) /\ IsLevel(v)
        /\ v.begin \in Nat /\ v.end \in Nat \ {0} /\ v.scope \in Nat
    BY QueueTypes DEF SymbolsOK
  <2>2. /\ v.mem = IF v.begin < v.end THEN "held" ELSE "freed"
        /\ k <= s.level => v.begin < v.end /\ v.scope = v.begin
        /\ k > s.level => v.scope = IF v.begin = 0 THEN v.end - 1 ELSE v.begin - 1
    BY DEF VisitQueues
  <2>3. w = IF k \in stop .. s.level THEN level_drop(v) ELSE v
    BY <1>4
  <2> HIDE DEF v, w
  <2>4. CASE k \in stop .. s.level
    <3>1. v.begin < v.end /\ v.scope = v.begin /\ k > u.level /\ v.mem = "held"
      BY <1>1, <1>2, <1>4, <2>2, <2>4
    <3>2. /\ IsLevel(w) /\ w.begin = v.begin + 1 /\ w.end = v.end
          /\ w.scope = v.scope /\ w.scopes = v.scopes
          /\ w.mem = (IF v.begin + 1 = v.end THEN "freed" ELSE v.mem)
      BY <2>1, <2>3, <2>4, <3>1, LevelDrop
    <3>3. w.begin \in 0 .. w.end /\ w.begin # 0 /\ w.scope = w.begin - 1
      BY <2>1, <3>1, <3>2
    <3>4. w.mem = IF w.begin < w.end THEN "held" ELSE "freed"
      BY <2>1, <3>1, <3>2
    <3>5. LevelOK(w)
      BY <2>1, <3>2, <3>3, <3>4 DEF LevelOK
    <3> QED
      BY <1>1, <1>2, <1>4, <2>4, <3>1, <3>2, <3>3, <3>4, <3>5 DEF v, w
  <2>5. CASE k \notin stop .. s.level
    <3>1. w = v
      BY <2>3, <2>5
    <3>2. (k <= u.level => k <= s.level) /\ (k > u.level => k > s.level)
      BY <1>1, <1>2, <1>4, <2>5
    <3> QED
      BY <2>1, <2>2, <2>5, <3>1, <3>2 DEF v, w
  <2> QED
    BY <2>4, <2>5
<1>6. SymbolsOK(u)
  <2>1. \A k \in 0 .. u.depth - 1 : LevelOK(u.levels[k])
    BY <1>4, <1>5
  <2>2. u.table \in SUBSET Item /\ u.count \in Nat
    BY <1>4 DEF SymbolsOK
  <2> QED
    BY <1>1, <1>2, <1>4, <2>1, <2>2 DEF SymbolsOK
<1>7. VisitQueues(u)
  BY <1>4, <1>5 DEF VisitQueues
<1> QED
  BY <1>2, <1>3, <1>4, <1>5, <1>6, <1>7 DEF u, stop

\* symbols_dedent pops the levels that symbols_leave popped: both stop at the first
\* scope without symbols, and a closed scope keeps its symbols.
LEMMA DedentStopsAlike ==
    ASSUME NEW s, NEW t, NEW f, Together(s, t, f), t.level > 0,
           Before(symbols_leave(t), f)
    PROVE  DedentStop(s) = LeaveStop(t)
<1> DEFINE n == symbols_leave(t)
           p == LeaveStop(t)
           a == [l \in 0 .. t.level |-> level_at(t.levels[l])]
           b == [l \in 0 .. s.level |-> PolledLink(s.levels[l])]
<1>1. /\ SymbolsOK(s) /\ SymbolsOK(t) /\ BuildQueues(t) /\ SymbolsOK(f)
      /\ Matches(s, t, f) /\ s.level = t.level /\ s.depth = f.depth
  BY DEF Together, Matches
<1>2. /\ p \in 1 .. t.level /\ n.depth = t.depth /\ n.levels = t.levels
      /\ \A k \in Nat : Closed(n, k) = Closed(t, k) +
                                       (IF k \in p .. t.level THEN 1 ELSE 0)
  BY <1>1, LeaveCloses
<1>3. t.level \in Nat /\ IsStop(p, t.level, a)
  BY <1>1, StopExists DEF LeaveStop, BuildQueues
<1> HIDE DEF n, p
<1>4. ASSUME NEW l \in p .. t.level
      PROVE  a[l] = b[l]
  <2>1. l \in 0 .. s.level /\ l \in 0 .. t.level /\ l \in Nat
    BY <1>1, <1>2, <1>3
  <2>2. /\ l \in 0 .. s.depth - 1 /\ l \in 0 .. t.depth - 1
        /\ s.levels[l].begin < s.levels[l].end
        /\ s.levels[l].begin = t.levels[l].end - 1
        /\ t.levels[l].scope = t.levels[l].end - 1
    BY <2>1, OpenScopes
  <2>3. /\ IsLevel(s.levels[l]) /\ s.levels[l].begin \in Nat /\ s.levels[l].end \in Nat
        /\ t.levels[l].end \in Nat
    BY <1>1, <2>2, QueueTypes
  <2>4. PolledLink(s.levels[l]) = s.levels[l].scopes[t.levels[l].end - 1]
    BY <2>2, <2>3, LevelDrop
  <2>5. s.levels[l].scopes = f.levels[l].scopes
    BY <1>1, <2>2 DEF Matches
  <2>6. Closed(t, l) = t.levels[l].end - 1
    BY <1>1, <2>1, <2>2 DEF Closed, SymbolsOK
  <2>7. Closed(n, l) = t.levels[l].end
    BY <1>2, <2>1, <2>3, <2>6
  <2>8. f.levels[l].scopes[t.levels[l].end - 1] = t.levels[l].scopes[t.levels[l].end - 1]
    <3>1. t.levels[l].end - 1 \in 0 .. Closed(n, l) - 1
      BY <2>2, <2>3, <2>7
    <3>2. l \in 0 .. n.depth - 1
      BY <1>2, <2>2
    <3> QED
      BY <1>2, <3>1, <3>2 DEF Before, n
  <2>9. level_at(t.levels[l]) = t.levels[l].scopes[t.levels[l].end - 1]
    BY <2>2 DEF level_at
  <2> QED
    BY <2>1, <2>4, <2>5, <2>8, <2>9
<1> HIDE DEF a
<1>5. IsStop(p, s.level, b)
  <2> HIDE DEF b
  <2> QED
    BY <1>1, <1>2, <1>3, <1>4 DEF IsStop
<1>6. IsStop(DedentStop(s), s.level, b)
  BY <1>1, <1>3, StopExists DEF DedentStop
<1> HIDE DEF b
<1> QED
  BY <1>1, <1>3, <1>5, <1>6, StopUnique DEF p

\* symbols_dedent does in the visit what symbols_leave did in the build.
LEMMA DedentFollows ==
    ASSUME NEW s, NEW t, NEW f, Together(s, t, f), t.level > 0,
           Before(symbols_leave(t), f)
    PROVE  LET u == symbols_dedent(s)
           IN  /\ DedentAsserts(s)
               /\ SymbolsOK(u) /\ VisitQueues(u)
               /\ Matches(u, symbols_leave(t), f)
<1> DEFINE u == symbols_dedent(s)
           n == symbols_leave(t)
           stop == DedentStop(s)
<1>1. /\ SymbolsOK(s) /\ VisitQueues(s) /\ SymbolsOK(t) /\ BuildQueues(t)
      /\ Matches(s, t, f) /\ s.level = t.level /\ s.depth = f.depth
      /\ s.level >= 0
  BY DEF Together, Matches, SymbolsOK
<1>2. stop = LeaveStop(t)
  BY DedentStopsAlike
<1>3. /\ n.level = LeaveStop(t) - 1
      /\ \A k \in Nat : Closed(n, k) = Closed(t, k) +
                                       (IF k \in LeaveStop(t) .. t.level THEN 1 ELSE 0)
  BY <1>1, LeaveCloses
<1>4. /\ DedentAsserts(s) /\ SymbolsOK(u) /\ VisitQueues(u)
      /\ u.level = stop - 1 /\ u.depth = s.depth
      /\ \A k \in 0 .. s.depth - 1 :
            /\ u.levels[k].end = s.levels[k].end
            /\ u.levels[k].scopes = s.levels[k].scopes
            /\ u.levels[k].begin = s.levels[k].begin +
                                     (IF k \in stop .. s.level THEN 1 ELSE 0)
  BY <1>1, DedentQueues
<1> HIDE DEF u, n, stop
<1>5. Matches(u, n, f)
  <2>1. ASSUME NEW k \in 0 .. f.depth - 1
        PROVE  /\ u.levels[k].end = f.levels[k].end
               /\ u.levels[k].scopes = f.levels[k].scopes
               /\ u.levels[k].begin = Closed(n, k)
    <3>1. /\ s.levels[k].end = f.levels[k].end
          /\ s.levels[k].scopes = f.levels[k].scopes
          /\ s.levels[k].begin = Closed(t, k)
      BY <1>1 DEF Matches
    <3> QED
      BY <1>1, <1>2, <1>3, <1>4, <3>1
  <2> QED
    BY <1>1, <1>2, <1>3, <1>4, <2>1 DEF Matches
<1> QED
  BY <1>4, <1>5 DEF u, n

\* symbols_new has one open scope, the global one, and no symbols.
LEMMA NewBuilds ==
    /\ SymbolsOK(symbols_new) /\ BuildQueues(symbols_new)
    /\ symbols_new.level = 0
    /\ symbols_new.depth = 1
    /\ symbols_new.table = {}
    /\ symbols_new.levels[0].scopes = [k \in {0} |-> {}]
    /\ symbols_new.levels[0].end = 1
    /\ \A k \in Nat : Closed(symbols_new, k) = 0
<1> DEFINE e == [table |-> {}, levels |-> [k \in {} |-> level_new],
                 depth |-> 0, level |-> -1, count |-> 0]
           t == symbols_new
           v == level_new
           w == level_offer(v, {})
<1>1. /\ IsSymbols(e) /\ e.depth = 0 /\ e.level = -1 /\ e.table = {} /\ e.count = 0
      /\ DOMAIN e.levels = 0 .. e.depth - 1
  BY DEF IsSymbols
<1>2. t = symbols_indent(e)
  BY DEF symbols_new
<1> HIDE DEF e, t
<1>3. /\ IsSymbols(t) /\ t.table = {} /\ t.count = 0 /\ t.level = 0 /\ t.depth = 1
      /\ DOMAIN t.levels = 0 .. 0 /\ t.levels[0] = w
  <2>1. LET l == e.level + 1
        IN  /\ IsSymbols(t) /\ t.table = e.table /\ t.count = e.count
            /\ t.level = l
            /\ t.depth = (IF l = e.depth THEN e.depth + 1 ELSE e.depth)
            /\ DOMAIN t.levels = 0 .. t.depth - 1
            /\ t.levels[l] = level_offer(IF l = e.depth THEN level_new
                                                        ELSE e.levels[l], {})
    <3>1. e.depth \in Nat /\ e.level \in Int /\ e.level >= -1 /\ e.level < e.depth
      BY <1>1
    <3> QED
      BY <1>1, <1>2, <3>1, SymbolsIndent
  <2>2. e.level + 1 = 0 /\ e.depth + 1 = 1
    BY <1>1
  <2> HIDE DEF w
  <2>3. t.level = 0 /\ t.depth = 1 /\ t.table = {} /\ t.count = 0
    BY <1>1, <2>1, <2>2
  <2>4. t.levels[0] = w
    BY <1>1, <2>1, <2>2 DEF w
  <2> QED
    BY <2>1, <2>3, <2>4
<1>4. /\ IsLevel(w) /\ w.begin = 0 /\ w.end = 1 /\ w.scope = 0 /\ w.mem = "held"
      /\ w.scopes = [k \in 0 .. 0 |-> IF k = 0 THEN {} ELSE level_new.scopes[k]]
  <2>1. IsLevel(v) /\ v.begin = 0 /\ v.end = 0 /\ v.mem = "held"
    BY LevelNew
  <2>2. /\ IsLevel(w) /\ w.begin = v.begin /\ w.end = v.end + 1 /\ w.scope = v.end
        /\ w.mem = v.mem
        /\ w.scopes = Offered(v, {})
    <3>1. IsLevel(v)
      BY <2>1
    <3> HIDE DEF v
    <3> QED
      BY <3>1, LevelOffer
  <2> HIDE DEF v, w
  <2>3. w.begin = 0 /\ w.end = 1 /\ w.scope = 0 /\ w.mem = "held"
    BY <2>1, <2>2
  <2> QED
    BY <2>1, <2>2, <2>3 DEF v, Offered
<1> HIDE DEF w
<1>5. w.scopes = [k \in {0} |-> {}] /\ w.scopes \in [0 .. 0 -> SUBSET Item]
  BY <1>4
<1>6. LevelOK(w)
  BY <1>4, <1>5 DEF LevelOK
<1>7. SymbolsOK(t)
  BY <1>3, <1>6 DEF SymbolsOK
<1>8. BuildQueues(t)
  BY <1>3, <1>4 DEF BuildQueues
<1>9. \A k \in Nat : Closed(t, k) = 0
  BY <1>3, <1>4 DEF Closed
<1> QED
  BY <1>3, <1>4, <1>5, <1>7, <1>8, <1>9 DEF t

\* The visit starts at the global scope, with nothing polled.
LEMMA TurnMatches ==
    ASSUME NEW f, SymbolsOK(f), BuildQueues(f), f.level = 0
    PROVE  VisitQueues(f) /\ Matches(f, symbols_new, f)
<1>1. ASSUME NEW l \in 0 .. f.depth - 1
      PROVE  LET v == f.levels[l]
             IN  /\ v.mem = IF v.begin < v.end THEN "held" ELSE "freed"
                 /\ l <= f.level => v.begin < v.end /\ v.scope = v.begin
                 /\ l > f.level => v.scope = IF v.begin = 0 THEN v.end - 1 ELSE v.begin - 1
                 /\ v.begin = 0
  <2>1. /\ f.levels[l].begin = 0 /\ f.levels[l].scope = f.levels[l].end - 1
        /\ f.levels[l].mem = "held" /\ f.levels[0].end = 1
        /\ f.levels[l].end \in Nat \ {0}
    BY QueueTypes DEF BuildQueues
  <2>2. l <= f.level => l = 0
    OBVIOUS
  <2> QED
    BY <2>1, <2>2
<1>2. VisitQueues(f)
  BY <1>1 DEF VisitQueues
<1>3. symbols_new.level = 0 /\ \A k \in 0 .. f.depth - 1 : Closed(symbols_new, k) = 0
  BY NewBuilds
<1> QED
  BY <1>1, <1>2, <1>3 DEF Matches

-----------------------------------------------------------------------------
(* The hash table against the queues. *)

\* Some scope that is not destroyed links the item.
Held(s, item) == \E l \in 0 .. s.depth - 1 :
                    \E k \in s.levels[l].begin .. s.levels[l].end - 1 :
                        item \in s.levels[l].scopes[k]

Stamped(s) == \A l \in 0 .. s.depth - 1 :
                 \A k \in 0 .. s.levels[l].end - 1 :
                    \A item \in s.levels[l].scopes[k] : item.level = l /\ item.scope = k

CoherentTable(s) == (\A item : item \in s.table <=> Held(s, item)) /\ Stamped(s)

\* A new table is coherent.
LEMMA CoherentNew == CoherentTable(symbols_new)
BY NewBuilds DEF CoherentTable, Stamped, Held, SymbolsOK, BuildQueues

\* symbols_indent keeps a table coherent: the new scope links nothing.
LEMMA CoherentIndent ==
    ASSUME NEW s, SymbolsOK(s), BuildQueues(s), CoherentTable(s)
    PROVE  CoherentTable(symbols_indent(s))
<1> DEFINE t == symbols_indent(s)
           l == s.level + 1
           v == IF l = s.depth THEN level_new ELSE s.levels[l]
           w == level_offer(v, {})
<1>1. /\ t.table = s.table
      /\ t.depth = (IF l = s.depth THEN s.depth + 1 ELSE s.depth)
      /\ t.levels[l] = w
      /\ \A j \in 0 .. s.depth - 1 : j # l => t.levels[j] = s.levels[j]
  BY SymbolsIndent DEF SymbolsOK
<1>2. l \in 1 .. s.depth /\ s.depth \in Nat
  BY DEF SymbolsOK, BuildQueues
<1>3. IsLevel(v) /\ v.end \in Nat /\ v.begin = 0
  <2>1. CASE l = s.depth
    BY <1>2, <2>1, LevelNew
  <2>2. CASE l # s.depth
    <3>1. l \in 0 .. s.depth - 1 /\ v = s.levels[l]
      BY <1>2, <2>2
    <3> HIDE DEF v, l
    <3> QED
      BY <3>1, QueueTypes DEF BuildQueues
  <2> QED  BY <2>1, <2>2
<1>4. l = s.depth => v.end = 0
  BY LevelNew
<1>5. l # s.depth => v = s.levels[l]
  OBVIOUS
<1> HIDE DEF v
<1>6. /\ w.begin = 0 /\ w.end = v.end + 1
      /\ w.scopes = [k \in 0 .. v.end |-> IF k = v.end THEN {} ELSE v.scopes[k]]
  <2>1. IsLevel(v)
    BY <1>3
  <2>2. /\ w.begin = v.begin /\ w.end = v.end + 1
        /\ w.scopes = Offered(v, {})
    BY <2>1, LevelOffer
  <2> HIDE DEF w
  <2> QED
    BY <1>3, <2>2 DEF Offered
<1> HIDE DEF t, l, w
<1>7. \A k \in 0 .. v.end : \A item : item \in w.scopes[k] =>
         k \in 0 .. v.end - 1 /\ l \in 0 .. s.depth - 1 /\ item \in s.levels[l].scopes[k]
  BY <1>2, <1>3, <1>4, <1>5, <1>6
<1>8. Stamped(t)
  <2>1. ASSUME NEW j \in 0 .. t.depth - 1, NEW k \in 0 .. t.levels[j].end - 1,
               NEW item \in t.levels[j].scopes[k]
        PROVE  item.level = j /\ item.scope = k
    <3>1. CASE j = l
      <4>1. /\ k \in 0 .. v.end - 1 /\ l \in 0 .. s.depth - 1
            /\ item \in s.levels[l].scopes[k]
        <5>1. k \in 0 .. v.end /\ item \in w.scopes[k]
          BY <1>1, <1>3, <1>6, <3>1
        <5> QED
          BY <1>7, <5>1
      <4>2. v.end = s.levels[l].end
        BY <1>5, <4>1, <1>2
      <4> QED
        BY <3>1, <4>1, <4>2 DEF CoherentTable, Stamped
    <3>2. CASE j # l
      <4>1. j \in 0 .. s.depth - 1 /\ t.levels[j] = s.levels[j]
        BY <1>1, <1>2, <3>2
      <4> QED
        BY <4>1 DEF CoherentTable, Stamped
    <3> QED  BY <3>1, <3>2
  <2> QED
    BY <2>1 DEF Stamped
<1>9. ASSUME NEW item
      PROVE  Held(t, item) <=> Held(s, item)
  <2>1. ASSUME Held(s, item)
        PROVE  Held(t, item)
    <3>1. PICK j \in 0 .. s.depth - 1 :
             \E k \in s.levels[j].begin .. s.levels[j].end - 1 : item \in s.levels[j].scopes[k]
      BY <2>1 DEF Held
    <3>2. PICK k \in s.levels[j].begin .. s.levels[j].end - 1 : item \in s.levels[j].scopes[k]
      BY <3>1
    <3>3. j \in 0 .. t.depth - 1
      BY <1>1, <1>2
    <3>4. k \in t.levels[j].begin .. t.levels[j].end - 1 /\ item \in t.levels[j].scopes[k]
      <4>1. CASE j = l
        <5>1. v = s.levels[l] /\ k \in 0 .. v.end - 1
          BY <1>2, <1>3, <1>5, <3>2, <4>1
        <5> QED
          BY <1>1, <1>3, <1>6, <3>2, <4>1, <5>1
      <4>2. CASE j # l
        BY <1>1, <3>2, <4>2
      <4> QED  BY <4>1, <4>2
    <3> QED
      BY <3>3, <3>4 DEF Held
  <2>2. ASSUME Held(t, item)
        PROVE  Held(s, item)
    <3>1. PICK j \in 0 .. t.depth - 1 :
             \E k \in t.levels[j].begin .. t.levels[j].end - 1 : item \in t.levels[j].scopes[k]
      BY <2>2 DEF Held
    <3>2. PICK k \in t.levels[j].begin .. t.levels[j].end - 1 : item \in t.levels[j].scopes[k]
      BY <3>1
    <3>3. CASE j = l
      <4>1. /\ k \in 0 .. v.end - 1 /\ l \in 0 .. s.depth - 1
            /\ item \in s.levels[l].scopes[k]
        <5>1. k \in 0 .. v.end /\ item \in w.scopes[k]
          BY <1>1, <1>3, <1>6, <3>2, <3>3
        <5> QED
          BY <1>7, <5>1
      <4>2. v = s.levels[l]
        BY <1>2, <1>5, <4>1
      <4> QED
        BY <1>3, <4>1, <4>2 DEF Held
    <3>4. CASE j # l
      <4>1. j \in 0 .. s.depth - 1 /\ t.levels[j] = s.levels[j]
        BY <1>1, <1>2, <3>4
      <4> QED
        BY <3>2, <4>1 DEF Held
    <3> QED  BY <3>3, <3>4
  <2> QED  BY <2>1, <2>2
<1> QED
  BY <1>1, <1>8, <1>9 DEF CoherentTable, t

\* symbols_add inserts and links the same item, stamped with where it is linked.
LEMMA CoherentAdd ==
    ASSUME NEW s, SymbolsOK(s), BuildQueues(s), CoherentTable(s), NEW key, NEW tag
    PROVE  CoherentTable(symbols_add(s, key, tag))
<1> DEFINE t == symbols_add(s, key, tag)
           l == s.level
           v == s.levels[l]
           new == NewItem(s, key, tag)
           w == level_link(v, new)
<1>1. /\ t.table = s.table \cup {new} /\ t.depth = s.depth /\ t.levels[l] = w
      /\ \A k \in 0 .. s.depth - 1 : k # l => t.levels[k] = s.levels[k]
  BY SymbolsAdd DEF SymbolsOK, BuildQueues
<1>2. /\ l \in 0 .. s.depth - 1 /\ s.depth \in Nat
      /\ LevelOK(v) /\ v.begin = 0 /\ v.scope \in 0 .. v.end - 1
      /\ v.end \in Nat
  <2>1. l \in 0 .. s.depth - 1 /\ s.depth \in Nat
    BY DEF SymbolsOK, BuildQueues
  <2>2. LevelOK(v) /\ v.begin = 0
    BY <2>1 DEF SymbolsOK, BuildQueues
  <2> HIDE DEF l, v
  <2> QED
    BY <2>1, <2>2 DEF LevelOK
<1>3. new.level = l /\ new.scope = v.scope
  BY DEF NewItem, symbols_level, symbols_scope
<1> HIDE DEF new
<1>4. /\ w.begin = v.begin /\ w.end = v.end
      /\ w.scopes = [v.scopes EXCEPT ![v.scope] = @ \cup {new}]
  BY <1>2, LevelLink DEF LevelOK
<1>5. \A k \in 0 .. v.end - 1 :
         w.scopes[k] = IF k = v.scope THEN v.scopes[k] \cup {new} ELSE v.scopes[k]
  BY <1>2, <1>4 DEF LevelOK
<1> HIDE DEF w
<1>6. ASSUME NEW j \in 0 .. s.depth - 1
      PROVE  /\ t.levels[j].begin = s.levels[j].begin /\ t.levels[j].end = s.levels[j].end
             /\ \A k \in 0 .. s.levels[j].end - 1 :
                   t.levels[j].scopes[k] =
                      IF j = l /\ k = v.scope THEN s.levels[j].scopes[k] \cup {new}
                                              ELSE s.levels[j].scopes[k]
  <2>1. CASE j = l
    BY <1>1, <1>4, <1>5, <2>1
  <2>2. CASE j # l
    BY <1>1, <2>2
  <2> QED  BY <2>1, <2>2
<1>7. v = s.levels[l]
  OBVIOUS
<1> HIDE DEF t, l, v
<1>8. Stamped(t)
  <2>1. ASSUME NEW j \in 0 .. s.depth - 1, NEW k \in 0 .. s.levels[j].end - 1,
               NEW item \in t.levels[j].scopes[k]
        PROVE  item.level = j /\ item.scope = k
    <3>1. \/ item \in s.levels[j].scopes[k]
          \/ item = new /\ j = l /\ k = v.scope
      <4>1. t.levels[j].scopes[k] = IF j = l /\ k = v.scope
                                    THEN s.levels[j].scopes[k] \cup {new}
                                    ELSE s.levels[j].scopes[k]
        BY <1>6
      <4> QED
        BY <4>1
    <3>2. item \in s.levels[j].scopes[k] => item.level = j /\ item.scope = k
      BY DEF CoherentTable, Stamped
    <3> QED
      BY <1>3, <3>1, <3>2
  <2>2. \A j \in 0 .. s.depth - 1 : t.levels[j].end = s.levels[j].end
    BY <1>6
  <2> QED
    BY <1>1, <2>1, <2>2 DEF Stamped
<1>9. ASSUME NEW item
      PROVE  Held(t, item) <=> Held(s, item) \/ item = new
  <2>1. Held(s, item) => Held(t, item)
    <3> SUFFICES ASSUME Held(s, item) PROVE Held(t, item)
      OBVIOUS
    <3>1. PICK j \in 0 .. s.depth - 1 :
             \E k \in s.levels[j].begin .. s.levels[j].end - 1 : item \in s.levels[j].scopes[k]
      BY DEF Held
    <3>2. PICK k \in s.levels[j].begin .. s.levels[j].end - 1 : item \in s.levels[j].scopes[k]
      BY <3>1
    <3>3. k \in 0 .. s.levels[j].end - 1
      BY QueueTypes
    <3>4. item \in t.levels[j].scopes[k]
      BY <1>6, <3>2, <3>3
    <3> QED
      BY <1>1, <1>6, <3>4 DEF Held
  <2>2. Held(t, new)
    <3>1. v.scope \in 0 .. s.levels[l].end - 1 /\ v.begin = 0
      BY <1>2, <1>7
    <3>2. v.scope \in t.levels[l].begin .. t.levels[l].end - 1
      BY <1>2, <1>6, <1>7, <3>1
    <3>3. new \in t.levels[l].scopes[v.scope]
      <4>1. t.levels[l].scopes[v.scope] = s.levels[l].scopes[v.scope] \cup {new}
        BY <1>2, <1>6, <3>1
      <4> QED
        BY <4>1
    <3> QED
      BY <1>1, <1>2, <3>2, <3>3 DEF Held
  <2>3. Held(t, item) => Held(s, item) \/ item = new
    <3> SUFFICES ASSUME Held(t, item) PROVE Held(s, item) \/ item = new
      OBVIOUS
    <3>1. PICK j \in 0 .. s.depth - 1 :
             \E k \in t.levels[j].begin .. t.levels[j].end - 1 : item \in t.levels[j].scopes[k]
      BY <1>1 DEF Held
    <3>2. PICK k \in t.levels[j].begin .. t.levels[j].end - 1 : item \in t.levels[j].scopes[k]
      BY <3>1
    <3>3. k \in s.levels[j].begin .. s.levels[j].end - 1 /\ k \in 0 .. s.levels[j].end - 1
      <4>1. t.levels[j].begin = s.levels[j].begin /\ t.levels[j].end = s.levels[j].end
        BY <1>6
      <4> QED
        BY <3>2, <4>1, QueueTypes
    <3>4. item \in s.levels[j].scopes[k] \/ item = new
      <4>1. t.levels[j].scopes[k] = s.levels[j].scopes[k]
            \/ t.levels[j].scopes[k] = s.levels[j].scopes[k] \cup {new}
        BY <1>6, <3>3
      <4> QED
        BY <3>2, <4>1
    <3> QED
      BY <3>3, <3>4 DEF Held
  <2> QED
    BY <2>1, <2>2, <2>3
<1> QED
  BY <1>1, <1>8, <1>9 DEF CoherentTable, t

\* Calls that only move the current scopes do not matter.
LEMMA CoherentSame ==
    ASSUME NEW s, NEW u, CoherentTable(s), u.table = s.table, u.depth = s.depth,
           \A k \in 0 .. s.depth - 1 : /\ u.levels[k].begin = s.levels[k].begin
                                       /\ u.levels[k].end = s.levels[k].end
                                       /\ u.levels[k].scopes = s.levels[k].scopes
    PROVE  CoherentTable(u)
<1>1. \A item : Held(u, item) <=> Held(s, item)
  BY DEF Held
<1>2. Stamped(u)
  BY DEF CoherentTable, Stamped
<1> QED
  BY <1>1, <1>2 DEF CoherentTable

\* symbols_leave keeps a table coherent.
LEMMA CoherentLeave ==
    ASSUME NEW s, SymbolsOK(s), CoherentTable(s)
    PROVE  CoherentTable(symbols_leave(s))
<1> DEFINE t == symbols_leave(s)
<1>1. t.table = s.table /\ t.depth = s.depth /\ t.levels = s.levels
  BY SymbolsLeave DEF SymbolsOK
<1> HIDE DEF t
<1>2. CoherentTable(t)
  BY <1>1, CoherentSame
<1> QED
  BY <1>2 DEF t

\* symbols_enter keeps a table coherent.
LEMMA CoherentEnter ==
    ASSUME NEW s, SymbolsOK(s), CanEnter(s), CoherentTable(s)
    PROVE  CoherentTable(symbols_enter(s))
<1> DEFINE u == symbols_enter(s)
           l == s.level + 1
<1>1. l \in 0 .. s.depth - 1 /\ DOMAIN s.levels = 0 .. s.depth - 1
  BY DEF SymbolsOK, CanEnter
<1>2. /\ u.table = s.table /\ u.depth = s.depth
      /\ u.levels[l] = level_next(s.levels[l])
      /\ \A k \in 0 .. s.depth - 1 : k # l => u.levels[k] = s.levels[k]
  BY <1>1, SymbolsEnter DEF SymbolsOK
<1>3. IsLevel(s.levels[l])
  BY <1>1, QueueTypes
<1>4. /\ u.levels[l].begin = s.levels[l].begin /\ u.levels[l].end = s.levels[l].end
      /\ u.levels[l].scopes = s.levels[l].scopes
  BY <1>2, <1>3, LevelNext
<1> HIDE DEF u, l
<1>5. CoherentTable(u)
  BY <1>2, <1>4, CoherentSame
<1> QED
  BY <1>5 DEF u

\* dedent() unlinks what it polls and nothing else: an item of another scope has
\* another stamp.
LEMMA CoherentDedent ==
    ASSUME NEW s, SymbolsOK(s), VisitQueues(s), s.level >= 0, CoherentTable(s)
    PROVE  CoherentTable(symbols_dedent(s))
<1> DEFINE u == symbols_dedent(s)
           stop == DedentStop(s)
<1>1. /\ stop \in 0 .. s.level /\ u.depth = s.depth /\ s.level < s.depth
      /\ s.level \in Nat /\ s.depth \in Nat
      /\ \A k \in 0 .. s.depth - 1 :
            /\ u.levels[k].end = s.levels[k].end
            /\ u.levels[k].scopes = s.levels[k].scopes
            /\ u.levels[k].begin = s.levels[k].begin +
                                     (IF k \in stop .. s.level THEN 1 ELSE 0)
  BY DedentQueues DEF SymbolsOK
<1>2. u.table = s.table \ UNION {PolledLink(s.levels[l]) : l \in stop .. s.level}
  BY SymbolsDedent DEF SymbolsOK
<1> HIDE DEF u, stop
<1>3. ASSUME NEW l \in stop .. s.level
      PROVE  /\ l \in 0 .. s.depth - 1
             /\ PolledLink(s.levels[l]) = s.levels[l].scopes[s.levels[l].begin]
             /\ s.levels[l].begin \in 0 .. s.levels[l].end - 1
  <2>1. l \in 0 .. s.depth - 1 /\ l <= s.level
    BY <1>1
  <2>2. IsLevel(s.levels[l]) /\ s.levels[l].begin \in Nat /\ s.levels[l].end \in Nat
    BY <2>1, QueueTypes
  <2>3. s.levels[l].begin < s.levels[l].end
    BY <2>1 DEF VisitQueues
  <2> QED
    BY <2>1, <2>2, <2>3, LevelDrop
<1>4. ASSUME NEW item
      PROVE  item \in u.table <=> Held(u, item)
  <2>1. ASSUME item \in u.table
        PROVE  Held(u, item)
    <3>1. Held(s, item) /\ \A l \in stop .. s.level : item \notin PolledLink(s.levels[l])
      BY <1>2, <2>1 DEF CoherentTable
    <3>2. PICK j \in 0 .. s.depth - 1 :
             \E k \in s.levels[j].begin .. s.levels[j].end - 1 : item \in s.levels[j].scopes[k]
      BY <3>1 DEF Held
    <3>3. PICK k \in s.levels[j].begin .. s.levels[j].end - 1 : item \in s.levels[j].scopes[k]
      BY <3>2
    <3>4. s.levels[j].begin \in Nat /\ s.levels[j].end \in Nat
      BY QueueTypes
    <3>5. k \in u.levels[j].begin .. u.levels[j].end - 1
      <4>1. CASE j \in stop .. s.level
        <5>1. item \notin s.levels[j].scopes[s.levels[j].begin]
          BY <1>3, <3>1, <4>1
        <5>2. k # s.levels[j].begin
          BY <3>3, <5>1
        <5> QED
          BY <1>1, <3>4, <4>1, <5>2
      <4>2. CASE j \notin stop .. s.level
        BY <1>1, <3>4, <4>2
      <4> QED  BY <4>1, <4>2
    <3>6. item \in u.levels[j].scopes[k] /\ j \in 0 .. u.depth - 1
      BY <1>1, <3>3
    <3> QED
      BY <3>5, <3>6 DEF Held
  <2>2. ASSUME Held(u, item)
        PROVE  item \in u.table
    <3>1. PICK j \in 0 .. s.depth - 1 :
             \E k \in u.levels[j].begin .. u.levels[j].end - 1 : item \in u.levels[j].scopes[k]
      BY <1>1, <2>2 DEF Held
    <3>2. PICK k \in u.levels[j].begin .. u.levels[j].end - 1 : item \in u.levels[j].scopes[k]
      BY <3>1
    <3>3. s.levels[j].begin \in Nat /\ s.levels[j].end \in Nat
      BY QueueTypes
    <3>4. /\ k \in s.levels[j].begin .. s.levels[j].end - 1
          /\ k \in 0 .. s.levels[j].end - 1
          /\ j \in stop .. s.level => k # s.levels[j].begin
          /\ item \in s.levels[j].scopes[k]
      BY <1>1, <3>2, <3>3
    <3>5. item \in s.table
      BY <3>4 DEF CoherentTable, Held
    <3>6. item.level = j /\ item.scope = k
      BY <3>4 DEF CoherentTable, Stamped
    <3>7. ASSUME NEW l \in stop .. s.level, item \in PolledLink(s.levels[l])
          PROVE  FALSE
      <4>1. item.level = l /\ item.scope = s.levels[l].begin
        BY <1>3, <3>7 DEF CoherentTable, Stamped
      <4> QED
        BY <3>4, <3>6, <4>1
    <3> QED
      BY <1>2, <3>5, <3>7
  <2> QED  BY <2>1, <2>2
<1>5. Stamped(u)
  BY <1>1 DEF CoherentTable, Stamped
<1> QED
  BY <1>4, <1>5 DEF CoherentTable, u

\* symbols_add moves no queue.
LEMMA AddQueues ==
    ASSUME NEW s, SymbolsOK(s), BuildQueues(s), NEW key, NEW tag, NEW l \in 0 .. s.depth - 1
    PROVE  LET t == symbols_add(s, key, tag)
           IN  /\ t.levels[l].begin = s.levels[l].begin
               /\ t.levels[l].end = s.levels[l].end
<1> DEFINE t == symbols_add(s, key, tag)
           v == s.levels[s.level]
           new == NewItem(s, key, tag)
<1>1. /\ t.levels[s.level] = level_link(v, new)
      /\ \A j \in 0 .. s.depth - 1 : j # s.level => t.levels[j] = s.levels[j]
  BY SymbolsAdd DEF SymbolsOK, BuildQueues
<1>2. s.level \in 0 .. s.depth - 1
  BY DEF SymbolsOK, BuildQueues
<1>3. level_link(v, new).begin = v.begin /\ level_link(v, new).end = v.end
  BY <1>2, QueueTypes, LevelLink
<1> HIDE DEF t, new
<1> QED
  BY <1>1, <1>2, <1>3 DEF t

-----------------------------------------------------------------------------
(* The items of a build, which are numbered in the order of their allocation. *)

\* Every item was allocated before now.
Numbered(s) == \A l \in 0 .. s.depth - 1 :
                  \A k \in 0 .. s.levels[l].end - 1 :
                     \A item \in s.levels[l].scopes[k] : item.id < s.count

\* t is a later table of the build: of what its scopes link, s has the older items.
Grows(s, t) ==
    /\ s.depth <= t.depth /\ s.count <= t.count
    /\ \A l \in 0 .. s.depth - 1 :
          /\ s.levels[l].end <= t.levels[l].end
          /\ \A k \in 0 .. s.levels[l].end - 1 :
                s.levels[l].scopes[k] =
                    {item \in t.levels[l].scopes[k] : item.id < s.count}

-----------------------------------------------------------------------------
(* The calls of the build, scope by scope. *)

\* What the type invariant says of the items of a scope.
LEMMA ScopeTypes ==
    ASSUME NEW s, SymbolsOK(s), NEW l \in 0 .. s.depth - 1,
           NEW k \in 0 .. s.levels[l].end - 1
    PROVE  \A item \in s.levels[l].scopes[k] : item \in Item /\ item.id \in Nat
<1>1. s.levels[l].scopes \in [0 .. s.levels[l].end - 1 -> SUBSET Item]
  BY DEF SymbolsOK, LevelOK
<1>2. s.levels[l].scopes[k] \in SUBSET Item
  BY <1>1
<1> QED
  BY <1>2 DEF Item

\* symbols_indent adds one scope, with nothing in it, and changes no other.
LEMMA IndentScopes ==
    ASSUME NEW s, SymbolsOK(s), BuildQueues(s), NEW t, t = symbols_indent(s)
    PROVE  LET l == s.level + 1
           IN  /\ t.count = s.count /\ t.level = l
               /\ s.depth <= t.depth /\ t.depth \in Nat /\ l \in 1 .. t.depth - 1
               /\ t.levels[l].scope = t.levels[l].end - 1
               /\ t.levels[l].end \in Nat \ {0}
               /\ t.levels[l].scopes[t.levels[l].end - 1] = {}
               /\ \A j \in 0 .. s.depth - 1 :
                     /\ t.levels[j].end = s.levels[j].end + (IF j = l THEN 1 ELSE 0)
                     /\ \A k \in 0 .. s.levels[j].end - 1 :
                           t.levels[j].scopes[k] = s.levels[j].scopes[k]
               /\ \A j \in 0 .. s.depth - 1 : j # l => t.levels[j] = s.levels[j]
               /\ \A j \in s.depth .. t.depth - 1 : j = l /\ t.levels[j].end = 1
<1> DEFINE l == s.level + 1
           v == IF l = s.depth THEN level_new ELSE s.levels[l]
           w == level_offer(v, {})
<1>1. /\ t.count = s.count /\ t.level = l
      /\ t.depth = (IF l = s.depth THEN s.depth + 1 ELSE s.depth)
      /\ t.levels[l] = w
      /\ \A j \in 0 .. s.depth - 1 : j # l => t.levels[j] = s.levels[j]
  BY SymbolsIndent DEF SymbolsOK
<1>2. l \in 1 .. s.depth /\ s.depth \in Nat
  BY DEF SymbolsOK, BuildQueues
<1>3. IsLevel(v) /\ v.end \in Nat
  <2>1. CASE l = s.depth
    BY <1>2, <2>1, LevelNew
  <2>2. CASE l # s.depth
    <3>1. l \in 0 .. s.depth - 1 /\ v = s.levels[l]
      BY <1>2, <2>2
    <3> HIDE DEF v, l
    <3> QED
      BY <3>1, QueueTypes
  <2> QED  BY <2>1, <2>2
<1>4. l = s.depth => v.end = 0
  BY LevelNew
<1>5. l # s.depth => v = s.levels[l]
  OBVIOUS
<1> HIDE DEF v
<1>6. /\ w.end = v.end + 1 /\ w.scope = v.end
      /\ w.scopes = [k \in 0 .. v.end |-> IF k = v.end THEN {} ELSE v.scopes[k]]
  <2>1. /\ w.end = v.end + 1 /\ w.scope = v.end
        /\ w.scopes = Offered(v, {})
    BY <1>3, LevelOffer
  <2> HIDE DEF w
  <2> QED
    BY <2>1 DEF Offered
<1> HIDE DEF l, w
<1>7. /\ t.levels[l].end = v.end + 1 /\ t.levels[l].scope = v.end
      /\ t.levels[l].scopes[v.end] = {}
      /\ \A k \in 0 .. v.end - 1 : t.levels[l].scopes[k] = v.scopes[k]
  BY <1>1, <1>3, <1>6
<1>8. ASSUME NEW j \in 0 .. s.depth - 1
      PROVE  /\ t.levels[j].end = s.levels[j].end + (IF j = l THEN 1 ELSE 0)
             /\ \A k \in 0 .. s.levels[j].end - 1 :
                   t.levels[j].scopes[k] = s.levels[j].scopes[k]
  <2>1. s.levels[j].end \in Nat
    BY QueueTypes
  <2>2. CASE j = l
    BY <1>2, <1>5, <1>7, <2>2
  <2>3. CASE j # l
    BY <1>1, <2>1, <2>3
  <2> QED  BY <2>2, <2>3
<1>9. \A j \in s.depth .. t.depth - 1 : j = l /\ t.levels[j].end = 1
  BY <1>1, <1>2, <1>4, <1>7
<1>10. s.depth <= t.depth /\ t.depth \in Nat /\ l \in 1 .. t.depth - 1
  BY <1>1, <1>2
<1>11. /\ t.levels[l].scope = t.levels[l].end - 1 /\ t.levels[l].end \in Nat \ {0}
       /\ t.levels[l].scopes[t.levels[l].end - 1] = {}
  <2>1. t.levels[l].end - 1 = v.end
    BY <1>3, <1>7
  <2> QED
    BY <1>3, <1>7, <2>1
<1> QED
  BY <1>1, <1>8, <1>9, <1>10, <1>11 DEF l

\* symbols_add links the new item to the current scope and changes no other.
LEMMA AddScopes ==
    ASSUME NEW s, SymbolsOK(s), BuildQueues(s), NEW key, NEW tag,
           NEW t, t = symbols_add(s, key, tag)
    PROVE  LET new == NewItem(s, key, tag)
           IN  /\ t.count = s.count + 1 /\ t.level = s.level /\ t.depth = s.depth
               /\ new.id = s.count /\ new.key = key /\ new.level = s.level
               /\ new.scope = s.levels[s.level].scope
               /\ \A j \in 0 .. s.depth - 1 :
                     /\ t.levels[j].end = s.levels[j].end
                     /\ t.levels[j].scope = s.levels[j].scope
                     /\ \A k \in 0 .. s.levels[j].end - 1 :
                           t.levels[j].scopes[k] =
                              s.levels[j].scopes[k] \cup
                                 (IF j = s.level /\ k = s.levels[j].scope THEN {new} ELSE {})
<1> DEFINE l == s.level
           v == s.levels[l]
           new == NewItem(s, key, tag)
           w == level_link(v, new)
<1>1. /\ t.count = s.count + 1 /\ t.level = l /\ t.depth = s.depth
      /\ t.levels[l] = w
      /\ \A j \in 0 .. s.depth - 1 : j # l => t.levels[j] = s.levels[j]
  BY SymbolsAdd DEF SymbolsOK, BuildQueues
<1>2. l \in 0 .. s.depth - 1 /\ LevelOK(v)
  BY DEF SymbolsOK, BuildQueues
<1>3. /\ new.id = s.count /\ new.key = key /\ new.level = l /\ new.scope = v.scope
  BY DEF NewItem, symbols_level, symbols_scope
<1>4. /\ w.end = v.end /\ w.scope = v.scope
      /\ w.scopes = [v.scopes EXCEPT ![v.scope] = @ \cup {new}]
  BY <1>2, LevelLink DEF LevelOK
<1>5. \A k \in 0 .. v.end - 1 :
         w.scopes[k] = v.scopes[k] \cup (IF k = v.scope THEN {new} ELSE {})
  BY <1>2, <1>4 DEF LevelOK
<1>6. v = s.levels[l]
  OBVIOUS
<1> HIDE DEF new, w, v, l
<1>7. ASSUME NEW j \in 0 .. s.depth - 1
      PROVE  /\ t.levels[j].end = s.levels[j].end
             /\ t.levels[j].scope = s.levels[j].scope
             /\ \A k \in 0 .. s.levels[j].end - 1 :
                   t.levels[j].scopes[k] =
                      s.levels[j].scopes[k] \cup
                         (IF j = l /\ k = s.levels[j].scope THEN {new} ELSE {})
  <2>1. CASE j = l
    <3>1. t.levels[j] = w /\ s.levels[j] = v
      BY <1>1, <1>6, <2>1
    <3>2. \A k \in 0 .. v.end - 1 :
             w.scopes[k] = v.scopes[k] \cup (IF j = l /\ k = v.scope THEN {new} ELSE {})
      BY <1>5, <2>1
    <3> QED
      BY <1>4, <3>1, <3>2
  <2>2. CASE j # l
    BY <1>1, <2>2
  <2> QED  BY <2>1, <2>2
<1> QED
  BY <1>1, <1>3, <1>6, <1>7 DEF new, l

-----------------------------------------------------------------------------
(* A table of the build and the tables after it. *)

\* A table in which every item is numbered has all its items.
LEMMA GrowsItself ==
    ASSUME NEW s, SymbolsOK(s), Numbered(s)
    PROVE  Grows(s, s)
<1>1. ASSUME NEW l \in 0 .. s.depth - 1
      PROVE  s.levels[l].end <= s.levels[l].end
  BY QueueTypes
<1>2. ASSUME NEW l \in 0 .. s.depth - 1, NEW k \in 0 .. s.levels[l].end - 1
      PROVE  s.levels[l].scopes[k] = {item \in s.levels[l].scopes[k] : item.id < s.count}
  BY DEF Numbered
<1>3. s.depth \in Nat /\ s.count \in Nat
  BY DEF SymbolsOK
<1> QED
  BY <1>1, <1>2, <1>3 DEF Grows

\* What a scope links is told from any later table.
LEMMA GrowsTransitive ==
    ASSUME NEW a, NEW b, NEW c, SymbolsOK(a), SymbolsOK(b), SymbolsOK(c),
           Grows(a, b), Grows(b, c)
    PROVE  Grows(a, c)
<1>1. /\ a.depth \in Nat /\ b.depth \in Nat /\ c.depth \in Nat
      /\ a.count \in Nat /\ b.count \in Nat /\ c.count \in Nat
      /\ a.depth <= b.depth /\ b.depth <= c.depth
      /\ a.count <= b.count /\ b.count <= c.count
  BY DEF SymbolsOK, Grows
<1>2. ASSUME NEW l \in 0 .. a.depth - 1
      PROVE  /\ a.levels[l].end <= c.levels[l].end
             /\ \A k \in 0 .. a.levels[l].end - 1 :
                   a.levels[l].scopes[k] =
                       {item \in c.levels[l].scopes[k] : item.id < a.count}
  <2>1. l \in 0 .. b.depth - 1 /\ l \in 0 .. c.depth - 1
    BY <1>1
  <2>2. /\ a.levels[l].end \in Nat /\ b.levels[l].end \in Nat /\ c.levels[l].end \in Nat
        /\ a.levels[l].end <= b.levels[l].end /\ b.levels[l].end <= c.levels[l].end
    BY <2>1, QueueTypes DEF Grows
  <2>3. ASSUME NEW k \in 0 .. a.levels[l].end - 1
        PROVE  a.levels[l].scopes[k] =
                   {item \in c.levels[l].scopes[k] : item.id < a.count}
    <3>1. k \in 0 .. b.levels[l].end - 1 /\ k \in 0 .. c.levels[l].end - 1
      BY <2>2
    <3>2. a.levels[l].scopes[k] = {item \in b.levels[l].scopes[k] : item.id < a.count}
      BY DEF Grows
    <3>3. b.levels[l].scopes[k] = {item \in c.levels[l].scopes[k] : item.id < b.count}
      BY <2>1, <3>1 DEF Grows
    <3>4. \A item \in c.levels[l].scopes[k] : item.id \in Nat
      BY <2>1, <3>1, ScopeTypes
    <3>5. \A item \in c.levels[l].scopes[k] : item.id < a.count => item.id < b.count
      BY <1>1, <3>4
    <3> QED
      BY <3>2, <3>3, <3>5
  <2> QED
    BY <2>2, <2>3
<1> QED
  BY <1>1, <1>2 DEF Grows

\* symbols_indent leaves every item where it was.
LEMMA IndentGrows ==
    ASSUME NEW s, SymbolsOK(s), BuildQueues(s), Numbered(s)
    PROVE  Numbered(symbols_indent(s)) /\ Grows(s, symbols_indent(s))
<1> DEFINE t == symbols_indent(s)
           l == s.level + 1
<1>1. /\ t.count = s.count /\ s.depth <= t.depth /\ t.depth \in Nat
      /\ l \in 1 .. t.depth - 1
      /\ t.levels[l].end \in Nat \ {0}
      /\ t.levels[l].scopes[t.levels[l].end - 1] = {}
      /\ \A j \in 0 .. s.depth - 1 :
            /\ t.levels[j].end = s.levels[j].end + (IF j = l THEN 1 ELSE 0)
            /\ \A k \in 0 .. s.levels[j].end - 1 :
                  t.levels[j].scopes[k] = s.levels[j].scopes[k]
      /\ \A j \in s.depth .. t.depth - 1 : j = l /\ t.levels[j].end = 1
  BY IndentScopes
<1>2. s.depth \in Nat /\ s.count \in Nat
  BY DEF SymbolsOK
<1> HIDE DEF t, l
<1>3. ASSUME NEW j \in 0 .. t.depth - 1, NEW k \in 0 .. t.levels[j].end - 1
      PROVE  \/ /\ j \in 0 .. s.depth - 1 /\ k \in 0 .. s.levels[j].end - 1
                /\ t.levels[j].scopes[k] = s.levels[j].scopes[k]
             \/ t.levels[j].scopes[k] = {}
  <2>1. CASE j \in 0 .. s.depth - 1
    <3>1. s.levels[j].end \in Nat
      BY <2>1, QueueTypes
    <3>2. t.levels[j].end = s.levels[j].end + (IF j = l THEN 1 ELSE 0)
      BY <1>1, <2>1
    <3>3. CASE k < s.levels[j].end
      BY <1>1, <2>1, <3>1, <3>3
    <3>4. CASE ~(k < s.levels[j].end)
      <4>1. j = l /\ k = t.levels[l].end - 1
        BY <3>1, <3>2, <3>4
      <4> QED
        BY <1>1, <4>1
    <3> QED  BY <3>3, <3>4
  <2>2. CASE j \notin 0 .. s.depth - 1
    <3>1. j = l /\ t.levels[j].end = 1
      BY <1>1, <1>2, <2>2
    <3>2. k = t.levels[l].end - 1
      BY <3>1
    <3> QED
      BY <1>1, <3>1, <3>2
  <2> QED  BY <2>1, <2>2
<1>4. Numbered(t)
  <2> SUFFICES ASSUME NEW j \in 0 .. t.depth - 1, NEW k \in 0 .. t.levels[j].end - 1,
                      NEW item \in t.levels[j].scopes[k]
               PROVE  item.id < t.count
    BY DEF Numbered
  <2>1. j \in 0 .. s.depth - 1 /\ k \in 0 .. s.levels[j].end - 1
        /\ item \in s.levels[j].scopes[k]
    BY <1>3
  <2> QED
    BY <1>1, <2>1 DEF Numbered
<1>5. Grows(s, t)
  <2>1. ASSUME NEW j \in 0 .. s.depth - 1
        PROVE  /\ s.levels[j].end <= t.levels[j].end
               /\ \A k \in 0 .. s.levels[j].end - 1 :
                     s.levels[j].scopes[k] =
                         {item \in t.levels[j].scopes[k] : item.id < s.count}
    <3>1. s.levels[j].end \in Nat
      BY QueueTypes
    <3>2. ASSUME NEW k \in 0 .. s.levels[j].end - 1
          PROVE  s.levels[j].scopes[k] =
                     {item \in t.levels[j].scopes[k] : item.id < s.count}
      BY <1>1 DEF Numbered
    <3> QED
      BY <1>1, <3>1, <3>2
  <2> QED
    BY <1>1, <1>2, <2>1 DEF Grows
<1> QED
  BY <1>4, <1>5 DEF t

\* symbols_add numbers its item after all the others.
LEMMA AddGrows ==
    ASSUME NEW s, SymbolsOK(s), BuildQueues(s), NEW key, NEW tag, Numbered(s)
    PROVE  LET t == symbols_add(s, key, tag)
           IN  Numbered(t) /\ Grows(s, t)
<1> DEFINE t == symbols_add(s, key, tag)
           new == NewItem(s, key, tag)
<1>1. /\ t.count = s.count + 1 /\ t.depth = s.depth /\ new.id = s.count
      /\ \A j \in 0 .. s.depth - 1 :
            /\ t.levels[j].end = s.levels[j].end
            /\ \A k \in 0 .. s.levels[j].end - 1 :
                  t.levels[j].scopes[k] =
                     s.levels[j].scopes[k] \cup
                        (IF j = s.level /\ k = s.levels[j].scope THEN {new} ELSE {})
  BY AddScopes
<1>2. s.depth \in Nat /\ s.count \in Nat
  BY DEF SymbolsOK
<1> HIDE DEF t, new
<1>3. ASSUME NEW j \in 0 .. s.depth - 1, NEW k \in 0 .. s.levels[j].end - 1
      PROVE  /\ \A item \in t.levels[j].scopes[k] : item.id < t.count
             /\ s.levels[j].scopes[k] =
                    {item \in t.levels[j].scopes[k] : item.id < s.count}
  <2>1. \A item \in s.levels[j].scopes[k] : item.id \in Nat /\ item.id < s.count
    BY ScopeTypes DEF Numbered
  <2>2. t.levels[j].scopes[k] = s.levels[j].scopes[k] \cup
           (IF j = s.level /\ k = s.levels[j].scope THEN {new} ELSE {})
    BY <1>1
  <2>3. \A item : item \in t.levels[j].scopes[k] =>
                      item \in s.levels[j].scopes[k] \/ item = new
    BY <2>2
  <2>4. \A item \in s.levels[j].scopes[k] : item \in t.levels[j].scopes[k]
    BY <2>2
  <2> QED
    BY <1>1, <1>2, <2>1, <2>3, <2>4
<1>4. ASSUME NEW j \in 0 .. s.depth - 1
      PROVE  s.levels[j].end <= t.levels[j].end
  BY <1>1, QueueTypes
<1>5. \A j \in 0 .. s.depth - 1 : t.levels[j].end = s.levels[j].end
  BY <1>1
<1>6. Numbered(t)
  BY <1>1, <1>3, <1>5 DEF Numbered
<1>7. Grows(s, t)
  BY <1>1, <1>2, <1>3, <1>4 DEF Grows
<1> QED
  BY <1>6, <1>7 DEF t

\* symbols_leave moves no item.
LEMMA LeaveGrows ==
    ASSUME NEW s, SymbolsOK(s), Numbered(s)
    PROVE  Numbered(symbols_leave(s)) /\ Grows(s, symbols_leave(s))
<1> DEFINE t == symbols_leave(s)
<1>1. t.count = s.count /\ t.depth = s.depth /\ t.levels = s.levels
  BY SymbolsLeave DEF SymbolsOK
<1> HIDE DEF t
<1>2. Numbered(t)
  BY <1>1 DEF Numbered
<1>3. Grows(s, t)
  BY <1>1, GrowsItself DEF Grows
<1> QED
  BY <1>2, <1>3 DEF t

-----------------------------------------------------------------------------
(* What is visible. *)

\* The symbols in view are those of the open scopes, one on each level.
LEMMA VisibleIsOpen ==
    ASSUME NEW s, SymbolsOK(s), CoherentTable(s),
           \A l \in 0 .. s.level :
              /\ l \in 0 .. s.depth - 1
              /\ s.levels[l].scope \in s.levels[l].begin .. s.levels[l].end - 1
    PROVE  \A item : item \in Visible(s) <=>
                        \E l \in 0 .. s.level :
                           item \in s.levels[l].scopes[s.levels[l].scope]
<1>1. ASSUME NEW item \in Visible(s)
      PROVE  \E l \in 0 .. s.level : item \in s.levels[l].scopes[s.levels[l].scope]
  <2>1. item \in s.table /\ symbols_saw(s, item)
    BY DEF Visible
  <2>2. PICK l \in 0 .. s.depth - 1 :
           \E k \in s.levels[l].begin .. s.levels[l].end - 1 : item \in s.levels[l].scopes[k]
    BY <2>1 DEF CoherentTable, Held
  <2>3. PICK k \in s.levels[l].begin .. s.levels[l].end - 1 : item \in s.levels[l].scopes[k]
    BY <2>2
  <2>4. k \in 0 .. s.levels[l].end - 1
    BY QueueTypes
  <2>5. item.level = l /\ item.scope = k
    BY <2>3, <2>4 DEF CoherentTable, Stamped
  <2>6. s.level >= l /\ s.levels[l].scope = k
    BY <2>1, <2>5 DEF symbols_saw
  <2>7. l \in 0 .. s.level
    BY <2>6 DEF SymbolsOK
  <2> QED
    BY <2>3, <2>6, <2>7
<1>2. ASSUME NEW item, NEW l \in 0 .. s.level,
             item \in s.levels[l].scopes[s.levels[l].scope]
      PROVE  item \in Visible(s)
  <2>1. /\ l \in 0 .. s.depth - 1
        /\ s.levels[l].scope \in s.levels[l].begin .. s.levels[l].end - 1
        /\ s.levels[l].scope \in 0 .. s.levels[l].end - 1
    BY QueueTypes
  <2>2. item \in s.table
    BY <1>2, <2>1 DEF CoherentTable, Held
  <2>3. item.level = l /\ item.scope = s.levels[l].scope
    BY <1>2, <2>1 DEF CoherentTable, Stamped
  <2>4. s.level >= l
    BY DEF SymbolsOK
  <2> QED
    BY <2>2, <2>3, <2>4 DEF Visible, symbols_saw
<1> QED
  BY <1>1, <1>2

\* An open scope of the visit links what the build knew of it, and what it added later.
LEMMA OpenScopeLinks ==
    ASSUME NEW s, NEW t, NEW f, Together(s, t, f), Grows(t, f), NEW l \in 0 .. s.level
    PROVE  /\ l \in 0 .. s.depth - 1 /\ l \in 0 .. t.depth - 1
           /\ s.levels[l].scope \in s.levels[l].begin .. s.levels[l].end - 1
           /\ t.levels[l].scope \in t.levels[l].begin .. t.levels[l].end - 1
           /\ s.levels[l].scope = t.levels[l].scope
           /\ s.levels[l].scopes = f.levels[l].scopes
           /\ t.levels[l].scopes[t.levels[l].scope] =
                 {item \in s.levels[l].scopes[s.levels[l].scope] : item.id < t.count}
<1>1. /\ l \in 0 .. s.depth - 1 /\ l \in 0 .. t.depth - 1
      /\ s.levels[l].begin < s.levels[l].end
      /\ s.levels[l].scope = s.levels[l].begin
      /\ s.levels[l].begin = t.levels[l].end - 1
      /\ t.levels[l].scope = t.levels[l].end - 1
  BY OpenScopes
<1>2. /\ s.levels[l].end \in Nat /\ s.levels[l].begin \in Nat
      /\ t.levels[l].end \in Nat \ {0} /\ t.levels[l].begin = 0
  BY <1>1, QueueTypes DEF Together, BuildQueues
<1>3. s.levels[l].scopes = f.levels[l].scopes
  BY <1>1 DEF Together, Matches
<1>4. t.levels[l].scopes[t.levels[l].scope] =
         {item \in f.levels[l].scopes[t.levels[l].scope] : item.id < t.count}
  <2>1. t.levels[l].scope \in 0 .. t.levels[l].end - 1
    BY <1>1, <1>2
  <2> QED
    BY <1>1, <2>1 DEF Grows
<1> QED
  BY <1>1, <1>2, <1>3, <1>4
=============================================================================
