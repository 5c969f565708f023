-------------------------- MODULE HashtableProofs --------------------------
(***************************************************************************)
(* Theorems about Hashtable, for every set of keys, every hash function    *)
(* and every number of buckets and items.                                  *)
(*                                                                         *)
(* The argument: the head of a bucket is its newest item, and the "next"   *)
(* of an item is the newest of the older items of its bucket ("Linked").   *)
(* That needs no chain to be stated, and every operation keeps it; since   *)
(* it makes every "next" older than its item, the chains exist, end, and   *)
(* are the items of the bucket from one item on, the newest first.         *)
(***************************************************************************)
EXTENDS Hashtable, TLAPS, WellFoundedInduction

IsNewest(p, items) == \/ p = Null /\ items = {}
                      \/ p \in items /\ \A q \in items : q <= p

InBucket(h, b) == {p \in DOMAIN h : h[p].hash = b}

\* The items of the bucket of p, from p on.
Reach(h, p) == IF p = Null THEN {} ELSE {q \in InBucket(h, h[p].hash) : q <= p}

\* A heap with at most n items, each of which leads to the next older one.
HeapOK(h, n) ==
    /\ n \in Nat /\ DOMAIN h \subseteq 1 .. n
    /\ \A p \in DOMAIN h :
          /\ h[p].key \in Key /\ h[p].hash \in Bucket
          /\ IsNewest(h[p].next, {q \in InBucket(h, h[p].hash) : q < p})

\* Chain, for any heap.
ChainIn(h, p) ==
    LET from[q \in DOMAIN h \cup {Null}] ==
            IF q = Null THEN <<>> ELSE <<q>> \o from[h[q].next]
    IN  from[p]

LEMMA ChainIsIn == \A p : Chain(p) = ChainIn(heap, p)
BY DEF Chain, ChainIn
-----------------------------------------------------------------------------
(* Chains. *)

\* A set of naturals with an element has a least one.
LEMMA Least ==
    ASSUME NEW S \in SUBSET Nat, S # {}
    PROVE  \E m \in S : \A k \in S : m <= k
<1> DEFINE R == {ss \in Nat \X Nat : ss[1] < ss[2]}
<1>1. IsWellFoundedOn(R, Nat)
  BY NatLessThanWellFounded, Zenon DEF OpToRel
<1>2. PICK m \in S : \A u \in S : ~(<<u, m>> \in R)
  <2> HIDE DEF R
  <2> QED  BY <1>1, WFMin
<1>3. ASSUME NEW k \in S
      PROVE  m <= k
  <2>1. ~(k < m)
    BY <1>2
  <2> QED
    BY <2>1
<1> QED
  BY <1>3

\* Induction, for a set.
LEMMA SetInduction ==
    ASSUME NEW G, 0 \in G, \A n \in Nat : n \in G => n + 1 \in G
    PROVE  Nat \subseteq G
<1> DEFINE T == {n \in Nat : n \notin G}
<1>1. SUFFICES ASSUME T # {} PROVE FALSE
  OBVIOUS
<1>2. PICK m \in T : \A k \in T : m <= k
  <2>1. T \in SUBSET Nat
    OBVIOUS
  <2> HIDE DEF T
  <2> QED  BY <1>1, <2>1, Least
<1>3. m \in Nat /\ m # 0
  OBVIOUS
<1>4. m - 1 \in Nat /\ ~(m <= m - 1)
  BY <1>3
<1>5. m - 1 \in G
  BY <1>2, <1>4
<1>6. (m - 1) + 1 \in G
  BY <1>4, <1>5
<1> QED
  BY <1>3, <1>6

\* Where an item leads is an older item, or nowhere.
LEMMA NextOlder ==
    ASSUME NEW h, NEW n, HeapOK(h, n), NEW p \in DOMAIN h
    PROVE  /\ p \in Nat \ {0} /\ p # Null
           /\ h[p].next # Null => /\ h[p].next \in DOMAIN h /\ h[p].next < p
                                  /\ h[h[p].next].hash = h[p].hash
BY HashtableAssumption DEF HeapOK, IsNewest, InBucket

\* So the chains exist ...
LEMMA ChainExists ==
    ASSUME NEW h, NEW n, HeapOK(h, n)
    PROVE  \E f : f = [q \in DOMAIN h \cup {Null} |->
                          IF q = Null THEN <<>> ELSE <<q>> \o f[h[q].next]]
<1> DEFINE D(k) == {q \in DOMAIN h : q <= k} \cup {Null}
           G == {k \in Nat : \E f : \A q \in D(k) :
                    f[q] = IF q = Null THEN <<>> ELSE <<q>> \o f[h[q].next]}
<1>1. ASSUME NEW k \in Nat, NEW q \in D(k), q # Null
      PROVE  /\ q \in DOMAIN h /\ q \in Nat /\ q <= k
             /\ h[q].next \in D(k)
             /\ q \notin D(k - 1) => q = k
             /\ k # 0 => h[q].next \in D(k - 1)
  <2>1. q \in DOMAIN h /\ q <= k /\ q \in Nat
    BY <1>1, NextOlder
  <2>2. h[q].next = Null \/ (h[q].next \in DOMAIN h /\ h[q].next < q)
    BY <2>1, NextOlder
  <2>3. CASE h[q].next = Null
    BY <1>1, <2>1, <2>3
  <2>4. CASE h[q].next \in DOMAIN h /\ h[q].next < q
    <3>1. h[q].next \in Nat
      BY <2>4, NextOlder
    <3> QED
      BY <1>1, <2>1, <2>4, <3>1
  <2> QED
    BY <2>2, <2>3, <2>4
<1>2. 0 \in G
  <2> DEFINE f == [q \in {Null} |-> <<>>]
  <2>1. \A q \in D(0) : q = Null
    BY <1>1, NextOlder
  <2>2. \A q \in D(0) : f[q] = IF q = Null THEN <<>> ELSE <<q>> \o f[h[q].next]
    BY <2>1
  <2> HIDE DEF f, D
  <2> QED
    BY <2>2
<1>3. ASSUME NEW k \in Nat, k \in G
      PROVE  k + 1 \in G
  <2>1. PICK f : \A q \in D(k) :
                    f[q] = IF q = Null THEN <<>> ELSE <<q>> \o f[h[q].next]
    BY <1>3
  <2> DEFINE g == [q \in D(k + 1) |-> IF q \in D(k) THEN f[q]
                                                    ELSE <<q>> \o f[h[q].next]]
  <2>2. k + 1 \in Nat /\ k + 1 # 0 /\ (k + 1) - 1 = k
    OBVIOUS
  <2>3. D(k) \subseteq D(k + 1) /\ Null \in D(k)
    <3>1. \A q \in DOMAIN h : q <= k => q <= k + 1
      BY NextOlder
    <3> QED
      BY <3>1
  <2> HIDE DEF D
  <2>4. \A q \in D(k + 1) : g[q] = IF q \in D(k) THEN f[q] ELSE <<q>> \o f[h[q].next]
    OBVIOUS
  <2> HIDE DEF g
  <2>5. ASSUME NEW q \in D(k + 1)
        PROVE  g[q] = IF q = Null THEN <<>> ELSE <<q>> \o g[h[q].next]
    <3>1. CASE q = Null
      <4>1. g[q] = f[q]
        BY <2>3, <2>4, <3>1
      <4>2. f[q] = <<>>
        BY <2>1, <2>3, <3>1
      <4> QED
        BY <3>1, <4>1, <4>2
    <3>2. CASE q # Null
      <4>1. h[q].next \in D(k) /\ h[q].next \in D(k + 1)
        BY <1>1, <2>2, <3>2
      <4>2. g[h[q].next] = f[h[q].next]
        BY <2>4, <4>1
      <4>3. g[q] = <<q>> \o f[h[q].next]
        <5>1. q \in D(k) => f[q] = <<q>> \o f[h[q].next]
          BY <2>1, <3>2
        <5> QED
          BY <2>4, <5>1
      <4>4. g[q] = <<q>> \o g[h[q].next]
        BY <4>2, <4>3, Zenon
      <4> QED
        BY <3>2, <4>4, Zenon
    <3> QED  BY <3>1, <3>2
  <2> QED
    BY <2>2, <2>5
<1>4. n \in G
  <2>1. n \in Nat
    BY DEF HeapOK
  <2> HIDE DEF G
  <2> QED
    BY <1>2, <1>3, <2>1, SetInduction
<1>5. PICK f : \A q \in D(n) :
                  f[q] = IF q = Null THEN <<>> ELSE <<q>> \o f[h[q].next]
  BY <1>4
<1>6. D(n) = DOMAIN h \cup {Null}
  BY DEF HeapOK
<1> HIDE DEF D
<1> DEFINE F == [q \in DOMAIN h \cup {Null} |->
                    IF q = Null THEN <<>> ELSE <<q>> \o f[h[q].next]]
<1>7. ASSUME NEW q \in DOMAIN h \cup {Null}
      PROVE  F[q] = f[q]
  <2>1. F[q] = IF q = Null THEN <<>> ELSE <<q>> \o f[h[q].next]
    BY Zenon
  <2>2. f[q] = IF q = Null THEN <<>> ELSE <<q>> \o f[h[q].next]
    BY <1>5, <1>6, Zenon
  <2> QED
    BY <2>1, <2>2, Zenon
<1>8. \A q \in DOMAIN h : h[q].next \in DOMAIN h \cup {Null}
  BY NextOlder
<1>9. F = [q \in DOMAIN h \cup {Null} |->
              IF q = Null THEN <<>> ELSE <<q>> \o F[h[q].next]]
  <2>1. \A q \in DOMAIN h : F[h[q].next] = f[h[q].next]
    BY <1>7, <1>8
  <2> QED
    BY <2>1, Zenon
<1> HIDE DEF F
<1> QED
  BY <1>9

\* ... and are read off item by item.
LEMMA ChainSteps ==
    ASSUME NEW h, NEW n, HeapOK(h, n)
    PROVE  /\ ChainIn(h, Null) = <<>>
           /\ \A p \in DOMAIN h : ChainIn(h, p) = <<p>> \o ChainIn(h, h[p].next)
<1> DEFINE L == DOMAIN h \cup {Null}
           Solves(f) == f = [q \in L |->
                                IF q = Null THEN <<>> ELSE <<q>> \o f[h[q].next]]
           from == CHOOSE f : Solves(f)
<1>1. \E f : Solves(f)
  BY ChainExists
<1>2. Solves(from)
  <2> HIDE DEF Solves
  <2> QED  BY <1>1
<1>3. \A p : ChainIn(h, p) = from[p]
  BY DEF ChainIn
<1> HIDE DEF from
<1>4. \A q \in L : from[q] = IF q = Null THEN <<>> ELSE <<q>> \o from[h[q].next]
  BY <1>2
<1>5. \A p \in DOMAIN h : p # Null
  BY NextOlder
<1> QED
  BY <1>3, <1>4, <1>5

\* A chain holds the items of the bucket from its first one on, the newest first.
LEMMA ChainOrder ==
    ASSUME NEW h, NEW n, HeapOK(h, n), NEW p \in DOMAIN h \cup {Null}
    PROVE  LET c == ChainIn(h, p)
           IN  /\ c \in Seq(Nat)
               /\ Range(c) = Reach(h, p)
               /\ \A i, j \in DOMAIN c : i < j => c[i] > c[j]
<1> DEFINE Good(q) == LET c == ChainIn(h, q)
                      IN  /\ c \in Seq(Nat)
                          /\ Range(c) = Reach(h, q)
                          /\ \A i, j \in DOMAIN c : i < j => c[i] > c[j]
           G == {k \in Nat : \A q \in DOMAIN h : q <= k => Good(q)}
<1>1. Good(Null)
  <2>1. ChainIn(h, Null) = <<>>
    BY ChainSteps
  <2> QED
    BY <2>1 DEF Range, Reach
<1>2. ASSUME NEW q \in DOMAIN h, Good(h[q].next)
      PROVE  Good(q)
  <2> DEFINE r == h[q].next
             c == ChainIn(h, r)
             d == ChainIn(h, q)
  <2>1. d = <<q>> \o c
    BY ChainSteps
  <2>2. q \in Nat /\ q # Null
    BY NextOlder
  <2>3. /\ c \in Seq(Nat) /\ Range(c) = Reach(h, r)
        /\ \A i, j \in DOMAIN c : i < j => c[i] > c[j]
    BY <1>2
  <2>4. Reach(h, r) = {o \in InBucket(h, h[q].hash) : o < q}
    <3>1. IsNewest(r, {o \in InBucket(h, h[q].hash) : o < q})
      BY DEF HeapOK
    <3>2. CASE r = Null
      <4>1. Null \notin DOMAIN h
        BY NextOlder
      <4> QED
        BY <3>1, <3>2, <4>1 DEF IsNewest, Reach, InBucket
    <3>3. CASE r # Null
      <4>1. r \in DOMAIN h /\ r < q /\ r \in Nat /\ h[r].hash = h[q].hash
        BY <3>3, NextOlder
      <4>2. \A o \in InBucket(h, h[q].hash) : o < q => o <= r
        BY <3>1, <3>3 DEF IsNewest
      <4>3. \A o \in InBucket(h, h[q].hash) : o \in Nat
        BY NextOlder DEF InBucket
      <4>4. Reach(h, r) = {o \in InBucket(h, h[q].hash) : o <= r}
        BY <3>3, <4>1 DEF Reach
      <4> HIDE DEF r
      <4> QED
        BY <2>2, <4>1, <4>2, <4>3, <4>4
    <3> QED  BY <3>2, <3>3
  <2> HIDE DEF r, c, d
  <2>5. /\ d \in Seq(Nat) /\ Len(d) = Len(c) + 1 /\ Len(c) \in Nat /\ d[1] = q
        /\ \A i \in 1 .. Len(c) : d[i + 1] = c[i]
    BY <2>1, <2>2, <2>3
  <2>6. /\ DOMAIN c = 1 .. Len(c) /\ DOMAIN d = 1 .. Len(c) + 1
    BY <2>3, <2>5
  <2>7. \A i \in DOMAIN d : i = 1 \/ (i - 1 \in DOMAIN c /\ d[i] = c[i - 1])
    <3> TAKE i \in DOMAIN d
    <3>1. i # 1 => i - 1 \in 1 .. Len(c) /\ (i - 1) + 1 = i
      BY <2>5, <2>6
    <3> QED
      BY <2>5, <2>6, <3>1
  <2>8. \A i \in DOMAIN c : c[i] \in Nat /\ c[i] < q
    BY <2>3, <2>4 DEF Range
  <2>9. Range(d) = {q} \cup Range(c)
    <3>1. ASSUME NEW i \in DOMAIN d
          PROVE  d[i] \in {q} \cup Range(c)
      BY <2>5, <2>7 DEF Range
    <3>2. q \in Range(d)
      <4>1. 1 \in DOMAIN d
        BY <2>5, <2>6
      <4> QED
        BY <2>5, <4>1 DEF Range
    <3>3. ASSUME NEW i \in DOMAIN c
          PROVE  c[i] \in Range(d)
      <4>1. i + 1 \in DOMAIN d /\ d[i + 1] = c[i]
        BY <2>5, <2>6
      <4> QED
        BY <4>1 DEF Range
    <3> QED
      BY <3>1, <3>2, <3>3 DEF Range
  <2>10. Range(d) = Reach(h, q)
    <3>1. q \in InBucket(h, h[q].hash)
      BY DEF InBucket
    <3>2. \A o \in InBucket(h, h[q].hash) : o \in Nat
      BY NextOlder DEF InBucket
    <3>3. Reach(h, q) = {o \in InBucket(h, h[q].hash) : o <= q}
      BY <2>2 DEF Reach
    <3> QED
      BY <2>2, <2>3, <2>4, <2>9, <3>1, <3>2, <3>3
  <2>11. ASSUME NEW i \in DOMAIN d, NEW j \in DOMAIN d, i < j
         PROVE  d[i] > d[j]
    <3>1. j # 1 /\ j - 1 \in DOMAIN c /\ d[j] = c[j - 1]
      BY <2>5, <2>6, <2>7, <2>11
    <3>2. CASE i = 1
      BY <2>2, <2>5, <2>8, <3>1, <3>2
    <3>3. CASE i # 1
      <4>1. i - 1 \in DOMAIN c /\ d[i] = c[i - 1] /\ i - 1 < j - 1
        BY <2>5, <2>6, <2>7, <2>11, <3>3
      <4> QED
        BY <2>3, <3>1, <4>1
    <3> QED  BY <3>2, <3>3
  <2> QED
    BY <2>5, <2>10, <2>11 DEF d
<1> HIDE DEF Good
<1>3. \A q \in DOMAIN h : q \in Nat \ {0} /\ h[q].next \in DOMAIN h \cup {Null}
                          /\ (h[q].next # Null => h[q].next < q)
  BY NextOlder
<1>4. 0 \in G
  BY <1>3
<1>5. ASSUME NEW k \in Nat, k \in G
      PROVE  k + 1 \in G
  <2>1. ASSUME NEW q \in DOMAIN h, q <= k + 1
        PROVE  Good(q)
    <3>1. CASE h[q].next = Null
      BY <1>1, <1>2, <3>1
    <3>2. CASE h[q].next # Null
      <4>1. h[q].next \in DOMAIN h /\ h[q].next <= k
        BY <1>3, <2>1, <3>2
      <4>2. Good(h[q].next)
        BY <1>5, <4>1
      <4> QED
        BY <1>2, <4>2
    <3> QED  BY <3>1, <3>2
  <2> QED
    BY <2>1
<1>6. ASSUME NEW q \in DOMAIN h
      PROVE  Good(q)
  <2>1. q \in Nat /\ q <= q
    BY <1>3
  <2>2. q \in G
    <3> HIDE DEF G
    <3> QED
      BY <1>4, <1>5, <2>1, SetInduction
  <2> QED
    BY <2>1, <2>2
<1>7. Good(p)
  BY <1>1, <1>6
<1> QED
  BY <1>7 DEF Good

\* What a walk or a search finds is the newest item with its key, from where it is.
LEMMA MatchNewest ==
    ASSUME NEW n, HeapOK(heap, n), NEW p \in DOMAIN heap \cup {Null}, NEW key
    PROVE  IsNewest(Match(p, key), {q \in Reach(heap, p) : heap[q].key = key})
<1> DEFINE c == ChainIn(heap, p)
           I == {i \in 1 .. Len(c) : heap[c[i]].key = key}
           with == {q \in Reach(heap, p) : heap[q].key = key}
           i == IF I # {} THEN Min(I) ELSE 0
<1>1. /\ c \in Seq(Nat) /\ Range(c) = Reach(heap, p)
      /\ \A a, b \in DOMAIN c : a < b => c[a] > c[b]
  BY ChainOrder
<1>2. Match(p, key) = IF i = 0 THEN Null ELSE c[i]
  BY ChainIsIn DEF Match, SelectInSeq
<1> HIDE DEF c
<1>3. DOMAIN c = 1 .. Len(c) /\ Len(c) \in Nat
  BY <1>1
<1>4. \A q : q \in with <=> \E a \in I : q = c[a]
  BY <1>1, <1>3 DEF Range
<1>5. CASE I = {}
  BY <1>2, <1>4, <1>5 DEF IsNewest
<1>6. CASE I # {}
  <2>1. PICK m \in I : \A k \in I : m <= k
    <3>1. I \in SUBSET Nat
      BY <1>3
    <3> HIDE DEF I
    <3> QED  BY <1>6, <3>1, Least
  <2>2. i \in I /\ \A k \in I : i <= k
    <3> HIDE DEF I
    <3> QED  BY <1>6, <2>1 DEF Min
  <2> HIDE DEF i
  <2>3. i # 0 /\ i \in 1 .. Len(c) /\ I \subseteq 1 .. Len(c)
    BY <1>3, <2>2
  <2>4. c[i] \in with
    BY <1>4, <2>2
  <2>5. \A q \in with : q <= c[i]
    <3> SUFFICES ASSUME NEW a \in I PROVE c[a] <= c[i]
      BY <1>4
    <3>1. i <= a /\ a \in DOMAIN c /\ i \in DOMAIN c /\ c[i] \in Nat /\ c[a] \in Nat
      BY <1>1, <1>3, <2>2, <2>3
    <3>2. CASE i = a
      BY <3>1, <3>2
    <3>3. CASE i < a
      BY <1>1, <3>1, <3>3
    <3> QED
      BY <1>3, <3>1, <3>2, <3>3
  <2> QED
    BY <1>2, <2>3, <2>4, <2>5 DEF IsNewest
<1> QED  BY <1>5, <1>6

-----------------------------------------------------------------------------
(* The inductive invariant. *)

Live == DOMAIN heap \cup {Null}

Linked == /\ HeapOK(heap, count)
          /\ \A p \in DOMAIN heap : heap[p].hash = hash[heap[p].key]
          /\ \A b \in Bucket : IsNewest(data[b], InBucket(heap, b))
          /\ view.begin # Null => heap[view.begin].hash = hash[view.key]

HInv == /\ hash \in [Key -> Bucket]
        /\ data \in [Bucket -> Live]
        /\ count \in Nat
        /\ heap \in [DOMAIN heap -> [key : Key, hash : Bucket, next : Live]]
        /\ view \in [key : Key, begin : Live] \cup {NoView}
        /\ found \in Live
        /\ Linked

\* Null is neither an item nor a key.
LEMMA NullApart ==
    ASSUME HInv
    PROVE  /\ DOMAIN heap \subseteq Nat \ {0} /\ Null \notin DOMAIN heap
           /\ Null \notin Key /\ Null \notin Nat
BY HashtableAssumption DEF HInv, Linked, HeapOK

\* Without its newest item, or without another one, a set has the newest item it had
\* or the next older one.
LEMMA NewestLeft ==
    ASSUME NEW items \in SUBSET Nat, NEW p \in Nat, NEW x, NEW y, IsNewest(x, items),
           p \in items => IsNewest(y, {q \in items : q < p})
    PROVE  IsNewest(IF x = p THEN y ELSE x, items \ {p})
<1>1. Null \notin Nat
  BY HashtableAssumption
<1>2. CASE x = p
  <2>1. p \in items /\ \A q \in items : q <= p
    BY <1>1, <1>2 DEF IsNewest
  <2>2. \A q \in items : q \in Nat /\ (q # p <=> q < p)
    BY <2>1
  <2>3. items \ {p} = {q \in items : q < p}
    BY <2>2
  <2> QED
    BY <1>2, <2>1, <2>3
<1>3. CASE x # p
  BY <1>3 DEF IsNewest
<1> QED  BY <1>2, <1>3

\* An empty table is linked.
LEMMA InitHInv == Init => HInv
<1> SUFFICES ASSUME Init PROVE HInv
  OBVIOUS
<1>1. /\ hash \in [Key -> Bucket] /\ data = [b \in Bucket |-> Null]
      /\ heap = [p \in {} |-> Null] /\ count = 0 /\ view = NoView /\ found = Null
  BY DEF Init
<1>2. DOMAIN heap = {} /\ Live = {Null} /\ view.begin = Null
  BY <1>1 DEF Live, NoView
<1>3. \A b \in Bucket : data[b] = Null /\ InBucket(heap, b) = {}
  BY <1>1, <1>2 DEF InBucket
<1>4. Linked
  BY <1>1, <1>2, <1>3 DEF Linked, HeapOK, IsNewest
<1>5. heap \in [DOMAIN heap -> [key : Key, hash : Bucket, next : Live]]
  BY <1>1
<1> QED
  BY <1>1, <1>2, <1>4, <1>5 DEF HInv

\* A new item is the newest of its bucket, and leads to the one that was.
LEMMA InsertLinks ==
    ASSUME HInv, NEW key \in Key, Insert(key)
    PROVE  HInv'
<1> DEFINE n == count + 1
           b == hash[key]
<1>1. /\ hash' = hash /\ view' = view /\ view = NoView /\ count' = n /\ found' = Null
      /\ heap' = [p \in DOMAIN heap \cup {n} |-> IF p = n THEN NewItem(key) ELSE heap[p]]
      /\ data' = [data EXCEPT ![b] = n]
  BY DEF Insert
<1>2. /\ hash \in [Key -> Bucket] /\ data \in [Bucket -> Live] /\ count \in Nat
      /\ n \in Nat /\ b \in Bucket /\ DOMAIN heap \subseteq 1 .. count
      /\ n \notin DOMAIN heap
      /\ heap \in [DOMAIN heap -> [key : Key, hash : Bucket, next : Live]]
  BY DEF HInv, Linked, HeapOK
<1>3. /\ NewItem(key).key = key /\ NewItem(key).hash = b
      /\ NewItem(key).next = data[b]
      /\ NewItem(key) = [key |-> key, hash |-> b, next |-> data[b]]
  BY DEF NewItem
<1>4. DOMAIN heap' = DOMAIN heap \cup {n} /\ Live' = Live \cup {n}
  BY <1>1 DEF Live
<1>5. /\ heap'[n] = NewItem(key) /\ \A p \in DOMAIN heap : heap'[p] = heap[p]
  BY <1>1, <1>2
<1> HIDE DEF n, b
<1>6. ASSUME NEW c
      PROVE  InBucket(heap', c) = InBucket(heap, c) \cup (IF c = b THEN {n} ELSE {})
  BY <1>3, <1>4, <1>5 DEF InBucket
<1>7. \A c : \A q \in InBucket(heap, c) : q \in Nat /\ q < n /\ q <= n
  BY <1>2 DEF InBucket, n
<1>8. IsNewest(heap'[n].next, {q \in InBucket(heap', heap'[n].hash) : q < n})
  <2>1. {q \in InBucket(heap', b) : q < n} = InBucket(heap, b)
    BY <1>2, <1>6, <1>7
  <2>2. IsNewest(data[b], InBucket(heap, b))
    BY <1>2 DEF HInv, Linked
  <2> QED
    BY <1>3, <1>5, <2>1, <2>2
<1>9. ASSUME NEW p \in DOMAIN heap
      PROVE  IsNewest(heap'[p].next, {q \in InBucket(heap', heap'[p].hash) : q < p})
  <2>1. p \in Nat /\ p < n /\ ~(n < p)
    BY <1>2 DEF n
  <2>2. {q \in InBucket(heap', heap[p].hash) : q < p}
           = {q \in InBucket(heap, heap[p].hash) : q < p}
    BY <1>6, <2>1
  <2>3. IsNewest(heap[p].next, {q \in InBucket(heap, heap[p].hash) : q < p})
    BY DEF HInv, Linked, HeapOK
  <2> QED
    BY <1>5, <2>2, <2>3
<1>10. HeapOK(heap', count')
  <2>1. DOMAIN heap' \subseteq 1 .. n
    BY <1>2, <1>4 DEF n
  <2>2. ASSUME NEW p \in DOMAIN heap'
        PROVE  heap'[p].key \in Key /\ heap'[p].hash \in Bucket
    BY <1>2, <1>3, <1>4, <1>5
  <2>3. ASSUME NEW p \in DOMAIN heap'
        PROVE  IsNewest(heap'[p].next, {q \in InBucket(heap', heap'[p].hash) : q < p})
    BY <1>4, <1>8, <1>9
  <2> QED
    BY <1>1, <1>2, <2>1, <2>2, <2>3 DEF HeapOK
<1>11. ASSUME NEW c \in Bucket
       PROVE  IsNewest(data'[c], InBucket(heap', c))
  <2>1. CASE c = b
    <3>1. data'[c] = n
      BY <1>1, <1>2, <2>1
    <3>2. n <= n
      BY <1>2
    <3> QED
      BY <1>6, <1>7, <2>1, <3>1, <3>2 DEF IsNewest
  <2>2. CASE c # b
    <3>1. data'[c] = data[c] /\ InBucket(heap', c) = InBucket(heap, c)
      BY <1>1, <1>2, <1>6, <2>2
    <3> QED
      BY <3>1 DEF HInv, Linked
  <2> QED  BY <2>1, <2>2
<1>12. Linked'
  <2>1. \A p \in DOMAIN heap' : heap'[p].hash = hash[heap'[p].key]
    BY <1>3, <1>4, <1>5 DEF HInv, Linked, b
  <2>2. view'.begin = Null
    BY <1>1 DEF NoView
  <2> QED
    BY <1>1, <1>10, <1>11, <2>1, <2>2 DEF Linked
<1>13. /\ data' \in [Bucket -> Live'] /\ found' \in Live'
       /\ heap' \in [DOMAIN heap' -> [key : Key, hash : Bucket, next : Live']]
  <2>1. data' \in [Bucket -> Live'] /\ found' \in Live'
    BY <1>1, <1>2, <1>4 DEF Live
  <2>2. NewItem(key) \in [key : Key, hash : Bucket, next : Live']
    BY <1>2, <1>3, <1>4
  <2>3. \A p \in DOMAIN heap : heap[p] \in [key : Key, hash : Bucket, next : Live']
    BY <1>2, <1>4
  <2>4. \A p \in DOMAIN heap' : heap'[p] \in [key : Key, hash : Bucket, next : Live']
    BY <1>4, <1>5, <2>2, <2>3
  <2>5. heap' = [p \in DOMAIN heap' |-> heap'[p]]
    BY <1>1, <1>4
  <2> QED
    BY <2>1, <2>4, <2>5
<1> QED
  BY <1>1, <1>2, <1>12, <1>13, NullApart DEF HInv, NoView

\* The links skip an item that is unlinked, and no other.
LEMMA UnlinkLinks ==
    ASSUME HInv, NEW p \in DOMAIN heap, Unlink(p)
    PROVE  HInv'
<1> DEFINE y == heap[p].next
           b == heap[p].hash
<1>1. /\ hash' = hash /\ view' = view /\ view = NoView /\ count' = count
      /\ found' = Null
      /\ data' = [c \in Bucket |-> IF c = b /\ data[c] = p THEN y ELSE data[c]]
      /\ heap' = [q \in DOMAIN heap \ {p} |->
                     [heap[q] EXCEPT !.next = IF @ = p THEN y ELSE @]]
  BY DEF Unlink, After
<1>2. /\ hash \in [Key -> Bucket] /\ data \in [Bucket -> Live] /\ count \in Nat
      /\ DOMAIN heap \subseteq 1 .. count
      /\ heap \in [DOMAIN heap -> [key : Key, hash : Bucket, next : Live]]
  BY DEF HInv, Linked, HeapOK
<1>3. p \in Nat /\ p # Null
  BY NullApart
<1>4. DOMAIN heap' = DOMAIN heap \ {p} /\ Live' = Live \ {p}
  BY <1>1, <1>3 DEF Live
<1>5. ASSUME NEW q \in DOMAIN heap'
      PROVE  /\ q \in DOMAIN heap /\ q # p
             /\ heap'[q].key = heap[q].key /\ heap'[q].hash = heap[q].hash
             /\ heap'[q].next = IF heap[q].next = p THEN y ELSE heap[q].next
             /\ heap'[q] \in [key : Key, hash : Bucket, next : Live']
  <2>1. q \in DOMAIN heap /\ q # p
    BY <1>4
  <2>2. heap'[q] = [heap[q] EXCEPT !.next = IF @ = p THEN y ELSE @]
    BY <1>1, <2>1
  <2>3. heap[q] \in [key : Key, hash : Bucket, next : Live] /\ y \in Live
    BY <1>2, <2>1
  <2>4. y # p
    BY <1>3, NextOlder DEF HInv, Linked
  <2> QED
    BY <1>4, <2>1, <2>2, <2>3, <2>4
<1> HIDE DEF y, b
<1>6. \A c : InBucket(heap', c) = InBucket(heap, c) \ {p}
  BY <1>4, <1>5 DEF InBucket
<1>7. \A c : InBucket(heap, c) \subseteq Nat
  BY <1>2 DEF InBucket
<1>8. IsNewest(y, {q \in InBucket(heap, b) : q < p})
  BY DEF HInv, Linked, HeapOK, y, b
<1>9. ASSUME NEW q \in DOMAIN heap'
      PROVE  IsNewest(heap'[q].next, {r \in InBucket(heap', heap'[q].hash) : r < q})
  <2> DEFINE items == {r \in InBucket(heap, heap[q].hash) : r < q}
  <2>1. IsNewest(heap[q].next, items)
    BY <1>5 DEF HInv, Linked, HeapOK
  <2>2. items \in SUBSET Nat
    BY <1>7
  <2>3. p \in items => IsNewest(y, {r \in items : r < p})
    <3> SUFFICES ASSUME p \in items PROVE IsNewest(y, {r \in items : r < p})
      OBVIOUS
    <3>1. heap[q].hash = b /\ p < q
      BY DEF InBucket, b
    <3>2. q \in Nat
      BY <1>2, <1>5
    <3>3. {r \in items : r < p} = {r \in InBucket(heap, b) : r < p}
      BY <1>3, <1>7, <3>1, <3>2
    <3> QED
      BY <1>8, <3>3
  <2>4. {r \in InBucket(heap', heap'[q].hash) : r < q} = items \ {p}
    BY <1>5, <1>6
  <2> HIDE DEF items
  <2>5. IsNewest(IF heap[q].next = p THEN y ELSE heap[q].next, items \ {p})
    BY <1>3, <2>1, <2>2, <2>3, NewestLeft
  <2> QED
    BY <1>5, <2>4, <2>5
<1>10. ASSUME NEW c \in Bucket
       PROVE  IsNewest(data'[c], InBucket(heap', c))
  <2> DEFINE items == InBucket(heap, c)
  <2>1. IsNewest(data[c], items)
    BY DEF HInv, Linked
  <2>2. data[c] = p => c = b
    BY <1>3, <2>1 DEF IsNewest, InBucket, b
  <2>3. p \in items => c = b
    BY DEF InBucket, b
  <2>4. data'[c] = IF data[c] = p THEN y ELSE data[c]
    BY <1>1, <2>2
  <2>5. items \in SUBSET Nat /\ InBucket(heap', c) = items \ {p}
    BY <1>6, <1>7
  <2>6. p \in items => IsNewest(y, {r \in items : r < p})
    BY <1>8, <2>3
  <2> HIDE DEF items
  <2>7. IsNewest(IF data[c] = p THEN y ELSE data[c], items \ {p})
    BY <1>3, <2>1, <2>5, <2>6, NewestLeft
  <2> QED
    BY <2>4, <2>5, <2>7
<1>11. HeapOK(heap', count')
  <2>1. DOMAIN heap' \subseteq 1 .. count
    BY <1>2, <1>4
  <2> QED
    BY <1>1, <1>2, <1>5, <1>9, <2>1 DEF HeapOK
<1>12. Linked'
  <2>1. \A q \in DOMAIN heap' : heap'[q].hash = hash[heap'[q].key]
    BY <1>5 DEF HInv, Linked
  <2>2. view'.begin = Null
    BY <1>1 DEF NoView
  <2>3. hash' = hash
    BY <1>1
  <2> QED
    BY <1>10, <1>11, <2>1, <2>2, <2>3 DEF Linked
<1>13. data' \in [Bucket -> Live'] /\ found' \in Live'
  <2>1. ASSUME NEW c \in Bucket
        PROVE  data'[c] \in Live'
    BY <1>10 DEF IsNewest, InBucket, Live
  <2> QED
    BY <1>1, <2>1 DEF Live
<1>14. heap' \in [DOMAIN heap' -> [key : Key, hash : Bucket, next : Live']]
  <2>1. heap' = [q \in DOMAIN heap' |-> heap'[q]]
    BY <1>1, <1>4
  <2> QED
    BY <1>5, <2>1
<1> QED
  BY <1>1, <1>2, <1>12, <1>13, <1>14 DEF HInv

\* What the chains are, in any state.
LEMMA ChainsNow ==
    ASSUME HInv
    PROVE  /\ \A p \in Live : Range(Chain(p)) = Reach(heap, p)
           /\ \A b \in Bucket : Range(Chain(data[b])) = InBucket(heap, b)
           /\ \A p \in Live : \A key : IsNewest(Match(p, key),
                                                {q \in Reach(heap, p) : heap[q].key = key})
<1>1. HeapOK(heap, count) /\ data \in [Bucket -> Live]
  BY DEF HInv, Linked
<1>2. \A p \in Live : Range(Chain(p)) = Reach(heap, p)
  BY <1>1, ChainOrder, ChainIsIn DEF Live
<1>3. ASSUME NEW b \in Bucket
      PROVE  Reach(heap, data[b]) = InBucket(heap, b)
  <2>1. IsNewest(data[b], InBucket(heap, b))
    BY DEF HInv, Linked
  <2>2. CASE data[b] = Null
    BY <2>1, <2>2, NullApart DEF IsNewest, Reach, InBucket
  <2>3. CASE data[b] # Null
    <3>1. heap[data[b]].hash = b /\ \A q \in InBucket(heap, b) : q <= data[b]
      BY <2>1, <2>3 DEF IsNewest, InBucket
    <3> QED
      BY <2>3, <3>1 DEF Reach
  <2> QED  BY <2>2, <2>3
<1>4. \A b \in Bucket : Range(Chain(data[b])) = InBucket(heap, b)
  BY <1>1, <1>2, <1>3
<1>5. \A p \in Live : \A key : IsNewest(Match(p, key),
                                        {q \in Reach(heap, p) : heap[q].key = key})
  BY <1>1, MatchNewest DEF Live
<1> QED
  BY <1>2, <1>4, <1>5

\* What a walk or a search finds is an item of the bucket, or nothing.
LEMMA MatchLive ==
    ASSUME HInv, NEW p \in Live, NEW key
    PROVE  /\ Match(p, key) \in Live
           /\ Match(p, key) # Null =>
                 /\ Match(p, key) \in DOMAIN heap /\ p # Null
                 /\ heap[Match(p, key)].hash = heap[p].hash
<1>1. IsNewest(Match(p, key), {q \in Reach(heap, p) : heap[q].key = key})
  BY ChainsNow
<1> QED
  BY <1>1 DEF IsNewest, Reach, InBucket, Live

\* A walk stays in the bucket of its key.
LEMMA WalkLinks ==
    ASSUME HInv, NextItem \/ Done \/ \E key \in Key : Lookup(key) \/ Find(key)
    PROVE  HInv'
<1>1. /\ hash' = hash /\ data' = data /\ heap' = heap /\ count' = count
  BY DEF NextItem, Done, Lookup, Find
<1>2. /\ hash \in [Key -> Bucket] /\ data \in [Bucket -> Live] /\ count \in Nat
      /\ heap \in [DOMAIN heap -> [key : Key, hash : Bucket, next : Live]]
      /\ view \in [key : Key, begin : Live] \cup {NoView} /\ Live' = Live
  BY <1>1 DEF HInv, Live
<1>3. /\ found' \in Live
      /\ view' \in [key : Key, begin : Live] \cup {NoView}
      /\ view'.begin # Null => heap[view'.begin].hash = hash[view'.key]
  <2>1. CASE NextItem
    <3> DEFINE p == Match(view.begin, view.key)
    <3>1. /\ view # NoView /\ p # Null /\ found' = Null
          /\ view' = [view EXCEPT !.begin = heap[p].next]
      BY <2>1 DEF NextItem
    <3>2. view \in [key : Key, begin : Live]
      BY <1>2, <3>1
    <3>3. p \in DOMAIN heap /\ view.begin # Null /\ heap[p].hash = heap[view.begin].hash
      BY <3>1, <3>2, MatchLive
    <3> HIDE DEF p
    <3>4. /\ heap[p].next \in Live
          /\ heap[p].next # Null => heap[heap[p].next].hash = heap[p].hash
      BY <1>2, <3>3, NextOlder DEF HInv, Linked
    <3>5. /\ view'.key = view.key /\ view'.begin = heap[p].next
          /\ view' \in [key : Key, begin : Live]
      BY <3>1, <3>2, <3>4
    <3> QED
      BY <3>1, <3>3, <3>4, <3>5 DEF HInv, Linked, Live
  <2>2. CASE Done
    BY <2>2 DEF Done, NoView, Live
  <2>3. ASSUME NEW key \in Key, Lookup(key)
        PROVE  /\ found' \in Live
               /\ view' \in [key : Key, begin : Live]
               /\ view'.begin # Null => heap[view'.begin].hash = hash[view'.key]
    <3>1. found' = Null /\ view' = [key |-> key, begin |-> data[hash[key]]]
      BY <2>3 DEF Lookup
    <3>2. hash[key] \in Bucket /\ data[hash[key]] \in Live
      BY <1>2
    <3>3. IsNewest(data[hash[key]], InBucket(heap, hash[key]))
      BY <3>2 DEF HInv, Linked
    <3> QED
      BY <3>1, <3>2, <3>3 DEF IsNewest, InBucket, Live
  <2>4. ASSUME NEW key \in Key, Find(key)
        PROVE  found' \in Live /\ view' = view
    <3>1. data[hash[key]] \in Live
      BY <1>2
    <3> QED
      BY <2>4, <3>1, MatchLive DEF Find
  <2> QED
    BY <1>2, <2>1, <2>2, <2>3, <2>4 DEF HInv, Linked
<1>4. Linked'
  BY <1>1, <1>3 DEF HInv, Linked
<1> QED
  BY <1>1, <1>2, <1>3, <1>4 DEF HInv

\* Every item is in a chain, so the table is empty once it is freed.
LEMMA DeleteFreesAll ==
    ASSUME HInv, Delete
    PROVE  DOMAIN heap' = {} /\ HInv'
<1>1. /\ hash' = hash /\ view' = view /\ view = NoView /\ count' = count
      /\ found' = Null /\ data' = [b \in Bucket |-> Null]
      /\ heap' = [p \in DOMAIN heap \ UNION {Range(Chain(data[b])) : b \in Bucket}
                     |-> heap[p]]
  BY DEF Delete, Free
<1>2. \A p \in DOMAIN heap : p \in InBucket(heap, heap[p].hash) /\ heap[p].hash \in Bucket
  BY DEF HInv, Linked, HeapOK, InBucket
<1>3. DOMAIN heap' = {}
  BY <1>1, <1>2, ChainsNow
<1>4. heap' \in [DOMAIN heap' -> [key : Key, hash : Bucket, next : Live']]
  BY <1>1, <1>3
<1>5. \A b \in Bucket : data'[b] = Null /\ InBucket(heap', b) = {}
  BY <1>1, <1>3 DEF InBucket
<1>6. Linked'
  <2>1. view'.begin = Null /\ count \in Nat
    BY <1>1 DEF NoView, HInv
  <2> QED
    BY <1>1, <1>3, <1>5, <2>1 DEF Linked, HeapOK, IsNewest
<1> QED
  BY <1>1, <1>3, <1>4, <1>6 DEF HInv, Live

\* Every step keeps the invariant.
LEMMA NextHInv == HInv /\ [Next]_vars => HInv'
<1> SUFFICES ASSUME HInv, [Next]_vars PROVE HInv'
  OBVIOUS
<1>1. ASSUME NEW key \in Key, Insert(key)
      PROVE  HInv'
  BY <1>1, InsertLinks
<1>2. CASE NextItem \/ Done \/ \E key \in Key : Lookup(key) \/ Find(key)
  BY <1>2, WalkLinks
<1>3. ASSUME NEW p \in DOMAIN heap, Unlink(p)
      PROVE  HInv'
  BY <1>3, UnlinkLinks
<1>4. CASE Delete
  BY <1>4, DeleteFreesAll
<1>5. CASE UNCHANGED vars
  BY <1>5 DEF vars, HInv, Linked, Live
<1> QED
  BY <1>1, <1>2, <1>3, <1>4, <1>5 DEF Next

LEMMA AlwaysHInv == Spec => []HInv
BY InitHInv, NextHInv, PTL DEF Spec
-----------------------------------------------------------------------------
(* The theorems. *)

\* No pointer of the table dangles: neither the head of a bucket, nor a "next", nor
\* the iterator in use, nor what a search returned, whatever was unlinked before.
THEOREM TypeCorrect == Spec => []TypeOK
<1>1. HInv => TypeOK
  BY DEF HInv, TypeOK, Linked, HeapOK, Live
<1> QED
  BY <1>1, AlwaysHInv, PTL

\* The chains partition the items that are allocated by bucket, the newest first, and
\* each item is where its "hash" says: the loop of symbols_dedent, which does not
\* test for the end of the bucket, finds the item it is to unlink.
THEOREM ChainsAreSound == Spec => []ChainsSound
<1>1. HInv => ChainsSound
  <2> SUFFICES ASSUME HInv, NEW b \in Bucket
               PROVE  LET chain == Chain(data[b])
                      IN  /\ \A i, j \in DOMAIN chain : i < j => chain[i] > chain[j]
                          /\ Range(chain) = {p \in DOMAIN heap : hash[heap[p].key] = b}
                          /\ \A p \in Range(chain) : heap[p].hash = b
    BY DEF ChainsSound
  <2> DEFINE chain == Chain(data[b])
  <2>1. Range(chain) = InBucket(heap, b)
    BY ChainsNow
  <2>2. data[b] \in DOMAIN heap \cup {Null} /\ HeapOK(heap, count)
    BY DEF HInv, Linked, Live
  <2>3. \A i, j \in DOMAIN chain : i < j => chain[i] > chain[j]
    <3>1. PICK c : c = ChainIn(heap, data[b])
      OBVIOUS
    <3>2. \A i, j \in DOMAIN c : i < j => c[i] > c[j]
      BY <2>2, <3>1, ChainOrder
    <3>3. chain = c
      BY <3>1, ChainIsIn
    <3> HIDE DEF chain
    <3> QED
      BY <3>2, <3>3
  <2>4. InBucket(heap, b) = {p \in DOMAIN heap : hash[heap[p].key] = b}
    <3>1. \A p \in DOMAIN heap : heap[p].hash = hash[heap[p].key]
      BY DEF HInv, Linked
    <3> QED
      BY <3>1 DEF InBucket
  <2>5. \A p \in InBucket(heap, b) : heap[p].hash = b
    BY DEF InBucket
  <2> HIDE DEF chain
  <2>6. Range(chain) = {p \in DOMAIN heap : hash[heap[p].key] = b}
    BY <2>1, <2>4
  <2>7. \A p \in Range(chain) : heap[p].hash = b
    BY <2>1, <2>5
  <2> QED
    BY <2>3, <2>6, <2>7 DEF chain
<1> QED
  BY <1>1, AlwaysHInv, PTL

-----------------------------------------------------------------------------
(* The refinement. *)

Entered == [p \in DOMAIN heap |-> heap[p].key]

Left == {p \in Range(Chain(view.begin)) : heap[p].key = view.key}

\* What a walk has still to return, without the chain.
LEMMA LeftIs ==
    ASSUME HInv
    PROVE  /\ Left = {p \in Reach(heap, view.begin) : heap[p].key = view.key}
           /\ view.begin \in Live
           /\ view = NoView => view.key = Null /\ view.begin = Null /\ Left = {}
           /\ view # NoView => view.key \in Key /\ view.key # Null
<1>1. view.begin \in Live /\ view \in [key : Key, begin : Live] \cup {NoView}
  BY DEF HInv, Live, NoView
<1>2. Left = {p \in Reach(heap, view.begin) : heap[p].key = view.key}
  BY <1>1, ChainsNow DEF Left
<1>3. view = NoView => view.key = Null /\ view.begin = Null
  BY DEF NoView
<1>4. view # NoView => view.key \in Key /\ view.key # Null
  BY <1>1, NullApart
<1> QED
  BY <1>1, <1>2, <1>3, <1>4 DEF Reach

\* The same after a step.
LEMMA LeftIsNext ==
    ASSUME HInv'
    PROVE  /\ Left' = {p \in Reach(heap', view'.begin) : heap'[p].key = view'.key}
           /\ view' = NoView => view'.key = Null /\ view'.begin = Null /\ Left' = {}
<1>1. /\ view'.begin \in DOMAIN heap' \cup {Null} /\ HeapOK(heap', count')
  BY DEF HInv, Live, NoView, Linked
<1>2. Range(ChainIn(heap', view'.begin)) = Reach(heap', view'.begin)
  BY <1>1, ChainOrder
<1>3. Chain(view.begin)' = ChainIn(heap', view'.begin)
  BY DEF Chain, ChainIn
<1>4. Left' = {p \in Reach(heap', view'.begin) : heap'[p].key = view'.key}
  BY <1>2, <1>3 DEF Left
<1>5. view' = NoView => view'.key = Null /\ view'.begin = Null
  BY DEF NoView
<1> QED
  BY <1>4, <1>5 DEF Reach

\* The items with a key are those of its bucket that have it.
LEMMA EntriesOf ==
    ASSUME HInv, NEW key \in Key
    PROVE  /\ data[hash[key]] \in Live
           /\ Ideal!Entries(key) =
                 {p \in Reach(heap, data[hash[key]]) : heap[p].key = key}
<1>1. hash[key] \in Bucket /\ data[hash[key]] \in Live
  BY DEF HInv
<1>2. Reach(heap, data[hash[key]]) = InBucket(heap, hash[key])
  BY <1>1, ChainsNow
<1>3. \A p \in DOMAIN heap : heap[p].hash = hash[heap[p].key]
  BY DEF HInv, Linked
<1>4. Ideal!Entries(key) = {p \in DOMAIN heap : heap[p].key = key}
  BY DEF Ideal!Entries
<1>5. \A p : p \in DOMAIN heap /\ heap[p].key = key
                <=> p \in InBucket(heap, hash[key]) /\ heap[p].key = key
  BY <1>3 DEF InBucket
<1> QED
  BY <1>1, <1>2, <1>4, <1>5

\* To insert an item is to make an entry.
LEMMA InsertEnters ==
    ASSUME HInv, HInv', NEW key \in Key, Insert(key)
    PROVE  Ideal!Insert(key)
<1>1. /\ view' = view /\ view = NoView /\ count' = count + 1 /\ found' = Null
      /\ heap' = [p \in DOMAIN heap \cup {count + 1} |->
                     IF p = count + 1 THEN NewItem(key) ELSE heap[p]]
  BY DEF Insert
<1>2. Entered' = [e \in DOMAIN Entered \cup {count + 1} |->
                     IF e = count + 1 THEN key ELSE Entered[e]]
  BY <1>1 DEF Entered, NewItem
<1>3. Left = {} /\ Left' = {} /\ view.key = Null
  BY <1>1, LeftIs, LeftIsNext
<1> QED
  BY <1>1, <1>2, <1>3 DEF Ideal!Insert, Entered, Left

\* To unlink an item is to remove its entry.
LEMMA UnlinkRemoves ==
    ASSUME HInv, HInv', NEW p \in DOMAIN heap, Unlink(p)
    PROVE  Ideal!Remove(p)
<1>1. /\ view' = view /\ view = NoView /\ count' = count /\ found' = Null
      /\ heap' = [q \in DOMAIN heap \ {p} |->
                     [heap[q] EXCEPT !.next = IF @ = p THEN After(p) ELSE @]]
  BY DEF Unlink
<1>2. \A q \in DOMAIN heap \ {p} : heap'[q].key = heap[q].key
  <2>1. \A q \in DOMAIN heap : heap[q] \in [key : Key, hash : Bucket, next : Live]
    BY DEF HInv
  <2> QED
    BY <1>1, <2>1
<1>3. Entered' = [e \in DOMAIN Entered \ {p} |-> Entered[e]]
  BY <1>1, <1>2 DEF Entered
<1>4. Left = {} /\ Left' = {} /\ view.key = Null
  BY <1>1, LeftIs, LeftIsNext
<1> QED
  BY <1>1, <1>3, <1>4 DEF Ideal!Remove, Ideal!Without, Entered, Left

\* A lookup begins a walk over all the entries with the key.
LEMMA LookupBegins ==
    ASSUME HInv, HInv', NEW key \in Key, Lookup(key)
    PROVE  Ideal!Begin(key)
<1>1. /\ view = NoView /\ view' = [key |-> key, begin |-> data[hash[key]]]
      /\ found' = Null /\ heap' = heap /\ count' = count
  BY DEF Lookup
<1>2. Left' = Ideal!Entries(key)
  BY <1>1, LeftIsNext, EntriesOf
<1>3. view.key = Null
  BY <1>1, LeftIs
<1> QED
  BY <1>1, <1>2, <1>3 DEF Ideal!Begin, Left

\* One call of next returns the newest entry that is left, and passes over nothing
\* but items with other keys.
LEMMA NextItemReturns ==
    ASSUME HInv, HInv', NextItem
    PROVE  \E p \in DOMAIN Entered : Ideal!Return(p)
<1>0. PICK p : p = Match(view.begin, view.key)
  OBVIOUS
<1>1. /\ view # NoView /\ p # Null /\ view' = [view EXCEPT !.begin = heap[p].next]
      /\ found' = Null /\ heap' = heap /\ count' = count
  BY <1>0 DEF NextItem
<1>2. /\ Left = {q \in Reach(heap, view.begin) : heap[q].key = view.key}
      /\ view.begin \in Live /\ view.key # Null
  BY <1>1, LeftIs
<1>3. IsNewest(p, Left)
  BY <1>0, <1>2, ChainsNow
<1>4. /\ p \in DOMAIN heap /\ view.begin # Null /\ heap[p].hash = heap[view.begin].hash
  BY <1>0, <1>1, <1>2, MatchLive
<1>5. p \in Left /\ \A q \in Left : q <= p
  BY <1>1, <1>3 DEF IsNewest
<1>6. view' = [key |-> view.key, begin |-> heap[p].next]
  <2>1. view \in [key : Key, begin : Live]
    BY <1>1 DEF HInv
  <2> QED
    BY <1>1, <2>1
<1>7. Left' = Left \ {p}
  <2> DEFINE b == InBucket(heap, heap[p].hash)
  <2>1. Left' = {q \in Reach(heap, heap[p].next) : heap[q].key = view.key}
    BY <1>1, <1>6, LeftIsNext
  <2>2. b \subseteq Nat /\ p \in Nat
    BY <1>4, NullApart DEF InBucket
  <2>3. Left = {q \in b : q <= view.begin /\ heap[q].key = view.key}
    BY <1>2, <1>4 DEF Reach
  <2>4. Reach(heap, heap[p].next) = {q \in b : q < p}
    <3>1. IsNewest(heap[p].next, {q \in b : q < p})
      BY <1>4 DEF HInv, Linked, HeapOK
    <3>2. CASE heap[p].next = Null
      BY <3>1, <3>2, NullApart DEF IsNewest, Reach, InBucket
    <3>3. CASE heap[p].next # Null
      <4>1. /\ heap[p].next \in b /\ heap[p].next < p /\ heap[p].next \in Nat
            /\ \A q \in b : q < p => q <= heap[p].next
        BY <2>2, <3>1, <3>3 DEF IsNewest
      <4>2. Reach(heap, heap[p].next) = {q \in b : q <= heap[p].next}
        BY <3>3, <4>1 DEF Reach, InBucket
      <4> HIDE DEF b
      <4>3. ASSUME NEW q \in b
            PROVE  (q <= heap[p].next) <=> (q < p)
        <5>1. q \in Nat
          BY <2>2
        <5>2. q < p => q <= heap[p].next
          BY <4>1
        <5> QED
          BY <2>2, <4>1, <5>1, <5>2
      <4> QED
        BY <4>2, <4>3
    <3> QED  BY <3>2, <3>3
  <2> HIDE DEF b
  <2>5. p \in b /\ p <= view.begin /\ view.begin \in Nat
    <3>1. view.begin \in Nat
      BY <1>2, <1>4, NullApart DEF Live
    <3> QED
      BY <1>5, <2>3, <3>1
  <2>6. \A q \in b : /\ q < p => q <= view.begin /\ q # p
                     /\ q <= view.begin /\ heap[q].key = view.key /\ q # p => q < p
    <3>1. \A q \in b : q <= view.begin /\ heap[q].key = view.key => q <= p
      BY <1>5, <2>3
    <3> QED
      BY <2>2, <2>5, <3>1
  <2> QED
    BY <2>1, <2>3, <2>4, <2>6
<1>8. DOMAIN Entered = DOMAIN heap
  BY DEF Entered
<1>9. Ideal!Return(p)
  BY <1>1, <1>2, <1>5, <1>6, <1>7 DEF Ideal!Return, Ideal!Newest, Left
<1> QED
  BY <1>4, <1>8, <1>9

\* A walk may end anywhere.
LEMMA DoneEnds ==
    ASSUME HInv, HInv', Done
    PROVE  Ideal!End
<1>1. /\ view # NoView /\ view' = NoView /\ found' = Null /\ heap' = heap
      /\ count' = count
  BY DEF Done
<1>2. view.key # Null /\ view'.key = Null /\ Left' = {}
  BY <1>1, LeftIs, LeftIsNext
<1> QED
  BY <1>1, <1>2 DEF Ideal!End, Left

\* Find returns the newest entry with the key, whatever shares its bucket.
LEMMA FindSearches ==
    ASSUME HInv, HInv', NEW key \in Key, Find(key)
    PROVE  Ideal!Search(key)
<1>1. /\ view = NoView /\ found' = Match(data[hash[key]], key) /\ view' = view
      /\ heap' = heap /\ count' = count
  BY DEF Find
<1>2. IsNewest(found', Ideal!Entries(key))
  BY <1>1, EntriesOf, ChainsNow
<1>3. view.key = Null /\ Left = {} /\ Left' = {}
  BY <1>1, LeftIs, LeftIsNext
<1>4. \/ Ideal!Entries(key) = {} /\ found' = Null
      \/ \E e \in Ideal!Entries(key) :
            Ideal!Newest(Ideal!Entries(key), e) /\ found' = e
  BY <1>2 DEF IsNewest, Ideal!Newest
<1> QED
  BY <1>1, <1>3, <1>4 DEF Ideal!Search, Left

\* Freeing the table clears it.
LEMMA DeleteClears ==
    ASSUME HInv, HInv', Delete
    PROVE  Ideal!Clear
<1>1. /\ view = NoView /\ found' = Null /\ view' = view /\ count' = count
      /\ heap' = [p \in DOMAIN heap \ UNION {Range(Chain(data[b])) : b \in Bucket}
                     |-> heap[p]]
  BY DEF Delete, Free
<1>2. DOMAIN heap' = {}
  BY DeleteFreesAll
<1>3. view.key = Null /\ Left = {} /\ Left' = {}
  BY <1>1, LeftIs, LeftIsNext
<1>4. Entered' = [e \in DOMAIN Entered \ DOMAIN Entered |-> Entered[e]]
  BY <1>1, <1>2 DEF Entered
<1> QED
  BY <1>1, <1>3, <1>4 DEF Ideal!Clear, Ideal!Without, Entered, Left

\* Every step of the chains is a step of the multimap, or none.
LEMMA NextIdeal ==
    ASSUME HInv, HInv', [Next]_vars
    PROVE  [Ideal!Next]_(Ideal!vars)
<1>1. ASSUME NEW key \in Key, Insert(key) \/ Lookup(key) \/ Find(key)
      PROVE  Ideal!Next
  BY <1>1, InsertEnters, LookupBegins, FindSearches DEF Ideal!Next
<1>2. CASE NextItem
  <2>1. \E p \in DOMAIN Entered : Ideal!Return(p)
    BY <1>2, NextItemReturns
  <2> QED
    BY <2>1 DEF Ideal!Next, Entered
<1>3. ASSUME NEW p \in DOMAIN heap, Unlink(p)
      PROVE  Ideal!Next
  <2>1. p \in DOMAIN Entered /\ Ideal!Remove(p)
    BY <1>3, UnlinkRemoves DEF Entered
  <2> QED
    BY <2>1 DEF Ideal!Next, Entered
<1>4. CASE Done
  BY <1>4, DoneEnds DEF Ideal!Next
<1>5. CASE Delete
  BY <1>5, DeleteClears DEF Ideal!Next
<1>6. CASE UNCHANGED vars
  BY <1>6 DEF vars, Ideal!vars, Chain
<1> QED
  BY <1>1, <1>2, <1>3, <1>4, <1>5, <1>6 DEF Next

\* The table starts with no entry.
LEMMA InitIdeal == Init /\ HInv => Ideal!Init
<1> SUFFICES ASSUME Init, HInv PROVE Ideal!Init
  OBVIOUS
<1>1. heap = [p \in {} |-> Null] /\ count = 0 /\ view = NoView /\ found = Null
  BY DEF Init
<1>2. view.key = Null /\ Left = {}
  BY <1>1, LeftIs
<1>3. Entered = [e \in {} |-> Null]
  BY <1>1 DEF Entered
<1> QED
  BY <1>1, <1>2, <1>3 DEF Ideal!Init, Entered, Left

\* The chains keep the promise of the multimap: a collision neither hides an entry
\* from a walk nor adds one, a walk returns the newest first, and so does a search,
\* whatever was inserted and unlinked before and whatever the hash function.
THEOREM ChainsAreMultimap == Spec => ImplementsMultimap
<1>1. Init /\ HInv => Ideal!Init
  BY InitIdeal
<1>2. HInv /\ HInv' /\ [Next]_vars => [Ideal!Next]_(Ideal!vars)
  BY NextIdeal
<1> QED
  BY <1>1, <1>2, AlwaysHInv, PTL DEF Spec, ImplementsMultimap, Ideal!Spec
=============================================================================
