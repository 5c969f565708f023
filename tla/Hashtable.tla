----------------------------- MODULE Hashtable -----------------------------
(***************************************************************************)
(* The hash tables of src/src/hashtable.c: an array of buckets, each a     *)
(* chain of items through their "next" pointers.                           *)
(*                                                                         *)
(* htable_strsym may hold several items with one key; its lookup returns a *)
(* view, an iterator that stops at each of them.  symbols_dedent           *)
(* (src/src/symbols.c) unlinks single items from the chains itself, by     *)
(* walking the bucket that the item's "hash" field names until it meets    *)
(* the item.  htable_ptru32 and htable_ppuu32 have the same chains, but    *)
(* their lookup returns the first match ("Find") and nothing is unlinked.  *)
(*                                                                         *)
(* An item is identified by its id: 1, 2, ... in the order of allocation.  *)
(* The hash function is any function; which keys collide is chosen at the  *)
(* start and never used but through "hash".                                *)
(***************************************************************************)
EXTENDS Integers, Sequences, SequencesExt

CONSTANTS Key,        \* the strings that are looked up
          Bucket,     \* indices of the array: 256 in the code
          Null,       \* the null pointer
          MaxItems    \* bound on the items ever inserted

ASSUME HashtableAssumption == /\ Null \notin Key \cup Nat
                              /\ MaxItems \in Nat

VARIABLES hash,    \* the hash function, fixed
          data,    \* the heads of the chains
          heap,    \* the items that are allocated
          count,   \* how many items have been allocated
          view,    \* the iterator in use: its key and where it goes on
          found    \* the item a Find has just returned, or Null

vars == <<hash, data, heap, count, view, found>>

NoView == [key |-> Null, begin |-> Null]

Init == /\ hash \in [Key -> Bucket]
        /\ data = [b \in Bucket |-> Null]
        /\ heap = [p \in {} |-> Null]
        /\ count = 0
        /\ view = NoView
        /\ found = Null

\* The items from one on, in the order the next pointers have.
Chain(p) ==
    LET from[q \in DOMAIN heap \cup {Null}] ==
            IF q = Null THEN <<>> ELSE <<q>> \o from[heap[q].next]
    IN  from[p]

\* The first item from p on that has the key.
Match(p, key) ==
    LET chain == Chain(p)
        i == SelectInSeq(chain, LAMBDA q : heap[q].key = key)
    IN  IF i = 0 THEN Null ELSE chain[i]

Free(items) == heap' = [p \in DOMAIN heap \ items |-> heap[p]]
-----------------------------------------------------------------------------
\* slip: the new item does not take over the chain
NewItem_Alone(key) == [key |-> key, hash |-> hash[key], next |-> Null]

\* slip: the item is not stamped with its own bucket
NewItem_Stamp(key) == [key |-> key, hash |-> CHOOSE b \in Bucket : TRUE,
                       next |-> data[hash[key]]]

NewItem(key) == [key |-> key, hash |-> hash[key], next |-> data[hash[key]]]

Insert(key) ==
    /\ view = NoView /\ count < MaxItems
    /\ count' = count + 1
    /\ heap' = [p \in DOMAIN heap \cup {count'} |->
                   IF p = count' THEN NewItem(key) ELSE heap[p]]
    /\ data' = [data EXCEPT ![hash[key]] = count']
    /\ found' = Null
    /\ UNCHANGED <<hash, view>>

Lookup(key) ==
    /\ view = NoView
    /\ view' = [key |-> key, begin |-> data[hash[key]]]
    /\ found' = Null
    /\ UNCHANGED <<hash, data, heap, count>>

\* One call of view.next: it passes over items with other keys that share the bucket.
NextItem ==
    LET p == Match(view.begin, view.key)
    IN  /\ view # NoView /\ p # Null
        /\ view' = [view EXCEPT !.begin = heap[p].next]
        /\ found' = Null
        /\ UNCHANGED <<hash, data, heap, count>>

\* The caller is done with the view: it has met NULL, or what it was looking for.
Done == /\ view # NoView
        /\ view' = NoView
        /\ found' = Null
        /\ UNCHANGED <<hash, data, heap, count>>

\* The lookup of the tables of pointers, which tell code generation where a value is:
\* an item that was inserted again has the newer of its places.
Find(key) == /\ view = NoView
             /\ found' = Match(data[hash[key]], key)
             /\ UNCHANGED <<hash, data, heap, count, view>>

\* The loop of symbols_dedent: it goes on to the pointer that points to the item,
\* which then skips it.  A chain without the item has no such pointer.
InChain(p) == p \in Range(Chain(data[heap[p].hash]))

\* slips: the chain is cut after the item; the item stays in it
After_Cut(p) == Null
After_Self(p) == p

After(p) == heap[p].next

Unlink(p) ==
    /\ view = NoView /\ InChain(p)
    /\ data' = [b \in Bucket |-> IF b = heap[p].hash /\ data[b] = p THEN After(p)
                                                                     ELSE data[b]]
    /\ heap' = [q \in DOMAIN heap \ {p} |->
                   [heap[q] EXCEPT !.next = IF @ = p THEN After(p) ELSE @]]
    /\ found' = Null
    /\ UNCHANGED <<hash, count, view>>

\* The table is freed with every item that a chain reaches.
Delete ==
    /\ view = NoView
    /\ Free(UNION {Range(Chain(data[b])) : b \in Bucket})
    /\ data' = [b \in Bucket |-> Null]
    /\ found' = Null
    /\ UNCHANGED <<hash, count, view>>

Next == \/ \E key \in Key : Insert(key) \/ Lookup(key) \/ Find(key)
        \/ NextItem
        \/ Done
        \/ \E p \in DOMAIN heap : Unlink(p)
        \/ Delete

Spec == Init /\ [][Next]_vars
-----------------------------------------------------------------------------
\* Types; no pointer dangles, so every chain ends in a null pointer or runs in a ring.
TypeOK == LET Live == DOMAIN heap \cup {Null}
          IN  /\ hash \in [Key -> Bucket]
              /\ data \in [Bucket -> Live]
              /\ DOMAIN heap \subseteq 1 .. count
              /\ \A p \in DOMAIN heap :
                     /\ heap[p].key \in Key
                     /\ heap[p].hash \in Bucket
                     /\ heap[p].next \in Live
              /\ view \in [key : Key, begin : Live] \cup {NoView}
              /\ found \in Live

\* No chain is cut, crossed or entered twice: the items of all buckets together
\* are those allocated, each in one place, the newest first.  Each is stamped with
\* that place, so the loop of symbols_dedent that looks for an item in its bucket
\* finds it before the chain ends, whatever was unlinked from the chain before:
\* symbols.c:329-338 tests for the item only, not for the end.
ChainsSound ==
    \A b \in Bucket :
        LET chain == Chain(data[b])
        IN  /\ \A i, j \in DOMAIN chain : i < j => chain[i] > chain[j]
            /\ Range(chain) = {p \in DOMAIN heap : hash[heap[p].key] = b}
            /\ \A p \in Range(chain) : heap[p].hash = b
-----------------------------------------------------------------------------
Ideal == INSTANCE Multimap
    WITH entries <- [p \in DOMAIN heap |-> heap[p].key],
         walk    <- view.key,
         left    <- {p \in Range(Chain(view.begin)) : heap[p].key = view.key}

\* The chains, walked by pointer, keep the promise of the multimap: a collision
\* neither hides an item from a walk nor adds one, and the newest comes first, which
\* is what symbols_get takes for the innermost definition.
ImplementsMultimap == Ideal!Spec
=============================================================================
