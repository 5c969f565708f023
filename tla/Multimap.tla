------------------------------ MODULE Multimap ------------------------------
(***************************************************************************)
(* What the string table of src/src/hashtable.c promises, with no bucket   *)
(* in it: entries may share a key, any of them can be removed, and a walk  *)
(* over a key returns its entries one by one, the newest first.            *)
(***************************************************************************)
EXTENDS Integers

CONSTANTS Key, Null

VARIABLES entries,   \* the entries present: their ids, with their keys
          count,     \* the entries made so far; ids grow with it
          walk,      \* the key a walk is about, or Null
          left,      \* the entries the walk has still to return
          found      \* the entry a search has just found, or Null

vars == <<entries, count, walk, left, found>>

Init == /\ entries = [e \in {} |-> Null]
        /\ count = 0
        /\ walk = Null
        /\ left = {}
        /\ found = Null

Insert(key) ==
    /\ walk = Null
    /\ count' = count + 1
    /\ entries' = [e \in DOMAIN entries \cup {count + 1} |->
                      IF e = count + 1 THEN key ELSE entries[e]]
    /\ found' = Null
    /\ UNCHANGED <<walk, left>>

Without(removed) == [e \in DOMAIN entries \ removed |-> entries[e]]

Remove(entry) == /\ walk = Null
                 /\ entries' = Without({entry})
                 /\ found' = Null
                 /\ UNCHANGED <<count, walk, left>>

Entries(key) == {e \in DOMAIN entries : entries[e] = key}

Newest(these, e) == e \in these /\ \A other \in these : other <= e

Begin(key) == /\ walk = Null
              /\ walk' = key
              /\ left' = Entries(key)
              /\ found' = Null
              /\ UNCHANGED <<entries, count>>

\* The walk returns the newest of the entries that are left.
Return(entry) == /\ walk # Null
                 /\ Newest(left, entry)
                 /\ left' = left \ {entry}
                 /\ found' = Null
                 /\ UNCHANGED <<entries, count, walk>>

\* A walk ends when nothing is left, or because its caller has found what it wants.
End == /\ walk # Null
       /\ walk' = Null
       /\ left' = {}
       /\ found' = Null
       /\ UNCHANGED <<entries, count>>

\* A search for one entry with the key finds the newest.
Search(key) == /\ walk = Null
               /\ \/ Entries(key) = {} /\ found' = Null
                  \/ \E e \in Entries(key) : Newest(Entries(key), e) /\ found' = e
               /\ UNCHANGED <<entries, count, walk, left>>

Clear == /\ walk = Null
         /\ entries' = Without(DOMAIN entries)
         /\ found' = Null
         /\ UNCHANGED <<count, walk, left>>

Next == \/ \E key \in Key : Insert(key) \/ Begin(key) \/ Search(key)
        \/ \E entry \in DOMAIN entries : Remove(entry) \/ Return(entry)
        \/ End
        \/ Clear

Spec == Init /\ [][Next]_vars
=============================================================================
