-------------------------------- MODULE Bump --------------------------------
(***************************************************************************)
(* The bump allocator of src/src/bump.c, which all Koopa objects and their *)
(* lists come from.  The area is filled from its end down; below each      *)
(* block, at the distance of the alignment, is a header with its size, and *)
(* at the bottom of the area is its own pointer.  Nothing is freed but the *)
(* whole area.                                                             *)
(*                                                                         *)
(* Addresses count words of 8 bytes from the bottom, which is aligned.     *)
(***************************************************************************)
EXTENDS Integers, Sequences, SequencesExt

CONSTANTS Size,       \* words of the area: 4 MiB in the code
          Junk        \* what is in a word nobody has written

ASSUME BumpAssumption == Size \in Nat /\ Junk \notin Int

ALIGNMENT == 2        \* alignof(max_align_t) is 16 bytes

\* slip: to the boundary above
aligned_Up(p) == p + (p % ALIGNMENT)

aligned(p) == p - (p % ALIGNMENT)

\* "mem" holds the words that were written; "ok" is FALSE once an assertion has
\* failed.  Two histories: "blocks", what was allocated; "reach", the address up to
\* which copies have read.
bump_new == [ptr |-> Size, mem |-> [w \in {} |-> Junk], ok |-> TRUE,
             blocks |-> {}, reach |-> 0]

Read(area, w) == IF w \in DOMAIN area.mem THEN area.mem[w] ELSE Junk

\* Writes the sequence "words" from the address "at" on.
Write(area, at, words) ==
    LET written == at .. at + Len(words) - 1
    IN  [area EXCEPT !.mem = [w \in DOMAIN @ \cup written |->
                                 IF w \in written THEN words[w - at + 1] ELSE @[w]]]

Alloc(area, size) == aligned(area.ptr - size)

Header(at) == at - ALIGNMENT

\* The pointer must stay above the bottom: "buf", which shares it with "ptr".
bump_malloc(area, size) ==
    LET at  == Alloc(area, size)
        ptr == Header(at)
    IN  IF ~area.ok \/ ptr <= 0 THEN [area EXCEPT !.ok = FALSE]
        ELSE Write([area EXCEPT !.ptr = ptr,
                                !.blocks = @ \cup {[at |-> at, size |-> size]}],
                   ptr, <<size>>)

\* slip: one word less is copied than the old block has
Copied_Short(area, at) == Read(area, Header(at)) - 2

\* It is the header of the new block that says how much is copied.
Copied(area, at) == Read(area, Header(at))

bump_realloc(area, old, new_size) ==
    LET at    == Alloc(area, new_size)
        grown == bump_malloc(area, new_size)
        size  == Copied(grown, at)
    IN  IF ~grown.ok THEN grown
        ELSE Write([grown EXCEPT !.reach = IF old + size > @ THEN old + size ELSE @],
                   at, [k \in 1 .. size |-> Read(grown, old + k - 1)])
-----------------------------------------------------------------------------
\* The words of a block and of its header.
Words(block) == Header(block.at) .. block.at + block.size - 1

\* Allocations, headers and the pointer of the area never overlap, and no copy reads
\* past the end of the area, though every one reads past the end of the old block.
Sound(area) ==
    /\ \A b \in area.blocks :
          /\ Words(b) \subseteq 1 .. Size - 1
          /\ Read(area, Header(b.at)) = b.size
          /\ \A c \in area.blocks \ {b} : Words(b) \cap Words(c) = {}
    /\ area.reach <= Size
=============================================================================
