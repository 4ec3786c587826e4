------------------------------ MODULE CoreList ------------------------------
(* The linked list of CoreMark (software/coremark/core_list_join.c).  A heap h *)
(* holds the next pointer and the info pointer of every list_head and the two  *)
(* fields of every list_data; the cells are numbered from 1 in the order in    *)
(* which the memory block hands them out, and 0 is NULL.                       *)
EXTENDS CoreUtil, Sequences, SequencesExt

NULL == 0

Low(d) == d % 256                                  \* the data and its cached result
Cached(d) == (d \div 128) % 2 = 1                  \* bit 7
Item(h, c) == h.data[h.info[c]]

(* The cells from c to the end of the list.                                   *)
RECURSIVE Walk(_, _)
Walk(h, c) == IF c = NULL THEN <<>> ELSE <<c>> \o Walk(h, h.next[c])

(* The data along the list from cell c.                                       *)
Contents(h, c) == LET w == Walk(h, c) IN [i \in 1 .. Len(w) |-> Item(h, w[i])]

-----------------------------------------------------------------------------
(* core_list_init: a head and a tail item, then items put in behind the head  *)
(* while core_list_insert_new finds room in the block, then indices along the  *)
(* list.  Room is for one cell less than the block has.                        *)
Slots(size) == size \div 20 - 2

DataOf(seed, i) == LET dat == ((seed % 16) ^^ (i % 16)) * 8 + (i % 8) IN dat * 257

IndexOf(seed, size, i) ==
    IF i < Slots(size) \div 5 THEN i
    ELSE LET pat == i ^^ (seed % 65536)
         IN  ((((i + 1) % 8) * 256) | pat) % 16384

core_list_init(size, seed) ==
    LET n == Slots(size) - 1
        place(c) == n - c + 1                 \* position of cell c behind the head
    IN  [next |-> [c \in 1 .. n |-> CASE c = 1 -> IF n > 2 THEN n ELSE 2
                                      [] c = 2 -> NULL
                                      [] OTHER -> c - 1],
         info |-> [c \in 1 .. n |-> c],
         data |-> [c \in 1 .. n |->
                     CASE c = 1 -> [data16 |-> 32896, idx |-> 0]
                       [] c = 2 -> [data16 |-> 65535, idx |-> 32767]
                       [] OTHER -> [data16 |-> DataOf(seed, c - 3), idx |-> IndexOf(seed, size, place(c))]]]

-----------------------------------------------------------------------------
(* core_list_find: by index, or by the low byte of the data if idx < 0.       *)
core_list_find(h, list, info) ==
    LET w == Walk(h, list)
        Match(c) == IF info.idx >= 0 THEN Item(h, c).idx = info.idx
                    ELSE Low(Item(h, c).data16) = info.data16
        hits == {i \in DOMAIN w : Match(w[i])}
    IN  IF hits = {} THEN NULL ELSE w[CHOOSE i \in hits : \A j \in hits : i <= j]

core_list_reverse(h, list) ==
    LET w == Walk(h, list)
        link == [i \in DOMAIN w |-> IF i = 1 THEN NULL ELSE w[i - 1]]
    IN  [h EXCEPT !.next = [c \in DOMAIN h.next |->
                              IF \E i \in DOMAIN w : w[i] = c
                              THEN link[CHOOSE i \in DOMAIN w : w[i] = c] ELSE h.next[c]]]

(* A definition whose name ends in Mut is a faulty variant of the next one; no *)
(* specification uses it.                                                      *)
MoveToFrontMut(h, list, c) ==    \* list->next is not set: the cell drops out
    LET f == h.next[c]
        n1 == [h.next EXCEPT ![c] = h.next[f]]
    IN  [h EXCEPT !.next = [n1 EXCEPT ![f] = n1[list]]]

(* The cell behind c is moved behind the head.                                *)
MoveToFront(h, list, c) ==
    LET f == h.next[c]
        n1 == [h.next EXCEPT ![c] = h.next[f]]
        n2 == [n1 EXCEPT ![f] = n1[list]]
    IN  [h EXCEPT !.next = [n2 EXCEPT ![list] = f]]

SwapInfo(h, c, d) == [h EXCEPT !.info = [@ EXCEPT ![c] = h.info[d], ![d] = h.info[c]]]

(* The item of cell c leaves the list, in the cell that was behind c.         *)
core_list_remove(h, c) ==
    LET r == h.next[c]
    IN  [SwapInfo(h, c, r) EXCEPT !.next = [@ EXCEPT ![c] = h.next[r], ![r] = NULL]]

core_list_undo_remove(h, removed, modified) ==
    [SwapInfo(h, removed, modified) EXCEPT
       !.next = [@ EXCEPT ![removed] = h.next[modified], ![modified] = removed]]

-----------------------------------------------------------------------------
(* core_list_mergesort.  Its locals are a record s; more says that the merge   *)
(* of the two runs at p and q goes on.                                         *)
RECURSIVE Ahead(_, _, _)
Ahead(h, c, n) == IF n = 0 \/ c = NULL THEN c ELSE Ahead(h, h.next[c], n - 1)

Runs(h, s, p) ==
    LET q == Ahead(h, p, s.insize)
    IN  [s EXCEPT !.p = p, !.q = q, !.qsize = s.insize, !.nmerges = @ + 1,
                  !.psize = CHOOSE k \in 1 .. s.insize :
                              Ahead(h, p, k) = q /\ \A j \in 1 .. k - 1 : Ahead(h, p, j) # q]

Pass(h, list, insize, s) ==
    Runs(h, [s EXCEPT !.insize = insize, !.nmerges = 0, !.list = NULL, !.tail = NULL], list)

More(s) == s.psize > 0 \/ (s.qsize > 0 /\ s.q # NULL)
Both(s) == s.psize > 0 /\ s.qsize > 0 /\ s.q # NULL

(* Appends the next element, from p or from q.                                *)
Link(h, s, e) == IF s.tail = NULL THEN h ELSE [h EXCEPT !.next[s.tail] = e]
Took(s, e) == [s EXCEPT !.list = IF s.tail = NULL THEN e ELSE @, !.tail = e]
TakeP(h, s) == Took([s EXCEPT !.p = h.next[s.p], !.psize = @ - 1], s.p)
TakeQ(h, s) == Took([s EXCEPT !.q = h.next[s.q], !.qsize = @ - 1], s.q)

(* cmp_idx puts the backup byte back into the data of what it compares; it is  *)
(* always called with res = NULL.                                              *)
Rebuilt(h, c) == [h EXCEPT !.data[h.info[c]].data16 = (@ \div 256) * 257]
=============================================================================
