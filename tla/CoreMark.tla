------------------------------ MODULE CoreMark ------------------------------
(* The CoreMark benchmark of the E203 software kit (software/coremark): main,  *)
(* iterate and core_bench_list over the list, matrix and state modules.  One   *)
(* step is one search, one merge step, one matrix operation or one token.      *)
EXTENDS CoreList, CoreMatrix, CoreState

CONSTANTS Seeds,        \* records seed1, seed2, seed3, size: the data the build can give
          Iterations    \* iterations of the benchmark (800 in the code), at least 1

VARIABLES par,          \* the run's seeds and the bytes per algorithm
          pc,           \* where core_bench_list or what it calls is
          heap,         \* memblock[1]: the list's cells
          mat,          \* memblock[2]: the matrices, and matrix_test's checksum
          block,        \* memblock[3]: the text
          loc,          \* core_bench_list's locals
          sort,         \* core_list_mergesort's locals
          work,         \* calc_func's and core_bench_state's locals
          res,          \* the results, and how often iterate has gone round
          orig          \* the contents of the three parts when they had been set up

vars == <<par, pc, heap, mat, block, loc, sort, work, res, orig>>

NoSort == [p |-> NULL, q |-> NULL, psize |-> 0, qsize |-> 0, insize |-> 0, nmerges |-> 0,
           list |-> NULL, tail |-> NULL, cmp |-> "idx", then |-> "bench"]
NoWork == [slot |-> NULL, p |-> 0, final |-> NoCounts, track |-> NoCounts]
NoLoc == [finder_idx |-> 1, list |-> NULL, i |-> 0, idx |-> 0, found |-> 0, missed |-> 0, retval |-> 0]

(* main up to the call of iterate; core_list_init ends in a sort.             *)
Init ==
    /\ par \in Seeds
    /\ heap = core_list_init(par.size, par.seed1)
    /\ mat = core_init_matrix(par.size, par.seed1 + 65536 * par.seed2) @@ [crc |-> 0]
    /\ block = core_init_state(par.size, par.seed1)
    /\ sort = Pass(heap, 1, 1, NoSort)
    /\ pc = "sort"
    /\ loc = NoLoc /\ work = NoWork
    /\ res = [list |-> NULL, crc |-> 0, crclist |-> 0, crcmatrix |-> 0, crcstate |-> 0, i |-> 0, err |-> 0]
    /\ orig = <<>>

-----------------------------------------------------------------------------
(* A definition whose name ends in Mut is a faulty variant of the next one; no *)
(* specification uses it.                                                      *)

(* core_list_mergesort: cmp(p, q) <= 0.                                       *)
NotAfter(p, q) ==
    IF sort.cmp = "idx" THEN Item(heap, p).idx <= Item(heap, q).idx
    ELSE Item(heap, p).data16 % 128 <= Item(heap, q).data16 % 128

(* The first of p and q whose result calc_func has still to work out.         *)
Uncached == LET todo == SelectSeq(<<sort.p, sort.q>>, LAMBDA c : ~Cached(Item(heap, c).data16))
            IN  IF sort.cmp = "idx" \/ ~Both(sort) \/ todo = <<>> THEN NULL ELSE heap.info[Head(todo)]

Merge ==
    /\ pc = "sort" /\ More(sort) /\ Uncached = NULL
    /\ LET h == IF Both(sort) /\ sort.cmp = "idx" THEN Rebuilt(Rebuilt(heap, sort.p), sort.q) ELSE heap
           fromP == sort.psize > 0 /\ (~Both(sort) \/ NotAfter(sort.p, sort.q))
       IN  /\ heap' = Link(h, sort, IF fromP THEN sort.p ELSE sort.q)
           /\ sort' = IF fromP THEN TakeP(h, sort) ELSE TakeQ(h, sort)
    /\ UNCHANGED <<par, pc, mat, block, loc, work, res, orig>>

NextRuns ==
    /\ pc = "sort" /\ ~More(sort) /\ sort.q # NULL
    /\ sort' = Runs(heap, sort, sort.q)
    /\ UNCHANGED <<par, pc, heap, mat, block, loc, work, res, orig>>

NextPass ==
    /\ pc = "sort" /\ ~More(sort) /\ sort.q = NULL /\ sort.nmerges > 1
    /\ heap' = [heap EXCEPT !.next[sort.tail] = NULL]
    /\ sort' = Pass(heap', sort.list, 2 * sort.insize, sort)
    /\ UNCHANGED <<par, pc, mat, block, loc, work, res, orig>>

Sorted ==
    /\ pc = "sort" /\ ~More(sort) /\ sort.q = NULL /\ sort.nmerges <= 1
    /\ heap' = [heap EXCEPT !.next[sort.tail] = NULL]
    /\ pc' = sort.then
    /\ loc' = [loc EXCEPT !.list = sort.list]
    /\ sort' = NoSort
    /\ IF orig = <<>> THEN /\ orig' = <<Contents(heap', sort.list), mat.A, mat.B, block>>
                           /\ res' = [res EXCEPT !.list = sort.list]
       ELSE UNCHANGED <<orig, res>>
    /\ UNCHANGED <<par, mat, block, work>>

-----------------------------------------------------------------------------
(* calc_func for the item in work.slot: the kind of work is in its low three   *)
(* bits and an operand, doubled to eight bits, in the next four.               *)
Datum == heap.data[work.slot].data16
Operand == ((Datum \div 8) % 16) * 17
Step == IF Operand < 34 THEN 34 ELSE Operand

Calc ==
    /\ pc = "sort" /\ Uncached # NULL
    /\ work' = [NoWork EXCEPT !.slot = Uncached]
    /\ pc' = LET flag == heap.data[Uncached].data16 % 8
             IN  IF flag = 0 THEN "scan" ELSE IF flag = 1 THEN "add" ELSE "data"
    /\ UNCHANGED <<par, heap, mat, block, loc, sort, res, orig>>

(* The end of calc_func: the checksum, and the result in the item's low byte. *)
Return(retval, r) ==
    /\ res' = [r EXCEPT !.crc = crcu16(retval, res.crc)]
    /\ heap' = [heap EXCEPT !.data[work.slot].data16 = (@ \div 256) * 256 + 128 + (retval % 128)]
    /\ pc' = "sort"
    /\ work' = NoWork

CalcData ==
    /\ pc = "data"
    /\ Return(Datum, res)
    /\ UNCHANGED <<par, mat, block, loc, sort, orig>>

(* core_bench_state: both scans, and the corruption behind each.              *)
Scan(at, then) ==
    /\ pc = at
    /\ IF block[work.p] = 0 THEN pc' = then /\ UNCHANGED work
       ELSE LET t == core_state_transition(block, work.p, START, work.track)
            IN  /\ work' = [work EXCEPT !.p = t.p, !.track = t.track, !.final[t.state] = @ + 1]
                /\ UNCHANGED pc
    /\ UNCHANGED <<par, heap, mat, block, loc, sort, res, orig>>

ScanFirst == Scan("scan", "corrupt")
ScanAgain == Scan("rescan", "undo")

CorruptText ==
    /\ pc = "corrupt"
    /\ block' = Corrupt(block, par.seed1, Step)
    /\ work' = [work EXCEPT !.p = 0]
    /\ pc' = "rescan"
    /\ UNCHANGED <<par, heap, mat, loc, sort, res, orig>>

UndoCorruption ==
    /\ pc = "undo"
    /\ block' = Corrupt(block, par.seed2, Step)
    /\ LET r == CrcCounts(work.final, work.track, res.crc)
       IN  Return(r, IF res.crcstate = 0 THEN [res EXCEPT !.crcstate = r] ELSE res)
    /\ UNCHANGED <<par, mat, loc, sort, orig>>

(* matrix_test: each step leaves a matrix in C whose sum enters the checksum. *)
MatStep(at, C, then) ==
    /\ pc = at
    /\ mat' = [mat EXCEPT !.C = C, !.crc = crc16(matrix_sum(C, matrix_big(Operand)), mat.crc)]
    /\ pc' = then
    /\ UNCHANGED <<par, heap, block, loc, sort, work, res, orig>>

AddConst ==
    /\ pc = "add"
    /\ mat' = [mat EXCEPT !.A = matrix_add_const(@, Operand), !.crc = 0]
    /\ pc' = "const"
    /\ UNCHANGED <<par, heap, block, loc, sort, work, res, orig>>

MulConst == MatStep("const", matrix_mul_const(mat.A, Operand), "vect")
MulVect == MatStep("vect", matrix_mul_vect(mat.N, mat.C, mat.A, mat.B), "matrix")
MulMatrix == MatStep("matrix", matrix_mul_matrix(mat.N, mat.A, mat.B), "bits")
MulBits == MatStep("bits", matrix_mul_matrix_bitextract(mat.N, mat.A, mat.B), "restore")

RestoreConstMut ==               \* A keeps the constant
    /\ pc = "restore"
    /\ UNCHANGED mat
    /\ LET r == crc16(mat.crc, res.crc)
       IN  Return(r, IF res.crcmatrix = 0 THEN [res EXCEPT !.crcmatrix = r] ELSE res)
    /\ UNCHANGED <<par, block, loc, sort, orig>>

RestoreConst ==
    /\ pc = "restore"
    /\ mat' = [mat EXCEPT !.A = matrix_add_const(@, -Operand)]
    /\ LET r == crc16(mat.crc, res.crc)
       IN  Return(r, IF res.crcmatrix = 0 THEN [res EXCEPT !.crcmatrix = r] ELSE res)
    /\ UNCHANGED <<par, block, loc, sort, orig>>

-----------------------------------------------------------------------------
(* core_bench_list, with finder_idx 1 and then -1 in every iteration.         *)
Bench ==
    /\ pc = "bench"
    /\ loc' = [NoLoc EXCEPT !.finder_idx = loc.finder_idx, !.idx = loc.finder_idx, !.list = res.list]
    /\ pc' = "find"
    /\ UNCHANGED <<par, heap, mat, block, sort, work, res, orig>>

Find ==
    /\ pc = "find" /\ loc.i < par.seed3
    /\ LET hit == core_list_find(heap, loc.list, [idx |-> loc.idx, data16 |-> loc.i % 256])
           h == core_list_reverse(heap, loc.list)
           list == Last(Walk(heap, loc.list))
           Bit(c, b) == (Item(h, c).data16 \div 2^b) % 2
       IN  /\ heap' = IF hit # NULL /\ h.next[hit] # NULL THEN MoveToFront(h, list, hit) ELSE h
           /\ loc' = [loc EXCEPT
                !.list = list, !.i = @ + 1,
                !.idx = IF @ >= 0 THEN @ + 1 ELSE @,
                !.missed = @ + IF hit = NULL THEN 1 ELSE 0,
                !.found = @ + IF hit = NULL THEN 0 ELSE 1,
                !.retval = U16(@ + IF hit = NULL THEN Bit(h.next[list], 8)
                                   ELSE Bit(hit, 0) * Bit(hit, 9))]
    /\ UNCHANGED <<par, pc, mat, block, sort, work, res, orig>>

Sort(cmp, then) == sort' = Pass(heap', loc.list, 1, [NoSort EXCEPT !.cmp = cmp, !.then = then])

EndFind ==
    /\ pc = "find" /\ loc.i = par.seed3
    /\ loc' = [loc EXCEPT !.retval = U16(@ + loc.found * 4 - loc.missed)]
    /\ UNCHANGED heap
    /\ IF loc.finder_idx > 0 THEN pc' = "sort" /\ Sort("complex", "cut")
       ELSE pc' = "cut" /\ UNCHANGED sort
    /\ UNCHANGED <<par, mat, block, work, res, orig>>

(* The checksum takes the head's data once for every cell from c on.          *)
CrcRest(h, c, crc) ==
    LET n == Len(Walk(h, c))
        r[k \in 0 .. n] == IF k = 0 THEN crc ELSE crcu16(Item(h, loc.list).data16, r[k - 1])
    IN  r[n]

(* An item is taken out, the rest summed, and the item put back.              *)
Cut ==
    /\ pc = "cut"
    /\ LET first == heap.next[loc.list]
           removed == heap.next[first]
           h == core_list_remove(heap, first)
           hit == core_list_find(h, loc.list, [idx |-> loc.idx, data16 |-> U16(par.seed3 - 1) % 256])
           from == IF hit = NULL THEN h.next[loc.list] ELSE hit
       IN  /\ loc' = [loc EXCEPT !.retval = CrcRest(h, from, @)]
           /\ heap' = core_list_undo_remove(h, removed, h.next[loc.list])
    /\ pc' = "sort" /\ Sort("idx", "sum")
    /\ UNCHANGED <<par, mat, block, work, res, orig>>

(* The return to iterate, which goes on with finder_idx -1, or goes round.    *)
Sum ==
    /\ pc = "sum"
    /\ LET crc == crcu16(CrcRest(heap, heap.next[loc.list], loc.retval), res.crc)
           round == loc.finder_idx < 0
       IN  /\ res' = [res EXCEPT !.crc = crc, !.i = IF round THEN @ + 1 ELSE @,
                                 !.crclist = IF round /\ res.i = 0 THEN crc ELSE @]
           /\ loc' = [loc EXCEPT !.finder_idx = -@]
           /\ pc' = IF round /\ res.i + 1 = Iterations THEN "report" ELSE "bench"
    /\ UNCHANGED <<par, heap, mat, block, sort, work, orig>>

-----------------------------------------------------------------------------
(* main's check of the results against the tables of known results.           *)
SeedCrc == crc16(par.size, crc16(par.seed3, crc16(par.seed2, crc16(par.seed1, 0))))
Known == [crc \in {35330, 31493, 20143, 59893, 6386} |->
            CASE crc = 35330 -> <<54448, 48722, 24135>>     \* 0x8a02: d4b0 be52 5e47
              [] crc = 31493 -> <<13120, 4505, 14783>>      \* 0x7b05: 3340 1199 39bf
              [] crc = 20143 -> <<27257, 22024, 58788>>     \* 0x4eaf: 6a79 5608 e5a4
              [] crc = 59893 -> <<59156, 8151, 36410>>      \* 0xe9f5: e714 1fd7 8e3a
              [] crc = 6386  -> <<58305, 1863, 36228>>]     \* 0x18f2: e3c1 0747 8d84

Report ==
    /\ pc = "report"
    /\ pc' = "done"
    /\ LET got == <<res.crclist, res.crcmatrix, res.crcstate>>
           wrong(known) == Cardinality({k \in 1 .. 3 : got[k] # known[k]})
       IN  res' = [res EXCEPT !.err = IF SeedCrc \in DOMAIN Known THEN wrong(Known[SeedCrc]) ELSE -1]
    /\ UNCHANGED <<par, heap, mat, block, loc, sort, work, orig>>

Next ==
    \/ Merge \/ NextRuns \/ NextPass \/ Sorted
    \/ Calc \/ CalcData
    \/ ScanFirst \/ CorruptText \/ ScanAgain \/ UndoCorruption
    \/ AddConst \/ MulConst \/ MulVect \/ MulMatrix \/ MulBits \/ RestoreConst
    \/ Bench \/ Find \/ EndFind \/ Cut \/ Sum \/ Report

Spec == Init /\ [][Next]_vars /\ WF_vars(Next)

-----------------------------------------------------------------------------
(* The results are the known ones wherever main has them to compare with:      *)
(* every part does to its data exactly what the published benchmark does.      *)
Validated == pc = "done" => res.err = 0

(* "At the end of this function, the list is back to original state", and so  *)
(* are the matrices and the text: an iteration finds what the last one found.  *)
(* The sums alone could not tell.                                              *)
BackToOriginal ==
    pc \in {"bench", "report"} => orig = <<Contents(heap, res.list), mat.A, mat.B, block>>

(* What a merge sort has: the list merged so far, and the runs still to merge. *)
RunOf(c, n) == {Ahead(heap, c, k) : k \in 0 .. n - 1}
Merged == IF sort.list = NULL THEN {}
          ELSE LET w == Walk([heap EXCEPT !.next[sort.tail] = NULL], sort.list)
               IN  {w[i] : i \in DOMAIN w}
Listed(c) == LET w == Walk(heap, c) IN {w[i] : i \in DOMAIN w}

(* No cell is ever lost or in two places, through reversals, removals and      *)
(* every step of every merge, and the items only change places.                *)
NoItemLost ==
    /\ \A c \in DOMAIN heap.info : \E d \in DOMAIN heap.info : heap.info[d] = c
    /\ pc = "sort" =>
          LET run == IF sort.psize > 0 THEN RunOf(sort.p, sort.psize) ELSE {}
              rest == IF sort.q # NULL THEN Listed(sort.q) ELSE {}
          IN  /\ Merged \cup run \cup rest = DOMAIN heap.next
              /\ Merged \cap run = {} /\ Merged \cap rest = {} /\ run \cap rest = {}
    /\ pc \in {"bench", "find", "cut", "sum", "report"} =>
          Listed(IF pc \in {"bench", "report"} THEN res.list ELSE loc.list) = DOMAIN heap.next

(* The sort is one: by index before a sum, by the cached results before a cut. *)
InOrder ==
    LET s == Contents(heap, loc.list)
        key(item) == IF pc = "sum" THEN item.idx ELSE item.data16 % 128
    IN  pc = "sum" \/ (pc = "cut" /\ loc.finder_idx > 0) =>
          \A i \in 1 .. Len(s) - 1 : key(s[i]) <= key(s[i + 1])
=============================================================================
