----------------------------- MODULE CoreMatrix -----------------------------
(* The matrix part of CoreMark (software/coremark/core_matrix.c).  A matrix is *)
(* a function from 0 .. N*N - 1; A and B hold 16-bit signed numbers.           *)
EXTENDS CoreUtil

(* The largest N for which three matrices of N*N fit: 2 bytes each in A and B,*)
(* 4 in C.                                                                    *)
Dim(size) == CHOOSE n \in 0 .. size : n * n * 8 < size /\ (n + 1) * (n + 1) * 8 >= size

Cells(N) == 0 .. N * N - 1

(* core_init_matrix: a pseudo-random sequence, B from its low 16 bits and A   *)
(* from its low 8.                                                            *)
core_init_matrix(size, seed) ==
    LET N == Dim(size)
        s[order \in 0 .. N * N] ==
            IF order = 0 THEN (IF seed = 0 THEN 1 ELSE seed) ELSE (order * s[order - 1]) % 65536
        B == [e \in Cells(N) |-> S16(s[e + 1] + e + 1)]
    IN  [N |-> N, B |-> B, A |-> [e \in Cells(N) |-> (B[e] + e + 1) % 256], C |-> [e \in Cells(N) |-> 0]]

(* The sum of f[0] .. f[n - 1].                                               *)
SumTo(f, n) == LET t[k \in 0 .. n] == IF k = 0 THEN 0 ELSE t[k - 1] + f[k - 1] IN t[n]

matrix_add_const(A, val) == [e \in DOMAIN A |-> S16(A[e] + val)]
matrix_mul_const(A, val) == [e \in DOMAIN A |-> A[e] * val]

(* Only the first N cells of C are written: the rest keeps what the last step *)
(* left there.                                                                *)
matrix_mul_vect(N, C, A, B) ==
    [e \in DOMAIN C |->
       IF e < N THEN SumTo([j \in 0 .. N - 1 |-> A[e * N + j] * B[j]], N) ELSE C[e]]

Product(N, A, B, Term(_)) ==
    [e \in DOMAIN A |->
       SumTo([k \in 0 .. N - 1 |-> Term(A[(e \div N) * N + k] * B[k * N + (e % N)])], N)]

matrix_mul_matrix(N, A, B) == Product(N, A, B, LAMBDA x : x)
matrix_mul_matrix_bitextract(N, A, B) ==
    Product(N, A, B, LAMBDA x : ((x \div 4) % 16) * ((x \div 32) % 128))

(* matrix_sum: 10 for every time the running sum passes the clip value, which *)
(* restarts it, and 1 for every other cell above the one before it.           *)
matrix_sum(C, clipval) ==
    LET step[e \in {-1} \cup DOMAIN C] ==
          IF e = -1 THEN [tmp |-> 0, ret |-> 0]
          ELSE LET last == step[e - 1]
                   tmp == last.tmp + C[e]
                   prev == IF e = 0 THEN 0 ELSE C[e - 1]
               IN  IF tmp > clipval THEN [tmp |-> 0, ret |-> last.ret + 10]
                   ELSE [tmp |-> tmp, ret |-> last.ret + IF C[e] > prev THEN 1 ELSE 0]
        n == CHOOSE e \in DOMAIN C : e + 1 \notin DOMAIN C
    IN  S16(step[n].ret)

matrix_big(val) == S16(61440 + (val % 4096))
=============================================================================
