------------------------------- MODULE SyncFifo -------------------------------
(***************************************************************************)
(* FIFO (M0_SYS/fifo.v): the circular byte buffer on each side of the      *)
(* UART, as a record and the function one clock edge applies to it.        *)
(***************************************************************************)
EXTENDS Integers, Sequences

CONSTANTS
  Data,    \* the byte values
  Depth    \* 2**AWIDTH

ASSUME SyncFifoAssumption == Depth \in Nat /\ Depth >= 2 /\ Data # {}

Slot == 0 .. (Depth - 1)
Fifo == [arr : [Slot -> Data], w : Slot, r : Slot, full : BOOLEAN, empty : BOOLEAN]

\* The pointers reset, the array does not: its bytes are whatever it held.
FifoInit(f) == \E a \in [Slot -> Data] :
  f = [arr |-> a, w |-> 0, r |-> 0, full |-> FALSE, empty |-> TRUE]

\* w_ptr_succ and r_ptr_succ wrap at 2**AWIDTH.
Succ(p) == IF p + 1 = Depth THEN 0 ELSE p + 1

\* A definition whose name ends in Mut is a faulty variant of the next one,
\* as a plausible mistake in the code would make it; no specification uses
\* it, it shows that the properties can tell the difference.
PopMut(f) == [f EXCEPT !.r = Succ(f.r), !.empty = Succ(f.r) = f.w] \* full stays
\* case {w_en, rd}: 01, 10, 11.
Pop(f) == [f EXCEPT !.r = Succ(f.r), !.full = FALSE, !.empty = Succ(f.r) = f.w]
Push(f, d) == [f EXCEPT !.arr[f.w] = d, !.w = Succ(f.w),
                        !.empty = FALSE, !.full = Succ(f.w) = f.r]
PushPopMut(f, d) == [f EXCEPT !.arr[f.w] = d, !.w = Succ(f.w)] \* rd ignored
\* Both pointers move; the flags stay.  On an empty buffer the byte written
\* is therefore skipped and lost.
PushPop(f, d) == [f EXCEPT !.arr[f.w] = d, !.w = Succ(f.w), !.r = Succ(f.r)]

FifoStepMut(f, rd, wr, d) == \* w_en not masked by full
  LET w_en == wr
  IN  CASE ~w_en /\ rd /\ ~f.empty -> Pop(f)
        [] w_en /\ ~rd -> Push(f, d)
        [] w_en /\ rd -> PushPop(f, d)
        [] OTHER -> f
\* One rising edge of clk with the ports at rd, wr and w_data.
FifoStep(f, rd, wr, d) ==
  LET w_en == wr /\ ~f.full
  IN  CASE ~w_en /\ rd /\ ~f.empty -> Pop(f)
        [] w_en /\ ~rd -> Push(f, d)
        [] w_en /\ rd -> PushPop(f, d)
        [] OTHER -> f

\* r_data: the byte under the read pointer, whether there is one or not.
Head0(f) == f.arr[f.r]

-----------------------------------------------------------------------------
\* What the buffer holds, oldest first.
Count(f) == IF f.full THEN Depth
            ELSE IF f.w >= f.r THEN f.w - f.r ELSE f.w - f.r + Depth
At(p, k) == IF p + k >= Depth THEN p + k - Depth ELSE p + k
Contents(f) == [i \in 1 .. Count(f) |-> f.arr[At(f.r, i - 1)]]

\* The flags say which of the two a buffer with equal pointers is.
FlagsOK(f) == /\ f.w = f.r <=> (f.full \/ f.empty)
              /\ ~(f.full /\ f.empty)
=============================================================================
