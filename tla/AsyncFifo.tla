------------------------------ MODULE AsyncFifo ------------------------------
(***************************************************************************)
(* fifo_async (ADC_MODULE/adc_fifo_async.v): the dual-clock FIFO that      *)
(* carries one ADC chain's bytes from HCLK to external_module_rd_clk.      *)
(* Bytes are written one per wr_clk edge; a read takes Lanes of them.      *)
(*                                                                         *)
(* The pointers carry one bit more than an address, so they count modulo   *)
(* 2*Depth.  Each side sees the other's pointer through two flip-flops     *)
(* (rs1, rs2 in the write domain, ws1, ws2 in the read domain).  The code  *)
(* sends Gray words through them; here a register holds the pointer its    *)
(* Gray word decodes to, and module GrayFifo, which keeps the words,       *)
(* refines this one.                                                       *)
(*                                                                         *)
(* The read pointer advances by Lanes, so its Gray word changes in two     *)
(* bits.  When both clocks rise together the write side may catch one bit  *)
(* new and the other old: Torn gives the pointers such a word decodes to.  *)
(***************************************************************************)
EXTENDS Integers, Sequences

CONSTANTS
  Data,    \* the byte values
  Zero,    \* the byte the RAM is reset to
  Depth    \* data_depth: bytes of RAM

Lanes == 4 \* bytes per word read: read_data_width / wirte_data_width

\* A power of two in the code (data_depth = 2^addr_width); the arguments
\* below need no more than this.
ASSUME DepthAssumption == Depth \in Nat /\ Depth >= 4 /\ Depth % 4 = 0
ASSUME DataAssumption == Zero \in Data

VARIABLES
  ram,      \* fifo_ram
  wptr,     \* wr_addr_ptr
  rptr,     \* rd_addr_ptr
  rs1, rs2, \* rd_addr_gray_d1, rd_addr_gray_d2, decoded
  ws1, ws2, \* wr_addr_gray_d1, wr_addr_gray_d2, decoded
  dout      \* <<>> while valid is low, else the word on dout

wrVars == <<ram, wptr, rs1, rs2>>
rdVars == <<rptr, ws1, ws2, dout>>
vars == <<ram, wptr, rs1, rs2, rptr, ws1, ws2, dout>>

Ptr == 0 .. (2 * Depth - 1)
Slot == 0 .. (Depth - 1)

\* Pointer arithmetic modulo 2*Depth, for 0 <= k < 2*Depth.
Plus(p, k) == IF p + k >= 2 * Depth THEN p + k - 2 * Depth ELSE p + k

\* How far pointer a is ahead of pointer b.
Dist(a, b) == IF a >= b THEN a - b ELSE a - b + 2 * Depth

\* The RAM address of a pointer: its low addr_width bits.
Addr(p) == IF p >= Depth THEN p - Depth ELSE p

\* "the two top bits differ": the write pointer is one lap ahead.
Full == wptr = Plus(rs2, Depth)
Empty == rptr = ws2

\* What the write side can catch of a read pointer that moves from p by
\* Lanes during the edge: old, new, or one of two torn words.
Torn(p) == {p, Plus(p, 3), Plus(p, 4), Plus(p, 7)}

-----------------------------------------------------------------------------
Init ==
  /\ ram = [s \in Slot |-> Zero]
  /\ wptr = 0 /\ rptr = 0
  /\ rs1 = 0 /\ rs2 = 0 /\ ws1 = 0 /\ ws2 = 0
  /\ dout = <<>>

\* A definition whose name ends in Mut is a faulty variant of the next one,
\* as a plausible mistake in the code would make it; no specification uses
\* it, it shows that the properties can tell the difference.
WriteSideMut(en, d) ==      \* full ignored
  /\ IF en
       THEN /\ ram' = [ram EXCEPT ![Addr(wptr)] = d]
            /\ wptr' = Plus(wptr, 1)
       ELSE UNCHANGED <<ram, wptr>>
  /\ rs2' = rs1

WriteSideStuckMut(en, d) == \* the second flip-flop forgotten
  /\ IF en /\ ~Full
       THEN /\ ram' = [ram EXCEPT ![Addr(wptr)] = d]
            /\ wptr' = Plus(wptr, 1)
       ELSE UNCHANGED <<ram, wptr>>
  /\ UNCHANGED rs2

\* What one wr_clk edge does in its own domain, rs1 excepted.
WriteSide(en, d) ==
  /\ IF en /\ ~Full
       THEN /\ ram' = [ram EXCEPT ![Addr(wptr)] = d]
            /\ wptr' = Plus(wptr, 1)
       ELSE UNCHANGED <<ram, wptr>>
  /\ rs2' = rs1

ReadSideMut(en) ==          \* empty ignored
  /\ IF en
       THEN /\ dout' = [i \in 1 .. Lanes |-> ram[Addr(rptr) + i - 1]]
            /\ rptr' = Plus(rptr, Lanes)
       ELSE dout' = <<>> /\ UNCHANGED rptr
  /\ ws2' = ws1

\* What one rd_clk edge does in its own domain, ws1 excepted.
ReadSide(en) ==
  /\ IF en /\ ~Empty
       THEN /\ dout' = [i \in 1 .. Lanes |-> ram[Addr(rptr) + i - 1]]
            /\ rptr' = Plus(rptr, Lanes)
       ELSE dout' = <<>> /\ UNCHANGED rptr
  /\ ws2' = ws1

WrEdge(en, d) == WriteSide(en, d) /\ rs1' = rptr /\ UNCHANGED rdVars

\* The reader strobes only while the bytes it can see make whole words: a
\* chain pads its frame to a multiple of Lanes and is read between frames.
\* empty alone does not give this: with 1..3 bytes visible it is low.
Aligned == Dist(ws2, rptr) % Lanes = 0

RdEdge(en) == (en => Aligned) /\ ReadSide(en) /\ ws1' = wptr /\ UNCHANGED wrVars

\* Both clocks rise within each other's setup window.
BothEdges(wen, d, ren) ==
  /\ ren => Aligned
  /\ WriteSide(wen, d)
  /\ ReadSide(ren)
  /\ rs1' \in (IF rptr' = rptr THEN {rptr} ELSE Torn(rptr))
  /\ ws1' \in {wptr, wptr'}

Next ==
  \E en \in BOOLEAN, d \in Data :
    \/ WrEdge(en, d)
    \/ RdEdge(en)
    \/ \E ren \in BOOLEAN : BothEdges(en, d, ren)

Spec == Init /\ [][Next]_vars

\* Both clocks run for ever and the external reader keeps strobing.
Fairness == /\ WF_vars(\E en \in BOOLEAN, d \in Data : WrEdge(en, d))
            /\ WF_vars(RdEdge(TRUE)) /\ WF_vars(\E en \in BOOLEAN : RdEdge(en))
FairSpec == Spec /\ Fairness

-----------------------------------------------------------------------------
TypeOK ==
  /\ ram \in [Slot -> Data]
  /\ wptr \in Ptr /\ rptr \in Ptr
  /\ rs1 \in Ptr /\ rs2 \in Ptr /\ ws1 \in Ptr /\ ws2 \in Ptr
  /\ dout \in {<<>>} \cup [1 .. Lanes -> Data]

\* No unread byte is overwritten, whatever stale or torn pointer the full
\* flag is computed from: never more than Depth bytes are unread.
NoOverrun == Dist(wptr, rptr) <= Depth

\* The reader never sees a byte as present before it is in the RAM, so a
\* word is only taken when all of its bytes have been written.
NoUnderrun == Dist(ws2, rptr) <= Dist(wptr, rptr)

\* The order of the pointers that makes both hold.  Everything lies less
\* than one lap ahead of the oldest read pointer still in the write side's
\* synchroniser.  Floor undoes tearing: a torn word lies 3 past the old or
\* the new pointer, both multiples of 4.
Floor(p) == p - (p % 4)
Off(p) == Dist(p, Floor(rs2))
SyncInv ==
  /\ rptr % 4 = 0
  /\ rs1 % 4 \in {0, 3} /\ rs2 % 4 \in {0, 3}
  /\ Off(Floor(rs1)) <= Off(rptr)
  /\ Off(rptr) <= Off(ws2) /\ Off(ws2) <= Off(ws1) /\ Off(ws1) <= Off(wptr)
  /\ Off(wptr) <= Depth
  /\ rs2 % 4 = 3 => \/ Off(Floor(rs1)) >= 4
                    \/ Off(wptr) + 3 <= Depth
  /\ rs1 % 4 = 3 => \/ Off(Floor(rs1)) >= 4
                    \/ Off(rptr) >= Off(Floor(rs1)) + 4

\* A full FIFO that is being read does not stay full: the stale copy of
\* the read pointer always catches up.
FullClears == Full ~> ~Full

-----------------------------------------------------------------------------
\* The bytes of m from pointer r up to pointer w, in the order of reading.
Bytes(m, r, w) == [i \in 1 .. Dist(w, r) |-> m[Addr(Plus(r, i - 1))]]
InFlight == Bytes(ram, rptr, wptr)

Abs == INSTANCE ByteQueue WITH q <- InFlight, word <- dout
\* Everything the FIFO does is a step of the byte queue.
ImplementsQueue == Abs!Spec
=============================================================================
