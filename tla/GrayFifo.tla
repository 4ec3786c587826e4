------------------------------- MODULE GrayFifo -------------------------------
(***************************************************************************)
(* fifo_async (ADC_MODULE/adc_fifo_async.v) with the words its             *)
(* synchronisers really carry: Gray words of the pointers, compared bit    *)
(* for bit by full and empty.  A synchroniser that samples while a word    *)
(* changes catches each changing bit old or new.                           *)
(*                                                                         *)
(* It implements AsyncFifo, where the registers hold pointers: this is     *)
(* what justifies that module's Full, Empty and Torn.                      *)
(***************************************************************************)
EXTENDS Naturals, Sequences, Bitwise

CONSTANTS Data, Zero, AddrWidth

data_depth == 2 ^ AddrWidth
Lanes == 4
Size == 2 * data_depth       \* the pointers have AddrWidth + 1 bits
Bits == 0 .. AddrWidth
Word == 0 .. (Size - 1)

VARIABLES
  ram, wptr, rptr,
  rg1, rg2,        \* rd_addr_gray_d1, rd_addr_gray_d2
  wg1, wg2,        \* wr_addr_gray_d1, wr_addr_gray_d2
  dout

wrVars == <<ram, wptr, rg1, rg2>>
rdVars == <<rptr, wg1, wg2, dout>>
vars == <<ram, wptr, rptr, rg1, rg2, wg1, wg2, dout>>

Gray(p) == shiftR(p, 1) ^^ p
Bit(w, i) == shiftR(w, i) % 2
Addr(p) == p % data_depth

\* The words a flip-flop chain can catch while its input goes from v to w.
Caught(v, w) ==
  {u \in Word : \A i \in Bits : Bit(u, i) \in {Bit(v, i), Bit(w, i)}}

\* A faulty variant of the next definition: only the top bit inverted.
FlipTopMut(w) == w ^^ (2 ^ AddrWidth)

\* {~w[top two bits], w[the others]}
FlipTop(w) == w ^^ (3 * 2 ^ (AddrWidth - 1))

full == Gray(wptr) = FlipTop(rg2)
empty == Gray(rptr) = wg2

Init ==
  /\ ram = [s \in 0 .. (data_depth - 1) |-> Zero]
  /\ wptr = 0 /\ rptr = 0
  /\ rg1 = 0 /\ rg2 = 0 /\ wg1 = 0 /\ wg2 = 0
  /\ dout = <<>>

\* One rising edge of wr_clk and of rd_clk, the synchronisers' first
\* flip-flops excepted.
WriteSide(en, d) ==
  /\ IF en /\ ~full
       THEN /\ ram' = [ram EXCEPT ![Addr(wptr)] = d]
            /\ wptr' = (wptr + 1) % Size
       ELSE UNCHANGED <<ram, wptr>>
  /\ rg2' = rg1

ReadSide(en) ==
  /\ IF en /\ ~empty
       THEN /\ dout' = [i \in 1 .. Lanes |-> ram[Addr(rptr) + i - 1]]
            /\ rptr' = (rptr + Lanes) % Size
       ELSE dout' = <<>> /\ UNCHANGED rptr
  /\ wg2' = wg1

\* The pointer a Gray word stands for.
Decode(w) == CHOOSE p \in Word : Gray(p) = w

\* The external reader strobes only when it sees whole words.
Aligned == (Decode(wg2) + Size - rptr) % Lanes = 0

WrEdge(en, d) == WriteSide(en, d) /\ rg1' = Gray(rptr) /\ UNCHANGED rdVars
RdEdge(en) == (en => Aligned) /\ ReadSide(en) /\ wg1' = Gray(wptr) /\ UNCHANGED wrVars
BothEdges(wen, d, ren) ==
  /\ ren => Aligned
  /\ WriteSide(wen, d)
  /\ ReadSide(ren)
  /\ rg1' \in Caught(Gray(rptr), Gray(rptr'))
  /\ wg1' \in Caught(Gray(wptr), Gray(wptr'))

Next ==
  \E en \in BOOLEAN, d \in Data :
    \/ WrEdge(en, d)
    \/ RdEdge(en)
    \/ \E ren \in BOOLEAN : BothEdges(en, d, ren)

Spec == Init /\ [][Next]_vars

-----------------------------------------------------------------------------
\* Decoded, every step of the Gray-coded FIFO is a step of the pointer
\* FIFO: the write pointer's Gray code never tears, the read pointer's
\* tears into exactly the pointers AsyncFifo allows, and full and empty on
\* Gray words say what they say on pointers.
Pointers == INSTANCE AsyncFifo WITH Depth <- data_depth,
  rs1 <- Decode(rg1), rs2 <- Decode(rg2), ws1 <- Decode(wg1), ws2 <- Decode(wg2)
ImplementsPointers == Pointers!Spec
=============================================================================
