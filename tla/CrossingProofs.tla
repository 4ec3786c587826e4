--------------------------- MODULE CrossingProofs ----------------------------
(***************************************************************************)
(* The two crossings of clocks: fifo_async, for every power-of-two (indeed *)
(* every multiple of four) depth and every set of bytes, and the timer,    *)
(* for every divider, counter width and set of loads of at least 2.        *)
(*                                                                         *)
(* The FIFO's argument works in distances, not in pointers: every pointer  *)
(* is measured by how far it lies ahead of the oldest read pointer the     *)
(* write side still holds (Off, in AsyncFifo).  In that measure the wrap-  *)
(* around disappears.  A write edge drops the oldest read pointer and so   *)
(* moves the point of measurement; DistRebase is what that does to         *)
(* distances.                                                              *)
(*                                                                         *)
(* OneInterruptEach is not inductive: it has to be known how far the       *)
(* counter is from its next expiry in each state of the interrupt's state  *)
(* machine.  While timer_irq_next is high the counter holds what it was    *)
(* reloaded with, at least 2, because one tick takes timer_irq_next away.  *)
(* So int_con, one clock after the flag was seen, is left before the       *)
(* counter can expire again.                                               *)
(***************************************************************************)
EXTENDS AsyncFifo, AhbTimer, SequenceTheorems, TLAPS

\* The pointers' part of TypeOK.
Ptrs == /\ wptr \in Ptr /\ rptr \in Ptr
        /\ rs1 \in Ptr /\ rs2 \in Ptr /\ ws1 \in Ptr /\ ws2 \in Ptr

IInv == TypeOK /\ SyncInv

-----------------------------------------------------------------------------
\* Adding to a pointer gives a pointer.
LEMMA PlusType == \A p \in Ptr : \A k \in {1, 3, 4, 7} : Plus(p, k) \in Ptr
  BY DepthAssumption, SMT DEF Ptr, Plus

\* A distance is less than a whole turn of the pointers.
LEMMA DistType ==
  \A p, q \in Ptr : Dist(p, q) \in 0 .. (2 * Depth - 1) /\ Dist(p, p) = 0
  BY DepthAssumption, SMT DEF Ptr, Dist

\* Moving a pointer forward moves its distance, short of a whole turn.
LEMMA DistPlus ==
  \A p, b \in Ptr : \A k \in {1, 3, 4, 7} :
    Dist(p, b) + k < 2 * Depth => Dist(Plus(p, k), b) = Dist(p, b) + k
  BY DepthAssumption, SMT DEF Ptr, Plus, Dist

\* Measuring from c, which lies between b and a, instead of from b.
LEMMA DistRebase ==
  \A a, b, c \in Ptr :
    Dist(c, b) <= Dist(a, b) => Dist(a, c) = Dist(a, b) - Dist(c, b)
  BY DepthAssumption, SMT DEF Ptr, Dist

\* Only a pointer itself is at distance zero.
LEMMA DistZero == \A a, b \in Ptr : Dist(a, b) = 0 => a = b
  BY DepthAssumption, SMT DEF Ptr, Dist

\* Floor gives a word-aligned pointer and leaves an aligned one alone.
LEMMA FloorType ==
  \A p \in Ptr : Floor(p) \in Ptr /\ Floor(p) % 4 = 0 /\ (p % 4 = 0 => Floor(p) = p)
  BY DepthAssumption, SMT DEF Ptr, Floor

\* A torn word lies 3 past the read pointer's old or new value.
LEMMA TornFloor ==
  \A p \in Ptr : p % 4 = 0 =>
    /\ Plus(p, 4) % 4 = 0 /\ Plus(p, 3) % 4 = 3 /\ Plus(p, 7) % 4 = 3
    /\ Floor(Plus(p, 3)) = p /\ Floor(Plus(p, 7)) = Plus(p, 4)
  BY DepthAssumption, SMT DEF Ptr, Plus, Floor

-----------------------------------------------------------------------------
\* With full low there is room for a byte, once the oldest read pointer is
\* dropped: even when the flag was computed from a torn pointer.
LEMMA NotFull ==
  ASSUME Ptrs, SyncInv, ~Full
  PROVE  Off(wptr) < Depth \/ Off(Floor(rs1)) >= 4
<1>1. CASE rs2 % 4 = 3
  BY <1>1, DepthAssumption, DistType, FloorType, SMT DEF SyncInv, Ptrs, Off
<1>2. CASE rs2 % 4 = 0
  <2>1. Floor(rs2) = rs2
    BY <1>2, FloorType DEF Ptrs
  <2>2. Dist(wptr, rs2) # Depth
    BY DepthAssumption, SMT DEF Ptrs, Full, Dist, Plus, Ptr
  <2> QED
    BY <2>1, <2>2, DepthAssumption, DistType, FloorType, SMT DEF SyncInv, Ptrs, Off
<1> QED
  BY <1>1, <1>2, SMT DEF SyncInv

\* What a wr_clk edge does to the pointers of the write side.
LEMMA WriteMoves ==
  ASSUME Ptrs, SyncInv, NEW en \in BOOLEAN, NEW d, WriteSide(en, d)
  PROVE  /\ wptr' \in Ptr /\ rs2' = rs1
         /\ Off(wptr) <= Off(wptr') /\ Off(wptr') <= Off(wptr) + 1
         /\ Off(wptr') <= Depth \/ Off(Floor(rs1)) >= 4
         /\ wptr' = wptr \/ wptr' = Plus(wptr, 1)
<1>0. Floor(rs2) \in Ptr
  BY FloorType DEF Ptrs
<1>1. CASE wptr' = wptr
  BY <1>0, <1>1, DistType, SMT DEF WriteSide, Ptrs, SyncInv, Off
<1>2. CASE ~Full /\ wptr' = Plus(wptr, 1)
  <2>1. Dist(wptr, Floor(rs2)) + 1 < 2 * Depth
    BY <1>0, DistType, DepthAssumption, SMT DEF SyncInv, Off, Ptrs
  <2>2. wptr' \in Ptr /\ Off(wptr') = Off(wptr) + 1
    BY <1>0, <2>1, <1>2, DistPlus, PlusType DEF Off, Ptrs
  <2> QED
    BY <1>0, <1>2, <2>2, NotFull, DistType, DepthAssumption, SMT
       DEF WriteSide, Ptrs, Off
<1> QED
  BY <1>1, <1>2 DEF WriteSide

\* What an rd_clk edge does to the pointers of the read side: a word is
\* taken only from among the bytes already seen as written.
LEMMA ReadMoves ==
  ASSUME Ptrs, SyncInv, NEW en \in BOOLEAN, en => Aligned, ReadSide(en)
  PROVE  /\ rptr' \in Ptr /\ rptr' % 4 = 0 /\ ws2' = ws1
         /\ Off(rptr') <= Off(ws2)
         /\ \/ rptr' = rptr
            \/ rptr' = Plus(rptr, 4) /\ Off(rptr') = Off(rptr) + 4
<1>0. Floor(rs2) \in Ptr
  BY FloorType DEF Ptrs
<1>1. CASE rptr' = rptr
  BY <1>0, <1>1, SMT DEF ReadSide, Ptrs, SyncInv
<1>2. CASE en /\ ~Empty /\ rptr' = Plus(rptr, 4)
  <2>1. Dist(ws2, rptr) = Off(ws2) - Off(rptr)
    BY <1>0, DistRebase DEF SyncInv, Ptrs, Off
  <2>2. Dist(ws2, rptr) # 0
    BY <1>2, DistZero DEF Ptrs, Empty
  <2>3. Dist(ws2, rptr) >= 4
    BY <2>2, <1>2, DistType, SMT DEF Ptrs, Aligned, Lanes
  <2>4. Off(rptr) + 4 <= Off(ws2)
    BY <1>0, <2>1, <2>3, DistType, SMT DEF Ptrs, Off
  <2>5. Off(rptr) + 4 < 2 * Depth
    BY <1>0, <2>4, DistType, DepthAssumption, SMT DEF SyncInv, Ptrs, Off
  <2>6. Off(rptr') = Off(rptr) + 4
    BY <1>0, <1>2, <2>5, DistPlus DEF Off, Ptrs
  <2> QED
    BY <1>2, <2>4, <2>6, PlusType, TornFloor DEF Ptrs, SyncInv, ReadSide
<1> QED
  BY <1>1, <1>2 DEF ReadSide, Lanes

-----------------------------------------------------------------------------
\* The initial state satisfies the invariant.
LEMMA InitInv == Init => IInv
<1> SUFFICES ASSUME Init PROVE IInv
  OBVIOUS
<1>1. 0 \in Ptr /\ Floor(0) = 0 /\ Dist(0, 0) = 0
  BY DepthAssumption, SMT DEF Ptr, Floor, Dist
<1>2. TypeOK
  BY <1>1, DataAssumption DEF Init, TypeOK
<1>3. SyncInv
  BY <1>1, DepthAssumption DEF Init, SyncInv, Off
<1> QED
  BY <1>2, <1>3 DEF IInv

\* A wr_clk edge preserves the order of the pointers.
LEMMA WrEdgeInv ==
  ASSUME Ptrs, SyncInv, NEW en \in BOOLEAN, NEW d, WrEdge(en, d)
  PROVE  Ptrs' /\ SyncInv'
<1> DEFINE o == Off(Floor(rs1))
<1>0. Floor(rs1) \in Ptr /\ Floor(rs2) \in Ptr
  BY FloorType DEF Ptrs
<1>1. /\ wptr' \in Ptr /\ rs2' = rs1 /\ rs1' = rptr
      /\ rptr' = rptr /\ ws1' = ws1 /\ ws2' = ws2
      /\ Off(wptr) <= Off(wptr') /\ Off(wptr') <= Off(wptr) + 1
      /\ Off(wptr') <= Depth \/ o >= 4
  BY WriteMoves DEF WrEdge, rdVars
<1>2. /\ Dist(rptr, Floor(rs1)) = Off(rptr) - o
      /\ Dist(ws1, Floor(rs1)) = Off(ws1) - o
      /\ Dist(ws2, Floor(rs1)) = Off(ws2) - o
      /\ Dist(wptr', Floor(rs1)) = Off(wptr') - o
  BY <1>0, <1>1, DistRebase, DistType, SMT DEF SyncInv, Ptrs, Off
<1>3. Floor(rptr) = rptr
  BY FloorType DEF Ptrs, SyncInv
<1>4. Ptrs'
  BY <1>1 DEF Ptrs
<1>5. SyncInv'
  BY <1>0, <1>1, <1>2, <1>3, DepthAssumption, DistType, SMT DEF SyncInv, Ptrs, Off
<1> QED
  BY <1>4, <1>5

\* An rd_clk edge preserves the order of the pointers.
LEMMA RdEdgeInv ==
  ASSUME Ptrs, SyncInv, NEW en \in BOOLEAN, RdEdge(en)
  PROVE  Ptrs' /\ SyncInv'
<1>0. Floor(rs1) \in Ptr /\ Floor(rs2) \in Ptr
  BY FloorType DEF Ptrs
<1>1. /\ rptr' \in Ptr /\ rptr' % 4 = 0
      /\ ws2' = ws1 /\ ws1' = wptr /\ wptr' = wptr /\ rs1' = rs1 /\ rs2' = rs2
      /\ Off(rptr) <= Off(rptr') /\ Off(rptr') <= Off(ws2)
  BY <1>0, ReadMoves, DistType, SMT DEF RdEdge, wrVars, Off, Ptrs
<1>2. Ptrs'
  BY <1>1 DEF Ptrs
<1>3. SyncInv'
  BY <1>0, <1>1, DepthAssumption, DistType, SMT DEF SyncInv, Ptrs, Off
<1> QED
  BY <1>2, <1>3

\* Edges of both clocks at once, with torn samples, preserve it too.
LEMMA BothEdgesInv ==
  ASSUME Ptrs, SyncInv, NEW wen \in BOOLEAN, NEW d, NEW ren \in BOOLEAN,
         BothEdges(wen, d, ren)
  PROVE  Ptrs' /\ SyncInv'
<1> DEFINE o == Off(Floor(rs1))
<1>0. Floor(rs1) \in Ptr /\ Floor(rs2) \in Ptr
  BY FloorType DEF Ptrs
<1>1. /\ wptr' \in Ptr /\ rs2' = rs1
      /\ Off(wptr) <= Off(wptr') /\ Off(wptr') <= Off(wptr) + 1
      /\ Off(wptr') <= Depth \/ o >= 4
      /\ ws1' \in {wptr, wptr'}
  BY WriteMoves DEF BothEdges
<1>2. /\ rptr' \in Ptr /\ rptr' % 4 = 0 /\ ws2' = ws1 /\ Off(rptr') <= Off(ws2)
      /\ \/ rptr' = rptr
         \/ rptr' = Plus(rptr, 4) /\ Off(rptr') = Off(rptr) + 4
  BY ReadMoves DEF BothEdges
<1>3. Off(rptr) \in Int /\ Off(rptr) <= Off(rptr')
  BY <1>0, <1>2, DistType, SMT DEF Off, Ptrs
<1>4. /\ rs1' \in Ptr
      /\ \/ rs1' % 4 = 0 /\ Floor(rs1') \in {rptr, rptr'}
         \/ /\ rs1' % 4 = 3
            /\ Off(rptr') = Off(rptr) + 4
            /\ Floor(rs1') \in {rptr, rptr'}
  <2>1. CASE rptr' = rptr
    BY <2>1, FloorType DEF BothEdges, Ptrs, SyncInv
  <2>2. CASE rptr' = Plus(rptr, 4) /\ Off(rptr') = Off(rptr) + 4
    <3>1. rs1' \in Torn(rptr) \cup {rptr}
      BY DEF BothEdges, Torn
    <3> QED
      BY <2>2, <3>1, FloorType, TornFloor, PlusType DEF Torn, Ptrs, SyncInv
  <2> QED
    BY <1>2, <2>1, <2>2
<1>5. /\ o <= Off(rptr) /\ o <= Off(rptr') /\ o <= Off(ws1)
      /\ o <= Off(wptr) /\ o <= Off(wptr')
  BY <1>0, <1>1, <1>2, <1>3, DistType, SMT DEF SyncInv, Ptrs, Off
<1>6. /\ Dist(rptr, Floor(rs1)) = Off(rptr) - o
      /\ Dist(rptr', Floor(rs1)) = Off(rptr') - o
      /\ Dist(ws1, Floor(rs1)) = Off(ws1) - o
      /\ Dist(wptr, Floor(rs1)) = Off(wptr) - o
      /\ Dist(wptr', Floor(rs1)) = Off(wptr') - o
  BY <1>0, <1>1, <1>2, <1>5, DistRebase DEF Ptrs, Off
<1>7. Ptrs'
  BY <1>1, <1>2, <1>4 DEF Ptrs
<1>8. SyncInv'
  <2>1. /\ Off(Floor(rs1))' <= Off(rptr)'
        /\ Off(Floor(rs1))' >= Off(rptr) - o
        /\ rs1' % 4 = 3 => Off(rptr)' >= Off(Floor(rs1))' + 4 \/ Off(Floor(rs1))' >= 4
    BY <1>0, <1>1, <1>2, <1>3, <1>4, <1>6, DistType, SMT DEF SyncInv, Ptrs, Off
  <2>2. /\ Off(rptr)' <= Off(ws2)' /\ Off(ws2)' <= Off(ws1)' /\ Off(ws1)' <= Off(wptr)'
        /\ Off(wptr)' <= Depth
    BY <1>0, <1>1, <1>2, <1>3, <1>6, DepthAssumption, DistType, SMT DEF SyncInv, Ptrs, Off
  <2>3. rs2' % 4 = 3 => Off(Floor(rs1))' >= 4 \/ Off(wptr)' + 3 <= Depth
    <3>1. Off(wptr)' = Off(wptr') - o
      BY <1>1, <1>6 DEF Off
    <3>2. rs1 % 4 = 3 => o >= 4 \/ Off(rptr) - o >= 4
      BY <1>0, <1>3, DistType, SMT DEF SyncInv, Ptrs, Off
    <3>3. o \in Int /\ Off(wptr') \in Int /\ Off(wptr') <= Depth + 1
      BY <1>0, <1>1, DepthAssumption, DistType, SMT DEF SyncInv, Ptrs, Off
    <3>4. Off(Floor(rs1))' \in Int
      BY <1>0, <1>1, <1>4, FloorType, DistType, SMT DEF Off
    <3> HIDE DEF o
    <3> QED
      BY <2>1, <1>1, <1>3, <3>1, <3>2, <3>3, <3>4, DepthAssumption, SMT
  <2> QED
    BY <2>1, <2>2, <2>3, <1>1, <1>2, <1>4 DEF SyncInv
<1> QED
  BY <1>7, <1>8

-----------------------------------------------------------------------------
\* The RAM addresses of a word that starts at an aligned pointer.
LEMMA WordSlots ==
  \A p \in Ptr : p % 4 = 0 => \A i \in 1 .. Lanes : Addr(p) + i - 1 \in Slot
  BY DepthAssumption, SMT DEF Ptr, Addr, Slot, Lanes

\* A pointer's address is one of the RAM's.
LEMMA AddrType == \A p \in Ptr : Addr(p) \in Slot
  BY DepthAssumption, SMT DEF Ptr, Addr, Slot

\* The RAM and the read port keep their types.
LEMMA DataType ==
  ASSUME IInv, NEW en \in BOOLEAN, NEW d \in Data
  PROVE  /\ WriteSide(en, d) => ram' \in [Slot -> Data]
         /\ ReadSide(en) => dout' \in {<<>>} \cup [1 .. Lanes -> Data]
<1>1. ASSUME WriteSide(en, d) PROVE ram' \in [Slot -> Data]
  BY <1>1, AddrType DEF WriteSide, IInv, TypeOK
<1>2. ASSUME ReadSide(en) PROVE dout' \in {<<>>} \cup [1 .. Lanes -> Data]
  <2>1. \A i \in 1 .. Lanes : ram[Addr(rptr) + i - 1] \in Data
    BY WordSlots DEF IInv, TypeOK, SyncInv
  <2> QED
    BY <1>2, <2>1 DEF ReadSide
<1> QED
  BY <1>1, <1>2

\* Every step preserves the invariant.
LEMMA NextInv == IInv /\ [Next]_vars => IInv'
<1> SUFFICES ASSUME IInv, [Next]_vars PROVE IInv'
  OBVIOUS
<1>0. Ptrs /\ SyncInv
  BY DEF IInv, TypeOK, Ptrs
<1>1. ASSUME NEW en \in BOOLEAN, NEW d \in Data, WrEdge(en, d) PROVE IInv'
  <2>1. Ptrs' /\ SyncInv'
    BY <1>0, <1>1, WrEdgeInv
  <2>2. ram' \in [Slot -> Data] /\ dout' = dout
    BY <1>1, DataType DEF WrEdge, rdVars
  <2> QED
    BY <2>1, <2>2 DEF IInv, TypeOK, Ptrs
<1>2. ASSUME NEW en \in BOOLEAN, RdEdge(en) PROVE IInv'
  <2>1. Ptrs' /\ SyncInv'
    BY <1>0, <1>2, RdEdgeInv
  <2>2. dout' \in {<<>>} \cup [1 .. Lanes -> Data] /\ ram' = ram
    BY <1>2, DataType, DataAssumption DEF RdEdge, wrVars
  <2> QED
    BY <2>1, <2>2 DEF IInv, TypeOK, Ptrs
<1>3. ASSUME NEW wen \in BOOLEAN, NEW d \in Data, NEW ren \in BOOLEAN,
             BothEdges(wen, d, ren)
      PROVE  IInv'
  <2>1. Ptrs' /\ SyncInv'
    BY <1>0, <1>3, BothEdgesInv
  <2>2. dout' \in {<<>>} \cup [1 .. Lanes -> Data] /\ ram' \in [Slot -> Data]
    BY <1>3, DataType DEF BothEdges
  <2> QED
    BY <2>1, <2>2 DEF IInv, TypeOK, Ptrs
<1>4. CASE UNCHANGED vars
  BY <1>4 DEF vars, IInv, TypeOK, SyncInv, Off
<1> QED
  BY <1>1, <1>2, <1>3, <1>4 DEF Next

\* The pointers of every reachable state are in range and in the order that
\* SyncInv gives them.
THEOREM Invariant == Spec => []IInv
<1>1. Init => IInv
  BY InitInv
<1>2. IInv /\ [Next]_vars => IInv'
  BY NextInv
<1> QED
  BY <1>1, <1>2, PTL DEF Spec

\* Pointers stay in range, the RAM and the read port hold bytes.
THEOREM TypeCorrect == Spec => []TypeOK
<1>1. IInv => TypeOK
  BY DEF IInv
<1> QED
  BY <1>1, Invariant, PTL

\* The order of the pointers through both synchronisers.
THEOREM SyncOrder == Spec => []SyncInv
<1>1. IInv => SyncInv
  BY DEF IInv
<1> QED
  BY <1>1, Invariant, PTL

\* fifo_async never writes over a byte that is still to be read, although
\* its full flag comes from a stale read pointer that may be torn.
THEOREM NeverOverruns == Spec => []NoOverrun
<1>1. IInv => NoOverrun
  <2> SUFFICES ASSUME IInv PROVE NoOverrun
    OBVIOUS
  <2>1. wptr \in Ptr /\ rptr \in Ptr /\ Floor(rs2) \in Ptr
    BY FloorType DEF IInv, TypeOK
  <2>2. Off(rptr) <= Off(wptr) /\ Off(wptr) <= Depth
    <3>1. {Off(rptr), Off(ws2), Off(ws1), Off(wptr)} \subseteq Int
      BY <2>1, DistType DEF IInv, TypeOK, Off
    <3> QED
      BY <3>1, SMT DEF IInv, SyncInv
  <2>3. Dist(wptr, rptr) = Off(wptr) - Off(rptr)
    BY <2>1, <2>2, DistRebase DEF Off
  <2> QED
    BY <2>1, <2>2, <2>3, DepthAssumption, DistType, SMT DEF NoOverrun, Off
<1> QED
  BY <1>1, Invariant, PTL

\* The read side never counts as present a byte that is not in the RAM.
THEOREM NeverUnderruns == Spec => []NoUnderrun
<1>1. IInv => NoUnderrun
  <2> SUFFICES ASSUME IInv PROVE NoUnderrun
    OBVIOUS
  <2>1. wptr \in Ptr /\ rptr \in Ptr /\ ws2 \in Ptr /\ Floor(rs2) \in Ptr
    BY FloorType DEF IInv, TypeOK
  <2>2. /\ Off(rptr) <= Off(wptr) /\ Off(rptr) <= Off(ws2) /\ Off(ws2) <= Off(wptr)
    <3>1. {Off(rptr), Off(ws2), Off(ws1), Off(wptr)} \subseteq Int
      BY <2>1, DistType DEF IInv, TypeOK, Off
    <3> QED
      BY <3>1, SMT DEF IInv, SyncInv
  <2>3. /\ Dist(wptr, rptr) = Off(wptr) - Off(rptr)
        /\ Dist(ws2, rptr) = Off(ws2) - Off(rptr)
    BY <2>1, <2>2, DistRebase DEF Off
  <2> QED
    BY <2>1, <2>2, <2>3, DistType, SMT DEF NoUnderrun, Off
<1> QED
  BY <1>1, Invariant, PTL

-----------------------------------------------------------------------------
\* The contents the RAM can have.
Ram == [Slot -> Data]

\* The pointers of the bytes in flight are pointers.
LEMMA WalkType ==
  \A r, w \in Ptr : \A i \in 1 .. Dist(w, r) : Plus(r, i - 1) \in Ptr
  BY DepthAssumption, SMT DEF Ptr, Plus, Dist

\* Walking from r the distance to w arrives at w.
LEMMA WalkEnd == \A r, w \in Ptr : Plus(r, Dist(w, r)) = w
  BY DepthAssumption, SMT DEF Ptr, Plus, Dist

\* With room to spare, the address written holds no byte in flight.
LEMMA WalkFresh ==
  \A r, w \in Ptr : Dist(w, r) < Depth =>
    \A i \in 1 .. Dist(w, r) : Addr(Plus(r, i - 1)) # Addr(w)
  BY DepthAssumption, SMT DEF Ptr, Plus, Dist, Addr

\* Four bytes further on, the walk is four bytes shorter.
LEMMA WalkShift ==
  \A r, w \in Ptr : Dist(w, r) >= 4 =>
    /\ Dist(w, Plus(r, 4)) = Dist(w, r) - 4
    /\ \A i \in 1 .. Dist(w, r) - 4 : Plus(Plus(r, 4), i - 1) = Plus(r, i + 3)
  BY DepthAssumption, SMT DEF Ptr, Plus, Dist

\* The four bytes of an aligned word are adjacent in the RAM: it never wraps.
LEMMA WordWalk ==
  \A r \in Ptr : r % 4 = 0 =>
    \A i \in 1 .. 4 : Addr(Plus(r, i - 1)) = Addr(r) + i - 1
  BY DepthAssumption, SMT DEF Ptr, Plus, Addr

\* The bytes in flight as a sequence.
LEMMA BytesSeq ==
  ASSUME NEW m \in Ram, NEW r \in Ptr, NEW w \in Ptr
  PROVE  /\ Bytes(m, r, w) \in Seq(Data)
         /\ Len(Bytes(m, r, w)) = Dist(w, r)
         /\ \A i \in 1 .. Dist(w, r) :
              /\ Bytes(m, r, w)[i] = m[Addr(Plus(r, i - 1))]
              /\ Bytes(m, r, w)[i] \in Data
<1>1. \A i \in 1 .. Dist(w, r) : m[Addr(Plus(r, i - 1))] \in Data
  BY WalkType, AddrType DEF Ram
<1>2. Dist(w, r) \in Nat
  BY DistType, DepthAssumption, SMT
<1>3. Bytes(m, r, w) \in [1 .. Dist(w, r) -> Data]
  BY <1>1 DEF Bytes
<1>4. Bytes(m, r, w) \in Seq(Data)
  BY <1>2, <1>3, SeqDef
<1> QED
  BY <1>1, <1>2, <1>3, <1>4, LenProperties DEF Bytes

\* Writing a byte and advancing the write pointer appends it.
LEMMA BytesAppend ==
  ASSUME NEW m \in Ram, NEW r \in Ptr, NEW w \in Ptr, NEW d \in Data,
         Dist(w, r) < Depth
  PROVE  Bytes([m EXCEPT ![Addr(w)] = d], r, Plus(w, 1))
           = Append(Bytes(m, r, w), d)
<1> DEFINE n == [m EXCEPT ![Addr(w)] = d]
           s == Bytes(n, r, Plus(w, 1))
           t == Append(Bytes(m, r, w), d)
<1>1. Plus(w, 1) \in Ptr /\ Dist(Plus(w, 1), r) = Dist(w, r)+1
  BY PlusType, DistPlus, DepthAssumption, DistType, SMT
<1>2. n \in Ram
  BY AddrType DEF Ram
<1>3. /\ s \in Seq(Data)
      /\ Len(s) = Dist(w, r)+1
      /\ \A i \in 1 .. Dist(w, r)+1 : s[i] = n[Addr(Plus(r, i - 1))]
  <2> DEFINE v == Plus(w, 1)
             k == Dist(w, r)+1
  <2>1. v \in Ptr /\ Dist(v, r) = k /\ s = Bytes(n, r, v)
    BY <1>1
  <2> HIDE DEF n, s, v, k
  <2>2. /\ Bytes(n, r, v) \in Seq(Data)
        /\ Len(Bytes(n, r, v)) = Dist(v, r)
        /\ \A i \in 1 .. Dist(v, r) : Bytes(n, r, v)[i] = n[Addr(Plus(r, i - 1))]
    BY <2>1, <1>2, BytesSeq, Zenon
  <2>3. /\ s \in Seq(Data) /\ Len(s) = k
        /\ \A i \in 1 .. k : s[i] = n[Addr(Plus(r, i - 1))]
    BY <2>1, <2>2, Zenon
  <2> QED
    BY <2>3 DEF k
<1>4. /\ t \in Seq(Data)
      /\ Len(t) = Dist(w, r)+1
      /\ t[Dist(w, r)+1] = d
      /\ \A i \in 1 .. Dist(w, r) : t[i] = m[Addr(Plus(r, i - 1))]
  BY BytesSeq, AppendProperties
<1>5. \A i \in 1 .. Dist(w, r) : n[Addr(Plus(r, i - 1))] = m[Addr(Plus(r, i - 1))]
  BY WalkFresh, WalkType, AddrType DEF Ram
<1>6. n[Addr(Plus(r,Dist(w, r)))] = d
  BY WalkEnd, AddrType DEF Ram
<1>7. \A i \in 1 .. Dist(w, r)+1 : s[i] = t[i]
  <2> TAKE i \in 1 .. Dist(w, r)+1
  <2>0. Dist(w, r) \in Nat
    BY DistType, DepthAssumption, SMT
  <2> HIDE DEF s, t
  <2>1. CASE i = Dist(w, r)+1 
    <3>1. i - 1 = Dist(w, r)
      BY <2>1, DistType, SMT
    <3> QED
      BY <3>1, <2>1, <1>3, <1>4, <1>6
  <2>2. CASE i \in 1 .. Dist(w, r)
    BY <2>2, <1>3, <1>4, <1>5
  <2> QED
    BY <2>0, <2>1, <2>2, SMT
<1> HIDE DEF s, t
<1>8. s = t
  BY <1>3, <1>4, <1>7, SeqEqual
<1> QED
  BY <1>8 DEF s, t

\* Advancing the read pointer by a word drops the first four bytes.
LEMMA BytesRest ==
  ASSUME NEW m \in Ram, NEW r \in Ptr, NEW w \in Ptr, Dist(w, r) >= 4
  PROVE Bytes(m, Plus(r, 4), w) = SubSeq(Bytes(m, r, w), 5, Len(Bytes(m, r, w)))
<1> DEFINE b == Bytes(m, r, w)
           s == Bytes(m, Plus(r, 4), w)
           t == SubSeq(b, 5, Len(b))
<1>0. Dist(w, r) \in Nat
  BY DistType, DepthAssumption, SMT
<1>1. Plus(r, 4) \in Ptr /\ Dist(w, Plus(r, 4)) = Dist(w, r) - 4
  BY PlusType, WalkShift
<1>2. /\ s \in Seq(Data)
      /\ Len(s) = Dist(w, r) - 4
      /\ \A i \in 1 .. Dist(w, r)-4 : s[i] = m[Addr(Plus(Plus(r, 4), i - 1))]
  <2> DEFINE v == Plus(r, 4)
             k == Dist(w, r) - 4
  <2>1. v \in Ptr /\ Dist(w, v) = k /\ s = Bytes(m, v, w)
    BY <1>1
  <2> HIDE DEF s, v, k
  <2>2. /\ Bytes(m, v, w) \in Seq(Data)
        /\ Len(Bytes(m, v, w)) = Dist(w, v)
        /\ \A i \in 1 .. Dist(w, v) : Bytes(m, v, w)[i] = m[Addr(Plus(v, i - 1))]
    BY <2>1, BytesSeq, Zenon
  <2>3. /\ s \in Seq(Data) /\ Len(s) = k
        /\ \A i \in 1 .. k : s[i] = m[Addr(Plus(v, i - 1))]
    BY <2>1, <2>2, Zenon
  <2> QED
    BY <2>3 DEF v, k
<1>3. /\ b \in Seq(Data)
      /\ Len(b) = Dist(w, r)
      /\ \A i \in 1 .. Dist(w, r) : b[i] = m[Addr(Plus(r, i - 1))] /\ b[i] \in Data
  BY BytesSeq
<1> HIDE DEF b
<1>4. /\ t \in Seq(Data)
      /\ Len(t) = Dist(w, r) - 4
      /\ \A i \in 1 .. Dist(w, r) - 4 : t[i] = b[i+4]
  <2>1. \A i \in 5 .. Len(b) : b[i] \in Data
    BY <1>0, <1>3, SMT
  <2>2. /\ t \in Seq(Data) /\ Len(t) = (IF 5 <= Len(b) THEN Len(b)-5+1 ELSE 0)
         /\ \A i \in 1 .. Len(b)-5+1 : t[i] = b[5+i-1]
     BY <1>0, <1>3, <2>1, SubSeqProperties, SMT
  <2> QED
    BY <2>2, <1>0, <1>3, SMT
<1>5. \A i \in 1 .. Dist(w, r)-4 : i+4 \in 1 .. Dist(w, r) /\ (i+4)-1 = i+3
  BY <1>0, SMT
<1> HIDE DEF s, t
<1>6. \A i \in 1 .. Dist(w, r)-4 : s[i] = t[i]
  <2> TAKE i \in 1 .. Dist(w, r)-4
  <2>1. i+4 \in 1 .. Dist(w, r) /\ (i+4)-1 = i+3
    BY <1>5
  <2>2. Plus(Plus(r, 4), i - 1) = Plus(r, i+3)
    BY WalkShift
  <2>3. s[i] = m[Addr(Plus(r, i+3))]
    BY <1>2, <2>2, Zenon
  <2>4. t[i] = b[i+4] /\ b[i+4] = m[Addr(Plus(r, (i+4) - 1))]
    BY <1>3, <1>4, <2>1, Zenon
  <2> QED
    BY <2>1, <2>3, <2>4, Zenon
<1>7. s = t
  BY <1>2, <1>4, <1>6, SeqEqual
<1> QED
  BY <1>7 DEF s, t, b

\* The word read is the first four bytes in flight.
LEMMA BytesWord ==
  ASSUME NEW m \in Ram, NEW r \in Ptr, NEW w \in Ptr, r % 4=0, Dist(w, r) >= 4
  PROVE [i \in 1 .. Lanes |-> m[Addr(r)+i-1]] = SubSeq(Bytes(m, r, w), 1, Lanes)
<1> DEFINE b == Bytes(m, r, w)
           s == [i \in 1 .. Lanes |-> m[Addr(r)+i-1]]
           t == SubSeq(b, 1, Lanes)
<1>0. Dist(w, r) \in Nat
  BY DistType, DepthAssumption, SMT
<1>2. s \in Seq(Data) /\ Len(s) = 4 /\ \A i \in 1 .. 4 : s[i] = m[Addr(r)+i-1]
  <2>1. s \in [1 .. 4 -> Data]
    BY WordSlots DEF Lanes, Ram
  <2> QED
    BY <2>1, SeqDef, LenProperties DEF Lanes
<1>3. /\ b \in Seq(Data)
      /\ Len(b) = Dist(w, r)
      /\ \A i \in 1 .. Dist(w, r) : b[i] = m[Addr(Plus(r, i - 1))] /\ b[i] \in Data
  BY BytesSeq
<1> HIDE DEF b
<1>4. t \in Seq(Data) /\ Len(t) = 4 /\ \A i \in 1 .. 4 : t[i] = b[i]
  <2>1. \A i \in 1 .. 4 : b[i] \in Data
    BY <1>0, <1>3, SMT
  <2>2. /\ t \in Seq(Data) /\ Len(t) = (IF 1 <= 4 THEN 4-1+1 ELSE 0)
         /\ \A i \in 1 .. 4-1+1 : t[i] = b[1+i-1]
     BY <1>0, <1>3, <2>1, SubSeqProperties, SMT DEF Lanes
  <2> QED
    BY <2>2, SMT
<1>5. \A i \in 1 .. 4 : i \in 1 .. Dist(w, r)
  BY <1>0, SMT
<1>6. \A i \in 1 .. 4 : s[i] = t[i]
  BY <1>2, <1>3, <1>4, <1>5, WordWalk
<1> HIDE DEF s, t
<1>7. s = t
  BY <1>2, <1>4, <1>6, SeqEqual
<1> QED
  BY <1>7 DEF s, t, b

\* The FIFO starts as an empty queue.
LEMMA AbsInit == Init => Abs!Init
<1> SUFFICES ASSUME Init PROVE Abs!Init
  OBVIOUS
<1>1. 0 \in Ptr /\ Dist(0, 0) = 0
  BY DepthAssumption, SMT DEF Ptr, Dist
<1>2. InFlight = <<>>
  BY <1>1 DEF Init, InFlight, Bytes
<1> QED
  BY <1>2 DEF Init, Abs!Init

\* What the invariant says of the bytes in flight.
LEMMA Offs ==
  ASSUME IInv 
  PROVE /\ Ptrs /\ ram \in Ram /\ rptr % 4 = 0
        /\ {Off(Floor(rs1)), Off(rptr), Off(ws2), Off(wptr)} \subseteq Nat
        /\ /\ Off(Floor(rs1)) <= Off(rptr)
           /\ Off(rptr) <= Off(ws2)
           /\ Off(ws2) <= Off(wptr)
           /\ Off(wptr) <= Depth
        /\ Dist(wptr, rptr) = Off(wptr) - Off(rptr)
<1>1. Ptrs /\ SyncInv /\ ram \in Ram
  BY DEF IInv, TypeOK, Ptrs, Ram
<1>2. Floor(rs1) \in Ptr /\ Floor(rs2) \in Ptr
  BY <1>1, FloorType DEF Ptrs
<1>3. {Off(Floor(rs1)), Off(rptr), Off(ws2), Off(ws1), Off(wptr)} \subseteq Nat
  BY <1>1, <1>2, DistType, DepthAssumption, SMT DEF Ptrs, Off
<1>4. Off(rptr) <= Off(ws2) /\ Off(ws2) <= Off(wptr)
  BY <1>1, <1>3, SMT DEF SyncInv
<1>5. Off(rptr) <= Off(wptr)
  BY <1>3, <1>4, SMT
<1>6. Dist(wptr, rptr) = Off(wptr) - Off(rptr)
  BY <1>1, <1>2, <1>5, DistRebase DEF Ptrs, Off
<1> QED
  BY <1>1, <1>3, <1>4, <1>6 DEF SyncInv

\* A write that is taken finds room in the queue, as ByteQueue's Put needs.
LEMMA WriteMaps ==
  ASSUME IInv, NEW en \in BOOLEAN, NEW d \in Data, WriteSide(en, d)
  PROVE \/ wptr' = wptr /\ ram' = ram
        \/ /\ wptr' = Plus(wptr, 1)
           /\ ram' = [ram EXCEPT ![Addr(wptr)] = d]
           /\ Dist(wptr, rptr) < Depth
<1>1. CASE ~Full
  <2>1. Off(wptr) < Depth \/ Off(Floor(rs1)) >= 4
    BY <1>1, Offs, NotFull DEF IInv
  <2>2. Dist(wptr, rptr) < Depth
    BY <2>1, Offs, DepthAssumption, SMT
  <2> QED
    BY <2>2 DEF WriteSide
<1>2. CASE Full
  BY <1>2 DEF WriteSide
<1> QED
  BY <1>1, <1>2

\* A read that is taken finds a whole word in the queue and shows it.
LEMMA ReadMaps ==
  ASSUME IInv, NEW en \in BOOLEAN, en => Aligned, ReadSide(en)
  PROVE \/ rptr' = rptr /\ dout' = <<>>
        \/ /\ rptr' = Plus(rptr, 4)
           /\ Dist(wptr, rptr) >= 4
           /\ dout' = SubSeq(InFlight, 1, Lanes)
<1>1. CASE en /\ ~Empty
  <2>1. /\ rptr' = Plus(rptr, 4)
        /\ dout' = [i \in 1 .. Lanes |-> ram[Addr(rptr) + i - 1]]
    BY <1>1 DEF ReadSide, Lanes
  <2>2. rptr' # rptr
    <3>1. rptr \in Ptr
      BY Offs DEF Ptrs
    <3> QED
      BY <2>1, <3>1, DepthAssumption, SMT DEF Ptr, Plus
  <2>3. Off(rptr') = Off(rptr) + 4 /\ Off(rptr') <= Off(ws2)
    BY <2>2, Offs, ReadMoves DEF IInv
  <2>4. Dist(wptr, rptr) >= 4
    BY <2>3, Offs, SMT
  <2> QED
    BY <2>1, <2>4, Offs, BytesWord DEF Ptrs, InFlight
<1>2. CASE ~(en /\ ~Empty)
  BY <1>2 DEF ReadSide
<1> QED
  BY <1>1, <1>2

\* Every step of the FIFO is a step of the queue.
LEMMA AbsNext == IInv /\ [Next]_vars => [Abs!Next]_(Abs!vars)
<1> SUFFICES ASSUME IInv, [Next]_vars PROVE [Abs!Next]_(Abs!vars)
  OBVIOUS
<1>0. /\ ram \in Ram
      /\ rptr \in Ptr
      /\ wptr \in Ptr
      /\ Len(InFlight) = Dist(wptr, rptr)
      /\ Dist(wptr, rptr) \in Nat
  BY Offs, BytesSeq, DistType, DepthAssumption, SMT DEF Ptrs, InFlight
<1>a. ASSUME Dist(wptr, rptr) >= 4
      PROVE  Bytes(ram, Plus(rptr, 4), wptr) = Abs!Rest(InFlight)
  BY <1>a, <1>0, BytesRest DEF Abs!Rest, InFlight, Lanes
<1>1. ASSUME NEW en \in BOOLEAN, NEW d \in Data, WrEdge(en, d)
      PROVE  [Abs!Next]_(Abs!vars)
  <2>1. rptr' = rptr /\ dout' = dout
    BY <1>1 DEF WrEdge, rdVars
  <2>2. CASE wptr' = wptr /\ ram' = ram
    BY <2>1, <2>2 DEF Abs!vars, InFlight
  <2>3. CASE /\ wptr' = Plus(wptr, 1)
             /\ ram' = [ram EXCEPT ![Addr(wptr)] = d]
             /\ Dist(wptr, rptr) < Depth
    <3>1. InFlight' = Append(InFlight, d)
      BY <2>1, <2>3, <1>0, BytesAppend DEF InFlight
    <3>2. Abs!Put(d)
      BY <3>1, <2>1, <2>3, <1>0 DEF Abs!Put
    <3> QED
      BY <3>2 DEF Abs!Next
  <2> QED
    BY <1>1, <2>2, <2>3, WriteMaps DEF WrEdge
<1>2. ASSUME NEW en \in BOOLEAN, RdEdge(en) PROVE [Abs!Next]_(Abs!vars)
  <2>1. wptr' = wptr /\ ram' = ram
    BY <1>2 DEF RdEdge, wrVars
  <2>2. CASE rptr' = rptr /\ dout' = <<>>
    <3>1. Abs!Quiet
      BY <2>1, <2>2 DEF Abs!Quiet, InFlight
    <3> QED
      BY <3>1 DEF Abs!Next
  <2>3. CASE /\ rptr' = Plus(rptr, 4)
             /\ Dist(wptr, rptr) >= 4
             /\ dout' = SubSeq(InFlight, 1, Lanes)
    <3>1. InFlight' = Abs!Rest(InFlight)
      BY <1>a, <2>1, <2>3 DEF InFlight
    <3>2. Abs!Get
      BY <3>1, <2>3, <1>0 DEF Abs!Get, Lanes
    <3> QED
      BY <3>2 DEF Abs!Next
  <2> QED
    BY <1>2, <2>2, <2>3, ReadMaps DEF RdEdge
<1>3. ASSUME NEW wen \in BOOLEAN, NEW d \in Data, NEW ren \in BOOLEAN,
             BothEdges(wen, d, ren)
      PROVE  [Abs!Next]_(Abs!vars)
  <2>1. CASE wptr' = wptr /\ ram' = ram /\ rptr' = rptr /\ dout' = <<>>
    <3>1. Abs!Quiet
      BY <2>1 DEF Abs!Quiet, InFlight
    <3> QED
      BY <3>1 DEF Abs!Next
  <2>2. CASE /\ wptr' = wptr /\ ram' = ram
             /\ /\ rptr' = Plus(rptr, 4)
                /\ Dist(wptr, rptr) >= 4
                /\ dout' = SubSeq(InFlight, 1, Lanes)
    <3>1. InFlight' = Abs!Rest(InFlight)
      BY <1>a, <2>2 DEF InFlight
    <3>2. Abs!Get
      BY <3>1, <2>2, <1>0 DEF Abs!Get, Lanes
    <3> QED
      BY <3>2 DEF Abs!Next
  <2>3. CASE /\ wptr' = Plus(wptr, 1)
             /\ ram' = [ram EXCEPT ![Addr(wptr)] = d]
             /\ Dist(wptr, rptr) < Depth
             /\ rptr' = rptr /\ dout' = <<>>
    <3>1. InFlight' = Append(InFlight, d)
      BY <2>3, <1>0, BytesAppend DEF InFlight
    <3>2. Abs!PutQuiet(d)
      BY <3>1, <2>3, <1>0 DEF Abs!PutQuiet
    <3> QED
      BY <3>2 DEF Abs!Next
  <2>4. CASE /\ wptr' = Plus(wptr, 1)
             /\ ram' = [ram EXCEPT ![Addr(wptr)] = d]
             /\ Dist(wptr, rptr) < Depth
             /\ /\ rptr' = Plus(rptr, 4)
                /\ Dist(wptr, rptr) >= 4
                /\ dout' = SubSeq(InFlight, 1, Lanes)
    <3>1. Plus(rptr, 4) \in Ptr /\ Dist(wptr, Plus(rptr, 4)) < Depth
      BY <2>4, <1>0, WalkShift, PlusType, DepthAssumption, SMT
    <3>2. InFlight' = Append(Bytes(ram, Plus(rptr, 4), wptr), d)
      BY <2>4, <1>0, <3>1, BytesAppend DEF InFlight
    <3>3. InFlight' = Append(Abs!Rest(InFlight), d)
      BY <1>a, <2>4, <3>2
    <3>4. Abs!PutGet(d)
      BY <3>3, <2>4, <1>0 DEF Abs!PutGet, Lanes
    <3> QED
      BY <3>4 DEF Abs!Next
  <2>5. WriteSide(wen, d) /\ ReadSide(ren) /\ (ren => Aligned)
    BY <1>3 DEF BothEdges
  <2> QED
    BY <2>1, <2>2, <2>3, <2>4, <2>5, WriteMaps, ReadMaps
<1>4. CASE UNCHANGED vars
  BY <1>4 DEF vars, Abs!vars, InFlight
<1> QED
  BY <1>1, <1>2, <1>3, <1>4 DEF Next

\* fifo_async is a queue of bytes: whatever the two clocks, the stale
\* pointers and the torn samples do, bytes leave in the order they entered,
\* four at a time, none lost, none repeated, none invented.
THEOREM Implements == Spec => ImplementsQueue
<1>1. Init => Abs!Init
  BY AbsInit
<1>2. IInv /\ [Next]_vars => [Abs!Next]_(Abs!vars)
  BY AbsNext
<1> QED
  BY <1>1, <1>2, Invariant, PTL DEF Spec, Abs!Spec, ImplementsQueue

-----------------------------------------------------------------------------
\* The timer is not enabled, nor about to be, before it has been loaded.
Ready == \/ load \in Loads
         \/ ~control.enable /\ (phase.to = "control" => ~phase.data.enable)

\* How far the hand-over of the last expiry has come.
HandOver ==
  /\ state = "st_idle" => ~timer_irq_next /\ state1 = "int_gen"
  /\ timer_irq_next => value >= 2
  /\ state1 = "int_gen" => owed = (IF timer_irq_next THEN 1 ELSE 0) /\ timer_irq = FALSE
  /\ state1 = "int_con" => owed = 0 /\ value >= 1 /\ timer_irq = TRUE
  /\ state1 = "int_clr" => owed = 0

TimerIInv == TimerTypeOK /\ Ready /\ HandOver

-----------------------------------------------------------------------------
LEMMA TimerInitInv == ASSUME Bounds, TimerInit PROVE TimerIInv
<1>1. TimerTypeOK
  <2>1. phase \in Phases
    BY DEF TimerInit, Phases
  <2>2. control \in Control
    BY DEF TimerInit, Control
  <2>3. 0 \in 0 .. Half - 1 /\ 0 \in 0 .. Top
    BY DEF Bounds
  <2>4. [cnt |-> 0, out |-> FALSE] \in [cnt : 0 .. Half - 1, out : BOOLEAN]
    BY <2>3
  <2>5. clk16 \in [cnt : 0 .. Half - 1, out : BOOLEAN]
        /\ clk256 \in [cnt : 0 .. Half - 1, out : BOOLEAN]
    BY <2>4 DEF TimerInit
  <2>6. load \in Loads \cup {0} /\ value \in 0 .. Top /\ owed \in Int
    BY <2>3 DEF TimerInit
  <2>7. /\ state \in {"st_idle", "st_count"}
        /\ timer_irq_next \in BOOLEAN
        /\ state1 \in {"int_gen", "int_con", "int_clr"} /\ timer_irq \in BOOLEAN
    BY DEF TimerInit
  <2>8. QED
    BY <2>1, <2>2, <2>5, <2>6, <2>7 DEF TimerTypeOK
<1>2. Ready /\ HandOver
  BY DEF TimerInit, Ready, HandOver
<1>3. QED
  BY <1>1, <1>2 DEF TimerIInv

\* The registers keep their type, and a timer that is enabled is loaded.
LEMMA RegistersStep ==
  ASSUME Bounds, TimerTypeOK, Ready, Registers, NEW p \in Phases, Bus(p)
  PROVE  /\ phase' \in Phases /\ control' \in Control /\ load' \in Loads \cup {0}
         /\ Ready'
         /\ control.enable \/ control'.enable => load \in Loads /\ load' \in Loads
<1>1. phase' \in Phases /\ control' \in Control /\ load' \in Loads \cup {0}
  BY DEF TimerTypeOK, Registers, Bus, Phases
<1>2. load \in Loads => load' \in Loads
  BY DEF TimerTypeOK, Registers, Phases
<1>3. control.enable \/ control'.enable => load \in Loads
  BY DEF TimerTypeOK, Registers, Ready
<1>4. Ready'
  <2>1. CASE load' \in Loads
    BY <2>1 DEF Ready
  <2>2. CASE load' \notin Loads
    BY <1>2, <1>3, <2>2 DEF Ready, Bus
  <2>3. QED
    BY <2>1, <2>2
<1>5. QED
  BY <1>1, <1>2, <1>3, <1>4

LEMMA PrescaleStep ==
  ASSUME Bounds, TimerTypeOK, Prescale
  PROVE  /\ clk16' \in [cnt : 0 .. Half - 1, out : BOOLEAN]
         /\ clk256' \in [cnt : 0 .. Half - 1, out : BOOLEAN]
<1> DEFINE Counter == [cnt : 0 .. Half - 1, out : BOOLEAN]
<1>1. ASSUME NEW p \in Counter PROVE Prescaled(p) \in Counter
  BY DEF Bounds, Prescaled
<1>2. clk16 \in Counter /\ clk256 \in Counter
  BY DEF TimerTypeOK
<1>3. QED
  BY <1>1, <1>2 DEF Prescale

-----------------------------------------------------------------------------
\* The interrupt's state machine, and what it leaves owed, at an edge with or
\* without an expiry.
Handed(expired) ==
  /\ owed' = (IF expired THEN 1 ELSE 0)
  /\ timer_irq' \in BOOLEAN /\ state1' \in {"int_gen", "int_con", "int_clr"}
  /\ state1 = "int_gen" => state1' = (IF timer_irq_next THEN "int_con" ELSE "int_gen")
  /\ state1 = "int_con" => state1' = "int_clr"
  /\ state1 = "int_clr" => state1' = (IF timer_irq_next THEN "int_clr" ELSE "int_gen")
  /\ state1' = "int_gen" => timer_irq' = FALSE
  /\ state1' = "int_con" => timer_irq' = TRUE

LEMMA InterruptStep ==
  ASSUME TimerTypeOK, HandOver, NEW expired \in BOOLEAN,
         int_gen \/ int_con \/ int_clr, Owed(expired)
  PROVE  Handed(expired)
<1> DEFINE n == IF expired THEN 1 ELSE 0
<1>1. CASE int_gen
  <2>1. CASE timer_irq_next
    <3>1. /\ timer_irq' = TRUE /\ state1 = "int_gen" /\ state1' = "int_con"
          /\ owed = 1 /\ timer_irq = FALSE
      BY <1>1, <2>1 DEF int_gen, TimerTypeOK, HandOver
    <3>2. owed' = 1 + n - 1
      BY <3>1 DEF Owed
    <3>3. owed' = n
      BY <3>2
    <3>4. QED
      BY <2>1, <3>1, <3>3 DEF Handed
  <2>2. CASE ~timer_irq_next
    <3>1. /\ timer_irq' = FALSE /\ state1 = "int_gen" /\ state1' = "int_gen"
          /\ owed = 0 /\ timer_irq = FALSE
      BY <1>1, <2>2 DEF int_gen, TimerTypeOK, HandOver
    <3>2. owed' = 0 + n - 0
      BY <3>1 DEF Owed
    <3>3. owed' = n
      BY <3>2
    <3>4. QED
      BY <2>2, <3>1, <3>3 DEF Handed
  <2>3. QED
    BY <2>1, <2>2
<1>2. CASE int_con
  <2>1. /\ timer_irq' = TRUE /\ state1 = "int_con" /\ state1' = "int_clr"
        /\ owed = 0 /\ timer_irq = TRUE
    BY <1>2 DEF int_con, HandOver
  <2>2. owed' = 0 + n - 0
    BY <2>1 DEF Owed
  <2>3. owed' = n
    BY <2>2
  <2>4. QED
    BY <2>1, <2>3 DEF Handed
<1>3. CASE int_clr
  <2>1. timer_irq' = FALSE /\ owed = 0 /\ state1 = "int_clr"
    BY <1>3 DEF int_clr, HandOver
  <2>2. owed' = 0 + n - 0
    BY <2>1 DEF Owed
  <2>3. owed' = n
    BY <2>2
  <2>4. state1' = (IF timer_irq_next THEN "int_clr" ELSE "int_gen")
    BY <1>3 DEF int_clr
  <2>5. QED
    BY <2>1, <2>3, <2>4 DEF Handed
<1>4. QED
  BY <1>1, <1>2, <1>3

\* What an edge does to the counter, and that it keeps the hand-over.
CounterOK == state' \in {"st_idle", "st_count"} /\ value' \in 0 .. Top /\ timer_irq_next' \in BOOLEAN

LEMMA CounterStep ==
  ASSUME Bounds, TimerTypeOK, HandOver,
         control.enable \/ control'.enable => load \in Loads /\ load' \in Loads,
         NEW expired \in BOOLEAN, int_gen \/ int_con \/ int_clr, Owed(expired),
         \/ /\ ~expired /\ state = "st_idle"
            /\ \E e \in Enable, l \in Load : Start(e, l)
         \/ /\ expired /\ \E e \in Enable, m \in Periodic, l \in Load : Expire(e, m, l)
         \/ /\ ~expired /\ \E e \in Enable : Down(e)
         \/ /\ ~expired /\ Stopped
  PROVE  CounterOK /\ HandOver'
<1>0. /\ value \in 0 .. Top /\ timer_irq_next \in BOOLEAN
      /\ state \in {"st_idle", "st_count"} /\ state1 \in {"int_gen", "int_con", "int_clr"}
      /\ Handed(expired)
  BY InterruptStep DEF TimerTypeOK
<1>1. ASSUME NEW e \in Enable, e, NEW l \in Load PROVE l \in 2 .. Top
  <2>1. control.enable \/ control'.enable
    BY <1>1, Zenon DEF Enable
  <2>2. QED
    BY <2>1 DEF Load, Bounds
<1>2. CASE ~expired /\ state = "st_idle" /\ \E e \in Enable, l \in Load : Start(e, l)
  <2>1. PICK e \in Enable, l \in Load : Start(e, l)
    BY <1>2
  <2>2. value' \in 2 .. Top /\ state' = "st_count" /\ timer_irq_next' = timer_irq_next
    BY <2>1, <1>1 DEF Start
  <2>3. timer_irq_next = FALSE /\ state1 = "int_gen"
    BY <1>0, <1>2 DEF HandOver
  <2>4. state1' = "int_gen" /\ timer_irq' = FALSE /\ owed' = 0
    BY <1>0, <1>2, <2>3 DEF Handed
  <2>5. timer_irq_next' = FALSE /\ state1' # "int_con" /\ state1' # "int_clr"
    BY <2>2, <2>3, <2>4
  <2>6. value' \in 0 .. Top
    BY <2>2 DEF Bounds
  <2>7. CounterOK
    BY <2>2, <2>5, <2>6 DEF CounterOK
  <2>8. HandOver'
    BY <2>2, <2>4, <2>5 DEF HandOver
  <2>9. QED
    BY <2>7, <2>8
<1>3. CASE expired /\ \E e \in Enable, m \in Periodic, l \in Load : Expire(e, m, l)
  <2>1. PICK e \in Enable, m \in Periodic, l \in Load : Expire(e, m, l)
    BY <1>3
  <2>2. l \in 2 .. Top
    BY <2>1, <1>1 DEF Expire
  <2>3. value' \in 2 .. Top /\ timer_irq_next' = TRUE /\ state' = "st_count"
    BY <2>1, <2>2 DEF Expire, Bounds
  <2>4. timer_irq_next = FALSE /\ state1 # "int_con"
    BY <1>0, <2>1 DEF Expire, HandOver
  <2>5. state1' = "int_gen" /\ timer_irq' = FALSE /\ owed' = 1
    BY <1>0, <1>3, <2>4 DEF Handed
  <2>6. QED
    BY <2>3, <2>5 DEF HandOver, CounterOK, Bounds
<1>4. CASE ~expired /\ \E e \in Enable : Down(e)
  <2>1. PICK e \in Enable : Down(e)
    BY <1>4
  <2>2. /\ state = "st_count" /\ state' = "st_count" /\ timer_irq_next' = FALSE
        /\ value' = value - 1 /\ value \in 1 .. Top
    BY <1>0, <2>1 DEF Down, Bounds
  <2>3. value' \in 0 .. Top
    BY <2>2 DEF Bounds
  <2>4. owed' = 0
    BY <1>0, <1>4 DEF Handed
  <2>5. state1' = "int_con" => value' >= 1 /\ timer_irq' = TRUE
    BY <1>0, <2>2 DEF HandOver, Handed, Bounds
  <2>6. state1' = "int_gen" => timer_irq' = FALSE
    BY <1>0 DEF Handed
  <2>7. QED
    BY <2>2, <2>3, <2>4, <2>5, <2>6 DEF HandOver, CounterOK
<1>5. CASE ~expired /\ Stopped
  <2>1. value' = value /\ state' = state /\ timer_irq_next' = timer_irq_next
    BY <1>5 DEF Stopped
  <2>2. owed' = 0
    BY <1>0, <1>5 DEF Handed
  <2>3. state1' = "int_gen" => timer_irq_next = FALSE /\ timer_irq' = FALSE
    BY <1>0 DEF Handed
  <2>4. state1' = "int_con" => value >= 1 /\ timer_irq' = TRUE
    BY <1>0 DEF Handed, HandOver
  <2>5. state = "st_idle" => timer_irq_next = FALSE /\ state1' = "int_gen"
    BY <1>0 DEF Handed, HandOver
  <2>6. timer_irq_next => value >= 2
    BY DEF HandOver
  <2>7. QED
    BY <1>0, <2>1, <2>2, <2>3, <2>4, <2>5, <2>6 DEF HandOver, CounterOK
<1>6. QED
  BY <1>2, <1>3, <1>4, <1>5

-----------------------------------------------------------------------------
LEMMA StepInv == ASSUME Bounds, TimerIInv, [TimerNext]_timer_vars PROVE TimerIInv'
<1>1. CASE TimerNext
  <2>1. PICK expired \in BOOLEAN :
          /\ HclkEdge(expired)
          /\ \/ ~expired /\ state = "st_idle" /\ \E e \in Enable, l \in Load : Start(e, l)
             \/ expired /\ \E e \in Enable, m \in Periodic, l \in Load : Expire(e, m, l)
             \/ ~expired /\ \E e \in Enable : Down(e)
             \/ ~expired /\ Stopped
    <3>1. CASE TickStart
      BY <3>1 DEF TickStart
    <3>2. CASE TickExpire
      BY <3>2 DEF TickExpire
    <3>3. CASE TickDown
      BY <3>3 DEF TickDown
    <3>4. CASE TickStopped \/ NoTick
      BY <3>4 DEF TickStopped, NoTick
    <3>5. QED
      BY <1>1, <3>1, <3>2, <3>3, <3>4 DEF TimerNext
  <2>2. PICK p \in Phases : Bus(p)
    BY <1>1 DEF TimerNext
  <2>3. /\ phase' \in Phases /\ control' \in Control /\ load' \in Loads \cup {0}
        /\ Ready'
        /\ control.enable \/ control'.enable => load \in Loads /\ load' \in Loads
    BY <2>1, <2>2, RegistersStep DEF HclkEdge, TimerIInv
  <2>4. /\ clk16' \in [cnt : 0 .. Half - 1, out : BOOLEAN]
        /\ clk256' \in [cnt : 0 .. Half - 1, out : BOOLEAN]
    BY <2>1, PrescaleStep DEF HclkEdge, TimerIInv
  <2>5. CounterOK /\ HandOver'
    BY <2>1, <2>3, CounterStep DEF HclkEdge, TimerIInv
  <2>6. /\ state1' \in {"int_gen", "int_con", "int_clr"} /\ timer_irq' \in BOOLEAN
        /\ owed' \in Int
    <3>1. Handed(expired)
      BY <2>1, InterruptStep DEF HclkEdge, TimerIInv
    <3>2. QED
      BY <3>1 DEF Handed
  <2>7. QED
    BY <2>3, <2>4, <2>5, <2>6 DEF TimerIInv, TimerTypeOK, CounterOK
<1>2. CASE UNCHANGED timer_vars
  <2>1. TimerTypeOK'
    BY <1>2 DEF TimerIInv, TimerTypeOK, timer_vars
  <2>2. Ready' /\ HandOver'
    BY <1>2 DEF TimerIInv, Ready, HandOver, timer_vars
  <2>3. QED
    BY <2>1, <2>2 DEF TimerIInv
<1>3. QED
  BY <1>1, <1>2

\* The registers stay in range, and a timer is loaded before it is enabled.
LEMMA Inductive == ASSUME Bounds PROVE TimerSpec => []TimerIInv
BY TimerInitInv, StepInv, PTL DEF TimerSpec

\* Each expiry makes exactly one interrupt before the next, whatever the bus
\* writes to the timer and whatever a glitch of timerclk does (AHBTIMER.v:191).
THEOREM ExactlyOne == ASSUME Bounds PROVE TimerSpec => []OneInterruptEach
<1>1. TimerIInv => OneInterruptEach
  BY DEF TimerIInv, TimerTypeOK, HandOver, OneInterruptEach
<1>2. QED
  BY <1>1, Inductive, PTL
=============================================================================
