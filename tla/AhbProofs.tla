------------------------------ MODULE AhbProofs ------------------------------
(***************************************************************************)
(* Proofs about the bus and its slave that stalls.                         *)
(*                                                                         *)
(* The fabric, for every set of byte values: each transfer ends with the   *)
(* answer of the slave it was addressed to, and a memory behaves as if the *)
(* completed writes were its only steps.  The invariant is that the copies *)
(* of the address phase, in the multiplexer and in each slave, belong to   *)
(* the transfer the master has in its data phase, stalled or not, and that *)
(* the lanes a slave decodes are the bytes the transfer is about.          *)
(*                                                                         *)
(* The UART slave, for every FIFO depth and every set of bytes: the TX     *)
(* FIFO holds exactly the bytes the bus is owed, the baud divisor holds    *)
(* still under a byte, and a read begun with care is served.  A read of    *)
(* the empty RX FIFO may lose a byte, so what RX holds is only known to    *)
(* survive while reads are careful.                                        *)
(***************************************************************************)
EXTENDS AhbUart, AhbFabric, SequenceTheorems, TLAPS

Transfer == [to : Slaves, trans : BOOLEAN, write : BOOLEAN, size : 0 .. 2, at : Lanes]
Aligned(t) == t.at % Bytes(t.size) = 0

FabricTypeOK ==
  /\ current \in Transfer /\ Aligned(current)
  /\ words \in [Memories -> Words] /\ HWDATA \in Words

\* Copy a of slave s belongs to transfer t.
Belongs(a, s, t) ==
  /\ a.trans = t.trans /\ a.write = t.write /\ a.size = t.size /\ a.at = t.at
  /\ t.trans => (a.hsel = (t.to = s))

InStep ==
  /\ mux_sel = current.to
  /\ \A s \in Memories : Belongs(aphase[s], s, current)
  /\ ~current.trans \/ current.to \in Slaves
  /\ written = words

FabricInv == FabricTypeOK /\ InStep

-----------------------------------------------------------------------------
\* A slave's lanes are the bytes at .. at + size - 1.
LEMMA LanesAreBytes ==
  ASSUME NEW a, NEW t \in Transfer, Aligned(t), a.size = t.size, a.at = t.at
  PROVE  byte(a) = t.at .. t.at + Bytes(t.size) - 1
<1>1. t.size \in {0, 1, 2} /\ t.at \in {0, 1, 2, 3}
  BY DEF Transfer, Lanes
<1>2. CASE t.size = 0
  BY <1>1, <1>2 DEF byte, tx_byte, tx_half, tx_word, Bytes, Lanes
<1>3. CASE t.size = 1
  <2>1. t.at \in {0, 2} /\ Bytes(t.size) = 2
    BY <1>1, <1>3 DEF Aligned, Bytes
  <2>2. byte(a) = {i \in Lanes : i \div 2 = a.at \div 2}
    BY <1>3 DEF byte, tx_byte, tx_half, tx_word
  <2>3. ASSUME NEW i \in Lanes PROVE i \div 2 = a.at \div 2 <=> i \in t.at .. t.at + 1
    BY <2>1 DEF Lanes
  <2>4. t.at .. t.at + 1 \subseteq Lanes /\ t.at + Bytes(t.size) - 1 = t.at + 1
    BY <2>1 DEF Lanes
  <2>5. QED
    BY <2>2, <2>3, <2>4
<1>4. CASE t.size = 2
  <2>1. t.at = 0 /\ Bytes(t.size) = 4
    BY <1>1, <1>4 DEF Aligned, Bytes
  <2>2. byte(a) = 0 .. 3
    BY <1>4 DEF byte, tx_word, Lanes
  <2>3. t.at + Bytes(t.size) - 1 = 3
    BY <2>1
  <2>4. QED
    BY <2>1, <2>2, <2>3
<1>5. QED
  BY <1>1, <1>2, <1>3, <1>4

LEMMA FabricStarts == ASSUME FabricInit PROVE FabricInv
<1>1. Idle \in Transfer /\ Aligned(Idle)
  BY DEF Idle, Transfer, Aligned, Slaves, Memories, Lanes, Bytes
<1>2. FabricTypeOK
  BY <1>1 DEF FabricInit, FabricTypeOK, DataWords
<1>3. \A s \in Memories : Belongs(aphase[s], s, current)
  BY DEF FabricInit, Belongs, Sampled, Idle, Memories
<1>4. mux_sel = current.to /\ ~current.trans /\ written = words
  BY DEF FabricInit, Idle
<1>5. QED
  BY <1>2, <1>3, <1>4 DEF FabricInv, InStep

-----------------------------------------------------------------------------
\* A slave's write and the reference's are the same.
LEMMA WritesAgree ==
  ASSUME FabricInv, Store, Reference
  PROVE  words' = written' /\ words' \in [Memories -> Words]
<1> DEFINE c == current
<1> DEFINE New(s) == [i \in Lanes |->
             IF i \in c.at .. c.at + Bytes(c.size) - 1 THEN HWDATA[i] ELSE words[s][i]]
<1>1. c \in Transfer /\ Aligned(c) /\ words \in [Memories -> Words] /\ HWDATA \in Words
      /\ written = words
  BY DEF FabricInv, FabricTypeOK, InStep
<1>2. ASSUME NEW s \in Memories
      PROVE  Written(s) = IF c.trans /\ c.write /\ c.to = s THEN New(s) ELSE words[s]
  <2>1. Belongs(aphase[s], s, c)
    BY DEF FabricInv, InStep
  <2>2. byte(aphase[s]) = c.at .. c.at + Bytes(c.size) - 1
    BY <1>1, <2>1, LanesAreBytes DEF Belongs
  <2>3. QED
    BY <2>1, <2>2 DEF Written, Belongs
<1>3. ASSUME NEW s \in Memories PROVE New(s) \in Words /\ words[s] \in Words
  BY <1>1 DEF Words
<1>4. words' \in [Memories -> Words]
  BY <1>2, <1>3 DEF Store
<1>5. CASE c.trans /\ c.write /\ c.to \in Memories
  <2>1. Ready
    BY <1>5 DEF Ready, FabricInv, InStep, Memories
  <2>2. written' = [words EXCEPT ![c.to] = New(c.to)]
    BY <1>1, <1>5, <2>1 DEF Reference
  <2>3. words' = [words EXCEPT ![c.to] = New(c.to)]
    BY <1>1, <1>2, <1>5 DEF Store
  <2>4. QED
    BY <1>4, <2>2, <2>3
<1>6. CASE ~(c.trans /\ c.write /\ c.to \in Memories)
  <2>1. written' = words
    BY <1>1, <1>6 DEF Reference
  <2>2. words' = words
    BY <1>1, <1>2, <1>6 DEF Store
  <2>3. QED
    BY <1>4, <2>1, <2>2
<1>7. QED
  BY <1>5, <1>6

LEMMA FabricStep == ASSUME FabricInv, [FabricNext]_fabric_vars PROVE FabricInv'
<1>1. CASE FabricNext
  <2>1. words' = written' /\ words' \in [Memories -> Words]
    BY <1>1, WritesAgree DEF FabricNext
  <2>2. PICK t \in Transfers : Edge(t)
    BY <1>1 DEF FabricNext
  <2>3. t \in Transfer /\ Aligned(t)
    BY DEF Transfers, Transfer, Aligned
  <2>4. HWDATA' \in Words
    BY <2>2 DEF Edge, Master, DataWords, FabricInv, FabricTypeOK
  <2>5. CASE Ready
    <3>1. current' = t /\ mux_sel' = t.to
      BY <2>2, <2>5 DEF Edge, Master, Select, MUX_SEL
    <3>2. aphase' = [s \in Memories |-> Sampled(s, t)]
      BY <2>2, <2>5 DEF Edge, Sample
    <3>3. ASSUME NEW s \in Memories PROVE Belongs(Sampled(s, t), s, t)
      BY DEF Belongs, Sampled, HSEL
    <3>4. \A s \in Memories : Belongs(aphase'[s], s, current')
      BY <3>1, <3>2, <3>3
    <3>5. QED
      BY <2>1, <2>3, <2>4, <3>1, <3>4 DEF FabricInv, FabricTypeOK, InStep, Transfer
  <2>6. CASE ~Ready
    <3>1. UNCHANGED <<current, mux_sel, aphase>>
      BY <2>2, <2>6 DEF Edge, Master, Select, Sample
    <3>2. QED
      BY <2>1, <2>4, <3>1 DEF FabricInv, FabricTypeOK, InStep
  <2>7. QED
    BY <2>5, <2>6
<1>2. CASE UNCHANGED fabric_vars
  BY <1>2 DEF FabricInv, FabricTypeOK, InStep, fabric_vars
<1>3. QED
  BY <1>1, <1>2

\* Every transfer ends when its own slave is ready and with that slave's
\* answer, and a read gives what the completed writes left (AHBMUX.v:81).
THEOREM InTurn == FabricSpec => []AnswersInTurn
<1>1. ASSUME FabricInv PROVE AnswersInTurn
  <2>1. ASSUME Ready PROVE mux_sel = current.to /\ (current.to = "uart" => uart_ready)
    BY <1>1, <2>1 DEF FabricInv, InStep, Ready
  <2>2. ASSUME current.to \in Memories, current.trans, ~current.write
        PROVE  HRDATA(current.to) = written[current.to]
    BY <1>1, <2>2 DEF FabricInv, InStep, Belongs, HRDATA
  <2>3. QED
    BY <2>1, <2>2 DEF AnswersInTurn
<1>2. FabricSpec => []FabricInv
  BY FabricStarts, FabricStep, PTL DEF FabricSpec
<1>3. QED
  BY <1>1, <1>2, PTL

-----------------------------------------------------------------------------
\* The UART slave.
USE SyncFifoAssumption DEF Slot

\* The flags of a buffer and its pointers agree: what every lemma needs.
Good(f) == f \in Fifo /\ FlagsOK(f)

-----------------------------------------------------------------------------
\* The next pointer is a pointer, and another one.
LEMMA SuccType == \A p \in Slot : Succ(p) \in Slot /\ Succ(p) # p
  BY SMT DEF Succ

\* How many bytes a buffer holds.
LEMMA CountType ==
  ASSUME NEW f, Good(f)
  PROVE  /\ Count(f) \in 0 .. Depth
         /\ f.empty <=> Count(f) = 0
         /\ f.full <=> Count(f) = Depth
  BY SMT DEF Good, Fifo, FlagsOK, Count

\* Writing: one more byte, at the position after the last.
LEMMA PushWalk ==
  ASSUME NEW f, Good(f), ~f.full, NEW d \in Data
  PROVE  /\ Good(Push(f, d)) /\ Count(Push(f, d)) = Count(f) + 1
         /\ At(f.r, Count(f)) = f.w
         /\ \A i \in 1 .. Count(f) : At(f.r, i - 1) # f.w
<1>1. Push(f, d) \in Fifo
  BY SuccType DEF Good, Fifo, Push
<1>2. FlagsOK(Push(f, d)) /\ Count(Push(f, d)) = Count(f) + 1
  <2> DEFINE g == Push(f, d)
  <2>1. /\ g.w = Succ(f.w) /\ g.r = f.r /\ g.empty = FALSE
        /\ g.full = (Succ(f.w) = f.r)
    BY DEF Push, Good, Fifo
  <2>2. f.w \in Slot /\ f.r \in Slot
    BY DEF Good, Fifo
  <2> HIDE DEF g
  <2>3. FlagsOK(g)
    BY <2>1, Zenon DEF FlagsOK
  <2>4. Count(f) = IF f.w >= f.r THEN f.w - f.r ELSE f.w - f.r + Depth
    BY DEF Count
  <2>5. CASE Succ(f.w) = f.r
    <3>1. Count(g) = Depth
      BY <2>1, <2>5 DEF Count
    <3> QED
      BY <2>2, <2>3, <2>4, <2>5, <3>1, SMT DEF Succ, g
  <2>6. CASE Succ(f.w) # f.r
    <3>1. Count(g) = IF g.w >= g.r THEN g.w - g.r ELSE g.w - g.r + Depth
      BY <2>1, <2>6 DEF Count
    <3>2. f.w = f.r => f.empty
      BY DEF Good, FlagsOK
    <3> QED
      BY <2>1, <2>2, <2>3, <2>4, <2>6, <3>1, SMT DEF Succ, g
  <2> QED
    BY <2>5, <2>6
<1>3. At(f.r, Count(f)) = f.w /\ \A i \in 1 .. Count(f) : At(f.r, i - 1) # f.w
  BY SMT DEF Good, Fifo, FlagsOK, Count, At
<1> QED
  BY <1>1, <1>2, <1>3 DEF Good

\* Reading: one byte less, the walk starts one position further on.
LEMMA PopWalk ==
  ASSUME NEW f, Good(f), ~f.empty
  PROVE  /\ Good(Pop(f)) /\ Count(Pop(f)) = Count(f) - 1
         /\ \A i \in 1 .. Count(f) - 1 : At(Succ(f.r), i - 1) = At(f.r, i)
<1>1. Pop(f) \in Fifo
  BY SuccType DEF Good, Fifo, Pop
<1>2. FlagsOK(Pop(f)) /\ Count(Pop(f)) = Count(f) - 1
  <2> DEFINE g == Pop(f)
  <2>1. /\ g.w = f.w /\ g.r = Succ(f.r) /\ g.full = FALSE
        /\ g.empty = (Succ(f.r) = f.w)
    BY DEF Pop, Good, Fifo
  <2>2. f.w \in Slot /\ f.r \in Slot
    BY DEF Good, Fifo
  <2> HIDE DEF g
  <2>3. FlagsOK(g)
    BY <2>1, Zenon DEF FlagsOK
  <2>4. Count(g) = IF g.w >= g.r THEN g.w - g.r ELSE g.w - g.r + Depth
    BY <2>1 DEF Count
  <2>5. CASE f.full
    <3>1. Count(f) = Depth /\ f.w = f.r
      BY <2>5 DEF Count, Good, FlagsOK
    <3> QED
      BY <2>1, <2>2, <2>3, <2>4, <3>1, SMT DEF Succ, g
  <2>6. CASE ~f.full
    <3>1. Count(f) = IF f.w >= f.r THEN f.w - f.r ELSE f.w - f.r + Depth
      BY <2>6 DEF Count
    <3>2. f.w # f.r
      BY <2>6 DEF Good, FlagsOK
    <3> QED
      BY <2>1, <2>2, <2>3, <2>4, <3>1, <3>2, SMT DEF Succ, g
  <2> QED
    BY <2>5, <2>6
<1>3. \A i \in 1 .. Count(f) - 1 : At(Succ(f.r), i - 1) = At(f.r, i)
  BY SMT DEF Good, Fifo, FlagsOK, Count, At, Succ
<1> QED
  BY <1>1, <1>2, <1>3 DEF Good

\* What a buffer holds is a sequence of bytes.
LEMMA ContentsSeq ==
  ASSUME NEW f, Good(f)
  PROVE  /\ Contents(f) \in Seq(Data) /\ Len(Contents(f)) = Count(f)
         /\ \A i \in 1 .. Count(f) : Contents(f)[i] = f.arr[At(f.r, i - 1)]
<1>1. Count(f) \in Nat /\ Count(f) <= Depth
  BY CountType, SMT
<1>2. \A i \in 1 .. Count(f) : At(f.r, i - 1) \in Slot
  <2>1. f.r \in Slot
    BY DEF Good, Fifo
  <2> QED
    BY <1>1, <2>1, SMT DEF At
<1>3. Contents(f) \in [1 .. Count(f) -> Data]
  BY <1>2 DEF Contents, Good, Fifo
<1> QED
  BY <1>1, <1>3, SeqDef, LenProperties DEF Contents

\* A write to a buffer with room appends its byte.
LEMMA PushAppends ==
  ASSUME NEW f, Good(f), ~f.full, NEW d \in Data
  PROVE  Contents(Push(f, d)) = Append(Contents(f), d)
<1> DEFINE g == Push(f, d)
           s == Contents(g)
           t == Append(Contents(f), d)
           n == Count(f)
<1>1. /\ Good(g) /\ Count(g) = n + 1 /\ n \in Nat
      /\ At(f.r, n) = f.w
      /\ \A i \in 1 .. n : At(f.r, i - 1) # f.w
  BY PushWalk, CountType
<1>2. g.r = f.r /\ g.arr = [f.arr EXCEPT ![f.w] = d] /\ f.arr \in [Slot -> Data] /\ f.w \in Slot
  BY DEF Push, Good, Fifo
<1>3. /\ s \in Seq(Data) /\ Len(s) = n + 1
      /\ \A i \in 1 .. n + 1 : s[i] = g.arr[At(f.r, i - 1)]
  <2>1. /\ s \in Seq(Data) /\ Len(s) = Count(g)
        /\ \A i \in 1 .. Count(g) : s[i] = g.arr[At(g.r, i - 1)]
    <3> HIDE DEF g
    <3> QED
      BY <1>1, ContentsSeq
  <2> HIDE DEF g, n, s
  <2> QED
    BY <1>1, <1>2, <2>1
<1>4. /\ t \in Seq(Data) /\ Len(t) = n + 1 /\ t[n + 1] = d
      /\ \A i \in 1 .. n : t[i] = f.arr[At(f.r, i - 1)]
  BY ContentsSeq, AppendProperties
<1>5. \A i \in 1 .. n : g.arr[At(f.r, i - 1)] = f.arr[At(f.r, i - 1)]
  BY <1>1, <1>2
<1>6. g.arr[At(f.r, n)] = d
  BY <1>1, <1>2
<1> HIDE DEF g, s, t, n
<1>7. \A i \in 1 .. n + 1 : s[i] = t[i]
  <2> TAKE i \in 1 .. n + 1
  <2>1. CASE i = n + 1
    <3>1. i - 1 = n
      BY <2>1, <1>1, SMT
    <3> QED
      BY <2>1, <3>1, <1>3, <1>4, <1>6
  <2>2. CASE i \in 1 .. n
    BY <2>2, <1>3, <1>4, <1>5
  <2> QED
    BY <2>1, <2>2, <1>1, SMT
<1>8. s = t
  BY <1>3, <1>4, <1>7, SeqEqual
<1> QED
  BY <1>8 DEF s, t, g

\* A read of a buffer that is not empty removes its oldest byte.
LEMMA PopTail ==
  ASSUME NEW f, Good(f), ~f.empty
  PROVE  /\ Contents(Pop(f)) = Tail(Contents(f))
         /\ Contents(f) # <<>> /\ Head(Contents(f)) = Head0(f)
<1> DEFINE g == Pop(f)
           s == Contents(g)
           c == Contents(f)
           t == Tail(c)
           n == Count(f)
<1>1. /\ Good(g) /\ Count(g) = n - 1 /\ n \in Nat /\ n # 0
      /\ \A i \in 1 .. n - 1 : At(Succ(f.r), i - 1) = At(f.r, i)
  BY PopWalk, CountType, SMT
<1>2. g.r = Succ(f.r) /\ g.arr = f.arr /\ f.r \in Slot
  BY DEF Pop, Good, Fifo
<1>3. /\ s \in Seq(Data) /\ Len(s) = n - 1
      /\ \A i \in 1 .. n - 1 : s[i] = f.arr[At(f.r, i)]
  BY <1>1, <1>2, ContentsSeq
<1>4. /\ c \in Seq(Data) /\ Len(c) = n
      /\ \A i \in 1 .. n : c[i] = f.arr[At(f.r, i - 1)]
  BY ContentsSeq
<1>5. At(f.r, 0) = f.r
  BY <1>2, SMT DEF At
<1> HIDE DEF g, s, c, n
<1>6. c # <<>> /\ Head(c) = c[1] /\ c[1] = f.arr[f.r]
  <2>1. c # <<>>
    BY <1>1, <1>4, EmptySeq
  <2>2. c[1] = f.arr[At(f.r, 1 - 1)]
    BY <1>1, <1>4, SMT
  <2> QED
    BY <2>1, <2>2, <1>4, <1>5, HeadTailProperties
<1>7. /\ t \in Seq(Data) /\ Len(t) = n - 1
      /\ \A i \in 1 .. n - 1 : t[i] = c[i + 1]
  BY <1>4, <1>6, HeadTailProperties
<1>8. \A i \in 1 .. n - 1 : s[i] = t[i]
  <2> TAKE i \in 1 .. n - 1
  <2>1. i + 1 \in 1 .. n /\ (i + 1) - 1 = i
    BY <1>1, SMT
  <2> QED
    BY <2>1, <1>3, <1>4, <1>7
<1> HIDE DEF t
<1>9. s = t
  BY <1>3, <1>7, <1>8, SeqEqual
<1> QED
  BY <1>6, <1>9 DEF s, t, c, g, Head0

-----------------------------------------------------------------------------
\* Successors differ when their pointers do.
LEMMA SuccInjective == \A p, q \in Slot : Succ(p) = Succ(q) => p = q
  BY SMT DEF Succ

\* Reading and writing at once leaves the flags right, even on an empty
\* buffer, where the byte written is lost.
LEMMA PushPopGood ==
  ASSUME NEW f, Good(f), NEW d \in Data
  PROVE  Good(PushPop(f, d))
<1> DEFINE g == PushPop(f, d)
<1>1. /\ g \in Fifo
      /\ g.w = Succ(f.w) /\ g.r = Succ(f.r) /\ g.full = f.full /\ g.empty = f.empty
  BY SuccType DEF Good, Fifo, PushPop
<1>2. g.w = g.r <=> f.w = f.r
  BY <1>1, SuccInjective DEF Good, Fifo
<1> HIDE DEF g
<1>3. Good(g)
  BY <1>1, <1>2 DEF Good, FlagsOK
<1> QED
  BY <1>3 DEF g

\* Buffers with the same array, pointers and flags are the same.
LEMMA SameFifo ==
  ASSUME NEW f \in Fifo, NEW g \in Fifo, f.arr = g.arr, f.w = g.w, f.r = g.r,
         f.full = g.full, f.empty = g.empty
  PROVE  f = g
  BY DEF Fifo

\* With a byte there and room for another, it is a read and then a write.
LEMMA PushPopIsBoth ==
  ASSUME NEW f, Good(f), ~f.empty, ~f.full, NEW d \in Data
  PROVE  PushPop(f, d) = Push(Pop(f), d)
<1> DEFINE g == Pop(f)
           x == PushPop(f, d)
           y == Push(g, d)
<1>1. Succ(f.w) # Succ(f.r)
  BY SuccInjective DEF Good, FlagsOK, Fifo
<1>2. /\ g \in Fifo /\ Good(g) /\ ~g.full
      /\ g.arr = f.arr /\ g.w = f.w /\ g.r = Succ(f.r)
  BY PopWalk DEF Pop, Good, Fifo
<1>3. /\ x \in Fifo /\ x.arr = [f.arr EXCEPT ![f.w] = d]
      /\ x.w = Succ(f.w) /\ x.r = Succ(f.r) /\ ~x.full /\ ~x.empty
  BY PushPopGood DEF PushPop, Good, Fifo
<1> HIDE DEF g
<1>4. /\ y \in Fifo /\ y.arr = [g.arr EXCEPT ![g.w] = d]
      /\ y.w = Succ(g.w) /\ y.r = g.r /\ y.full = (Succ(g.w) = g.r) /\ ~y.empty
  BY <1>2, PushWalk DEF Push, Good, Fifo
<1> HIDE DEF x, y
<1>5. /\ x.full \in BOOLEAN /\ y.full \in BOOLEAN
      /\ x.empty \in BOOLEAN /\ y.empty \in BOOLEAN
  BY <1>3, <1>4 DEF Fifo
<1>6. x.full = y.full /\ x.empty = y.empty
  BY <1>1, <1>2, <1>3, <1>4, <1>5
<1>7. x = y
  BY <1>2, <1>3, <1>4, <1>6, SameFifo
<1> QED
  BY <1>7 DEF x, y, g

\* A clock edge keeps a buffer's type and flags, whatever its ports say.
LEMMA StepGood ==
  ASSUME NEW f, Good(f), NEW rd \in BOOLEAN, NEW wr \in BOOLEAN, NEW d \in Data
  PROVE  Good(FifoStep(f, rd, wr, d))
  BY PushWalk, PopWalk, PushPopGood DEF FifoStep

\* A clock edge without a write ignores what is on the data port.
LEMMA StepQuiet ==
  ASSUME NEW f, Good(f), NEW rd \in BOOLEAN, NEW v, NEW d \in Data
  PROVE  FifoStep(f, rd, FALSE, v) = FifoStep(f, rd, FALSE, d)
  BY DEF FifoStep

\* A clock edge of a buffer that is only read when it holds a byte: the
\* byte read leaves its front, the byte written joins its end.
LEMMA StepContents ==
  ASSUME NEW f, Good(f), NEW rd \in BOOLEAN, NEW wr \in BOOLEAN, NEW d \in Data,
         rd => ~f.empty
  PROVE  Contents(FifoStep(f, rd, wr, d)) =
           LET s == IF rd THEN Tail(Contents(f)) ELSE Contents(f)
           IN  IF wr /\ ~f.full THEN Append(s, d) ELSE s
<1>1. CASE rd /\ wr /\ ~f.full
  <2>1. FifoStep(f, rd, wr, d) = Push(Pop(f), d)
    BY <1>1, PushPopIsBoth DEF FifoStep
  <2>2. Good(Pop(f)) /\ ~Pop(f).full /\ Contents(Pop(f)) = Tail(Contents(f))
    BY <1>1, PopWalk, PopTail DEF Pop, Good, Fifo
  <2>3. Contents(Push(Pop(f), d)) = Append(Tail(Contents(f)), d)
    <3> DEFINE g == Pop(f)
    <3> HIDE DEF g
    <3>1. Good(g) /\ ~g.full /\ Contents(g) = Tail(Contents(f))
      BY <2>2 DEF g
    <3>2. Contents(Push(g, d)) = Append(Contents(g), d)
      BY <3>1, PushAppends
    <3> QED
      BY <3>1, <3>2 DEF g
  <2> QED
    BY <1>1, <2>1, <2>3
<1>2. CASE rd /\ ~(wr /\ ~f.full)
  BY <1>2, PopTail DEF FifoStep
<1>3. CASE ~rd /\ wr /\ ~f.full
  BY <1>3, PushAppends DEF FifoStep
<1>4. CASE ~rd /\ ~(wr /\ ~f.full)
  BY <1>4 DEF FifoStep
<1> QED
  BY <1>1, <1>2, <1>3, <1>4

-----------------------------------------------------------------------------
UInv == TypeOK /\ FlagsAgree /\ TxIntact

\* After reset both FIFOs are empty and nothing is owed.
LEMMA InitInv == Init => UInv
<1> SUFFICES ASSUME Init PROVE UInv
  OBVIOUS
<1>1. ASSUME NEW f, FifoInit(f)
      PROVE  f \in Fifo /\ FlagsOK(f) /\ Contents(f) = <<>>
  <2>1. PICK a \in [Slot -> Data] :
          f = [arr |-> a, w |-> 0, r |-> 0, full |-> FALSE, empty |-> TRUE]
    BY <1>1 DEF FifoInit
  <2>2. f \in Fifo /\ FlagsOK(f)
    BY <2>1, SMT DEF Fifo, FlagsOK
  <2>3. Count(f) = 0
    BY <2>1, SMT DEF Count
  <2> QED
    BY <2>2, <2>3 DEF Contents
<1>2. TypeOK
  BY <1>1, BaudAssumption DEF Init, TypeOK, Phases
<1>3. FlagsAgree /\ TxIntact
  BY <1>1 DEF Init, FlagsAgree, TxIntact
<1> QED
  BY <1>2, <1>3 DEF UInv

\* UART_TX is only busy while the TX FIFO holds the byte it sends.
LEMMA BusyHolds == ASSUME UInv, txBusy PROVE ~tx.empty
<1>1. Good(tx) /\ Contents(tx) # <<>>
  BY DEF UInv, TypeOK, FlagsAgree, TxIntact, Good
<1>2. Count(tx) # 0
  BY <1>1 DEF Contents
<1> QED
  BY <1>1, <1>2, CountType

\* Every clock edge preserves the invariant.
LEMMA TickInv ==
  ASSUME UInv, NEW p \in Phases, NEW v \in Carried(p),
         NEW tx_done \in BOOLEAN, NEW rx_done \in BOOLEAN, NEW d \in Data,
         Tick(p, v, tx_done, rx_done, d)
  PROVE  UInv'
<1>0. Good(tx) /\ Good(rx) /\ TypeOK /\ TxIntact
  BY DEF UInv, TypeOK, FlagsAgree, Good
<1>1. Good(rx')
  BY <1>0, StepGood DEF Tick, uart_rd
<1>2. Good(tx')
  <2>1. CASE uart_wr
    BY <2>1, <1>0, StepGood DEF Tick, uart_wr, TypeOK
  <2>2. CASE ~uart_wr
    <3>1. tx' = FifoStep(tx, tx_done, FALSE, d)
      BY <1>0, <2>2, StepQuiet DEF Tick, uart_wr
    <3> QED
      BY <1>0, <3>1, StepGood
  <2> QED
    BY <2>1, <2>2
<1>3. Contents(tx') = owed'
  <2>1. tx_done => ~tx.empty
    BY BusyHolds DEF Tick
  <2>2. uart_wr => (HREADY <=> ~tx.full)
    BY DEF HREADY, HREADYOUT, uart_wr
  <2>3. CASE uart_wr
    BY <1>0, <2>1, <2>2, <2>3, StepContents DEF Tick, Owed, TxIntact, uart_wr, TypeOK
  <2>4. CASE ~uart_wr
    <3>1. tx' = FifoStep(tx, tx_done, FALSE, d)
      BY <1>0, <2>4, StepQuiet DEF Tick, uart_wr
    <3>2. Contents(tx') = IF tx_done THEN Tail(Contents(tx)) ELSE Contents(tx)
      BY <1>0, <2>1, <3>1, StepContents
    <3> QED
      BY <1>0, <2>4, <3>2 DEF Tick, Owed, TxIntact
  <2> QED
    BY <2>3, <2>4
<1>4. txBusy' => owed' # <<>> /\ shift' = Head(owed')
  <2>1. SUFFICES ASSUME txBusy' PROVE owed' # <<>> /\ shift' = Head(owed')
    OBVIOUS
  <2>2. ~tx_done
    BY <2>1 DEF Tick, TxEngine
  <2>3. owed # <<>> /\ shift' = Head(owed)
    <3>1. CASE txBusy
      BY <1>0, <2>2, <3>1 DEF Tick, TxEngine, TxIntact
    <3>2. CASE ~txBusy
      <4>1. ~tx.empty /\ shift' = Head0(tx)
        BY <2>1, <3>2 DEF Tick, TxEngine
      <4> QED
        BY <1>0, <4>1, PopTail DEF TxIntact
    <3> QED
      BY <3>1, <3>2
  <2>4. owed \in Seq(Data)
    BY <1>0, ContentsSeq DEF TxIntact
  <2>5. CASE uart_wr /\ HREADY
    <3>1. owed' = Append(owed, hwdata) /\ hwdata \in Data
      BY <1>0, <2>2, <2>5 DEF Tick, Owed, TypeOK, uart_wr
    <3> QED
      BY <2>3, <2>4, <3>1, HeadTailAppend, AppendProperties
  <2>6. CASE ~(uart_wr /\ HREADY)
    BY <2>2, <2>3, <2>6 DEF Tick, Owed
  <2> QED
    BY <2>5, <2>6
<1>5. TypeOK'
  <2>1. /\ phase' \in Phases /\ hwdata' \in Data \cup Bauds
        /\ phase' = "write" => hwdata' \in Data
        /\ phase' = "setbps" => hwdata' \in Bauds
    BY <1>0 DEF Tick, Bus, TypeOK, Phases, Carried
  <2>2. txBusy' \in BOOLEAN /\ shift' \in Data
    BY <1>0 DEF Tick, TxEngine, TypeOK, Head0, Good, Fifo
  <2>3. hbps' \in Bauds /\ bps' \in Bauds
    BY <1>0 DEF Tick, Baud, TypeOK
  <2> QED
    BY <1>1, <1>2, <2>1, <2>2, <2>3 DEF TypeOK, Good
<1> QED
  BY <1>1, <1>2, <1>3, <1>4, <1>5 DEF UInv, FlagsAgree, TxIntact, Good

\* Every step preserves the invariant.
LEMMA NextInv == UInv /\ [Next]_vars => UInv'
<1>1. ASSUME UInv, Next PROVE UInv'
  BY <1>1, TickInv DEF Next
<1>2. ASSUME UInv, UNCHANGED vars PROVE UInv'
  BY <1>2 DEF vars, UInv, TypeOK, FlagsAgree, TxIntact
<1> QED
  BY <1>1, <1>2

\* The invariant holds in every reachable state, whatever software does.
THEOREM Invariant == Spec => []UInv
  BY InitInv, NextInv, PTL DEF Spec

\* The registers and both FIFOs keep their types.
THEOREM TypeCorrect == Spec => []TypeOK
<1>1. UInv => TypeOK
  BY DEF UInv
<1> QED
  BY <1>1, Invariant, PTL

\* AHBUART neither loses, repeats nor reorders a byte whose write completed
\* on the bus, and the byte being sent is the oldest of them: for every
\* depth of the FIFO and any interleaving of stalled writes with tx_done.
THEOREM NothingLost == Spec => []TxIntact
<1>1. UInv => TxIntact
  BY DEF UInv
<1> QED
  BY <1>1, Invariant, PTL

\* Neither FIFO's flags ever contradict its pointers.
THEOREM FlagsRight == Spec => []FlagsAgree
<1>1. UInv => FlagsAgree
  BY DEF UInv
<1> QED
  BY <1>1, Invariant, PTL

\* A byte goes out at one baud rate: the divisor is only loaded while
\* UART_TX is idle and stays idle, because the TX FIFO gives up a byte only
\* when it has been sent.
THEOREM OneBaud == Spec => TxOneBaud
<1>1. UInv /\ [Next]_vars => [bps' # bps => ~txBusy /\ ~txBusy']_vars
  <2> SUFFICES ASSUME UInv, Next, bps' # bps PROVE ~txBusy /\ ~txBusy'
    OBVIOUS
  <2>1. PICK p \in Phases, tx_done \in BOOLEAN, rx_done \in BOOLEAN, d \in Data :
               \E v \in Carried(p) : Tick(p, v, tx_done, rx_done, d)
    BY DEF Next
  <2>2. tx.empty
    BY <2>1 DEF Tick, Baud
  <2>3. ~txBusy
    BY <2>2, BusyHolds
  <2> QED
    BY <2>1, <2>2, <2>3 DEF Tick, TxEngine
<1> QED
  BY <1>1, Invariant, PTL DEF Spec, TxOneBaud

-----------------------------------------------------------------------------
\* What care buys: in the data phase of a careful read there is a byte to
\* take, and the bus is not stalled.
ReadReady == uart_rd /\ careful => ~rx.empty /\ ~tx.full

ReadInv == UInv /\ ReadReady

\* A clock edge can only fill a buffer by writing its last free place, and
\* only empty one by reading.
LEMMA StepFlags ==
  ASSUME NEW f, Good(f), NEW rd \in BOOLEAN, NEW wr \in BOOLEAN, NEW d \in Data
  PROVE  /\ ~rd /\ ~f.empty => ~FifoStep(f, rd, wr, d).empty
         /\ ~f.full /\ (wr => Count(f) < Depth - 1) => ~FifoStep(f, rd, wr, d).full
<1>1. ~Push(f, d).empty
  BY DEF Push, Good, Fifo
<1>2. ~Pop(f).full
  BY DEF Pop, Good, Fifo
<1>3. PushPop(f, d).full = f.full
  BY DEF PushPop, Good, Fifo
<1>4. ~f.full /\ Count(f) < Depth - 1 => ~Push(f, d).full
  <2> SUFFICES ASSUME ~f.full, Count(f) < Depth - 1 PROVE ~Push(f, d).full
    OBVIOUS
  <2> DEFINE g == Push(f, d)
  <2>1. Good(g) /\ Count(g) = Count(f) + 1 /\ Count(f) \in Nat
    BY PushWalk, CountType
  <2> HIDE DEF g
  <2>2. g.full <=> Count(g) = Depth
    BY <2>1, CountType
  <2>3. Count(g) # Depth
    BY <2>1
  <2> QED
    BY <2>2, <2>3 DEF g
<1> QED
  BY <1>1, <1>2, <1>3, <1>4 DEF FifoStep

\* The TX FIFO's ports carry a byte whenever they are used.
LEMMA TxStep ==
  ASSUME UInv, NEW tx_done \in BOOLEAN, NEW d \in Data
  PROVE  FifoStep(tx, tx_done, uart_wr, hwdata) =
           FifoStep(tx, tx_done, uart_wr, IF uart_wr THEN hwdata ELSE d)
  BY DEF FifoStep

\* A careful read finds what it was promised when its data phase comes.
LEMMA TickReady ==
  ASSUME ReadInv, NEW p \in Phases, NEW v \in Carried(p),
         NEW tx_done \in BOOLEAN, NEW rx_done \in BOOLEAN, NEW d \in Data,
         Tick(p, v, tx_done, rx_done, d)
  PROVE  ReadReady'
<1>0. Good(tx) /\ Good(rx) /\ (uart_wr => hwdata \in Data)
  BY DEF ReadInv, UInv, TypeOK, FlagsAgree, Good, uart_wr
<1> SUFFICES ASSUME uart_rd', careful' PROVE ~rx'.empty /\ ~tx'.full
  BY DEF ReadReady
<1>1. HREADY
  <2> SUFFICES ASSUME ~HREADY PROVE FALSE
    OBVIOUS
  <2>1. uart_rd /\ careful
    BY DEF Tick, Bus, uart_rd
  <2>2. ~tx.full
    BY <2>1 DEF ReadInv, ReadReady
  <2> QED
    BY <2>2 DEF HREADY, HREADYOUT
<1>2. /\ ~rx.empty /\ ~uart_rd /\ ~tx.full
      /\ uart_wr => Count(tx) < Depth - 1
  BY <1>1 DEF Tick, Bus, Careful, uart_rd, uart_irq
<1>3. ~rx'.empty
  BY <1>0, <1>2, StepFlags DEF Tick, uart_rd
<1>4. ~tx'.full
  <2> DEFINE w == IF uart_wr THEN hwdata ELSE d
  <2>1. w \in Data /\ uart_wr \in BOOLEAN
    BY <1>0 DEF uart_wr
  <2>2. tx' = FifoStep(tx, tx_done, uart_wr, w)
    BY TxStep DEF Tick, ReadInv
  <2> HIDE DEF w
  <2> QED
    BY <1>0, <1>2, <2>1, <2>2, StepFlags
<1> QED
  BY <1>3, <1>4

LEMMA ReadNext == ReadInv /\ [Next]_vars => ReadInv'
<1>1. ASSUME ReadInv, Next PROVE ReadInv'
  BY <1>1, TickReady, NextInv DEF Next, ReadInv
<1>2. ASSUME ReadInv, UNCHANGED vars PROVE ReadInv'
  BY <1>2, NextInv DEF vars, ReadInv, ReadReady, uart_rd
<1> QED
  BY <1>1, <1>2

\* A sequence is the front of itself and of itself with one more element.
LEMMA FrontKept ==
  ASSUME NEW S, NEW s \in Seq(S), NEW d \in S
  PROVE  /\ SubSeq(s, 1, Len(s)) = s
         /\ SubSeq(Append(s, d), 1, Len(s)) = s
<1>1. ASSUME NEW t \in Seq(S), Len(t) >= Len(s), \A i \in 1 .. Len(s) : t[i] = s[i]
      PROVE  SubSeq(t, 1, Len(s)) = s
  <2> DEFINE u == SubSeq(t, 1, Len(s))
  <2>1. u \in Seq(S) /\ Len(u) = Len(s) /\ \A i \in 1 .. Len(s) : u[i] = t[i]
    BY <1>1, SubSeqProperties, LenProperties
  <2> HIDE DEF u
  <2>2. u = s
    BY <1>1, <2>1, SeqEqual
  <2> QED
    BY <2>2 DEF u
<1>2. SubSeq(s, 1, Len(s)) = s
  BY <1>1, LenProperties
<1>3. /\ Append(s, d) \in Seq(S) /\ Len(Append(s, d)) >= Len(s)
      /\ \A i \in 1 .. Len(s) : Append(s, d)[i] = s[i]
  BY AppendProperties, LenProperties
<1> QED
  BY <1>1, <1>2, <1>3

\* One clock edge serves a careful read with the oldest byte, and takes no
\* other byte out of the RX FIFO.
LEMMA TickServes ==
  ASSUME ReadInv, NEW rx_done \in BOOLEAN, NEW d \in Data,
         rx' = FifoStep(rx, uart_rd, rx_done, d), uart_rd => careful
  PROVE  LET before == Contents(rx)
             kept == IF uart_rd THEN Tail(before) ELSE before
         IN  /\ uart_rd => HREADY /\ before # <<>>
             /\ SubSeq(Contents(rx'), 1, Len(kept)) = kept
<1> DEFINE before == Contents(rx)
           kept == IF uart_rd THEN Tail(before) ELSE before
<1>1. Good(rx) /\ before \in Seq(Data)
  BY ContentsSeq DEF ReadInv, UInv, TypeOK, FlagsAgree, Good
<1>2. uart_rd => ~rx.empty /\ ~tx.full
  BY DEF ReadInv, ReadReady
<1>3. uart_rd => HREADY /\ before # <<>>
  BY <1>1, <1>2, PopTail DEF HREADY, HREADYOUT
<1>4. kept \in Seq(Data)
  BY <1>1, <1>3, HeadTailProperties
<1>5. Contents(rx') = IF rx_done /\ ~rx.full THEN Append(kept, d) ELSE kept
  BY <1>1, <1>2, StepContents DEF uart_rd
<1> HIDE DEF kept
<1>6. SubSeq(Contents(rx'), 1, Len(kept)) = kept
  BY <1>4, <1>5, FrontKept
<1> QED
  BY <1>3, <1>6 DEF kept

\* The driver's read of a received byte: begun when the interrupt promises
\* a byte, it completes at once with the oldest one, whether another byte
\* arrives at that edge or not, and no other byte is lost or moved.
THEOREM ReadsServed == Spec => RxServed
<1>1. Init => ReadInv
  BY InitInv DEF Init, ReadInv, ReadReady, uart_rd
<1>2. ReadInv /\ [Next]_vars =>
        [LET before == Contents(rx)
             kept == IF uart_rd THEN Tail(before) ELSE before
         IN  (uart_rd => careful) =>
               /\ uart_rd => HREADY /\ before # <<>>
               /\ SubSeq(Contents(rx'), 1, Len(kept)) = kept]_vars
  BY TickServes DEF Next, Tick
<1> QED
  BY <1>1, <1>2, ReadNext, PTL DEF Spec, RxServed
=============================================================================
